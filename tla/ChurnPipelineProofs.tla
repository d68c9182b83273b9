------------------------ MODULE ChurnPipelineProofs ------------------------
(* Theorems about ChurnPipeline, for any number of runs and faults. *)
EXTENDS ChurnPipeline, SequenceTheorems, TLAPS

(* The log of every pod: complete for the steps behind, empty for those    *)
(* ahead, and open from the guard on for the current one.                  *)
AuditInv ==
  \A r \in Runs :
    /\ \A s \in Steps : s > step[r] => audit[r][s] = "nothing"
    /\ pc[r] = "guard" => audit[r][step[r]] = "nothing"
    /\ pc[r] \in {"enter", "exit", "raise", "finalize"} \cup Body => audit[r][step[r]] = "started"

(* A pod that is about to set the alias has registered its model. *)
AliasInv ==
  \A r \in Runs : pc[r] = "alias" => \E v \in DOMAIN registry : registry[v] = r

LEMMA Distinct ==
  ASSUME NEW r \in Runs
  PROVE  {r} # Unread /\ {r} # Absent /\ Unread # {} /\ Absent # {} /\ {} # {r}
         /\ Unread \notin SUBSET Runs /\ Absent \notin SUBSET Runs
BY PipelineAssumption DEF Unread, Absent

(* The versions of the registry keep their places when one is added. *)
LEMMA Registering ==
  ASSUME NEW reg \in Seq(Runs), NEW r \in Runs
  PROVE  /\ Append(reg, r) \in Seq(Runs)
         /\ Len(Append(reg, r)) = Len(reg) + 1
         /\ DOMAIN reg \subseteq DOMAIN Append(reg, r)
         /\ DOMAIN Append(reg, r) = DOMAIN reg \cup {Len(reg) + 1}
         /\ \A v \in DOMAIN reg : Append(reg, r)[v] = reg[v]
         /\ Append(reg, r)[Len(reg) + 1] = r
OBVIOUS

(* Every step keeps control, audit and fault counts well typed. *)
LEMMA PodTypeStep ==
  ASSUME PodTypeOK, [PipelineNext]_pipelineVars
  PROVE  PodTypeOK'
<1> USE PipelineAssumption DEF PodTypeOK, Steps, Phase, Body, Over, data, events, lineage, Goto, At, Fault, Arrives, IsLost
<1>1. ASSUME NEW r \in Runs, Guard(r)
      PROVE  PodTypeOK'
  BY <1>1 DEF Guard, Audit
<1>2. ASSUME NEW r \in Runs, RaiseOutside(r)
      PROVE  PodTypeOK'
  BY <1>2 DEF RaiseOutside
<1>3. ASSUME NEW r \in Runs, Enter(r)
      PROVE  PodTypeOK'
  BY <1>3 DEF Enter
<1>4. ASSUME NEW r \in Runs, RaiseInside(r)
      PROVE  PodTypeOK'
  BY <1>4 DEF RaiseInside
<1>5. ASSUME NEW r \in Runs, Exit(r)
      PROVE  PodTypeOK'
  BY <1>5 DEF Exit
<1>6. ASSUME NEW r \in Runs, ExitRaising(r)
      PROVE  PodTypeOK'
  BY <1>6 DEF ExitRaising
<1>7. ASSUME NEW r \in Runs, Finalize(r)
      PROVE  PodTypeOK'
  BY <1>7 DEF Finalize, Audit, Register
<1>8. ASSUME NEW r \in Runs, Kill(r)
      PROVE  PodTypeOK'
  BY <1>8 DEF Kill
<1>9. ASSUME NEW r \in Runs, DropTable(r) \/ CreateTable(r) \/ InsertRows(r)
      PROVE  PodTypeOK'
  BY <1>9 DEF DropTable, CreateTable, InsertRows
<1>10. ASSUME NEW r \in Runs, Work(r) \/ SkipRegistration(r)
      PROVE  PodTypeOK'
  BY <1>10 DEF Work, SkipRegistration
<1>11. ASSUME NEW r \in Runs, MaterializeRows(r) \/ ReadLabels(r) \/ ReadFeatures(r)
      PROVE  PodTypeOK'
  BY <1>11 DEF MaterializeRows, ReadLabels, ReadFeatures
<1>12. ASSUME NEW r \in Runs, TrainModel(r) \/ RegisterModel(r) \/ SetChampion(r)
      PROVE  PodTypeOK'
  BY <1>12 DEF TrainModel, RegisterModel, SetChampion
<1>13. ASSUME UNCHANGED pipelineVars
      PROVE  PodTypeOK'
  BY <1>13 DEF pipelineVars
<1>14. QED
  BY <1>1, <1>2, <1>3, <1>4, <1>5, <1>6, <1>7, <1>8, <1>9, <1>10, <1>11, <1>12, <1>13 DEF PipelineNext, AllOver


(* Every step keeps the data runs share and hold well typed. *)
LEMMA DataTypeStep ==
  ASSUME PodTypeOK, DataTypeOK, AliasInv, [PipelineNext]_pipelineVars
  PROVE  DataTypeOK'
<1> USE DEF DataTypeOK, data, events, lineage, Goto, At, Fault, Arrives, IsLost
<1>1. ASSUME NEW r \in Runs, Exit(r)
      PROVE  DataTypeOK'
  BY <1>1 DEF Exit, Touch
<1>2. ASSUME NEW r \in Runs, DropTable(r) \/ CreateTable(r) \/ InsertRows(r)
      PROVE  DataTypeOK'
  <2>1. table' \in (SUBSET Runs) \cup {Absent}
    <3>1. table' = Absent \/ table' = {} \/ (table # Absent /\ table' = table \cup {r})
      BY <1>2 DEF DropTable, CreateTable, InsertRows
    <3>2. table # Absent => table \in SUBSET Runs
      OBVIOUS
    <3>3. QED
      BY <3>1, <3>2
  <2>2. disturbed' \subseteq Runs
    BY <1>2 DEF DropTable, CreateTable, InsertRows, Touch
  <2>3. QED
    BY <1>2, <2>1, <2>2 DEF DropTable, CreateTable, InsertRows
<1>3. ASSUME NEW r \in Runs, MaterializeRows(r)
      PROVE  DataTypeOK'
  <2>1. table \in Rows
    BY <1>3 DEF MaterializeRows, Rows
  <2>2. QED
    BY <1>3, <2>1 DEF MaterializeRows
<1>4. ASSUME NEW r \in Runs, ReadLabels(r)
      PROVE  DataTypeOK'
  <2>1. table \in Rows
    BY <1>4 DEF ReadLabels, Rows
  <2>2. QED
    BY <1>4, <2>1 DEF ReadLabels
<1>5. ASSUME NEW r \in Runs, ReadFeatures(r)
      PROVE  DataTypeOK'
  <2>1. table \in Rows
    BY <1>5 DEF ReadFeatures, Rows
  <2>2. QED
    BY <1>5, <2>1 DEF ReadFeatures
<1>6. ASSUME NEW r \in Runs, TrainModel(r)
      PROVE  DataTypeOK'
  BY <1>6 DEF TrainModel
<1>7. ASSUME NEW r \in Runs, RegisterModel(r)
      PROVE  DataTypeOK'
  BY <1>7, Registering DEF RegisterModel
<1>8. ASSUME NEW r \in Runs, SetChampion(r)
      PROVE  DataTypeOK'
  BY <1>8 DEF SetChampion, AliasInv
<1>9. ASSUME NEW r \in Runs,
             \/ Guard(r)
             \/ RaiseOutside(r)
             \/ Enter(r)
             \/ RaiseInside(r)
             \/ ExitRaising(r)
             \/ Finalize(r)
             \/ Kill(r)
             \/ Work(r)
             \/ SkipRegistration(r)
      PROVE  DataTypeOK'
  BY <1>9 DEF Guard, RaiseOutside, Enter, RaiseInside, ExitRaising, Finalize, Kill, Work, SkipRegistration
<1>10. ASSUME UNCHANGED pipelineVars
      PROVE  DataTypeOK'
  BY <1>10 DEF pipelineVars
<1>11. QED
  BY <1>1, <1>2, <1>3, <1>4, <1>5, <1>6, <1>7, <1>8, <1>9, <1>10 DEF PipelineNext, AllOver


(* What an event that arrives changes, and what it leaves alone. *)
LEMMA ArrivesAt ==
  ASSUME PodTypeOK, MarquezTypeOK, NEW r \in Runs, NEW shown \in Shown, Arrives(r, shown)
  PROVE  /\ marquez' \in [Runs -> [Steps -> Shown]]
         /\ marquez'[r][step[r]] = shown
         /\ \A c \in Runs, d \in Steps : c # r \/ d # step[r] => marquez'[c][d] = marquez[c][d]
         /\ lost' = lost
<1>1. marquez \in [Runs -> [Steps -> Shown]] /\ step[r] \in Steps
  BY DEF PodTypeOK, MarquezTypeOK
<1>2. marquez' = [marquez EXCEPT ![r] = [marquez[r] EXCEPT ![step[r]] = shown]] /\ lost' = lost
  BY DEF Arrives
<1>3. PICK m \in [Steps -> Shown] : m = [marquez[r] EXCEPT ![step[r]] = shown]
  BY <1>1
<1>4. m[step[r]] = shown /\ \A d \in Steps : d # step[r] => m[d] = marquez[r][d]
  BY <1>1, <1>3
<1>5. marquez' = [marquez EXCEPT ![r] = m]
  BY <1>2, <1>3
<1>6. QED
  BY <1>1, <1>2, <1>4, <1>5

(* The same for an audit entry. *)
LEMMA AuditAt ==
  ASSUME PodTypeOK, NEW r \in Runs, NEW entry, Audit(r, entry)
  PROVE  /\ audit'[r][step[r]] = entry
         /\ \A c \in Runs, d \in Steps : c # r \/ d # step[r] => audit'[c][d] = audit[c][d]
<1>1. audit \in [Runs -> [Steps -> {"nothing", "started", "ended"}]] /\ step[r] \in Steps
  BY DEF PodTypeOK
<1>2. PICK m : m = [audit[r] EXCEPT ![step[r]] = entry]
  OBVIOUS
<1>3. m[step[r]] = entry /\ \A d \in Steps : d # step[r] => m[d] = audit[r][d]
  BY <1>1, <1>2
<1>4. audit' = [audit EXCEPT ![r] = m]
  BY <1>2 DEF Audit
<1>5. QED
  BY <1>1, <1>3, <1>4

(* Every step keeps what Marquez shows well typed. *)
LEMMA MarquezTypeStep ==
  ASSUME PodTypeOK, MarquezTypeOK, [PipelineNext]_pipelineVars
  PROVE  MarquezTypeOK'
<1> USE DEF data, events, lineage, Goto, At, Fault, IsLost
<1>1. ASSUME NEW r \in Runs, Enter(r)
      PROVE  MarquezTypeOK'
  <2>1. marquez' \in [Runs -> [Steps -> Shown]] /\ lost' = lost
    BY <1>1, ArrivesAt DEF Enter, Shown, MarquezTypeOK
  <2>2. QED
    BY <1>1, <2>1 DEF Enter, MarquezTypeOK
<1>2. ASSUME NEW r \in Runs, Exit(r)
      PROVE  MarquezTypeOK'
  <2>1. marquez' \in [Runs -> [Steps -> Shown]]
    BY <1>2, ArrivesAt DEF Exit, Shown, MarquezTypeOK
  <2>2. lost' \subseteq Event
    BY <1>2, ArrivesAt DEF Exit, Event, PodTypeOK, MarquezTypeOK, Arrives
  <2>3. PICK n \in Nat : n = Len(versions)
    BY DEF MarquezTypeOK
  <2>4. versions' \in Seq(Runs) /\ Len(versions') \in {n, n + 1}
    <3>1. versions' = versions \/ versions' = Append(versions, r)
      BY <1>2 DEF Exit
    <3>2. QED
      BY <2>3, <3>1, Registering DEF MarquezTypeOK
  <2>5. attributed' \in [Runs -> 0 .. n]
    <3>1. attributed' = attributed \/ attributed' = [attributed EXCEPT ![r] = n]
      BY <1>2, <2>3 DEF Exit
    <3>2. QED
      BY <2>3, <3>1 DEF MarquezTypeOK
  <2>6. attributed' \in [Runs -> 0 .. Len(versions')]
    <3>1. \A i \in 0 .. n : i \in 0 .. Len(versions')
      BY <2>4
    <3>2. QED
      BY <2>5, <3>1
  <2>7. QED
    BY <2>1, <2>2, <2>4, <2>6 DEF MarquezTypeOK
<1>3. ASSUME NEW r \in Runs, ExitRaising(r)
      PROVE  MarquezTypeOK'
  <2>1. marquez' \in [Runs -> [Steps -> Shown]]
    BY <1>3, ArrivesAt DEF ExitRaising, Shown, MarquezTypeOK
  <2>2. lost' \subseteq Event
    BY <1>3 DEF ExitRaising, Event, PodTypeOK, MarquezTypeOK, Arrives
  <2>3. QED
    BY <1>3, <2>1, <2>2 DEF ExitRaising, MarquezTypeOK
<1>4. ASSUME NEW r \in Runs,
             \/ Guard(r) \/ RaiseOutside(r) \/ RaiseInside(r) \/ Finalize(r)
             \/ Kill(r) \/ DropTable(r) \/ CreateTable(r) \/ InsertRows(r)
             \/ Work(r) \/ MaterializeRows(r) \/ ReadLabels(r) \/ ReadFeatures(r)
             \/ TrainModel(r) \/ SkipRegistration(r) \/ RegisterModel(r) \/ SetChampion(r)
      PROVE  MarquezTypeOK'
  BY <1>4 DEF Guard, RaiseOutside, RaiseInside, Finalize, Kill, DropTable, CreateTable, InsertRows, Work, MaterializeRows, ReadLabels, ReadFeatures, TrainModel, SkipRegistration, RegisterModel, SetChampion, MarquezTypeOK
<1>5. ASSUME UNCHANGED pipelineVars
      PROVE  MarquezTypeOK'
  BY <1>5 DEF pipelineVars, MarquezTypeOK
<1>6. QED
  BY <1>1, <1>2, <1>3, <1>4, <1>5 DEF PipelineNext, AllOver

-----------------------------------------------------------------------------
(* What a step of the system does to the pod, the audit trail and the      *)
(* lineage of one run.                                                     *)
PodMove(c) ==
  \/ pc'[c] = pc[c] /\ step'[c] = step[c]
  \/ /\ step'[c] = step[c]
     /\ \/ pc[c] = "guard" /\ pc'[c] \in {"enter", "failed"}
        \/ pc[c] = "enter" /\ pc'[c] \in {"body", "failed"}
        \/ pc[c] \in Body /\ pc'[c] \in {"create", "insert", "features", "alias", "exit", "raise"}
        \/ pc[c] = "exit" /\ pc'[c] = "finalize"
        \/ pc[c] = "raise" /\ pc'[c] = "failed"
        \/ pc[c] = "finalize" /\ pc'[c] = "failed"
        \/ pc[c] = "finalize" /\ pc'[c] = "succeeded" /\ step[c] = Register
        \/ pc[c] \notin Over /\ pc'[c] = "failed" /\ c \in killed'
  \/ /\ pc[c] = "finalize" /\ pc'[c] = "guard"
     /\ step[c] # Register /\ step'[c] = step[c] + 1

AuditMove(c) ==
  /\ pc[c] = "guard" /\ pc'[c] = "enter" => audit'[c][step[c]] = "started"
  /\ \A d \in Steps :
       \/ audit'[c][d] = audit[c][d]
       \/ d = step[c] /\ pc[c] = "guard" /\ pc'[c] = "enter" /\ audit'[c][d] = "started"
       \/ d = step[c] /\ pc[c] = "finalize" /\ pc'[c] \in {"guard", "succeeded"} /\ audit'[c][d] = "ended"

MarquezMove(c) ==
  /\ \A d \in Steps :
       \/ marquez'[c][d] = marquez[c][d]
       \/ /\ d = step[c]
          /\ \/ pc[c] = "enter" /\ pc'[c] = "body" /\ marquez'[c][d] = "RUNNING"
             \/ pc[c] = "exit" /\ pc'[c] = "finalize" /\ marquez'[c][d] = "COMPLETED"
             \/ pc[c] = "raise" /\ pc'[c] = "failed" /\ marquez'[c][d] = "FAILED"
  /\ pc[c] = "exit" /\ pc'[c] = "finalize"
       => marquez'[c][step[c]] = "COMPLETED" \/ <<c, step[c], "COMPLETE">> \in lost'
  /\ pc[c] = "raise" /\ pc'[c] = "failed" /\ c \notin killed'
       => marquez'[c][step[c]] = "FAILED" \/ <<c, step[c], "FAIL">> \in lost'

Moves == /\ lost \subseteq lost' /\ killed \subseteq killed'
         /\ \A c \in Runs : PodMove(c) /\ AuditMove(c) /\ MarquezMove(c)

LEMMA EveryStepMoves ==
  ASSUME PodTypeOK, MarquezTypeOK, [PipelineNext]_pipelineVars
  PROVE  Moves
<1> USE DEF data, events, lineage, Goto, At, Body, Over
<1>1. ASSUME NEW r \in Runs, Guard(r)
      PROVE  Moves
  <2>1. lost \subseteq lost' /\ killed \subseteq killed'
    BY <1>1 DEF Guard
  <2>2. ASSUME NEW c \in Runs
        PROVE  PodMove(c)
    BY <1>1 DEF Guard, PodMove, PodTypeOK
  <2>3. ASSUME NEW c \in Runs
        PROVE  AuditMove(c)
    BY <1>1, AuditAt DEF Guard, AuditMove, PodTypeOK
  <2>4. ASSUME NEW c \in Runs
        PROVE  MarquezMove(c)
    BY <1>1 DEF Guard, MarquezMove, PodTypeOK
  <2>5. QED
    BY <2>1, <2>2, <2>3, <2>4 DEF Moves
<1>2. ASSUME NEW r \in Runs, Enter(r)
      PROVE  Moves
  <2>1. lost \subseteq lost' /\ killed \subseteq killed'
    BY <1>2 DEF Enter, Fault, Arrives
  <2>2. ASSUME NEW c \in Runs
        PROVE  PodMove(c)
    BY <1>2 DEF Enter, PodMove, PodTypeOK
  <2>3. ASSUME NEW c \in Runs
        PROVE  AuditMove(c)
    BY <1>2 DEF Enter, AuditMove, PodTypeOK
  <2>4. ASSUME NEW c \in Runs
        PROVE  MarquezMove(c)
    BY <1>2, ArrivesAt DEF Enter, MarquezMove, PodTypeOK, Shown
  <2>5. QED
    BY <2>1, <2>2, <2>3, <2>4 DEF Moves
<1>3. ASSUME NEW r \in Runs, Exit(r)
      PROVE  Moves
  <2>1. lost \subseteq lost' /\ killed \subseteq killed'
    BY <1>3 DEF Exit, Fault, Arrives, IsLost
  <2>2. ASSUME NEW c \in Runs
        PROVE  PodMove(c)
    BY <1>3 DEF Exit, PodMove, PodTypeOK
  <2>3. ASSUME NEW c \in Runs
        PROVE  AuditMove(c)
    BY <1>3 DEF Exit, AuditMove, PodTypeOK
  <2>4. ASSUME NEW c \in Runs
        PROVE  MarquezMove(c)
    BY <1>3, ArrivesAt DEF Exit, MarquezMove, PodTypeOK, IsLost, Shown
  <2>5. QED
    BY <2>1, <2>2, <2>3, <2>4 DEF Moves
<1>4. ASSUME NEW r \in Runs, ExitRaising(r)
      PROVE  Moves
  <2>1. lost \subseteq lost' /\ killed \subseteq killed'
    BY <1>4 DEF ExitRaising, Fault, Arrives, IsLost
  <2>2. ASSUME NEW c \in Runs
        PROVE  PodMove(c)
    BY <1>4 DEF ExitRaising, PodMove, PodTypeOK
  <2>3. ASSUME NEW c \in Runs
        PROVE  AuditMove(c)
    BY <1>4 DEF ExitRaising, AuditMove, PodTypeOK
  <2>4. ASSUME NEW c \in Runs
        PROVE  MarquezMove(c)
    BY <1>4, ArrivesAt DEF ExitRaising, MarquezMove, PodTypeOK, IsLost, Shown
  <2>5. QED
    BY <2>1, <2>2, <2>3, <2>4 DEF Moves
<1>5. ASSUME NEW r \in Runs, Finalize(r)
      PROVE  Moves
  <2>1. lost \subseteq lost' /\ killed \subseteq killed'
    BY <1>5 DEF Finalize
  <2>2. ASSUME NEW c \in Runs
        PROVE  PodMove(c)
    BY <1>5 DEF Finalize, PodMove, PodTypeOK
  <2>3. ASSUME NEW c \in Runs
        PROVE  AuditMove(c)
    BY <1>5, AuditAt DEF Finalize, AuditMove, PodTypeOK
  <2>4. ASSUME NEW c \in Runs
        PROVE  MarquezMove(c)
    BY <1>5 DEF Finalize, MarquezMove, PodTypeOK
  <2>5. QED
    BY <2>1, <2>2, <2>3, <2>4 DEF Moves
<1>6. ASSUME NEW r \in Runs, RaiseOutside(r) \/ RaiseInside(r) \/ Kill(r)
      PROVE  Moves
  <2>1. lost \subseteq lost' /\ killed \subseteq killed'
    BY <1>6 DEF RaiseOutside, RaiseInside, Kill
  <2>2. ASSUME NEW c \in Runs
        PROVE  PodMove(c)
    BY <1>6 DEF RaiseOutside, RaiseInside, Kill, PodMove, PodTypeOK
  <2>3. ASSUME NEW c \in Runs
        PROVE  AuditMove(c)
    BY <1>6 DEF RaiseOutside, RaiseInside, Kill, AuditMove, PodTypeOK
  <2>4. ASSUME NEW c \in Runs
        PROVE  MarquezMove(c)
    BY <1>6 DEF RaiseOutside, RaiseInside, Kill, MarquezMove, PodTypeOK
  <2>5. QED
    BY <2>1, <2>2, <2>3, <2>4 DEF Moves
<1>7. ASSUME NEW r \in Runs, DropTable(r) \/ CreateTable(r) \/ InsertRows(r)
      PROVE  Moves
  <2>1. lost \subseteq lost' /\ killed \subseteq killed'
    BY <1>7 DEF DropTable, CreateTable, InsertRows
  <2>2. ASSUME NEW c \in Runs
        PROVE  PodMove(c)
    BY <1>7 DEF DropTable, CreateTable, InsertRows, PodMove, PodTypeOK
  <2>3. ASSUME NEW c \in Runs
        PROVE  AuditMove(c)
    BY <1>7 DEF DropTable, CreateTable, InsertRows, AuditMove, PodTypeOK
  <2>4. ASSUME NEW c \in Runs
        PROVE  MarquezMove(c)
    BY <1>7 DEF DropTable, CreateTable, InsertRows, MarquezMove, PodTypeOK
  <2>5. QED
    BY <2>1, <2>2, <2>3, <2>4 DEF Moves
<1>8. ASSUME NEW r \in Runs, Work(r) \/ MaterializeRows(r) \/ ReadLabels(r) \/ ReadFeatures(r)
      PROVE  Moves
  <2>1. lost \subseteq lost' /\ killed \subseteq killed'
    BY <1>8 DEF Work, MaterializeRows, ReadLabels, ReadFeatures
  <2>2. ASSUME NEW c \in Runs
        PROVE  PodMove(c)
    BY <1>8 DEF Work, MaterializeRows, ReadLabels, ReadFeatures, PodMove, PodTypeOK
  <2>3. ASSUME NEW c \in Runs
        PROVE  AuditMove(c)
    BY <1>8 DEF Work, MaterializeRows, ReadLabels, ReadFeatures, AuditMove, PodTypeOK
  <2>4. ASSUME NEW c \in Runs
        PROVE  MarquezMove(c)
    BY <1>8 DEF Work, MaterializeRows, ReadLabels, ReadFeatures, MarquezMove, PodTypeOK
  <2>5. QED
    BY <2>1, <2>2, <2>3, <2>4 DEF Moves
<1>9. ASSUME NEW r \in Runs, TrainModel(r) \/ SkipRegistration(r) \/ RegisterModel(r) \/ SetChampion(r)
      PROVE  Moves
  <2>1. lost \subseteq lost' /\ killed \subseteq killed'
    BY <1>9 DEF TrainModel, SkipRegistration, RegisterModel, SetChampion
  <2>2. ASSUME NEW c \in Runs
        PROVE  PodMove(c)
    BY <1>9 DEF TrainModel, SkipRegistration, RegisterModel, SetChampion, PodMove, PodTypeOK
  <2>3. ASSUME NEW c \in Runs
        PROVE  AuditMove(c)
    BY <1>9 DEF TrainModel, SkipRegistration, RegisterModel, SetChampion, AuditMove, PodTypeOK
  <2>4. ASSUME NEW c \in Runs
        PROVE  MarquezMove(c)
    BY <1>9 DEF TrainModel, SkipRegistration, RegisterModel, SetChampion, MarquezMove, PodTypeOK
  <2>5. QED
    BY <2>1, <2>2, <2>3, <2>4 DEF Moves
<1>10. ASSUME UNCHANGED pipelineVars
      PROVE  Moves
  BY <1>10 DEF pipelineVars, Moves, PodMove, AuditMove, MarquezMove
<1>11. QED
  BY <1>1, <1>2, <1>3, <1>4, <1>5, <1>6, <1>7, <1>8, <1>9, <1>10 DEF PipelineNext, AllOver

-----------------------------------------------------------------------------
(* Type correctness.  The alias is set on the version the run registered,  *)
(* which AliasInv says there is; AuditInv serves the theorems further down.*)
TypeInv == PipelineTypeOK /\ AuditInv /\ AliasInv

LEMMA AuditStep ==
  ASSUME PodTypeOK, AuditInv, Moves
  PROVE  AuditInv'
<1> SUFFICES ASSUME NEW r \in Runs
             PROVE  /\ \A s \in Steps : s > step'[r] => audit'[r][s] = "nothing"
                    /\ pc'[r] = "guard" => audit'[r][step'[r]] = "nothing"
                    /\ pc'[r] \in {"enter", "exit", "raise", "finalize"} \cup Body
                         => audit'[r][step'[r]] = "started"
  BY DEF AuditInv
<1> USE DEF Body, Over, Steps, Register
<1>1. /\ step[r] \in Steps /\ PodMove(r) /\ AuditMove(r)
      /\ \A s \in Steps : s > step[r] => audit[r][s] = "nothing"
      /\ pc[r] = "guard" => audit[r][step[r]] = "nothing"
      /\ pc[r] \in {"enter", "exit", "raise", "finalize"} \cup Body => audit[r][step[r]] = "started"
  BY DEF PodTypeOK, Moves, AuditInv
<1>2. step'[r] = step[r] \/ (step'[r] = step[r] + 1 /\ step[r] # Register /\ pc[r] = "finalize" /\ pc'[r] = "guard")
  BY <1>1 DEF PodMove
<1>3. \A s \in Steps : s > step'[r] => audit'[r][s] = "nothing"
  BY <1>1, <1>2 DEF AuditMove
<1>4. pc'[r] = "guard" => audit'[r][step'[r]] = "nothing"
  BY <1>1, <1>2 DEF PodMove, AuditMove
<1>5. pc'[r] \in {"enter", "exit", "raise", "finalize"} \cup Body => audit'[r][step'[r]] = "started"
  BY <1>1, <1>2 DEF PodMove, AuditMove
<1>6. QED
  BY <1>3, <1>4, <1>5

(* Versions are only ever appended, and by a run that enters "alias". *)
LEMMA RegistryStep ==
  ASSUME PodTypeOK, DataTypeOK, [PipelineNext]_pipelineVars
  PROVE  /\ \/ registry' = registry
            \/ \E r \in Runs : RegisterModel(r)
         /\ \A r \in Runs : pc'[r] = "alias" => pc[r] = "alias" \/ RegisterModel(r)
<1> USE DEF PodTypeOK, data, Goto, At
<1>1. ASSUME NEW r \in Runs, RegisterModel(r)
      PROVE  \A c \in Runs : pc'[c] = "alias" => pc[c] = "alias" \/ RegisterModel(c)
  BY <1>1 DEF RegisterModel
<1>2. ASSUME NEW r \in Runs,
             \/ Guard(r) \/ RaiseOutside(r) \/ Enter(r) \/ RaiseInside(r)
             \/ Exit(r) \/ ExitRaising(r) \/ Finalize(r) \/ Kill(r)
      PROVE  registry' = registry /\ \A c \in Runs : pc'[c] = "alias" => pc[c] = "alias"
  BY <1>2 DEF Guard, RaiseOutside, Enter, RaiseInside, Exit, ExitRaising, Finalize, Kill
<1>3. ASSUME NEW r \in Runs,
             \/ DropTable(r) \/ CreateTable(r) \/ InsertRows(r) \/ Work(r) \/ MaterializeRows(r)
             \/ ReadLabels(r) \/ ReadFeatures(r) \/ TrainModel(r) \/ SkipRegistration(r) \/ SetChampion(r)
      PROVE  registry' = registry /\ \A c \in Runs : pc'[c] = "alias" => pc[c] = "alias"
  BY <1>3 DEF DropTable, CreateTable, InsertRows, Work, MaterializeRows, ReadLabels, ReadFeatures, TrainModel, SkipRegistration, SetChampion
<1>4. ASSUME UNCHANGED pipelineVars
      PROVE  registry' = registry /\ \A c \in Runs : pc'[c] = "alias" => pc[c] = "alias"
  BY <1>4 DEF pipelineVars
<1>5. QED
  BY <1>1, <1>2, <1>3, <1>4 DEF PipelineNext, AllOver

LEMMA AliasStep ==
  ASSUME PodTypeOK, DataTypeOK, AliasInv, [PipelineNext]_pipelineVars
  PROVE  AliasInv'
<1>1. ASSUME NEW r \in Runs, RegisterModel(r)
      PROVE  \A v \in DOMAIN registry : v \in DOMAIN registry' /\ registry'[v] = registry[v]
  BY <1>1, Registering DEF RegisterModel, DataTypeOK
<1>2. \A v \in DOMAIN registry : v \in DOMAIN registry' /\ registry'[v] = registry[v]
  BY <1>1, RegistryStep
<1>3. ASSUME NEW r \in Runs, pc'[r] = "alias"
      PROVE  \E v \in DOMAIN registry' : registry'[v] = r
  <2>1. CASE pc[r] = "alias"
    BY <2>1, <1>2 DEF AliasInv
  <2>2. CASE RegisterModel(r)
    <3>1. Len(registry) + 1 \in DOMAIN registry' /\ registry'[Len(registry) + 1] = r
      BY <2>2, Registering DEF RegisterModel, DataTypeOK
    <3>2. QED
      BY <3>1
  <2>3. QED
    BY <1>3, <2>1, <2>2, RegistryStep
<1>4. QED
  BY <1>3 DEF AliasInv

LEMMA InitTypes == PipelineInit => TypeInv
<1> SUFFICES ASSUME PipelineInit
             PROVE  TypeInv
  OBVIOUS
<1>1. PodTypeOK
  BY PipelineAssumption DEF PipelineInit, PodTypeOK, Steps, Phase, Etl
<1>2. DataTypeOK
  BY EmptySeq DEF PipelineInit, DataTypeOK, Rows
<1>3. MarquezTypeOK
  BY EmptySeq DEF PipelineInit, MarquezTypeOK, Shown
<1>4. AuditInv
  <2>1. /\ step = [r \in Runs |-> 1] /\ pc = [r \in Runs |-> "guard"]
        /\ audit = [r \in Runs |-> [s \in Steps |-> "nothing"]]
    BY DEF PipelineInit, Etl
  <2>2. ASSUME NEW r \in Runs
        PROVE  step[r] = 1 /\ pc[r] = "guard" /\ \A s \in Steps : audit[r][s] = "nothing"
    BY <2>1
  <2>3. 1 \in Steps
    BY DEF Steps
  <2>4. SUFFICES ASSUME NEW r \in Runs
                 PROVE  /\ \A s \in Steps : s > step[r] => audit[r][s] = "nothing"
                        /\ pc[r] = "guard" => audit[r][step[r]] = "nothing"
                        /\ pc[r] \in {"enter", "exit", "raise", "finalize"} \cup Body
                             => audit[r][step[r]] = "started"
    BY DEF AuditInv
  <2>5. QED
    BY <2>2, <2>3 DEF Body
<1>5. AliasInv
  BY DEF PipelineInit, AliasInv
<1>6. QED
  BY <1>1, <1>2, <1>3, <1>4, <1>5 DEF TypeInv, PipelineTypeOK

LEMMA TypesStep ==
  ASSUME TypeInv, [PipelineNext]_pipelineVars
  PROVE  TypeInv'
BY PodTypeStep, DataTypeStep, MarquezTypeStep, EveryStepMoves, AuditStep, AliasStep
   DEF TypeInv, PipelineTypeOK

LEMMA TypesHold == PipelineSpec => []TypeInv
<1>1. TypeInv /\ [PipelineNext]_pipelineVars => TypeInv'
  BY TypesStep
<1>2. QED
  BY <1>1, InitTypes, PTL DEF PipelineSpec

(* The type invariant of the pipeline, however many runs overlap: among    *)
(* others the champion is a registered version, and no run is linked to a  *)
(* version of the table that Marquez does not have.                        *)
THEOREM PipelineTypeCorrect == PipelineSpec => []PipelineTypeOK
<1>1. TypeInv => PipelineTypeOK
  BY DEF TypeInv
<1>2. QED
  BY <1>1, TypesHold, PTL

-----------------------------------------------------------------------------
(* A pod begins only after Marquez was told, or could not be told, that    *)
(* every step before it is complete.                                       *)
Done(r, s) == marquez[r][s] = "COMPLETED" \/ LostEvent(r, s, "COMPLETE")

ProgressInv ==
  \A r \in Runs :
    /\ \A s \in Steps : s < step[r] => Done(r, s)
    /\ pc[r] \in {"finalize", "succeeded"} => Done(r, step[r])

(* Only a run that has come to its last step has registered a model. *)
RegistryInv == \A v \in DOMAIN registry : step[registry[v]] = Register

LEMMA ProgressStep ==
  ASSUME PodTypeOK, ProgressInv, Moves
  PROVE  ProgressInv'
<1> SUFFICES ASSUME NEW r \in Runs
             PROVE  /\ \A s \in Steps : s < step'[r] => Done(r, s)'
                    /\ pc'[r] \in {"finalize", "succeeded"} => Done(r, step[r])' /\ step'[r] = step[r]
  BY DEF ProgressInv, Done, LostEvent
<1> USE DEF Body, Over, Steps, Register, Done, LostEvent
<1>1. /\ step[r] \in Steps /\ PodMove(r) /\ MarquezMove(r) /\ lost \subseteq lost'
      /\ \A s \in Steps : s < step[r] => Done(r, s)
      /\ pc[r] \in {"finalize", "succeeded"} => Done(r, step[r])
  BY DEF PodTypeOK, Moves, ProgressInv
<1>2. \A s \in Steps : s < step[r] => Done(r, s)'
  BY <1>1 DEF MarquezMove
<1>3. pc[r] \in {"finalize", "succeeded"} \/ pc'[r] = "finalize"
        => \A s \in Steps : s = step[r] => Done(r, s)'
  BY <1>1 DEF MarquezMove, PodMove
<1>4. \/ step'[r] = step[r]
      \/ step'[r] = step[r] + 1 /\ pc[r] = "finalize" /\ pc'[r] = "guard"
  BY <1>1 DEF PodMove
<1>5. \A s \in Steps : s < step'[r] => Done(r, s)'
  <2>1. ASSUME NEW s \in Steps, s < step'[r]
        PROVE  s < step[r] \/ (s = step[r] /\ pc[r] = "finalize")
    BY <1>1, <1>4, <2>1
  <2>2. QED
    BY <1>2, <1>3, <2>1
<1>6. pc'[r] \in {"finalize", "succeeded"} => Done(r, step[r])' /\ step'[r] = step[r]
  BY <1>1, <1>3, <1>4 DEF PodMove
<1>7. QED
  BY <1>5, <1>6

LEMMA RegistryInvStep ==
  ASSUME PodTypeOK, DataTypeOK, RegistryInv, Moves, [PipelineNext]_pipelineVars
  PROVE  RegistryInv'
<1>1. \A c \in Runs : step[c] = Register => step'[c] = Register
  BY DEF Moves, PodMove, Register
<1>2. \A v \in DOMAIN registry : registry[v] \in Runs
  BY DEF DataTypeOK
<1>3. CASE registry' = registry
  BY <1>1, <1>2, <1>3 DEF RegistryInv
<1>4. ASSUME NEW r \in Runs, RegisterModel(r)
      PROVE  RegistryInv'
  <2>1. step[r] = Register
    BY <1>4 DEF RegisterModel, At
  <2>2. ASSUME NEW v \in DOMAIN registry'
        PROVE  registry'[v] = r \/ (v \in DOMAIN registry /\ registry'[v] = registry[v])
    BY <1>4, <2>2, Registering DEF RegisterModel, DataTypeOK
  <2>3. QED
    BY <1>1, <1>2, <2>1, <2>2 DEF RegistryInv
<1>5. QED
  BY <1>3, <1>4, RegistryStep

ChainInv == TypeInv /\ ProgressInv /\ RegistryInv

LEMMA ChainHolds == PipelineSpec => []ChainInv
<1>1. PipelineInit => ChainInv
  <2> SUFFICES ASSUME PipelineInit
               PROVE  ChainInv
    OBVIOUS
  <2>1. step = [r \in Runs |-> 1] /\ pc = [r \in Runs |-> "guard"]
    BY DEF PipelineInit, Etl
  <2>2. ASSUME NEW r \in Runs
        PROVE  step[r] = 1 /\ pc[r] = "guard"
    BY <2>1
  <2>3. RegistryInv
    BY DEF PipelineInit, RegistryInv
  <2>4. ProgressInv
    <3> SUFFICES ASSUME NEW r \in Runs
                 PROVE  /\ \A s \in Steps : s < step[r] => Done(r, s)
                        /\ pc[r] \in {"finalize", "succeeded"} => Done(r, step[r])
      BY DEF ProgressInv
    <3>1. \A s \in Steps : ~(s < 1)
      BY DEF Steps
    <3>2. QED
      BY <2>2, <3>1
  <2>5. QED
    BY <2>3, <2>4, InitTypes DEF ChainInv
<1>2. ChainInv /\ [PipelineNext]_pipelineVars => ChainInv'
  BY TypesStep, EveryStepMoves, ProgressStep, RegistryInvStep DEF ChainInv, TypeInv, PipelineTypeOK
<1>3. QED
  BY <1>1, <1>2, PTL DEF PipelineSpec

(* Behind every registered model there is a chain of seven steps whose     *)
(* COMPLETE events were sent, and Marquez shows each of them unless that   *)
(* very event was lost: kfp_lineage.__exit__ does not swallow exceptions,  *)
(* and Argo starts a pod only after its predecessor has succeeded.         *)
THEOREM RegisteredModelsAreTraceable == PipelineSpec => []RegisteredIsTraceable
<1>1. ChainInv => RegisteredIsTraceable
  <2> SUFFICES ASSUME ChainInv, NEW v \in DOMAIN registry, NEW s \in Steps \ {Register}
               PROVE  Done(registry[v], s)
    BY DEF RegisteredIsTraceable, Done
  <2>1. registry[v] \in Runs /\ step[registry[v]] = Register
    BY DEF ChainInv, TypeInv, PipelineTypeOK, DataTypeOK, RegistryInv
  <2>2. s < Register
    BY DEF Steps, Register
  <2>3. QED
    BY <2>1, <2>2 DEF ChainInv, ProgressInv
<1>2. QED
  BY <1>1, ChainHolds, PTL

-----------------------------------------------------------------------------
(* A step shown as RUNNING is the one a pod is in, or its end was sent.    *)
RunningInv ==
  \A r \in Runs \ killed : \A s \in Steps :
    marquez[r][s] = "RUNNING"
      => \/ s = step[r] /\ pc[r] \in {"exit", "raise"} \cup Body
         \/ LostEvent(r, s, "COMPLETE") \/ LostEvent(r, s, "FAIL")

LEMMA RunningStep ==
  ASSUME PodTypeOK, RunningInv, Moves
  PROVE  RunningInv'
<1> SUFFICES ASSUME NEW r \in Runs \ killed', NEW s \in Steps, marquez'[r][s] = "RUNNING"
             PROVE  \/ s = step'[r] /\ pc'[r] \in {"exit", "raise"} \cup Body
                    \/ LostEvent(r, s, "COMPLETE")' \/ LostEvent(r, s, "FAIL")'
  BY DEF RunningInv
<1> USE DEF Body, Over, LostEvent
<1>1. r \in Runs \ killed /\ PodMove(r) /\ MarquezMove(r) /\ lost \subseteq lost'
  BY DEF Moves
<1>2. CASE marquez[r][s] = "RUNNING"
  <2>1. \/ s = step[r] /\ pc[r] \in {"exit", "raise"} \cup Body
        \/ LostEvent(r, s, "COMPLETE") \/ LostEvent(r, s, "FAIL")
    BY <1>1, <1>2 DEF RunningInv
  <2>2. QED
    BY <1>1, <2>1 DEF PodMove, MarquezMove
<1>3. CASE marquez[r][s] # "RUNNING"
  BY <1>1, <1>3 DEF PodMove, MarquezMove
<1>4. QED
  BY <1>2, <1>3

(* Of a run that is over and none of whose pods was killed, Marquez shows  *)
(* no step as RUNNING unless the event that ended it was lost: every way   *)
(* out of the with statement passes __exit__.                              *)
THEOREM StepsDoNotStayRunning == PipelineSpec => []NoStepStaysRunning
<1>1. PipelineInit => RunningInv
  BY DEF PipelineInit, RunningInv
<1>2. TypeInv /\ RunningInv /\ [PipelineNext]_pipelineVars => RunningInv'
  BY EveryStepMoves, RunningStep DEF TypeInv, PipelineTypeOK
<1>3. RunningInv => NoStepStaysRunning
  BY DEF RunningInv, NoStepStaysRunning, Body, Over
<1>4. QED
  BY <1>1, <1>2, <1>3, TypesHold, PTL DEF PipelineSpec

-----------------------------------------------------------------------------
(* Effects and the audit trail *)

EffectsHaveStart ==
  /\ \A r \in Runs :
       /\ r \in table => audit[r][Etl] # "nothing"
       /\ served[r] # Unread => audit[r][Materialize] # "nothing"
  /\ \A v \in DOMAIN registry : audit[registry[v]][Register] # "nothing"

EndsHaveComplete ==
  \A r \in Runs : \A s \in Steps : audit[r][s] = "ended" => Done(r, s)

LEMMA EffectsStep ==
  ASSUME TypeInv, EffectsHaveStart, [PipelineNext]_pipelineVars
  PROVE  EffectsHaveStart'
<1>1. /\ PodTypeOK /\ DataTypeOK /\ AuditInv /\ Moves
      /\ Etl \in Steps /\ Materialize \in Steps /\ Register \in Steps
  BY EveryStepMoves DEF TypeInv, PipelineTypeOK, Steps, Etl, Materialize, Register
<1>2. \A r \in Runs : \A s \in Steps : audit[r][s] # "nothing" => audit'[r][s] # "nothing"
  BY <1>1 DEF Moves, AuditMove
<1>3. ASSUME NEW r \in Runs, r \in table', r \notin table
      PROVE  audit'[r][Etl] # "nothing"
  <2>1. ASSUME NEW q \in Runs, InsertRows(q)
        PROVE  audit'[r][Etl] # "nothing"
    <3>1. r = q /\ pc[r] = "insert" /\ step[r] = Etl
      BY <1>3, <2>1 DEF InsertRows, At, Goto
    <3>2. audit[r][Etl] # "nothing"
      BY <1>1, <3>1 DEF AuditInv, Body
    <3>3. QED
      BY <1>1, <1>2, <3>2
  <2>2. \/ table' \in {table, {}, Absent}
        \/ \E q \in Runs : InsertRows(q)
    <3>1. ASSUME NEW q \in Runs, DropTable(q) \/ CreateTable(q)
          PROVE  table' \in {table, {}, Absent}
      BY <3>1 DEF DropTable, CreateTable
    <3>2. ASSUME NEW q \in Runs,
                 \/ Guard(q) \/ RaiseOutside(q) \/ Enter(q) \/ RaiseInside(q)
                 \/ Exit(q) \/ ExitRaising(q) \/ Finalize(q) \/ Kill(q)
          PROVE  table' = table
      BY <3>2 DEF Guard, RaiseOutside, Enter, RaiseInside, Exit, ExitRaising, Finalize, Kill, data
    <3>3. ASSUME NEW q \in Runs,
                 \/ Work(q) \/ MaterializeRows(q) \/ ReadLabels(q) \/ ReadFeatures(q)
                 \/ TrainModel(q) \/ SkipRegistration(q) \/ RegisterModel(q) \/ SetChampion(q)
          PROVE  table' = table
      BY <3>3 DEF Work, MaterializeRows, ReadLabels, ReadFeatures, TrainModel, SkipRegistration, RegisterModel, SetChampion, data
    <3>4. ASSUME UNCHANGED pipelineVars
          PROVE  table' = table
      BY <3>4 DEF pipelineVars, data
    <3>5. QED
      BY <3>1, <3>2, <3>3, <3>4 DEF PipelineNext, AllOver
  <2>3. r \notin Absent
    BY <1>3, PipelineAssumption DEF Absent
  <2>4. QED
    BY <1>3, <2>1, <2>2, <2>3
<1>4. ASSUME NEW r \in Runs, served'[r] # Unread, served[r] = Unread
      PROVE  audit'[r][Materialize] # "nothing"
  <2>1. ASSUME NEW q \in Runs, MaterializeRows(q)
        PROVE  audit'[r][Materialize] # "nothing"
    <3>1. r = q /\ pc[r] = "body" /\ step[r] = Materialize
      BY <1>1, <1>4, <2>1 DEF MaterializeRows, At, Goto, DataTypeOK
    <3>2. audit[r][Materialize] # "nothing"
      BY <1>1, <3>1 DEF AuditInv, Body
    <3>3. QED
      BY <1>1, <1>2, <3>2
  <2>2. served' = served \/ \E q \in Runs : MaterializeRows(q)
    <3>1. ASSUME NEW q \in Runs,
                 \/ Guard(q) \/ RaiseOutside(q) \/ Enter(q) \/ RaiseInside(q)
                 \/ Exit(q) \/ ExitRaising(q) \/ Finalize(q) \/ Kill(q)
          PROVE  served' = served
      BY <3>1 DEF Guard, RaiseOutside, Enter, RaiseInside, Exit, ExitRaising, Finalize, Kill, data
    <3>2. ASSUME NEW q \in Runs,
                 \/ DropTable(q) \/ CreateTable(q) \/ InsertRows(q)
                 \/ Work(q) \/ ReadLabels(q) \/ ReadFeatures(q)
                 \/ TrainModel(q) \/ SkipRegistration(q) \/ RegisterModel(q) \/ SetChampion(q)
          PROVE  served' = served
      BY <3>2 DEF DropTable, CreateTable, InsertRows, Work, ReadLabels, ReadFeatures, TrainModel, SkipRegistration, RegisterModel, SetChampion, data
    <3>3. ASSUME UNCHANGED pipelineVars
          PROVE  served' = served
      BY <3>3 DEF pipelineVars, data
    <3>4. QED
      BY <3>1, <3>2, <3>3 DEF PipelineNext, AllOver
  <2>3. QED
    BY <1>4, <2>1, <2>2
<1>5. ASSUME NEW v \in DOMAIN registry'
      PROVE  audit'[registry'[v]][Register] # "nothing"
  <2>1. ASSUME NEW q \in Runs, RegisterModel(q)
        PROVE  registry'[v] = q \/ (v \in DOMAIN registry /\ registry'[v] = registry[v])
    BY <1>1, <1>5, <2>1, Registering DEF RegisterModel, DataTypeOK
  <2>2. ASSUME NEW q \in Runs, RegisterModel(q)
        PROVE  audit[q][Register] # "nothing"
    BY <1>1, <2>2 DEF RegisterModel, At, Goto, AuditInv, Body
  <2>3. \A w \in DOMAIN registry : registry[w] \in Runs /\ audit[registry[w]][Register] # "nothing"
    BY <1>1 DEF DataTypeOK, EffectsHaveStart
  <2>4. PICK q \in Runs : registry'[v] = q /\ audit[q][Register] # "nothing"
    BY <1>1, <1>5, <2>1, <2>2, <2>3, RegistryStep
  <2>5. QED
    BY <1>1, <1>2, <2>4
<1>6. QED
  BY <1>1, <1>2, <1>3, <1>4, <1>5 DEF EffectsHaveStart

LEMMA EndsStep ==
  ASSUME PodTypeOK, AuditInv, ProgressInv, EndsHaveComplete, Moves
  PROVE  EndsHaveComplete'
<1> SUFFICES ASSUME NEW r \in Runs, NEW s \in Steps, audit'[r][s] = "ended"
             PROVE  Done(r, s)'
  BY DEF EndsHaveComplete, Done, LostEvent
<1> USE DEF Done, LostEvent
<1>1. AuditMove(r) /\ MarquezMove(r) /\ lost \subseteq lost' /\ step[r] \in Steps
  BY DEF Moves, PodTypeOK
<1>2. CASE audit[r][s] = "ended"
  <2>1. ~(s = step[r] /\ pc[r] \in {"enter", "exit", "raise"})
    BY <1>2 DEF AuditInv
  <2>2. Done(r, s)
    BY <1>2 DEF EndsHaveComplete
  <2>3. QED
    BY <1>1, <2>1, <2>2 DEF MarquezMove
<1>3. CASE audit[r][s] # "ended"
  <2>1. s = step[r] /\ pc[r] = "finalize" /\ pc'[r] \in {"guard", "succeeded"}
    BY <1>1, <1>3 DEF AuditMove
  <2>2. Done(r, s)
    BY <2>1 DEF ProgressInv
  <2>3. QED
    BY <1>1, <2>1, <2>2 DEF MarquezMove
<1>4. QED
  BY <1>2, <1>3

(* Rows in the warehouse, the copy in the online store and a registered    *)
(* version each have a start entry in the log of the pod that made them,   *)
(* and an end entry stands for a step whose COMPLETE was sent: the guard   *)
(* comes before the work, and finalize_step_audit after __exit__.          *)
THEOREM EffectsHaveTheirAudit == PipelineSpec => []EffectsAreAudited
<1>1. PipelineInit => EffectsHaveStart /\ EndsHaveComplete
  <2> SUFFICES ASSUME PipelineInit
               PROVE  EffectsHaveStart /\ EndsHaveComplete
    OBVIOUS
  <2>1. EffectsHaveStart
    BY PipelineAssumption DEF PipelineInit, EffectsHaveStart, Absent
  <2>2. EndsHaveComplete
    BY DEF PipelineInit, EndsHaveComplete
  <2>3. QED
    BY <2>1, <2>2
<1>2. ChainInv /\ EffectsHaveStart /\ EndsHaveComplete /\ [PipelineNext]_pipelineVars
        => EffectsHaveStart' /\ EndsHaveComplete'
  BY EffectsStep, EndsStep, EveryStepMoves DEF ChainInv, TypeInv, PipelineTypeOK
<1>3. EffectsHaveStart /\ EndsHaveComplete => EffectsAreAudited
  BY DEF EffectsHaveStart, EndsHaveComplete, EffectsAreAudited, Done
<1>4. QED
  BY <1>1, <1>2, <1>3, ChainHolds, PTL DEF PipelineSpec

-----------------------------------------------------------------------------
(* What an undisturbed run finds *)

(* The features are read once, by the extraction. *)
ReadInv ==
  \A r \in Runs : features[r] # Unread =>
    \/ step[r] > Extract
    \/ step[r] = Extract /\ pc[r] \in {"exit", "raise", "finalize", "failed"}

(* While a run relies on the table, it holds what the run has put there.   *)
OwnTable(r) ==
  /\ step[r] = Etl /\ pc[r] = "create" => table = Absent
  /\ step[r] = Etl /\ pc[r] = "insert" => table = {}
  /\ step[r] > Etl \/ pc[r] \in {"exit", "finalize"} => table = {r}

(* ... and Marquez's newest version of it is the one the run has reported. *)
OwnVersion(r) ==
  (step[r] > Etl \/ pc[r] = "finalize") /\ ~LostEvent(r, Etl, "COMPLETE")
    => Len(versions) > 0 /\ versions[Len(versions)] = r

OwnData(r) == served[r] \in {Unread, {r}} /\ labels[r] \in {Unread, {r}} /\ features[r] \in {Unread, {r}}

OwnLink(r) ==
  marquez[r][Materialize] = "COMPLETED" /\ ~LostEvent(r, Etl, "COMPLETE")
    => attributed[r] > 0 /\ versions[attributed[r]] = r

OwnInv ==
  \A r \in Runs \ disturbed :
    /\ Relies(r) => OwnTable(r) /\ OwnVersion(r)
    /\ OwnData(r)
    /\ OwnLink(r)

IsolationInv == ReadInv /\ OwnInv

(* What a step does to the data of a run that it leaves undisturbed, and   *)
(* that is not the one that moves.                                         *)
LEMMA OthersLeaveIt ==
  ASSUME TypeInv, IsolationInv, NEW c \in Runs, NEW r \in Runs \ {c}, r \notin disturbed',
         disturbed \subseteq disturbed', lost \subseteq lost',
         step'[r] = step[r], pc'[r] = pc[r], marquez'[r] = marquez[r],
         served'[r] = served[r], labels'[r] = labels[r], features'[r] = features[r],
         attributed'[r] = attributed[r],
         \/ UNCHANGED <<table, versions>>
         \/ Touch(c) /\ (versions' = versions \/ versions' = Append(versions, c))
  PROVE  (Relies(r) => OwnTable(r) /\ OwnVersion(r))' /\ OwnData(r)' /\ OwnLink(r)'
<1>1. r \in Runs \ disturbed /\ (Relies(r)' <=> Relies(r))
  BY DEF Relies
<1>2. (Relies(r) => OwnTable(r) /\ OwnVersion(r)) /\ OwnData(r) /\ OwnLink(r)
  BY <1>1 DEF IsolationInv, OwnInv
<1>3. OwnData(r)'
  BY <1>2 DEF OwnData
<1>4. \A i \in 1 .. Len(versions) : versions'[i] = versions[i]
  BY Registering DEF TypeInv, PipelineTypeOK, MarquezTypeOK
<1>5. OwnLink(r)'
  <2>1. attributed[r] \in 0 .. Len(versions) /\ Len(versions) \in Nat
    BY DEF TypeInv, PipelineTypeOK, MarquezTypeOK
  <2>2. ~LostEvent(r, Etl, "COMPLETE")' => ~LostEvent(r, Etl, "COMPLETE")
    BY DEF LostEvent
  <2>3. attributed[r] > 0 => versions'[attributed[r]] = versions[attributed[r]]
    BY <1>4, <2>1
  <2>4. QED
    BY <1>2, <2>2, <2>3 DEF OwnLink
<1>6. ASSUME Relies(r)'
      PROVE  OwnTable(r)' /\ OwnVersion(r)'
  <2>1. UNCHANGED <<table, versions>>
    BY <1>1, <1>6 DEF Touch
  <2>2. OwnTable(r) /\ OwnVersion(r)
    BY <1>1, <1>2, <1>6
  <2>3. OwnTable(r)'
    BY <2>1, <2>2 DEF OwnTable
  <2>4. OwnVersion(r)'
    BY <2>1, <2>2 DEF OwnVersion, LostEvent
  <2>5. QED
    BY <2>3, <2>4
<1>7. QED
  BY <1>3, <1>5, <1>6

(* What every step leaves alone: the pods, data and links of other runs,   *)
(* and, unless the run that moves touches it, the table and its versions.  *)
Frame(c) ==
  /\ disturbed \subseteq disturbed'
  /\ c \in disturbed' => c \in disturbed
  /\ \A r \in Runs \ {c} :
       /\ step'[r] = step[r] /\ pc'[r] = pc[r] /\ marquez'[r] = marquez[r]
       /\ served'[r] = served[r] /\ labels'[r] = labels[r] /\ features'[r] = features[r]
       /\ attributed'[r] = attributed[r]
  /\ \/ UNCHANGED <<table, versions>>
     \/ Touch(c) /\ (versions' = versions \/ versions' = Append(versions, c))

(* A step of a pod that is none of those that use the table. *)
Aside(c) ==
  /\ UNCHANGED <<table, versions, served, labels, features, attributed, disturbed>>
  /\ pc'[c] \notin {"create", "insert", "finalize", "features"}
  /\ pc'[c] = "exit" => step[c] # Etl
  /\ pc'[c] = "raise" => pc[c] \in Body

LEMMA AsideSteps ==
  ASSUME TypeInv, NEW c \in Runs,
         \/ Guard(c) \/ RaiseOutside(c) \/ Enter(c) \/ RaiseInside(c) \/ ExitRaising(c)
         \/ Finalize(c) \/ Kill(c) \/ Work(c) \/ SkipRegistration(c) \/ TrainModel(c)
         \/ RegisterModel(c) \/ SetChampion(c)
  PROVE  Frame(c) /\ Aside(c)
<1> USE DEF data, events, lineage, Goto, At
<1>1. PodTypeOK /\ marquez \in [Runs -> [Steps -> Shown]]
  BY DEF TypeInv, PipelineTypeOK, MarquezTypeOK
<1>2. /\ UNCHANGED <<table, versions, served, labels, features, attributed, disturbed>>
      /\ marquez' = marquez \/ \E shown \in Shown : marquez' = [marquez EXCEPT ![c][step[c]] = shown]
  BY DEF Guard, RaiseOutside, Enter, RaiseInside, ExitRaising, Finalize, Kill, Work, SkipRegistration, TrainModel, RegisterModel, SetChampion, Arrives, IsLost, Shown
<1>3. \A r \in Runs \ {c} : marquez'[r] = marquez[r]
  BY <1>1, <1>2
<1>4. \A r \in Runs \ {c} : step'[r] = step[r] /\ pc'[r] = pc[r]
  BY <1>1 DEF Guard, RaiseOutside, Enter, RaiseInside, ExitRaising, Finalize, Kill, Work, SkipRegistration, TrainModel, RegisterModel, SetChampion, PodTypeOK
<1>5. /\ pc'[c] \notin {"create", "insert", "finalize", "features"}
      /\ pc'[c] = "exit" => step[c] # Etl
      /\ pc'[c] = "raise" => pc[c] \in Body
  BY <1>1 DEF Guard, RaiseOutside, Enter, RaiseInside, ExitRaising, Finalize, Kill, Work, SkipRegistration, TrainModel, RegisterModel, SetChampion, PodTypeOK, Etl, Apply, Engineer, Evaluate, Train, Register
<1>6. QED
  BY <1>2, <1>3, <1>4, <1>5 DEF Frame, Aside

Mine(c) == (Relies(c) => OwnTable(c) /\ OwnVersion(c)) /\ OwnData(c) /\ OwnLink(c)
MyRead(c) == features[c] # Unread =>
  \/ step[c] > Extract
  \/ step[c] = Extract /\ pc[c] \in {"exit", "raise", "finalize", "failed"}

(* Marquez shows a materialization as complete only because of its exit.   *)
LEMMA LinkStays ==
  ASSUME TypeInv, [PipelineNext]_pipelineVars, NEW c \in Runs, ~(pc[c] = "exit" /\ pc'[c] = "finalize"),
         versions' = versions, attributed'[c] = attributed[c], OwnLink(c)
  PROVE  OwnLink(c)'
<1>1. Moves /\ Materialize \in Steps
  BY EveryStepMoves DEF TypeInv, PipelineTypeOK, Steps, Materialize
<1>2. marquez'[c][Materialize] = "COMPLETED" => marquez[c][Materialize] = "COMPLETED"
  BY <1>1 DEF Moves, MarquezMove
<1>3. ~LostEvent(c, Etl, "COMPLETE")' => ~LostEvent(c, Etl, "COMPLETE")
  BY <1>1 DEF Moves, LostEvent
<1>4. QED
  BY <1>2, <1>3 DEF OwnLink

LEMMA AsideKeeps ==
  ASSUME TypeInv, [PipelineNext]_pipelineVars, NEW c \in Runs, Aside(c), MyRead(c)
  PROVE  MyRead(c)' /\ (Mine(c) => Mine(c)')
<1>1. /\ Moves /\ step[c] \in Steps /\ PodMove(c) /\ pc[c] \in Phase
  BY EveryStepMoves DEF TypeInv, PipelineTypeOK, PodTypeOK, Moves
<1>2. \/ step'[c] = step[c]
      \/ step'[c] = step[c] + 1 /\ pc[c] = "finalize" /\ pc'[c] = "guard"
  BY <1>1 DEF PodMove
<1>3. step[c] \in 1 .. 8
  BY <1>1 DEF Steps
<1>4. MyRead(c)'
  <2>1. CASE step'[c] = step[c]
    BY <1>1, <1>3, <2>1 DEF MyRead, Aside, PodMove, Extract, Register, Body, Over
  <2>2. CASE step'[c] = step[c] + 1
    BY <1>3, <2>2 DEF MyRead, Aside, Extract
  <2>3. QED
    BY <1>2, <2>1, <2>2
<1>5. ASSUME Mine(c)
      PROVE  Mine(c)'
  <2>1. OwnData(c)'
    BY <1>5 DEF Mine, OwnData, Aside
  <2>2. OwnLink(c)'
    BY <1>5, LinkStays DEF Mine, Aside
  <2>3. ASSUME Relies(c)'
        PROVE  OwnTable(c)' /\ OwnVersion(c)'
    <3>1. features[c] = Unread
      BY <2>3 DEF Relies, Aside
    <3>2. step'[c] > Etl => Relies(c) /\ (step[c] > Etl \/ pc[c] = "finalize")
      BY <1>2, <1>3, <3>1 DEF Relies, Etl
    <3>3. step'[c] > Etl => table' = {c} /\ OwnVersion(c)
      BY <1>5, <3>2 DEF Mine, OwnTable, Aside
    <3>4. pc'[c] = "exit" => step'[c] > Etl
      BY <1>2, <1>3 DEF Aside, Etl
    <3>5. pc'[c] \notin {"create", "insert", "finalize"}
      BY DEF Aside
    <3>6. OwnTable(c)'
      BY <3>3, <3>4, <3>5 DEF OwnTable
    <3>7. lost \subseteq lost' /\ versions' = versions
      BY <1>1 DEF Moves, Aside
    <3>8. OwnVersion(c)'
      <4>1. SUFFICES ASSUME step'[c] > Etl, ~LostEvent(c, Etl, "COMPLETE")'
                     PROVE  Len(versions') > 0 /\ versions'[Len(versions')] = c
        BY <3>5 DEF OwnVersion
      <4>2. ~LostEvent(c, Etl, "COMPLETE")
        BY <3>7, <4>1 DEF LostEvent
      <4>3. OwnVersion(c) /\ (step[c] > Etl \/ pc[c] = "finalize")
        BY <3>2, <3>3, <4>1
      <4>4. QED
        BY <3>7, <4>2, <4>3 DEF OwnVersion
    <3>9. QED
      BY <3>6, <3>8
  <2>4. QED
    BY <2>1, <2>2, <2>3 DEF Mine
<1>6. QED
  BY <1>4, <1>5

(* The three statements of the overwrite *)
LEMMA OverwriteKeeps ==
  ASSUME TypeInv, [PipelineNext]_pipelineVars, NEW c \in Runs, MyRead(c),
         DropTable(c) \/ CreateTable(c) \/ InsertRows(c)
  PROVE  Frame(c) /\ MyRead(c)' /\ (Mine(c) => Mine(c)')
<1>1. PodTypeOK
  BY DEF TypeInv, PipelineTypeOK
<1>2. /\ UNCHANGED <<step, served, labels, features, versions, attributed, marquez, lost>>
      /\ Touch(c)
      /\ step[c] = Etl
      /\ pc' = [pc EXCEPT ![c] = pc'[c]]
      /\ \/ pc[c] = "body" /\ pc'[c] = "create" /\ table' = Absent
         \/ pc[c] = "create" /\ pc'[c] = "insert" /\ table' = {}
         \/ pc[c] = "insert" /\ pc'[c] \in {"exit", "raise"} /\ table' = table \cup {c}
  BY <1>1 DEF DropTable, CreateTable, InsertRows, PodTypeOK, At, Goto, lineage, events
<1>3. Frame(c)
  <2>1. \A r \in Runs \ {c} : pc'[r] = pc[r]
    BY <1>1, <1>2 DEF PodTypeOK
  <2>2. disturbed \subseteq disturbed' /\ (c \in disturbed' => c \in disturbed)
    BY <1>2 DEF Touch
  <2>3. QED
    BY <1>2, <2>1, <2>2 DEF Frame
<1>4. features[c] = Unread
  BY <1>2 DEF MyRead, Etl, Extract
<1>5. MyRead(c)'
  BY <1>2, <1>4 DEF MyRead
<1>6. ASSUME Mine(c)
      PROVE  Mine(c)'
  <2>1. pc[c] = "insert" => table = {}
    BY <1>2, <1>4, <1>6 DEF Mine, OwnTable, Relies
  <2>2. OwnTable(c)'
    BY <1>2, <2>1 DEF OwnTable, Etl
  <2>3. OwnVersion(c)'
    BY <1>2 DEF OwnVersion, Etl
  <2>4. OwnData(c)' /\ OwnLink(c)'
    BY <1>2, <1>6 DEF Mine, OwnData, OwnLink, LostEvent
  <2>5. QED
    BY <2>2, <2>3, <2>4 DEF Mine
<1>7. QED
  BY <1>3, <1>5, <1>6

(* The three reads of the table *)
LEMMA ReadsKeep ==
  ASSUME TypeInv, [PipelineNext]_pipelineVars, NEW c \in Runs, MyRead(c),
         MaterializeRows(c) \/ ReadLabels(c) \/ ReadFeatures(c)
  PROVE  Frame(c) /\ MyRead(c)' /\ (Mine(c) => Mine(c)')
<1>1. PodTypeOK /\ DataTypeOK
  BY DEF TypeInv, PipelineTypeOK
<1>2. /\ UNCHANGED <<step, table, versions, attributed, marquez, lost, disturbed>>
      /\ step[c] \in {Materialize, Extract}
      /\ pc' = [pc EXCEPT ![c] = pc'[c]]
      /\ served' = [served EXCEPT ![c] = served'[c]] /\ served'[c] \in {served[c], table}
      /\ labels' = [labels EXCEPT ![c] = labels'[c]] /\ labels'[c] \in {labels[c], table}
      /\ features' = [features EXCEPT ![c] = features'[c]]
      /\ features'[c] = features[c] \/ (features'[c] = table /\ step[c] = Extract /\ pc'[c] = "exit")
      /\ pc[c] \in {"body", "features"} /\ pc'[c] \in {"features", "exit"}
  BY <1>1 DEF MaterializeRows, ReadLabels, ReadFeatures, PodTypeOK, DataTypeOK, At, Goto, lineage, events
<1>3. Frame(c)
  <2>1. \A r \in Runs \ {c} : pc'[r] = pc[r] /\ served'[r] = served[r] /\ labels'[r] = labels[r] /\ features'[r] = features[r]
    BY <1>1, <1>2 DEF PodTypeOK, DataTypeOK
  <2>2. QED
    BY <1>2, <2>1 DEF Frame
<1>4. features[c] = Unread
  BY <1>2 DEF MyRead, Materialize, Extract
<1>5. MyRead(c)'
  BY <1>2, <1>4 DEF MyRead
<1>6. ASSUME Mine(c)
      PROVE  Mine(c)'
  <2>1. Relies(c) /\ step[c] > Etl
    BY <1>2, <1>4 DEF Relies, Etl, Materialize, Extract
  <2>2. table = {c} /\ OwnVersion(c)
    BY <1>6, <2>1 DEF Mine, OwnTable
  <2>3. OwnTable(c)'
    BY <1>2, <2>1, <2>2 DEF OwnTable, Etl
  <2>4. OwnVersion(c)'
    BY <1>2, <2>1, <2>2 DEF OwnVersion, LostEvent
  <2>5. OwnData(c)'
    BY <1>2, <1>6, <2>2 DEF Mine, OwnData
  <2>6. OwnLink(c)'
    BY <1>2, <1>6 DEF Mine, OwnLink, LostEvent
  <2>7. QED
    BY <2>3, <2>4, <2>5, <2>6 DEF Mine
<1>7. QED
  BY <1>3, <1>5, <1>6

(* COMPLETE: a new version of the table, and a link to the newest.         *)
LEMMA ExitKeeps ==
  ASSUME TypeInv, [PipelineNext]_pipelineVars, NEW c \in Runs, MyRead(c), Exit(c)
  PROVE  Frame(c) /\ MyRead(c)' /\ (Mine(c) => Mine(c)')
<1>1. PodTypeOK /\ DataTypeOK /\ MarquezTypeOK
  BY DEF TypeInv, PipelineTypeOK
<1>2. /\ UNCHANGED <<step, table, served, labels, features>>
      /\ pc[c] = "exit" /\ pc'[c] = "finalize"
      /\ \A r \in Runs \ {c} : pc'[r] = pc[r]
  BY <1>1 DEF Exit, Goto, PodTypeOK
<1>3. /\ \A r \in Runs \ {c} : marquez'[r] = marquez[r] /\ attributed'[r] = attributed[r]
      /\ lost \subseteq lost'
  BY <1>1 DEF Exit, Arrives, IsLost, MarquezTypeOK
<1>4. \/ step[c] = Etl /\ versions' = Append(versions, c) /\ Touch(c)
      \/ step[c] = Etl /\ UNCHANGED <<versions, disturbed>> /\ LostEvent(c, Etl, "COMPLETE")'
      \/ step[c] # Etl /\ UNCHANGED <<versions, disturbed>>
  BY DEF Exit, IsLost, LostEvent
<1>5. \/ step[c] = Materialize /\ attributed'[c] = Len(versions)
      \/ /\ attributed'[c] = attributed[c]
         /\ marquez'[c][Materialize] = "COMPLETED" => marquez[c][Materialize] = "COMPLETED"
  <2>1. CASE Arrives(c, "COMPLETED") /\ attributed' = IF step[c] = Materialize THEN [attributed EXCEPT ![c] = Len(versions)]
                                                     ELSE attributed
    <3>1. step[c] # Materialize => marquez'[c][Materialize] = marquez[c][Materialize]
      BY <1>1, <2>1, ArrivesAt DEF Shown, Steps, Materialize
    <3>2. QED
      BY <1>1, <2>1, <3>1 DEF MarquezTypeOK
  <2>2. CASE UNCHANGED <<marquez, attributed>>
    BY <2>2
  <2>3. QED
    BY <2>1, <2>2 DEF Exit, IsLost
<1>6. Frame(c)
  BY <1>2, <1>3, <1>4 DEF Frame, Touch
<1>7. MyRead(c)'
  BY <1>2 DEF MyRead
<1>8. ASSUME Mine(c)
      PROVE  Mine(c)'
  <2>1. OwnData(c)'
    BY <1>2, <1>8 DEF Mine, OwnData
  <2>2. features[c] = Unread => OwnTable(c) /\ OwnVersion(c)
    BY <1>2, <1>8 DEF Mine, Relies
  <2>3. step[c] \in 1 .. 8 /\ Len(versions) \in Nat /\ attributed[c] \in 0 .. Len(versions)
    BY <1>1 DEF PodTypeOK, MarquezTypeOK, Steps
  <2>4. features[c] = Unread => OwnTable(c)'
    BY <1>2, <2>2 DEF OwnTable
  <2>5. features[c] = Unread => OwnVersion(c)'
    <3>1. (Len(versions') > 0 /\ versions'[Len(versions')] = c) \/ versions' = versions
      BY <1>1, <1>4, <2>3, Registering DEF MarquezTypeOK
    <3>2. ~LostEvent(c, Etl, "COMPLETE")' => ~LostEvent(c, Etl, "COMPLETE")
      BY <1>3 DEF LostEvent
    <3>3. CASE step[c] = Etl
      <4>1. versions' = Append(versions, c) \/ LostEvent(c, Etl, "COMPLETE")'
        BY <1>4, <3>3
      <4>2. versions' = Append(versions, c) => Len(versions') > 0 /\ versions'[Len(versions')] = c
        BY <1>1, <2>3, Registering DEF MarquezTypeOK
      <4>3. QED
        BY <4>1, <4>2 DEF OwnVersion
    <3>4. CASE step[c] # Etl
      <4>1. versions' = versions /\ step[c] > Etl
        BY <1>4, <2>3, <3>4 DEF Etl
      <4>2. QED
        BY <2>2, <3>2, <4>1 DEF OwnVersion
    <3>5. QED
      BY <3>3, <3>4
  <2>6. OwnLink(c)'
    <3>1. ~LostEvent(c, Etl, "COMPLETE")' => ~LostEvent(c, Etl, "COMPLETE")
      BY <1>3 DEF LostEvent
    <3>2. CASE step[c] = Materialize /\ attributed'[c] = Len(versions)
      <4>1. versions' = versions /\ step[c] > Etl
        BY <1>4, <3>2 DEF Etl, Materialize
      <4>2. features[c] = Unread
        BY <1>2, <3>2 DEF MyRead, Materialize, Extract
      <4>3. QED
        BY <2>2, <3>1, <3>2, <4>1, <4>2 DEF OwnLink, OwnVersion
    <3>3. CASE /\ attributed'[c] = attributed[c]
               /\ marquez'[c][Materialize] = "COMPLETED" => marquez[c][Materialize] = "COMPLETED"
      <4>1. attributed[c] > 0 => versions'[attributed[c]] = versions[attributed[c]]
        BY <1>1, <1>4, <2>3, Registering DEF MarquezTypeOK
      <4>2. QED
        BY <1>8, <3>1, <3>3, <4>1 DEF Mine, OwnLink
    <3>4. QED
      BY <1>5, <3>2, <3>3
  <2>7. QED
    BY <1>2, <2>1, <2>4, <2>5, <2>6 DEF Mine, Relies
<1>9. QED
  BY <1>6, <1>7, <1>8

LEMMA IsolationStep ==
  ASSUME TypeInv, IsolationInv, [PipelineNext]_pipelineVars
  PROVE  IsolationInv'
<1>1. \A c \in Runs : MyRead(c)
  BY DEF IsolationInv, ReadInv, MyRead
<1>2. ASSUME NEW c \in Runs,
             \/ Guard(c) \/ RaiseOutside(c) \/ Enter(c) \/ RaiseInside(c) \/ ExitRaising(c)
             \/ Finalize(c) \/ Kill(c) \/ Work(c) \/ SkipRegistration(c) \/ TrainModel(c)
             \/ RegisterModel(c) \/ SetChampion(c)
      PROVE  Frame(c) /\ MyRead(c)' /\ (Mine(c) => Mine(c)')
  BY <1>1, <1>2, AsideSteps, AsideKeeps
<1>3. ASSUME NEW c \in Runs, Frame(c), MyRead(c)', Mine(c) => Mine(c)'
      PROVE  IsolationInv'
  <2>1. lost \subseteq lost'
    BY EveryStepMoves DEF TypeInv, PipelineTypeOK, Moves
  <2>2. ASSUME NEW r \in Runs \ {c}
        PROVE  MyRead(r)'
    BY <1>1, <1>3 DEF MyRead, Frame
  <2>3. ASSUME NEW r \in Runs \ {c}, r \notin disturbed'
        PROVE  Mine(r)'
    BY <1>3, <2>1, <2>3, OthersLeaveIt DEF Frame, Mine
  <2>4. c \notin disturbed' => Mine(c)'
    BY <1>3 DEF Frame, IsolationInv, OwnInv, Mine
  <2>5. ReadInv'
    BY <1>3, <2>2 DEF ReadInv, MyRead
  <2>6. OwnInv'
    BY <2>3, <2>4 DEF OwnInv, Mine
  <2>7. QED
    BY <2>5, <2>6 DEF IsolationInv
<1>4. ASSUME UNCHANGED pipelineVars
      PROVE  IsolationInv'
  BY <1>4 DEF pipelineVars, data, lineage, events, IsolationInv, ReadInv, OwnInv, Relies, OwnTable, OwnVersion, OwnData, OwnLink, LostEvent
<1>5. QED
  BY <1>1, <1>2, <1>3, <1>4, OverwriteKeeps, ReadsKeep, ExitKeeps DEF PipelineNext, AllOver

(* However runs overlap, a run whose table nobody else has changed or      *)
(* reported between its replacement and the extraction is its own in all:  *)
(* what it serves, the labels and the features it trains on, and the       *)
(* version of the table Marquez links it to.                               *)
THEOREM UndisturbedRunsAreTheirOwn == PipelineSpec => []IsolatedRunIsItsOwn
<1>1. PipelineInit => IsolationInv
  <2> SUFFICES ASSUME PipelineInit
               PROVE  IsolationInv
    OBVIOUS
  <2>1. ASSUME NEW r \in Runs
        PROVE  /\ step[r] = Etl /\ pc[r] = "guard" /\ features[r] = Unread
               /\ labels[r] = Unread /\ served[r] = Unread
               /\ Materialize \in Steps => marquez[r][Materialize] = "NONE"
    BY DEF PipelineInit
  <2>2. \A r \in Runs : ~Relies(r) /\ OwnData(r) /\ OwnLink(r)
    <3> SUFFICES ASSUME NEW r \in Runs
                 PROVE  ~Relies(r) /\ OwnData(r) /\ OwnLink(r)
      OBVIOUS
    <3>1. Materialize \in Steps
      BY DEF Materialize, Steps
    <3>2. QED
      BY <2>1, <3>1 DEF Relies, OwnData, OwnLink, Etl
  <2>3. QED
    BY <2>1, <2>2 DEF IsolationInv, ReadInv, OwnInv
<1>2. TypeInv /\ IsolationInv /\ [PipelineNext]_pipelineVars => IsolationInv'
  BY IsolationStep
<1>3. IsolationInv => IsolatedRunIsItsOwn
  BY DEF IsolationInv, OwnInv, OwnData, OwnLink, IsolatedRunIsItsOwn
<1>4. QED
  BY <1>1, <1>2, <1>3, TypesHold, PTL DEF PipelineSpec

-----------------------------------------------------------------------------
(* Marquez shows every run as a chain: the pods implement StepChain.       *)

NoEnd(r, s) == ~LostEvent(r, s, "COMPLETE") /\ ~LostEvent(r, s, "FAIL")
Untold(r, s) == marquez[r][s] = "NONE" /\ NoEnd(r, s)
Unended(r, s) == marquez[r][s] \in {"NONE", "RUNNING"} /\ NoEnd(r, s)

(* Nothing has been said of the steps ahead, nor of the current one before *)
(* its pod enters, and its end has not been sent before its pod leaves.    *)
OpenInv ==
  \A r \in Runs :
    /\ \A s \in Steps : s > step[r] => Untold(r, s)
    /\ pc[r] \in {"guard", "enter"} => Untold(r, step[r])
    /\ pc[r] \in {"exit", "raise"} \cup Body => Unended(r, step[r])

(* The end of a step, sent by its pod: it arrives or it is lost. *)
Sends(r, type, state) ==
  \/ marquez' = [marquez EXCEPT ![r][step[r]] = state] /\ lost' = lost
  \/ lost' = lost \cup {<<r, step[r], type>>} /\ marquez' = marquez

(* What a step of a pod lets Marquez know. *)
Tells(r) ==
  \/ UNCHANGED <<marquez, lost>>
  \/ /\ pc[r] = "enter" /\ pc'[r] = "body"
     /\ marquez' = [marquez EXCEPT ![r][step[r]] = "RUNNING"] /\ lost' = lost
  \/ pc[r] = "exit" /\ pc'[r] = "finalize" /\ Sends(r, "COMPLETE", "COMPLETED")
  \/ pc[r] = "raise" /\ pc'[r] = "failed" /\ Sends(r, "FAIL", "FAILED")

LEMMA SomeoneTells ==
  ASSUME PodTypeOK, [PipelineNext]_pipelineVars
  PROVE  UNCHANGED <<marquez, lost>> \/ \E r \in Runs : Tells(r)
<1> USE DEF data, events, lineage, Goto, At, PodTypeOK, Tells
<1>1. ASSUME NEW r \in Runs, Enter(r)
      PROVE  Tells(r)
  BY <1>1 DEF Enter, Arrives
<1>2. ASSUME NEW r \in Runs, Exit(r)
      PROVE  Tells(r)
  BY <1>2 DEF Exit, Arrives, IsLost, Sends
<1>3. ASSUME NEW r \in Runs, ExitRaising(r)
      PROVE  Tells(r)
  BY <1>3 DEF ExitRaising, Arrives, IsLost, Sends
<1>4. ASSUME NEW r \in Runs,
             \/ Guard(r) \/ RaiseOutside(r) \/ RaiseInside(r) \/ Finalize(r)
             \/ Kill(r) \/ DropTable(r) \/ CreateTable(r) \/ InsertRows(r)
             \/ Work(r) \/ MaterializeRows(r) \/ ReadLabels(r) \/ ReadFeatures(r)
             \/ TrainModel(r) \/ SkipRegistration(r) \/ RegisterModel(r) \/ SetChampion(r)
      PROVE  UNCHANGED <<marquez, lost>>
  BY <1>4 DEF Guard, RaiseOutside, RaiseInside, Finalize, Kill, DropTable, CreateTable, InsertRows,
     Work, MaterializeRows, ReadLabels, ReadFeatures, TrainModel, SkipRegistration, RegisterModel, SetChampion
<1>5. ASSUME UNCHANGED pipelineVars
      PROVE  UNCHANGED <<marquez, lost>>
  BY <1>5 DEF pipelineVars
<1>6. QED
  BY <1>1, <1>2, <1>3, <1>4, <1>5 DEF PipelineNext, AllOver

(* What the teller says of one step changes nothing of the others. *)
LEMMA ToldOf ==
  ASSUME PodTypeOK, MarquezTypeOK, NEW r \in Runs, Tells(r)
  PROVE  /\ \A c \in Runs, s \in Steps : c # r \/ s # step[r] =>
              marquez'[c][s] = marquez[c][s] /\ (NoEnd(c, s) => NoEnd(c, s)')
         /\ \/ UNCHANGED <<marquez, lost>>
            \/ pc[r] = "enter" /\ pc'[r] = "body" /\ marquez'[r][step[r]] = "RUNNING"
               /\ lost' = lost
            \/ pc[r] \in {"exit", "raise"} /\ pc'[r] \in {"finalize", "failed"}
<1>1. marquez \in [Runs -> [Steps -> Shown]] /\ step[r] \in Steps
  BY DEF PodTypeOK, MarquezTypeOK
<1>2. ASSUME NEW state, marquez' = [marquez EXCEPT ![r][step[r]] = state]
      PROVE  /\ marquez'[r][step[r]] = state
             /\ \A c \in Runs, s \in Steps : c # r \/ s # step[r] => marquez'[c][s] = marquez[c][s]
  <2>1. PICK m : m = [marquez[r] EXCEPT ![step[r]] = state]
    OBVIOUS
  <2>2. m[step[r]] = state /\ \A s \in Steps : s # step[r] => m[s] = marquez[r][s]
    BY <1>1, <2>1
  <2>3. marquez' = [marquez EXCEPT ![r] = m]
    BY <1>2, <2>1
  <2>4. QED
    BY <1>1, <2>2, <2>3
<1>3. ASSUME NEW type, lost' = lost \cup {<<r, step[r], type>>}
      PROVE  \A c \in Runs, s \in Steps : c # r \/ s # step[r] => (NoEnd(c, s) => NoEnd(c, s)')
  BY <1>3 DEF NoEnd, LostEvent
<1>4. lost' = lost => \A c \in Runs, s \in Steps : NoEnd(c, s) => NoEnd(c, s)'
  BY DEF NoEnd, LostEvent
<1>5. CASE UNCHANGED <<marquez, lost>>
  BY <1>4, <1>5
<1>6. CASE /\ pc[r] = "enter" /\ pc'[r] = "body"
           /\ marquez' = [marquez EXCEPT ![r][step[r]] = "RUNNING"] /\ lost' = lost
  <2>1. /\ marquez'[r][step[r]] = "RUNNING"
        /\ \A c \in Runs, s \in Steps : c # r \/ s # step[r] => marquez'[c][s] = marquez[c][s]
    BY <1>2, <1>6
  <2>2. QED
    BY <1>4, <1>6, <2>1
<1>7. CASE pc[r] = "exit" /\ pc'[r] = "finalize" /\ Sends(r, "COMPLETE", "COMPLETED")
  BY <1>2, <1>3, <1>4, <1>7 DEF Sends
<1>8. CASE pc[r] = "raise" /\ pc'[r] = "failed" /\ Sends(r, "FAIL", "FAILED")
  BY <1>2, <1>3, <1>4, <1>8 DEF Sends
<1>9. QED
  BY <1>5, <1>6, <1>7, <1>8 DEF Tells

LEMMA OpenStep ==
  ASSUME PodTypeOK, MarquezTypeOK, OpenInv, [PipelineNext]_pipelineVars
  PROVE  OpenInv'
<1> SUFFICES ASSUME NEW c \in Runs
             PROVE  /\ \A s \in Steps : s > step'[c] => Untold(c, s)'
                    /\ pc'[c] \in {"guard", "enter"} => Untold(c, step[c])'
                    /\ pc'[c] \in {"exit", "raise"} \cup Body => Unended(c, step[c])'
  BY DEF OpenInv
<1>1. PICK i \in 1 .. 8 : i = step[c]
  BY DEF PodTypeOK, Steps
<1>2. /\ PodMove(c) /\ Steps = 1 .. 8 /\ step'[c] \in 1 .. 8
      /\ \A s \in Steps : s > i => Untold(c, s)
      /\ pc[c] \in {"guard", "enter"} => Untold(c, i)
      /\ pc[c] \in {"exit", "raise"} \cup Body => Unended(c, i)
  BY <1>1, EveryStepMoves, PodTypeStep DEF PodTypeOK, Moves, OpenInv, Steps
<1>3. step'[c] = i \/ (step'[c] = i + 1 /\ pc[c] = "finalize" /\ pc'[c] = "guard")
  BY <1>1, <1>2 DEF PodMove
<1>4. /\ pc'[c] \in {"guard", "enter"} /\ step'[c] = i => pc[c] \in {"guard", "enter"}
      /\ pc'[c] \in {"exit", "raise"} \cup Body
           => step'[c] = i /\ pc[c] \in {"enter", "exit", "raise"} \cup Body
  <2>1. i + 1 # i
    OBVIOUS
  <2>2. QED
    BY <1>1, <1>2, <1>3, <2>1 DEF PodMove, Body, Over
<1>5. /\ \A s \in Steps : s # i /\ Untold(c, s) => Untold(c, s)'
      /\ Untold(c, i) => Untold(c, i)' \/ (pc'[c] = "body" /\ Unended(c, i)')
                         \/ pc'[c] \in {"finalize", "failed"}
      /\ Unended(c, i) => Unended(c, i)' \/ pc'[c] \in {"finalize", "failed"}
  <2>1. i \in Steps
    BY <1>2
  <2>2. UNCHANGED <<marquez, lost>> => \A s \in Steps : (Untold(c, s) => Untold(c, s)') /\ (Unended(c, s) => Unended(c, s)')
    BY DEF Untold, Unended, NoEnd, LostEvent
  <2>3. ASSUME NEW r \in Runs, Tells(r), ~UNCHANGED <<marquez, lost>>
        PROVE  /\ \A s \in Steps : c # r \/ s # i => (Untold(c, s) => Untold(c, s)') /\ (Unended(c, s) => Unended(c, s)')
               /\ c = r => \/ pc'[c] \in {"finalize", "failed"}
                          \/ /\ pc'[c] = "body"
                             /\ NoEnd(c, i) => Unended(c, i)'
    <3>1. \A s \in Steps : c # r \/ s # i => marquez'[c][s] = marquez[c][s] /\ (NoEnd(c, s) => NoEnd(c, s)')
      BY <1>1, <2>3, ToldOf
    <3>2. c = r => \/ pc'[c] \in {"finalize", "failed"}
                   \/ pc'[c] = "body" /\ marquez'[c][i] = "RUNNING" /\ lost' = lost
      BY <1>1, <2>3, ToldOf
    <3>3. lost' = lost => (NoEnd(c, i) => NoEnd(c, i)')
      BY DEF NoEnd, LostEvent
    <3>4. QED
      BY <3>1, <3>2, <3>3 DEF Untold, Unended
  <2>4. QED
    BY <2>1, <2>2, <2>3, SomeoneTells DEF Untold, Unended
<1>6. \A s \in Steps : s > step'[c] => Untold(c, s)'
  BY <1>2, <1>3, <1>5
<1>7. pc'[c] \in {"guard", "enter"} => Untold(c, step[c])'
  <2>1. ASSUME pc'[c] \in {"guard", "enter"}
        PROVE  (step'[c] = i /\ Untold(c, i)') \/ (step'[c] = i + 1 /\ Untold(c, i + 1)')
    <3>1. CASE step'[c] = i
      BY <1>2, <1>4, <1>5, <2>1, <3>1
    <3>2. CASE step'[c] = i + 1
      BY <1>2, <1>5, <3>2
    <3>3. QED
      BY <1>3, <3>1, <3>2
  <2>2. QED
    BY <2>1 DEF Untold, NoEnd, LostEvent
<1>8. pc'[c] \in {"exit", "raise"} \cup Body => Unended(c, step[c])'
  <2>1. ASSUME pc'[c] \in {"exit", "raise"} \cup Body
        PROVE  Unended(c, i)' /\ step'[c] = i
    <3>1. step'[c] = i /\ (Untold(c, i) \/ Unended(c, i))
      BY <1>2, <1>4, <2>1
    <3>2. Untold(c, i)' => Unended(c, i)'
      BY DEF Untold, Unended
    <3>3. pc'[c] \notin {"finalize", "failed"}
      BY <2>1 DEF Body
    <3>4. QED
      BY <1>5, <3>1, <3>2, <3>3
  <2>2. QED
    BY <2>1 DEF Unended, NoEnd, LostEvent
<1>9. QED
  BY <1>6, <1>7, <1>8

LEMMA OpenHolds == PipelineSpec => [](ChainInv /\ OpenInv)
<1>1. PipelineInit => OpenInv
  <2> SUFFICES ASSUME PipelineInit, NEW r \in Runs
               PROVE  /\ \A s \in Steps : s > step[r] => Untold(r, s)
                      /\ pc[r] \in {"guard", "enter"} => Untold(r, step[r])
                      /\ pc[r] \in {"exit", "raise"} \cup Body => Unended(r, step[r])
    BY DEF OpenInv
  <2>1. \A s \in Steps : Untold(r, s)
    BY DEF PipelineInit, Untold, NoEnd, LostEvent
  <2>2. pc[r] = "guard" /\ step[r] \in Steps
    BY DEF PipelineInit, Etl, Steps
  <2>3. QED
    BY <2>1, <2>2 DEF Body
<1>2. ChainInv /\ OpenInv /\ [PipelineNext]_pipelineVars => OpenInv'
  BY OpenStep DEF ChainInv, TypeInv, PipelineTypeOK
<1>3. QED
  BY <1>1, <1>2, ChainHolds, PTL DEF PipelineSpec

(* A pod that is at its step has reached it. *)
LEMMA StepIsReached ==
  ASSUME ChainInv, OpenInv, NEW r \in Runs, pc[r] \in {"enter", "exit", "raise"} \cup Body
  PROVE  step[r] \in Steps /\ Chain!Reached(r, step[r])
<1>1. step[r] \in Steps /\ \A t \in Steps : t < step[r] => Done(r, t)
  BY DEF ChainInv, TypeInv, PipelineTypeOK, PodTypeOK, ProgressInv
<1>2. Unended(r, step[r])
  BY DEF OpenInv, Untold, Unended
<1>3. \A t \in Steps : Done(r, t) => Chain!Completed(r, t)
  BY DEF Done, LostEvent, Chain!Completed
<1>4. Chain!Open(r, step[r])
  BY <1>2 DEF Unended, NoEnd, LostEvent, Chain!Open
<1>5. QED
  BY <1>1, <1>3, <1>4 DEF Chain!Reached

(* Whatever runs overlap, fail or are killed, and whatever events are lost,*)
(* Marquez shows each run as a chain: steps begin in order, each ends once *)
(* at most, and a run of which a step failed is not heard of again.        *)
THEOREM PodsImplementChain == PipelineSpec => ImplementsChain
<1>1. PipelineInit => Chain!Init
  BY DEF PipelineInit, Chain!Init
<1>2. ChainInv /\ OpenInv /\ [PipelineNext]_pipelineVars => [Chain!Next]_Chain!chainVars
  <2> SUFFICES ASSUME ChainInv, OpenInv, [PipelineNext]_pipelineVars
               PROVE  [Chain!Next]_Chain!chainVars
    OBVIOUS
  <2>1. CASE UNCHANGED <<marquez, lost>>
    BY <2>1 DEF Chain!chainVars
  <2>2. ASSUME NEW r \in Runs, Tells(r), ~UNCHANGED <<marquez, lost>>
        PROVE  Chain!Next
    <3>1. pc[r] \in {"enter", "exit", "raise"}
      BY <2>2 DEF Tells
    <3>2. step[r] \in Steps /\ Chain!Reached(r, step[r])
      BY <3>1, StepIsReached
    <3>3. CASE pc[r] = "enter"
      <4>1. Untold(r, step[r])
        BY <3>3 DEF OpenInv
      <4>2. Chain!Begin(r, step[r])
        BY <2>2, <3>2, <3>3, <4>1 DEF Tells, Untold, Chain!Begin
      <4>3. QED
        BY <3>2, <4>2 DEF Chain!Next
    <3>4. CASE pc[r] = "exit"
      <4>1. Chain!End(r, step[r], "COMPLETE", "COMPLETED")
        BY <2>2, <3>2, <3>4 DEF Tells, Sends, Chain!End
      <4>2. QED
        BY <3>2, <4>1 DEF Chain!Next
    <3>5. CASE pc[r] = "raise"
      <4>1. Chain!End(r, step[r], "FAIL", "FAILED")
        BY <2>2, <3>2, <3>5 DEF Tells, Sends, Chain!End
      <4>2. QED
        BY <3>2, <4>1 DEF Chain!Next
    <3>6. QED
      BY <3>1, <3>3, <3>4, <3>5
  <2>3. PodTypeOK
    BY DEF ChainInv, TypeInv, PipelineTypeOK
  <2>4. QED
    BY <2>1, <2>2, <2>3, SomeoneTells
<1>3. QED
  BY <1>1, <1>2, OpenHolds, PTL DEF PipelineSpec, ImplementsChain, Chain!Spec
=============================================================================
