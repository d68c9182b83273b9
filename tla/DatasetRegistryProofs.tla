----------------------- MODULE DatasetRegistryProofs -----------------------
(* Theorems about DatasetRegistry, for any number of calls, URIs and faults. *)
EXTENDS DatasetRegistry, TLAPS

IdsAreUnique == \A x, y \in rows : x.id = y.id => x = y

Stands(c) == \E row \in rows : row.id = target[c] /\ row.source = source[c]
Gone(c) == \A row \in rows : row.id # target[c]
LookedUp(i) == i > 0 /\ \E d \in Calls : op[d] = "delete" /\ target[d] = i

(* What each stage of a call has established; while it is under way, it    *)
(* has met the table as it is now.                                         *)
StageInv(c) ==
  /\ Active(c) => Registered \in met[c]
  /\ stage[c] = "new" => result[c] = "none" /\ met[c] = {}
  /\ stage[c] \in {"new", "check", "insert", "lookup"} => target[c] = 0
  /\ stage[c] \in {"check", "insert", "announce"} => op[c] = "create"
  /\ stage[c] \in {"lookup", "apply"} => op[c] # "create"
  /\ stage[c] \in {"announce", "reply"} /\ op[c] = "create" =>
       target[c] > 0 /\ \E R \in met[c] : Free(R, source[c])
  /\ stage[c] \in {"apply", "reply"} /\ op[c] # "create" =>
       target[c] > 0 /\ \E R \in met[c] : source[c] \in R
  /\ stage[c] = "apply" => Stands(c) \/ (Gone(c) /\ \E R \in met[c] : source[c] \notin R)

(* The registration a create made stands, or a delete has looked it up. *)
MadeInv(c) ==
  /\ op[c] = "create" /\ target[c] > 0 => Stands(c) \/ LookedUp(target[c])
  /\ result[c] = "created" => op[c] = "create" /\ target[c] > 0

Truthful(c) ==
  /\ result[c] = "created" => \E R \in met[c] : Free(R, source[c])
  /\ result[c] = "refused" => \E R \in met[c] : ~Free(R, source[c])
  /\ result[c] = "conflict" => \E R \in met[c] : source[c] \in R
  /\ result[c] = "not found" => \E R \in met[c] : source[c] \notin R
  /\ result[c] \in {"updated", "deleted"} => \E R \in met[c] : source[c] \in R

CallInv(c) == StageInv(c) /\ MadeInv(c) /\ Truthful(c)

RegistryInv == /\ RegistryTypeOK /\ OneRowPerIdentity /\ IdsAreUnique
               /\ \A c \in Calls : CallInv(c)

-----------------------------------------------------------------------------
(* What the parts of a step do to the state of the calls *)

LEMMA GotoAt ==
  ASSUME RegistryTypeOK, NEW c \in Calls, NEW from, NEW to, Goto(c, from, to)
  PROVE  /\ stage[c] = from /\ stage'[c] = to
         /\ \A d \in Calls \ {c} : stage'[d] = stage[d]
BY DEF Goto, RegistryTypeOK

LEMMA AnswerAt ==
  ASSUME RegistryTypeOK, NEW c \in Calls, NEW from, NEW answer, Answer(c, from, answer)
  PROVE  /\ stage[c] = from /\ stage'[c] = "over"
         /\ result'[c] \in {result[c], answer}
         /\ \A d \in Calls \ {c} : stage'[d] = stage[d] /\ result'[d] = result[d]
BY GotoAt DEF Answer, RegistryTypeOK

Results == {"none", "created", "conflict", "refused", "updated", "deleted", "not found",
            "timeout", "error"}

LEMMA DoneIsAnswered ==
  ASSUME RegistryTypeOK, NEW c \in Calls
  PROVE  /\ Done[op[c]] \in Results
         /\ op[c] = "create" => Done[op[c]] = "created"
         /\ op[c] # "create" => Done[op[c]] \in {"updated", "deleted"}
<1>1. op[c] \in {"create", "update", "delete"}
  BY DEF RegistryTypeOK, Ops
<1>2. Done.create = "created" /\ Done.update = "updated" /\ Done.delete = "deleted"
  BY DEF Done
<1>3. QED
  BY <1>1, <1>2 DEF Results

LEMMA FaultType ==
  ASSUME RegistryTypeOK, Fault
  PROVE  faults' \in 0 .. MaxFaults
<1>1. faults \in 0 .. MaxFaults /\ faults < MaxFaults /\ faults' = faults + 1
  BY DEF Fault, RegistryTypeOK
<1>2. QED
  BY <1>1, RegistryAssumption

LEMMA AnswerType ==
  ASSUME RegistryTypeOK, NEW c \in Calls, NEW from, NEW answer \in Results, Answer(c, from, answer)
  PROVE  stage' \in [Calls -> Stages] /\ result' \in [Calls -> Results]
BY DEF Answer, Goto, RegistryTypeOK, Stages, Results

LEMMA RowFields ==
  ASSUME RegistryTypeOK, NEW row \in rows
  PROVE  /\ row.id \in Nat \ {0} /\ row.source \in Sources /\ row.id < nextId
         /\ \A c \in Calls : /\ [row EXCEPT !.text = c] \in Row
                             /\ [row EXCEPT !.text = c].id = row.id
                             /\ [row EXCEPT !.text = c].source = row.source
<1>1. row \in Row
  BY DEF RegistryTypeOK
<1>2. row.id \in Nat \ {0} /\ row.source \in Sources
  BY <1>1 DEF Row
<1>3. row.id < nextId
  BY DEF RegistryTypeOK
<1>4. QED
  BY <1>1, <1>2, <1>3 DEF Row

LEMMA NewRow ==
  ASSUME RegistryTypeOK, NEW c \in Calls
  PROVE  [id |-> nextId, source |-> source[c], text |-> c] \in Row
BY DEF RegistryTypeOK, Row

LEMMA WitnessType ==
  ASSUME RegistryTypeOK, rows' \subseteq Row, Witness
  PROVE  met' \in [Calls -> SUBSET SUBSET Sources]
<1>1. Registered' \in SUBSET Sources
  BY DEF Registered, Row
<1>2. ASSUME NEW d \in Calls
      PROVE  met[d] \in SUBSET SUBSET Sources /\ met[d] \cup {Registered'} \in SUBSET SUBSET Sources
  BY <1>1 DEF RegistryTypeOK
<1>3. QED
  BY <1>2 DEF Witness

LEMMA RegistryTypeStep ==
  ASSUME RegistryTypeOK, [RegistryNext]_registryVars
  PROVE  RegistryTypeOK'
<1> USE RegistryAssumption DEF table, request, Goto, Answer, Stages
<1>1. ASSUME NEW c \in Calls, Begin(c)
      PROVE  RegistryTypeOK'
  <2>1. Registered \in SUBSET Sources
    BY RowFields DEF Registered
  <2>2. {Registered} \in SUBSET SUBSET Sources
    BY <2>1
  <2>3. met' \in [Calls -> SUBSET SUBSET Sources]
    BY <1>1, <2>2 DEF Begin, RegistryTypeOK
  <2>4. QED
    BY <1>1, <2>3 DEF Begin, RegistryTypeOK
<1>2. ASSUME NEW c \in Calls, CheckSource(c)
      PROVE  RegistryTypeOK'
  BY <1>2 DEF CheckSource, RegistryTypeOK
<1>3. ASSUME NEW c \in Calls, InsertRow(c)
      PROVE  RegistryTypeOK'
  <2>1. CASE Answer(c, "insert", "refused") /\ UNCHANGED <<table, marquez, request, target, met, faults>>
    BY <2>1 DEF RegistryTypeOK
  <2>2. CASE /\ Goto(c, "insert", "announce")
             /\ rows' = rows \cup {[id |-> nextId, source |-> source[c], text |-> c]}
             /\ nextId' = nextId + 1
             /\ target' = [target EXCEPT ![c] = nextId]
             /\ Witness
             /\ UNCHANGED <<marquez, request, result, faults>>
    <3>1. rows' \subseteq Row
      BY <2>2, NewRow DEF RegistryTypeOK
    <3>2. met' \in [Calls -> SUBSET SUBSET Sources]
      BY <2>2, <3>1, WitnessType
    <3>3. PICK n \in Nat \ {0} : n = nextId
      BY DEF RegistryTypeOK
    <3>4. nextId' = n + 1 /\ nextId' \in Nat \ {0}
      BY <2>2, <3>3
    <3>5. \A row \in rows' : row.id < nextId'
      <4>1. ASSUME NEW row \in rows
            PROVE  row.id < nextId'
        <5>1. PICK i \in Nat : i = row.id /\ i < n
          BY <3>3, RowFields
        <5>2. QED
          BY <3>4, <5>1
      <4>2. QED
        BY <2>2, <3>3, <3>4, <4>1
    <3>6. target' \in [Calls -> Nat] /\ \A d \in Calls : target'[d] < nextId'
      <4>1. target \in [Calls -> Nat] /\ \A d \in Calls : target[d] < n
        BY <3>3 DEF RegistryTypeOK
      <4>2. target' = [target EXCEPT ![c] = n]
        BY <2>2, <3>3
      <4>3. QED
        BY <3>4, <4>1, <4>2
    <3>7. stage' \in [Calls -> Stages]
      BY <2>2 DEF RegistryTypeOK
    <3>8. QED
      BY <2>2, <3>1, <3>2, <3>4, <3>5, <3>6, <3>7 DEF RegistryTypeOK
  <2>3. QED
    BY <1>3, <2>1, <2>2 DEF InsertRow
<1>4. ASSUME NEW c \in Calls, Announce(c)
      PROVE  RegistryTypeOK'
  BY <1>4 DEF Announce, RegistryTypeOK
<1>5. ASSUME NEW c \in Calls, LookUp(c)
      PROVE  RegistryTypeOK'
  <2>1. CASE Answer(c, "lookup", "not found") /\ UNCHANGED target
    BY <1>5, <2>1 DEF LookUp, RegistryTypeOK
  <2>2. ASSUME NEW row \in rows, Goto(c, "lookup", "apply"), target' = [target EXCEPT ![c] = row.id], UNCHANGED result
        PROVE  RegistryTypeOK'
    <3>1. PICK i \in Nat : i = row.id /\ i < nextId
      BY RowFields
    <3>2. target' \in [Calls -> Nat] /\ \A d \in Calls : target'[d] < nextId
      BY <2>2, <3>1 DEF RegistryTypeOK
    <3>3. QED
      BY <1>5, <2>2, <3>2 DEF LookUp, RegistryTypeOK
  <2>3. QED
    BY <1>5, <2>1, <2>2 DEF LookUp
<1>6. ASSUME NEW c \in Calls, RowGone(c) \/ Reply(c)
      PROVE  RegistryTypeOK'
  <2>1. stage' \in [Calls -> Stages] /\ result' \in [Calls -> Results]
    <3>1. CASE RowGone(c)
      BY <3>1, AnswerType DEF RowGone, Results
    <3>2. CASE Reply(c)
      BY <3>2, AnswerType, DoneIsAnswered DEF Reply
    <3>3. QED
      BY <1>6, <3>1, <3>2
  <2>2. QED
    BY <1>6, <2>1 DEF RowGone, Reply, RegistryTypeOK, Stages, Results
<1>7. ASSUME NEW c \in Calls, UpdateRow(c)
      PROVE  RegistryTypeOK'
  <2>1. PICK row \in rows : rows' = (rows \ {row}) \cup {[row EXCEPT !.text = c]}
    BY <1>7 DEF UpdateRow
  <2>2. rows' \subseteq Row /\ \A x \in rows' : x.id < nextId
    <3>1. [row EXCEPT !.text = c] \in Row /\ [row EXCEPT !.text = c].id = row.id /\ row.id < nextId
      BY RowFields
    <3>2. QED
      BY <2>1, <3>1 DEF RegistryTypeOK
  <2>3. QED
    BY <1>7, <2>2 DEF UpdateRow, RegistryTypeOK
<1>8. ASSUME NEW c \in Calls, DeleteRow(c)
      PROVE  RegistryTypeOK'
  <2>1. rows' \subseteq rows
    BY <1>8 DEF DeleteRow
  <2>2. met' \in [Calls -> SUBSET SUBSET Sources]
    BY <1>8, <2>1, WitnessType DEF DeleteRow, RegistryTypeOK
  <2>3. QED
    BY <1>8, <2>1, <2>2 DEF DeleteRow, RegistryTypeOK
<1>9. ASSUME NEW c \in Calls, TimeOut(c)
      PROVE  RegistryTypeOK'
  BY <1>9, FaultType DEF TimeOut, RegistryTypeOK
<1>10. ASSUME NEW c \in Calls, Lose(c)
      PROVE  RegistryTypeOK'
  <2>1. stage' \in [Calls -> Stages] /\ result' \in [Calls -> Results]
    BY <1>10, AnswerType DEF Lose, Results
  <2>2. faults' \in 0 .. MaxFaults
    BY <1>10, FaultType DEF Lose
  <2>3. QED
    BY <1>10, <2>1, <2>2 DEF Lose, RegistryTypeOK, Stages, Results
<1>11. CASE UNCHANGED registryVars
  BY <1>11 DEF registryVars, RegistryTypeOK
<1>12. QED
  BY <1>1, <1>2, <1>3, <1>4, <1>5, <1>6, <1>7, <1>8, <1>9, <1>10, <1>11 DEF RegistryNext, AllServed

-----------------------------------------------------------------------------
(* The table: one row per identity and per id, whatever a step does. *)
LEMMA TableStep ==
  ASSUME RegistryInv, [RegistryNext]_registryVars
  PROVE  OneRowPerIdentity' /\ IdsAreUnique'
<1> USE DEF RegistryInv, OneRowPerIdentity, IdsAreUnique
<1>1. ASSUME NEW c \in Calls, InsertRow(c)
      PROVE  OneRowPerIdentity' /\ IdsAreUnique'
  <2>1. CASE UNCHANGED rows
    BY <2>1
  <2>2. CASE /\ \A row \in rows : ~Clashes(row, source[c])
             /\ rows' = rows \cup {[id |-> nextId, source |-> source[c], text |-> c]}
    <3>1. PICK new : new = [id |-> nextId, source |-> source[c], text |-> c]
      OBVIOUS
    <3>2. rows' = rows \cup {new} /\ new.id = nextId /\ new.source = source[c]
      BY <2>2, <3>1
    <3>3. \A row \in rows : row.id # nextId
      <4>1. PICK n \in Nat : n = nextId
        BY DEF RegistryTypeOK
      <4>2. QED
        BY <4>1, RowFields
    <3>4. \A row \in rows : IdentityOf[row.source] # IdentityOf[new.source]
      BY <2>2, <3>2 DEF Clashes
    <3>5. QED
      BY <3>2, <3>3, <3>4
  <2>3. QED
    BY <1>1, <2>1, <2>2 DEF InsertRow, table
<1>2. ASSUME NEW c \in Calls, UpdateRow(c)
      PROVE  OneRowPerIdentity' /\ IdsAreUnique'
  <2>1. PICK row \in rows : rows' = (rows \ {row}) \cup {[row EXCEPT !.text = c]}
    BY <1>2 DEF UpdateRow
  <2>2. PICK new : new = [row EXCEPT !.text = c]
    OBVIOUS
  <2>3. new.id = row.id /\ new.source = row.source
    BY <2>2, RowFields
  <2>4. rows' = (rows \ {row}) \cup {new}
    BY <2>1, <2>2
  <2>5. QED
    BY <2>3, <2>4
<1>3. ASSUME NEW c \in Calls, DeleteRow(c)
      PROVE  OneRowPerIdentity' /\ IdsAreUnique'
  BY <1>3 DEF DeleteRow
<1>4. ASSUME NEW c \in Calls,
             \/ Begin(c) \/ CheckSource(c) \/ Announce(c) \/ LookUp(c) \/ RowGone(c)
             \/ Reply(c) \/ TimeOut(c) \/ Lose(c)
      PROVE  OneRowPerIdentity' /\ IdsAreUnique'
  BY <1>4 DEF Begin, CheckSource, Announce, LookUp, RowGone, Reply, TimeOut, Lose, table
<1>5. CASE UNCHANGED registryVars
  BY <1>5 DEF registryVars, table
<1>6. QED
  BY <1>1, <1>2, <1>3, <1>4, <1>5 DEF RegistryNext, AllServed

-----------------------------------------------------------------------------
(* A step of one call, seen by another: nothing happens to it but that the *)
(* table may change under it, and a registration is removed only by a      *)
(* delete that has looked it up.                                           *)
Unmoved(d) ==
  /\ stage'[d] = stage[d] /\ result'[d] = result[d] /\ target'[d] = target[d]
  /\ met[d] \subseteq met'[d]
  /\ stage[d] = "new" => met'[d] = met[d]
  /\ Active(d) => Registered' \in met'[d]

TableMoves ==
  /\ UNCHANGED request
  /\ \A d \in Calls : target[d] > 0 => target'[d] = target[d]
  /\ \A x \in rows : (\E y \in rows' : y.id = x.id /\ y.source = x.source)
                     \/ (/\ \A y \in rows' : y.id # x.id
                         /\ x.source \notin Registered'
                         /\ LookedUp(x.id))
  /\ \A y \in rows' : (\E x \in rows : x.id = y.id) \/ (\A d \in Calls : target[d] # y.id)

LEMMA UnmovedKeeps ==
  ASSUME RegistryTypeOK, NEW d \in Calls, CallInv(d), Unmoved(d), TableMoves
  PROVE  CallInv(d)'
<1>1. op'[d] = op[d] /\ source'[d] = source[d] /\ target[d] \in Nat
  BY DEF TableMoves, request, RegistryTypeOK
<1>2. LookedUp(target[d]) => LookedUp(target[d])'
  BY <1>1 DEF LookedUp, TableMoves, Unmoved, request
<1>3. Stands(d) => Stands(d)' \/ (Gone(d)' /\ source[d] \notin Registered' /\ LookedUp(target[d]))
  BY <1>1 DEF Stands, Gone, TableMoves, Unmoved
<1>4. Gone(d) => Gone(d)'
  BY DEF Gone, TableMoves, Unmoved
<1>5. StageInv(d)'
  <2>1. stage[d] = "apply" => Stands(d)' \/ (Gone(d)' /\ \E R \in met'[d] : source[d] \notin R)
    <3>1. stage[d] = "apply" => Registered' \in met'[d]
      BY DEF Unmoved, Active
    <3>2. stage[d] = "apply" => Stands(d) \/ (Gone(d) /\ \E R \in met[d] : source[d] \notin R)
      BY DEF CallInv, StageInv
    <3>3. QED
      BY <1>3, <1>4, <3>1, <3>2 DEF Unmoved
  <2>2. (Active(d) => Registered \in met[d])' 
    BY DEF Unmoved, Active
  <2>3. QED
    BY <1>1, <2>1, <2>2 DEF CallInv, StageInv, Unmoved
<1>6. MadeInv(d)'
  BY <1>1, <1>2, <1>3 DEF CallInv, MadeInv, Unmoved
<1>7. Truthful(d)'
  BY <1>1 DEF CallInv, Truthful, Unmoved
<1>8. QED
  BY <1>5, <1>6, <1>7 DEF CallInv

(* What the step of a call is to the others. *)
LEMMA StepLeavesOthers ==
  ASSUME RegistryInv, NEW c \in Calls,
         \/ Begin(c) \/ CheckSource(c) \/ InsertRow(c) \/ Announce(c) \/ LookUp(c)
         \/ RowGone(c) \/ UpdateRow(c) \/ DeleteRow(c) \/ Reply(c) \/ TimeOut(c) \/ Lose(c)
  PROVE  TableMoves /\ \A d \in Calls \ {c} : Unmoved(d)
<1> USE DEF table, request
<1>1. RegistryTypeOK /\ StageInv(c) /\ IdsAreUnique /\ OneRowPerIdentity
      /\ \A d \in Calls : Active(d) => Registered \in met[d]
  BY DEF RegistryInv, CallInv, StageInv
<1>2. /\ stage \in [Calls -> Stages] /\ result \in [Calls -> Results]
      /\ met \in [Calls -> SUBSET SUBSET Sources] /\ target \in [Calls -> Nat]
  BY <1>1 DEF RegistryTypeOK, Stages, Results
<1>3. ASSUME UNCHANGED <<rows, request>>, \A d \in Calls : target[d] > 0 => target'[d] = target[d]
      PROVE  TableMoves
  BY <1>3 DEF TableMoves
<1>4. ASSUME UNCHANGED <<rows, met>>,
             \A d \in Calls \ {c} : stage'[d] = stage[d] /\ result'[d] = result[d] /\ target'[d] = target[d]
      PROVE  \A d \in Calls \ {c} : Unmoved(d)
  BY <1>1, <1>4 DEF Unmoved, Registered
<1>5. CASE Begin(c)
  <2>1. TableMoves
    BY <1>3, <1>5 DEF Begin
  <2>2. \A d \in Calls \ {c} : Unmoved(d)
    BY <1>1, <1>2, <1>5 DEF Begin, Goto, Unmoved, Registered
  <2>3. QED
    BY <2>1, <2>2
<1>6. CASE CheckSource(c) \/ Announce(c) \/ RowGone(c) \/ Reply(c) \/ TimeOut(c) \/ Lose(c)
  <2>1. UNCHANGED <<rows, request, met, target>>
    BY <1>6 DEF CheckSource, Announce, RowGone, Reply, TimeOut, Lose
  <2>2. \A d \in Calls \ {c} : stage'[d] = stage[d] /\ result'[d] = result[d]
    BY <1>2, <1>6 DEF CheckSource, Announce, RowGone, Reply, TimeOut, Lose, Answer, Goto
  <2>3. QED
    BY <1>3, <1>4, <2>1, <2>2
<1>7. CASE LookUp(c)
  <2>1. UNCHANGED <<rows, request, met>> /\ stage[c] = "lookup"
    BY <1>7 DEF LookUp, Answer, Goto
  <2>2. \A d \in Calls \ {c} : stage'[d] = stage[d] /\ result'[d] = result[d] /\ target'[d] = target[d]
    BY <1>2, <1>7 DEF LookUp, Answer, Goto
  <2>3. target[c] = 0
    BY <1>1, <2>1 DEF StageInv
  <2>4. \A d \in Calls : target[d] > 0 => target'[d] = target[d]
    BY <2>2, <2>3
  <2>5. QED
    BY <1>3, <1>4, <2>1, <2>2, <2>4
<1>8. CASE InsertRow(c)
  <2>1. CASE Answer(c, "insert", "refused") /\ UNCHANGED <<table, marquez, request, target, met, faults>>
    <3>1. \A d \in Calls \ {c} : stage'[d] = stage[d] /\ result'[d] = result[d]
      BY <1>2, <2>1 DEF Answer, Goto
    <3>2. QED
      BY <1>3, <1>4, <2>1, <3>1
  <2>2. CASE /\ Goto(c, "insert", "announce")
             /\ rows' = rows \cup {[id |-> nextId, source |-> source[c], text |-> c]}
             /\ target' = [target EXCEPT ![c] = nextId]
             /\ Witness
             /\ UNCHANGED <<request, result>>
    <3>1. \A d \in Calls : target[d] # nextId
      <4>1. PICK n \in Nat : n = nextId
        BY <1>1 DEF RegistryTypeOK
      <4>2. ASSUME NEW d \in Calls
            PROVE  target[d] # n
        <5>1. PICK t \in Nat : t = target[d]
          BY <1>2
        <5>2. t < n
          BY <1>1, <4>1, <5>1 DEF RegistryTypeOK
        <5>3. QED
          BY <5>1, <5>2
      <4>3. QED
        BY <4>1, <4>2
    <3>2. target[c] = 0
      BY <1>1, <2>2 DEF StageInv, Goto
    <3>3. \A d \in Calls : target[d] > 0 => target'[d] = target[d]
      BY <1>2, <2>2, <3>2
    <3>4. \A x \in rows : x \in rows'
      BY <2>2
    <3>5. \A y \in rows' : y \in rows \/ y.id = nextId
      BY <2>2
    <3>6. TableMoves
      BY <2>2, <3>1, <3>3, <3>4, <3>5 DEF TableMoves
    <3>7. \A d \in Calls \ {c} : Unmoved(d)
      BY <1>2, <2>2 DEF Goto, Witness, Unmoved, Active
    <3>8. QED
      BY <3>6, <3>7
  <2>3. QED
    BY <1>8, <2>1, <2>2 DEF InsertRow
<1>9. CASE UpdateRow(c)
  <2>1. PICK row \in rows : rows' = (rows \ {row}) \cup {[row EXCEPT !.text = c]}
    BY <1>9 DEF UpdateRow
  <2>2. PICK new : new = [row EXCEPT !.text = c]
    OBVIOUS
  <2>3. new.id = row.id /\ new.source = row.source
    BY <1>1, <2>2, RowFields
  <2>4. rows' = (rows \ {row}) \cup {new}
    BY <2>1, <2>2
  <2>5. Registered' = Registered
    <3>1. \A s : s \in Registered' <=> s \in Registered
      BY <2>3, <2>4 DEF Registered
    <3>2. QED
      BY <3>1 DEF Registered
  <2>6. TableMoves
    <3>1. UNCHANGED <<request, target>>
      BY <1>9 DEF UpdateRow
    <3>2. \A x \in rows : \E y \in rows' : y.id = x.id /\ y.source = x.source
      BY <2>3, <2>4
    <3>3. \A y \in rows' : \E x \in rows : x.id = y.id
      BY <2>3, <2>4
    <3>4. QED
      BY <3>1, <3>2, <3>3 DEF TableMoves
  <2>7. \A d \in Calls \ {c} : Unmoved(d)
    BY <1>1, <1>2, <1>9, <2>5 DEF UpdateRow, Goto, Unmoved
  <2>8. QED
    BY <2>6, <2>7
<1>10. CASE DeleteRow(c)
  <2>1. PICK row \in rows : row.id = target[c] /\ rows' = rows \ {row}
    BY <1>10 DEF DeleteRow
  <2>2. \A y \in rows' : y.id # row.id
    BY <1>1, <2>1 DEF IdsAreUnique
  <2>3. row.source \notin Registered'
    BY <1>1, <2>1 DEF Registered, OneRowPerIdentity
  <2>4. LookedUp(row.id)
    BY <1>1, <1>10, <2>1, RowFields DEF LookedUp, DeleteRow
  <2>5. TableMoves
    <3>1. UNCHANGED <<request, target>>
      BY <1>10 DEF DeleteRow
    <3>2. QED
      BY <2>1, <2>2, <2>3, <2>4, <3>1 DEF TableMoves
  <2>6. \A d \in Calls \ {c} : Unmoved(d)
    BY <1>2, <1>10 DEF DeleteRow, Goto, Witness, Unmoved, Active
  <2>7. QED
    BY <2>5, <2>6
<1>11. QED
  BY <1>5, <1>6, <1>7, <1>8, <1>9, <1>10

-----------------------------------------------------------------------------
(* The call that moves establishes what its next stage claims. *)
LEMMA MoverKeeps ==
  ASSUME RegistryInv, NEW c \in Calls,
         \/ Begin(c) \/ CheckSource(c) \/ InsertRow(c) \/ Announce(c) \/ LookUp(c)
         \/ RowGone(c) \/ UpdateRow(c) \/ DeleteRow(c) \/ Reply(c) \/ TimeOut(c) \/ Lose(c)
  PROVE  CallInv(c)'
<1> USE DEF table, request
<1>1. RegistryTypeOK /\ CallInv(c) /\ StageInv(c) /\ MadeInv(c) /\ Truthful(c) /\ TableMoves
      /\ IdsAreUnique /\ OneRowPerIdentity
  BY StepLeavesOthers DEF RegistryInv, CallInv
<1>2. /\ stage \in [Calls -> Stages] /\ result \in [Calls -> Results]
      /\ met \in [Calls -> SUBSET SUBSET Sources] /\ target \in [Calls -> Nat]
      /\ op \in [Calls -> Ops] /\ source \in [Calls -> Sources]
  BY <1>1 DEF RegistryTypeOK, Stages, Results
<1>3. /\ stage[c] \in Stages /\ result[c] \in Results /\ target[c] \in Nat /\ op[c] \in Ops
      /\ op'[c] = op[c] /\ source'[c] = source[c]
  BY <1>1, <1>2 DEF TableMoves
<1>4. ASSUME UNCHANGED <<rows, target>>
      PROVE  MadeInv(c)' <=> /\ op[c] = "create" /\ target[c] > 0 => Stands(c) \/ LookedUp(target[c])
                             /\ result'[c] = "created" => op[c] = "create" /\ target[c] > 0
  BY <1>1, <1>3, <1>4 DEF MadeInv, Stands, LookedUp, TableMoves
<1>5. CASE Begin(c)
  <2>1. /\ stage[c] = "new" /\ stage'[c] = (IF op[c] = "create" THEN "check" ELSE "lookup")
        /\ result'[c] = result[c] /\ met'[c] = {Registered} /\ Registered' = Registered
        /\ UNCHANGED <<rows, target, result>>
    BY <1>2, <1>5 DEF Begin, Goto, Registered
  <2>2. StageInv(c)'
    BY <1>1, <1>3, <2>1 DEF StageInv, Active
  <2>3. MadeInv(c)'
    BY <1>1, <1>4, <2>1 DEF MadeInv
  <2>4. Truthful(c)'
    BY <1>1, <2>1 DEF Truthful, StageInv
  <2>5. QED
    BY <2>2, <2>3, <2>4 DEF CallInv
<1>6. ASSUME UNCHANGED <<rows, target, met>>, stage'[c] = "over",
             \/ result'[c] = result[c]
             \/ result'[c] = "timeout"
             \/ result'[c] = "error"
             \/ result'[c] = "created" /\ op[c] = "create" /\ target[c] > 0 /\ \E R \in met[c] : Free(R, source[c])
             \/ result'[c] = "refused" /\ \E R \in met[c] : ~Free(R, source[c])
             \/ result'[c] = "conflict" /\ \E R \in met[c] : source[c] \in R
             \/ result'[c] = "not found" /\ \E R \in met[c] : source[c] \notin R
             \/ result'[c] \in {"updated", "deleted"} /\ \E R \in met[c] : source[c] \in R
      PROVE  CallInv(c)'
  <2>1. StageInv(c)'
    BY <1>6 DEF StageInv, Active
  <2>2. MadeInv(c)'
    BY <1>1, <1>4, <1>6 DEF MadeInv
  <2>3. Truthful(c)'
    <3>1. source'[c] = source[c] /\ met'[c] = met[c]
      BY <1>3, <1>6
    <3>2. QED
      BY <1>1, <1>6, <3>1 DEF Truthful
  <2>4. QED
    BY <2>1, <2>2, <2>3 DEF CallInv
<1>7. ASSUME UNCHANGED <<rows, target, met>>, result'[c] = result[c]
      PROVE  MadeInv(c)' /\ Truthful(c)' /\ Registered' = Registered
             /\ (Stands(c) <=> Stands(c)') /\ (Gone(c) <=> Gone(c)')
  BY <1>1, <1>3, <1>4, <1>7 DEF MadeInv, Truthful, Registered, Stands, Gone
<1>8. CASE CheckSource(c)
  <2>1. UNCHANGED <<rows, target, met>>
    BY <1>8 DEF CheckSource
  <2>2. Active(c) /\ stage[c] = "check" /\ Registered \in met[c]
    BY <1>1, <1>8 DEF CheckSource, Answer, Goto, Active, StageInv
  <2>3. CASE source[c] \in Registered /\ Answer(c, "check", "conflict")
    <3>1. stage'[c] = "over" /\ result'[c] \in {result[c], "conflict"}
      BY <1>1, <2>3, AnswerAt
    <3>2. QED
      BY <1>6, <2>1, <2>2, <2>3, <3>1
  <2>4. CASE Goto(c, "check", "insert") /\ UNCHANGED result
    <3>1. stage'[c] = "insert" /\ result'[c] = result[c]
      BY <1>1, <2>4, GotoAt
    <3>2. StageInv(c)'
      BY <1>1, <1>3, <1>7, <2>1, <2>2, <3>1 DEF StageInv, Active
    <3>3. QED
      BY <1>7, <2>1, <3>1, <3>2 DEF CallInv
  <2>5. QED
    BY <1>8, <2>3, <2>4 DEF CheckSource
<1>9. CASE InsertRow(c)
  <2>1. Registered \in met[c]
    BY <1>1, <1>9 DEF InsertRow, Answer, Goto, Active, StageInv
  <2>2. CASE (\E row \in rows : Clashes(row, source[c])) /\ Answer(c, "insert", "refused")
             /\ UNCHANGED <<table, marquez, request, target, met, faults>>
    <3>1. ~Free(Registered, source[c])
      BY <2>2 DEF Free, Registered, Clashes
    <3>2. stage'[c] = "over" /\ result'[c] \in {result[c], "refused"}
      BY <1>1, <2>2, AnswerAt
    <3>3. QED
      BY <1>6, <2>1, <2>2, <3>1, <3>2
  <2>3. CASE /\ \A row \in rows : ~Clashes(row, source[c])
             /\ Goto(c, "insert", "announce")
             /\ rows' = rows \cup {[id |-> nextId, source |-> source[c], text |-> c]}
             /\ nextId' = nextId + 1
             /\ target' = [target EXCEPT ![c] = nextId]
             /\ Witness
             /\ UNCHANGED <<marquez, request, result, faults>>
    <3>1. stage[c] = "insert" /\ stage'[c] = "announce" /\ result'[c] = result[c]
      BY <1>1, <2>3, GotoAt
    <3>2. PICK n \in Nat \ {0} : n = nextId
      BY <1>1 DEF RegistryTypeOK
    <3>3. target'[c] = n /\ n > 0
      BY <1>2, <2>3, <3>2
    <3>4. met'[c] = met[c] \cup {Registered'}
      BY <2>3, <3>1 DEF Witness, Active
    <3>5. Free(Registered, source[c])
      BY <2>3 DEF Free, Registered, Clashes
    <3>6. Stands(c)'
      <4>1. PICK new : new = [id |-> nextId, source |-> source[c], text |-> c]
        OBVIOUS
      <4>2. new \in rows' /\ new.id = target'[c] /\ new.source = source'[c]
        BY <1>3, <2>3, <3>2, <3>3, <4>1
      <4>3. QED
        BY <4>2 DEF Stands
    <3>7. op[c] = "create"
      BY <1>1, <3>1 DEF StageInv
    <3>8. StageInv(c)'
      BY <1>3, <2>1, <3>1, <3>3, <3>4, <3>5, <3>7 DEF StageInv, Active
    <3>9. MadeInv(c)'
      BY <1>3, <3>3, <3>6, <3>7 DEF MadeInv
    <3>10. Truthful(c)'
      BY <1>1, <1>3, <3>1, <3>4 DEF Truthful
    <3>11. QED
      BY <3>8, <3>9, <3>10 DEF CallInv
  <2>4. QED
    BY <1>9, <2>2, <2>3 DEF InsertRow
<1>10. CASE Announce(c)
  <2>1. stage[c] = "announce" /\ stage'[c] = "reply" /\ UNCHANGED <<rows, target, met, result>>
    BY <1>1, <1>10, GotoAt DEF Announce
  <2>2. op[c] = "create" /\ target[c] > 0 /\ (\E R \in met[c] : Free(R, source[c])) /\ Registered \in met[c]
    BY <1>1, <2>1 DEF StageInv, Active
  <2>3. MadeInv(c)' /\ Truthful(c)' /\ Registered' = Registered
    BY <1>7, <2>1
  <2>4. StageInv(c)'
    BY <1>3, <2>1, <2>2, <2>3 DEF StageInv, Active
  <2>5. QED
    BY <2>3, <2>4 DEF CallInv
<1>11. CASE LookUp(c)
  <2>1. UNCHANGED <<rows, met>> /\ stage[c] = "lookup" /\ Registered \in met[c] /\ op[c] # "create"
        /\ Registered' = Registered
    BY <1>1, <1>11 DEF LookUp, Answer, Goto, Active, StageInv, Registered
  <2>2. CASE source[c] \notin Registered /\ Answer(c, "lookup", "not found") /\ UNCHANGED target
    <3>1. stage'[c] = "over" /\ result'[c] \in {result[c], "not found"}
      BY <1>1, <2>2, AnswerAt
    <3>2. QED
      BY <1>6, <2>1, <2>2, <3>1
  <2>3. ASSUME NEW row \in rows, row.source = source[c], Goto(c, "lookup", "apply"),
               target' = [target EXCEPT ![c] = row.id], UNCHANGED result
        PROVE  CallInv(c)'
    <3>1. stage'[c] = "apply" /\ result'[c] = result[c] /\ target'[c] = row.id /\ met'[c] = met[c]
      BY <1>1, <1>2, <2>1, <2>3, GotoAt
    <3>2. row.id > 0
      BY <1>1, RowFields
    <3>3. source[c] \in Registered
      BY <2>3 DEF Registered
    <3>4. Stands(c)'
      BY <1>3, <2>1, <2>3, <3>1 DEF Stands
    <3>5. StageInv(c)'
      BY <1>3, <2>1, <3>1, <3>2, <3>3, <3>4 DEF StageInv, Active
    <3>6. MadeInv(c)'
      BY <1>1, <1>3, <2>1, <3>1 DEF MadeInv
    <3>7. Truthful(c)'
      BY <1>1, <1>3, <3>1 DEF Truthful
    <3>8. QED
      BY <3>5, <3>6, <3>7 DEF CallInv
  <2>4. QED
    BY <1>11, <2>2, <2>3 DEF LookUp
<1>12. CASE RowGone(c)
  <2>1. stage[c] = "apply" /\ stage'[c] = "over" /\ result'[c] \in {result[c], "not found"}
    BY <1>1, <1>12, AnswerAt DEF RowGone
  <2>2. \E R \in met[c] : source[c] \notin R
    BY <1>1, <1>12, <2>1 DEF StageInv, Stands, RowGone
  <2>3. UNCHANGED <<rows, target, met>>
    BY <1>12 DEF RowGone
  <2>4. QED
    BY <1>6, <2>1, <2>2, <2>3
<1>13. CASE UpdateRow(c) \/ DeleteRow(c)
  <2>1. stage[c] = "apply" /\ stage'[c] = "reply" /\ result'[c] = result[c] /\ target'[c] = target[c]
    BY <1>1, <1>13, GotoAt DEF UpdateRow, DeleteRow
  <2>2. op[c] # "create" /\ target[c] > 0 /\ \E R \in met[c] : source[c] \in R
    BY <1>1, <2>1 DEF StageInv
  <2>3. met[c] \subseteq met'[c] /\ Registered' \in met'[c]
    <3>1. CASE DeleteRow(c)
      BY <2>1, <3>1 DEF DeleteRow, Witness, Active
    <3>2. CASE UpdateRow(c)
      <4>1. PICK row \in rows : rows' = (rows \ {row}) \cup {[row EXCEPT !.text = c]}
        BY <3>2 DEF UpdateRow
      <4>2. PICK new : new = [row EXCEPT !.text = c]
        OBVIOUS
      <4>3. new.source = row.source /\ rows' = (rows \ {row}) \cup {new}
        BY <1>1, <4>1, <4>2, RowFields
      <4>4. Registered' = Registered
        <5>1. \A s : s \in Registered' <=> s \in Registered
          BY <4>3 DEF Registered
        <5>2. QED
          BY <5>1 DEF Registered
      <4>5. QED
        BY <1>1, <2>1, <3>2, <4>4 DEF UpdateRow, StageInv, Active
    <3>3. QED
      BY <1>13, <3>1, <3>2
  <2>4. StageInv(c)'
    BY <1>3, <2>1, <2>2, <2>3 DEF StageInv, Active
  <2>5. MadeInv(c)'
    BY <1>1, <1>3, <2>1, <2>2 DEF MadeInv
  <2>6. Truthful(c)'
    BY <1>1, <1>3, <2>1, <2>3 DEF Truthful
  <2>7. QED
    BY <2>4, <2>5, <2>6 DEF CallInv
<1>14. CASE Reply(c)
  <2>1. stage[c] = "reply" /\ stage'[c] = "over" /\ result'[c] \in {result[c], Done[op[c]]}
    BY <1>1, <1>14, AnswerAt DEF Reply
  <2>2. UNCHANGED <<rows, target, met>>
    BY <1>14 DEF Reply
  <2>3. CASE op[c] = "create"
    <3>1. target[c] > 0 /\ \E R \in met[c] : Free(R, source[c])
      BY <1>1, <2>1, <2>3 DEF StageInv
    <3>2. QED
      BY <1>1, <1>6, <2>1, <2>2, <2>3, <3>1, DoneIsAnswered
  <2>4. CASE op[c] # "create"
    <3>1. \E R \in met[c] : source[c] \in R
      BY <1>1, <2>1, <2>4 DEF StageInv
    <3>2. QED
      BY <1>1, <1>6, <2>1, <2>2, <2>4, <3>1, DoneIsAnswered
  <2>5. QED
    BY <2>3, <2>4
<1>15. CASE TimeOut(c)
  <2>1. UNCHANGED <<rows, target, met>> /\ result'[c] = "timeout" /\ stage'[c] \in {stage[c], "over"}
    BY <1>2, <1>15 DEF TimeOut
  <2>2. CASE stage'[c] = "over"
    BY <1>6, <2>1, <2>2
  <2>3. CASE stage'[c] = stage[c]
    <3>1. (Stands(c) <=> Stands(c)') /\ (Gone(c) <=> Gone(c)') /\ Registered' = Registered
      BY <1>3, <2>1 DEF Stands, Gone, Registered
    <3>2. Active(c) /\ stage[c] # "new"
      BY <1>15 DEF TimeOut, Active
    <3>3. StageInv(c)'
      BY <1>1, <1>3, <2>1, <2>3, <3>1, <3>2 DEF StageInv, Active
    <3>4. MadeInv(c)'
      BY <1>1, <1>4, <2>1 DEF MadeInv
    <3>5. Truthful(c)'
      BY <2>1 DEF Truthful
    <3>6. QED
      BY <3>3, <3>4, <3>5 DEF CallInv
  <2>4. QED
    BY <2>1, <2>2, <2>3
<1>16. CASE Lose(c)
  <2>1. stage'[c] = "over" /\ result'[c] \in {result[c], "error"}
    BY <1>1, <1>16, AnswerAt DEF Lose
  <2>2. UNCHANGED <<rows, target, met>>
    BY <1>16 DEF Lose
  <2>3. QED
    BY <1>6, <2>1, <2>2
<1>17. QED
  BY <1>5, <1>8, <1>9, <1>10, <1>11, <1>12, <1>13, <1>14, <1>15, <1>16

-----------------------------------------------------------------------------
LEMMA RegistryInvStep ==
  ASSUME RegistryInv, [RegistryNext]_registryVars
  PROVE  RegistryInv'
<1>1. RegistryTypeOK' /\ OneRowPerIdentity' /\ IdsAreUnique'
  BY RegistryTypeStep, TableStep DEF RegistryInv
<1>2. ASSUME NEW c \in Calls,
             \/ Begin(c) \/ CheckSource(c) \/ InsertRow(c) \/ Announce(c) \/ LookUp(c)
             \/ RowGone(c) \/ UpdateRow(c) \/ DeleteRow(c) \/ Reply(c) \/ TimeOut(c) \/ Lose(c)
      PROVE  \A d \in Calls : CallInv(d)'
  <2>1. CallInv(c)'
    BY <1>2, MoverKeeps
  <2>2. TableMoves /\ \A d \in Calls \ {c} : Unmoved(d)
    BY <1>2, StepLeavesOthers
  <2>3. \A d \in Calls \ {c} : CallInv(d)'
    BY <2>2, UnmovedKeeps DEF RegistryInv
  <2>4. QED
    BY <2>1, <2>3
<1>3. ASSUME UNCHANGED registryVars
      PROVE  \A d \in Calls : CallInv(d)'
  BY <1>3 DEF RegistryInv, registryVars, table, request, CallInv, StageInv, MadeInv, Truthful,
              Active, Stands, Gone, LookedUp, Registered
<1>4. QED
  <2>1. SUFFICES ASSUME NEW d \in Calls PROVE CallInv(d)'
    BY <1>1 DEF RegistryInv
  <2>2. CASE UNCHANGED registryVars
    BY <1>3, <2>2
  <2>3. CASE RegistryNext
    BY <1>2, <1>3, <2>3 DEF RegistryNext, AllServed
  <2>4. QED
    BY <2>2, <2>3

LEMMA RegistryInvInit ==
  ASSUME RegistryInit
  PROVE  RegistryInv
<1>1. RegistryTypeOK
  BY RegistryAssumption DEF RegistryInit, RegistryTypeOK, Stages
<1>2. OneRowPerIdentity /\ IdsAreUnique
  BY DEF RegistryInit, OneRowPerIdentity, IdsAreUnique
<1>3. ASSUME NEW c \in Calls
      PROVE  CallInv(c)
  <2>1. stage[c] = "new" /\ result[c] = "none" /\ target[c] = 0 /\ met[c] = {}
    BY DEF RegistryInit
  <2>2. QED
    BY <2>1 DEF CallInv, StageInv, MadeInv, Truthful, Active
<1>4. QED
  BY <1>1, <1>2, <1>3 DEF RegistryInv

LEMMA RegistryInvAlways == RegistrySpec => []RegistryInv
<1>1. RegistryInit => RegistryInv
  BY RegistryInvInit
<1>2. RegistryInv /\ [RegistryNext]_registryVars => RegistryInv'
  BY RegistryInvStep
<1>3. QED
  BY <1>1, <1>2, PTL DEF RegistrySpec

(* The registry's state has its types: every row's id was handed out, and  *)
(* no call holds an id that was not.                                       *)
THEOREM RegistryTypeCorrect == RegistrySpec => []RegistryTypeOK
<1>1. RegistryInv => RegistryTypeOK
  BY DEF RegistryInv
<1>2. QED
  BY <1>1, RegistryInvAlways, PTL

(* A dataset is registered once, however many calls race and whichever of  *)
(* its URIs they use (app.py:50 checks the source, the table the identity).*)
THEOREM DatasetsAreRegisteredOnce == RegistrySpec => []OneRowPerIdentity
<1>1. RegistryInv => OneRowPerIdentity
  BY DEF RegistryInv
<1>2. QED
  BY <1>1, RegistryInvAlways, PTL

(* What a caller is told was true at a moment of its call. *)
THEOREM CallersAreToldTheTruth == RegistrySpec => []AnswersAreTruthful
<1>1. RegistryInv => AnswersAreTruthful
  BY DEF RegistryInv, CallInv, Truthful, AnswersAreTruthful
<1>2. QED
  BY <1>1, RegistryInvAlways, PTL

(* A registration its caller was told of stays until a delete that looked  *)
(* up that very registration.                                              *)
THEOREM RegistrationsStay == RegistrySpec => []AcknowledgedStays
<1>1. RegistryInv => AcknowledgedStays
  BY DEF RegistryInv, CallInv, MadeInv, Stands, LookedUp, AcknowledgedStays
<1>2. QED
  BY <1>1, RegistryInvAlways, PTL

-----------------------------------------------------------------------------
(* Marquez learns of a dataset from the call that has committed its row. *)
LEMMA AnnouncedStep ==
  ASSUME RegistryInv, AnnouncedWasRegistered, [RegistryNext]_registryVars
  PROVE  AnnouncedWasRegistered'
<1>1. CASE UNCHANGED registryVars
  BY <1>1 DEF registryVars, request, AnnouncedWasRegistered
<1>2. ASSUME NEW c \in Calls,
             \/ Begin(c) \/ CheckSource(c) \/ InsertRow(c) \/ Announce(c) \/ LookUp(c)
             \/ RowGone(c) \/ UpdateRow(c) \/ DeleteRow(c) \/ Reply(c) \/ TimeOut(c) \/ Lose(c)
      PROVE  AnnouncedWasRegistered'
  <2>1. TableMoves
    BY <1>2, StepLeavesOthers
  <2>2. \A d \in Calls : op'[d] = op[d] /\ source'[d] = source[d] /\ (target[d] > 0 => target'[d] > 0)
    BY <2>1 DEF TableMoves, request
  <2>3. ASSUME NEW i \in marquez
        PROVE  \E d \in Calls : op'[d] = "create" /\ target'[d] > 0 /\ IdentityOf[source'[d]] = i
    BY <2>2, <2>3 DEF AnnouncedWasRegistered
  <2>4. \A i \in marquez' :
          \/ i \in marquez
          \/ i = IdentityOf[source[c]] /\ op[c] = "create" /\ target[c] > 0
    <3>1. CASE Announce(c)
      <4>1. stage[c] = "announce"
        BY <3>1 DEF Announce, Goto
      <4>2. op[c] = "create" /\ target[c] > 0
        BY <4>1 DEF RegistryInv, CallInv, StageInv
      <4>3. QED
        BY <3>1, <4>2 DEF Announce
    <3>2. CASE UNCHANGED marquez
      BY <3>2
    <3>3. QED
      BY <1>2, <3>1, <3>2 DEF Begin, CheckSource, InsertRow, LookUp, RowGone, UpdateRow,
                              DeleteRow, Reply, TimeOut, Lose
  <2>5. QED
    BY <2>2, <2>3, <2>4 DEF AnnouncedWasRegistered
<1>3. QED
  BY <1>1, <1>2 DEF RegistryNext, AllServed

(* Marquez knows only of datasets the registry has committed. *)
THEOREM AnnouncementsAreOfRegisteredDatasets == RegistrySpec => []AnnouncedWasRegistered
<1>1. RegistryInit => AnnouncedWasRegistered
  BY DEF RegistryInit, AnnouncedWasRegistered
<1>2. RegistryInv /\ AnnouncedWasRegistered /\ [RegistryNext]_registryVars => AnnouncedWasRegistered'
  BY AnnouncedStep
<1>3. QED
  BY <1>1, <1>2, RegistryInvAlways, PTL DEF RegistrySpec

-----------------------------------------------------------------------------
(* The registry implements the catalogue.                                  *)

Phase == [c \in Calls |-> PhaseAt[stage[c]]]

LEMMA PhaseValues ==
  /\ PhaseAt["new"] = "idle" /\ PhaseAt["over"] = "over"
  /\ \A at \in {"check", "insert", "lookup", "apply"} : PhaseAt[at] = "called"
  /\ \A at \in {"announce", "reply"} : PhaseAt[at] = "done"
BY DEF PhaseAt, Stages

LEMMA UnderwayIsActive ==
  ASSUME RegistryTypeOK, NEW c \in Calls
  PROVE  Catalogue!Underway(c) <=> Active(c)
<1>1. stage[c] \in Stages
  BY DEF RegistryTypeOK
<1>2. PhaseAt[stage[c]] \in {"called", "done"} <=> stage[c] \notin {"new", "over"}
  BY <1>1, PhaseValues DEF Stages
<1>3. QED
  BY <1>2 DEF Catalogue!Underway, Active

(* A step of the handler that changes its phase, and one that does not.    *)
LEMMA PhaseTurns ==
  ASSUME RegistryTypeOK, NEW c \in Calls, NEW from, NEW to, Goto(c, from, to)
  PROVE  Catalogue!Turn(c, PhaseAt[from], PhaseAt[to])
<1>1. stage[c] = from /\ stage' = [stage EXCEPT ![c] = to] /\ stage \in [Calls -> Stages]
  BY DEF Goto, RegistryTypeOK
<1>2. Phase[c] = PhaseAt[from] /\ Phase' = [Phase EXCEPT ![c] = PhaseAt[to]]
  BY <1>1 DEF Phase
<1>3. QED
  BY <1>2 DEF Phase, Catalogue!Turn

LEMMA PhaseStays ==
  ASSUME RegistryTypeOK, NEW c \in Calls, NEW from, NEW to, Goto(c, from, to),
         PhaseAt[from] = PhaseAt[to]
  PROVE  Phase' = Phase
<1>1. stage[c] = from /\ stage' = [stage EXCEPT ![c] = to] /\ stage \in [Calls -> Stages]
  BY DEF Goto, RegistryTypeOK
<1>2. QED
  BY <1>1 DEF Phase

LEMMA AnswerTells ==
  ASSUME RegistryTypeOK, NEW c \in Calls, NEW from, NEW answer, Answer(c, from, answer)
  PROVE  Catalogue!Turn(c, PhaseAt[from], "over") /\ Catalogue!Tell(c, answer)
<1>1. Goto(c, from, "over") /\ result' = [result EXCEPT ![c] = IF @ = "none" THEN answer ELSE @]
  BY DEF Answer
<1>2. QED
  BY <1>1, PhaseTurns, PhaseValues DEF Catalogue!Tell

(* The catalogue has the sources of the table. *)
LEMMA PresentIsRegistered ==
  Catalogue!Present = Registered /\ Catalogue!Present' = Registered'
<1>1. \A row : [source |-> row.source, text |-> row.text].source = row.source
  OBVIOUS
<1>2. Catalogue!Present = Registered
  <2>1. \A s : s \in Catalogue!Present <=> s \in Registered
    BY <1>1 DEF Catalogue!Present, Entries, Registered
  <2>2. QED
    BY <2>1 DEF Catalogue!Present, Registered
<1>3. Catalogue!Present' = Registered'
  <2>1. \A s : s \in Catalogue!Present' <=> s \in Registered'
    BY <1>1 DEF Catalogue!Present, Entries, Registered
  <2>2. QED
    BY <2>1 DEF Catalogue!Present, Registered
<1>4. QED
  BY <1>2, <1>3

(* Those under way see what a step makes of the table.                     *)
LEMMA WitnessedByAll ==
  ASSUME RegistryInv, Witness \/ (UNCHANGED met /\ Registered' = Registered)
  PROVE  met' = [d \in Calls |-> IF Catalogue!Underway(d)
                                 THEN met[d] \cup {Catalogue!Present'} ELSE met[d]]
<1>1. RegistryTypeOK /\ met \in [Calls -> SUBSET SUBSET Sources]
  BY DEF RegistryInv, RegistryTypeOK
<1>2. \A d \in Calls : Catalogue!Underway(d) <=> Active(d)
  BY <1>1, UnderwayIsActive
<1>3. Catalogue!Present' = Registered'
  BY PresentIsRegistered
<1>4. CASE Witness
  BY <1>2, <1>3, <1>4 DEF Witness
<1>5. CASE UNCHANGED met /\ Registered' = Registered
  <2>1. \A d \in Calls : Active(d) => met[d] \cup {Registered'} = met[d]
    BY <1>5 DEF RegistryInv, CallInv, StageInv
  <2>2. QED
    BY <1>1, <1>2, <1>3, <1>5, <2>1
<1>6. QED
  BY <1>4, <1>5

(* The row a call has looked up, while it is there.                        *)
LEMMA TargetIsItsSource ==
  ASSUME RegistryInv, NEW c \in Calls, stage[c] = "apply", NEW row \in rows, row.id = target[c]
  PROVE  row.source = source[c]
<1>1. Stands(c)
  BY DEF RegistryInv, CallInv, StageInv, Gone
<1>2. QED
  BY <1>1 DEF RegistryInv, IdsAreUnique, Stands

(* Rows of one source are one row, so that each has an entry of its own.   *)
LEMMA EntriesOfOthers ==
  ASSUME RegistryInv, NEW row \in rows
  PROVE  Entries \ {[source |-> row.source, text |-> row.text]}
           = {[source |-> x.source, text |-> x.text] : x \in rows \ {row}}
<1> DEFINE entry(x) == [source |-> x.source, text |-> x.text]
<1>1. \A x, y \in rows : entry(x) = entry(y) => x = y
  <2>1. \A x, y \in rows : entry(x) = entry(y) => x.source = y.source
    OBVIOUS
  <2>2. QED
    BY <2>1 DEF RegistryInv, OneRowPerIdentity
<1> HIDE DEF entry
<1>2. Entries = {entry(x) : x \in rows}
  BY DEF Entries, entry
<1>3. Entries \ {entry(row)} = {entry(x) : x \in rows \ {row}}
  BY <1>1, <1>2
<1>4. QED
  BY <1>3 DEF entry

(* One step of a call is a step of the catalogue's, or leaves it as it is. *)
CatalogueStep(c) ==
  \/ Catalogue!Call(c) \/ Catalogue!TakeEffect(c) \/ Catalogue!Hear(c) \/ Catalogue!Succeed(c)
  \/ Catalogue!TurnDown(c) \/ Catalogue!GiveUp(c) \/ Catalogue!Break(c)

CatalogueStays == UNCHANGED <<Entries, marquez, Phase, op, source, result, met>>

LEMMA TurnedDown ==
  ASSUME RegistryInv, NEW c \in Calls, NEW at \in {"check", "insert", "lookup", "apply"},
         NEW answer \in {"conflict", "refused", "not found"}, Answer(c, at, answer),
         NEW R \in met[c], Catalogue!Warrants(R, source[c], answer),
         UNCHANGED <<rows, marquez, request, met>>
  PROVE  Catalogue!TurnDown(c)
<1>1. Catalogue!Turn(c, "called", "over") /\ Catalogue!Tell(c, answer)
  BY AnswerTells, PhaseValues DEF RegistryInv
<1>2. Entries' = Entries
  BY DEF Entries
<1>3. QED
  BY <1>1, <1>2 DEF Catalogue!TurnDown, request

LEMMA CreateTakesEffect ==
  ASSUME RegistryInv, NEW c \in Calls, InsertRow(c), ~Answer(c, "insert", "refused")
  PROVE  Catalogue!TakeEffect(c)
<1>1. /\ \A row \in rows : ~Clashes(row, source[c])
      /\ Goto(c, "insert", "announce")
      /\ rows' = rows \cup {[id |-> nextId, source |-> source[c], text |-> c]}
      /\ Witness
      /\ UNCHANGED <<marquez, request, result, faults>>
  BY DEF InsertRow
<1>2. Catalogue!Turn(c, "called", "done")
  BY <1>1, PhaseTurns, PhaseValues DEF RegistryInv
<1>3. op[c] = "create"
  BY <1>1 DEF RegistryInv, CallInv, StageInv, Goto
<1>4. Catalogue!Free(Catalogue!Present, source[c])
  BY <1>1, PresentIsRegistered DEF Catalogue!Free, Registered, Clashes
<1>5. Entries' = Entries \cup {[source |-> source[c], text |-> c]}
  <2>1. PICK new : new = [id |-> nextId, source |-> source[c], text |-> c]
    OBVIOUS
  <2>2. new.source = source[c] /\ new.text = c /\ rows' = rows \cup {new}
    BY <1>1, <2>1
  <2>3. \A e : e \in Entries' <=> e \in Entries \/ e = [source |-> source[c], text |-> c]
    BY <2>2 DEF Entries
  <2>4. QED
    BY <2>3
<1>6. met' = [d \in Calls |-> IF Catalogue!Underway(d)
                              THEN met[d] \cup {Catalogue!Present'} ELSE met[d]]
  BY <1>1, WitnessedByAll
<1>7. UNCHANGED <<marquez, op, source, result>>
  BY <1>1 DEF request
<1>8. QED
  BY <1>2, <1>3, <1>4, <1>5, <1>6, <1>7 DEF Catalogue!TakeEffect

LEMMA ChangeTakesEffect ==
  ASSUME RegistryInv, NEW c \in Calls, UpdateRow(c) \/ DeleteRow(c)
  PROVE  Catalogue!TakeEffect(c)
<1>1. Goto(c, "apply", "reply") /\ UNCHANGED <<marquez, request, result>>
  BY DEF UpdateRow, DeleteRow
<1>2. Catalogue!Turn(c, "called", "done")
  BY <1>1, PhaseTurns, PhaseValues DEF RegistryInv
<1>3. PICK row \in rows :
        /\ row.id = target[c]
        /\ \/ /\ UpdateRow(c)
              /\ rows' = (rows \ {row}) \cup {[row EXCEPT !.text = c]}
           \/ /\ DeleteRow(c)
              /\ rows' = rows \ {row}
  BY DEF UpdateRow, DeleteRow
<1> DEFINE entry == [source |-> row.source, text |-> row.text]
<1>4. entry \in Entries /\ entry.source = source[c]
  BY <1>1, <1>3, TargetIsItsSource DEF Entries, Goto
<1>5. Entries \ {entry} = {[source |-> x.source, text |-> x.text] : x \in rows \ {row}}
  BY EntriesOfOthers
<1>6. CASE UpdateRow(c) /\ rows' = (rows \ {row}) \cup {[row EXCEPT !.text = c]}
  <2>1. PICK new : new = [row EXCEPT !.text = c]
    OBVIOUS
  <2>2. row \in Row
    BY DEF RegistryInv, RegistryTypeOK
  <2>3. new.source = row.source /\ new.text = c /\ rows' = (rows \ {row}) \cup {new}
    BY <1>6, <2>1, <2>2 DEF Row
  <2>4. [entry EXCEPT !.text = c] = [source |-> row.source, text |-> c]
    OBVIOUS
  <2>5. Entries' = (Entries \ {entry}) \cup {[entry EXCEPT !.text = c]}
    <3>1. \A e : e \in Entries' <=> \/ e = [source |-> row.source, text |-> c]
                                    \/ \E x \in rows \ {row} : e = [source |-> x.source, text |-> x.text]
      BY <2>3 DEF Entries
    <3>2. QED
      BY <1>5, <2>4, <3>1
  <2>6. Registered' = Registered
    <3>1. \A s : s \in Registered' <=> s \in Registered
      BY <2>3 DEF Registered
    <3>2. QED
      BY <3>1 DEF Registered
  <2>7. met' = [d \in Calls |-> IF Catalogue!Underway(d)
                                THEN met[d] \cup {Catalogue!Present'} ELSE met[d]]
    BY <1>6, <2>6, WitnessedByAll DEF UpdateRow
  <2>8. op[c] = "update" /\ UNCHANGED <<marquez, op, source, result>>
    BY <1>1, <1>6 DEF UpdateRow, request
  <2>9. QED
    BY <1>2, <1>4, <2>5, <2>7, <2>8 DEF Catalogue!TakeEffect
<1>7. CASE DeleteRow(c) /\ rows' = rows \ {row}
  <2>1. Entries' = Entries \ {entry}
    BY <1>5, <1>7 DEF Entries
  <2>2. met' = [d \in Calls |-> IF Catalogue!Underway(d)
                                THEN met[d] \cup {Catalogue!Present'} ELSE met[d]]
    BY <1>7, WitnessedByAll DEF DeleteRow
  <2>3. op[c] = "delete" /\ UNCHANGED <<marquez, op, source, result>>
    BY <1>1, <1>7 DEF DeleteRow, request
  <2>4. QED
    BY <1>2, <1>4, <2>1, <2>2, <2>3 DEF Catalogue!TakeEffect
<1>8. QED
  BY <1>3, <1>6, <1>7

LEMMA CallRefines ==
  ASSUME RegistryInv, NEW c \in Calls,
         \/ Begin(c) \/ CheckSource(c) \/ InsertRow(c) \/ Announce(c) \/ LookUp(c)
         \/ RowGone(c) \/ UpdateRow(c) \/ DeleteRow(c) \/ Reply(c) \/ TimeOut(c) \/ Lose(c)
  PROVE  CatalogueStep(c) \/ CatalogueStays
<1> USE DEF table, request
<1>1. RegistryTypeOK /\ stage[c] \in Stages /\ StageInv(c)
  BY DEF RegistryInv, RegistryTypeOK, CallInv
<1>2. ASSUME NEW at \in {"check", "insert", "lookup", "apply"}, stage[c] = at
      PROVE  Registered \in met[c]
  BY <1>1, <1>2 DEF StageInv, Active
<1>3. UNCHANGED rows => Entries' = Entries
  BY DEF Entries
<1>4. CASE Begin(c)
  <2>1. Catalogue!Turn(c, "idle", "called")
    BY <1>1, <1>4, PhaseTurns, PhaseValues DEF Begin
  <2>2. Catalogue!Call(c)
    BY <1>3, <1>4, <2>1, PresentIsRegistered DEF Begin, Catalogue!Call
  <2>3. QED
    BY <2>2 DEF CatalogueStep
<1>5. CASE CheckSource(c)
  <2>1. UNCHANGED <<rows, marquez, request, met>> /\ stage[c] = "check"
    BY <1>5 DEF CheckSource, Answer, Goto
  <2>2. CASE source[c] \in Registered /\ Answer(c, "check", "conflict")
    <3>1. Catalogue!Warrants(Registered, source[c], "conflict")
      BY <2>2 DEF Catalogue!Warrants
    <3>2. Catalogue!TurnDown(c)
      BY <1>2, <2>1, <2>2, <3>1, TurnedDown
    <3>3. QED
      BY <3>2 DEF CatalogueStep
  <2>3. CASE Goto(c, "check", "insert") /\ UNCHANGED result
    BY <1>1, <1>3, <2>1, <2>3, PhaseStays, PhaseValues DEF CatalogueStays
  <2>4. QED
    BY <1>5, <2>2, <2>3 DEF CheckSource
<1>6. CASE InsertRow(c)
  <2>1. CASE Answer(c, "insert", "refused")
    <3>1. stage[c] = "insert" /\ stage' = [stage EXCEPT ![c] = "over"]
      BY <2>1 DEF Answer, Goto
    <3>2. ~Goto(c, "insert", "announce")
      <4>1. stage'[c] = "over"
        BY <1>1, <3>1 DEF RegistryTypeOK
      <4>2. QED
        BY <1>1, <4>1, GotoAt
    <3>3. UNCHANGED <<rows, marquez, request, met>> /\ \E row \in rows : Clashes(row, source[c])
      BY <1>6, <3>2 DEF InsertRow
    <3>4. Catalogue!Warrants(Registered, source[c], "refused")
      BY <3>3 DEF Catalogue!Warrants, Catalogue!Free, Registered, Clashes
    <3>5. Catalogue!TurnDown(c)
      BY <1>2, <2>1, <3>1, <3>3, <3>4, TurnedDown
    <3>6. QED
      BY <3>5 DEF CatalogueStep
  <2>2. CASE ~Answer(c, "insert", "refused")
    BY <1>6, <2>2, CreateTakesEffect DEF CatalogueStep
  <2>3. QED
    BY <2>1, <2>2
<1>7. CASE Announce(c)
  <2>1. stage[c] = "announce" /\ Phase' = Phase
    BY <1>1, <1>7, PhaseStays, PhaseValues DEF Announce, Goto
  <2>2. op[c] = "create" /\ Phase[c] = "done"
    BY <1>1, <2>1, PhaseValues DEF StageInv, Phase
  <2>3. CASE UNCHANGED marquez
    BY <1>3, <1>7, <2>1, <2>3 DEF Announce, CatalogueStays
  <2>4. CASE marquez' = marquez \cup {IdentityOf[source[c]]}
    <3>1. Catalogue!Hear(c)
      BY <1>3, <1>7, <2>1, <2>2, <2>4 DEF Announce, Catalogue!Hear, Phase
    <3>2. QED
      BY <3>1 DEF CatalogueStep
  <2>5. QED
    BY <1>7, <2>3, <2>4 DEF Announce
<1>8. CASE LookUp(c)
  <2>1. UNCHANGED <<rows, marquez, request, met>> /\ stage[c] = "lookup"
    BY <1>8 DEF LookUp, Answer, Goto
  <2>2. CASE source[c] \notin Registered /\ Answer(c, "lookup", "not found")
    <3>1. Catalogue!Warrants(Registered, source[c], "not found")
      BY <2>2 DEF Catalogue!Warrants
    <3>2. Catalogue!TurnDown(c)
      BY <1>2, <2>1, <2>2, <3>1, TurnedDown
    <3>3. QED
      BY <3>2 DEF CatalogueStep
  <2>3. CASE Goto(c, "lookup", "apply") /\ UNCHANGED result
    BY <1>1, <1>3, <2>1, <2>3, PhaseStays, PhaseValues DEF CatalogueStays
  <2>4. QED
    BY <1>8, <2>2, <2>3 DEF LookUp
<1>9. CASE RowGone(c)
  <2>1. UNCHANGED <<rows, marquez, request, met>> /\ stage[c] = "apply"
        /\ Answer(c, "apply", "not found") /\ ~Stands(c)
    BY <1>9 DEF RowGone, Answer, Goto, Stands
  <2>2. PICK R \in met[c] : source[c] \notin R
    BY <1>1, <2>1 DEF StageInv
  <2>3. Catalogue!Warrants(R, source[c], "not found")
    BY <2>2 DEF Catalogue!Warrants
  <2>4. Catalogue!TurnDown(c)
    BY <2>1, <2>3, TurnedDown
  <2>5. QED
    BY <2>4 DEF CatalogueStep
<1>10. CASE UpdateRow(c) \/ DeleteRow(c)
  BY <1>10, ChangeTakesEffect DEF CatalogueStep
<1>11. CASE Reply(c)
  <2>1. op[c] \in {"create", "update", "delete"}
    BY <1>1 DEF RegistryTypeOK, Ops
  <2>2. Catalogue!Effect(c) = Done[op[c]]
    BY <2>1 DEF Catalogue!Effect, Done
  <2>3. Catalogue!Turn(c, "done", "over") /\ Catalogue!Tell(c, Catalogue!Effect(c))
    BY <1>1, <1>11, <2>2, AnswerTells, PhaseValues DEF Reply
  <2>4. Catalogue!Succeed(c)
    BY <1>3, <1>11, <2>3 DEF Reply, Catalogue!Succeed
  <2>5. QED
    BY <2>4 DEF CatalogueStep
<1>12. CASE TimeOut(c)
  <2>1. Catalogue!Underway(c)
    BY <1>1, <1>12, UnderwayIsActive DEF TimeOut
  <2>2. Phase' = Phase \/ Catalogue!Turn(c, "called", "over")
    <3>1. CASE stage[c] = "lookup"
      <4>1. Goto(c, "lookup", "over")
        BY <1>12, <3>1 DEF TimeOut, Goto
      <4>2. QED
        BY <1>1, <4>1, PhaseTurns, PhaseValues
    <3>2. CASE stage[c] # "lookup"
      BY <1>12, <3>2 DEF TimeOut, Phase
    <3>3. QED
      BY <3>1, <3>2
  <2>3. Catalogue!GiveUp(c)
    BY <1>3, <1>12, <2>1, <2>2 DEF TimeOut, Phase, Catalogue!GiveUp
  <2>4. QED
    BY <2>3 DEF CatalogueStep
<1>13. CASE Lose(c)
  <2>1. Catalogue!Underway(c)
    BY <1>1, <1>13, UnderwayIsActive DEF Lose
  <2>2. Catalogue!Turn(c, PhaseAt[stage[c]], "over") /\ Catalogue!Tell(c, "error")
    BY <1>1, <1>13, AnswerTells DEF Lose
  <2>3. Catalogue!Break(c)
    BY <1>3, <1>13, <2>1, <2>2 DEF Lose, Catalogue!Break
  <2>4. QED
    BY <2>3 DEF CatalogueStep
<1>14. QED
  BY <1>4, <1>5, <1>6, <1>7, <1>8, <1>9, <1>10, <1>11, <1>12, <1>13

(* The registry implements the catalogue its callers rely on: a call takes *)
(* effect at one instant of it, at most once, and is answered accordingly, *)
(* although it is several transactions and requests (app.py:48-98).        *)
THEOREM RegistryImplementsCatalogue == RegistrySpec => ImplementsCatalogue
<1>1. RegistryInit => Catalogue!Init
  <2> SUFFICES ASSUME RegistryInit PROVE Catalogue!Init
    OBVIOUS
  <2>1. rows = {} /\ marquez = {} /\ stage = [c \in Calls |-> "new"]
        /\ op \in [Calls -> Ops] /\ source \in [Calls -> Sources]
        /\ result = [c \in Calls |-> "none"] /\ met = [c \in Calls |-> {}]
    BY DEF RegistryInit
  <2>2. Entries = {}
    BY <2>1 DEF Entries
  <2>3. [c \in Calls |-> PhaseAt[stage[c]]] = [c \in Calls |-> "idle"]
    BY <2>1, PhaseValues
  <2>4. QED
    BY <2>1, <2>2, <2>3 DEF Catalogue!Init, Ops
<1>2. RegistryInv /\ [RegistryNext]_registryVars => [Catalogue!Next]_Catalogue!catalogueVars
  <2> SUFFICES ASSUME RegistryInv, [RegistryNext]_registryVars
               PROVE  [Catalogue!Next]_Catalogue!catalogueVars
    OBVIOUS
  <2>1. CatalogueStays => UNCHANGED Catalogue!catalogueVars
    BY DEF CatalogueStays, Catalogue!catalogueVars, Phase
  <2>2. \A c \in Calls : CatalogueStep(c) => Catalogue!Next
    BY DEF CatalogueStep, Catalogue!Next
  <2>3. CASE UNCHANGED registryVars
    <3>1. CatalogueStays
      BY <2>3 DEF CatalogueStays, registryVars, table, request, Entries, Phase
    <3>2. QED
      BY <2>1, <3>1
  <2>4. CASE RegistryNext /\ ~UNCHANGED registryVars
    <3>1. PICK c \in Calls : CatalogueStep(c) \/ CatalogueStays
      BY <2>4, CallRefines DEF RegistryNext, AllServed
    <3>2. QED
      BY <2>1, <2>2, <3>1
  <2>5. QED
    BY <2>3, <2>4
<1>3. QED
  BY <1>1, <1>2, RegistryInvAlways, PTL DEF RegistrySpec, ImplementsCatalogue, Catalogue!Spec
=============================================================================
