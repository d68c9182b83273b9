-------------------------- MODULE DatasetRegistry --------------------------
(***************************************************************************)
(* The dataset registry: the API (dataset-registry/backend/app.py, db.py)  *)
(* and the calls of its SDK (sdk/dataset_registry/client.py).  FastAPI     *)
(* runs the handlers in a pool of threads and every database function is a *)
(* transaction of its own, so what a handler has checked may have changed  *)
(* when it acts.  An update or delete of the SDK is two requests: the      *)
(* source is looked up, and the id found is changed.  A caller waits for   *)
(* at most its timeout; the handler it gave up on goes on.                 *)
(***************************************************************************)
EXTENDS Naturals

CONSTANTS
  Calls,        (* calls of the SDK *)
  Sources,      (* source URIs *)
  Identities,   (* OpenLineage (namespace, name) pairs *)
  IdentityOf,   (* parse_ol_identity: several URIs may name one dataset *)
  MaxFaults     (* bound: requests cut off by a restart or a broken connection, *)
                (* and callers that give up *)

ASSUME RegistryAssumption ==
  /\ IdentityOf \in [Sources -> Identities]
  /\ MaxFaults \in Nat

VARIABLES
  rows,      (* the table datasets; "text" is the call that wrote the rest *)
  nextId,    (* gen_random_uuid(): never an id that was used before *)
  marquez,   (* identities Marquez got a DatasetEvent for *)
  stage,     (* per call: where it is *)
  op,        (* per call: the method of the SDK *)
  source,    (* per call: its argument *)
  target,    (* per call: the id it made or looked up, 0 for none *)
  result,    (* per call: what the caller was told *)
  met,       (* history, per call: the sets of registered sources so far *)
  faults

table == <<rows, nextId>>
request == <<op, source>>
registryVars == <<table, marquez, stage, request, target, result, met, faults>>

Ops == {"create", "update", "delete"}
Stages == {"new", "check", "insert", "announce", "lookup", "apply", "reply", "over"}
Row == [id : Nat \ {0}, source : Sources, text : Calls]

RegistryTypeOK ==
  /\ rows \subseteq Row
  /\ \A row \in rows : row.id < nextId
  /\ nextId \in Nat \ {0}
  /\ marquez \subseteq Identities
  /\ stage \in [Calls -> Stages]
  /\ op \in [Calls -> Ops]
  /\ source \in [Calls -> Sources]
  /\ target \in [Calls -> Nat] /\ \A c \in Calls : target[c] < nextId
  /\ result \in [Calls -> {"none", "created", "conflict", "refused", "updated", "deleted",
                           "not found", "timeout", "error"}]
  /\ met \in [Calls -> SUBSET SUBSET Sources]
  /\ faults \in 0 .. MaxFaults

RegistryInit ==
  /\ rows = {}
  /\ nextId = 1
  /\ marquez = {}
  /\ stage = [c \in Calls |-> "new"]
  /\ op \in [Calls -> Ops]
  /\ source \in [Calls -> Sources]
  /\ target = [c \in Calls |-> 0]
  /\ result = [c \in Calls |-> "none"]
  /\ met = [c \in Calls |-> {}]
  /\ faults = 0

-----------------------------------------------------------------------------
(* The operators named Faulty... are not the code: each is a bug that could *)
(* be made in the definition that follows it.                               *)

Registered == {row.source : row \in rows}
Active(c) == stage[c] \notin {"new", "over"}

Goto(c, from, to) == stage[c] = from /\ stage' = [stage EXCEPT ![c] = to]

(* The handler ends; its answer reaches a caller that still waits. *)
Answer(c, from, answer) ==
  /\ Goto(c, from, "over")
  /\ result' = [result EXCEPT ![c] = IF @ = "none" THEN answer ELSE @]

(* The calls under way live through a change of the table. *)
Witness ==
  met' = [c \in Calls |-> IF Active(c) THEN met[c] \cup {Registered'} ELSE met[c]]

(* The method of the SDK is called: create posts, the others look up. *)
Begin(c) ==
  /\ Goto(c, "new", IF op[c] = "create" THEN "check" ELSE "lookup")
  /\ met' = [met EXCEPT ![c] = {Registered}]
  /\ UNCHANGED <<table, marquez, request, target, result, faults>>

-----------------------------------------------------------------------------
(* POST /datasets *)

(* The event is posted before the row is inserted. *)
FaultyCheckSource(c) ==
  /\ \/ /\ source[c] \in Registered
        /\ Answer(c, "check", "conflict")
        /\ UNCHANGED marquez
     \/ /\ source[c] \notin Registered
        /\ Goto(c, "check", "insert")
        /\ marquez' = marquez \cup {IdentityOf[source[c]]}
        /\ UNCHANGED result
  /\ UNCHANGED <<table, request, target, met, faults>>

(* get_dataset_by_source; the schema is introspected before the insert.    *)
CheckSource(c) ==
  /\ \/ source[c] \in Registered /\ Answer(c, "check", "conflict")
     \/ source[c] \notin Registered /\ Goto(c, "check", "insert") /\ UNCHANGED result
  /\ UNCHANGED <<table, marquez, request, target, met, faults>>

(* The table has no unique constraints, as the source was checked. *)
FaultyClashes(row, s) == FALSE

(* UNIQUE(source) and UNIQUE(ol_namespace, ol_name): the second implies   *)
(* the first, as the identity is derived from the source.                  *)
Clashes(row, s) == IdentityOf[row.source] = IdentityOf[s]

(* create_dataset: the unique constraints on source and identity refuse    *)
(* the row, and the exception becomes a 500, or it is committed.           *)
InsertRow(c) ==
  \/ /\ \E row \in rows : Clashes(row, source[c])
     /\ Answer(c, "insert", "refused")
     /\ UNCHANGED <<table, marquez, request, target, met, faults>>
  \/ /\ \A row \in rows : ~Clashes(row, source[c])
     /\ Goto(c, "insert", "announce")
     /\ rows' = rows \cup {[id |-> nextId, source |-> source[c], text |-> c]}
     /\ nextId' = nextId + 1
     /\ target' = [target EXCEPT ![c] = nextId]
     /\ Witness
     /\ UNCHANGED <<marquez, request, result, faults>>

(* emit_dataset_registered: posted once, any failure swallowed.  The row   *)
(* is returned after that.                                                 *)
Announce(c) ==
  /\ Goto(c, "announce", "reply")
  /\ \/ marquez' = marquez \cup {IdentityOf[source[c]]}
     \/ UNCHANGED marquez
  /\ UNCHANGED <<table, request, target, result, met, faults>>

-----------------------------------------------------------------------------
(* PUT and DELETE /datasets/{id}, after GET /datasets/lookup *)

LookUp(c) ==
  /\ \/ /\ source[c] \notin Registered
        /\ Answer(c, "lookup", "not found")
        /\ UNCHANGED target
     \/ \E row \in rows :
          /\ row.source = source[c]
          /\ Goto(c, "lookup", "apply")
          /\ target' = [target EXCEPT ![c] = row.id]
          /\ UNCHANGED result
  /\ UNCHANGED <<table, marquez, request, met, faults>>

(* A delete that finds no row counts as done, as if it were idempotent. *)
FaultyRowGone(c) ==
  /\ \A row \in rows : row.id # target[c]
  /\ Answer(c, "apply", IF op[c] = "delete" THEN "deleted" ELSE "not found")
  /\ UNCHANGED <<table, marquez, request, target, met, faults>>

(* The row is gone: 404. *)
RowGone(c) ==
  /\ \A row \in rows : row.id # target[c]
  /\ Answer(c, "apply", "not found")
  /\ UNCHANGED <<table, marquez, request, target, met, faults>>

UpdateRow(c) ==
  /\ op[c] = "update"
  /\ Goto(c, "apply", "reply")
  /\ \E row \in rows :
       /\ row.id = target[c]
       /\ rows' = (rows \ {row}) \cup {[row EXCEPT !.text = c]}
  /\ UNCHANGED <<nextId, marquez, request, target, result, met, faults>>

(* The row is deleted by its source, not by its id. *)
FaultyDeleteRow(c) ==
  /\ op[c] = "delete"
  /\ Goto(c, "apply", "reply")
  /\ \E row \in rows :
       /\ row.source = source[c]
       /\ rows' = rows \ {row}
  /\ Witness
  /\ UNCHANGED <<nextId, marquez, request, target, result, faults>>

DeleteRow(c) ==
  /\ op[c] = "delete"
  /\ Goto(c, "apply", "reply")
  /\ \E row \in rows :
       /\ row.id = target[c]
       /\ rows' = rows \ {row}
  /\ Witness
  /\ UNCHANGED <<nextId, marquez, request, target, result, faults>>

(* What was asked for has been committed, and of a create announced. *)
Done == [create |-> "created", update |-> "updated", delete |-> "deleted"]
Reply(c) ==
  /\ Answer(c, "reply", Done[op[c]])
  /\ UNCHANGED <<table, marquez, request, target, met, faults>>

-----------------------------------------------------------------------------
Fault == faults < MaxFaults /\ faults' = faults + 1

(* A caller that gives up: requests raises Timeout.  What the API is at it *)
(* finishes, but a caller that has not looked up yet will change nothing.  *)
TimeOut(c) ==
  /\ Active(c) /\ Fault
  /\ result[c] = "none"
  /\ result' = [result EXCEPT ![c] = "timeout"]
  /\ stage' = IF stage[c] = "lookup" THEN [stage EXCEPT ![c] = "over"] ELSE stage
  /\ UNCHANGED <<table, marquez, request, target, met>>

(* The API restarts or the connection breaks: the handler is lost. *)
Lose(c) ==
  /\ Active(c) /\ Fault
  /\ Answer(c, stage[c], "error")
  /\ UNCHANGED <<table, marquez, request, target, met>>

AllServed ==
  /\ \A c \in Calls : stage[c] = "over"
  /\ UNCHANGED registryVars

RegistryNext ==
  \/ \E c \in Calls :
       \/ Begin(c) \/ CheckSource(c) \/ InsertRow(c) \/ Announce(c)
       \/ LookUp(c) \/ RowGone(c) \/ UpdateRow(c) \/ DeleteRow(c) \/ Reply(c)
       \/ TimeOut(c) \/ Lose(c)
  \/ AllServed

RegistrySpec == RegistryInit /\ [][RegistryNext]_registryVars

-----------------------------------------------------------------------------
(* Properties *)

(* "Single source of truth for dataset identity" (backend/app.py): however *)
(* many creates pass the check at once, and whichever of its URIs they use,*)
(* a dataset is registered once.                                           *)
OneRowPerIdentity ==
  \A x, y \in rows : IdentityOf[x.source] = IdentityOf[y.source] => x = y

Free(R, s) == \A x \in R : IdentityOf[x] # IdentityOf[s]

(* What a caller is told was true at some moment of its call, although the *)
(* handlers check in one transaction, or request, and act in another.      *)
AnswersAreTruthful ==
  \A c \in Calls :
    /\ result[c] = "created" => \E R \in met[c] : Free(R, source[c])
    /\ result[c] = "refused" => \E R \in met[c] : ~Free(R, source[c])
    /\ result[c] = "conflict" => \E R \in met[c] : source[c] \in R
    /\ result[c] = "not found" => \E R \in met[c] : source[c] \notin R
    /\ result[c] \in {"updated", "deleted"} => \E R \in met[c] : source[c] \in R

(* A registration its caller knows of stays until a delete that looked up  *)
(* that very registration: a delete that comes late, to find its source    *)
(* registered anew, leaves the new registration alone.                     *)
AcknowledgedStays ==
  \A c \in Calls : result[c] = "created" =>
    \/ \E row \in rows : row.id = target[c] /\ row.source = source[c]
    \/ \E d \in Calls : op[d] = "delete" /\ target[d] = target[c]

(* Marquez knows of a dataset only what the registry has committed.        *)
AnnouncedWasRegistered ==
  \A i \in marquez :
    \E c \in Calls : op[c] = "create" /\ target[c] > 0 /\ IdentityOf[source[c]] = i

(* The registry implements the catalogue its callers rely on: a call takes *)
(* effect with the one transaction that changes the table, at most once,   *)
(* and is answered accordingly, although it is several transactions and,   *)
(* for update and delete, several requests (app.py:48-98, client.py:113).  *)
PhaseAt ==
  [at \in Stages |-> CASE at = "new" -> "idle"
                       [] at \in {"check", "insert", "lookup", "apply"} -> "called"
                       [] at \in {"announce", "reply"} -> "done"
                       [] at = "over" -> "over"]
Entries == {[source |-> row.source, text |-> row.text] : row \in rows}
Catalogue == INSTANCE Catalogue
               WITH entries <- Entries, announced <- marquez, told <- result,
                    phase <- [c \in Calls |-> PhaseAt[stage[c]]]
ImplementsCatalogue == Catalogue!Spec
=============================================================================
