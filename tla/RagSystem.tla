----------------------------- MODULE RagSystem -----------------------------
(***************************************************************************)
(* The RAG system: ingestions that replace the collection, and pods of the *)
(* inference service (openshift/webhook/examples/rag-service/app.py), each *)
(* admitted through the lineage webhook, that answer questions from it.    *)
(***************************************************************************)
EXTENDS RagIngestion, LineageInjection

VARIABLES
  service,    (* per pod: "down", "blind" (milvus_collection is None), "idle", "loaded" *)
  basis,      (* history, per pod: undisturbed ingestions since its load() *)
  answer      (* per pod: the last answer *)

ingestionVars == <<stage, setting, corpus, cursor, chunks, reported, alone, overlaps>>
serviceVars == <<service, basis, answer>>
systemVars == <<ragVars, injectionVars, serviceVars>>

NoAnswer == [kind |-> "none", from |-> {}, basis |-> {}]

ServiceTypeOK ==
  /\ service \in [Pods -> {"down", "blind", "idle", "loaded"}]
  /\ basis \in [Pods -> SUBSET Ingestions]
  /\ answer \in [Pods -> [kind : {"none", "documents", "refused", "failed", "empty"},
                          from : SUBSET Ingestions, basis : SUBSET Ingestions]]

SystemTypeOK == RagTypeOK /\ InjectionTypeOK /\ ServiceTypeOK

SystemInit ==
  /\ RagInit /\ InjectionInit
  /\ service = [p \in Pods |-> "down"]
  /\ basis = [p \in Pods |-> {}]
  /\ answer = [p \in Pods |-> NoAnswer]

(* The ingestions that have completed their store undisturbed. *)
Current == {r \in Ingestions : stage[r] \in After /\ alone[r]}

Answers(p, kind, from, since) ==
  answer' = [answer EXCEPT ![p] = [kind |-> kind, from |-> from, basis |-> since]]

-----------------------------------------------------------------------------
(* Module start: Collection(name) raises when there is none, and Milvus    *)
(* may fail; then the service goes without until it is started again.      *)
StartService(p) ==
  /\ phase[p] = "app" /\ service[p] = "down"
  /\ \/ /\ service' = [service EXCEPT ![p] = IF collection.exists THEN "idle" ELSE "blind"]
        /\ UNCHANGED ragFaults
     \/ service' = [service EXCEPT ![p] = "blind"] /\ Fault
  /\ basis' = [basis EXCEPT ![p] = {}]
  /\ answer' = [answer EXCEPT ![p] = NoAnswer]
  /\ UNCHANGED <<ingestionVars, collection, injectionVars>>

(* query: load() loads the collection of that name, whoever made it.  An   *)
(* exception is answered as a document, with status 200.                   *)
CanLoad == collection.exists /\ collection.indexed
Loaded == [collection EXCEPT !.loaded = TRUE]

QueryLoad(p) ==
  /\ service[p] = "idle"
  /\ IF CanLoad
     THEN /\ collection' = Loaded
          /\ service' = [service EXCEPT ![p] = "loaded"]
          /\ basis' = [basis EXCEPT ![p] = Current]
          /\ UNCHANGED answer
     ELSE /\ Answers(p, "refused", {}, Current)
          /\ UNCHANGED <<collection, service, basis>>
  /\ UNCHANGED <<ingestionVars, ragFaults, injectionVars>>

(* query: search() sees the rows of the moment; the best top_k of them may *)
(* come from any of the ingestions in the collection.                      *)
QuerySearch(p) ==
  /\ service[p] = "loaded"
  /\ LET since == basis[p] \cap Current IN
     IF collection.exists /\ collection.loaded
     THEN \E from \in SUBSET {row[1] : row \in collection.rows} :
            /\ from = {} <=> collection.rows = {}
            /\ Answers(p, IF from = {} THEN "empty" ELSE "documents", from, since)
     ELSE Answers(p, "refused", {}, since)
  /\ service' = [service EXCEPT ![p] = "idle"]
  /\ UNCHANGED <<ragVars, injectionVars, basis>>

(* query: Milvus fails in load(), which may have been carried out, the     *)
(* embedding model after it, or Milvus in search(): answered likewise.     *)
QueryFails(p) ==
  /\ Fault
  /\ \/ /\ service[p] = "idle"
        /\ collection' = collection \/ (CanLoad /\ collection' = Loaded)
        /\ Answers(p, "failed", {}, Current)
     \/ /\ service[p] = "loaded"
        /\ UNCHANGED collection
        /\ Answers(p, "failed", {}, basis[p] \cap Current)
  /\ service' = [service EXCEPT ![p] = "idle"]
  /\ UNCHANGED <<ingestionVars, injectionVars, basis>>

(* query of a service without a collection: no documents. *)
QueryBlind(p) ==
  /\ service[p] = "blind"
  /\ Answers(p, "empty", {}, {})
  /\ UNCHANGED <<ragVars, injectionVars, service, basis>>

(* The process, or the sandbox of its pod, ends and is started again. *)
ServiceEnds(p) ==
  /\ service[p] # "down"
  /\ service' = [service EXCEPT ![p] = "down"]

RestartService(p) ==
  /\ ServiceEnds(p) /\ InjectFault
  /\ UNCHANGED <<phase, labelled, patched, unasked, registered, ragVars, basis, answer>>

ServiceStep(p) ==
  \/ StartService(p) \/ QueryLoad(p) \/ QuerySearch(p) \/ QueryFails(p) \/ QueryBlind(p)
  \/ RestartService(p)

(* Losing the sandbox ends the application with it. *)
PodStep(p) ==
  /\ Inject(p)
  /\ \/ phase[p] # "app" /\ UNCHANGED service
     \/ phase[p] = "app" /\ service' = [service EXCEPT ![p] = "down"]
  /\ UNCHANGED <<ragVars, basis, answer>>

SystemNext ==
  \/ \E r \in Ingestions : Ingest(r) /\ UNCHANGED <<injectionVars, serviceVars>>
  \/ \E p \in Pods : PodStep(p) \/ ServiceStep(p)

SystemSpec == SystemInit /\ [][SystemNext]_systemVars

-----------------------------------------------------------------------------
(* A question asked while an ingestion is stored and undisturbed, from     *)
(* load() to search(), is answered with documents of that ingestion and of *)
(* no other, unless a call of the query fails by itself: such a collection *)
(* is never found missing, empty, unindexed or unloaded.  The service      *)
(* looks it up by name in every call (app.py:168-194), and other           *)
(* ingestions drop, create and fill it.                                    *)
UndisturbedAnswersAreCurrent ==
  \A p \in Pods :
    answer[p].basis # {} =>
      \/ answer[p].kind = "documents" /\ answer[p].from = answer[p].basis
      \/ answer[p].kind = "failed"

(* Only a pod that has registered, is unlabelled or was never seen by the  *)
(* webhook serves.                                                         *)
ServingPodsAreRegistered ==
  /\ PodsAreRegistered
  /\ \A p \in Pods : service[p] # "down" => phase[p] = "app"
=============================================================================
