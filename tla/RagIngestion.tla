---------------------------- MODULE RagIngestion ----------------------------
(***************************************************************************)
(* The RAG ingestion pipeline (src/src/rag/rag_pipeline.py): pods that     *)
(* load documents, cut them into chunks, embed the chunks and replace a    *)
(* Milvus collection, each followed by one COMPLETE event, and the pod of  *)
(* the full pipeline that asks the inference service a question.  All runs *)
(* use one collection, so the calls of overlapping runs interleave.        *)
(***************************************************************************)
EXTENDS Naturals, Sequences

CONSTANTS
  Ingestions,   (* runs of the pipeline *)
  Corpora,      (* what the bucket may hold: sequences of documents *)
  Settings,     (* chunk_size and chunk_overlap of a run *)
  DelimiterSize,(* lengths of '. ', '\n\n', '\n', ' ', in the order tried *)
  MaxRagFaults  (* bound: pods killed, calls and posts that raise *)

Delimiters == DOMAIN DelimiterSize

(* A document is its length and, per delimiter, where its occurrences end. *)
Document == [size : Nat, ends : [Delimiters -> SUBSET Nat]]
Setting == [size : Nat \ {0}, overlap : Nat]

ASSUME RagAssumption ==
  /\ DelimiterSize \in Seq(Nat \ {0})
  /\ Corpora \subseteq Seq(Document)
  /\ Settings \subseteq Setting
  /\ MaxRagFaults \in Nat

VARIABLES
  stage,      (* per run: the next thing it does *)
  setting,    (* per run: its parameters *)
  corpus,     (* per run: the documents it has loaded *)
  cursor,     (* per run: the document being cut, and start *)
  chunks,     (* per run: the chunks cut so far *)
  collection, (* the Milvus collection; a row is <<run, index of the chunk>> *)
  reported,   (* <<run, step>> whose COMPLETE event Marquez has *)
  alone,      (* history, per run: nobody else has changed the collection since it looked *)
  overlaps,   (* history: pairs of runs that were replacing the collection at once *)
  ragFaults

ragVars == <<stage, setting, corpus, cursor, chunks, collection, reported, alone, overlaps, ragFaults>>

Steps == <<"load", "chunk", "embed", "store", "infer">>
Replacing == {"drop", "create", "insert"}
Inserted == {"index", "load rows", "count", "stored"}
After == {"infer", "inferred", "done"}
Stages == {"load", "loaded", "chunk", "chunked", "embed", "embedded", "look", "failed"}
            \cup Replacing \cup Inserted \cup After

Chunk == [doc : Nat \ {0}, from : Nat, to : Nat]
Missing == [exists |-> FALSE, indexed |-> FALSE, loaded |-> FALSE, rows |-> {}]
Own(r) == {<<r, i>> : i \in 1 .. Len(chunks[r])}

RagTypeOK ==
  /\ stage \in [Ingestions -> Stages]
  /\ setting \in [Ingestions -> Settings]
  /\ corpus \in [Ingestions -> Corpora \cup {<<>>}]
  /\ cursor \in [Ingestions -> [doc : Nat \ {0}, start : Nat]]
  /\ chunks \in [Ingestions -> Seq(Chunk)]
  /\ collection \in [exists : BOOLEAN, indexed : BOOLEAN, loaded : BOOLEAN,
                     rows : SUBSET (Ingestions \X (Nat \ {0}))]
  /\ reported \subseteq Ingestions \X {Steps[k] : k \in 1 .. 5}
  /\ alone \in [Ingestions -> BOOLEAN]
  /\ overlaps \subseteq SUBSET Ingestions
  /\ ragFaults \in 0 .. MaxRagFaults

RagInit ==
  /\ stage = [r \in Ingestions |-> "load"]
  /\ setting \in [Ingestions -> Settings]
  /\ corpus = [r \in Ingestions |-> <<>>]
  /\ cursor = [r \in Ingestions |-> [doc |-> 1, start |-> 0]]
  /\ chunks = [r \in Ingestions |-> <<>>]
  /\ collection = Missing
  /\ reported = {}
  /\ alone = [r \in Ingestions |-> FALSE]
  /\ overlaps = {}
  /\ ragFaults = 0

-----------------------------------------------------------------------------
(* The operators named Faulty... are not the code: each is a bug that could *)
(* be made in the definition that follows it.                               *)

Move(r, from, to) == stage[r] = from /\ stage' = [stage EXCEPT ![r] = to]

Fault == ragFaults < MaxRagFaults /\ ragFaults' = ragFaults + 1

Fails(r) == stage' = [stage EXCEPT ![r] = "failed"]

(* A pod is killed, or its work raises (MinIO, the embedding model); KFP   *)
(* does not retry it and starts none of the pods that depend on it.        *)
PodFails(r) ==
  /\ stage[r] \notin {"done", "failed"}
  /\ Fault /\ Fails(r)
  /\ UNCHANGED <<setting, corpus, cursor, chunks, collection, reported, alone, overlaps>>

(* The last statement of each pod: the client raises when the post fails,  *)
(* and what failed with a time-out may still have been recorded.           *)
FaultyReport(r, at, step, next) ==
  /\ stage[r] = at /\ stage' = [stage EXCEPT ![r] = next]
  /\ \/ reported' = reported \cup {<<r, step>>} /\ UNCHANGED ragFaults
     \/ Fault /\ UNCHANGED reported
  /\ UNCHANGED <<setting, corpus, cursor, chunks, collection, alone, overlaps>>

Report(r, at, step, next) ==
  /\ \/ /\ Move(r, at, next)
        /\ reported' = reported \cup {<<r, step>>}
        /\ UNCHANGED ragFaults
     \/ /\ stage[r] = at /\ Fault /\ Fails(r)
        /\ reported' \in {reported, reported \cup {<<r, step>>}}
  /\ UNCHANGED <<setting, corpus, cursor, chunks, collection, alone, overlaps>>

LoadDocuments(r) ==
  /\ Move(r, "load", "loaded")
  /\ \E found \in Corpora : corpus' = [corpus EXCEPT ![r] = found]
  /\ UNCHANGED <<setting, cursor, chunks, collection, reported, alone, overlaps, ragFaults>>

Text(r) == corpus[r][cursor[r].doc]

(* Where the chunk that starts at start may end: at the last occurrence of *)
(* the first delimiter that has its last one beyond the middle.            *)
ChunkEnds(doc, start, size) ==
  LET limit == IF start + size < doc.size THEN start + size ELSE doc.size
      Breaks(d) == {e \in doc.ends[d] : e <= limit /\ e > start + DelimiterSize[d] + size \div 2}
      usable == {d \in Delimiters : Breaks(d) # {}}
      first == {d \in usable : \A c \in usable : d <= c}
      candidates == UNION {Breaks(d) : d \in first}
  IN  IF limit = doc.size \/ first = {} THEN {limit}
      ELSE {e \in candidates : \A f \in candidates : f <= e}

FaultyNextStart(start, end, overlap) ==
  IF end + 1 > start + overlap + 1 THEN end + 1 - overlap ELSE start + 1

(* max(end - chunk_overlap, start + 1) *)
NextStart(start, end, overlap) ==
  IF end > start + overlap + 1 THEN end - overlap ELSE start + 1

(* One turn of the while loop. *)
CutChunk(r) ==
  /\ stage[r] = "chunk"
  /\ cursor[r].doc <= Len(corpus[r])
  /\ cursor[r].start < Text(r).size
  /\ \E end \in ChunkEnds(Text(r), cursor[r].start, setting[r].size) :
       /\ chunks' = [chunks EXCEPT ![r] =
                       Append(@, [doc |-> cursor[r].doc, from |-> cursor[r].start, to |-> end])]
       /\ cursor' = [cursor EXCEPT ![r].start = NextStart(@, end, setting[r].overlap)]
  /\ UNCHANGED <<stage, setting, corpus, collection, reported, alone, overlaps, ragFaults>>

NextDocument(r) ==
  /\ stage[r] = "chunk"
  /\ cursor[r].doc <= Len(corpus[r])
  /\ cursor[r].start >= Text(r).size
  /\ cursor' = [cursor EXCEPT ![r] = [doc |-> @.doc + 1, start |-> 0]]
  /\ UNCHANGED <<stage, setting, corpus, chunks, collection, reported, alone, overlaps, ragFaults>>

ChunksDone(r) ==
  /\ cursor[r].doc > Len(corpus[r])
  /\ Move(r, "chunk", "chunked")
  /\ UNCHANGED <<setting, corpus, cursor, chunks, collection, reported, alone, overlaps, ragFaults>>

(* Without chunks embeddings.shape[1] may not exist. *)
Embed(r) ==
  /\ \/ Move(r, "embed", "embedded")
     \/ chunks[r] = <<>> /\ Move(r, "embed", "failed")
  /\ UNCHANGED <<setting, corpus, cursor, chunks, collection, reported, alone, overlaps, ragFaults>>

-----------------------------------------------------------------------------
(* store_in_milvus: each call is a request of its own.                      *)

FaultyLookForCollection(r) ==
  /\ Move(r, "look", IF collection.exists THEN "drop" ELSE "create")
  /\ alone' = [alone EXCEPT ![r] = TRUE]
  /\ overlaps' = overlaps \cup {{r, q} : q \in {s \in Ingestions : stage[s] \in Replacing}}
  /\ UNCHANGED <<setting, corpus, cursor, chunks, collection, reported, ragFaults>>

(* chunks[0] raises before anything is dropped. *)
LookForCollection(r) ==
  /\ \/ /\ chunks[r] = <<>>
        /\ Move(r, "look", "failed")
        /\ UNCHANGED <<alone, overlaps>>
     \/ /\ chunks[r] # <<>>
        /\ Move(r, "look", IF collection.exists THEN "drop" ELSE "create")
        /\ alone' = [alone EXCEPT ![r] = TRUE]
        /\ overlaps' = overlaps \cup {{r, q} : q \in {s \in Ingestions : stage[s] \in Replacing}}
  /\ UNCHANGED <<setting, corpus, cursor, chunks, collection, reported, ragFaults>>

(* The others are not alone with the collection any more. *)
Disturb(r) == alone' = [q \in Ingestions |-> q = r /\ alone[r]]

(* A call that raised may have been carried out all the same. *)
Call(r, at, next, effect) ==
  /\ stage[r] = at
  /\ \/ collection' = effect /\ Move(r, at, next) /\ UNCHANGED ragFaults
     \/ collection' \in {collection, effect} /\ Fault /\ Fails(r)
  /\ UNCHANGED <<setting, corpus, cursor, chunks, reported, overlaps>>

FaultyDropCollection(r) == Call(r, "drop", "create", collection) /\ Disturb(r)

DropCollection(r) == Call(r, "drop", "create", Missing) /\ Disturb(r)

(* Collection(name, schema) attaches to a collection that is there. *)
CreateCollection(r) ==
  /\ Call(r, "create", "insert",
          IF collection.exists THEN collection ELSE [Missing EXCEPT !.exists = TRUE])
  /\ Disturb(r)

InsertRows(r) ==
  /\ collection.exists
  /\ Call(r, "insert", "index", [collection EXCEPT !.rows = @ \cup Own(r)])
  /\ Disturb(r)

CreateIndex(r) ==
  /\ collection.exists
  /\ Call(r, "index", "load rows", [collection EXCEPT !.indexed = TRUE])
  /\ UNCHANGED alone

LoadRows(r) ==
  /\ collection.exists /\ collection.indexed
  /\ Call(r, "load rows", "count", [collection EXCEPT !.loaded = TRUE])
  /\ UNCHANGED alone

CountRows(r) ==
  /\ collection.exists
  /\ Call(r, "count", "stored", collection)
  /\ UNCHANGED alone

(* Milvus refuses a call on a collection another run has dropped, and to   *)
(* load one that has no index.                                             *)
CallRefused(r) ==
  /\ \/ stage[r] \in {"insert", "index", "load rows", "count"} /\ ~collection.exists
     \/ stage[r] = "load rows" /\ ~collection.indexed
     \/ stage[r] = "drop" /\ ~collection.exists
  /\ Fails(r)
  /\ UNCHANGED <<setting, corpus, cursor, chunks, collection, reported, alone, overlaps, ragFaults>>

(* test_inference: a failed request is printed and reported as complete. *)
TestInference(r) ==
  /\ Move(r, "infer", "inferred")
  /\ UNCHANGED <<setting, corpus, cursor, chunks, collection, reported, alone, overlaps, ragFaults>>

StoreInMilvus(r) ==
  \/ LookForCollection(r) \/ DropCollection(r) \/ CreateCollection(r) \/ InsertRows(r)
  \/ CreateIndex(r) \/ LoadRows(r) \/ CountRows(r) \/ CallRefused(r)

ReportStep(r) ==
  \/ Report(r, "loaded", "load", "chunk")
  \/ Report(r, "chunked", "chunk", "embed")
  \/ Report(r, "embedded", "embed", "look")
  \/ Report(r, "stored", "store", "infer")
  \/ Report(r, "inferred", "infer", "done")

Ingest(r) ==
  \/ LoadDocuments(r)
  \/ CutChunk(r) \/ NextDocument(r) \/ ChunksDone(r)
  \/ Embed(r) \/ StoreInMilvus(r) \/ TestInference(r)
  \/ ReportStep(r) \/ PodFails(r)

-----------------------------------------------------------------------------
(* Properties.                                                              *)

ChunksOf(r, d) == {i \in 1 .. Len(chunks[r]) : chunks[r][i].doc = d}

(* The chunks cut from a document start at its beginning and leave no gap; *)
(* each starts behind the one before and is within chunk_size.             *)
(* rag_pipeline.py:176-208 moves start by end, overlap and delimiters, and *)
(* a chunk that ends early at a delimiter must not make the next one skip  *)
(* what is left.                                                           *)
ChunksCoverDocuments ==
  \A r \in Ingestions :
    /\ \A i \in 1 .. Len(chunks[r]) :
         LET c == chunks[r][i] IN
         /\ c.from < c.to /\ c.to <= c.from + setting[r].size
         /\ c.from = 0 \/ \E j \in 1 .. i - 1 : /\ chunks[r][j].doc = c.doc
                                                 /\ chunks[r][j].from < c.from
                                                 /\ c.from <= chunks[r][j].to
    /\ \A d \in 1 .. Len(corpus[r]) :
         d < cursor[r].doc /\ corpus[r][d].size > 0 =>
           \E i \in ChunksOf(r, d) : chunks[r][i].to = corpus[r][d].size

(* What an ingestion has stored is exactly its own chunks, and there are   *)
(* some, unless another run has changed the collection since it looked for *)
(* it: the drop, the create and the insert are separate calls, and an      *)
(* ingestion of nothing must not empty the collection (:411, :421-454).    *)
UndisturbedStoreIsExact ==
  \A r \in Ingestions :
    stage[r] \in Inserted \cup After /\ alone[r] =>
      collection.exists /\ collection.rows = Own(r) /\ collection.rows # {}

(* Rows of two ingestions are in the collection together only if the two   *)
(* were replacing it at the same time.                                     *)
MixedOnlyByOverlap ==
  \A a, b \in collection.rows : a[1] # b[1] => {a[1], b[1]} \in overlaps

(* Every row that can be retrieved is behind a chain of reported steps,    *)
(* and no step is reported over a gap: a pod whose event could not be      *)
(* posted fails and ends the run.                                          *)
RowsAreTraced ==
  /\ \A row \in collection.rows, k \in 1 .. 3 : <<row[1], Steps[k]>> \in reported
  /\ \A r \in Ingestions, k \in 2 .. 5 :
       <<r, Steps[k]>> \in reported => <<r, Steps[k - 1]>> \in reported
=============================================================================
