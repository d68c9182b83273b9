-------------------------- MODULE RagSystemProofs --------------------------
(***************************************************************************)
(* Proofs about the RAG system, for any runs, corpora, settings, pods and  *)
(* bounds on faults.  The invariant has a part per concern: how far the    *)
(* cutting of a document is, whose rows the collection holds, which runs   *)
(* overlapped, what is reported, and what a query relies on.               *)
(***************************************************************************)
EXTENDS RagSystem, TLAPS

Covered(r, d) == \E i \in ChunksOf(r, d) : chunks[r][i].to = corpus[r][d].size

(* The next chunk of the current document starts where it may. *)
CursorInv(r) ==
  /\ stage[r] \in {"load", "loaded"} => chunks[r] = <<>> /\ cursor[r] = [doc |-> 1, start |-> 0]
  /\ cursor[r].start = 0 \/ \E j \in ChunksOf(r, cursor[r].doc) :
       chunks[r][j].from < cursor[r].start /\ cursor[r].start <= chunks[r][j].to
  /\ \A d \in 1 .. Len(corpus[r]) : d < cursor[r].doc /\ corpus[r][d].size > 0 => Covered(r, d)

ChunkInv(r) ==
  \A i \in 1 .. Len(chunks[r]) :
    LET c == chunks[r][i] IN
    /\ c.doc \in 1 .. Len(corpus[r]) /\ c.to <= corpus[r][c.doc].size
    /\ c.from < c.to /\ c.to <= c.from + setting[r].size
    /\ c.from = 0 \/ \E j \in 1 .. i - 1 : /\ chunks[r][j].doc = c.doc
                                            /\ chunks[r][j].from < c.from
                                            /\ c.from <= chunks[r][j].to

Indexed == {"load rows", "count", "stored"} \cup After

StoreInv ==
  /\ ~collection.exists => collection = Missing
  /\ \A r \in Ingestions :
       /\ stage[r] \in Replacing \cup Inserted \cup After => chunks[r] # <<>>
       /\ alone[r] =>
            /\ stage[r] = "create" => collection = Missing
            /\ stage[r] = "insert" => collection.exists /\ collection.rows = {}
            /\ stage[r] \in Inserted \cup After => collection.exists /\ collection.rows = Own(r)
            /\ stage[r] \in Indexed => collection.indexed

OverlapInv ==
  /\ \A r, q \in Ingestions :
       r # q /\ stage[r] \in Replacing /\ stage[q] \in Replacing => {r, q} \in overlaps
  /\ \A row \in collection.rows, r \in Ingestions :
       row[1] # r /\ stage[r] \in {"create", "insert"} => {row[1], r} \in overlaps
  /\ MixedOnlyByOverlap

(* The first step whose event a run at this stage has not posted. *)
Posted(r, step) ==
  \/ stage[r] = "failed"
  \/ <<r, step>> \in reported

TraceInv ==
  /\ RowsAreTraced
  /\ \A r \in Ingestions :
       /\ stage[r] \notin {"load", "loaded"} => Posted(r, "load")
       /\ stage[r] \notin {"load", "loaded", "chunk", "chunked"} => Posted(r, "chunk")
       /\ stage[r] \in {"look"} \cup Replacing \cup Inserted \cup After => Posted(r, "embed")
       /\ stage[r] \in After => Posted(r, "store")

RagInv ==
  /\ RagTypeOK
  /\ \A r \in Ingestions : CursorInv(r) /\ ChunkInv(r)
  /\ StoreInv
  /\ OverlapInv
  /\ TraceInv

-----------------------------------------------------------------------------
LEMMA HalfIsNatural ==
  ASSUME NEW n \in Nat
  PROVE  n \div 2 \in Nat
OBVIOUS

(* A chunk is not empty, not larger than chunk_size and within the         *)
(* document, wherever its delimiters are (lines 176-208).                  *)
LEMMA ChunkEndsBounds ==
  ASSUME RagAssumption, NEW doc \in Document, NEW start \in Nat, start < doc.size,
         NEW size \in Nat \ {0}, NEW end \in ChunkEnds(doc, start, size)
  PROVE  end \in Nat /\ start < end /\ end <= start + size /\ end <= doc.size
<1> DEFINE limit == IF start + size < doc.size THEN start + size ELSE doc.size
           Breaks(d) == {e \in doc.ends[d] : e <= limit /\ e > start + DelimiterSize[d] + size \div 2}
           usable == {d \in Delimiters : Breaks(d) # {}}
           first == {d \in usable : \A c \in usable : d <= c}
           candidates == UNION {Breaks(d) : d \in first}
<1>1. doc.size \in Nat /\ limit \in Nat /\ start < limit /\ limit <= start + size /\ limit <= doc.size
  BY DEF Document
<1>2. \/ end = limit
      \/ end \in candidates
  BY DEF ChunkEnds
<1>3. CASE end = limit
  BY <1>1, <1>3
<1>4. CASE end \in candidates
  <2>1. PICK d \in first : end \in Breaks(d)
    BY <1>4
  <2>2. d \in Delimiters
    BY <2>1
  <2>3. doc.ends[d] \subseteq Nat
    BY <2>2 DEF Document
  <2>4. DelimiterSize[d] \in Nat
    BY <2>2 DEF RagAssumption, Delimiters
  <2>5. end \in Nat /\ end <= limit /\ end > start + DelimiterSize[d] + size \div 2
    BY <2>1, <2>3
  <2>6. size \div 2 \in Nat
    BY HalfIsNatural
  <2> HIDE DEF limit
  <2>7. start < end
    BY <2>4, <2>5, <2>6
  <2> QED BY <1>1, <2>5, <2>7
<1> QED BY <1>2, <1>3, <1>4

(* The loop moves on, and never beyond the end of the chunk. *)
LEMMA NextStartBounds ==
  ASSUME NEW start \in Nat, NEW end \in Nat, start < end, NEW overlap \in Nat
  PROVE  LET next == NextStart(start, end, overlap) IN
         next \in Nat /\ start < next /\ next <= end
BY DEF NextStart

LEMMA SettingType ==
  ASSUME RagAssumption, RagTypeOK, NEW r \in Ingestions
  PROVE  setting[r].size \in Nat \ {0} /\ setting[r].overlap \in Nat
BY DEF RagAssumption, RagTypeOK, Setting

LEMMA CorpusType ==
  ASSUME RagAssumption, RagTypeOK, NEW r \in Ingestions
  PROVE  corpus[r] \in Seq(Document) /\ Len(corpus[r]) \in Nat
<1>1. corpus[r] \in Corpora \cup {<<>>}
  BY DEF RagTypeOK
<1>2. Corpora \subseteq Seq(Document) /\ <<>> \in Seq(Document)
  BY DEF RagAssumption
<1>3. corpus[r] \in Seq(Document)
  BY <1>1, <1>2
<1> QED BY <1>3

LEMMA TextType ==
  ASSUME RagAssumption, RagTypeOK, NEW r \in Ingestions, NEW d \in 1 .. Len(corpus[r])
  PROVE  corpus[r] \in Seq(Document) /\ corpus[r][d] \in Document
BY CorpusType

-----------------------------------------------------------------------------
LEMMA RagInitInv ==
  ASSUME RagAssumption, RagInit
  PROVE  RagInv
<1>1. RagTypeOK
  BY DEF RagAssumption, RagInit, RagTypeOK, Stages, Missing
<1>2. ASSUME NEW r \in Ingestions PROVE CursorInv(r) /\ ChunkInv(r)
  <2>1. /\ corpus[r] = <<>> /\ chunks[r] = <<>> /\ cursor[r] = [doc |-> 1, start |-> 0]
        /\ Len(corpus[r]) = 0 /\ Len(chunks[r]) = 0
    BY DEF RagInit
  <2> QED BY <2>1 DEF CursorInv, ChunkInv
<1>3. StoreInv
  BY DEF RagInit, StoreInv, Missing, Replacing, Inserted, Indexed, After
<1>4. OverlapInv
  BY DEF RagInit, OverlapInv, MixedOnlyByOverlap, Missing, Replacing
<1>5. TraceInv
  BY DEF RagInit, TraceInv, RowsAreTraced, Missing, Replacing, Inserted, After
<1> QED BY <1>1, <1>2, <1>3, <1>4, <1>5 DEF RagInv

(* What each part of the invariant depends on. *)
LEMMA OwnRows ==
  ASSUME RagTypeOK, NEW r \in Ingestions
  PROVE  /\ Own(r) \subseteq Ingestions \X (Nat \ {0})
         /\ \A row \in Own(r) : row[1] = r
         /\ chunks[r] # <<>> => <<r, 1>> \in Own(r)
<1>1. chunks[r] \in Seq(Chunk)
  BY DEF RagTypeOK
<1>2. Len(chunks[r]) \in Nat /\ (chunks[r] # <<>> => Len(chunks[r]) >= 1)
  BY <1>1
<1> QED BY <1>2 DEF Own

-----------------------------------------------------------------------------
(* One turn of the chunking loop: the new chunk starts where the last ones *)
(* have led, so it leaves no gap, and leads on to the next.                *)
LEMMA CutChunkInv ==
  ASSUME RagAssumption, RagInv, NEW r \in Ingestions, CutChunk(r)
  PROVE  /\ chunks' \in [Ingestions -> Seq(Chunk)]
         /\ cursor' \in [Ingestions -> [doc : Nat \ {0}, start : Nat]]
         /\ \A q \in Ingestions : CursorInv(q)' /\ ChunkInv(q)'
<1> DEFINE d == cursor[r].doc
           start == cursor[r].start
           old == chunks[r]
           n == Len(old)
<1>1. PICK end \in ChunkEnds(Text(r), start, setting[r].size) :
        /\ chunks' = [chunks EXCEPT ![r] = Append(old, [doc |-> d, from |-> start, to |-> end])]
        /\ cursor' = [cursor EXCEPT ![r].start = NextStart(@, end, setting[r].overlap)]
  BY DEF CutChunk
<1> DEFINE next == NextStart(start, end, setting[r].overlap)
           new == [doc |-> d, from |-> start, to |-> end]
<1>2. RagTypeOK
  BY DEF RagInv
<1>3. /\ d \in Nat \ {0} /\ start \in Nat
      /\ cursor[r] = [doc |-> d, start |-> start]
      /\ old \in Seq(Chunk) /\ n \in Nat
  BY <1>2 DEF RagTypeOK
<1>4. d \in 1 .. Len(corpus[r]) /\ start < Text(r).size /\ stage[r] = "chunk"
  <2>1. corpus[r] \in Seq(Document)
    BY <1>2, CorpusType
  <2> QED BY <1>3, <2>1 DEF CutChunk
<1>5. Text(r) \in Document /\ Text(r) = corpus[r][d]
  BY <1>2, <1>4, TextType DEF Text
<1>6. setting[r].size \in Nat \ {0} /\ setting[r].overlap \in Nat
  BY <1>2, SettingType
<1>7. end \in Nat /\ start < end /\ end <= start + setting[r].size /\ end <= corpus[r][d].size
  BY <1>1, <1>3, <1>4, <1>5, <1>6, ChunkEndsBounds
<1>8. next \in Nat /\ start < next /\ next <= end
  BY <1>3, <1>6, <1>7, NextStartBounds
<1>9. new \in Chunk
  BY <1>3, <1>7 DEF Chunk
<1>10. /\ chunks'[r] = Append(old, new) /\ Len(chunks'[r]) = n + 1
       /\ chunks'[r][n + 1] = new
       /\ \A i \in 1 .. n : chunks'[r][i] = old[i]
       /\ chunks'[r] \in Seq(Chunk)
       /\ cursor'[r] = [doc |-> d, start |-> next]
       /\ \A q \in Ingestions \ {r} : chunks'[q] = chunks[q] /\ cursor'[q] = cursor[q]
  <2>1. chunks'[r] = Append(old, new) /\ \A q \in Ingestions \ {r} : chunks'[q] = chunks[q]
    BY <1>1, <1>2 DEF RagTypeOK
  <2>2. cursor'[r] = [doc |-> d, start |-> next] /\ \A q \in Ingestions \ {r} : cursor'[q] = cursor[q]
    BY <1>1, <1>2, <1>3 DEF RagTypeOK
  <2> HIDE DEF new, next, old
  <2> QED BY <1>3, <1>9, <2>1, <2>2
<1>11. chunks' \in [Ingestions -> Seq(Chunk)]
  <2>1. Append(old, new) \in Seq(Chunk)
    BY <1>3, <1>9
  <2> QED BY <1>1, <1>2, <2>1 DEF RagTypeOK
<1>12. cursor' \in [Ingestions -> [doc : Nat \ {0}, start : Nat]]
  BY <1>1, <1>2, <1>8 DEF RagTypeOK
<1>13. UNCHANGED <<stage, setting, corpus>>
  BY DEF CutChunk
<1>14. CursorInv(r) /\ ChunkInv(r)
  BY DEF RagInv
<1> HIDE DEF next, new, d, start, n, old
<1>15. ASSUME NEW q \in Ingestions \ {r} PROVE CursorInv(q)' /\ ChunkInv(q)'
  <2>1. chunks'[q] = chunks[q] /\ cursor'[q] = cursor[q] /\ CursorInv(q) /\ ChunkInv(q)
    BY <1>10 DEF RagInv
  <2>2. CursorInv(q)'
    BY <2>1, <1>13 DEF CursorInv, ChunksOf, Covered
  <2>3. ChunkInv(q)'
    BY <2>1, <1>13 DEF ChunkInv
  <2> QED BY <2>2, <2>3
<1>16. ChunkInv(r)'
  <2> SUFFICES ASSUME NEW i \in 1 .. n + 1
      PROVE  LET c == chunks'[r][i] IN
             /\ c.doc \in 1 .. Len(corpus[r]) /\ c.to <= corpus[r][c.doc].size
             /\ c.from < c.to /\ c.to <= c.from + setting[r].size
             /\ c.from = 0 \/ \E j \in 1 .. i - 1 : /\ chunks'[r][j].doc = c.doc
                                                     /\ chunks'[r][j].from < c.from
                                                     /\ c.from <= chunks'[r][j].to
    BY <1>10, <1>13 DEF ChunkInv
  <2>1. CASE i \in 1 .. n
    <3>1. \A j \in 1 .. i - 1 : chunks'[r][j] = old[j]
      BY <1>3, <1>10, <2>1
    <3>2. chunks'[r][i] = old[i]
      BY <1>10, <2>1
    <3> QED BY <1>14, <2>1, <3>1, <3>2 DEF ChunkInv, old, n
  <2>2. CASE i = n + 1
    <3>1. new.doc = d /\ new.from = start /\ new.to = end /\ chunks'[r][i] = new
      BY <1>10, <2>2 DEF new
    <3>2. start = 0 \/ \E j \in 1 .. n : /\ old[j].doc = d
                                          /\ old[j].from < start /\ start <= old[j].to
      BY <1>14 DEF CursorInv, ChunksOf, d, start, old, n
    <3>3. i - 1 = n
      BY <1>3, <2>2
    <3> QED BY <1>4, <1>7, <1>10, <3>1, <3>2, <3>3
  <2>3. i \in 1 .. n \/ i = n + 1
    BY <1>3
  <2> QED BY <2>1, <2>2, <2>3
<1>17. CursorInv(r)'
  <2>1. new.doc = d /\ new.from = start /\ new.to = end /\ n + 1 \in 1 .. n + 1
    BY <1>3 DEF new
  <2>2. \E j \in ChunksOf(r, cursor[r].doc)' :
          chunks'[r][j].from < cursor'[r].start /\ cursor'[r].start <= chunks'[r][j].to
    <3>1. n + 1 \in ChunksOf(r, cursor[r].doc)'
      BY <1>10, <2>1 DEF ChunksOf
    <3> QED BY <1>8, <1>10, <2>1, <3>1
  <2>3. ASSUME NEW e \in 1 .. Len(corpus[r]), e < d, corpus[r][e].size > 0
        PROVE  Covered(r, e)'
    <3>1. PICK i \in ChunksOf(r, e) : old[i].to = corpus[r][e].size
      BY <1>14, <2>3 DEF CursorInv, Covered, d, old
    <3>2. i \in 1 .. n /\ i \in 1 .. n + 1 /\ chunks'[r][i] = old[i] /\ old[i].doc = e
      BY <1>3, <1>10, <3>1 DEF ChunksOf, n, old
    <3> QED BY <1>10, <1>13, <3>1, <3>2 DEF Covered, ChunksOf
  <2>4. cursor'[r].doc = d /\ stage'[r] = "chunk" /\ corpus' = corpus
    BY <1>4, <1>10, <1>13
  <2> QED BY <2>2, <2>3, <2>4 DEF CursorInv
<1> QED BY <1>11, <1>12, <1>15, <1>16, <1>17

-----------------------------------------------------------------------------
(* Steps that leave the documents and chunks alone. *)
LEMMA ChunksFrame ==
  ASSUME RagInv, UNCHANGED <<setting, corpus, cursor, chunks>>,
         \A q \in Ingestions : stage'[q] \in {"load", "loaded"} => stage[q] \in {"load", "loaded"}
  PROVE  \A q \in Ingestions : CursorInv(q)' /\ ChunkInv(q)'
<1> SUFFICES ASSUME NEW q \in Ingestions PROVE CursorInv(q)' /\ ChunkInv(q)'
  OBVIOUS
<1>1. CursorInv(q) /\ ChunkInv(q)
  BY DEF RagInv
<1>2. CursorInv(q)'
  BY <1>1 DEF CursorInv, ChunksOf, Covered
<1>3. ChunkInv(q)'
  BY <1>1 DEF ChunkInv
<1> QED BY <1>2, <1>3

(* Steps that leave the rows of the collection alone. *)
LEMMA RowsFrame ==
  ASSUME RagInv, UNCHANGED <<alone, overlaps>>,
         collection'.exists = collection.exists, collection'.rows = collection.rows,
         collection = Missing => collection' = Missing,
         collection.indexed => collection'.indexed,
         \A q \in Ingestions :
           \/ stage'[q] = stage[q] /\ chunks'[q] = chunks[q]
           \/ stage'[q] \notin Replacing \cup Inserted \cup After
           \/ /\ stage[q] \in Inserted \cup After /\ stage'[q] \in Inserted \cup After
              /\ chunks'[q] = chunks[q]
              /\ stage'[q] \in Indexed => stage[q] \in Indexed \/ collection'.indexed
  PROVE  StoreInv' /\ OverlapInv'
<1>1. StoreInv /\ OverlapInv
  BY DEF RagInv
<1>2. StoreInv'
  <2>1. ASSUME NEW q \in Ingestions, stage'[q] \in Replacing \cup Inserted \cup After
        PROVE  chunks'[q] # <<>>
    BY <1>1, <2>1 DEF StoreInv
  <2>2. ASSUME NEW q \in Ingestions, alone'[q]
        PROVE  /\ stage'[q] = "create" => collection' = Missing
               /\ stage'[q] = "insert" => collection'.exists /\ collection'.rows = {}
               /\ stage'[q] \in Inserted \cup After => collection'.exists /\ collection'.rows = Own(q)'
               /\ stage'[q] \in Indexed => collection'.indexed
    BY <1>1, <2>2 DEF StoreInv, Own, Replacing, Inserted, Indexed, After
  <2> QED BY <1>1, <2>1, <2>2 DEF StoreInv
<1>3. OverlapInv'
  BY <1>1 DEF OverlapInv, MixedOnlyByOverlap, Replacing, Inserted, After
<1> QED BY <1>2, <1>3

LEMMA FaultType ==
  ASSUME RagAssumption, RagTypeOK, Fault
  PROVE  ragFaults' \in 0 .. MaxRagFaults
<1>1. MaxRagFaults \in Nat
  BY DEF RagAssumption
<1> QED BY <1>1 DEF Fault, RagTypeOK

(* The stage of one run changes. *)
LEMMA StageMoves ==
  ASSUME RagTypeOK, NEW r \in Ingestions, NEW to \in Stages, stage' = [stage EXCEPT ![r] = to]
  PROVE  /\ stage' \in [Ingestions -> Stages]
         /\ stage'[r] = to
         /\ \A q \in Ingestions \ {r} : stage'[q] = stage[q]
BY DEF RagTypeOK

(* Steps that report nothing and add no rows. *)
LEMMA TraceFrame ==
  ASSUME RagInv, UNCHANGED reported, collection'.rows \subseteq collection.rows,
         \A q \in Ingestions :
           \/ stage'[q] = stage[q]
           \/ stage'[q] \in {"failed", "loaded"}
           \/ stage[q] = "chunk" /\ stage'[q] = "chunked"
           \/ stage[q] = "embed" /\ stage'[q] = "embedded"
           \/ stage[q] \in {"look"} \cup Replacing \cup Inserted /\ stage'[q] \in Replacing \cup Inserted
           \/ stage[q] = "infer" /\ stage'[q] = "inferred"
  PROVE  TraceInv'
<1>1. TraceInv
  BY DEF RagInv
<1>2. RowsAreTraced'
  BY <1>1 DEF TraceInv, RowsAreTraced
<1>3. ASSUME NEW q \in Ingestions
      PROVE  /\ stage'[q] \notin {"load", "loaded"} => Posted(q, "load")'
             /\ stage'[q] \notin {"load", "loaded", "chunk", "chunked"} => Posted(q, "chunk")'
             /\ stage'[q] \in {"look"} \cup Replacing \cup Inserted \cup After => Posted(q, "embed")'
             /\ stage'[q] \in After => Posted(q, "store")'
  BY <1>1 DEF TraceInv, Posted, Replacing, Inserted, After
<1> QED BY <1>2, <1>3 DEF TraceInv

-----------------------------------------------------------------------------
LEMMA FailureInv ==
  ASSUME RagAssumption, RagInv, NEW r \in Ingestions, PodFails(r) \/ CallRefused(r)
  PROVE  RagInv'
<1>1. /\ stage' = [stage EXCEPT ![r] = "failed"]
      /\ UNCHANGED <<setting, corpus, cursor, chunks, collection, reported, alone, overlaps>>
      /\ Fault \/ UNCHANGED ragFaults
  BY DEF PodFails, CallRefused, Fails
<1>2. RagTypeOK /\ ragFaults' \in 0 .. MaxRagFaults
  BY <1>1, FaultType DEF RagInv, RagTypeOK
<1>3. /\ stage' \in [Ingestions -> Stages] /\ stage'[r] = "failed"
      /\ \A q \in Ingestions \ {r} : stage'[q] = stage[q]
  BY <1>1, <1>2, StageMoves DEF Stages
<1>4. RagTypeOK'
  BY <1>1, <1>2, <1>3 DEF RagTypeOK
<1>5. \A q \in Ingestions : CursorInv(q)' /\ ChunkInv(q)'
  BY <1>1, <1>3, ChunksFrame
<1>6. StoreInv' /\ OverlapInv'
  BY <1>1, <1>3, RowsFrame DEF Replacing, Inserted, Indexed, After
<1>7. TraceInv'
  BY <1>1, <1>3, TraceFrame
<1> QED BY <1>4, <1>5, <1>6, <1>7 DEF RagInv

LEMMA LoadDocumentsInv ==
  ASSUME RagAssumption, RagInv, NEW r \in Ingestions, LoadDocuments(r)
  PROVE  RagInv'
<1>1. /\ stage[r] = "load" /\ stage' = [stage EXCEPT ![r] = "loaded"]
      /\ UNCHANGED <<setting, cursor, chunks, collection, reported, alone, overlaps, ragFaults>>
  BY DEF LoadDocuments, Move
<1>2. PICK found \in Corpora : corpus' = [corpus EXCEPT ![r] = found]
  BY DEF LoadDocuments
<1>3. RagTypeOK
  BY DEF RagInv
<1>4. /\ stage' \in [Ingestions -> Stages] /\ stage'[r] = "loaded"
      /\ \A q \in Ingestions \ {r} : stage'[q] = stage[q] /\ corpus'[q] = corpus[q]
  BY <1>1, <1>2, <1>3, StageMoves DEF Stages, RagTypeOK
<1>5. RagTypeOK'
  BY <1>1, <1>2, <1>3, <1>4 DEF RagTypeOK
<1>6. ASSUME NEW q \in Ingestions PROVE CursorInv(q)' /\ ChunkInv(q)'
  <2>1. CursorInv(q) /\ ChunkInv(q)
    BY DEF RagInv
  <2>2. CASE q = r
    <3>1. chunks'[r] = <<>> /\ cursor'[r] = [doc |-> 1, start |-> 0] /\ Len(chunks'[r]) = 0
      BY <1>1, <2>1, <2>2 DEF CursorInv
    <3>2. Len(corpus'[r]) \in Nat
      <4>1. found \in Corpora /\ corpus'[r] = found
        BY <1>2, <1>3 DEF RagTypeOK
      <4>2. Corpora \subseteq Seq(Document)
        BY DEF RagAssumption
      <4> QED BY <4>1, <4>2
    <3> QED BY <2>2, <3>1, <3>2 DEF CursorInv, ChunkInv
  <2>3. CASE q # r
    <3>1. stage'[q] = stage[q] /\ corpus'[q] = corpus[q]
      BY <1>4, <2>3
    <3>2. CursorInv(q)'
      BY <1>1, <2>1, <3>1 DEF CursorInv, ChunksOf, Covered
    <3>3. ChunkInv(q)'
      BY <1>1, <2>1, <3>1 DEF ChunkInv
    <3> QED BY <3>2, <3>3
  <2> QED BY <2>2, <2>3
<1>7. StoreInv' /\ OverlapInv'
  BY <1>1, <1>4, RowsFrame DEF Replacing, Inserted, Indexed, After
<1>8. TraceInv'
  BY <1>1, <1>4, TraceFrame
<1> QED BY <1>5, <1>6, <1>7, <1>8 DEF RagInv

LEMMA ChunkingInv ==
  ASSUME RagAssumption, RagInv, NEW r \in Ingestions, CutChunk(r) \/ NextDocument(r)
  PROVE  RagInv'
<1>1. /\ UNCHANGED <<stage, setting, corpus, collection, reported, alone, overlaps, ragFaults>>
      /\ stage[r] = "chunk"
      /\ RagTypeOK /\ CursorInv(r) /\ ChunkInv(r)
  BY DEF CutChunk, NextDocument, RagInv
<1>2. /\ chunks' \in [Ingestions -> Seq(Chunk)]
      /\ cursor' \in [Ingestions -> [doc : Nat \ {0}, start : Nat]]
      /\ \A q \in Ingestions : CursorInv(q)' /\ ChunkInv(q)'
      /\ \A q \in Ingestions \ {r} : chunks'[q] = chunks[q]
  <2>1. CASE CutChunk(r)
    <3>1. \A q \in Ingestions \ {r} : chunks'[q] = chunks[q]
      BY <1>1, <2>1 DEF CutChunk, RagTypeOK
    <3> QED BY <2>1, <3>1, CutChunkInv
  <2>2. CASE NextDocument(r)
    <3>1. chunks' = chunks /\ cursor' = [cursor EXCEPT ![r] = [doc |-> cursor[r].doc + 1, start |-> 0]]
      BY <2>2 DEF NextDocument
    <3>2. cursor[r].doc \in Nat \ {0} /\ cursor[r].start \in Nat
      BY <1>1 DEF RagTypeOK
    <3>3. /\ cursor' \in [Ingestions -> [doc : Nat \ {0}, start : Nat]]
          /\ cursor'[r] = [doc |-> cursor[r].doc + 1, start |-> 0]
          /\ \A q \in Ingestions \ {r} : cursor'[q] = cursor[q]
      BY <1>1, <3>1, <3>2 DEF RagTypeOK
    <3>4. ASSUME NEW q \in Ingestions PROVE ChunkInv(q)'
      BY <1>1, <3>1 DEF ChunkInv, RagInv
    <3>5. ASSUME NEW q \in Ingestions \ {r} PROVE CursorInv(q)'
      BY <1>1, <3>1, <3>3, <3>5 DEF CursorInv, RagInv, ChunksOf, Covered
    <3>6. corpus[r][cursor[r].doc].size > 0 => Covered(r, cursor[r].doc)
      <4> SUFFICES ASSUME corpus[r][cursor[r].doc].size > 0 PROVE Covered(r, cursor[r].doc)
        OBVIOUS
      <4>1. cursor[r].start >= corpus[r][cursor[r].doc].size /\ cursor[r].doc <= Len(corpus[r])
        BY <2>2 DEF NextDocument, Text
      <4>2. cursor[r].doc \in 1 .. Len(corpus[r])
        BY <1>1, <3>2, <4>1, CorpusType
      <4>3. corpus[r][cursor[r].doc].size \in Nat
        BY <1>1, <4>2, TextType DEF Document
      <4>4. PICK j \in ChunksOf(r, cursor[r].doc) : cursor[r].start <= chunks[r][j].to
        BY <1>1, <3>2, <4>1, <4>3 DEF CursorInv
      <4>5. /\ chunks[r][j].to \in Nat /\ chunks[r][j].to <= corpus[r][cursor[r].doc].size
        <5>1. chunks[r] \in Seq(Chunk) /\ j \in 1 .. Len(chunks[r]) /\ chunks[r][j].doc = cursor[r].doc
          BY <1>1, <4>4 DEF ChunksOf, RagTypeOK
        <5>2. chunks[r][j] \in Chunk
          BY <5>1
        <5> QED BY <1>1, <5>1, <5>2 DEF ChunkInv, Chunk
      <4> QED BY <3>2, <4>1, <4>3, <4>4, <4>5 DEF Covered
    <3>7. CursorInv(r)'
      <4> SUFFICES ASSUME NEW d \in 1 .. Len(corpus[r]), d < cursor[r].doc + 1, corpus[r][d].size > 0
          PROVE Covered(r, d)'
        BY <1>1, <3>1, <3>3 DEF CursorInv
      <4>1. d < cursor[r].doc \/ d = cursor[r].doc
        BY <3>2
      <4>2. Covered(r, d)
        BY <1>1, <3>6, <4>1 DEF CursorInv
      <4> QED BY <1>1, <3>1, <4>2 DEF Covered, ChunksOf
    <3> QED BY <1>1, <3>1, <3>3, <3>4, <3>5, <3>7 DEF RagTypeOK
  <2> QED BY <2>1, <2>2
<1>3. RagTypeOK'
  BY <1>1, <1>2 DEF RagTypeOK
<1>4. StoreInv' /\ OverlapInv'
  BY <1>1, <1>2, RowsFrame DEF Replacing, Inserted, Indexed, After
<1>5. TraceInv'
  BY <1>1, TraceFrame
<1> QED BY <1>2, <1>3, <1>4, <1>5 DEF RagInv

(* ChunksDone, Embed, TestInference: only the stage changes. *)
LEMMA QuietMoveInv ==
  ASSUME RagAssumption, RagInv, NEW r \in Ingestions,
         ChunksDone(r) \/ Embed(r) \/ TestInference(r)
  PROVE  RagInv'
<1>1. /\ UNCHANGED <<setting, corpus, cursor, chunks, collection, reported, alone, overlaps, ragFaults>>
      /\ \/ stage[r] = "chunk" /\ stage' = [stage EXCEPT ![r] = "chunked"]
         \/ stage[r] = "embed" /\ stage' = [stage EXCEPT ![r] = "embedded"]
         \/ stage[r] = "embed" /\ stage' = [stage EXCEPT ![r] = "failed"]
         \/ stage[r] = "infer" /\ stage' = [stage EXCEPT ![r] = "inferred"]
  BY DEF ChunksDone, Embed, TestInference, Move
<1>2. RagTypeOK
  BY DEF RagInv
<1>3. /\ stage' \in [Ingestions -> Stages]
      /\ \A q \in Ingestions \ {r} : stage'[q] = stage[q]
      /\ \/ stage[r] = "chunk" /\ stage'[r] = "chunked"
         \/ stage[r] = "embed" /\ stage'[r] \in {"embedded", "failed"}
         \/ stage[r] = "infer" /\ stage'[r] = "inferred"
  BY <1>1, <1>2 DEF Stages, RagTypeOK, After
<1>4. RagTypeOK'
  BY <1>1, <1>2, <1>3 DEF RagTypeOK
<1>5. \A q \in Ingestions : CursorInv(q)' /\ ChunkInv(q)'
  BY <1>1, <1>3, ChunksFrame
<1>6. StoreInv' /\ OverlapInv'
  BY <1>1, <1>3, RowsFrame DEF Replacing, Inserted, Indexed, After
<1>7. TraceInv'
  BY <1>1, <1>3, TraceFrame
<1> QED BY <1>4, <1>5, <1>6, <1>7 DEF RagInv

LEMMA ReportInv ==
  ASSUME RagAssumption, RagInv, NEW r \in Ingestions, ReportStep(r)
  PROVE  RagInv'
<1>1. RagTypeOK /\ TraceInv
  BY DEF RagInv
<1>2. PICK k \in 1 .. 5 :
        \E at \in Stages, next \in Stages :
          /\ Report(r, at, Steps[k], next)
          /\ \/ k = 1 /\ at = "loaded" /\ next = "chunk"
             \/ k = 2 /\ at = "chunked" /\ next = "embed"
             \/ k = 3 /\ at = "embedded" /\ next = "look"
             \/ k = 4 /\ at = "stored" /\ next = "infer"
             \/ k = 5 /\ at = "inferred" /\ next = "done"
  <2>1. /\ {"loaded", "chunk", "chunked", "embed", "embedded", "look", "stored", "infer", "inferred", "done"}
             \subseteq Stages
        /\ Steps[1] = "load" /\ Steps[2] = "chunk" /\ Steps[3] = "embed"
        /\ Steps[4] = "store" /\ Steps[5] = "infer"
    BY DEF Stages, Steps, Inserted, After
  <2>2. CASE Report(r, "loaded", "load", "chunk")
    BY <2>1, <2>2
  <2>3. CASE Report(r, "chunked", "chunk", "embed")
    BY <2>1, <2>3
  <2>4. CASE Report(r, "embedded", "embed", "look")
    BY <2>1, <2>4
  <2>5. CASE Report(r, "stored", "store", "infer")
    BY <2>1, <2>5
  <2>6. CASE Report(r, "inferred", "infer", "done")
    BY <2>1, <2>6
  <2> QED BY <2>2, <2>3, <2>4, <2>5, <2>6 DEF ReportStep
<1>3. PICK at \in Stages, next \in Stages :
        /\ Report(r, at, Steps[k], next)
        /\ \/ k = 1 /\ at = "loaded" /\ next = "chunk"
           \/ k = 2 /\ at = "chunked" /\ next = "embed"
           \/ k = 3 /\ at = "embedded" /\ next = "look"
           \/ k = 4 /\ at = "stored" /\ next = "infer"
           \/ k = 5 /\ at = "inferred" /\ next = "done"
  BY <1>2
<1>4. /\ stage[r] = at
      /\ \/ /\ stage' = [stage EXCEPT ![r] = next]
            /\ reported' = reported \cup {<<r, Steps[k]>>}
            /\ UNCHANGED ragFaults
         \/ /\ stage' = [stage EXCEPT ![r] = "failed"]
            /\ reported' \in {reported, reported \cup {<<r, Steps[k]>>}}
            /\ Fault
  BY <1>3 DEF Report, Move, Fails
<1>5. UNCHANGED <<setting, corpus, cursor, chunks, collection, alone, overlaps>>
  BY <1>3 DEF Report
<1> DEFINE to == stage'[r]
<1>6. /\ stage' \in [Ingestions -> Stages]
      /\ (to = next /\ reported' = reported \cup {<<r, Steps[k]>>}) \/ to = "failed"
      /\ \A q \in Ingestions \ {r} : stage'[q] = stage[q]
  <2>1. "failed" \in Stages
    BY DEF Stages
  <2> QED BY <1>1, <1>4, <2>1, StageMoves
<1> HIDE DEF to
<1>7. RagTypeOK'
  <2>1. ragFaults' \in 0 .. MaxRagFaults
    BY <1>1, <1>4, FaultType DEF RagTypeOK
  <2>2. reported' \subseteq Ingestions \X {Steps[n] : n \in 1 .. 5}
    BY <1>1, <1>4 DEF RagTypeOK
  <2> QED BY <1>1, <1>5, <1>6, <2>1, <2>2 DEF RagTypeOK
<1>8. \A q \in Ingestions : CursorInv(q)' /\ ChunkInv(q)'
  BY <1>3, <1>4, <1>5, <1>6, ChunksFrame DEF to
<1>9. StoreInv' /\ OverlapInv'
  BY <1>3, <1>4, <1>5, <1>6, RowsFrame DEF Replacing, Inserted, Indexed, After, to
<1>10. TraceInv'
  <2>1. Steps = <<"load", "chunk", "embed", "store", "infer">>
    BY DEF Steps
  <2>2. k \in 2 .. 5 => <<r, Steps[k - 1]>> \in reported
    <3>1. \/ k = 1
          \/ k = 2 /\ stage[r] = "chunked" /\ Steps[k - 1] = "load"
          \/ k = 3 /\ stage[r] = "embedded" /\ Steps[k - 1] = "chunk"
          \/ k = 4 /\ stage[r] = "stored" /\ Steps[k - 1] = "embed"
          \/ k = 5 /\ stage[r] = "inferred" /\ Steps[k - 1] = "store"
      BY <1>3, <1>4, <2>1
    <3>2. /\ stage[r] = "chunked" => <<r, "load">> \in reported
          /\ stage[r] = "embedded" => <<r, "chunk">> \in reported
          /\ stage[r] = "stored" => <<r, "embed">> \in reported
          /\ stage[r] = "inferred" => <<r, "store">> \in reported
      BY <1>1 DEF TraceInv, Posted, Inserted, After
    <3> QED BY <3>1, <3>2
  <2>3. reported \subseteq reported'
    BY <1>4
  <2>4. RowsAreTraced'
    <3>1. \A row \in collection.rows, n \in 1 .. 3 : <<row[1], Steps[n]>> \in reported
      BY <1>1 DEF TraceInv, RowsAreTraced
    <3>2. ASSUME NEW q \in Ingestions, NEW n \in 2 .. 5, <<q, Steps[n]>> \in reported'
          PROVE  <<q, Steps[n - 1]>> \in reported'
      <4>1. CASE <<q, Steps[n]>> \in reported
        BY <1>1, <2>3, <4>1 DEF TraceInv, RowsAreTraced
      <4>2. CASE <<q, Steps[n]>> = <<r, Steps[k]>>
        <5>1. q = r /\ Steps[n] = Steps[k]
          BY <4>2
        <5>2. n = k
          BY <2>1, <5>1
        <5> QED BY <2>2, <2>3, <5>1, <5>2
      <4> QED BY <1>4, <3>2, <4>1, <4>2
    <3> QED BY <1>5, <2>3, <3>1, <3>2 DEF RowsAreTraced
  <2>5. ASSUME NEW q \in Ingestions
        PROVE  /\ stage'[q] \notin {"load", "loaded"} => Posted(q, "load")'
               /\ stage'[q] \notin {"load", "loaded", "chunk", "chunked"} => Posted(q, "chunk")'
               /\ stage'[q] \in {"look"} \cup Replacing \cup Inserted \cup After => Posted(q, "embed")'
               /\ stage'[q] \in After => Posted(q, "store")'
    <3>1. CASE q # r
      BY <1>1, <1>6, <2>3, <3>1 DEF TraceInv, Posted
    <3>2. CASE q = r /\ to = "failed"
      BY <3>2 DEF Posted, to
    <3>3. CASE q = r /\ to # "failed"
      <4>1. stage'[r] = next /\ stage[r] = at /\ reported' = reported \cup {<<r, Steps[k]>>}
        BY <1>4, <1>6, <3>3 DEF to
      <4>2. \/ Steps[k] = "load" /\ stage[r] = "loaded" /\ stage'[r] = "chunk"
            \/ Steps[k] = "chunk" /\ stage[r] = "chunked" /\ stage'[r] = "embed"
            \/ Steps[k] = "embed" /\ stage[r] = "embedded" /\ stage'[r] = "look"
            \/ Steps[k] = "store" /\ stage[r] = "stored" /\ stage'[r] = "infer"
            \/ Steps[k] = "infer" /\ stage[r] = "inferred" /\ stage'[r] = "done"
        BY <1>3, <2>1, <4>1 DEF to
      <4>3. <<r, Steps[k]>> \in reported'
        BY <4>1
      <4> QED BY <1>1, <2>3, <3>3, <4>2, <4>3 DEF TraceInv, Posted, Replacing, Inserted, After
    <3> QED BY <3>1, <3>2, <3>3
  <2> QED BY <2>4, <2>5 DEF TraceInv
<1> QED BY <1>7, <1>8, <1>9, <1>10 DEF RagInv

(* CreateIndex, LoadRows, CountRows, and the load() of a query. *)
LEMMA FlagsInv ==
  ASSUME RagAssumption, RagInv, UNCHANGED <<setting, corpus, cursor, chunks, reported, alone, overlaps>>,
         collection.exists,
         collection' \in {collection, [collection EXCEPT !.indexed = TRUE], [collection EXCEPT !.loaded = TRUE]},
         \/ UNCHANGED stage
         \/ \E r \in Ingestions, to \in Inserted \cup {"failed"} :
              /\ stage[r] \in Inserted /\ stage' = [stage EXCEPT ![r] = to]
              /\ stage[r] \in Indexed \/ to = "failed" \/ collection'.indexed,
         UNCHANGED ragFaults \/ Fault
  PROVE  RagInv'
<1>1. RagTypeOK
  BY DEF RagInv
<1>2. /\ stage' \in [Ingestions -> Stages]
      /\ \A q \in Ingestions : \/ stage'[q] = stage[q]
                               \/ /\ stage[q] \in Inserted /\ stage'[q] \in Inserted \cup {"failed"}
                                  /\ stage[q] \in Indexed \/ stage'[q] = "failed" \/ collection'.indexed
  <2>1. CASE UNCHANGED stage
    BY <1>1, <2>1 DEF RagTypeOK
  <2>2. CASE \E r \in Ingestions, to \in Inserted \cup {"failed"} :
               /\ stage[r] \in Inserted /\ stage' = [stage EXCEPT ![r] = to]
               /\ stage[r] \in Indexed \/ to = "failed" \/ collection'.indexed
    <3>1. PICK r \in Ingestions, to \in Inserted \cup {"failed"} :
            /\ stage[r] \in Inserted /\ stage' = [stage EXCEPT ![r] = to]
            /\ stage[r] \in Indexed \/ to = "failed" \/ collection'.indexed
      BY <2>2
    <3>2. to \in Stages
      BY DEF Stages
    <3> QED BY <1>1, <3>1, <3>2, StageMoves
  <2> QED BY <2>1, <2>2
<1>3. /\ collection'.exists = collection.exists /\ collection'.rows = collection.rows
      /\ collection.indexed => collection'.indexed
      /\ collection'.indexed \in BOOLEAN /\ collection'.loaded \in BOOLEAN
      /\ collection' \in [exists : BOOLEAN, indexed : BOOLEAN, loaded : BOOLEAN,
                           rows : SUBSET (Ingestions \X (Nat \ {0}))]
  BY <1>1 DEF RagTypeOK
<1>4. RagTypeOK'
  <2>1. ragFaults' \in 0 .. MaxRagFaults
    BY <1>1, FaultType DEF RagTypeOK
  <2> QED BY <1>1, <1>2, <1>3, <2>1 DEF RagTypeOK
<1>5. \A q \in Ingestions : CursorInv(q)' /\ ChunkInv(q)'
  BY <1>2, ChunksFrame DEF Inserted
<1>6. StoreInv' /\ OverlapInv'
  <2>1. collection # Missing
    BY DEF Missing
  <2> QED BY <1>2, <1>3, <2>1, RowsFrame DEF Replacing, Inserted, Indexed, After
<1>7. TraceInv'
  BY <1>2, <1>3, TraceFrame
<1> QED BY <1>4, <1>5, <1>6, <1>7 DEF RagInv

LEMMA IndexSet ==
  ASSUME RagTypeOK
  PROVE  [collection EXCEPT !.indexed = TRUE].indexed
BY DEF RagTypeOK

LEMMA FlagCallsInv ==
  ASSUME RagAssumption, RagInv, NEW r \in Ingestions, CreateIndex(r) \/ LoadRows(r) \/ CountRows(r)
  PROVE  RagInv'
<1>1. CASE CreateIndex(r)
  <2>1. /\ collection.exists /\ stage[r] = "index"
        /\ UNCHANGED <<setting, corpus, cursor, chunks, reported, alone, overlaps>>
        /\ collection' \in {collection, [collection EXCEPT !.indexed = TRUE]}
        /\ \/ /\ collection' = [collection EXCEPT !.indexed = TRUE]
              /\ stage' = [stage EXCEPT ![r] = "load rows"] /\ UNCHANGED ragFaults
           \/ stage' = [stage EXCEPT ![r] = "failed"] /\ Fault
    BY <1>1 DEF CreateIndex, Call, Move, Fails
  <2>2. \E to \in Inserted \cup {"failed"} :
          /\ stage' = [stage EXCEPT ![r] = to]
          /\ to = "failed" \/ collection'.indexed
    BY <2>1, IndexSet DEF RagInv, Inserted
  <2>3. "index" \in Inserted
    BY DEF Inserted
  <2> QED BY <2>1, <2>2, <2>3, FlagsInv
<1>2. CASE LoadRows(r)
  BY <1>2, FlagsInv DEF LoadRows, Call, Move, Fails, Inserted, Indexed
<1>3. CASE CountRows(r)
  BY <1>3, FlagsInv DEF CountRows, Call, Move, Fails, Inserted, Indexed
<1> QED BY <1>1, <1>2, <1>3

-----------------------------------------------------------------------------
LEMMA LookForCollectionInv ==
  ASSUME RagAssumption, RagInv, NEW r \in Ingestions, LookForCollection(r)
  PROVE  RagInv'
<1>1. RagTypeOK /\ StoreInv /\ OverlapInv
  BY DEF RagInv
<1>2. UNCHANGED <<setting, corpus, cursor, chunks, collection, reported, ragFaults>> /\ stage[r] = "look"
  BY DEF LookForCollection, Move
<1>3. CASE chunks[r] = <<>> /\ Move(r, "look", "failed") /\ UNCHANGED <<alone, overlaps>>
  <2>1. /\ stage' \in [Ingestions -> Stages] /\ stage'[r] = "failed"
        /\ \A q \in Ingestions \ {r} : stage'[q] = stage[q]
    BY <1>1, <1>3, StageMoves DEF Move, Stages
  <2>2. RagTypeOK'
    BY <1>1, <1>2, <1>3, <2>1 DEF RagTypeOK
  <2>3. \A q \in Ingestions : CursorInv(q)' /\ ChunkInv(q)'
    BY <1>2, <2>1, ChunksFrame
  <2>4. StoreInv' /\ OverlapInv'
    BY <1>2, <1>3, <2>1, RowsFrame DEF Replacing, Inserted, Indexed, After
  <2>5. TraceInv'
    BY <1>2, <2>1, TraceFrame
  <2> QED BY <2>2, <2>3, <2>4, <2>5 DEF RagInv
<1>4. CASE /\ chunks[r] # <<>>
           /\ Move(r, "look", IF collection.exists THEN "drop" ELSE "create")
           /\ alone' = [alone EXCEPT ![r] = TRUE]
           /\ overlaps' = overlaps \cup {{r, q} : q \in {s \in Ingestions : stage[s] \in Replacing}}
  <2>1. /\ stage' \in [Ingestions -> Stages]
        /\ stage'[r] = IF collection.exists THEN "drop" ELSE "create"
        /\ \A q \in Ingestions \ {r} : stage'[q] = stage[q]
    BY <1>1, <1>4, StageMoves DEF Move, Stages, Replacing
  <2>2. /\ alone' \in [Ingestions -> BOOLEAN]
        /\ \A q \in Ingestions \ {r} : alone'[q] = alone[q]
    BY <1>1, <1>4 DEF RagTypeOK
  <2>3. RagTypeOK'
    <3>1. overlaps' \subseteq SUBSET Ingestions
      <4>1. \A q \in Ingestions : {r, q} \in SUBSET Ingestions
        OBVIOUS
      <4>2. {{r, q} : q \in {s \in Ingestions : stage[s] \in Replacing}} \subseteq SUBSET Ingestions
        BY <4>1
      <4> QED BY <1>1, <1>4, <4>2 DEF RagTypeOK
    <3> QED BY <1>1, <1>2, <2>1, <2>2, <3>1 DEF RagTypeOK
  <2>4. \A q \in Ingestions : CursorInv(q)' /\ ChunkInv(q)'
    BY <1>2, <2>1, ChunksFrame
  <2>5. ~collection.exists => collection = Missing
    BY <1>1 DEF StoreInv
  <2>6. StoreInv'
    <3>1. ASSUME NEW q \in Ingestions PROVE
             /\ stage'[q] \in Replacing \cup Inserted \cup After => chunks'[q] # <<>>
             /\ alone'[q] =>
                  /\ stage'[q] = "create" => collection' = Missing
                  /\ stage'[q] = "insert" => collection'.exists /\ collection'.rows = {}
                  /\ stage'[q] \in Inserted \cup After => collection'.exists /\ collection'.rows = Own(q)'
                  /\ stage'[q] \in Indexed => collection'.indexed
      <4>1. CASE q = r
        BY <1>2, <1>4, <2>1, <2>5, <4>1 DEF Inserted, Indexed, After
      <4>2. CASE q # r
        BY <1>1, <1>2, <2>1, <2>2, <4>2 DEF StoreInv, Own
      <4> QED BY <4>1, <4>2
    <3> QED BY <1>1, <1>2, <2>5, <3>1 DEF StoreInv
  <2>7. OverlapInv'
    <3>1. ASSUME NEW q \in Ingestions, q # r, stage[q] \in Replacing PROVE {r, q} \in overlaps' /\ {q, r} \in overlaps'
      <4>1. {r, q} \in overlaps'
        BY <1>4, <3>1
      <4> QED BY <4>1
    <3>2. overlaps \subseteq overlaps'
      BY <1>4
    <3>3. ASSUME NEW p \in Ingestions, NEW q \in Ingestions, p # q,
                 stage'[p] \in Replacing, stage'[q] \in Replacing
          PROVE  {p, q} \in overlaps'
      BY <1>1, <2>1, <3>1, <3>2, <3>3 DEF OverlapInv
    <3>4. ASSUME NEW row \in collection.rows, NEW q \in Ingestions,
                 row[1] # q, stage'[q] \in {"create", "insert"}
          PROVE  {row[1], q} \in overlaps'
      BY <1>1, <2>1, <2>5, <3>2, <3>4 DEF OverlapInv, Missing
    <3>5. MixedOnlyByOverlap'
      BY <1>1, <1>2, <3>2 DEF OverlapInv, MixedOnlyByOverlap
    <3> QED BY <1>2, <3>3, <3>4, <3>5 DEF OverlapInv
  <2>8. TraceInv'
    BY <1>2, <2>1, TraceFrame DEF Replacing
  <2> QED BY <2>3, <2>4, <2>6, <2>7, <2>8 DEF RagInv
<1> QED BY <1>2, <1>3, <1>4 DEF LookForCollection

(* What drop, create and insert have in common. *)
LEMMA ReplacingCall ==
  ASSUME RagAssumption, RagTypeOK, NEW r \in Ingestions,
         NEW at \in Replacing, NEW next \in Replacing \cup Inserted, NEW effect,
         effect \in [exists : BOOLEAN, indexed : BOOLEAN, loaded : BOOLEAN,
                     rows : SUBSET (Ingestions \X (Nat \ {0}))],
         Call(r, at, next, effect), Disturb(r)
  PROVE  /\ RagTypeOK'
         /\ UNCHANGED <<setting, corpus, cursor, chunks, reported, overlaps>>
         /\ stage[r] = at
         /\ \/ stage'[r] = next /\ collection' = effect
            \/ stage'[r] = "failed" /\ collection' \in {collection, effect}
         /\ \A q \in Ingestions \ {r} : stage'[q] = stage[q] /\ ~alone'[q]
         /\ alone'[r] = alone[r]
<1>1. /\ stage[r] = at
      /\ \/ stage' = [stage EXCEPT ![r] = next] /\ collection' = effect /\ UNCHANGED ragFaults
         \/ stage' = [stage EXCEPT ![r] = "failed"] /\ collection' \in {collection, effect} /\ Fault
      /\ UNCHANGED <<setting, corpus, cursor, chunks, reported, overlaps>>
  BY DEF Call, Move, Fails
<1>2. /\ stage' \in [Ingestions -> Stages]
      /\ \/ stage'[r] = next /\ collection' = effect
         \/ stage'[r] = "failed" /\ collection' \in {collection, effect}
      /\ \A q \in Ingestions \ {r} : stage'[q] = stage[q]
  <2>1. next \in Stages /\ "failed" \in Stages
    BY DEF Stages
  <2> QED BY <1>1, <2>1, StageMoves
<1>3. /\ alone' \in [Ingestions -> BOOLEAN]
      /\ \A q \in Ingestions \ {r} : ~alone'[q]
      /\ alone'[r] = alone[r]
  BY DEF Disturb, RagTypeOK
<1>4. ragFaults' \in 0 .. MaxRagFaults
  BY <1>1, FaultType DEF RagTypeOK
<1>5. collection' \in [exists : BOOLEAN, indexed : BOOLEAN, loaded : BOOLEAN,
                       rows : SUBSET (Ingestions \X (Nat \ {0}))]
  BY <1>2 DEF RagTypeOK
<1>6. RagTypeOK'
  BY <1>1, <1>2, <1>3, <1>4, <1>5 DEF RagTypeOK
<1> QED BY <1>1, <1>2, <1>3, <1>6

LEMMA DropCollectionInv ==
  ASSUME RagAssumption, RagInv, NEW r \in Ingestions, DropCollection(r)
  PROVE  RagInv'
<1> DEFINE effect == Missing
<1>1. RagTypeOK /\ StoreInv /\ OverlapInv
  BY DEF RagInv
<1>2. Call(r, "drop", "create", effect) /\ Disturb(r)
  BY DEF DropCollection
<1>3. effect \in [exists : BOOLEAN, indexed : BOOLEAN, loaded : BOOLEAN,
                  rows : SUBSET (Ingestions \X (Nat \ {0}))]
  BY <1>1 DEF RagTypeOK, Missing
<1>4. "drop" \in Replacing /\ "create" \in Replacing \cup Inserted
  BY DEF Replacing, Inserted
<1> HIDE DEF effect
<1>5. /\ RagTypeOK'
      /\ UNCHANGED <<setting, corpus, cursor, chunks, reported, overlaps>>
      /\ stage[r] = "drop"
      /\ \/ stage'[r] = "create" /\ collection' = effect
         \/ stage'[r] = "failed" /\ collection' \in {collection, effect}
      /\ \A q \in Ingestions \ {r} : stage'[q] = stage[q] /\ ~alone'[q]
      /\ alone'[r] = alone[r]
  BY <1>1, <1>2, <1>3, <1>4, ReplacingCall
<1>6. \A q \in Ingestions : CursorInv(q)' /\ ChunkInv(q)'
  BY <1>5, ChunksFrame
<1>7. collection' \in {collection, Missing} /\ (stage'[r] = "create" => collection' = Missing)
  BY <1>5 DEF effect
<1>8. StoreInv'
  <2>1. ASSUME NEW q \in Ingestions PROVE
          /\ stage'[q] \in Replacing \cup Inserted \cup After => chunks'[q] # <<>>
          /\ alone'[q] =>
               /\ stage'[q] = "create" => collection' = Missing
               /\ stage'[q] = "insert" => collection'.exists /\ collection'.rows = {}
               /\ stage'[q] \in Inserted \cup After => collection'.exists /\ collection'.rows = Own(q)'
               /\ stage'[q] \in Indexed => collection'.indexed
    <3>1. CASE q = r
      BY <1>1, <1>5, <1>7, <3>1 DEF StoreInv, Replacing, Inserted, Indexed, After
    <3>2. CASE q # r
      BY <1>1, <1>5, <3>2 DEF StoreInv
    <3> QED BY <3>1, <3>2
  <2> QED BY <1>1, <1>7, <2>1 DEF StoreInv
<1>9. OverlapInv'
  <2>1. collection'.rows \subseteq collection.rows
    BY <1>7 DEF Missing
  <2>2. \A p, q \in Ingestions :
          p # q /\ stage'[p] \in Replacing /\ stage'[q] \in Replacing => {p, q} \in overlaps'
    BY <1>1, <1>5 DEF OverlapInv, Replacing
  <2>3. ASSUME NEW row \in collection'.rows, NEW q \in Ingestions,
               row[1] # q, stage'[q] \in {"create", "insert"}
        PROVE  {row[1], q} \in overlaps'
    <3>1. q # r
      BY <1>5, <1>7, <2>3 DEF Missing
    <3> QED BY <1>1, <1>5, <2>1, <2>3, <3>1 DEF OverlapInv
  <2>4. MixedOnlyByOverlap'
    BY <1>1, <1>5, <2>1 DEF OverlapInv, MixedOnlyByOverlap
  <2> QED BY <2>2, <2>3, <2>4 DEF OverlapInv
<1>10. TraceInv'
  BY <1>5, <1>7, TraceFrame DEF Replacing, Missing
<1> QED BY <1>5, <1>6, <1>8, <1>9, <1>10 DEF RagInv

LEMMA CreateCollectionInv ==
  ASSUME RagAssumption, RagInv, NEW r \in Ingestions, CreateCollection(r)
  PROVE  RagInv'
<1> DEFINE effect == IF collection.exists THEN collection ELSE [Missing EXCEPT !.exists = TRUE]
<1>1. RagTypeOK /\ StoreInv /\ OverlapInv
  BY DEF RagInv
<1>2. Call(r, "create", "insert", effect) /\ Disturb(r)
  BY DEF CreateCollection
<1>3. effect \in [exists : BOOLEAN, indexed : BOOLEAN, loaded : BOOLEAN,
                  rows : SUBSET (Ingestions \X (Nat \ {0}))]
  BY <1>1 DEF RagTypeOK, Missing
<1>4. "create" \in Replacing /\ "insert" \in Replacing \cup Inserted
  BY DEF Replacing, Inserted
<1> HIDE DEF effect
<1>5. /\ RagTypeOK'
      /\ UNCHANGED <<setting, corpus, cursor, chunks, reported, overlaps>>
      /\ stage[r] = "create"
      /\ \/ stage'[r] = "insert" /\ collection' = effect
         \/ stage'[r] = "failed" /\ collection' \in {collection, effect}
      /\ \A q \in Ingestions \ {r} : stage'[q] = stage[q] /\ ~alone'[q]
      /\ alone'[r] = alone[r]
  BY <1>1, <1>2, <1>3, <1>4, ReplacingCall
<1>6. \A q \in Ingestions : CursorInv(q)' /\ ChunkInv(q)'
  BY <1>5, ChunksFrame
<1>7. /\ collection' = collection \/ (collection = Missing /\ collection'.exists /\ collection'.rows = {})
      /\ stage'[r] = "insert" => collection'.exists
  BY <1>1, <1>5 DEF effect, StoreInv, Missing
<1>8. StoreInv'
  <2>1. ASSUME NEW q \in Ingestions PROVE
          /\ stage'[q] \in Replacing \cup Inserted \cup After => chunks'[q] # <<>>
          /\ alone'[q] =>
               /\ stage'[q] = "create" => collection' = Missing
               /\ stage'[q] = "insert" => collection'.exists /\ collection'.rows = {}
               /\ stage'[q] \in Inserted \cup After => collection'.exists /\ collection'.rows = Own(q)'
               /\ stage'[q] \in Indexed => collection'.indexed
    <3>1. CASE q = r
      <4>1. alone[r] => collection = Missing
        BY <1>1, <1>5 DEF StoreInv
      <4>2. alone[r] /\ stage'[r] = "insert" => collection'.exists /\ collection'.rows = {}
        BY <1>7, <4>1 DEF Missing
      <4>3. chunks[r] # <<>> /\ stage'[r] \in {"insert", "failed"}
        BY <1>1, <1>5 DEF StoreInv, Replacing
      <4> QED BY <1>5, <3>1, <4>2, <4>3 DEF Inserted, Indexed, After
    <3>2. CASE q # r
      BY <1>1, <1>5, <3>2 DEF StoreInv
    <3> QED BY <3>1, <3>2
  <2> QED BY <1>1, <1>7, <2>1 DEF StoreInv
<1>9. OverlapInv'
  <2>1. collection'.rows \subseteq collection.rows
    BY <1>7
  <2>2. \A p, q \in Ingestions :
          p # q /\ stage'[p] \in Replacing /\ stage'[q] \in Replacing => {p, q} \in overlaps'
    BY <1>1, <1>5 DEF OverlapInv, Replacing, Inserted
  <2>3. ASSUME NEW row \in collection'.rows, NEW q \in Ingestions,
               row[1] # q, stage'[q] \in {"create", "insert"}
        PROVE  {row[1], q} \in overlaps'
    <3>1. stage[q] \in {"create", "insert"}
      BY <1>5, <2>3
    <3> QED BY <1>1, <1>5, <2>1, <2>3, <3>1 DEF OverlapInv
  <2>4. MixedOnlyByOverlap'
    BY <1>1, <1>5, <2>1 DEF OverlapInv, MixedOnlyByOverlap
  <2> QED BY <2>2, <2>3, <2>4 DEF OverlapInv
<1>10. TraceInv'
  <2>1. collection'.rows \subseteq collection.rows
    BY <1>7
  <2> QED BY <1>5, <2>1, TraceFrame DEF Replacing
<1> QED BY <1>5, <1>6, <1>8, <1>9, <1>10 DEF RagInv

LEMMA InsertRowsInv ==
  ASSUME RagAssumption, RagInv, NEW r \in Ingestions, InsertRows(r)
  PROVE  RagInv'
<1> DEFINE effect == [collection EXCEPT !.rows = @ \cup Own(r)]
<1>1. RagTypeOK /\ StoreInv /\ OverlapInv
  BY DEF RagInv
<1>2. Call(r, "insert", "index", effect) /\ Disturb(r) /\ collection.exists
  BY DEF InsertRows
<1>3. effect \in [exists : BOOLEAN, indexed : BOOLEAN, loaded : BOOLEAN,
                  rows : SUBSET (Ingestions \X (Nat \ {0}))]
  BY <1>1, OwnRows DEF RagTypeOK, Missing
<1>4. "insert" \in Replacing /\ "index" \in Replacing \cup Inserted
  BY DEF Replacing, Inserted
<1> HIDE DEF effect
<1>5. /\ RagTypeOK'
      /\ UNCHANGED <<setting, corpus, cursor, chunks, reported, overlaps>>
      /\ stage[r] = "insert"
      /\ \/ stage'[r] = "index" /\ collection' = effect
         \/ stage'[r] = "failed" /\ collection' \in {collection, effect}
      /\ \A q \in Ingestions \ {r} : stage'[q] = stage[q] /\ ~alone'[q]
      /\ alone'[r] = alone[r]
  BY <1>1, <1>2, <1>3, <1>4, ReplacingCall
<1>6. \A q \in Ingestions : CursorInv(q)' /\ ChunkInv(q)'
  BY <1>5, ChunksFrame
<1>7. /\ collection'.exists
      /\ \/ collection'.rows = collection.rows /\ stage'[r] = "failed"
         \/ collection'.rows = collection.rows \cup Own(r)
  BY <1>1, <1>2, <1>5 DEF effect, RagTypeOK
<1>8. StoreInv'
  <2>1. ASSUME NEW q \in Ingestions PROVE
          /\ stage'[q] \in Replacing \cup Inserted \cup After => chunks'[q] # <<>>
          /\ alone'[q] =>
               /\ stage'[q] = "create" => collection' = Missing
               /\ stage'[q] = "insert" => collection'.exists /\ collection'.rows = {}
               /\ stage'[q] \in Inserted \cup After => collection'.exists /\ collection'.rows = Own(q)'
               /\ stage'[q] \in Indexed => collection'.indexed
    <3>1. CASE q = r
      <4>1. Own(r)' = Own(r)
        BY <1>5 DEF Own
      <4> QED BY <1>1, <1>5, <1>7, <3>1, <4>1 DEF StoreInv, Replacing, Inserted, Indexed, After
    <3>2. CASE q # r
      BY <1>1, <1>5, <3>2 DEF StoreInv
    <3> QED BY <3>1, <3>2
  <2> QED BY <1>1, <1>7, <2>1 DEF StoreInv
<1>9. OverlapInv'
  <2>1. \A row \in collection'.rows : row \in collection.rows \/ row[1] = r
    BY <1>1, <1>7, OwnRows
  <2>2. \A p, q \in Ingestions :
          p # q /\ stage'[p] \in Replacing /\ stage'[q] \in Replacing => {p, q} \in overlaps'
    BY <1>1, <1>5 DEF OverlapInv, Replacing, Inserted
  <2>3. ASSUME NEW row \in collection'.rows, NEW q \in Ingestions,
               row[1] # q, stage'[q] \in {"create", "insert"}
        PROVE  {row[1], q} \in overlaps'
    <3>1. q # r /\ stage[q] \in {"create", "insert"}
      BY <1>5, <2>3
    <3>2. CASE row \in collection.rows
      BY <1>1, <1>5, <2>3, <3>1, <3>2 DEF OverlapInv
    <3>3. CASE row[1] = r
      BY <1>1, <1>5, <3>1, <3>3 DEF OverlapInv, Replacing
    <3> QED BY <2>1, <3>2, <3>3
  <2>4. ASSUME NEW a \in collection'.rows, NEW b \in collection'.rows, a[1] # b[1]
        PROVE  {a[1], b[1]} \in overlaps'
    <3>1. \A row \in collection.rows : row[1] # r => {row[1], r} \in overlaps
      BY <1>1, <1>5 DEF OverlapInv
    <3>2. CASE a \in collection.rows /\ b \in collection.rows
      BY <1>1, <1>5, <2>4, <3>2 DEF OverlapInv, MixedOnlyByOverlap
    <3>3. CASE a[1] = r
      <4>1. {b[1], r} \in overlaps
        BY <2>1, <2>4, <3>1, <3>3
      <4>2. {b[1], r} = {a[1], b[1]}
        BY <3>3
      <4> QED BY <1>5, <4>1, <4>2
    <3>4. CASE b[1] = r
      BY <1>5, <2>1, <2>4, <3>1, <3>4
    <3> QED BY <2>1, <3>2, <3>3, <3>4
  <2>5. MixedOnlyByOverlap'
    BY <2>4 DEF MixedOnlyByOverlap
  <2> QED BY <2>2, <2>3, <2>5 DEF OverlapInv
<1>10. TraceInv'
  <2>1. TraceInv
    BY DEF RagInv
  <2>2. \A row \in collection'.rows : row \in collection.rows \/ row[1] = r
    BY <1>1, <1>7, OwnRows
  <2>3. Steps[1] = "load" /\ Steps[2] = "chunk" /\ Steps[3] = "embed"
    BY DEF Steps
  <2>4. \A k \in 1 .. 3 : <<r, Steps[k]>> \in reported
    <3>1. <<r, "load">> \in reported /\ <<r, "chunk">> \in reported /\ <<r, "embed">> \in reported
      BY <1>5, <2>1 DEF TraceInv, Posted, Replacing
    <3> QED BY <2>3, <3>1
  <2>5. RowsAreTraced'
    BY <1>5, <2>1, <2>2, <2>4 DEF TraceInv, RowsAreTraced
  <2>6. ASSUME NEW q \in Ingestions
        PROVE  /\ stage'[q] \notin {"load", "loaded"} => Posted(q, "load")'
               /\ stage'[q] \notin {"load", "loaded", "chunk", "chunked"} => Posted(q, "chunk")'
               /\ stage'[q] \in {"look"} \cup Replacing \cup Inserted \cup After => Posted(q, "embed")'
               /\ stage'[q] \in After => Posted(q, "store")'
    BY <1>5, <2>1 DEF TraceInv, Posted, Replacing, Inserted, After
  <2> QED BY <2>5, <2>6 DEF TraceInv
<1> QED BY <1>5, <1>6, <1>8, <1>9, <1>10 DEF RagInv

LEMMA IngestInv ==
  ASSUME RagAssumption, RagInv, NEW r \in Ingestions, Ingest(r)
  PROVE  RagInv'
<1>1. CASE LoadDocuments(r)
  BY <1>1, LoadDocumentsInv
<1>2. CASE CutChunk(r) \/ NextDocument(r)
  BY <1>2, ChunkingInv
<1>3. CASE ChunksDone(r) \/ Embed(r) \/ TestInference(r)
  BY <1>3, QuietMoveInv
<1>4. CASE LookForCollection(r)
  BY <1>4, LookForCollectionInv
<1>5. CASE DropCollection(r)
  BY <1>5, DropCollectionInv
<1>6. CASE CreateCollection(r)
  BY <1>6, CreateCollectionInv
<1>7. CASE InsertRows(r)
  BY <1>7, InsertRowsInv
<1>8. CASE CreateIndex(r) \/ LoadRows(r) \/ CountRows(r)
  BY <1>8, FlagCallsInv
<1>9. CASE CallRefused(r) \/ PodFails(r)
  BY <1>9, FailureInv
<1>10. CASE ReportStep(r)
  BY <1>10, ReportInv
<1> QED BY <1>1, <1>2, <1>3, <1>4, <1>5, <1>6, <1>7, <1>8, <1>9, <1>10 DEF Ingest, StoreInMilvus

LEMMA IdleInv ==
  ASSUME RagInv, UNCHANGED ragVars
  PROVE  RagInv'
<1>1. RagTypeOK'
  BY DEF RagInv, RagTypeOK, ragVars
<1>2. \A q \in Ingestions : CursorInv(q)' /\ ChunkInv(q)'
  BY ChunksFrame DEF ragVars
<1>3. StoreInv' /\ OverlapInv'
  BY RowsFrame DEF ragVars
<1>4. TraceInv'
  BY TraceFrame DEF ragVars
<1> QED BY <1>1, <1>2, <1>3, <1>4 DEF RagInv

(* What a pod of the service does, but for a load, changes nothing here;   *)
(* its calls may fail as well.                                             *)
LEMMA AsideInv ==
  ASSUME RagAssumption, RagInv, UNCHANGED <<ingestionVars, collection>>, UNCHANGED ragFaults \/ Fault
  PROVE  RagInv'
<1>1. RagTypeOK'
  <2>1. ragFaults' \in 0 .. MaxRagFaults
    BY FaultType DEF RagInv, RagTypeOK
  <2> QED BY <2>1 DEF RagInv, RagTypeOK, ingestionVars
<1>2. \A q \in Ingestions : CursorInv(q)' /\ ChunkInv(q)'
  BY ChunksFrame DEF ingestionVars
<1>3. StoreInv' /\ OverlapInv'
  BY RowsFrame DEF ingestionVars
<1>4. TraceInv'
  BY TraceFrame DEF ingestionVars
<1> QED BY <1>1, <1>2, <1>3, <1>4 DEF RagInv

-----------------------------------------------------------------------------
(* The pods of the service, and what a query relies on between its calls.   *)

InjectionInv ==
  /\ InjectionTypeOK
  /\ \A p \in Pods : /\ phase[p] = "started" => <<p, "START">> \in registered
                     /\ phase[p] \in {"init", "started"} => patched[p]
  /\ PodsAreRegistered

QueryInv ==
  /\ ServiceTypeOK
  /\ \A p \in Pods : service[p] # "down" => phase[p] = "app"
  /\ \A p \in Pods, r \in Ingestions :
       r \in basis[p] => /\ stage[r] \in After \cup {"failed"}
                         /\ service[p] = "loaded" /\ r \in Current => collection.loaded
  /\ UndisturbedAnswersAreCurrent

SystemInv == RagInv /\ InjectionInv /\ QueryInv

LEMMA BothEvents ==
  ASSUME NEW p, NEW S
  PROVE  {p} \X Events \subseteq S <=> <<p, "START">> \in S /\ <<p, "COMPLETE">> \in S
BY DEF Events

LEMMA InjectInv ==
  ASSUME InjectionAssumption, InjectionInv, NEW p \in Pods, Inject(p)
  PROVE  InjectionInv' /\ \A q \in Pods \ {p} : phase'[q] = phase[q]
<1>1. InjectionTypeOK'
  <2> USE DEF InjectionInv, InjectionTypeOK, InjectionAssumption, Enters, InjectFault
  <2>1. CASE Mutate(p)
    BY <2>1 DEF Mutate
  <2>2. CASE MutateRaises(p)
    BY <2>2 DEF MutateRaises
  <2>3. CASE WebhookUnavailable(p)
    BY <2>3 DEF WebhookUnavailable
  <2>4. CASE EmitStart(p)
    BY <2>4 DEF EmitStart, Register, Events
  <2>5. CASE EmitComplete(p)
    BY <2>5 DEF EmitComplete, Register, Events
  <2>6. CASE SandboxLost(p)
    BY <2>6 DEF SandboxLost
  <2> QED BY <2>1, <2>2, <2>3, <2>4, <2>5, <2>6 DEF Inject
<1>2. /\ \A q \in Pods \ {p} : /\ phase'[q] = phase[q] /\ unasked'[q] = unasked[q]
                               /\ patched'[q] = patched[q]
                               /\ \A e \in Events : <<q, e>> \in registered' <=> <<q, e>> \in registered
      /\ labelled' = labelled /\ registered \subseteq registered'
  BY DEF InjectionInv, InjectionTypeOK, Inject, Mutate, MutateRaises, WebhookUnavailable,
     EmitStart, EmitComplete, Register, SandboxLost, Enters, Events
<1>3. /\ phase'[p] = "started" => <<p, "START">> \in registered'
      /\ phase'[p] \in {"init", "started"} => patched'[p]
      /\ phase'[p] = "app" /\ labelled'[p] => unasked'[p] \/ {p} \X Events \subseteq registered'
      /\ <<p, "COMPLETE">> \in registered' => <<p, "START">> \in registered'
  <2>1. /\ phase \in [Pods -> {"new", "init", "started", "app"}]
        /\ patched \in [Pods -> BOOLEAN] /\ unasked \in [Pods -> BOOLEAN]
        /\ phase[p] = "started" => <<p, "START">> \in registered
        /\ phase[p] \in {"init", "started"} => patched[p]
        /\ phase[p] = "app" /\ labelled[p] => \/ unasked[p]
                                              \/ <<p, "START">> \in registered /\ <<p, "COMPLETE">> \in registered
        /\ <<p, "COMPLETE">> \in registered => <<p, "START">> \in registered
    BY BothEvents DEF InjectionInv, InjectionTypeOK, PodsAreRegistered
  <2> SUFFICES
        /\ phase'[p] = "started" => <<p, "START">> \in registered'
        /\ phase'[p] \in {"init", "started"} => patched'[p]
        /\ phase'[p] = "app" /\ labelled[p] =>
             unasked'[p] \/ (<<p, "START">> \in registered' /\ <<p, "COMPLETE">> \in registered')
        /\ <<p, "COMPLETE">> \in registered' => <<p, "START">> \in registered'
    BY <1>2, BothEvents
  <2>2. CASE Mutate(p) \/ MutateRaises(p) \/ WebhookUnavailable(p)
    <3>1. CASE Mutate(p) /\ labelled[p]
      <4>1. /\ phase' = [phase EXCEPT ![p] = "init"] /\ patched' = [patched EXCEPT ![p] = labelled[p]]
            /\ UNCHANGED <<unasked, registered>>
        BY <3>1 DEF Mutate, Enters
      <4>2. phase'[p] = "init" /\ patched'[p]
        BY <2>1, <3>1, <4>1
      <4> QED BY <2>1, <4>1, <4>2
    <3>2. CASE Mutate(p) /\ ~labelled[p]
      <4>1. phase' = [phase EXCEPT ![p] = "app"] /\ UNCHANGED <<unasked, registered>>
        BY <3>2 DEF Mutate, Enters
      <4>2. phase'[p] = "app"
        BY <2>1, <4>1
      <4> QED BY <2>1, <3>2, <4>1, <4>2
    <3>3. CASE MutateRaises(p)
      BY <2>1, <3>3 DEF MutateRaises
    <3>4. CASE WebhookUnavailable(p)
      <4>1. /\ phase' = [phase EXCEPT ![p] = "app"] /\ unasked' = [unasked EXCEPT ![p] = TRUE]
            /\ UNCHANGED <<patched, registered>>
        BY <3>4 DEF WebhookUnavailable, Enters
      <4>2. phase'[p] = "app" /\ unasked'[p]
        BY <2>1, <4>1
      <4> QED BY <2>1, <4>1, <4>2
    <3> QED BY <2>2, <3>1, <3>2, <3>3, <3>4
  <2>3. CASE EmitStart(p)
    <3>1. /\ phase[p] = "init" /\ patched' = patched /\ unasked' = unasked
          /\ phase'[p] \in {"init", "started"}
          /\ phase'[p] = "started" => <<p, "START">> \in registered'
          /\ registered' \in {registered, registered \cup {<<p, "START">>}}
      BY <2>1, <2>3 DEF EmitStart, Register, Enters
    <3> QED BY <2>1, <3>1
  <2>4. CASE EmitComplete(p)
    <3>1. /\ phase[p] = "started" /\ patched' = patched /\ unasked' = unasked
          /\ phase'[p] \in {"init", "app"}
          /\ phase'[p] = "app" => <<p, "COMPLETE">> \in registered'
          /\ registered' \in {registered, registered \cup {<<p, "COMPLETE">>}}
      BY <2>1, <2>4 DEF EmitComplete, Register, Enters
    <3> QED BY <2>1, <3>1
  <2>5. CASE SandboxLost(p)
    <3>1. /\ UNCHANGED <<labelled, patched, unasked, registered>> /\ phase[p] \in {"started", "app"}
          /\ \/ patched[p] /\ phase' = [phase EXCEPT ![p] = "init"]
             \/ ~patched[p] /\ phase' = [phase EXCEPT ![p] = "app"]
      BY <2>5 DEF SandboxLost, Enters
    <3>2. \/ patched[p] /\ phase'[p] = "init"
          \/ ~patched[p] /\ phase[p] = "app" /\ phase'[p] = "app"
      BY <2>1, <3>1
    <3>3. CASE patched[p] /\ phase'[p] = "init"
      BY <2>1, <3>1, <3>3
    <3>4. CASE phase[p] = "app" /\ phase'[p] = "app"
      BY <2>1, <3>1, <3>4
    <3> QED BY <3>2, <3>3, <3>4
  <2> QED BY <2>2, <2>3, <2>4, <2>5 DEF Inject
<1>4. ASSUME NEW q \in Pods
      PROVE  /\ phase'[q] = "started" => <<q, "START">> \in registered'
             /\ phase'[q] \in {"init", "started"} => patched'[q]
             /\ phase'[q] = "app" /\ labelled'[q] => unasked'[q] \/ {q} \X Events \subseteq registered'
             /\ <<q, "COMPLETE">> \in registered' => <<q, "START">> \in registered'
  <2>1. CASE q = p
    BY <1>3, <2>1
  <2>2. CASE q # p
    BY <1>2, <2>2, BothEvents DEF InjectionInv, PodsAreRegistered, Events
  <2> QED BY <2>1, <2>2
<1> QED BY <1>1, <1>2, <1>4 DEF InjectionInv, PodsAreRegistered

LEMMA InjectIdle ==
  ASSUME InjectionInv, UNCHANGED injectionVars
  PROVE  InjectionInv'
BY DEF InjectionInv, InjectionTypeOK, PodsAreRegistered, injectionVars

LEMMA SystemInitInv ==
  ASSUME RagAssumption, InjectionAssumption, SystemInit
  PROVE  SystemInv
<1>1. RagInv
  BY RagInitInv DEF SystemInit
<1>2. InjectionInv
  BY DEF SystemInit, InjectionInit, InjectionInv, InjectionTypeOK, InjectionAssumption, PodsAreRegistered
<1>3. QueryInv
  BY DEF SystemInit, QueryInv, ServiceTypeOK, NoAnswer, UndisturbedAnswersAreCurrent
<1> QED BY <1>1, <1>2, <1>3 DEF SystemInv

(* An ingestion that is over and undisturbed stays so until another one    *)
(* changes the collection, and only dropping unloads it.                   *)
LEMMA CurrentStays ==
  ASSUME RagInv, NEW r \in Ingestions, Ingest(r), NEW q \in Ingestions,
         stage[q] \in After \cup {"failed"}
  PROVE  /\ stage'[q] \in After \cup {"failed"}
         /\ q \in Current' => q \in Current /\ (collection.loaded => collection'.loaded)
<1>1. RagTypeOK
  BY DEF RagInv
<1>2. CASE q = r
  <2>1. stage[r] \in After /\ (TestInference(r) \/ ReportStep(r) \/ PodFails(r))
    BY <1>2 DEF Ingest, StoreInMilvus, LoadDocuments, CutChunk, NextDocument, ChunksDone, Embed, LookForCollection,
       DropCollection, CreateCollection, InsertRows, CreateIndex, LoadRows, CountRows, CallRefused, Call, Move, After,
       ReportStep, Report, TestInference, PodFails
  <2>2. UNCHANGED <<collection, alone>> /\ stage'[r] \in After \cup {"failed"}
    <3>1. CASE TestInference(r)
      BY <1>1, <3>1 DEF RagTypeOK, TestInference, Move, After
    <3>2. CASE PodFails(r)
      BY <1>1, <3>2 DEF RagTypeOK, PodFails, Fails
    <3>3. CASE ReportStep(r)
      <4>1. Report(r, "inferred", "infer", "done")
        BY <2>1, <3>3 DEF ReportStep, Report, Move, After
      <4> QED BY <1>1, <4>1 DEF RagTypeOK, Report, Move, Fails, After
    <3> QED BY <2>1, <3>1, <3>2, <3>3
  <2> QED BY <1>2, <2>1, <2>2 DEF Current
<1>3. CASE q # r
  <2>1. \/ UNCHANGED <<collection, alone>>
        \/ collection' = collection /\ alone'[q] = alone[q]
        \/ ~alone'[q]
        \/ alone'[q] = alone[q] /\ (collection.loaded => collection'.loaded)
    <3>1. CASE LoadDocuments(r) \/ CutChunk(r) \/ NextDocument(r) \/ ChunksDone(r) \/ Embed(r)
               \/ TestInference(r) \/ PodFails(r) \/ CallRefused(r)
      BY <3>1 DEF LoadDocuments, CutChunk, NextDocument, ChunksDone, Embed, TestInference, PodFails, CallRefused
    <3>2. CASE ReportStep(r)
      BY <3>2 DEF ReportStep, Report
    <3>3. CASE LookForCollection(r)
      BY <1>1, <1>3, <3>3 DEF LookForCollection, RagTypeOK
    <3>4. CASE DropCollection(r) \/ CreateCollection(r) \/ InsertRows(r)
      BY <1>3, <3>4 DEF DropCollection, CreateCollection, InsertRows, Disturb
    <3>5. CASE CreateIndex(r) \/ LoadRows(r) \/ CountRows(r)
      <4>1. /\ alone' = alone
            /\ collection' \in {collection, [collection EXCEPT !.indexed = TRUE], [collection EXCEPT !.loaded = TRUE]}
        BY <3>5 DEF CreateIndex, LoadRows, CountRows, Call
      <4> QED BY <1>1, <4>1 DEF RagTypeOK
    <3> QED BY <3>1, <3>2, <3>3, <3>4, <3>5 DEF Ingest, StoreInMilvus
  <2>2. stage'[q] = stage[q]
    BY <1>1, <1>3 DEF RagTypeOK, Ingest, StoreInMilvus, LoadDocuments, CutChunk, NextDocument, ChunksDone, Embed,
       LookForCollection, DropCollection, CreateCollection, InsertRows, CreateIndex, LoadRows, CountRows, CallRefused,
       Call, Move, ReportStep, Report, TestInference, PodFails, Fails
  <2> QED BY <2>1, <2>2 DEF Current
<1> QED BY <1>2, <1>3

(* While an ingestion is current the collection holds its rows and no other. *)
LEMMA CurrentRows ==
  ASSUME RagInv, NEW r \in Current
  PROVE  /\ collection.exists /\ collection.rows # {} /\ {row[1] : row \in collection.rows} = {r}
         /\ Current = {r}
<1>1. /\ r \in Ingestions /\ collection.exists /\ collection.rows = Own(r) /\ chunks[r] # <<>>
  BY DEF Current, RagInv, StoreInv
<1>2. <<r, 1>> \in Own(r) /\ \A row \in Own(r) : row[1] = r
  BY <1>1, OwnRows DEF RagInv
<1>3. {row[1] : row \in collection.rows} = {r}
  <2>1. r \in {row[1] : row \in collection.rows}
    BY <1>1, <1>2
  <2> QED BY <1>1, <1>2, <2>1
<1>4. ASSUME NEW q \in Current PROVE q = r
  <2>1. q \in Ingestions /\ collection.rows = Own(q)
    BY DEF Current, RagInv, StoreInv
  <2>2. \A row \in Own(q) : row[1] = q
    BY <2>1, OwnRows DEF RagInv
  <2> QED BY <1>1, <1>2, <2>1, <2>2
<1> QED BY <1>1, <1>2, <1>3, <1>4

LEMMA IngestQueryInv ==
  ASSUME RagInv, QueryInv, NEW r \in Ingestions, Ingest(r), UNCHANGED <<injectionVars, serviceVars>>
  PROVE  QueryInv'
<1>1. ServiceTypeOK' /\ (\A p \in Pods : service'[p] # "down" => phase'[p] = "app")
  BY DEF QueryInv, ServiceTypeOK, injectionVars, serviceVars
<1>2. ASSUME NEW p \in Pods, NEW q \in Ingestions, q \in basis'[p]
      PROVE  /\ stage'[q] \in After \cup {"failed"}
             /\ service'[p] = "loaded" /\ q \in Current' => collection'.loaded
  BY <1>2, CurrentStays DEF QueryInv, serviceVars
<1>3. UndisturbedAnswersAreCurrent'
  BY DEF QueryInv, UndisturbedAnswersAreCurrent, serviceVars
<1> QED BY <1>1, <1>2, <1>3 DEF QueryInv

LEMMA PodStepQueryInv ==
  ASSUME InjectionAssumption, SystemInv, NEW p \in Pods, PodStep(p)
  PROVE  QueryInv'
<1>1. QueryInv /\ InjectionInv
  BY DEF SystemInv
<1>2. \A q \in Pods \ {p} : phase'[q] = phase[q]
  BY <1>1, InjectInv DEF PodStep
<1>3. /\ UNCHANGED <<ragVars, basis, answer>>
      /\ \/ phase[p] # "app" /\ UNCHANGED service
         \/ service' = [service EXCEPT ![p] = "down"]
  BY DEF PodStep
<1>4. ServiceTypeOK'
  BY <1>1, <1>3 DEF QueryInv, ServiceTypeOK
<1>5. ASSUME NEW q \in Pods, service'[q] # "down" PROVE phase'[q] = "app" /\ service'[q] = service[q]
  BY <1>1, <1>2, <1>3, <1>5 DEF QueryInv, ServiceTypeOK
<1>6. collection' = collection /\ stage' = stage /\ Current' = Current
  BY <1>3 DEF ragVars, Current
<1>7. ASSUME NEW q \in Pods, NEW r \in Ingestions, r \in basis'[q]
      PROVE  /\ stage'[r] \in After \cup {"failed"}
             /\ service'[q] = "loaded" /\ r \in Current' => collection'.loaded
  BY <1>1, <1>3, <1>5, <1>6, <1>7 DEF QueryInv
<1>8. UndisturbedAnswersAreCurrent'
  BY <1>1, <1>3 DEF QueryInv, UndisturbedAnswersAreCurrent
<1> QED BY <1>4, <1>5, <1>7, <1>8 DEF QueryInv

LEMMA ServiceStepInv ==
  ASSUME RagAssumption, InjectionAssumption, SystemInv, NEW p \in Pods, ServiceStep(p)
  PROVE  SystemInv'
<1>1. RagInv /\ InjectionInv /\ QueryInv
  BY DEF SystemInv
<1>2. CASE StartService(p) \/ QueryBlind(p) \/ RestartService(p)
  <2>1. /\ UNCHANGED <<ingestionVars, collection>> /\ (UNCHANGED ragFaults \/ Fault)
        /\ UNCHANGED <<phase, labelled, patched, unasked, registered>>
    BY <1>2 DEF StartService, QueryBlind, RestartService, injectionVars, ragVars, ingestionVars
  <2>2. RagInv'
    BY <1>1, <2>1, AsideInv
  <2>3. InjectionInv'
    <3>1. injectFaults' \in 0 .. MaxInjectFaults
      BY <1>1, <1>2 DEF StartService, QueryBlind, RestartService, injectionVars, InjectFault,
         InjectionInv, InjectionTypeOK, InjectionAssumption
    <3> QED BY <1>1, <2>1, <3>1 DEF InjectionInv, InjectionTypeOK, PodsAreRegistered
  <2>4. collection' = collection /\ stage' = stage /\ Current' = Current
    BY <2>1 DEF ingestionVars, Current
  <2>5. /\ service' \in [Pods -> {"down", "blind", "idle", "loaded"}]
        /\ basis' \in [Pods -> SUBSET Ingestions]
        /\ \A q \in Pods : service'[q] # "down" => phase[q] = "app"
        /\ \A q \in Pods : service'[q] = "loaded" => service[q] = "loaded"
        /\ \A q \in Pods : basis'[q] \subseteq basis[q]
    BY <1>1, <1>2 DEF QueryInv, ServiceTypeOK, StartService, QueryBlind, RestartService, ServiceEnds
  <2>6. \A q \in Pods : answer'[q] = answer[q] \/ answer'[q] \in {NoAnswer, [kind |-> "empty", from |-> {}, basis |-> {}]}
    BY <1>1, <1>2 DEF QueryInv, ServiceTypeOK, StartService, QueryBlind, RestartService, Answers
  <2>7. ServiceTypeOK'
    BY <1>1, <1>2, <2>5 DEF QueryInv, ServiceTypeOK, StartService, QueryBlind, RestartService, Answers, NoAnswer
  <2>8. UndisturbedAnswersAreCurrent'
    BY <1>1, <2>6 DEF QueryInv, UndisturbedAnswersAreCurrent, NoAnswer
  <2>9. ASSUME NEW q \in Pods, NEW r \in Ingestions, r \in basis'[q]
        PROVE  /\ stage'[r] \in After \cup {"failed"}
               /\ service'[q] = "loaded" /\ r \in Current' => collection'.loaded
    BY <1>1, <2>4, <2>5, <2>9 DEF QueryInv
  <2> QED BY <2>1, <2>2, <2>3, <2>5, <2>7, <2>8, <2>9 DEF SystemInv, QueryInv
<1>3. CASE QueryLoad(p)
  <2>1. UNCHANGED injectionVars /\ service[p] = "idle"
        /\ UNCHANGED <<stage, setting, corpus, cursor, chunks, reported, alone, overlaps, ragFaults>>
    BY <1>3 DEF QueryLoad, ingestionVars
  <2>2. InjectionInv' /\ phase' = phase
    BY <1>1, <2>1, InjectIdle DEF injectionVars
  <2>3. CASE collection.exists /\ collection.indexed
    <3>1. /\ collection' = [collection EXCEPT !.loaded = TRUE]
          /\ service' = [service EXCEPT ![p] = "loaded"] /\ basis' = [basis EXCEPT ![p] = Current]
          /\ UNCHANGED answer
      BY <1>3, <2>3 DEF QueryLoad, CanLoad, Loaded
    <3>2. RagInv'
      BY <1>1, <2>1, <2>3, <3>1, FlagsInv
    <3>3. collection'.loaded /\ Current' = Current /\ Current \subseteq Ingestions
      BY <1>1, <2>1, <3>1 DEF RagInv, RagTypeOK, Current
    <3>4. ServiceTypeOK'
      BY <1>1, <3>1, <3>3 DEF QueryInv, ServiceTypeOK
    <3>5. \A q \in Pods : service'[q] # "down" => phase'[q] = "app"
      BY <1>1, <2>1, <2>2, <3>1 DEF QueryInv, ServiceTypeOK
    <3>6. ASSUME NEW q \in Pods, NEW r \in Ingestions, r \in basis'[q]
          PROVE  stage'[r] \in After \cup {"failed"}
      BY <1>1, <2>1, <3>1, <3>6 DEF QueryInv, ServiceTypeOK, Current
    <3>7. UndisturbedAnswersAreCurrent'
      BY <1>1, <3>1 DEF QueryInv, UndisturbedAnswersAreCurrent
    <3> QED BY <2>2, <3>2, <3>3, <3>4, <3>5, <3>6, <3>7 DEF SystemInv, QueryInv
  <2>4. CASE ~(collection.exists /\ collection.indexed)
    <3>1. /\ answer' = [answer EXCEPT ![p] = [kind |-> "refused", from |-> {}, basis |-> Current]]
          /\ UNCHANGED <<collection, service, basis>>
      BY <1>3, <2>4 DEF QueryLoad, CanLoad, Answers
    <3>2. Current = {}
      BY <1>1, <2>4 DEF RagInv, StoreInv, Current, Indexed
    <3>3. UNCHANGED ragVars
      BY <2>1, <3>1 DEF ragVars
    <3>4. RagInv' /\ Current' = Current /\ collection' = collection /\ stage' = stage
      BY <1>1, <3>3, IdleInv DEF ragVars, Current
    <3>5. ServiceTypeOK'
      BY <1>1, <3>1, <3>2 DEF QueryInv, ServiceTypeOK
    <3>6. UndisturbedAnswersAreCurrent'
      BY <1>1, <3>1, <3>2 DEF QueryInv, ServiceTypeOK, UndisturbedAnswersAreCurrent
    <3> QED BY <1>1, <2>2, <3>1, <3>4, <3>5, <3>6 DEF SystemInv, QueryInv
  <2> QED BY <2>3, <2>4
<1>4. CASE QuerySearch(p)
  <2> DEFINE since == basis[p] \cap Current
             found == {row[1] : row \in collection.rows}
  <2>1. UNCHANGED <<ragVars, injectionVars, basis>> /\ service[p] = "loaded"
        /\ service' = [service EXCEPT ![p] = "idle"]
    BY <1>4 DEF QuerySearch
  <2>2. RagInv' /\ InjectionInv' /\ phase' = phase /\ collection' = collection /\ stage' = stage /\ Current' = Current
    BY <1>1, <2>1, IdleInv, InjectIdle DEF ragVars, injectionVars, Current
  <2>3. since \subseteq Ingestions /\ found \subseteq Ingestions
    BY <1>1 DEF RagInv, RagTypeOK, Current
  <2>4. \E kind \in {"documents", "empty", "refused"}, from \in SUBSET found :
          /\ answer' = [answer EXCEPT ![p] = [kind |-> kind, from |-> from, basis |-> since]]
          /\ since # {} => kind = "documents" /\ from = since
    <3>1. CASE since = {}
      BY <1>4, <3>1 DEF QuerySearch, Answers
    <3>2. CASE since # {}
      <4>1. PICK r \in Current : r \in basis[p]
        BY <3>2
      <4>2. collection.exists /\ collection.rows # {} /\ found = {r} /\ since = {r}
        BY <1>1, <4>1, CurrentRows
      <4>3. collection.loaded
        BY <1>1, <2>1, <4>1 DEF QueryInv, Current
      <4>4. PICK from \in SUBSET found :
              /\ from = {} <=> collection.rows = {}
              /\ Answers(p, IF from = {} THEN "empty" ELSE "documents", from, since)
        BY <1>4, <4>2, <4>3 DEF QuerySearch
      <4>5. from = since /\ from # {}
        BY <4>2, <4>4
      <4> QED BY <4>4, <4>5 DEF Answers
    <3> QED BY <3>1, <3>2
  <2> HIDE DEF since, found
  <2>5. PICK kind \in {"documents", "empty", "refused"}, from \in SUBSET found :
          /\ answer' = [answer EXCEPT ![p] = [kind |-> kind, from |-> from, basis |-> since]]
          /\ since # {} => kind = "documents" /\ from = since
    BY <2>4
  <2>6. ServiceTypeOK'
    BY <1>1, <2>1, <2>3, <2>5 DEF QueryInv, ServiceTypeOK
  <2>7. UndisturbedAnswersAreCurrent'
    BY <1>1, <2>5 DEF QueryInv, ServiceTypeOK, UndisturbedAnswersAreCurrent
  <2>8. ASSUME NEW q \in Pods
        PROVE  /\ service'[q] # "down" => phase'[q] = "app"
               /\ service'[q] = "loaded" => service[q] = "loaded"
    BY <1>1, <2>1, <2>2 DEF QueryInv, ServiceTypeOK
  <2> QED BY <1>1, <2>1, <2>2, <2>6, <2>7, <2>8 DEF SystemInv, QueryInv
<1>5. CASE QueryFails(p)
  <2>1. /\ UNCHANGED <<ingestionVars, injectionVars, basis>> /\ Fault
        /\ service' = [service EXCEPT ![p] = "idle"]
        /\ collection' = collection \/ (CanLoad /\ collection' = Loaded)
    BY <1>5 DEF QueryFails
  <2>2. InjectionInv' /\ phase' = phase
    BY <1>1, <2>1, InjectIdle DEF injectionVars
  <2>3. RagInv'
    <3>1. CASE collection' = collection
      BY <1>1, <2>1, <3>1, AsideInv
    <3>2. CASE CanLoad /\ collection' = Loaded
      BY <1>1, <2>1, <3>2, FlagsInv DEF ingestionVars, CanLoad, Loaded
    <3> QED BY <2>1, <3>1, <3>2
  <2>4. /\ collection.loaded => collection'.loaded
        /\ stage' = stage /\ Current' = Current /\ Current \subseteq Ingestions
    BY <1>1, <2>1 DEF RagInv, RagTypeOK, Current, ingestionVars, Loaded
  <2>5. service[p] \in {"idle", "loaded"}
    BY <1>5 DEF QueryFails
  <2>6. PICK since \in SUBSET Ingestions :
          answer' = [answer EXCEPT ![p] = [kind |-> "failed", from |-> {}, basis |-> since]]
    BY <1>5, <2>4 DEF QueryFails, Answers
  <2>7. ServiceTypeOK'
    BY <1>1, <2>1, <2>6 DEF QueryInv, ServiceTypeOK
  <2>8. UndisturbedAnswersAreCurrent'
    BY <1>1, <2>6 DEF QueryInv, ServiceTypeOK, UndisturbedAnswersAreCurrent
  <2>9. ASSUME NEW q \in Pods
        PROVE  /\ service'[q] # "down" => phase'[q] = "app"
               /\ service'[q] = "loaded" => service[q] = "loaded"
    BY <1>1, <2>1, <2>2, <2>5 DEF QueryInv, ServiceTypeOK
  <2>10. ASSUME NEW q \in Pods, NEW r \in Ingestions, r \in basis'[q]
         PROVE  /\ stage'[r] \in After \cup {"failed"}
                /\ service'[q] = "loaded" /\ r \in Current' => collection'.loaded
    BY <1>1, <2>1, <2>4, <2>9, <2>10 DEF QueryInv
  <2> QED BY <2>2, <2>3, <2>7, <2>8, <2>9, <2>10 DEF SystemInv, QueryInv
<1> QED BY <1>2, <1>3, <1>4, <1>5 DEF ServiceStep

LEMMA SystemIdle ==
  ASSUME SystemInv, UNCHANGED systemVars
  PROVE  SystemInv'
<1>1. RagInv' /\ InjectionInv'
  BY IdleInv, InjectIdle DEF SystemInv, systemVars
<1>2. QueryInv'
  BY DEF SystemInv, QueryInv, ServiceTypeOK, UndisturbedAnswersAreCurrent, Current,
     systemVars, ragVars, injectionVars, serviceVars
<1> QED BY <1>1, <1>2 DEF SystemInv

LEMMA SystemNextInv ==
  ASSUME RagAssumption, InjectionAssumption, SystemInv, [SystemNext]_systemVars
  PROVE  SystemInv'
<1>1. RagInv /\ InjectionInv /\ QueryInv
  BY DEF SystemInv
<1>2. ASSUME NEW r \in Ingestions, Ingest(r), UNCHANGED <<injectionVars, serviceVars>> PROVE SystemInv'
  <2>1. RagInv' /\ QueryInv'
    BY <1>1, <1>2, IngestInv, IngestQueryInv
  <2>2. InjectionInv'
    BY <1>1, <1>2, InjectIdle
  <2> QED BY <2>1, <2>2 DEF SystemInv
<1>3. ASSUME NEW p \in Pods, PodStep(p) PROVE SystemInv'
  <2>1. RagInv' /\ InjectionInv'
    BY <1>1, <1>3, IdleInv, InjectInv DEF PodStep
  <2>2. QueryInv'
    BY <1>3, PodStepQueryInv
  <2> QED BY <2>1, <2>2 DEF SystemInv
<1>4. ASSUME NEW p \in Pods, ServiceStep(p) PROVE SystemInv'
  BY <1>4, ServiceStepInv
<1>5. CASE UNCHANGED systemVars
  BY <1>5, SystemIdle
<1> QED BY <1>2, <1>3, <1>4, <1>5 DEF SystemNext

LEMMA SystemInvariant ==
  ASSUME RagAssumption, InjectionAssumption
  PROVE  SystemSpec => []SystemInv
<1>1. SystemInit => SystemInv
  BY SystemInitInv
<1>2. SystemInv /\ [SystemNext]_systemVars => SystemInv'
  BY SystemNextInv
<1> QED BY <1>1, <1>2, PTL DEF SystemSpec

-----------------------------------------------------------------------------
(* The chunks of every document, whatever its size and delimiters and for  *)
(* any chunk_size and chunk_overlap, cover it without a gap                *)
(* (rag_pipeline.py:176-208).                                              *)
THEOREM ChunksCover ==
  ASSUME RagAssumption, InjectionAssumption
  PROVE  SystemSpec => []ChunksCoverDocuments
<1>1. SystemInv => ChunksCoverDocuments
  BY DEF SystemInv, RagInv, ChunkInv, CursorInv, ChunksCoverDocuments, Covered
<1> QED BY <1>1, SystemInvariant, PTL

(* With any number of runs that drop, create and fill the collection, an   *)
(* ingestion no other has disturbed has stored exactly its chunks, and     *)
(* some (:411-473).                                                        *)
THEOREM UndisturbedStoresAreExact ==
  ASSUME RagAssumption, InjectionAssumption
  PROVE  SystemSpec => []UndisturbedStoreIsExact
<1>1. SystemInv => UndisturbedStoreIsExact
  <2> SUFFICES ASSUME SystemInv, NEW r \in Ingestions, stage[r] \in Inserted \cup After, alone[r]
      PROVE  collection.exists /\ collection.rows = Own(r) /\ collection.rows # {}
    BY DEF UndisturbedStoreIsExact
  <2>1. collection.exists /\ collection.rows = Own(r) /\ chunks[r] # <<>>
    BY DEF SystemInv, RagInv, StoreInv
  <2>2. <<r, 1>> \in Own(r)
    BY <2>1, OwnRows DEF SystemInv, RagInv
  <2> QED BY <2>1, <2>2
<1> QED BY <1>1, SystemInvariant, PTL

(* Rows of two ingestions share the collection only if both were replacing *)
(* it at once (rag_pipeline.py:411-454).                                   *)
THEOREM RowsAreUnmixed ==
  ASSUME RagAssumption, InjectionAssumption
  PROVE  SystemSpec => []MixedOnlyByOverlap
<1>1. SystemInv => MixedOnlyByOverlap
  BY DEF SystemInv, RagInv, OverlapInv
<1> QED BY <1>1, SystemInvariant, PTL

(* Every row that can be retrieved has the chain of its steps in Marquez,  *)
(* whatever failed or overlapped.                                          *)
THEOREM RowsAreAccountedFor ==
  ASSUME RagAssumption, InjectionAssumption
  PROVE  SystemSpec => []RowsAreTraced
<1>1. SystemInv => RowsAreTraced
  BY DEF SystemInv, RagInv, TraceInv
<1> QED BY <1>1, SystemInvariant, PTL

(* A question asked while an ingestion is stored and undisturbed is        *)
(* answered from it alone, or with the error of a call that failed by      *)
(* itself (app.py:166-194).                                                *)
THEOREM AnswersAreCurrent ==
  ASSUME RagAssumption, InjectionAssumption
  PROVE  SystemSpec => []UndisturbedAnswersAreCurrent
<1>1. SystemInv => UndisturbedAnswersAreCurrent
  BY DEF SystemInv, QueryInv
<1> QED BY <1>1, SystemInvariant, PTL

(* A serving pod that is labelled and was seen by the webhook has both its *)
(* events in Marquez, whatever was retried (register_lineage.py:184-226).  *)
THEOREM ServingPodsRegistered ==
  ASSUME RagAssumption, InjectionAssumption
  PROVE  SystemSpec => []ServingPodsAreRegistered
<1>1. SystemInv => ServingPodsAreRegistered
  BY DEF SystemInv, InjectionInv, QueryInv, ServingPodsAreRegistered
<1> QED BY <1>1, SystemInvariant, PTL
=============================================================================
