------------------------ MODULE TransparencyLogProofs ------------------------
(***************************************************************************)
(* Theorems about TransparencyLog for any processes, logs and payloads.    *)
(***************************************************************************)
EXTENDS TransparencyLog, SequenceTheorems, FiniteSetTheorems, TLAPS

USE LogAssumption

(* A line that cannot be parsed is no entry. *)
LEMMA GarbageIsNoEntry == Garbage \notin Entry
<1>1. SUFFICES ASSUME Garbage \in Entry PROVE FALSE
  OBVIOUS
<1>2. DOMAIN Garbage = {"garbage"}
  BY DEF Garbage
<1>3. "by" \in DOMAIN Garbage
  BY <1>1 DEF Entry
<1>4. QED
  BY <1>2, <1>3

(* The hash of an entry is a hash. *)
LEMMA EntryHashType == \A entry \in Entry : EntryHash(entry) \in Hash
  BY DEF Entry, EntryHash, Hash

(* Whatever a process reads as the end of the chain is a hash. *)
LEMMA LastChainHashType ==
  ASSUME LogTypeOK, NEW l \in Logs
  PROVE  LastChainHash(l) \in Hash
<1>1. CASE file[l] # <<>> /\ Readable(file[l][Len(file[l])])
  <2>1. file[l][Len(file[l])] \in Entry
    BY <1>1 DEF LogTypeOK, Readable
  <2>2. QED
    BY <1>1, <2>1, EntryHashType DEF LastChainHash
<1>2. CASE ~(file[l] # <<>> /\ Readable(file[l][Len(file[l])]))
  BY <1>2 DEF LastChainHash, Genesis, Hash
<1>3. QED
  BY <1>1, <1>2

(* What a process appends keeps a log a sequence of lines. *)
LEMMA AppendedType ==
  ASSUME LogTypeOK, NEW l \in Logs, NEW line \in Entry \cup {Garbage}
  PROVE  Appended(l, line) \in Seq(Entry \cup {Garbage})
<1>1. CASE ended[l]
  BY <1>1 DEF Appended, LogTypeOK
<1>2. CASE ~ended[l]
  <2>1. file[l] \in Seq(Entry \cup {Garbage})
    BY DEF LogTypeOK
  <2>2. CASE file[l] = <<>>
    <3>1. [file[l] EXCEPT ![Len(file[l])] = Garbage] = file[l]
      BY <2>2
    <3>2. QED
      BY <1>2, <2>1, <3>1 DEF Appended
  <2>3. CASE file[l] # <<>>
    <3>1. Len(file[l]) \in 1 .. Len(file[l])
      BY <2>1, <2>3
    <3>2. [file[l] EXCEPT ![Len(file[l])] = Garbage] \in Seq(Entry \cup {Garbage})
      BY <2>1, <3>1, ExceptSeq
    <3>3. QED
      BY <1>2, <3>2 DEF Appended
  <2>4. QED
    BY <2>2, <2>3
<1>3. QED
  BY <1>1, <1>2

(* The entry a process is about to append is one. *)
LEMMA EntryOfType ==
  ASSUME LogTypeOK, NEW p \in Procs
  PROVE  EntryOf(p) \in Entry
  BY DEF LogTypeOK, EntryOf, Entry

(* For any constants every reachable state of the log is well typed. *)
THEOREM LogTypeCorrect ==
  ASSUME Payloads # {}
  PROVE  LogSpec => []LogTypeOK
<1>1. LogInit => LogTypeOK
  BY DEF LogInit, LogTypeOK, Genesis, Hash
<1>2. ASSUME LogTypeOK, [LogNext]_logVars
      PROVE  LogTypeOK'
  <2> USE <1>2 DEF append
  <2>1. ASSUME NEW p \in Procs, NEW x \in Payloads, ReadChain(p, x)
        PROVE  LogTypeOK'
    BY <2>1, LastChainHashType DEF ReadChain, LogTypeOK
  <2>2. ASSUME NEW p \in Procs, Sign(p)
        PROVE  LogTypeOK'
    BY <2>2, EntryOfType, EntryHashType DEF Sign, LogTypeOK
  <2>3. ASSUME NEW p \in Procs, WriteEntry(p)
        PROVE  LogTypeOK'
    BY <2>3, EntryOfType, AppendedType DEF WriteEntry, LogTypeOK
  <2>4. ASSUME NEW p \in Procs, TornWrite(p)
        PROVE  LogTypeOK'
    BY <2>4, EntryOfType, AppendedType DEF TornWrite, LogTypeOK
  <2>5. ASSUME NEW p \in Procs, Abandon(p)
        PROVE  LogTypeOK'
    BY <2>5 DEF Abandon, LogTypeOK
  <2>6. CASE UNCHANGED logVars
    BY <2>6 DEF logVars, LogTypeOK
  <2>7. QED
    BY <2>1, <2>2, <2>3, <2>4, <2>5, <2>6 DEF LogNext, Exhausted
<1>3. QED
  BY <1>1, <1>2, PTL DEF LogSpec

-----------------------------------------------------------------------------
(* The chain while no write was cut short.  LinksResolve is not inductive: *)
(* the hash a process has read and not yet used must be that of an entry   *)
(* in the log, at or after the last entry of its own.                      *)
Chained(f, h) == h = Genesis \/ \E k \in DOMAIN f : EntryHash(f[k]) = h

SeesOwn(p, f, n, h) ==
  \A i \in 1 .. n : f[i].by = p => \E k \in i .. n : EntryHash(f[k]) = h

ReadInv(p) ==
  phase[p] # "idle" =>
    /\ Chained(file[LogOf[p]], prev[p])
    /\ SeesOwn(p, file[LogOf[p]], Len(file[LogOf[p]]), prev[p])

LinkInv(f, j) ==
  /\ \/ f[j].prev = Genesis
     \/ \E k \in 1 .. j - 1 : EntryHash(f[k]) = f[j].prev
  /\ SeesOwn(f[j].by, f, j - 1, f[j].prev)

ChainInv ==
  torn = 0 =>
    /\ \A l \in Logs : ended[l] /\ file[l] \in Seq(Entry)
    /\ \A p \in Procs : ReadInv(p)
    /\ \A l \in Logs : \A j \in 1 .. Len(file[l]) : LinkInv(file[l], j)

(* The hash just read is that of the last entry, after every other one.    *)
LEMMA ReadingIsChained ==
  ASSUME LogTypeOK, NEW p \in Procs, NEW l \in Logs, file[l] \in Seq(Entry)
  PROVE  /\ Chained(file[l], LastChainHash(l))
         /\ SeesOwn(p, file[l], Len(file[l]), LastChainHash(l))
<1>1. CASE file[l] = <<>>
  BY <1>1 DEF Chained, SeesOwn, LastChainHash
<1>2. CASE file[l] # <<>>
  <2>1. Len(file[l]) \in DOMAIN file[l] /\ file[l][Len(file[l])] \in Entry
    BY <1>2
  <2>2. LastChainHash(l) = EntryHash(file[l][Len(file[l])])
    BY <1>2, <2>1, GarbageIsNoEntry DEF LastChainHash, Readable
  <2>3. QED
    BY <2>1, <2>2 DEF Chained, SeesOwn
<1>3. QED
  BY <1>1, <1>2

(* Appending an entry chained to what its process has read keeps the links *)
(* of a log, and what other processes have read stays good.                *)
LEMMA AppendingKeepsChain ==
  ASSUME NEW f \in Seq(Entry), NEW e \in Entry, NEW q \in Procs, NEW h
  PROVE  /\ Chained(f, h) => Chained(Append(f, e), h)
         /\ q # e.by /\ SeesOwn(q, f, Len(f), h)
              => SeesOwn(q, Append(f, e), Len(f) + 1, h)
         /\ \A j \in 1 .. Len(f) : LinkInv(f, j) => LinkInv(Append(f, e), j)
         /\ Chained(f, e.prev) /\ SeesOwn(e.by, f, Len(f), e.prev)
              => LinkInv(Append(f, e), Len(f) + 1)
<1> DEFINE g == Append(f, e)
<1>1. PICK n \in Nat : n = Len(f)
  OBVIOUS
<1>2. /\ DOMAIN f = 1 .. n /\ DOMAIN g = 1 .. n + 1
      /\ \A i \in 1 .. n : g[i] = f[i]
      /\ g[n + 1] = e
  BY <1>1
<1> HIDE DEF g
<1>3. Chained(f, h) => Chained(g, h)
  BY <1>2 DEF Chained
<1>4. ASSUME q # e.by, SeesOwn(q, f, n, h) PROVE SeesOwn(q, g, n + 1, h)
  BY <1>2, <1>4 DEF SeesOwn
<1>5. ASSUME NEW j \in 1 .. n, LinkInv(f, j) PROVE LinkInv(g, j)
  <2>1. g[j] = f[j] /\ \A k \in 1 .. j - 1 : g[k] = f[k]
    BY <1>2
  <2>2. SeesOwn(g[j].by, g, j - 1, g[j].prev)
    BY <1>5, <2>1 DEF LinkInv, SeesOwn
  <2>3. QED
    BY <1>5, <2>1, <2>2 DEF LinkInv
<1>6. ASSUME Chained(f, e.prev), SeesOwn(e.by, f, n, e.prev)
      PROVE  LinkInv(g, n + 1)
  <2>1. SeesOwn(e.by, g, n, e.prev)
    BY <1>2, <1>6 DEF SeesOwn
  <2>2. e.prev = Genesis \/ \E k \in 1 .. n : EntryHash(g[k]) = e.prev
    BY <1>2, <1>6 DEF Chained
  <2>3. QED
    BY <1>2, <2>1, <2>2 DEF LinkInv
<1>7. QED
  BY <1>1, <1>3, <1>4, <1>5, <1>6 DEF g

(* Every step keeps the chain. *)
LEMMA ChainStep ==
  ASSUME LogTypeOK, ChainInv, [LogNext]_logVars
  PROVE  ChainInv'
<1> USE DEF append
<1>1. SUFFICES ASSUME torn' = 0 PROVE ChainInv'
  BY DEF ChainInv
<1>2. torn = 0 /\ \A p \in Procs : ~TornWrite(p)
  BY <1>1 DEF LogNext, ReadChain, Sign, WriteEntry, TornWrite, Abandon,
              Exhausted, logVars, LogTypeOK
<1>3. /\ \A l \in Logs : ended[l] /\ file[l] \in Seq(Entry)
      /\ \A p \in Procs : ReadInv(p)
      /\ \A l \in Logs : \A j \in 1 .. Len(file[l]) : LinkInv(file[l], j)
  BY <1>2 DEF ChainInv
<1>4. ASSUME NEW p \in Procs, NEW x \in Payloads, ReadChain(p, x)
      PROVE  ChainInv'
  <2>1. /\ Chained(file[LogOf[p]], LastChainHash(LogOf[p]))
        /\ SeesOwn(p, file[LogOf[p]], Len(file[LogOf[p]]), LastChainHash(LogOf[p]))
    BY <1>3, ReadingIsChained
  <2>2. /\ prev' = [prev EXCEPT ![p] = LastChainHash(LogOf[p])]
        /\ phase' = [phase EXCEPT ![p] = "sign"]
        /\ UNCHANGED <<file, ended>>
    BY <1>4 DEF ReadChain
  <2>3. \A q \in Procs : ReadInv(q)'
    BY <1>3, <2>1, <2>2 DEF ReadInv, LogTypeOK
  <2>4. QED
    BY <1>3, <2>2, <2>3 DEF ChainInv
<1>5. ASSUME NEW p \in Procs, Sign(p) \/ Abandon(p)
      PROVE  ChainInv'
  <2>1. /\ UNCHANGED <<file, ended, prev>>
        /\ phase[p] # "idle"
        /\ \A q \in Procs : phase'[q] # "idle" => phase[q] # "idle"
    BY <1>5 DEF Sign, Abandon, LogTypeOK
  <2>2. QED
    BY <1>3, <2>1 DEF ChainInv, ReadInv
<1>6. ASSUME NEW p \in Procs, WriteEntry(p)
      PROVE  ChainInv'
  <2>1. PICK m \in Logs : m = LogOf[p]
    OBVIOUS
  <2>2. PICK e \in Entry : e = EntryOf(p)
    BY EntryOfType
  <2>3. /\ phase[p] = "write"
        /\ file' = [file EXCEPT ![m] = Append(file[m], e)]
        /\ ended' = [ended EXCEPT ![m] = TRUE]
        /\ phase' = [phase EXCEPT ![p] = "idle"]
        /\ UNCHANGED prev
    BY <1>3, <1>6, <2>1, <2>2 DEF WriteEntry, Appended
  <2>4. file[m] \in Seq(Entry) /\ e.by = p /\ e.prev = prev[p]
    BY <1>3, <2>2 DEF EntryOf
  <2>5. /\ file'[m] = Append(file[m], e) /\ Len(file'[m]) = Len(file[m]) + 1
        /\ \A l \in Logs : l # m => file'[l] = file[l]
    BY <2>3, <2>4 DEF LogTypeOK
  <2>6. \A l \in Logs : ended'[l] /\ file'[l] \in Seq(Entry)
    BY <1>3, <2>3, <2>4, <2>5 DEF LogTypeOK
  <2>7. ASSUME NEW q \in Procs PROVE ReadInv(q)'
    <3>1. SUFFICES ASSUME phase'[q] # "idle"
                   PROVE  /\ Chained(file'[LogOf[q]], prev[q])
                          /\ SeesOwn(q, file'[LogOf[q]], Len(file'[LogOf[q]]), prev[q])
      BY <2>3 DEF ReadInv
    <3>2. q # p /\ phase[q] # "idle" /\ LogOf[q] \in Logs
      BY <2>3, <3>1 DEF LogTypeOK
    <3>3. /\ Chained(file[LogOf[q]], prev[q])
          /\ SeesOwn(q, file[LogOf[q]], Len(file[LogOf[q]]), prev[q])
      BY <1>3, <3>2 DEF ReadInv
    <3>4. CASE LogOf[q] # m
      BY <2>5, <3>2, <3>3, <3>4
    <3>5. CASE LogOf[q] = m
      <4>1. PICK h : h = prev[q]
        OBVIOUS
      <4>2. Chained(file[m], h) /\ SeesOwn(q, file[m], Len(file[m]), h) /\ q # e.by
        BY <2>4, <3>2, <3>3, <3>5, <4>1
      <4>3. /\ Chained(Append(file[m], e), h)
            /\ SeesOwn(q, Append(file[m], e), Len(file[m]) + 1, h)
        BY <2>4, <4>2, AppendingKeepsChain
      <4>4. QED
        BY <2>5, <3>5, <4>1, <4>3
    <3>6. QED
      BY <3>4, <3>5
  <2>8. ASSUME NEW l \in Logs, NEW j \in 1 .. Len(file'[l])
        PROVE  LinkInv(file'[l], j)
    <3>1. CASE l # m
      BY <1>3, <2>5, <3>1
    <3>2. CASE l = m
      <4>1. Chained(file[m], e.prev) /\ SeesOwn(e.by, file[m], Len(file[m]), e.prev)
        BY <1>3, <2>1, <2>3, <2>4 DEF ReadInv
      <4>2. j \in 1 .. Len(file[m]) \/ j = Len(file[m]) + 1
        BY <2>4, <2>5, <3>2
      <4>3. QED
        BY <1>3, <2>4, <2>5, <3>2, <4>1, <4>2, AppendingKeepsChain
    <3>3. QED
      BY <3>1, <3>2
  <2>9. QED
    BY <2>6, <2>7, <2>8 DEF ChainInv
<1>7. CASE UNCHANGED logVars
  BY <1>7 DEF logVars, ChainInv, ReadInv
<1>8. QED
  BY <1>2, <1>4, <1>5, <1>6, <1>7 DEF LogNext, Exhausted

LEMMA ChainIsSound ==
  ASSUME Payloads # {}
  PROVE  LogSpec => [](LinksResolve /\ ReadYourAppends)
<1>1. LogInit => ChainInv
  BY DEF LogInit, ChainInv, ReadInv
<1>2. LogTypeOK /\ ChainInv /\ [LogNext]_logVars => ChainInv'
  BY ChainStep
<1>3. ASSUME LogTypeOK, ChainInv
      PROVE  LinksResolve /\ ReadYourAppends
  <2>1. SUFFICES ASSUME torn = 0, NEW l \in Logs, NEW j \in DOMAIN file[l]
                 PROVE  /\ \/ file[l][j].prev = Genesis
                           \/ \E k \in 1 .. j - 1 : EntryHash(file[l][k]) = file[l][j].prev
                        /\ \A i \in DOMAIN file[l] :
                             i < j /\ file[l][i].by = file[l][j].by
                               => \E k \in i .. j - 1 : EntryHash(file[l][k]) = file[l][j].prev
    BY DEF LinksResolve, ReadYourAppends
  <2>2. DOMAIN file[l] = 1 .. Len(file[l]) /\ Len(file[l]) \in Nat
    BY <1>3 DEF LogTypeOK
  <2>3. LinkInv(file[l], j)
    BY <1>3, <2>1, <2>2 DEF ChainInv
  <2>4. \A i \in 1 .. j - 1 : file[l][i].by = file[l][j].by
          => \E k \in i .. j - 1 : EntryHash(file[l][k]) = file[l][j].prev
    BY <2>3 DEF LinkInv, SeesOwn
  <2>5. \A i \in DOMAIN file[l] : i < j => i \in 1 .. j - 1
    BY <2>2
  <2>6. QED
    BY <2>3, <2>4, <2>5 DEF LinkInv
<1>4. QED
  BY <1>1, <1>2, <1>3, LogTypeCorrect, PTL DEF LogSpec

(* However many processes append at once, as long as no write is cut short *)
(* every link leads back to an entry of the log (transparency.py:164-197). *)
THEOREM LinksLeadBack ==
  ASSUME Payloads # {}
  PROVE  LogSpec => []LinksResolve
BY ChainIsSound, PTL

(* No process chains two of its entries to the same one, as long as no     *)
(* write is cut short: what it reads is never older than what it appended. *)
THEOREM WritersSeeTheirOwn ==
  ASSUME Payloads # {}
  PROVE  LogSpec => []ReadYourAppends
BY ChainIsSound, PTL

-----------------------------------------------------------------------------
(* What has been returned stays.  The last line of a file without final    *)
(* newline is the one a later append destroys: no returned entry is one,   *)
(* because payloads are never used twice.                                  *)
Active(p) == phase[p] # "idle"

FreshInv ==
  /\ \A l \in Logs : \A i \in DOMAIN file[l] :
       Readable(file[l][i]) => file[l][i].payload \in issued
  /\ \A e \in returned : e.payload \in issued
  /\ \A p \in Procs : Active(p) =>
       /\ payload[p] \in issued
       /\ \A e \in returned : e.payload # payload[p]
       /\ \A q \in Procs : Active(q) /\ payload[q] = payload[p] => q = p
  /\ \A l \in Logs : ~ended[l] =>
       /\ file[l] # <<>>
       /\ LET last == file[l][Len(file[l])]
          IN /\ last \notin returned
             /\ Readable(last) => \A p \in Procs : Active(p) => payload[p] # last.payload

(* Appending adds one line, or spoils the last one. *)
LEMMA AppendedLines ==
  ASSUME LogTypeOK, FreshInv, NEW l \in Logs, NEW line \in Entry \cup {Garbage}
  PROVE  /\ Len(Appended(l, line)) \in Nat \ {0}
         /\ DOMAIN Appended(l, line) = 1 .. Len(Appended(l, line))
         /\ Appended(l, line)[Len(Appended(l, line))] = IF ended[l] THEN line ELSE Garbage
         /\ ended[l] => Len(Appended(l, line)) = Len(file[l]) + 1
         /\ ~ended[l] => Len(Appended(l, line)) = Len(file[l])
         /\ \A i \in DOMAIN file[l] :
              ended[l] \/ i # Len(file[l]) => Appended(l, line)[i] = file[l][i]
<1>1. PICK f \in Seq(Entry \cup {Garbage}) : f = file[l]
  BY DEF LogTypeOK
<1>2. CASE ended[l]
  BY <1>1, <1>2 DEF Appended
<1>3. CASE ~ended[l]
  <2>1. Len(f) \in 1 .. Len(f)
    BY <1>1, <1>3 DEF FreshInv
  <2>2. Appended(l, line) = [f EXCEPT ![Len(f)] = Garbage]
    BY <1>1, <1>3 DEF Appended
  <2>3. Len([f EXCEPT ![Len(f)] = Garbage]) = Len(f)
    BY <2>1, ExceptSeq
  <2>4. QED
    BY <1>1, <1>3, <2>1, <2>2, <2>3
<1>4. QED
  BY <1>2, <1>3

(* Appending a line keeps FreshInv for the lines of its log. *)
LEMMA AppendKeepsLines ==
  ASSUME LogTypeOK, FreshInv, NEW p \in Procs, NEW line \in {EntryOf(p), Garbage},
         Active(p), NEW i \in DOMAIN Appended(LogOf[p], line),
         Readable(Appended(LogOf[p], line)[i])
  PROVE  Appended(LogOf[p], line)[i].payload \in issued
<1>1. PICK l \in Logs : l = LogOf[p]
  OBVIOUS
<1>2. line \in Entry \cup {Garbage}
  BY EntryOfType
<1>3. EntryOf(p).payload \in issued
  BY DEF FreshInv, EntryOf
<1>4. file[l] \in Seq(Entry \cup {Garbage})
  BY DEF LogTypeOK
<1>5. CASE i \in DOMAIN file[l] /\ (ended[l] \/ i # Len(file[l]))
  BY <1>1, <1>2, <1>5, AppendedLines DEF FreshInv
<1>6. CASE ~(i \in DOMAIN file[l] /\ (ended[l] \/ i # Len(file[l])))
  <2>1. i = Len(Appended(l, line))
    BY <1>1, <1>2, <1>4, <1>6, AppendedLines
  <2>2. Appended(l, line)[i] \in {EntryOf(p), Garbage}
    BY <1>2, <2>1, AppendedLines
  <2>3. QED
    BY <1>1, <1>3, <2>2 DEF Readable
<1>7. QED
  BY <1>5, <1>6

(* Every step keeps payloads fresh and unended lines unreturned. *)
LEMMA FreshStep ==
  ASSUME LogTypeOK, FreshInv, [LogNext]_logVars
  PROVE  FreshInv'
<1> USE DEF append, LogTypeOK
<1>1. ASSUME NEW p \in Procs, NEW x \in Payloads, ReadChain(p, x)
      PROVE  FreshInv'
  <2>1. /\ x \notin issued /\ issued' = issued \cup {x}
        /\ payload' = [payload EXCEPT ![p] = x]
        /\ phase' = [phase EXCEPT ![p] = "sign"] /\ phase[p] = "idle"
        /\ UNCHANGED <<file, ended, returned>>
    BY <1>1 DEF ReadChain
  <2>2. \A l \in Logs : ~ended[l] => file[l] # <<>> /\ Len(file[l]) \in DOMAIN file[l]
    BY DEF FreshInv
  <2>3. QED
    BY <2>1, <2>2 DEF FreshInv, Active
<1>2. ASSUME NEW p \in Procs, Sign(p) \/ Abandon(p)
      PROVE  FreshInv'
  <2>1. /\ UNCHANGED <<file, ended, returned, issued, payload>>
        /\ \A q \in Procs : Active(q)' => Active(q)
    BY <1>2 DEF Sign, Abandon, Active
  <2>2. QED
    BY <2>1 DEF FreshInv
<1>3. ASSUME NEW p \in Procs, NEW line \in {EntryOf(p), Garbage}, phase[p] = "write",
             file' = [file EXCEPT ![LogOf[p]] = Appended(LogOf[p], line)],
             phase' = [phase EXCEPT ![p] = "idle"], UNCHANGED <<payload, issued>>,
             \/ /\ ended' = [ended EXCEPT ![LogOf[p]] = TRUE]
                /\ returned' = returned \cup {EntryOf(p)}
             \/ /\ ended' = [ended EXCEPT ![LogOf[p]] = FALSE]
                /\ returned' = returned
      PROVE  FreshInv'
  <2>1. PICK m \in Logs : m = LogOf[p]
    OBVIOUS
  <2>2. Active(p) /\ EntryOf(p).payload = payload[p] /\ EntryOf(p) \in Entry
    BY <1>3, EntryOfType DEF Active, EntryOf
  <2>3. \A q \in Procs : Active(q)' => Active(q) /\ q # p
    BY <1>3 DEF Active
  <2>4. /\ file'[m] = Appended(m, line)
        /\ \A l \in Logs : l # m => file'[l] = file[l] /\ ended'[l] = ended[l]
    BY <1>3, <2>1
  <2>5. ASSUME NEW l \in Logs, NEW i \in DOMAIN file'[l], Readable(file'[l][i])
        PROVE  file'[l][i].payload \in issued'
    BY <1>3, <2>1, <2>2, <2>4, <2>5, AppendKeepsLines DEF FreshInv
  <2>6. \A e \in returned' : e.payload \in issued'
    BY <1>3, <2>2 DEF FreshInv
  <2>7. ASSUME NEW q \in Procs, Active(q)'
        PROVE  /\ payload'[q] \in issued'
               /\ \A e \in returned' : e.payload # payload'[q]
               /\ \A r \in Procs : Active(r)' /\ payload'[r] = payload'[q] => r = q
    BY <1>3, <2>2, <2>3, <2>7 DEF FreshInv
  <2>8. ASSUME NEW l \in Logs, ~ended'[l]
        PROVE  /\ file'[l] # <<>>
               /\ file'[l][Len(file'[l])] \notin returned'
               /\ Readable(file'[l][Len(file'[l])]) =>
                    \A q \in Procs : Active(q)' => payload'[q] # file'[l][Len(file'[l])].payload
    <3>1. PICK last : last = file'[l][Len(file'[l])]
      OBVIOUS
    <3>2. CASE l # m
      <4>1. file[l] # <<>> /\ last = file[l][Len(file[l])] /\ ~ended[l] /\ file'[l] = file[l]
        BY <2>4, <2>8, <3>1, <3>2 DEF FreshInv
      <4>2. /\ last \notin returned
            /\ Readable(last) => \A q \in Procs : Active(q) => payload[q] # last.payload
        BY <4>1 DEF FreshInv
      <4>3. last \in Entry \cup {Garbage}
        BY <4>1
      <4>4. last # EntryOf(p)
        BY <2>2, <4>2, GarbageIsNoEntry DEF Readable
      <4>5. QED
        BY <1>3, <2>3, <3>1, <4>1, <4>2, <4>4
    <3>3. CASE l = m
      <4>1. returned' = returned
        BY <1>3, <2>1, <2>8, <3>3
      <4>2. /\ last \in {EntryOf(p), Garbage}
            /\ file'[l] # <<>>
        BY <1>3, <2>2, <2>4, <3>1, <3>3, AppendedLines
      <4>3. EntryOf(p) \notin returned /\ Garbage \notin returned
        BY <2>2, GarbageIsNoEntry DEF FreshInv
      <4>4. \A q \in Procs : Active(q)' => payload'[q] # EntryOf(p).payload
        BY <1>3, <2>2, <2>3 DEF FreshInv
      <4>5. QED
        BY <3>1, <4>1, <4>2, <4>3, <4>4 DEF Readable
    <3>4. QED
      BY <3>2, <3>3
  <2>9. QED
    BY <2>5, <2>6, <2>7, <2>8 DEF FreshInv
<1>4. ASSUME NEW p \in Procs, WriteEntry(p)
      PROVE  FreshInv'
  BY <1>3, <1>4 DEF WriteEntry
<1>5. ASSUME NEW p \in Procs, TornWrite(p)
      PROVE  FreshInv'
  BY <1>3, <1>5 DEF TornWrite
<1>6. CASE UNCHANGED logVars
  BY <1>6 DEF logVars, FreshInv, Active
<1>7. QED
  BY <1>1, <1>2, <1>4, <1>5, <1>6 DEF LogNext, Exhausted

(* A step spoils no line but one that was not returned.                    *)
LEMMA ReturnedStep ==
  ASSUME LogTypeOK, FreshInv, [LogNext]_logVars, NEW entry \in returned, OnFile(entry)
  PROVE  OnFile(entry)'
<1>1. PICK l \in Logs : \E i \in DOMAIN file[l] : l = LogOf[entry.by] /\ file[l][i] = entry
  BY DEF OnFile, LogTypeOK, Entry
<1>2. PICK i \in DOMAIN file[l] : l = LogOf[entry.by] /\ file[l][i] = entry
  BY <1>1
<1>3. CASE file'[l] = file[l]
  BY <1>3, <1>2 DEF OnFile
<1>4. CASE \E p \in Procs : \E line \in {EntryOf(p), Garbage} :
             /\ l = LogOf[p]
             /\ file'[l] = Appended(l, line)
  <2>1. PICK p \in Procs : \E line \in {EntryOf(p), Garbage} :
          l = LogOf[p] /\ file'[l] = Appended(l, line)
    BY <1>4
  <2>2. PICK line \in {EntryOf(p), Garbage} :
          l = LogOf[p] /\ file'[l] = Appended(l, line)
    BY <2>1
  <2>3. line \in Entry \cup {Garbage}
    BY EntryOfType
  <2>4. ended[l] \/ i # Len(file[l])
    BY <1>2 DEF FreshInv
  <2>5. i \in DOMAIN file'[l] /\ file'[l][i] = file[l][i]
    BY <1>2, <2>2, <2>3, <2>4, AppendedLines DEF LogTypeOK
  <2>6. QED
    BY <1>2, <2>5 DEF OnFile
<1>5. file'[l] = file[l] \/
      \E p \in Procs : \E line \in {EntryOf(p), Garbage} :
        l = LogOf[p] /\ file'[l] = Appended(l, line)
  BY DEF LogNext, ReadChain, Sign, WriteEntry, TornWrite, Abandon, Exhausted,
              logVars, LogTypeOK
<1>6. QED
  BY <1>3, <1>4, <1>5

(* Whatever is torn, killed or raced: an entry whose append has returned   *)
(* and that is in the log is never lost by a later step.                   *)
THEOREM ReturnedEntriesStay ==
  ASSUME Payloads # {}
  PROVE  LogSpec => ReturnedStays
<1>1. LogInit => FreshInv
  BY DEF LogInit, FreshInv, Active
<1>2. LogTypeOK /\ FreshInv /\ [LogNext]_logVars => FreshInv'
  BY FreshStep
<1>3. LogTypeOK /\ FreshInv /\ [LogNext]_logVars =>
        [\A entry \in returned : OnFile(entry) => OnFile(entry)']_logVars
  BY ReturnedStep
<1>4. QED
  BY <1>1, <1>2, <1>3, LogTypeCorrect, PTL DEF LogSpec, ReturnedStays

-----------------------------------------------------------------------------
(* What may still be lost: each log whose last line is cut short can spoil *)
(* the next entry.                                                         *)
Lost == {entry \in returned : ~OnFile(entry)}
Unended == {l \in Logs : ~ended[l]}

LossInv ==
  /\ IsFiniteSet(Lost) /\ IsFiniteSet(Unended)
  /\ Cardinality(Lost) + Cardinality(Unended) <= torn

(* One element more is counted once at most.                               *)
LEMMA OneMore ==
  ASSUME NEW S, NEW x, IsFiniteSet(S)
  PROVE  IsFiniteSet(S \cup {x}) /\ Cardinality(S \cup {x}) <= Cardinality(S) + 1
<1>1. Cardinality(S) \in Nat
  BY FS_CardinalityType
<1>2. /\ IsFiniteSet(S \cup {x})
      /\ Cardinality(S \cup {x}) = IF x \in S THEN Cardinality(S) ELSE Cardinality(S) + 1
  BY FS_AddElement
<1>3. QED
  BY <1>1, <1>2

(* A step that neither loses an entry nor cuts a line short.               *)
LEMMA LossKept ==
  ASSUME LossInv, torn \in Nat, torn' \in Nat, torn <= torn',
         Lost' \subseteq Lost, Unended' \subseteq Unended
  PROVE  LossInv'
<1>1. /\ IsFiniteSet(Lost') /\ Cardinality(Lost') <= Cardinality(Lost)
      /\ IsFiniteSet(Unended') /\ Cardinality(Unended') <= Cardinality(Unended)
  BY FS_Subset DEF LossInv
<1>2. /\ Cardinality(Lost) \in Nat /\ Cardinality(Unended) \in Nat
      /\ Cardinality(Lost') \in Nat /\ Cardinality(Unended') \in Nat
  BY <1>1, FS_CardinalityType DEF LossInv
<1>3. QED
  BY <1>1, <1>2 DEF LossInv

LEMMA LossStep ==
  ASSUME LogTypeOK, LogTypeOK', FreshInv, LossInv, [LogNext]_logVars
  PROVE  LossInv'
<1> USE DEF append
<1>1. torn \in Nat /\ torn' \in Nat
  BY DEF LogTypeOK
<1>2. \A entry \in returned : OnFile(entry) => OnFile(entry)'
  BY ReturnedStep
<1>3. ASSUME returned' = returned, ended' = ended, torn' = torn
      PROVE  LossInv'
  <2>1. Lost' \subseteq Lost /\ Unended' = Unended
    BY <1>2, <1>3 DEF Lost, Unended
  <2>2. QED
    BY <1>1, <1>3, <2>1, LossKept
<1>4. ASSUME NEW p \in Procs, WriteEntry(p)
      PROVE  LossInv'
  <2>0. PICK e : e = EntryOf(p)
    OBVIOUS
  <2>1. PICK l \in Logs : l = LogOf[p]
    OBVIOUS
  <2>2. /\ returned' = returned \cup {e} /\ torn' = torn /\ e \in Entry
        /\ ended' = [ended EXCEPT ![l] = TRUE] /\ file'[l] = Appended(l, e)
    BY <1>4, <2>0, <2>1, EntryOfType DEF WriteEntry, LogTypeOK
  <2>3. Unended' = Unended \ {l}
    BY <2>2 DEF Unended, LogTypeOK
  <2>4. CASE ended[l]
    <3>1. OnFile(e)'
      <4>1. /\ Len(Appended(l, e)) \in DOMAIN Appended(l, e)
            /\ Appended(l, e)[Len(Appended(l, e))] = e
        <5>1. PICK lines : lines = Appended(l, e)
          OBVIOUS
        <5>2. /\ Len(lines) \in Nat \ {0} /\ DOMAIN lines = 1 .. Len(lines)
              /\ lines[Len(lines)] = IF ended[l] THEN e ELSE Garbage
          BY <2>2, <5>1, AppendedLines
        <5>3. QED
          BY <2>4, <5>1, <5>2
      <4>2. LogOf[e.by] = l
        BY <2>0, <2>1 DEF EntryOf
      <4>3. QED
        BY <2>2, <4>1, <4>2 DEF OnFile
    <3>2. Lost' \subseteq Lost
      BY <1>2, <2>2, <3>1 DEF Lost
    <3>3. QED
      BY <1>1, <2>2, <2>3, <3>2, LossKept
  <2>5. CASE ~ended[l]
    <3>1. Lost' \subseteq Lost \cup {e}
      BY <1>2, <2>2 DEF Lost
    <3>2. /\ IsFiniteSet(Lost \cup {e}) /\ Cardinality(Lost \cup {e}) <= Cardinality(Lost) + 1
          /\ Cardinality(Lost) \in Nat /\ Cardinality(Unended) \in Nat
      <4>1. /\ IsFiniteSet(Lost) /\ IsFiniteSet(Unended)
            /\ Cardinality(Lost) \in Nat /\ Cardinality(Unended) \in Nat
        BY FS_CardinalityType DEF LossInv
      <4>2. QED
        BY <4>1, OneMore
    <3>3. /\ IsFiniteSet(Unended') /\ Cardinality(Unended') = Cardinality(Unended) - 1
      <4>1. l \in Unended /\ IsFiniteSet(Unended)
        BY <2>5 DEF Unended, LossInv
      <4>2. IsFiniteSet(Unended \ {l}) /\ Cardinality(Unended \ {l}) = Cardinality(Unended) - 1
        BY <4>1, FS_RemoveElement
      <4>3. QED
        BY <2>3, <4>2
    <3>4. IsFiniteSet(Lost') /\ Cardinality(Lost') <= Cardinality(Lost \cup {e})
      BY <3>1, <3>2, FS_Subset
    <3>5. Cardinality(Lost') \in Nat /\ Cardinality(Lost \cup {e}) \in Nat
      BY <3>2, <3>4, FS_CardinalityType
    <3>6. QED
      BY <1>1, <2>2, <3>2, <3>3, <3>4, <3>5 DEF LossInv
  <2>6. QED
    BY <2>4, <2>5
<1>5. ASSUME NEW p \in Procs, TornWrite(p)
      PROVE  LossInv'
  <2>1. PICK l \in Logs : l = LogOf[p]
    OBVIOUS
  <2>2. returned' = returned /\ torn' = torn + 1 /\ ended' = [ended EXCEPT ![l] = FALSE]
    BY <1>5, <2>1 DEF TornWrite
  <2>3. Lost' \subseteq Lost /\ Unended' \subseteq Unended \cup {l}
    BY <1>2, <2>2 DEF Lost, Unended, LogTypeOK
  <2>4. /\ IsFiniteSet(Unended \cup {l})
        /\ Cardinality(Unended \cup {l}) <= Cardinality(Unended) + 1
        /\ Cardinality(Lost) \in Nat /\ Cardinality(Unended) \in Nat
    <3>1. /\ IsFiniteSet(Lost) /\ IsFiniteSet(Unended)
          /\ Cardinality(Lost) \in Nat /\ Cardinality(Unended) \in Nat
      BY FS_CardinalityType DEF LossInv
    <3>2. QED
      BY <3>1, OneMore
  <2>5. /\ IsFiniteSet(Unended') /\ Cardinality(Unended') <= Cardinality(Unended \cup {l})
        /\ IsFiniteSet(Lost') /\ Cardinality(Lost') <= Cardinality(Lost)
    BY <2>3, <2>4, FS_Subset DEF LossInv
  <2>6. /\ Cardinality(Unended') \in Nat /\ Cardinality(Lost') \in Nat
        /\ Cardinality(Unended \cup {l}) \in Nat
    BY <2>4, <2>5, FS_CardinalityType
  <2>7. QED
    BY <1>1, <2>2, <2>4, <2>5, <2>6 DEF LossInv
<1>6. ASSUME NEW p \in Procs, Sign(p) \/ Abandon(p) \/ \E x \in Payloads : ReadChain(p, x)
      PROVE  LossInv'
  BY <1>3, <1>6 DEF Sign, Abandon, ReadChain
<1>7. CASE UNCHANGED logVars
  BY <1>3, <1>7 DEF logVars
<1>8. QED
  BY <1>4, <1>5, <1>6, <1>7 DEF LogNext, Exhausted

(* However many processes write, are killed and cut their writes short: no *)
(* more returned entries are lost than writes were cut short.              *)
THEOREM LossIsBounded ==
  ASSUME Payloads # {}
  PROVE  LogSpec => []LossBoundedByTears
<1>1. LogInit => FreshInv /\ LossInv
  <2>1. LogInit => FreshInv
    BY DEF LogInit, FreshInv, Active
  <2>2. LogInit => Lost = {} /\ Unended = {} /\ torn = 0
    BY DEF LogInit, Lost, Unended
  <2>3. QED
    BY <2>1, <2>2, FS_EmptySet DEF LossInv
<1>2. LogTypeOK /\ FreshInv /\ [LogNext]_logVars => FreshInv'
  BY FreshStep
<1>3. LogTypeOK /\ LogTypeOK' /\ FreshInv /\ LossInv /\ [LogNext]_logVars => LossInv'
  BY LossStep
<1>4. LogTypeOK /\ LossInv => LossBoundedByTears
  <2>1. SUFFICES ASSUME LogTypeOK, LossInv PROVE LossBoundedByTears
    OBVIOUS
  <2>2. Cardinality(Lost) \in Nat /\ Cardinality(Unended) \in Nat
    BY <2>1, FS_CardinalityType DEF LossInv
  <2>3. QED
    BY <2>1, <2>2 DEF LossInv, LogTypeOK, LossBoundedByTears, Lost
<1>5. QED
  BY <1>1, <1>2, <1>3, <1>4, LogTypeCorrect, PTL DEF LogSpec

-----------------------------------------------------------------------------
(* A log with one writer whose writes all end: what the process has read   *)
(* is still the end of the chain when it writes.                           *)
OwnLogInv ==
  /\ torn = 0
  /\ \A l \in Logs : ended[l] /\ file[l] \in Seq(Entry)
  /\ \A p \in Procs : Active(p) => prev[p] = LastChainHash(LogOf[p])
  /\ \A l \in Logs : \A j \in 1 .. Len(file[l]) :
       file[l][j].prev = IF j = 1 THEN Genesis ELSE EntryHash(file[l][j - 1])

(* The log of a process of its own is one chain in the order of its lines, *)
(* as the module's text promises; ChainIsLinear fails only for shared logs *)
(* and cut writes.                                                         *)
THEOREM OwnLogIsLinear ==
  ASSUME Payloads # {}, MaxTorn = 0,
         \A p, q \in Procs : LogOf[p] = LogOf[q] => p = q
  PROVE  LogSpec => []ChainIsLinear
<1>1. LogInit => OwnLogInv
  BY DEF LogInit, OwnLogInv, Active
<1>2. ASSUME LogTypeOK, OwnLogInv, [LogNext]_logVars
      PROVE  OwnLogInv'
  <2> USE <1>2 DEF append, LogTypeOK
  <2>1. ASSUME NEW p \in Procs, NEW x \in Payloads, ReadChain(p, x)
        PROVE  OwnLogInv'
    BY <2>1 DEF ReadChain, OwnLogInv, Active, LastChainHash
  <2>2. ASSUME NEW p \in Procs, Sign(p) \/ Abandon(p)
        PROVE  OwnLogInv'
    <3>1. UNCHANGED <<file, ended, prev, torn>>
      BY <2>2 DEF Sign, Abandon
    <3>2. \A q \in Procs : Active(q)' => Active(q)
      BY <2>2 DEF Sign, Abandon, Active
    <3>3. \A l \in Logs : LastChainHash(l)' = LastChainHash(l)
      BY <3>1 DEF LastChainHash
    <3>4. \A q \in Procs : LogOf[q] \in Logs
      BY LogAssumption
    <3>5. QED
      BY <3>1, <3>2, <3>3, <3>4 DEF OwnLogInv
  <2>3. ASSUME NEW p \in Procs, WriteEntry(p)
        PROVE  OwnLogInv'
    <3>1. PICK m \in Logs : m = LogOf[p]
      OBVIOUS
    <3>2. PICK e \in Entry : e = EntryOf(p)
      BY EntryOfType
    <3>3. /\ file' = [file EXCEPT ![m] = Append(file[m], e)]
          /\ ended' = [ended EXCEPT ![m] = TRUE]
          /\ phase' = [phase EXCEPT ![p] = "idle"] /\ phase[p] = "write"
          /\ UNCHANGED <<prev, torn>>
      BY <2>3, <3>1, <3>2 DEF WriteEntry, Appended, OwnLogInv
    <3>4. file[m] \in Seq(Entry) /\ e.prev = LastChainHash(m)
      BY <3>1, <3>2, <3>3 DEF EntryOf, OwnLogInv, Active
    <3>5. PICK n \in Nat : n = Len(file[m])
      BY <3>4
    <3>6. e.prev = IF n = 0 THEN Genesis ELSE EntryHash(file[m][n])
      <4>1. CASE n = 0
        <5>1. file[m] = <<>>
          BY <3>4, <3>5, <4>1, EmptySeq
        <5>2. LastChainHash(m) = Genesis
          BY <5>1, Zenon DEF LastChainHash
        <5>3. QED
          BY <3>4, <4>1, <5>2
      <4>2. CASE n # 0
        <5>1. file[m][n] \in Entry /\ file[m] # <<>>
          BY <3>4, <3>5, <4>2
        <5>2. QED
          BY <3>4, <3>5, <4>2, <5>1, GarbageIsNoEntry DEF LastChainHash, Readable
      <4>3. QED
        BY <4>1, <4>2
    <3>7. /\ file'[m] \in Seq(Entry) /\ Len(file'[m]) = n + 1
          /\ \A i \in 1 .. n : file'[m][i] = file[m][i]
          /\ file'[m][n + 1] = e
          /\ \A l \in Logs : l # m => file'[l] = file[l]
      BY <3>3, <3>4, <3>5
    <3>8. \A q \in Procs : Active(q)' => Active(q) /\ LogOf[q] # m /\ LogOf[q] \in Logs
      BY <3>1, <3>3 DEF Active
    <3>9. \A q \in Procs : Active(q)' => prev'[q] = LastChainHash(LogOf[q])'
      BY <3>3, <3>7, <3>8 DEF OwnLogInv, LastChainHash
    <3>10. ASSUME NEW l \in Logs, NEW j \in 1 .. Len(file'[l])
           PROVE  file'[l][j].prev = IF j = 1 THEN Genesis ELSE EntryHash(file'[l][j - 1])
      <4>1. CASE l # m
        BY <3>7, <4>1 DEF OwnLogInv
      <4>2. CASE l = m /\ j # n + 1
        <5>1. j \in 1 .. n /\ (j = 1 \/ j - 1 \in 1 .. n)
          BY <3>7, <4>2
        <5>2. file'[m][j] = file[m][j] /\ (j # 1 => file'[m][j - 1] = file[m][j - 1])
          BY <3>7, <5>1
        <5>3. file[m][j].prev = IF j = 1 THEN Genesis ELSE EntryHash(file[m][j - 1])
          <6>1. \A i \in 1 .. Len(file[m]) :
                  file[m][i].prev = IF i = 1 THEN Genesis ELSE EntryHash(file[m][i - 1])
            BY Zenon DEF OwnLogInv
          <6>2. j \in 1 .. Len(file[m])
            BY <3>5, <5>1
          <6>3. QED
            BY <6>1, <6>2, Zenon
        <5>4. CASE j = 1
          BY <4>2, <5>2, <5>3, <5>4
        <5>5. CASE j # 1
          <6>1. EntryHash(file'[m][j - 1]) = EntryHash(file[m][j - 1])
            BY <5>2, <5>5
          <6>2. QED
            BY <4>2, <5>2, <5>3, <5>5, <6>1
        <5>6. QED
          BY <5>4, <5>5
      <4>3. CASE l = m /\ j = n + 1
        BY <3>6, <3>7, <4>3
      <4>4. QED
        BY <4>1, <4>2, <4>3
    <3>11. QED
      BY <3>3, <3>7, <3>9, <3>10 DEF OwnLogInv
  <2>4. ASSUME NEW p \in Procs, TornWrite(p)
        PROVE  FALSE
    BY <2>4 DEF TornWrite, OwnLogInv
  <2>5. ASSUME UNCHANGED logVars
        PROVE  OwnLogInv'
    BY <2>5 DEF logVars, OwnLogInv, Active, LastChainHash
  <2>6. QED
    BY <2>1, <2>2, <2>3, <2>4, <2>5 DEF LogNext, Exhausted
<1>3. ASSUME LogTypeOK, OwnLogInv
      PROVE  ChainIsLinear
  <2>1. SUFFICES ASSUME NEW l \in Logs, NEW j \in DOMAIN file[l]
                 PROVE  \E i \in 0 .. j - 1 :
                          /\ \A k \in i + 1 .. j - 1 : ~Readable(file[l][k])
                          /\ IF i = 0 THEN file[l][j].prev = Genesis
                             ELSE /\ Readable(file[l][i])
                                  /\ file[l][j].prev = EntryHash(file[l][i])
    BY DEF ChainIsLinear
  <2>2. /\ j \in 1 .. Len(file[l]) /\ \A k \in 1 .. Len(file[l]) : file[l][k] \in Entry
        /\ file[l][j].prev = IF j = 1 THEN Genesis ELSE EntryHash(file[l][j - 1])
    BY <1>3 DEF OwnLogInv
  <2>3. j - 1 \in 0 .. j - 1 /\ j - 1 + 1 .. j - 1 = {} /\ (j = 1 <=> j - 1 = 0)
    BY <2>2
  <2>4. j # 1 => Readable(file[l][j - 1])
    BY <2>2, GarbageIsNoEntry DEF Readable
  <2>5. QED
    BY <2>2, <2>3, <2>4
<1>4. QED
  BY <1>1, <1>2, <1>3, LogTypeCorrect, PTL DEF LogSpec
=============================================================================
