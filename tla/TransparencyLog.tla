--------------------------- MODULE TransparencyLog ---------------------------
(***************************************************************************)
(* The append-only audit log of src/security/transparency.py.  Appending   *)
(* reads the hash of the last line, signs, offers the signature to Rekor   *)
(* and only then appends a line chained to the hash it read; nothing       *)
(* excludes another process in between, and a process may die in between   *)
(* or in the middle of the line.                                           *)
(*                                                                         *)
(* A hash is what it commits to: the sequence of the payloads of the chain *)
(* that ends in the entry.  The hash of no entry is the empty sequence.    *)
(***************************************************************************)
EXTENDS Naturals, Sequences, FiniteSets

CONSTANTS
  Procs,        (* processes that append *)
  Logs,         (* log files, one per file system the processes see *)
  LogOf,        (* the log each process appends to *)
  Payloads,     (* payloads; each carries a fresh activity id *)
  RekorUpload,  (* REKOR_UPLOAD = "1" *)
  MaxTorn       (* bound: writes that are cut short *)

ASSUME LogAssumption ==
  /\ LogOf \in [Procs -> Logs]
  /\ RekorUpload \in BOOLEAN
  /\ MaxTorn \in Nat

VARIABLES
  file,       (* per log: its lines *)
  ended,      (* per log: whether its last line ends with a newline *)
  rekor,      (* hashes Rekor has recorded *)
  phase,      (* per process: where it is in append_signed_audit_entry *)
  prev,       (* per process: prev_hash *)
  payload,    (* per process: what it appends *)
  witnessed,  (* per process: whether it got a rekor_uuid *)
  issued,     (* history: payloads appended so far *)
  returned,   (* history: the entries whose append returned *)
  torn        (* number of writes cut short *)

append == <<phase, prev, payload, witnessed>>
logVars == <<file, ended, rekor, append, issued, returned, torn>>

Hash == Seq(Payloads)
Genesis == <<>>
Entry == [by : Procs, prev : Hash, payload : Payloads, rekor_uuid : BOOLEAN]

(* A line that json.loads refuses. *)
Garbage == [garbage |-> TRUE]
Readable(line) == line # Garbage

LogTypeOK ==
  /\ file \in [Logs -> Seq(Entry \cup {Garbage})]
  /\ ended \in [Logs -> BOOLEAN]
  /\ rekor \subseteq Hash
  /\ phase \in [Procs -> {"idle", "sign", "write"}]
  /\ prev \in [Procs -> Hash]
  /\ payload \in [Procs -> Payloads]
  /\ witnessed \in [Procs -> BOOLEAN]
  /\ issued \subseteq Payloads
  /\ returned \subseteq Entry
  /\ torn \in Nat

LogInit ==
  /\ file = [l \in Logs |-> <<>>]
  /\ ended = [l \in Logs |-> TRUE]
  /\ rekor = {}
  /\ phase = [p \in Procs |-> "idle"]
  /\ prev = [p \in Procs |-> Genesis]
  /\ payload = [p \in Procs |-> CHOOSE x \in Payloads : TRUE]
  /\ witnessed = [p \in Procs |-> FALSE]
  /\ issued = {}
  /\ returned = {}
  /\ torn = 0

-----------------------------------------------------------------------------
(* The operators named Faulty... are not the code: each is a bug that could *)
(* be made in the definition that follows it.                               *)

EntryHash(entry) == Append(entry.prev, entry.payload)

(* The first line is taken for the last. *)
FaultyLastChainHash(l) ==
  IF file[l] # <<>> /\ Readable(file[l][1]) THEN EntryHash(file[l][1]) ELSE Genesis

(* _last_chain_hash: the hash of the last line, that of no entry when there *)
(* is none or it cannot be parsed.                                          *)
LastChainHash(l) ==
  LET lines == file[l]
  IN IF lines # <<>> /\ Readable(lines[Len(lines)])
     THEN EntryHash(lines[Len(lines)])
     ELSE Genesis

(* The entry process p is about to append. *)
EntryOf(p) == [by |-> p, prev |-> prev[p], payload |-> payload[p],
               rekor_uuid |-> witnessed[p]]

(* The file is opened with mode "w". *)
FaultyAppended(l, line) == <<line>>

(* The lines after appending line: a file that does not end with a newline *)
(* has it glued to its last line.                                          *)
Appended(l, line) ==
  IF ended[l] THEN Append(file[l], line)
  ELSE [file[l] EXCEPT ![Len(file[l])] = Garbage]

(* append_signed_audit_entry starts: the chain hash is read.               *)
ReadChain(p, x) ==
  /\ phase[p] = "idle"
  /\ x \notin issued
  /\ issued' = issued \cup {x}
  /\ payload' = [payload EXCEPT ![p] = x]
  /\ prev' = [prev EXCEPT ![p] = LastChainHash(LogOf[p])]
  /\ witnessed' = [witnessed EXCEPT ![p] = FALSE]
  /\ phase' = [phase EXCEPT ![p] = "sign"]
  /\ UNCHANGED <<file, ended, rekor, returned, torn>>

(* The entry is signed and, when uploads are on, offered to Rekor, which   *)
(* may record it and answer, record it and be heard too late, or neither.  *)
Sign(p) ==
  /\ phase[p] = "sign"
  /\ phase' = [phase EXCEPT ![p] = "write"]
  /\ \/ UNCHANGED <<rekor, witnessed>>
     \/ /\ RekorUpload
        /\ rekor' = rekor \cup {EntryHash(EntryOf(p))}
        /\ \E answered \in BOOLEAN : witnessed' = [witnessed EXCEPT ![p] = answered]
  /\ UNCHANGED <<file, ended, prev, payload, issued, returned, torn>>

(* The line reaches the file without its newline. *)
FaultyWriteEntry(p) ==
  /\ phase[p] = "write"
  /\ file' = [file EXCEPT ![LogOf[p]] = Appended(LogOf[p], EntryOf(p))]
  /\ ended' = [ended EXCEPT ![LogOf[p]] = FALSE]
  /\ returned' = returned \cup {EntryOf(p)}
  /\ phase' = [phase EXCEPT ![p] = "idle"]
  /\ UNCHANGED <<rekor, prev, payload, witnessed, issued, torn>>

(* The line is appended and the append returns its entry. *)
WriteEntry(p) ==
  /\ phase[p] = "write"
  /\ file' = [file EXCEPT ![LogOf[p]] = Appended(LogOf[p], EntryOf(p))]
  /\ ended' = [ended EXCEPT ![LogOf[p]] = TRUE]
  /\ returned' = returned \cup {EntryOf(p)}
  /\ phase' = [phase EXCEPT ![p] = "idle"]
  /\ UNCHANGED <<rekor, prev, payload, witnessed, issued, torn>>

(* The write is cut short, by a full disk or the end of the process: part  *)
(* of the line is in the file, or all of it but the newline.               *)
TornWrite(p) ==
  /\ phase[p] = "write"
  /\ torn < MaxTorn
  /\ torn' = torn + 1
  /\ \E line \in {EntryOf(p), Garbage} :
       file' = [file EXCEPT ![LogOf[p]] = Appended(LogOf[p], line)]
  /\ ended' = [ended EXCEPT ![LogOf[p]] = FALSE]
  /\ phase' = [phase EXCEPT ![p] = "idle"]
  /\ UNCHANGED <<rekor, prev, payload, witnessed, issued, returned>>

(* The process ends, or an exception leaves the append, before the write.  *)
Abandon(p) ==
  /\ phase[p] # "idle"
  /\ phase' = [phase EXCEPT ![p] = "idle"]
  /\ UNCHANGED <<file, ended, rekor, prev, payload, witnessed, issued, returned, torn>>

(* Every payload has been appended or given up. *)
Exhausted ==
  /\ issued = Payloads
  /\ \A p \in Procs : phase[p] = "idle"
  /\ UNCHANGED logVars

LogNext ==
  \/ \E p \in Procs :
       \/ \E x \in Payloads : ReadChain(p, x)
       \/ Sign(p)
       \/ WriteEntry(p)
       \/ TornWrite(p)
       \/ Abandon(p)
  \/ Exhausted

LogSpec == LogInit /\ [][LogNext]_logVars

-----------------------------------------------------------------------------
(* Properties *)

(* Every link leads back: as long as no write was cut short, the hash an   *)
(* entry is chained to is that of an earlier entry of the same log (or of  *)
(* no entry), however many processes append at once.                       *)
LinksResolve ==
  torn = 0 =>
    \A l \in Logs : \A i \in DOMAIN file[l] :
      \/ file[l][i].prev = Genesis
      \/ \E j \in 1 .. i - 1 : EntryHash(file[l][j]) = file[l][i].prev

(* A process never appends to a chain end older than its own last entry:   *)
(* as long as no write was cut short, two entries of one process are not   *)
(* chained to the same entry, so a fork has a branch per process at most.  *)
ReadYourAppends ==
  torn = 0 =>
    \A l \in Logs : \A i, j \in DOMAIN file[l] :
      i < j /\ file[l][i].by = file[l][j].by
        => \E k \in i .. j - 1 : EntryHash(file[l][k]) = file[l][j].prev

OnFile(entry) ==
  \E i \in DOMAIN file[LogOf[entry.by]] : file[LogOf[entry.by]][i] = entry

(* Append-only: an entry that was returned to the caller and is in the log *)
(* stays in the log, whatever later appends and cut writes do.             *)
ReturnedStays ==
  [][\A entry \in returned : OnFile(entry) => OnFile(entry)']_logVars

(* A write that is cut short costs one returned entry at most: the one the *)
(* next append glues to the torn line.                                     *)
LossBoundedByTears ==
  Cardinality({entry \in returned : ~OnFile(entry)}) <= torn

(* "Each entry is chained (hash of previous + payload)" (transparency.py): *)
(* an entry is chained to the entry before it, the first to none.          *)
ChainIsLinear ==
  \A l \in Logs : \A j \in DOMAIN file[l] :
    Readable(file[l][j]) =>
      \E i \in 0 .. j - 1 :
        /\ \A k \in i + 1 .. j - 1 : ~Readable(file[l][k])
        /\ IF i = 0 THEN file[l][j].prev = Genesis
           ELSE Readable(file[l][i]) /\ file[l][j].prev = EntryHash(file[l][i])
=============================================================================
