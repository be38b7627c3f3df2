----------------------------- MODULE ConfigFile -----------------------------
(***************************************************************************)
(* One file of config.d and the temporary file beside it: writeConfigFile  *)
(* (configwriter.go), called by request handlers and Syncs at any time,    *)
(* and the readers of the file (parser.go, configwriter.go and Xray).      *)
(*                                                                         *)
(* A name leads to an inode, and an open file keeps its inode whatever     *)
(* happens to the name.  A document is a sequence of blocks, each marked   *)
(* with its writer and the document's length, so that a mixture shows.     *)
(***************************************************************************)
EXTENDS Naturals, Sequences

CONSTANTS Writers,      \* concurrent calls of writeConfigFile
          Readers,      \* concurrent calls of os.ReadFile
          Lengths,      \* lengths of the documents, in blocks
          Inodes,       \* their numbers
          NoFile,       \* a name that leads nowhere
          Operator,     \* who wrote the file before the server started
          MaxCalls,     \* bound on calls of writeConfigFile
          MaxCrashes    \* bound on crashes of the server

ASSUME LengthsAssumption == Lengths \subseteq Nat \ {0} /\ Lengths # {}
ASSUME InodesAssumption == Inodes \subseteq Nat /\ NoFile \notin Inodes
ASSUME OperatorAssumption == Operator \notin Writers
ASSUME BoundsAssumption == MaxCalls \in Nat /\ MaxCrashes \in Nat

VARIABLES
    path,       \* the inode of filePath
    tmp,        \* the inode of filePath + ".raven.tmp"
    data,       \* what each inode holds
    w,          \* where each writer stands, its document's length, its open inode
    rd,         \* where each reader stands, its open inode, what it read last
    last,       \* history: the document of the last write that was answered nil
    alone,      \* history: no two writers have been between open and return
    calls, crashes

vars == <<path, tmp, data, w, rd, last, alone, calls, crashes>>

Authors == Writers \cup {Operator}
Blocks == Authors \X Lengths
Document(p, n) == [k \in 1..n |-> <<p, n>>]
Documents == {Document(p, n) : p \in Authors, n \in Lengths}

(* A write of the first m blocks of a document at the start of a file: a   *)
(* longer file keeps its tail.                                             *)
Overwritten(old, new, m) ==
    [k \in 1..(IF m < Len(old) THEN Len(old) ELSE m) |-> IF k <= m THEN new[k] ELSE old[k]]

IdleWriter == [pc |-> "idle", n |-> CHOOSE n \in Lengths : TRUE, fd |-> NoFile]

Init ==
    \E i \in Inodes, n \in Lengths :
      /\ \A j \in Inodes : i <= j
      /\ path = i
      /\ tmp = NoFile
      /\ data = [j \in Inodes |-> IF j = i THEN Document(Operator, n) ELSE <<>>]
      /\ w = [p \in Writers |-> IdleWriter]
      /\ rd = [r \in Readers |-> [open |-> FALSE, fd |-> NoFile, got |-> Document(Operator, n)]]
      /\ last = Document(Operator, n)
      /\ alone = TRUE
      /\ calls = 0
      /\ crashes = 0

-----------------------------------------------------------------------------
(* writeConfigFile.                                                        *)

Busy(p) == w[p].pc # "idle"

(* The inodes that a name or an open file leads to, once names and open    *)
(* files are as given; the others are free, and empty.                     *)
Kept(names, writers, readers) ==
    names \cup {writers[p].fd : p \in Writers} \cup {readers[r].fd : r \in Readers}

Store(bytes) ==
    data' = [i \in Inodes |-> IF i \in Kept({path', tmp'}, w', rd') THEN bytes[i] ELSE <<>>]

Free == Inodes \ Kept({path, tmp}, w, rd)

Opened(p, n, i) ==
    /\ w' = [w EXCEPT ![p] = [pc |-> "write", n |-> n, fd |-> i]]
    /\ alone' = (alone /\ \A q \in Writers : ~Busy(q))
    /\ calls < MaxCalls /\ calls' = calls + 1
    /\ UNCHANGED <<path, rd, last, crashes>>
    /\ Store([data EXCEPT ![i] = <<>>])

(* Mutant: os.WriteFile(filePath, ...), without the temporary file.        *)
OpenInPlace(p, n) == ~Busy(p) /\ UNCHANGED tmp /\ Opened(p, n, path)

(* os.WriteFile opens the temporary file with O_CREATE|O_TRUNC.  When it   *)
(* cannot, the call returns and nothing has happened.                      *)
OpenTmp(p, n) ==
    /\ ~Busy(p)
    /\ \/ tmp # NoFile /\ UNCHANGED tmp /\ Opened(p, n, tmp)
       \/ /\ tmp = NoFile
          /\ \E i \in Free : (\A j \in Free : i <= j) /\ tmp' = i /\ Opened(p, n, i)

(* Mutant: the error of a write that was cut short is dropped.             *)
WriteUnchecked(p) ==
    /\ w[p].pc = "write"
    /\ w' = [w EXCEPT ![p].pc = "rename"]
    /\ UNCHANGED <<path, tmp, rd, last, alone, calls, crashes>>
    /\ \E m \in 0..w[p].n :
         Store([data EXCEPT ![w[p].fd] = Overwritten(@, Document(p, w[p].n), m)])

(* The write goes to the open inode, whatever its name is by now.          *)
Write(p) ==
    /\ w[p].pc = "write"
    /\ w' = [w EXCEPT ![p].pc = "rename"]
    /\ UNCHANGED <<path, tmp, rd, last, alone, calls, crashes>>
    /\ Store([data EXCEPT ![w[p].fd] = Overwritten(@, Document(p, w[p].n), w[p].n)])

(* The disk fills up: a part is written, the temporary file stays.         *)
WriteFails(p) ==
    /\ w[p].pc = "write"
    /\ w' = [w EXCEPT ![p] = IdleWriter]
    /\ UNCHANGED <<path, tmp, rd, last, alone, calls, crashes>>
    /\ \E m \in 0..(w[p].n - 1) :
         Store([data EXCEPT ![w[p].fd] = Overwritten(@, Document(p, w[p].n), m)])

Rename(p) ==
    /\ w[p].pc = "rename"
    /\ tmp # NoFile
    /\ path' = tmp
    /\ tmp' = NoFile
    /\ last' = Document(p, w[p].n)
    /\ w' = [w EXCEPT ![p] = IdleWriter]
    /\ UNCHANGED <<rd, alone, calls, crashes>>
    /\ Store(data)

(* No permission, or another writer has renamed the temporary file.        *)
RenameFails(p) ==
    /\ w[p].pc = "rename"
    /\ w' = [w EXCEPT ![p] = [@ EXCEPT !.pc = "remove", !.fd = NoFile]]
    /\ UNCHANGED <<path, tmp, rd, last, alone, calls, crashes>>
    /\ Store(data)

RemoveTmp(p) ==
    /\ w[p].pc = "remove"
    /\ tmp' = NoFile
    /\ w' = [w EXCEPT ![p] = IdleWriter]
    /\ UNCHANGED <<path, rd, last, alone, calls, crashes>>
    /\ Store(data)

-----------------------------------------------------------------------------
(* os.ReadFile: the inode is fixed when the file is opened, its bytes are  *)
(* read later.                                                             *)

OpenFile(r) ==
    /\ ~rd[r].open
    /\ rd' = [rd EXCEPT ![r].open = TRUE, ![r].fd = path]
    /\ UNCHANGED <<path, tmp, data, w, last, alone, calls, crashes>>

ReadFile(r) ==
    /\ rd[r].open
    /\ rd' = [rd EXCEPT ![r] = [open |-> FALSE, fd |-> NoFile, got |-> data[rd[r].fd]]]
    /\ UNCHANGED <<path, tmp, w, last, alone, calls, crashes>>
    /\ Store(data)

(* The server dies; the temporary file stays as it is.                     *)
Crash ==
    /\ crashes < MaxCrashes
    /\ crashes' = crashes + 1
    /\ w' = [p \in Writers |-> IdleWriter]
    /\ UNCHANGED <<path, tmp, rd, last, alone, calls>>
    /\ Store(data)

Next ==
    \/ \E p \in Writers :
         \/ \E n \in Lengths : OpenTmp(p, n)
         \/ Write(p) \/ WriteFails(p)
         \/ Rename(p) \/ RenameFails(p) \/ RemoveTmp(p)
    \/ \E r \in Readers : OpenFile(r) \/ ReadFile(r)
    \/ Crash

Spec == Init /\ [][Next]_vars

-----------------------------------------------------------------------------
(* Properties.                                                             *)

(* Every variable keeps its type; the file itself never goes away.         *)
TypeOK ==
    /\ path \in Inodes
    /\ tmp \in Inodes \cup {NoFile}
    /\ data \in [Inodes -> Seq(Blocks)]
    /\ w \in [Writers -> [pc : {"idle", "write", "rename", "remove"}, n : Lengths,
                          fd : Inodes \cup {NoFile}]]
    /\ \A p \in Writers : w[p].pc \in {"write", "rename"} => w[p].fd \in Inodes
    /\ rd \in [Readers -> [open : BOOLEAN, fd : Inodes \cup {NoFile}, got : Seq(Blocks)]]
    /\ \A r \in Readers : rd[r].open => rd[r].fd \in Inodes
    /\ last \in Documents
    /\ alone \in BOOLEAN
    /\ calls \in Nat /\ crashes \in Nat

(* While the writers take turns, the one that writes has the temporary     *)
(* file open, and nobody else has; a document that is about to be renamed  *)
(* is complete; a published inode is never written again.                  *)
TurnsInv ==
    alone =>
      /\ \A p, q \in Writers : Busy(p) /\ Busy(q) => p = q
      /\ \A p \in Writers : w[p].pc \in {"write", "rename"} => tmp = w[p].fd
      /\ \A p \in Writers : w[p].pc = "rename" => data[tmp] = Document(p, w[p].n)
      /\ \A p \in Writers : w[p].pc = "write" => data[tmp] = <<>>
      /\ path # tmp
      /\ data[path] = last
      /\ \A r \in Readers : rd[r].open => rd[r].fd # tmp

(* The inductive invariant.                                                *)
FileInv == TypeOK /\ TurnsInv

(* "writeConfigFile atomically replaces filePath": as long as no two calls *)
(* overlap, the file is at every moment the document of the last call that *)
(* returned nil, whatever calls failed half-way or died with the server,   *)
(* and a reader gets the file of the moment it opened it.                  *)
Abstract == INSTANCE AtomicFile WITH
    Bytes <- Seq(Blocks),
    file <- data[path],
    got <- [r \in Readers |-> IF rd[r].open THEN data[rd[r].fd] ELSE rd[r].got]
ImplementsAtomicFile == Abstract!Spec
=============================================================================
