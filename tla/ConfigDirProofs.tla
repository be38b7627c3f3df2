-------------------------- MODULE ConfigDirProofs ---------------------------
(***************************************************************************)
(* Proofs about config.d at its two levels: one file with its temporary    *)
(* file (ConfigFile), for any writers, readers, documents and inodes, and  *)
(* the directory with the inbound rows (Inbounds), for any files, tags,    *)
(* Syncs and edits.                                                        *)
(***************************************************************************)
EXTENDS ConfigDir, WellFoundedInduction, TLAPS

-----------------------------------------------------------------------------
(* One file.                                                               *)

(* A document is a sequence of blocks.                                     *)
LEMMA DocumentType ==
    ASSUME NEW p \in Authors, NEW n \in Lengths
    PROVE  Document(p, n) \in Seq(Blocks) /\ Document(p, n) \in Documents
<1>1. n \in Nat
  BY LengthsAssumption
<1>2. \A k \in 1..n : <<p, n>> \in Blocks
  BY DEF Blocks
<1>3. Document(p, n) \in Seq(Blocks)
  BY <1>1, <1>2 DEF Document
<1> QED BY <1>3 DEF Documents

(* So is what a write leaves of a file, however much of it is written.     *)
LEMMA OverwrittenType ==
    ASSUME NEW old \in Seq(Blocks), NEW p \in Authors, NEW n \in Lengths, NEW m \in 0..n
    PROVE  Overwritten(old, Document(p, n), m) \in Seq(Blocks)
<1>1. n \in Nat /\ m \in Nat /\ Len(old) \in Nat
  BY LengthsAssumption
<1> DEFINE top == IF m < Len(old) THEN Len(old) ELSE m
<1>2. top \in Nat
  BY <1>1
<1>3. ASSUME NEW k \in 1..top PROVE (IF k <= m THEN Document(p, n)[k] ELSE old[k]) \in Blocks
  <2>1. CASE k <= m
    BY <2>1, <1>1 DEF Document, Blocks
  <2>2. CASE ~(k <= m)
    <3>1. k \in 1..Len(old)
      BY <2>2, <1>1
    <3> QED BY <3>1, <2>2
  <2> QED BY <2>1, <2>2
<1> HIDE DEF top
<1>4. [k \in 1..top |-> IF k <= m THEN Document(p, n)[k] ELSE old[k]] \in Seq(Blocks)
  BY <1>2, <1>3
<1> QED BY <1>4 DEF Overwritten, top

(* A whole document written to an empty file is the file.                  *)
LEMMA OverwrittenEmpty ==
    ASSUME NEW p, NEW n \in Lengths
    PROVE  Overwritten(<<>>, Document(p, n), n) = Document(p, n)
<1>1. n \in Nat /\ Len(<<>>) = 0 /\ ~(n < 0)
  BY LengthsAssumption
<1>2. Overwritten(<<>>, Document(p, n), n) = [k \in 1..n |-> IF k <= n THEN Document(p, n)[k] ELSE <<>>[k]]
  BY <1>1 DEF Overwritten
<1>3. \A k \in 1..n : (IF k <= n THEN Document(p, n)[k] ELSE <<>>[k]) = <<p, n>>
  BY <1>1 DEF Document
<1> QED BY <1>2, <1>3 DEF Document

(* What a call of writeConfigFile leaves behind, when it returns or dies,  *)
(* is of the type of a writer.                                             *)
LEMMA IdleWriterType ==
    IdleWriter \in [pc : {"idle", "write", "rename", "remove"}, n : Lengths, fd : Inodes \cup {NoFile}]
<1>1. (CHOOSE n \in Lengths : TRUE) \in Lengths
  BY LengthsAssumption
<1> QED BY <1>1 DEF IdleWriter

(* Store keeps the bytes of every inode that a name or an open file still  *)
(* leads to.                                                               *)
LEMMA StoreKeeps ==
    ASSUME NEW bytes \in [Inodes -> Seq(Blocks)], Store(bytes), rd' \in [Readers -> [open : BOOLEAN, fd : Inodes \cup {NoFile}, got : Seq(Blocks)]]
    PROVE  /\ data' \in [Inodes -> Seq(Blocks)]
           /\ \A i \in Inodes : i = path' \/ i = tmp' => data'[i] = bytes[i]
           /\ \A r \in Readers : rd'[r].fd \in Inodes => data'[rd'[r].fd] = bytes[rd'[r].fd]
<1>1. <<>> \in Seq(Blocks)
  OBVIOUS
<1>2. data' \in [Inodes -> Seq(Blocks)]
  BY <1>1 DEF Store
<1>3. \A i \in Inodes : i = path' \/ i = tmp' => data'[i] = bytes[i]
  BY DEF Store, Kept
<1>4. ASSUME NEW r \in Readers, rd'[r].fd \in Inodes PROVE data'[rd'[r].fd] = bytes[rd'[r].fd]
  <2>1. rd'[r].fd \in Kept({path', tmp'}, w', rd')
    BY DEF Kept
  <2> QED BY <2>1, <1>4 DEF Store
<1> QED BY <1>2, <1>3, <1>4

-----------------------------------------------------------------------------
(* Type correctness.                                                       *)

(* The file that an operator left, with no temporary file beside it, is a  *)
(* state of the invariant.                                                 *)
LEMMA InitType == Init => FileInv
<1> SUFFICES ASSUME Init PROVE FileInv
  OBVIOUS
<1>1. PICK i \in Inodes, n \in Lengths :
        /\ path = i
        /\ tmp = NoFile
        /\ data = [j \in Inodes |-> IF j = i THEN Document(Operator, n) ELSE <<>>]
        /\ w = [p \in Writers |-> IdleWriter]
        /\ rd = [r \in Readers |-> [open |-> FALSE, fd |-> NoFile, got |-> Document(Operator, n)]]
        /\ last = Document(Operator, n)
        /\ alone = TRUE
        /\ calls = 0
        /\ crashes = 0
  BY DEF Init
<1>2. Document(Operator, n) \in Seq(Blocks) /\ Document(Operator, n) \in Documents
  BY DocumentType DEF Authors
<1>3. <<>> \in Seq(Blocks)
  OBVIOUS
<1>4. data \in [Inodes -> Seq(Blocks)]
  BY <1>1, <1>2, <1>3
<1>5. w \in [Writers -> [pc : {"idle", "write", "rename", "remove"}, n : Lengths, fd : Inodes \cup {NoFile}]]
  BY <1>1, IdleWriterType
<1>6. \A p \in Writers : w[p].pc = "idle"
  BY <1>1 DEF IdleWriter
<1>7. TypeOK
  BY <1>1, <1>2, <1>4, <1>5, <1>6 DEF TypeOK
<1>8. TurnsInv
  <2>1. path # tmp
    BY <1>1, InodesAssumption
  <2> QED BY <2>1, <1>1, <1>6 DEF TurnsInv, Busy
<1> QED BY <1>7, <1>8 DEF FileInv

(* Every step of writeConfigFile and os.ReadFile keeps the types.          *)
LEMMA NextType == TypeOK /\ [Next]_vars => TypeOK'
<1> SUFFICES ASSUME TypeOK, [Next]_vars PROVE TypeOK'
  OBVIOUS
<1> USE DEF TypeOK
<1>0. <<>> \in Seq(Blocks)
  OBVIOUS
<1>1. ASSUME NEW p \in Writers, NEW n \in Lengths, OpenTmp(p, n) PROVE TypeOK'
  <2>1. PICK i \in Inodes : Opened(p, n, i) /\ tmp' = i
    BY <1>1 DEF OpenTmp, Free
  <2>2. [data EXCEPT ![i] = <<>>] \in [Inodes -> Seq(Blocks)]
    BY <1>0
  <2>3. data' \in [Inodes -> Seq(Blocks)]
    BY <2>1, <2>2, StoreKeeps DEF Opened
  <2> QED BY <2>1, <2>3 DEF Opened
<1>2. ASSUME NEW p \in Writers, Write(p) PROVE TypeOK'
  <2>0. w[p].n \in Lengths /\ w[p].fd \in Inodes /\ w[p].n \in 0..w[p].n
    BY <1>2, LengthsAssumption DEF Write
  <2>1. Overwritten(data[w[p].fd], Document(p, w[p].n), w[p].n) \in Seq(Blocks)
    BY <2>0, OverwrittenType DEF Authors
  <2>2. [data EXCEPT ![w[p].fd] = Overwritten(@, Document(p, w[p].n), w[p].n)] \in [Inodes -> Seq(Blocks)]
    BY <2>0, <2>1
  <2>3. data' \in [Inodes -> Seq(Blocks)]
    BY <1>2, <2>2, StoreKeeps DEF Write
  <2> QED BY <1>2, <2>0, <2>3, ZenonT(60) DEF Write
<1>3. ASSUME NEW p \in Writers, WriteFails(p) PROVE TypeOK'
  <2>0. w[p].n \in Lengths /\ w[p].fd \in Inodes /\ w[p].n \in Nat
    BY <1>3, LengthsAssumption DEF WriteFails
  <2>1. PICK m \in 0..(w[p].n - 1) :
          Store([data EXCEPT ![w[p].fd] = Overwritten(@, Document(p, w[p].n), m)])
    BY <1>3 DEF WriteFails
  <2>2. m \in 0..w[p].n
    BY <2>0
  <2>3. Overwritten(data[w[p].fd], Document(p, w[p].n), m) \in Seq(Blocks)
    BY <2>0, <2>2, OverwrittenType DEF Authors
  <2>4. [data EXCEPT ![w[p].fd] = Overwritten(@, Document(p, w[p].n), m)] \in [Inodes -> Seq(Blocks)]
    BY <2>0, <2>3
  <2>5. data' \in [Inodes -> Seq(Blocks)]
    BY <1>3, <2>1, <2>4, StoreKeeps DEF WriteFails
  <2>6. w' \in [Writers -> [pc : {"idle", "write", "rename", "remove"}, n : Lengths, fd : Inodes \cup {NoFile}]]
    BY <1>3, IdleWriterType DEF WriteFails
  <2>7. \A q \in Writers : w'[q].pc \in {"write", "rename"} => w'[q].fd \in Inodes
    BY <1>3 DEF WriteFails, IdleWriter
  <2> QED BY <1>3, <2>5, <2>6, <2>7 DEF WriteFails
<1>4. ASSUME NEW p \in Writers, Rename(p) PROVE TypeOK'
  <2>1. data' \in [Inodes -> Seq(Blocks)]
    BY <1>4, StoreKeeps DEF Rename
  <2>2. Document(p, w[p].n) \in Documents
    BY DocumentType DEF Authors
  <2>3. w' \in [Writers -> [pc : {"idle", "write", "rename", "remove"}, n : Lengths, fd : Inodes \cup {NoFile}]]
    BY <1>4, IdleWriterType DEF Rename
  <2>4. \A q \in Writers : w'[q].pc \in {"write", "rename"} => w'[q].fd \in Inodes
    BY <1>4 DEF Rename, IdleWriter
  <2> QED BY <1>4, <2>1, <2>2, <2>3, <2>4 DEF Rename
<1>5. ASSUME NEW p \in Writers, RenameFails(p) PROVE TypeOK'
  <2>1. data' \in [Inodes -> Seq(Blocks)]
    BY <1>5, StoreKeeps DEF RenameFails
  <2>0. /\ w \in [Writers -> [pc : {"idle", "write", "rename", "remove"}, n : Lengths, fd : Inodes \cup {NoFile}]]
        /\ \A q \in Writers : w[q].pc \in {"write", "rename"} => w[q].fd \in Inodes
    OBVIOUS
  <2> HIDE DEF TypeOK
  <2>w. w' = [w EXCEPT ![p] = [@ EXCEPT !.pc = "remove", !.fd = NoFile]]
    BY <1>5, Zenon DEF RenameFails
  <2>2. w' \in [Writers -> [pc : {"idle", "write", "rename", "remove"}, n : Lengths, fd : Inodes \cup {NoFile}]]
    BY <2>0, <2>w, ZenonT(60)
  <2>3. \A q \in Writers : w'[q].pc \in {"write", "rename"} => w'[q].fd \in Inodes
    BY <2>0, <2>w
  <2> USE DEF TypeOK
  <2> QED BY <1>5, <2>1, <2>2, <2>3 DEF RenameFails
<1>6. ASSUME NEW p \in Writers, RemoveTmp(p) PROVE TypeOK'
  <2>1. data' \in [Inodes -> Seq(Blocks)]
    BY <1>6, StoreKeeps DEF RemoveTmp
  <2>3. w' \in [Writers -> [pc : {"idle", "write", "rename", "remove"}, n : Lengths, fd : Inodes \cup {NoFile}]]
    BY <1>6, IdleWriterType DEF RemoveTmp
  <2>4. \A q \in Writers : w'[q].pc \in {"write", "rename"} => w'[q].fd \in Inodes
    BY <1>6 DEF RemoveTmp, IdleWriter
  <2> QED BY <1>6, <2>1, <2>3, <2>4 DEF RemoveTmp
<1>7. ASSUME NEW r \in Readers, OpenFile(r) PROVE TypeOK'
  <2>0. /\ path \in Inodes /\ rd \in [Readers -> [open : BOOLEAN, fd : Inodes \cup {NoFile}, got : Seq(Blocks)]]
        /\ \A q \in Readers : rd[q].open => rd[q].fd \in Inodes
        /\ rd' = [rd EXCEPT ![r].open = TRUE, ![r].fd = path]
    BY <1>7 DEF OpenFile
  <2> HIDE DEF TypeOK
  <2>1. rd' \in [Readers -> [open : BOOLEAN, fd : Inodes \cup {NoFile}, got : Seq(Blocks)]]
    BY <2>0, ZenonT(60)
  <2>2. \A q \in Readers : rd'[q].open => rd'[q].fd \in Inodes
    BY <2>0
  <2> USE DEF TypeOK
  <2> QED BY <1>7, <2>1, <2>2 DEF OpenFile
<1>8. ASSUME NEW r \in Readers, ReadFile(r) PROVE TypeOK'
  <2>1. rd' \in [Readers -> [open : BOOLEAN, fd : Inodes \cup {NoFile}, got : Seq(Blocks)]]
    BY <1>8 DEF ReadFile
  <2>2. data' \in [Inodes -> Seq(Blocks)]
    BY <1>8, <2>1, StoreKeeps DEF ReadFile
  <2> QED BY <1>8, <2>1, <2>2 DEF ReadFile
<1>9. ASSUME Crash PROVE TypeOK'
  <2>1. data' \in [Inodes -> Seq(Blocks)]
    BY <1>9, StoreKeeps DEF Crash
  <2>2. w' \in [Writers -> [pc : {"idle", "write", "rename", "remove"}, n : Lengths, fd : Inodes \cup {NoFile}]]
    BY <1>9, IdleWriterType DEF Crash
  <2>3. \A q \in Writers : w'[q].pc \in {"write", "rename"} => w'[q].fd \in Inodes
    BY <1>9 DEF Crash, IdleWriter
  <2> QED BY <1>9, <2>1, <2>2, <2>3 DEF Crash
<1>10. CASE UNCHANGED vars
  BY <1>10 DEF vars
<1> QED BY <1>1, <1>2, <1>3, <1>4, <1>5, <1>6, <1>7, <1>8, <1>9, <1>10 DEF Next

-----------------------------------------------------------------------------
(* Turns: what the writers leave behind for one another.                   *)

(* While calls of writeConfigFile take turns, every step keeps what they   *)
(* leave behind for one another.                                           *)
LEMMA NextTurns == FileInv /\ [Next]_vars => TurnsInv'
<1> SUFFICES ASSUME FileInv, [Next]_vars, alone' PROVE TurnsInv'
  BY DEF TurnsInv
<1>0. TypeOK /\ TypeOK'
  BY NextType, Zenon DEF FileInv
<1>a. alone
  BY <1>0 DEF FileInv, TypeOK, Next, vars, OpenTmp, Opened, Write, WriteFails, Rename, RenameFails,
                 RemoveTmp, OpenFile, ReadFile, Crash
<1>t. /\ \A p, q \in Writers : Busy(p) /\ Busy(q) => p = q
      /\ \A p \in Writers : w[p].pc \in {"write", "rename"} => tmp = w[p].fd
      /\ \A p \in Writers : w[p].pc = "rename" => data[tmp] = Document(p, w[p].n)
      /\ \A p \in Writers : w[p].pc = "write" => data[tmp] = <<>>
      /\ path # tmp
      /\ data[path] = last
      /\ \A r \in Readers : rd[r].open => rd[r].fd # tmp
  BY <1>a DEF FileInv, TurnsInv
<1>n. NoFile \notin Inodes
  BY InodesAssumption
<1>i. IdleWriter.pc = "idle"
  BY DEF IdleWriter
<1>1. ASSUME NEW p \in Writers, NEW n \in Lengths, OpenTmp(p, n) PROVE TurnsInv'
  <2>1. PICK i \in Inodes : /\ Opened(p, n, i) /\ tmp' = i
                            /\ i = tmp \/ i \in Free
    BY <1>1, <1>0 DEF OpenTmp, Free, TypeOK
  <2>2. i # path /\ \A r \in Readers : rd[r].open => rd[r].fd # i
    BY <2>1, <1>t DEF Free, Kept
  <2>3. [data EXCEPT ![i] = <<>>] \in [Inodes -> Seq(Blocks)]
    BY <1>0 DEF TypeOK
  <2>4. data'[path] = data[path] /\ data'[i] = <<>>
    BY <2>1, <2>2, <2>3, <1>0, StoreKeeps, ZenonT(60) DEF Opened, TypeOK
  <2>5. w' = [w EXCEPT ![p] = [pc |-> "write", n |-> n, fd |-> i]] /\ \A q \in Writers : w[q].pc = "idle"
    BY <2>1, <1>0 DEF Opened, Busy, TypeOK
  <2> QED BY <2>1, <2>2, <2>4, <2>5, <1>0, <1>t DEF Opened, TurnsInv, Busy, TypeOK
<1>2. ASSUME NEW p \in Writers, Write(p) PROVE TurnsInv'
  <2>1. w[p].n \in Lengths /\ w[p].fd \in Inodes /\ tmp = w[p].fd /\ data[tmp] = <<>> /\ w[p].n \in 0..w[p].n
    BY <1>2, <1>0, <1>t, LengthsAssumption, SMTT(60) DEF Write, TypeOK
  <2>2. Overwritten(data[tmp], Document(p, w[p].n), w[p].n) = Document(p, w[p].n)
    BY <2>1, OverwrittenEmpty
  <2> DEFINE bytes == [data EXCEPT ![w[p].fd] = Overwritten(@, Document(p, w[p].n), w[p].n)]
  <2>3. bytes \in [Inodes -> Seq(Blocks)] /\ bytes[tmp] = Document(p, w[p].n) /\ bytes[path] = data[path]
    BY <2>1, <2>2, <1>0, <1>t, DocumentType DEF TypeOK, Authors
  <2>4. Store(bytes)
    BY <1>2 DEF Write
  <2> HIDE DEF bytes
  <2>5. data'[path] = data[path] /\ data'[tmp] = Document(p, w[p].n)
    BY <1>2, <2>1, <2>3, <2>4, <1>0, StoreKeeps, ZenonT(60) DEF Write, TypeOK
  <2>6. w' = [w EXCEPT ![p].pc = "rename"] /\ \A q \in Writers : q # p => w[q].pc = "idle"
    BY <1>2, <1>t DEF Write, Busy
  <2> QED BY <1>2, <2>1, <2>5, <2>6, <1>0, <1>t DEF Write, TurnsInv, Busy, TypeOK
<1>3. ASSUME NEW p \in Writers, WriteFails(p) PROVE TurnsInv'
  <2>1. w[p].n \in Lengths /\ w[p].fd \in Inodes /\ tmp = w[p].fd /\ w[p].n \in Nat
    BY <1>3, <1>0, <1>t, LengthsAssumption DEF WriteFails, TypeOK
  <2>2. PICK m \in 0..(w[p].n - 1) :
          Store([data EXCEPT ![w[p].fd] = Overwritten(@, Document(p, w[p].n), m)])
    BY <1>3 DEF WriteFails
  <2>3. m \in 0..w[p].n
    BY <2>1
  <2>4. Overwritten(data[w[p].fd], Document(p, w[p].n), m) \in Seq(Blocks)
    BY <2>1, <2>3, <1>0, OverwrittenType DEF Authors, TypeOK
  <2> DEFINE bytes == [data EXCEPT ![w[p].fd] = Overwritten(@, Document(p, w[p].n), m)]
  <2>5. bytes \in [Inodes -> Seq(Blocks)] /\ bytes[path] = data[path]
    BY <2>1, <2>4, <1>0, <1>t DEF TypeOK
  <2>6. Store(bytes)
    BY <2>2
  <2> HIDE DEF bytes
  <2>7. data'[path] = data[path]
    BY <1>3, <2>5, <2>6, <1>0, StoreKeeps DEF WriteFails, TypeOK
  <2>8. \A q \in Writers : w'[q].pc = "idle"
    BY <1>3, <1>t, <1>i, <1>0 DEF WriteFails, Busy, TypeOK
  <2> QED BY <1>3, <2>7, <2>8, <1>t DEF WriteFails, TurnsInv, Busy
<1>4. ASSUME NEW p \in Writers, Rename(p) PROVE TurnsInv'
  <2>1. tmp \in Inodes /\ path' = tmp /\ tmp' = NoFile /\ data[tmp] = Document(p, w[p].n)
    BY <1>4, <1>0, <1>t DEF Rename, TypeOK
  <2>k. /\ data \in [Inodes -> Seq(Blocks)] /\ path' \in Inodes
        /\ rd' \in [Readers -> [open : BOOLEAN, fd : Inodes \cup {NoFile}, got : Seq(Blocks)]]
        /\ Store(data) /\ last' = Document(p, w[p].n)
    BY <1>4, <1>0 DEF Rename, TypeOK
  <2>2. data'[path'] = last'
    BY <2>1, <2>k, StoreKeeps
  <2>3. \A q \in Writers : w'[q].pc = "idle"
    BY <1>4, <1>t, <1>i, <1>0 DEF Rename, Busy, TypeOK
  <2>4. \A r \in Readers : rd'[r].open => rd'[r].fd # tmp'
    BY <1>n, <2>1, <1>0 DEF TypeOK
  <2> QED BY <2>1, <2>2, <2>3, <2>4, <1>n DEF TurnsInv, Busy
<1>5. ASSUME NEW p \in Writers, RenameFails(p) PROVE TurnsInv'
  <2>k. /\ data \in [Inodes -> Seq(Blocks)] /\ path' \in Inodes
        /\ rd' \in [Readers -> [open : BOOLEAN, fd : Inodes \cup {NoFile}, got : Seq(Blocks)]]
        /\ Store(data) /\ path' = path
    BY <1>5, <1>0 DEF RenameFails, TypeOK
  <2>1. data'[path] = data[path]
    BY <2>k, StoreKeeps
  <2>2. \A q \in Writers : w'[q].pc = IF q = p THEN "remove" ELSE "idle"
    BY <1>5, <1>t, <1>0 DEF RenameFails, Busy, TypeOK
  <2> QED BY <1>5, <2>1, <2>2, <1>t DEF RenameFails, TurnsInv, Busy
<1>6. ASSUME NEW p \in Writers, RemoveTmp(p) PROVE TurnsInv'
  <2>1. data'[path] = data[path]
    BY <1>6, <1>0, StoreKeeps, ZenonT(60) DEF RemoveTmp, TypeOK
  <2>2. \A q \in Writers : w'[q].pc = "idle"
    BY <1>6, <1>t, <1>i, <1>0 DEF RemoveTmp, Busy, TypeOK
  <2>3. path # tmp' /\ \A r \in Readers : rd[r].open => rd[r].fd # tmp'
    BY <1>6, <1>n, <1>0 DEF RemoveTmp, TypeOK
  <2> QED BY <1>6, <2>1, <2>2, <2>3, <1>t DEF RemoveTmp, TurnsInv, Busy
<1>7. ASSUME NEW r \in Readers, OpenFile(r) PROVE TurnsInv'
  <2>1. \A q \in Readers : rd'[q].open => rd'[q].fd # tmp
    BY <1>7, <1>t, <1>0 DEF OpenFile, TypeOK
  <2> QED BY <1>7, <2>1, <1>t DEF OpenFile, TurnsInv, Busy
<1>8. ASSUME NEW r \in Readers, ReadFile(r) PROVE TurnsInv'
  <2>1. \A q \in Readers : rd'[q].open => rd'[q].fd # tmp
    BY <1>8, <1>t, <1>0 DEF ReadFile, TypeOK
  <2>2. data'[path] = data[path] /\ (tmp \in Inodes => data'[tmp] = data[tmp])
    <3>1. data \in [Inodes -> Seq(Blocks)] /\ path \in Inodes /\ path' = path /\ tmp' = tmp /\ Store(data)
      BY <1>8, <1>0 DEF ReadFile, TypeOK
    <3>2. rd' \in [Readers -> [open : BOOLEAN, fd : Inodes \cup {NoFile}, got : Seq(Blocks)]]
      BY <1>0 DEF TypeOK
    <3> QED BY <3>1, <3>2, StoreKeeps
  <2>3. \A q \in Writers : w[q].pc \in {"write", "rename"} => tmp \in Inodes
    BY <1>t, <1>0 DEF TypeOK
  <2> QED BY <1>8, <2>1, <2>2, <2>3, <1>t DEF ReadFile, TurnsInv, Busy
<1>9. ASSUME Crash PROVE TurnsInv'
  <2>1. data'[path] = data[path]
    BY <1>9, <1>0, StoreKeeps DEF Crash, TypeOK
  <2>2. \A q \in Writers : w'[q].pc = "idle"
    BY <1>9, <1>i DEF Crash
  <2> QED BY <1>9, <2>1, <2>2, <1>t DEF Crash, TurnsInv, Busy
<1>10. CASE UNCHANGED vars
  BY <1>10, <1>t DEF vars, TurnsInv, Busy
<1> QED BY <1>1, <1>2, <1>3, <1>4, <1>5, <1>6, <1>7, <1>8, <1>9, <1>10 DEF Next

(* For any writers, readers, documents and crashes: as long as the calls   *)
(* of writeConfigFile take turns, the config.d file is the document of the *)
(* last call that returned nil, and a published inode is never written.    *)
THEOREM FileInvariant == Spec => []FileInv
<1>1. Init => FileInv
  BY InitType
<1>2. FileInv /\ [Next]_vars => FileInv'
  BY NextType, NextTurns DEF FileInv
<1> QED BY <1>1, <1>2, PTL DEF Spec

-----------------------------------------------------------------------------
(* Refinement.                                                             *)

Got == [r \in Readers |-> IF rd[r].open THEN data[rd[r].fd] ELSE rd[r].got]

(* When file and readers are as they were, the step is invisible.          *)
LEMMA SameGot ==
    ASSUME rd' = rd, \A r \in Readers : rd[r].open => data'[rd[r].fd] = data[rd[r].fd]
    PROVE  Got' = Got
BY DEF Got

(* After an overlap, whatever keeps its type is allowed.                   *)
LEMMA AnythingStep ==
    ASSUME TypeOK', ~alone, alone' = alone
    PROVE  Abstract!Anything
<1>1. data'[path'] \in Seq(Blocks) /\ last' \in Documents
  BY DEF TypeOK
<1>2. ASSUME NEW r \in Readers PROVE (IF rd'[r].open THEN data'[rd'[r].fd] ELSE rd'[r].got) \in Seq(Blocks)
  BY DEF TypeOK
<1>3. [r \in Readers |-> IF rd'[r].open THEN data'[rd'[r].fd] ELSE rd'[r].got] \in [Readers -> Seq(Blocks)]
  BY <1>2
<1> QED BY <1>1, <1>3 DEF Abstract!Anything

(* Rename is the abstract write, OpenFile the abstract read; every other   *)
(* step is a stutter, until two calls have overlapped.                     *)
LEMMA StepRefines == FileInv /\ FileInv' /\ [Next]_vars => [Abstract!Next]_(Abstract!vars)
<1> SUFFICES ASSUME FileInv, FileInv', [Next]_vars PROVE [Abstract!Next]_(Abstract!vars)
  OBVIOUS
<1>0. TypeOK /\ TypeOK'
  BY DEF FileInv
<1>f. ~alone => ~alone'
  BY <1>0 DEF TypeOK, Next, vars, OpenTmp, Opened, Write, WriteFails, Rename, RenameFails,
              RemoveTmp, OpenFile, ReadFile, Crash
<1>a. CASE ~alone
  <2>1. alone' = alone
    BY <1>a, <1>f, <1>0 DEF TypeOK
  <2> QED BY <1>a, <2>1, <1>0, AnythingStep DEF Abstract!Next
<1>b. CASE alone
  <2>t. /\ \A p \in Writers : w[p].pc \in {"write", "rename"} => tmp = w[p].fd
        /\ \A p \in Writers : w[p].pc = "rename" => data[tmp] = Document(p, w[p].n)
        /\ path # tmp
        /\ data[path] = last
        /\ \A r \in Readers : rd[r].open => rd[r].fd # tmp
    BY <1>b DEF FileInv, TurnsInv
  <2>y. /\ data \in [Inodes -> Seq(Blocks)] /\ path \in Inodes
        /\ rd \in [Readers -> [open : BOOLEAN, fd : Inodes \cup {NoFile}, got : Seq(Blocks)]]
        /\ \A r \in Readers : rd[r].open => rd[r].fd \in Inodes
    BY <1>0 DEF TypeOK
  <2>k. ASSUME NEW bytes \in [Inodes -> Seq(Blocks)], Store(bytes), NEW i \in Inodes \cup {NoFile},
               \A j \in Inodes \ {i} : bytes[j] = data[j],
               i # path, \A r \in Readers : rd[r].open => rd[r].fd # i,
               path' = path, rd' = rd
        PROVE  data'[path'] = data[path] /\ Got' = Got
    <3>1. data'[path'] = data[path]
      BY <2>k, <2>y, StoreKeeps
    <3>2. \A r \in Readers : rd[r].open => data'[rd[r].fd] = data[rd[r].fd]
      BY <2>k, <2>y, StoreKeeps, ZenonT(60)
    <3> QED BY <3>1, <3>2, <2>k, SameGot
  <2>u. ASSUME data'[path'] = data[path], Got' = Got, last' = last PROVE [Abstract!Next]_(Abstract!vars)
    <3>1. CASE alone' = alone
      BY <2>u, <3>1 DEF Got, Abstract!vars
    <3>2. CASE alone' # alone
      <4>1. alone' = FALSE
        BY <3>2, <1>b, <1>0 DEF TypeOK
      <4> QED BY <2>u, <4>1 DEF Got, Abstract!Overlap, Abstract!Next
    <3> QED BY <3>1, <3>2
  <2>1. ASSUME NEW p \in Writers, NEW n \in Lengths, OpenTmp(p, n) PROVE [Abstract!Next]_(Abstract!vars)
    <3>1. PICK i \in Inodes : /\ Opened(p, n, i) /\ tmp' = i
                              /\ i = tmp \/ i \in Free
      BY <2>1, <1>0 DEF OpenTmp, Free, TypeOK
    <3>2. i # path /\ \A r \in Readers : rd[r].open => rd[r].fd # i
      BY <3>1, <2>t DEF Free, Kept
    <3>3. [data EXCEPT ![i] = <<>>] \in [Inodes -> Seq(Blocks)] /\ \A j \in Inodes \ {i} : [data EXCEPT ![i] = <<>>][j] = data[j]
      BY <2>y
    <3>4. data'[path'] = data[path] /\ Got' = Got
      BY <3>1, <3>2, <3>3, <2>k DEF Opened
    <3> QED BY <3>1, <3>4, <2>u DEF Opened
  <2>2. ASSUME NEW p \in Writers, Write(p) PROVE [Abstract!Next]_(Abstract!vars)
    <3>1. w[p].n \in Lengths /\ w[p].fd \in Inodes /\ tmp = w[p].fd /\ w[p].n \in 0..w[p].n
      BY <2>2, <1>0, <2>t, LengthsAssumption, SMTT(60) DEF Write, TypeOK
    <3>2. Overwritten(data[w[p].fd], Document(p, w[p].n), w[p].n) \in Seq(Blocks)
      BY <3>1, <2>y, OverwrittenType DEF Authors
    <3> DEFINE bytes == [data EXCEPT ![w[p].fd] = Overwritten(@, Document(p, w[p].n), w[p].n)]
    <3>3. bytes \in [Inodes -> Seq(Blocks)] /\ \A j \in Inodes \ {tmp} : bytes[j] = data[j]
      BY <3>1, <3>2, <2>y
    <3>4. Store(bytes)
      BY <2>2 DEF Write
    <3> HIDE DEF bytes
    <3>5. data'[path'] = data[path] /\ Got' = Got
      BY <2>2, <3>1, <3>3, <3>4, <2>t, <2>k DEF Write
    <3> QED BY <2>2, <3>5, <2>u DEF Write
  <2>3. ASSUME NEW p \in Writers, WriteFails(p) PROVE [Abstract!Next]_(Abstract!vars)
    <3>1. w[p].n \in Lengths /\ w[p].fd \in Inodes /\ tmp = w[p].fd /\ w[p].n \in Nat
      BY <2>3, <1>0, <2>t, LengthsAssumption DEF WriteFails, TypeOK
    <3>2. PICK m \in 0..(w[p].n - 1) :
            Store([data EXCEPT ![w[p].fd] = Overwritten(@, Document(p, w[p].n), m)])
      BY <2>3 DEF WriteFails
    <3>3. m \in 0..w[p].n
      BY <3>1
    <3>4. Overwritten(data[w[p].fd], Document(p, w[p].n), m) \in Seq(Blocks)
      BY <3>1, <3>3, <2>y, OverwrittenType DEF Authors
    <3> DEFINE bytes == [data EXCEPT ![w[p].fd] = Overwritten(@, Document(p, w[p].n), m)]
    <3>5. bytes \in [Inodes -> Seq(Blocks)] /\ \A j \in Inodes \ {tmp} : bytes[j] = data[j]
      BY <3>1, <3>4, <2>y
    <3>6. Store(bytes)
      BY <3>2
    <3> HIDE DEF bytes
    <3>7. data'[path'] = data[path] /\ Got' = Got
      BY <2>3, <3>1, <3>5, <3>6, <2>t, <2>k DEF WriteFails
    <3> QED BY <2>3, <3>7, <2>u DEF WriteFails
  <2>4. ASSUME NEW p \in Writers, Rename(p) PROVE [Abstract!Next]_(Abstract!vars)
    <3>1. tmp \in Inodes /\ path' = tmp /\ data[tmp] = Document(p, w[p].n) /\ rd' = rd /\ alone' = alone
      BY <2>4, <1>0, <2>t DEF Rename, TypeOK
    <3>2. data'[path'] = last' /\ last' \in Documents
      BY <2>4, <3>1, <2>y, <1>0, StoreKeeps, ZenonT(60) DEF Rename, TypeOK
    <3>3. \A r \in Readers : rd[r].open => data'[rd[r].fd] = data[rd[r].fd]
      <4>1. Store(data)
        BY <2>4 DEF Rename
      <4>2. \A r \in Readers : rd'[r].fd \in Inodes => data'[rd'[r].fd] = data[rd'[r].fd]
        BY <4>1, <3>1, <2>y, StoreKeeps
      <4> QED BY <4>2, <3>1, <2>y
    <3>4. Got' = Got
      BY <3>1, <3>3, SameGot
    <3> QED BY <3>1, <3>2, <3>4, <1>b DEF Got, Abstract!Replace, Abstract!Next
  <2>5. ASSUME NEW p \in Writers, RenameFails(p) PROVE [Abstract!Next]_(Abstract!vars)
    <3>1. data'[path'] = data[path] /\ Got' = Got
      BY <2>5, <2>y, <2>t, <1>0, <2>k DEF RenameFails, TypeOK
    <3> QED BY <2>5, <3>1, <2>u DEF RenameFails
  <2>6. ASSUME NEW p \in Writers, RemoveTmp(p) PROVE [Abstract!Next]_(Abstract!vars)
    <3>1. data'[path'] = data[path] /\ Got' = Got
      BY <2>6, <2>y, <2>t, <1>0, <2>k DEF RemoveTmp, TypeOK
    <3> QED BY <2>6, <3>1, <2>u DEF RemoveTmp
  <2>7. ASSUME NEW r \in Readers, OpenFile(r) PROVE [Abstract!Next]_(Abstract!vars)
    <3>0. rd' = [rd EXCEPT ![r].open = TRUE, ![r].fd = path] /\ data' = data
      BY <2>7 DEF OpenFile
    <3>1. Got' = [Got EXCEPT ![r] = data[path]]
      BY <3>0, <2>y DEF Got
    <3>2. Abstract!Read(r)
      BY <2>7, <3>1, <1>b DEF OpenFile, Got, Abstract!Read
    <3> QED BY <3>2 DEF Abstract!Next
  <2>8. ASSUME NEW r \in Readers, ReadFile(r) PROVE [Abstract!Next]_(Abstract!vars)
    <3>1. Store(data) /\ path' = path /\ rd' \in [Readers -> [open : BOOLEAN, fd : Inodes \cup {NoFile}, got : Seq(Blocks)]]
      BY <2>8, <1>0 DEF ReadFile, TypeOK
    <3>2. data'[path'] = data[path] /\ \A q \in Readers : rd'[q].fd \in Inodes => data'[rd'[q].fd] = data[rd'[q].fd]
      BY <3>1, <2>y, StoreKeeps
    <3>3. ASSUME NEW q \in Readers
          PROVE  (IF rd'[q].open THEN data'[rd'[q].fd] ELSE rd'[q].got) = (IF rd[q].open THEN data[rd[q].fd] ELSE rd[q].got)
      BY <2>8, <3>2, <2>y DEF ReadFile
    <3>4. Got' = Got
      BY <3>3 DEF Got
    <3> QED BY <2>8, <3>2, <3>4, <2>u DEF ReadFile
  <2>9. ASSUME Crash PROVE [Abstract!Next]_(Abstract!vars)
    <3>1. data'[path'] = data[path] /\ Got' = Got
      BY <2>9, <2>y, <2>t, <1>0, <2>k DEF Crash, TypeOK
    <3> QED BY <2>9, <3>1, <2>u DEF Crash
  <2>10. CASE UNCHANGED vars
    BY <2>10 DEF vars, Abstract!vars
  <2> QED BY <2>1, <2>2, <2>3, <2>4, <2>5, <2>6, <2>7, <2>8, <2>9, <2>10 DEF Next
<1> QED BY <1>a, <1>b

(* writeConfigFile "atomically replaces filePath" for calls that take      *)
(* turns, whatever calls fail half-way or die with the server: it          *)
(* implements AtomicFile.                                                  *)
THEOREM FileRefines == Spec => ImplementsAtomicFile
<1>1. Init => Abstract!Init
  <2> SUFFICES ASSUME Init PROVE Abstract!Init
    OBVIOUS
  <2>1. PICK i \in Inodes, n \in Lengths :
          /\ path = i
          /\ data = [j \in Inodes |-> IF j = i THEN Document(Operator, n) ELSE <<>>]
          /\ rd = [r \in Readers |-> [open |-> FALSE, fd |-> NoFile, got |-> Document(Operator, n)]]
          /\ last = Document(Operator, n)
          /\ alone = TRUE
    BY DEF Init
  <2>2. Document(Operator, n) \in Documents
    BY DocumentType DEF Authors
  <2> QED BY <2>1, <2>2 DEF Abstract!Init
<1> QED BY <1>1, StepRefines, FileInvariant, PTL DEF Spec, ImplementsAtomicFile, Abstract!Spec

-----------------------------------------------------------------------------
(* The directory and the inbound rows.                                     *)

SPC == {"idle", "api", "parse", "visit", "client", "list", "idents", "find", "read", "write"}
SyncRecords == [pc : SPC, k : Files, snap : [Files -> Contents], f : Files,
                stale : SUBSET Tags, tags : SUBSET Tags, named : SUBSET Tags, t : Tags, buf : Contents, ok : BOOLEAN]
AdminRecords == [pc : {"idle", "remove", "save", "sync", "wait", "again"}, t : Tags, f : Files,
                 buf : Contents, x : Syncs]
Rows == [at : 0..ApiManaged, raw : BOOLEAN]

(* config.d and the database.                                              *)
StoreTypes ==
    /\ file \in [Files -> Contents]
    /\ row \in [Tags -> Rows]
    /\ client \in [Tags -> {"none", "on", "off"}]
    /\ \A t \in Tags : client[t] # "none" => HasRow(t)

(* A Sync by itself: a file it is to visit was read, what it is to write   *)
(* is the copy of a file that has the inbound.                             *)
SyncOf(q) ==
    /\ q \in SyncRecords
    /\ q.pc \in {"idle", "api"} => q.k = 1
    /\ q.pc # "visit" => q.stale = {}
    /\ q.pc = "write" => q.buf.form = "json" /\ q.t \in q.buf.tags

AdminOf(r) ==
    /\ r \in AdminRecords
    /\ r.pc = "save" => r.buf.form = "json"

(* A Sync that began with the inbound in its row's file, which it has not  *)
(* left, has found it there if it has read the file.                       *)
HasRead(q, f) == (q.pc = "parse" /\ f < q.k) \/ q.pc \in {"visit", "client"}
PlaceOf(q, t, at) ==
    /\ t \notin q.stale
    /\ at \in Files /\ HasRead(q, at) /\ q.snap[at].form = "json" => t \in q.snap[at].tags

(* The client of the inbound is in a file.                                 *)
InFile(t, fl) == \E f \in Files : fl[f].form = "json" /\ t \in fl[f].tags /\ t \in fl[f].users

(* A Sync since whose list of inbounds nobody else has changed anything    *)
(* still has each enabled client before it, or has seen it in a file.      *)
QuietOf(q, cl, fl) ==
    /\ q.pc \in {"list", "idents", "find", "read", "write"}
    /\ q.pc = "write" => q.buf = fl[q.f]
    /\ q.ok => \A t \in Tags : cl[t] = "on" =>
         t \in q.tags \/ (q.pc \in {"idents", "find", "read", "write"} /\ t = q.t) \/ InFile(t, fl)

Inv ==
    /\ StoreTypes
    /\ s \in [Syncs -> SyncRecords] /\ \A x \in Syncs : SyncOf(s[x])
    /\ AdminOf(h)
    /\ status \in [ok : BOOLEAN, fresh : BOOLEAN]
    /\ quiet \subseteq Syncs /\ \A x \in quiet : QuietOf(s[x], client, file)
    /\ doubt \in [Tags -> SUBSET Importing]
    /\ \A x \in Importing, t \in Tags : x \notin doubt[t] => InPlace(t) /\ PlaceOf(s[x], t, row[t].at)
    /\ StatusHonest

(* The first of some files of the directory.                               *)
LEMMA FirstFile ==
    ASSUME NEW F \in SUBSET Files, F # {}
    PROVE  \E f \in F : \A g \in F : f <= g
<1>1. F \subseteq Nat
  BY FilesAssumption DEF Files
<1> DEFINE Less == {ss \in Nat \X Nat : ss[1] < ss[2]}
<1>2. IsWellFoundedOn(Less, Nat)
  BY NatLessThanWellFounded, Zenon DEF OpToRel
<1> HIDE DEF Less
<1>3. PICK f \in F : \A g \in F : ~(<<g, f>> \in Less)
  BY <1>1, <1>2, WFMin
<1>4. ASSUME NEW g \in F PROVE f <= g
  <2>1. ~(g < f)
    BY <1>1, <1>3 DEF Less
  <2> QED BY <1>1, <2>1
<1> QED BY <1>4

(* What files are made of.                                                 *)
LEMMA ContentsFacts ==
    /\ Unread \in Contents /\ Unread.form = "none"
    /\ \A T, U \in SUBSET Tags :
         Json(T, U) \in Contents /\ Json(T, U).form = "json" /\ Json(T, U).tags = T /\ Json(T, U).users = U
    /\ \A c \in Contents : c.tags \subseteq Tags /\ c.users \subseteq Tags
    /\ \A c \in Contents : c.form = "json" =>
         \A U \in SUBSET Tags :
           /\ [c EXCEPT !.users = U] \in Contents
           /\ [c EXCEPT !.users = U].form = "json" /\ [c EXCEPT !.users = U].tags = c.tags
           /\ [c EXCEPT !.users = U].users = U
<1>1. Unread \in Contents /\ Unread.form = "none" /\ Unread.tags = {} /\ Unread.users = {}
  BY DEF Contents, Unread
<1>2. \A T, U \in SUBSET Tags :
         Json(T, U) \in Contents /\ Json(T, U).form = "json" /\ Json(T, U).tags = T /\ Json(T, U).users = U
  BY DEF Contents, Json
<1>3. \A c \in Contents : c = Unread \/ \E T, U \in SUBSET Tags : c = Json(T, U)
  BY DEF Contents
<1>4. \A c \in Contents : c.tags \subseteq Tags /\ c.users \subseteq Tags
  BY <1>1, <1>2, <1>3
<1>5. ASSUME NEW c \in Contents, c.form = "json", NEW U \in SUBSET Tags
      PROVE  /\ [c EXCEPT !.users = U] \in Contents
             /\ [c EXCEPT !.users = U].form = "json" /\ [c EXCEPT !.users = U].tags = c.tags
             /\ [c EXCEPT !.users = U].users = U
  <2>1. PICK T \in SUBSET Tags, V \in SUBSET Tags : c = Json(T, V)
    BY <1>1, <1>3, <1>5
  <2>2. [c EXCEPT !.users = U] = Json(T, U)
    BY <2>1 DEF Json
  <2>3. c.tags = T
    BY <1>2, <2>1
  <2> DEFINE d == [c EXCEPT !.users = U]
  <2>4. d = Json(T, U)
    BY <2>2
  <2> HIDE DEF d
  <2>5. d \in Contents /\ d.form = "json" /\ d.tags = c.tags /\ d.users = U
    BY <1>2, <2>3, <2>4
  <2> QED BY <2>5, Zenon DEF d
<1> QED BY <1>1, <1>2, <1>4, <1>5

(* Files that hold an inbound, and the first of them.                      *)
LEMMA HoldingFacts ==
    ASSUME StoreTypes, NEW t \in Tags
    PROVE  /\ Holding(t) \subseteq Files
           /\ \A f \in Holding(t) : file[f] \in Contents /\ file[f].form = "json" /\ t \in file[f].tags
           /\ Holding(t) # {} => FirstHolding(t) \in Holding(t)
<1>1. Holding(t) \in SUBSET Files
  BY DEF Holding
<1>2. Holding(t) # {} => FirstHolding(t) \in Holding(t)
  BY <1>1, FirstFile DEF FirstHolding
<1> QED BY <1>1, <1>2 DEF Holding, StoreTypes

(* A Sync and a request that are idle.                                     *)
LEMMA IdleFacts ==
    /\ SyncOf(IdleSync) /\ IdleSync \in SyncRecords /\ IdleSync.pc = "idle"
    /\ AdminOf(IdleAdmin) /\ IdleAdmin \in AdminRecords /\ IdleAdmin.pc = "idle"
<1>1. (CHOOSE t \in Tags : TRUE) \in Tags /\ (CHOOSE x \in Syncs : TRUE) \in Syncs
  BY TagsAssumption, SyncsAssumption
<1>2. 1 \in Files
  BY FilesAssumption DEF Files
<1>3. Unread \in Contents
  BY ContentsFacts
<1>4. [f \in Files |-> Unread] \in [Files -> Contents]
  BY <1>3
<1>5. IdleSync \in SyncRecords /\ IdleSync.pc = "idle" /\ IdleSync.k = 1 /\ IdleSync.stale = {}
  BY <1>1, <1>2, <1>3, <1>4 DEF IdleSync, SyncRecords, SPC
<1>6. IdleAdmin \in AdminRecords /\ IdleAdmin.pc = "idle"
  BY <1>1, <1>2, <1>3 DEF IdleAdmin, AdminRecords
<1> QED BY <1>5, <1>6 DEF SyncOf, AdminOf

(* A Sync that has no doubts about an inbound after a step had none before *)
(* it, and the row stayed where it was, with the inbound in its place.     *)
LEMMA NoDoubt ==
    ASSUME Inv, Doubt, NEW x \in Importing', NEW t \in Tags, x \notin doubt'[t]
    PROVE  /\ InPlace(t)' /\ row'[t].at = row[t].at
           /\ x \notin doubt[t]
           /\ x \in Importing => InPlace(t) /\ PlaceOf(s[x], t, row[t].at)
<1>1. doubt'[t] = IF ~InPlace(t)' \/ row[t].at # row'[t].at THEN Importing' ELSE doubt[t] \cap Importing'
  BY Zenon DEF Doubt
<1>2. InPlace(t)' /\ row'[t].at = row[t].at /\ x \notin doubt[t]
  BY <1>1
<1> QED BY <1>2 DEF Inv

(* A step in which the Syncs of M move, all others wait, and nobody is     *)
(* quiet after others changed something.                                   *)
LEMMA StepInv ==
    ASSUME Inv, StoreTypes', AdminOf(h'), status' \in [ok : BOOLEAN, fresh : BOOLEAN],
           s' \in [Syncs -> SyncRecords], Doubt,
           NEW M \in SUBSET Syncs, \A y \in Syncs \ M : s'[y] = s[y],
           quiet' \subseteq quiet \cup M, stores' = stores \/ quiet' \subseteq M,
           \A y \in M : SyncOf(s'[y]) /\ (y \in quiet' => QuietOf(s'[y], client', file')),
           \A y \in M, t \in Tags : y \in Importing' /\ y \notin doubt'[t] => PlaceOf(s'[y], t, row'[t].at),
           StatusHonest'
    PROVE  Inv'
<1>1. \A y \in Syncs : SyncOf(s'[y])
  BY DEF Inv
<1>2. ASSUME NEW y \in quiet' PROVE QuietOf(s'[y], client', file')
  <2>1. CASE y \in M
    BY <1>2, <2>1
  <2>2. CASE y \notin M
    <3>1. y \in quiet /\ y \in Syncs /\ s'[y] = s[y] /\ stores' = stores
      BY <1>2, <2>2 DEF Inv
    <3>2. QuietOf(s[y], client, file) /\ client' = client /\ file' = file
      BY <3>1 DEF Inv, stores
    <3> QED BY <3>1, <3>2, Zenon
  <2> QED BY <2>1, <2>2
<1>3. doubt' \in [Tags -> SUBSET Importing']
  <2>1. \A t \in Tags : doubt'[t] \subseteq Importing'
    BY DEF Doubt
  <2>2. doubt' = [t \in Tags |-> doubt'[t]]
    BY DEF Doubt
  <2> QED BY <2>1, <2>2
<1>4. ASSUME NEW y \in Importing', NEW t \in Tags, y \notin doubt'[t]
      PROVE  InPlace(t)' /\ PlaceOf(s'[y], t, row'[t].at)
  <2>1. InPlace(t)' /\ row'[t].at = row[t].at
    BY <1>4, NoDoubt
  <2>2. CASE y \in M
    BY <1>4, <2>1, <2>2
  <2>3. CASE y \notin M
    <3>1. y \in Syncs /\ s'[y] = s[y] /\ y \in Importing
      BY <1>4, <2>3 DEF Importing
    <3>2. PlaceOf(s[y], t, row[t].at)
      BY <1>4, <3>1, NoDoubt
    <3> QED BY <2>1, <3>1, <3>2
  <2> QED BY <2>2, <2>3
<1>5. quiet' \subseteq Syncs
  BY DEF Inv
<1>6. (\A x \in Syncs : SyncOf(s[x]))'
  BY <1>1 DEF SyncOf
<1>7. (\A x \in quiet : QuietOf(s[x], client, file))'
  BY <1>2 DEF QuietOf, InFile
<1>8. (\A x \in Importing, t \in Tags : x \notin doubt[t] => InPlace(t) /\ PlaceOf(s[x], t, row[t].at))'
  BY <1>4 DEF PlaceOf, HasRead
<1>9. AdminOf(h)' /\ (doubt \in [Tags -> SUBSET Importing])'
  BY <1>3 DEF AdminOf
<1> QED BY <1>5, <1>6, <1>7, <1>8, <1>9 DEF Inv

(* The record of the last Sync is fresh only while nothing changes.        *)
LEMMA StatusKept ==
    ASSUME Inv, \/ UNCHANGED <<file, client, status>>
                \/ status' = [status EXCEPT !.fresh = @ /\ stores' = stores]
    PROVE  status' \in [ok : BOOLEAN, fresh : BOOLEAN] /\ StatusHonest'
<1>1. status \in [ok : BOOLEAN, fresh : BOOLEAN] /\ StatusHonest
  BY DEF Inv
<1>2. CASE UNCHANGED <<file, client, status>>
  BY <1>1, <1>2 DEF StatusHonest, Holding
<1>3. CASE status' = [status EXCEPT !.fresh = @ /\ stores' = stores]
  <2> DEFINE b == status.fresh /\ stores' = stores
  <2>1. status' = [status EXCEPT !.fresh = b]
    BY <1>3, Zenon
  <2>2. b \in BOOLEAN
    BY Zenon
  <2> HIDE DEF b
  <2>3. status' \in [ok : BOOLEAN, fresh : BOOLEAN] /\ status'.ok = status.ok /\ status'.fresh = b
    BY <1>1, <2>1, <2>2
  <2>4. b => status.fresh /\ UNCHANGED <<file, client>>
    BY DEF b, stores
  <2>5. StatusHonest'
    <3>1. ASSUME status'.fresh, status'.ok, NEW t \in Tags, client'[t] = "on"
          PROVE  \E f \in Holding(t)' : t \in file'[f].users
      <4>1. status.fresh /\ status.ok /\ client[t] = "on" /\ file' = file
        BY <2>3, <2>4, <3>1, Zenon
      <4> QED BY <1>1, <4>1 DEF StatusHonest, Holding
    <3> QED BY <3>1 DEF StatusHonest
  <2> QED BY <2>3, <2>5
<1> QED BY <1>2, <1>3

(* A step of one Sync, which becomes q.                                    *)
LEMMA OneSync ==
    ASSUME Inv, NEW x \in Syncs, NEW q, SyncOf(q), s' = [s EXCEPT ![x] = q], AdminOf(h'), StoreTypes',
           Moved({x}),
           x \in quiet => QuietOf(q, client', file'),
           \A t \in Tags : /\ q.pc # "idle" /\ row'[t].at = row[t].at /\ InPlace(t)'
                           /\ x \in Importing => PlaceOf(s[x], t, row[t].at)
                           => PlaceOf(q, t, row[t].at)
    PROVE  Inv'
<1>1. s \in [Syncs -> SyncRecords] /\ q \in SyncRecords
  BY DEF Inv, SyncOf
<1>2. s' \in [Syncs -> SyncRecords] /\ s'[x] = q /\ \A y \in Syncs \ {x} : s'[y] = s[y]
  BY <1>1
<1>3. Doubt /\ quiet' \subseteq quiet /\ (stores' = stores \/ quiet' \subseteq {x})
  BY DEF Moved, Observed
<1>4. status' \in [ok : BOOLEAN, fresh : BOOLEAN] /\ StatusHonest'
  BY StatusKept, Zenon DEF Moved
<1>5. ASSUME NEW t \in Tags, x \in Importing', x \notin doubt'[t] PROVE PlaceOf(s'[x], t, row'[t].at)
  <2>1. /\ InPlace(t)' /\ row'[t].at = row[t].at
        /\ x \in Importing => PlaceOf(s[x], t, row[t].at)
    BY <1>3, <1>5, NoDoubt
  <2>2. q.pc # "idle"
    BY <1>2, <1>5 DEF Importing
  <2> QED BY <1>2, <2>1, <2>2
<1>6. /\ {x} \in SUBSET Syncs /\ quiet' \subseteq quiet \cup {x}
      /\ \A y \in {x} : SyncOf(s'[y]) /\ (y \in quiet' => QuietOf(s'[y], client', file'))
      /\ \A y \in {x}, t \in Tags : y \in Importing' /\ y \notin doubt'[t] => PlaceOf(s'[y], t, row'[t].at)
      /\ \A y \in Syncs \ {x} : s'[y] = s[y]
  BY <1>2, <1>3, <1>5
<1> QED BY <1>2, <1>3, <1>4, <1>6, StepInv

(* A Sync begins.                                                          *)
LEMMA SyncStartInv ==
    ASSUME Inv, NEW x \in Syncs, SyncStart(x)
    PROVE  Inv'
<1>t. SyncOf(s[x]) /\ s[x] \in SyncRecords /\ s \in [Syncs -> SyncRecords] /\ StoreTypes /\ AdminOf(h)
  BY DEF Inv
<1> DEFINE pc == IF \E t \in ApiTags : ~HasRow(t) THEN "api" ELSE "parse"
           q == [s[x] EXCEPT !.pc = pc]
<1>1. pc \in {"api", "parse"} /\ pc \in SPC
  BY DEF SPC
<1>2. /\ s[x].pc = "idle" /\ s' = [s EXCEPT ![x].pc = pc] /\ Moved({x})
      /\ UNCHANGED h \/ h' = [h EXCEPT !.pc = "wait", !.x = x]
  BY <1>t, Zenon DEF SyncStart
<1>3. UNCHANGED stores
  BY DEF SyncStart
<1> HIDE DEF pc
<1>4. s' = [s EXCEPT ![x] = q]
  BY <1>2, <1>t
<1>5. q \in SyncRecords /\ q.pc = pc /\ q.k = 1 /\ q.stale = {}
  BY <1>1, <1>2, <1>t DEF SyncRecords, SyncOf
<1> HIDE DEF q
<1>6. SyncOf(q)
  BY <1>1, <1>5 DEF SyncOf
<1>7. AdminOf(h')
  <2>1. AdminOf([h EXCEPT !.pc = "wait", !.x = x])
    BY <1>t DEF AdminOf, AdminRecords
  <2> QED BY <1>2, <1>t, <2>1
<1>8. StoreTypes'
  BY <1>3, <1>t DEF StoreTypes, stores, HasRow
<1>9. x \notin quiet
  BY <1>2 DEF Inv, QuietOf
<1>10. \A t \in Tags : PlaceOf(q, t, row[t].at)
  <2>1. \A f \in Files : ~(f < 1)
    BY FilesAssumption DEF Files
  <2> QED BY <1>1, <1>5, <2>1 DEF PlaceOf, HasRead
<1> QED BY <1>2, <1>4, <1>6, <1>7, <1>8, <1>9, <1>10, OneSync

(* Reading the directory, and the row of api_user_inbound_tag before it.   *)
LEMMA ReadDirInv ==
    ASSUME Inv, NEW x \in Syncs, CreateApiRow(x) \/ Parse(x) \/ ParseFails(x)
    PROVE  Inv'
<1>t. SyncOf(s[x]) /\ s[x] \in SyncRecords /\ s \in [Syncs -> SyncRecords] /\ StoreTypes /\ AdminOf(h)
  BY DEF Inv
<1>f. /\ s[x].k \in Files /\ s[x].snap \in [Files -> Contents]
      /\ s[x].pc \in {"api", "parse"} => s[x].stale = {}
      /\ s[x].pc \in {"api", "parse"} => x \notin quiet
      /\ s[x].pc \in {"api", "parse"} => x \in Importing
  BY <1>t DEF SyncRecords, SyncOf, Inv, QuietOf, Importing
<1>n. \A f \in Files : f \in Nat /\ ~(f < 1) /\ f <= NFiles
  BY FilesAssumption DEF Files
<1>1. ASSUME CreateApiRow(x) PROVE Inv'
  <2> DEFINE q == [s[x] EXCEPT !.pc = "parse"]
  <2>1. s[x].pc = "api" /\ s' = [s EXCEPT ![x] = q] /\ h' = h /\ Moved({x})
    BY <1>1 DEF CreateApiRow, Go
  <2>2. /\ UNCHANGED <<file, client>>
        /\ \/ row' = [t \in Tags |-> IF t \in ApiTags THEN [at |-> ApiManaged, raw |-> FALSE] ELSE row[t]]
           \/ UNCHANGED row
    BY <1>1 DEF CreateApiRow, stores
  <2>3. q \in SyncRecords /\ q.pc = "parse" /\ q.k = 1 /\ q.stale = {}
    BY <1>f, <1>t, <2>1 DEF SyncRecords, SyncOf, SPC
  <2> HIDE DEF q
  <2>4. SyncOf(q)
    BY <2>3 DEF SyncOf
  <2>5. StoreTypes'
    <3>1. ApiManaged \in 0..ApiManaged /\ ApiManaged # 0
      BY FilesAssumption DEF ApiManaged
    <3>2. [at |-> ApiManaged, raw |-> FALSE] \in Rows /\ [at |-> ApiManaged, raw |-> FALSE].at # 0
      BY <3>1 DEF Rows
    <3>3. row' \in [Tags -> Rows] /\ \A t \in Tags : HasRow(t) => row'[t].at # 0
      BY <1>t, <2>2, <3>2 DEF StoreTypes, HasRow, NoRow
    <3> QED BY <1>t, <2>2, <3>3 DEF StoreTypes, HasRow, NoRow
  <2>6. \A t \in Tags : PlaceOf(q, t, row[t].at)
    BY <1>n, <2>3 DEF PlaceOf, HasRead
  <2> QED BY <1>f, <1>t, <2>1, <2>4, <2>5, <2>6, OneSync
<1>2. ASSUME Parse(x) PROVE Inv'
  <2> DEFINE snap == [s[x].snap EXCEPT ![s[x].k] = Parsed(s[x].k)]
             more == [s[x] EXCEPT !.snap = snap, !.k = s[x].k + 1]
             done == [s[x] EXCEPT !.snap = snap, !.k = 1, !.pc = "visit"]
             q == IF s[x].k < NFiles THEN more ELSE done
  <2>1. s[x].pc = "parse" /\ h' = h /\ Moved({x}) /\ UNCHANGED stores
    BY <1>2 DEF Parse, Go
  <2>2. s' = [s EXCEPT ![x] = q]
    BY <1>2, <1>t DEF Parse, Go, SyncRecords
  <2>3. Parsed(s[x].k) \in Contents /\ (Parsed(s[x].k).form = "json" => Parsed(s[x].k) = file[s[x].k])
    BY <1>f, <1>t, ContentsFacts DEF Parsed, StoreTypes
  <2>4. /\ snap \in [Files -> Contents] /\ snap[s[x].k] = Parsed(s[x].k)
        /\ \A f \in Files : f # s[x].k => snap[f] = s[x].snap[f]
    BY <1>f, <2>3
  <2>6. 1 \in Files /\ (s[x].k < NFiles => s[x].k + 1 \in Files)
    BY <1>f, FilesAssumption DEF Files
  <2> HIDE DEF snap
  <2>7. s[x].k < NFiles => /\ more \in SyncRecords /\ more.pc = "parse" /\ more.k = s[x].k + 1
                           /\ more.snap = snap /\ more.stale = {}
    BY <1>f, <1>t, <2>1, <2>4, <2>6 DEF SyncRecords
  <2>8. /\ done \in SyncRecords /\ done.pc = "visit"
        /\ done.snap = snap /\ done.stale = {}
    <3>1. "visit" \in SPC
      BY DEF SPC
    <3> QED BY <1>f, <1>t, <2>1, <2>4, <2>6, <3>1 DEF SyncRecords
  <2> HIDE DEF more, done
  <2>9. SyncOf(q)
    BY <2>7, <2>8 DEF SyncOf
  <2>10. StoreTypes'
    BY <1>t, <2>1 DEF StoreTypes, stores, HasRow
  <2>11. ASSUME NEW t \in Tags, InPlace(t)', row'[t].at = row[t].at, PlaceOf(s[x], t, row[t].at)
         PROVE  PlaceOf(q, t, row[t].at)
    <3> DEFINE at == row[t].at
    <3>1. at \in Files => (file[at].form = "json" => t \in file[at].tags)
      BY <2>1, <2>11 DEF InPlace, stores
    <3>2. q.snap = snap /\ q.stale = {}
      BY <2>7, <2>8
    <3>3. ASSUME at \in Files, HasRead(q, at), snap[at].form = "json" PROVE t \in snap[at].tags
      <4>1. at = s[x].k \/ at < s[x].k
        <5>1. CASE s[x].k < NFiles
          <6>1. at < s[x].k + 1
            BY <2>7, <3>3, <5>1 DEF HasRead
          <6> QED BY <1>f, <1>n, <3>3, <6>1
        <5>2. CASE ~(s[x].k < NFiles)
          BY <1>f, <1>n, <3>3, <5>2, FilesAssumption
        <5> QED BY <5>1, <5>2
      <4>2. CASE at = s[x].k
        BY <2>3, <2>4, <3>1, <3>3, <4>2
      <4>3. CASE at < s[x].k
        <5>1. at # s[x].k /\ snap[at] = s[x].snap[at] /\ HasRead(s[x], at)
          BY <1>f, <1>n, <2>1, <2>4, <3>3, <4>3 DEF HasRead
        <5> QED BY <2>11, <3>3, <5>1 DEF PlaceOf
      <4> QED BY <4>1, <4>2, <4>3
    <3> QED BY <3>2, <3>3 DEF PlaceOf
  <2> HIDE DEF q
  <2> QED BY <1>f, <1>t, <2>1, <2>2, <2>9, <2>10, <2>11, OneSync
<1>3. ASSUME ParseFails(x) PROVE Inv'
  <2>1. s[x].pc = "parse" /\ Return(x) /\ UNCHANGED stores /\ Moved({x})
    BY <1>3 DEF ParseFails
  <2>2. s' = [s EXCEPT ![x] = IdleSync]
    BY <2>1 DEF Return
  <2>3. AdminOf(h')
    <3>1. AdminOf([h EXCEPT !.pc = "again", !.x = IdleAdmin.x])
      <4>1. IdleAdmin.x \in Syncs
        BY IdleFacts DEF AdminRecords
      <4> QED BY <1>t, <4>1 DEF AdminOf, AdminRecords
    <3> QED BY <1>t, <2>1, <3>1 DEF Return
  <2>4. StoreTypes'
    BY <1>t, <2>1 DEF StoreTypes, stores, HasRow
  <2> QED BY <1>f, <2>1, <2>2, <2>3, <2>4, IdleFacts, OneSync
<1> QED BY <1>1, <1>2, <1>3

(* Bringing the rows of the files that were read up to date.  A row is     *)
(* stale for a Sync only if its file was read without the inbound.         *)
LEMMA VisitInv ==
    ASSUME Inv, NEW x \in Syncs,
           \/ \E f \in Files : Visit(x, f)
           \/ \E t \in Tags : DeleteInbound(x, t) \/ UpsertInbound(x, t)
           \/ SyncClient(x)
    PROVE  Inv'
<1>t. SyncOf(s[x]) /\ s[x] \in SyncRecords /\ s \in [Syncs -> SyncRecords] /\ StoreTypes /\ AdminOf(h)
  BY DEF Inv
<1>f. /\ s[x].f \in Files /\ s[x].snap \in [Files -> Contents]
      /\ s[x].tags \subseteq Tags /\ s[x].named \subseteq Tags /\ s[x].stale \subseteq Tags /\ s[x].t \in Tags
      /\ s[x].pc \in {"visit", "client"} => x \notin quiet /\ x \in Importing
  BY <1>t DEF SyncRecords, SyncOf, Inv, QuietOf, Importing
<1>v. "visit" \in SPC /\ "client" \in SPC
  BY DEF SPC
<1>1. ASSUME NEW f \in Files, Visit(x, f) PROVE Inv'
  <2>1. PICK lost \in {{}, {t \in Tags : row[t].at = f /\ t \notin s[x].snap[f].tags}} :
           Go(x, [s[x] EXCEPT !.snap[f] = Unread, !.f = f, !.tags = s[x].snap[f].tags,
                              !.named = s[x].snap[f].users, !.stale = lost])
    BY <1>1 DEF Visit
  <2> DEFINE snap == [s[x].snap EXCEPT ![f] = Unread]
             q == [s[x] EXCEPT !.snap = snap, !.f = f, !.tags = s[x].snap[f].tags,
                               !.named = s[x].snap[f].users, !.stale = lost]
  <2>2. /\ s[x].pc = "visit" /\ f \in ToVisit(x) /\ UNCHANGED stores /\ Moved({x}) /\ h' = h
    BY <1>1 DEF Visit, Visited, Go
  <2>3. s' = [s EXCEPT ![x] = q]
    BY <1>t, <2>1 DEF Go, SyncRecords
  <2>4. /\ s[x].snap[f].tags \in SUBSET Tags /\ s[x].snap[f].users \in SUBSET Tags
        /\ \A t \in lost : row[t].at = f /\ t \notin s[x].snap[f].tags
        /\ lost \in SUBSET Tags /\ s[x].snap[f].form = "json"
    BY <1>f, <2>1, <2>2, ContentsFacts DEF ToVisit
  <2>s. /\ snap \in [Files -> Contents] /\ snap[f].form = "none"
        /\ \A g \in Files : g # f => snap[g] = s[x].snap[g]
    BY <1>f, ContentsFacts
  <2> HIDE DEF snap
  <2>5. q \in SyncRecords /\ q.pc = "visit" /\ q.snap = snap /\ q.stale = lost
    BY <1>t, <2>2, <2>4, <2>s DEF SyncRecords
  <2> HIDE DEF q
  <2>6. SyncOf(q)
    BY <1>f, <2>2, <2>5 DEF SyncOf
  <2>7. StoreTypes'
    BY <1>t, <2>2 DEF StoreTypes, stores, HasRow
  <2>8. ASSUME NEW t \in Tags, PlaceOf(s[x], t, row[t].at) PROVE PlaceOf(q, t, row[t].at)
    <3>1. HasRead(s[x], row[t].at)
      BY <2>2 DEF HasRead
    <3>2. t \notin lost
      BY <2>4, <2>8, <3>1 DEF PlaceOf
    <3> QED BY <2>5, <2>8, <2>s, <3>1, <3>2 DEF PlaceOf
  <2> QED BY <1>f, <1>t, <2>2, <2>3, <2>6, <2>7, <2>8, OneSync
<1>2. ASSUME NEW t \in Tags, DeleteInbound(x, t) PROVE Inv'
  <2> DEFINE q == [s[x] EXCEPT !.stale = s[x].stale \ {t}]
             back(y) == [s[y] EXCEPT !.pc = "visit"]
             M(Y) == {x} \cup Y
  <2>1. s[x].pc = "visit" /\ Moved({x}) /\ h' = h
    BY <1>2 DEF DeleteInbound
  <2>2. PICK Y \in SUBSET {y \in Syncs \ {x} : s[y].pc = "client"} :
           s' = [y \in Syncs |-> IF y \in Y THEN back(y) ELSE IF y = x THEN q ELSE s[y]]
    <3> DEFINE done == [s EXCEPT ![x].stale = s[x].stale \ {t}]
               upserted == {y \in Syncs \ {x} : s[y].pc = "client" /\ s[y].t = t}
    <3>1. /\ done \in [Syncs -> {done[y] : y \in Syncs}]
          /\ \A y \in Syncs : done[y] = IF y = x THEN q ELSE s[y]
      BY <1>t
    <3>2. \/ s' = done
          \/ \E Y \in SUBSET upserted : s' = [y \in Syncs |-> IF y \in Y THEN back(y) ELSE done[y]]
      BY <1>2 DEF DeleteInbound
    <3> HIDE DEF done, q, back
    <3>3. CASE s' = done
      <4> DEFINE none == {}
      <4>1. s' = [y \in Syncs |-> IF y \in none THEN back(y) ELSE IF y = x THEN q ELSE s[y]]
        BY <3>1, <3>3
      <4>2. none \in SUBSET {y \in Syncs \ {x} : s[y].pc = "client"}
        OBVIOUS
      <4> HIDE DEF none
      <4> QED BY <4>1, <4>2, Zenon
    <3>4. CASE \E Y \in SUBSET upserted : s' = [y \in Syncs |-> IF y \in Y THEN back(y) ELSE done[y]]
      <4>1. PICK Y \in SUBSET upserted : s' = [y \in Syncs |-> IF y \in Y THEN back(y) ELSE done[y]]
        BY <3>4
      <4>2. s' = [y \in Syncs |-> IF y \in Y THEN back(y) ELSE IF y = x THEN q ELSE s[y]]
        BY <3>1, <4>1
      <4> QED BY <4>2
    <3> QED BY <3>2, <3>3, <3>4
  <2>3. \/ UNCHANGED <<file, row, client>>
        \/ /\ row' = [row EXCEPT ![t] = [at |-> NoRow, raw |-> FALSE]]
           /\ client' = [client EXCEPT ![t] = "none"] /\ UNCHANGED file
    BY <1>2 DEF DeleteInbound, stores
  <2>4. s[x].stale \ {t} \in SUBSET Tags
    BY <1>f
  <2>5. /\ q \in SyncRecords /\ q.pc = "visit" /\ q.snap = s[x].snap
        /\ q.stale = s[x].stale \ {t}
    BY <1>t, <2>1, <2>4 DEF SyncRecords
  <2>6. ASSUME NEW y \in Y
        PROVE  /\ back(y) \in SyncRecords /\ back(y).pc = "visit"
               /\ back(y).snap = s[y].snap /\ back(y).stale = s[y].stale
    BY <1>t, <1>v DEF SyncRecords
  <2> HIDE DEF q, back
  <2>7. SyncOf(q)
    BY <1>f, <2>1, <2>5 DEF SyncOf
  <2>8. ASSUME NEW y \in Y PROVE SyncOf(back(y)) /\ y \notin quiet /\ y \in Importing /\ y \in Syncs
    <3>1. SyncOf(s[y]) /\ s[y].pc = "client" /\ y \in Syncs
      BY DEF Inv
    <3>2. SyncOf(back(y))
      BY <2>6, <3>1 DEF SyncOf
    <3> QED BY <3>1, <3>2 DEF Inv, QuietOf, Importing
  <2>9. StoreTypes'
    <3>1. [at |-> NoRow, raw |-> FALSE] \in Rows
      BY FilesAssumption DEF Rows, NoRow, ApiManaged
    <3>2. CASE UNCHANGED <<file, row, client>>
      BY <1>t, <3>2 DEF StoreTypes, HasRow
    <3>3. CASE /\ row' = [row EXCEPT ![t] = [at |-> NoRow, raw |-> FALSE]]
               /\ client' = [client EXCEPT ![t] = "none"] /\ UNCHANGED file
      <4>1. /\ row' \in [Tags -> Rows] /\ client' \in [Tags -> {"none", "on", "off"}]
            /\ client'[t] = "none" /\ \A u \in Tags : u # t => row'[u] = row[u] /\ client'[u] = client[u]
        BY <1>t, <3>1, <3>3 DEF StoreTypes
      <4>2. \A u \in Tags : client'[u] # "none" => row'[u].at # NoRow
        BY <1>t, <4>1 DEF StoreTypes, HasRow
      <4> QED BY <1>t, <3>3, <4>1, <4>2 DEF StoreTypes, HasRow
    <3> QED BY <2>3, <3>2, <3>3
  <2>10. /\ s' \in [Syncs -> SyncRecords] /\ s'[x] = q
         /\ \A y \in Y : s'[y] = back(y)
         /\ \A y \in Syncs \ M(Y) : s'[y] = s[y]
    BY <1>t, <2>2, <2>5, <2>6
  <2>11. Doubt /\ quiet' \subseteq quiet /\ (stores' = stores \/ quiet' \subseteq {x})
    BY <2>1 DEF Moved, Observed
  <2>12. status' \in [ok : BOOLEAN, fresh : BOOLEAN] /\ StatusHonest'
    BY <2>1, StatusKept, Zenon DEF Moved
  <2>13. ASSUME NEW y \in M(Y), NEW u \in Tags, y \in Importing', y \notin doubt'[u]
         PROVE  PlaceOf(s'[y], u, row'[u].at)
    <3>1. y \in Importing /\ row'[u].at = row[u].at /\ PlaceOf(s[y], u, row[u].at)
      BY <1>f, <2>1, <2>8, <2>11, <2>13, NoDoubt
    <3>2. CASE y = x
      BY <2>1, <2>5, <2>10, <3>1, <3>2 DEF PlaceOf, HasRead
    <3>3. CASE y \in Y
      <4>1. s[y].pc = "client" /\ s'[y] = back(y)
        BY <2>10, <3>3
      <4> QED BY <2>6, <3>1, <3>3, <4>1 DEF PlaceOf, HasRead
    <3> QED BY <3>2, <3>3
  <2>14. /\ M(Y) \in SUBSET Syncs /\ quiet' \subseteq quiet \cup M(Y)
         /\ stores' = stores \/ quiet' \subseteq M(Y)
         /\ \A y \in M(Y) : SyncOf(s'[y]) /\ y \notin quiet'
    BY <1>f, <2>1, <2>7, <2>8, <2>10, <2>11
  <2>15. AdminOf(h')
    BY <1>t, <2>1
  <2> HIDE DEF M
  <2> QED BY <2>9, <2>10, <2>11, <2>12, <2>13, <2>14, <2>15, StepInv
<1>3. ASSUME NEW t \in Tags, UpsertInbound(x, t) PROVE Inv'
  <2> DEFINE left == s[x].tags \ {t}
             rest == s[x].named \ {t}
             done == [s[x] EXCEPT !.tags = left, !.named = rest]
             next == [s[x] EXCEPT !.tags = left, !.named = rest, !.pc = "client", !.t = t]
             named == t \in s[x].named
             new == [at |-> s[x].f, raw |-> named]
  <2>1. s[x].pc = "visit" /\ s[x].stale = {} /\ Moved({x}) /\ h' = h
    BY <1>3, Zenon DEF UpsertInbound, Go
  <2>2. PICK q \in {done, next} : s' = [s EXCEPT ![x] = q]
    <3>1. [s[x] EXCEPT !.tags = @ \ {t}, !.named = @ \ {t}] = done
      BY <1>t DEF SyncRecords
    <3>2. [done EXCEPT !.pc = "client", !.t = t] = next
      BY <1>t DEF SyncRecords
    <3>3. \/ s' = [s EXCEPT ![x] = IF named THEN next ELSE done]
          \/ s' = [s EXCEPT ![x] = done]
      BY <1>3, <3>1, <3>2, Zenon DEF UpsertInbound, Go
    <3> QED BY <3>3
  <2>3. \/ UNCHANGED <<file, row, client>>
        \/ row' = [row EXCEPT ![t] = new] /\ UNCHANGED <<file, client>>
    BY <1>3, <1>t DEF UpsertInbound, stores, StoreTypes
  <2>4. left \in SUBSET Tags /\ rest \in SUBSET Tags
    BY <1>f
  <2>5. /\ q \in SyncRecords /\ q.pc \in {"visit", "client"} /\ q.snap = s[x].snap
        /\ q.stale = {}
    <3>1. /\ done \in SyncRecords /\ done.pc = "visit" /\ done.snap = s[x].snap
          /\ done.stale = {}
      BY <1>t, <2>1, <2>4 DEF SyncRecords
    <3>2. /\ next \in SyncRecords /\ next.pc = "client" /\ next.snap = s[x].snap
          /\ next.stale = {}
      BY <1>t, <1>v, <2>1, <2>4 DEF SyncRecords
    <3> QED BY <2>2, <3>1, <3>2
  <2> HIDE DEF done, next
  <2>6. SyncOf(q)
    BY <1>f, <2>1, <2>5 DEF SyncOf
  <2>7. StoreTypes'
    <3>1. named \in BOOLEAN /\ s[x].f \in 0..ApiManaged /\ s[x].f # 0
      BY <1>f, FilesAssumption DEF Files, ApiManaged
    <3> HIDE DEF named
    <3>3. new \in Rows /\ new.at = s[x].f
      BY <3>1 DEF Rows
    <3> HIDE DEF new
    <3>4. CASE UNCHANGED <<file, row, client>>
      BY <1>t, <3>4 DEF StoreTypes, HasRow
    <3>5. CASE row' = [row EXCEPT ![t] = new] /\ UNCHANGED <<file, client>>
      <4>1. /\ row' \in [Tags -> Rows] /\ row'[t].at # 0
            /\ \A u \in Tags : u # t => row'[u] = row[u]
        BY <1>t, <3>1, <3>3, <3>5 DEF StoreTypes
      <4>2. \A u \in Tags : client'[u] # "none" => row'[u].at # NoRow
        BY <1>t, <3>5, <4>1 DEF StoreTypes, HasRow, NoRow
      <4> QED BY <1>t, <3>5, <4>1, <4>2 DEF StoreTypes, HasRow
    <3> QED BY <2>3, <3>4, <3>5
  <2>8. ASSUME NEW u \in Tags, PlaceOf(s[x], u, row[u].at) PROVE PlaceOf(q, u, row[u].at)
    BY <2>1, <2>5, <2>8 DEF PlaceOf, HasRead
  <2> QED BY <1>f, <1>t, <2>1, <2>2, <2>6, <2>7, <2>8, OneSync
<1>4. ASSUME SyncClient(x) PROVE Inv'
  <2> DEFINE t == s[x].t
             q == [s[x] EXCEPT !.pc = "visit"]
             on == IF HasRow(t) /\ client[t] = "none" THEN "on" ELSE client[t]
  <2>1. s[x].pc = "client" /\ s[x].stale = {} /\ Moved({x}) /\ h' = h /\ s' = [s EXCEPT ![x] = q]
    BY <1>4, <1>t DEF SyncClient, Go, SyncOf
  <2>2. UNCHANGED <<file, row>> /\ (client' = [client EXCEPT ![t] = on] \/ UNCHANGED client)
    BY <1>4, Zenon DEF SyncClient, stores
  <2>3. /\ q \in SyncRecords /\ q.pc = "visit" /\ q.snap = s[x].snap
        /\ q.stale = {}
    BY <1>t, <1>v, <2>1 DEF SyncRecords
  <2> HIDE DEF q
  <2>4. SyncOf(q)
    BY <1>f, <2>1, <2>3 DEF SyncOf
  <2>5. on \in {"none", "on", "off"} /\ (on # "none" => HasRow(t))
    BY <1>f, <1>t DEF StoreTypes
  <2> HIDE DEF on
  <2>6. StoreTypes'
    BY <1>f, <1>t, <2>2, <2>5 DEF StoreTypes, HasRow
  <2>7. ASSUME NEW u \in Tags, PlaceOf(s[x], u, row[u].at) PROVE PlaceOf(q, u, row[u].at)
    BY <2>1, <2>3, <2>7 DEF PlaceOf, HasRead
  <2> QED BY <1>f, <1>t, <2>1, <2>4, <2>6, <2>7, OneSync
<1> QED BY <1>1, <1>2, <1>3, <1>4

(* A step of a Sync on the way back that leaves config.d and the database. *)
LEMMA BackSync ==
    ASSUME Inv, NEW x \in Syncs, NEW q, SyncOf(q), s' = [s EXCEPT ![x] = q], AdminOf(h'),
           UNCHANGED stores, Doubt, q.pc \in {"idle", "list", "idents"},
           quiet' \subseteq quiet \cup {x}, x \in quiet' => QuietOf(q, client, file),
           status' \in [ok : BOOLEAN, fresh : BOOLEAN], StatusHonest'
    PROVE  Inv'
<1>1. s \in [Syncs -> SyncRecords] /\ q \in SyncRecords /\ q.stale = {}
  BY DEF Inv, SyncOf
<1>2. s' \in [Syncs -> SyncRecords] /\ s'[x] = q /\ \A y \in Syncs \ {x} : s'[y] = s[y]
  BY <1>1
<1>3. StoreTypes' /\ client' = client /\ file' = file /\ stores' = stores
  BY DEF StoreTypes, stores, HasRow, Inv
<1>4. \A t \in Tags : PlaceOf(s'[x], t, row'[t].at)
  BY <1>1, <1>2 DEF PlaceOf, HasRead
<1>5. /\ {x} \in SUBSET Syncs
      /\ \A y \in {x} : SyncOf(s'[y]) /\ (y \in quiet' => QuietOf(s'[y], client', file'))
      /\ \A y \in {x}, t \in Tags : y \in Importing' /\ y \notin doubt'[t] => PlaceOf(s'[y], t, row'[t].at)
      /\ \A y \in Syncs \ {x} : s'[y] = s[y]
  <2>1. x \in quiet' => QuietOf(s'[x], client', file')
    BY <1>2, <1>3, Zenon
  <2> QED BY <1>2, <1>4, <2>1
<1> QED BY <1>2, <1>3, <1>5, StepInv

(* ListInbounds and ListUserClientsByInboundTag.                           *)
LEMMA ListInv ==
    ASSUME Inv, NEW x \in Syncs, ListInbounds(x) \/ \E t \in Tags : ListClients(x, t)
    PROVE  Inv'
<1>t. /\ SyncOf(s[x]) /\ s[x] \in SyncRecords /\ s \in [Syncs -> SyncRecords] /\ StoreTypes /\ AdminOf(h)
      /\ status \in [ok : BOOLEAN, fresh : BOOLEAN] /\ StatusHonest
  BY DEF Inv
<1>f. s[x].tags \subseteq Tags
  BY <1>t DEF SyncRecords
<1>s. "list" \in SPC /\ "idents" \in SPC
  BY DEF SPC
<1>h. UNCHANGED <<stores, status>> => status' \in [ok : BOOLEAN, fresh : BOOLEAN] /\ StatusHonest'
  BY <1>t DEF stores, StatusHonest, Holding
<1>1. ASSUME ListInbounds(x) PROVE Inv'
  <2> DEFINE Q(T) == [s[x] EXCEPT !.pc = "list", !.tags = T, !.f = 1]
             all == {t \in Tags : HasRow(t)}
  <2>1. /\ s[x].pc = "visit" /\ s[x].stale = {} /\ UNCHANGED <<stores, status>> /\ Doubt /\ h' = h
    BY <1>1 DEF ListInbounds, Visited, Go
  <2>2. \/ s' = [s EXCEPT ![x] = Q(all)] /\ quiet' = quiet \cup {x}
        \/ s' = [s EXCEPT ![x] = Q({})] /\ quiet' = quiet
    BY <1>1 DEF ListInbounds, Go
  <2>3. x \notin quiet
    BY <2>1 DEF Inv, QuietOf
  <2>4. 1 \in Files
    BY FilesAssumption DEF Files
  <2>5. ASSUME NEW T \in SUBSET Tags
        PROVE  Q(T) \in SyncRecords /\ Q(T).pc = "list" /\ Q(T).stale = {} /\ Q(T).tags = T
    BY <1>s, <1>t, <2>1, <2>4 DEF SyncRecords
  <2> HIDE DEF Q
  <2>6. ASSUME NEW T \in SUBSET Tags PROVE SyncOf(Q(T))
    BY <2>5 DEF SyncOf
  <2>7. all \in SUBSET Tags /\ {} \in SUBSET Tags
    OBVIOUS
  <2>8. QuietOf(Q(all), client, file)
    <3>1. \A t \in Tags : client[t] = "on" => t \in all
      BY <1>t DEF StoreTypes
    <3> HIDE DEF all
    <3> QED BY <2>5, <2>7, <3>1 DEF QuietOf
  <2> HIDE DEF all
  <2>9. CASE s' = [s EXCEPT ![x] = Q(all)] /\ quiet' = quiet \cup {x}
    BY <1>h, <1>t, <2>1, <2>5, <2>6, <2>7, <2>8, <2>9, BackSync
  <2>10. CASE s' = [s EXCEPT ![x] = Q({})] /\ quiet' = quiet
    BY <1>h, <1>t, <2>1, <2>3, <2>5, <2>6, <2>7, <2>10, BackSync
  <2> QED BY <2>2, <2>9, <2>10
<1>2. ASSUME NEW t \in Tags, ListClients(x, t) PROVE Inv'
  <2> DEFINE left == s[x].tags \ {t}
             done == [s[x] EXCEPT !.tags = left]
             next == [s[x] EXCEPT !.tags = left, !.t = t, !.pc = "idents"]
  <2>1. /\ s[x].pc = "list" /\ UNCHANGED <<stores, status>> /\ Doubt /\ h' = h
    BY <1>2, Zenon DEF ListClients, Go
  <2>2. \/ s' = [s EXCEPT ![x] = next] /\ quiet' = quiet
        \/ s' = [s EXCEPT ![x] = done] /\ client[t] # "on" /\ quiet' = quiet
        \/ s' = [s EXCEPT ![x] = done] /\ quiet' = quiet \ {x}
    <3>1. [s[x] EXCEPT !.tags = @ \ {t}] = done
      BY <1>t DEF SyncRecords
    <3>2. [done EXCEPT !.t = t, !.pc = "idents"] = next
      BY <1>t DEF SyncRecords
    <3> QED BY <1>2, <3>1, <3>2, Zenon DEF ListClients, Go
  <2>3. left \in SUBSET Tags
    BY <1>f
  <2>4. /\ done \in SyncRecords /\ done.pc = "list" /\ done.stale = s[x].stale /\ done.tags = left
        /\ done.ok = s[x].ok
    BY <1>t, <2>1, <2>3 DEF SyncRecords
  <2>5. /\ next \in SyncRecords /\ next.pc = "idents" /\ next.stale = s[x].stale /\ next.tags = left
        /\ next.t = t /\ next.ok = s[x].ok
    BY <1>s, <1>t, <2>3 DEF SyncRecords
  <2>l. \A u \in s[x].tags : u \in left \/ u = t
    OBVIOUS
  <2> HIDE DEF done, next, left
  <2>6. SyncOf(done) /\ SyncOf(next)
    BY <1>t, <2>1, <2>4, <2>5 DEF SyncOf
  <2>7. x \in quiet => QuietOf(next, client, file) /\ (client[t] # "on" => QuietOf(done, client, file))
    <3> SUFFICES ASSUME x \in quiet
                 PROVE  QuietOf(next, client, file) /\ (client[t] # "on" => QuietOf(done, client, file))
      OBVIOUS
    <3>1. s[x].ok => \A u \in Tags : client[u] = "on" => u \in s[x].tags \/ InFile(u, file)
      BY <2>1 DEF Inv, QuietOf
    <3>2. next.ok => \A u \in Tags : client[u] = "on" => u \in left \/ u = t \/ InFile(u, file)
      BY <2>5, <2>l, <3>1
    <3>3. client[t] # "on" /\ done.ok => \A u \in Tags : client[u] = "on" => u \in left \/ InFile(u, file)
      BY <2>4, <2>l, <3>1
    <3> QED BY <2>4, <2>5, <3>2, <3>3 DEF QuietOf
  <2>8. CASE s' = [s EXCEPT ![x] = next] /\ quiet' = quiet
    BY <1>h, <1>t, <2>1, <2>5, <2>6, <2>7, <2>8, BackSync
  <2>9. CASE s' = [s EXCEPT ![x] = done] /\ client[t] # "on" /\ quiet' = quiet
    BY <1>h, <1>t, <2>1, <2>4, <2>6, <2>7, <2>9, BackSync
  <2>10. CASE s' = [s EXCEPT ![x] = done] /\ quiet' = quiet \ {x}
    BY <1>h, <1>t, <2>1, <2>4, <2>6, <2>10, BackSync
  <2> QED BY <2>2, <2>8, <2>9, <2>10
<1> QED BY <1>1, <1>2

(* Looking for the client in config.d, and writing it back.                *)
LEMMA WriteInv ==
    ASSUME Inv, NEW x \in Syncs, Idents(x) \/ Find(x) \/ ReadCopy(x) \/ WriteBack(x)
    PROVE  Inv'
<1>t. SyncOf(s[x]) /\ s[x] \in SyncRecords /\ s \in [Syncs -> SyncRecords] /\ StoreTypes /\ AdminOf(h)
  BY DEF Inv
<1>f. s[x].t \in Tags /\ s[x].f \in Files /\ s[x].buf \in Contents /\ s[x].tags \subseteq Tags
  BY <1>t DEF SyncRecords
<1>s. "list" \in SPC /\ "find" \in SPC /\ "read" \in SPC /\ "write" \in SPC
  BY DEF SPC
<1>n. 1 \in Files /\ Unread \in Contents
  BY FilesAssumption, ContentsFacts DEF Files
<1>q. x \in quiet => QuietOf(s[x], client, file)
  BY DEF Inv
<1>h. \A f \in Holding(s[x].t) :
        f \in Files /\ file[f] \in Contents /\ file[f].form = "json" /\ s[x].t \in file[f].tags
  BY <1>f, <1>t, HoldingFacts
<1>p. ASSUME NEW q, q.stale = {}, q.pc \in {"list", "find", "read", "write"}, NEW t \in Tags
      PROVE  PlaceOf(q, t, row[t].at)
  BY <1>p DEF PlaceOf, HasRead
<1>u. ASSUME UNCHANGED stores PROVE StoreTypes' /\ client' = client /\ file' = file
  BY <1>t, <1>u DEF StoreTypes, stores, HasRow
<1>b. ASSUME NotWritten(x), s[x].stale = {}, UNCHANGED stores, Moved({x}) PROVE Inv'
  <2> DEFINE bad == [s[x] EXCEPT !.pc = "list", !.f = 1, !.buf = Unread, !.ok = FALSE]
  <2>1. s' = [s EXCEPT ![x] = bad] /\ h' = h
    BY <1>b DEF NotWritten, Go
  <2>2. bad \in SyncRecords /\ bad.pc = "list" /\ bad.stale = {} /\ bad.ok = FALSE
    BY <1>b, <1>n, <1>s, <1>t DEF SyncRecords
  <2> HIDE DEF bad
  <2>3. SyncOf(bad) /\ QuietOf(bad, client', file')
    BY <2>2 DEF SyncOf, QuietOf
  <2> QED BY <1>b, <1>p, <1>t, <1>u, <2>1, <2>2, <2>3, OneSync
<1>g. ASSUME NEW q, SyncOf(q), q.stale = {}, s' = [s EXCEPT ![x] = q], h' = h, UNCHANGED stores, Moved({x}),
             q.pc \in {"list", "find", "read", "write"}, x \in quiet => QuietOf(q, client, file)
      PROVE  Inv'
  <2>1. x \in quiet => QuietOf(q, client', file')
    BY <1>g, <1>u, Zenon
  <2> QED BY <1>g, <1>p, <1>t, <1>u, <2>1, OneSync
<1>k. ASSUME s[x].pc \in {"idents", "find", "read"}, x \in quiet
      PROVE  s[x].ok => \A u \in Tags : client[u] = "on" => u \in s[x].tags \/ u = s[x].t \/ InFile(u, file)
  BY <1>k, <1>q DEF QuietOf
<1>1. ASSUME Idents(x) PROVE Inv'
  <2> DEFINE t == s[x].t
             seen == [s[x] EXCEPT !.pc = "list"]
             find == [s[x] EXCEPT !.pc = "find"]
  <2>1. s[x].pc = "idents" /\ UNCHANGED stores /\ Moved({x}) /\ s[x].stale = {}
    BY <1>1, <1>t DEF Idents, SyncOf
  <2>2. \/ NotWritten(x)
        \/ s' = [s EXCEPT ![x] = seen] /\ h' = h /\ \E f \in Holding(t) : t \in file[f].users
        \/ s' = [s EXCEPT ![x] = find] /\ h' = h
    BY <1>1 DEF Idents, Go
  <2>3. /\ seen \in SyncRecords /\ seen.pc = "list" /\ seen.stale = {} /\ seen.ok = s[x].ok
        /\ seen.tags = s[x].tags
    BY <1>s, <1>t, <2>1 DEF SyncRecords
  <2>4. /\ find \in SyncRecords /\ find.pc = "find" /\ find.stale = {} /\ find.ok = s[x].ok
        /\ find.tags = s[x].tags /\ find.t = s[x].t
    BY <1>s, <1>t, <2>1 DEF SyncRecords
  <2> HIDE DEF seen, find
  <2>5. CASE NotWritten(x)
    BY <1>b, <2>1, <2>5
  <2>6. CASE s' = [s EXCEPT ![x] = seen] /\ h' = h /\ \E f \in Holding(t) : t \in file[f].users
    <3>1. SyncOf(seen) /\ InFile(t, file)
      BY <1>h, <2>3, <2>6 DEF SyncOf, InFile
    <3>2. x \in quiet => (s[x].ok => \A u \in Tags : client[u] = "on" => u \in s[x].tags \/ InFile(u, file))
      BY <1>k, <2>1, <3>1
    <3>3. x \in quiet => QuietOf(seen, client, file)
      BY <2>3, <3>2 DEF QuietOf
    <3> QED BY <1>g, <2>1, <2>3, <2>6, <3>1, <3>3
  <2>7. CASE s' = [s EXCEPT ![x] = find] /\ h' = h
    <3>1. SyncOf(find)
      BY <2>4 DEF SyncOf
    <3>2. x \in quiet => QuietOf(find, client, file)
      BY <1>k, <2>1, <2>4 DEF QuietOf
    <3> QED BY <1>g, <2>1, <2>4, <2>7, <3>1, <3>2
  <2> QED BY <2>2, <2>5, <2>6, <2>7
<1>3. ASSUME Find(x) PROVE Inv'
  <2> DEFINE first == FirstHolding(s[x].t)
             read == [s[x] EXCEPT !.pc = "read", !.f = first]
  <2>1. s[x].pc = "find" /\ UNCHANGED stores /\ Moved({x}) /\ s[x].stale = {}
    BY <1>3, <1>t DEF Find, SyncOf
  <2>2. \/ NotWritten(x)
        \/ s' = [s EXCEPT ![x] = read] /\ h' = h /\ first \in Files
    <3>1. Holding(s[x].t) # {} => first \in Files
      BY <1>f, <1>t, HoldingFacts
    <3> QED BY <1>3, <3>1 DEF Find, Go
  <2>3. CASE NotWritten(x)
    BY <1>b, <2>1, <2>3
  <2>4. CASE s' = [s EXCEPT ![x] = read] /\ h' = h /\ first \in Files
    <3> HIDE DEF first
    <3>1. /\ read \in SyncRecords /\ read.pc = "read" /\ read.stale = {} /\ read.ok = s[x].ok
          /\ read.tags = s[x].tags /\ read.t = s[x].t
      BY <1>s, <1>t, <2>1, <2>4 DEF SyncRecords
    <3>2. s' = [s EXCEPT ![x] = read] /\ h' = h
      BY <2>4
    <3> HIDE DEF read
    <3>3. SyncOf(read)
      BY <3>1 DEF SyncOf
    <3>4. x \in quiet => QuietOf(read, client, file)
      BY <1>k, <2>1, <3>1 DEF QuietOf
    <3> QED BY <1>g, <2>1, <3>1, <3>2, <3>3, <3>4
  <2> QED BY <2>2, <2>3, <2>4
<1>4. ASSUME ReadCopy(x) PROVE Inv'
  <2> DEFINE f == s[x].f
             write == [s[x] EXCEPT !.pc = "write", !.buf = file[f]]
  <2>1. s[x].pc = "read" /\ UNCHANGED stores /\ Moved({x}) /\ s[x].stale = {}
    BY <1>4, <1>t DEF ReadCopy, SyncOf
  <2>2. \/ NotWritten(x)
        \/ s' = [s EXCEPT ![x] = write] /\ h' = h /\ f \in Holding(s[x].t)
    BY <1>4 DEF ReadCopy, Go
  <2>3. CASE NotWritten(x)
    BY <1>b, <2>1, <2>3
  <2>4. CASE s' = [s EXCEPT ![x] = write] /\ h' = h /\ f \in Holding(s[x].t)
    <3>1. file[f] \in Contents /\ file[f].form = "json" /\ s[x].t \in file[f].tags
      BY <1>h, <2>4
    <3>2. /\ write \in SyncRecords /\ write.pc = "write" /\ write.stale = {} /\ write.ok = s[x].ok
          /\ write.tags = s[x].tags /\ write.t = s[x].t /\ write.f = f /\ write.buf = file[f]
      BY <1>s, <1>t, <2>1, <3>1 DEF SyncRecords
    <3>3. s' = [s EXCEPT ![x] = write] /\ h' = h
      BY <2>4
    <3> HIDE DEF write, f
    <3>4. SyncOf(write)
      BY <3>1, <3>2 DEF SyncOf
    <3>5. x \in quiet => QuietOf(write, client, file)
      BY <1>k, <2>1, <3>2 DEF QuietOf
    <3> QED BY <1>g, <2>1, <3>2, <3>3, <3>4, <3>5
  <2> QED BY <2>2, <2>3, <2>4
<1>2. ASSUME WriteBack(x) PROVE Inv'
  <2> DEFINE t == s[x].t
             users == s[x].buf.users \cup {t}
             copy == [s[x].buf EXCEPT !.users = users]
             done == [s[x] EXCEPT !.pc = "list", !.f = 1, !.buf = Unread]
  <2>1. s[x].pc = "write" /\ Moved({x}) /\ h' = h
    BY <1>2 DEF WriteBack, NotWritten, Go
  <2>b. s[x].buf.form = "json" /\ t \in s[x].buf.tags /\ users \in SUBSET Tags /\ s[x].stale = {}
    BY <1>f, <1>t, <2>1, ContentsFacts DEF SyncOf
  <2>2. \/ /\ file' = [file EXCEPT ![s[x].f] = copy] /\ s' = [s EXCEPT ![x] = done]
           /\ UNCHANGED <<row, client>>
        \/ NotWritten(x) /\ UNCHANGED stores
    <3>1. [s[x].buf EXCEPT !.users = @ \cup {s[x].t}] = copy
      BY Zenon
    <3> QED BY <1>2, <3>1, Zenon DEF WriteBack, Go
  <2>u. t \in users /\ s[x].buf.users \subseteq users
    OBVIOUS
  <2> HIDE DEF users
  <2>3. copy \in Contents /\ copy.form = "json" /\ copy.tags = s[x].buf.tags /\ copy.users = users
    <3> DEFINE c == s[x].buf
    <3>1. c \in Contents /\ c.form = "json"
      BY <1>f, <2>b
    <3> HIDE DEF c
    <3>2. \A U \in SUBSET Tags :
            /\ [c EXCEPT !.users = U] \in Contents
            /\ [c EXCEPT !.users = U].form = "json" /\ [c EXCEPT !.users = U].tags = c.tags
            /\ [c EXCEPT !.users = U].users = U
      BY <3>1, ContentsFacts, Zenon
    <3> QED BY <2>b, <3>2, Zenon DEF c
  <2>4. /\ done \in SyncRecords /\ done.pc = "list" /\ done.stale = {} /\ done.ok = s[x].ok
        /\ done.tags = s[x].tags
    BY <1>n, <1>s, <1>t, <2>b DEF SyncRecords
  <2> HIDE DEF done, copy
  <2>6. CASE NotWritten(x) /\ UNCHANGED stores
    BY <1>b, <2>1, <2>6, <2>b
  <2>7. CASE /\ file' = [file EXCEPT ![s[x].f] = copy] /\ s' = [s EXCEPT ![x] = done]
             /\ UNCHANGED <<row, client>>
    <3>1. /\ file' \in [Files -> Contents] /\ file'[s[x].f] = copy
          /\ \A f \in Files : f # s[x].f => file'[f] = file[f]
      BY <1>f, <1>t, <2>3, <2>7 DEF StoreTypes
    <3>2. StoreTypes'
      BY <1>t, <2>7, <3>1 DEF StoreTypes, HasRow
    <3>3. SyncOf(done)
      BY <2>4 DEF SyncOf
    <3>4. ASSUME x \in quiet PROVE QuietOf(done, client', file')
      <4>1. /\ s[x].buf = file[s[x].f]
            /\ s[x].ok => \A u \in Tags : client[u] = "on" => u \in s[x].tags \/ u = t \/ InFile(u, file)
        BY <1>q, <2>1, <3>4 DEF QuietOf
      <4>2. InFile(t, file')
        BY <1>f, <2>3, <2>b, <2>u, <3>1 DEF InFile
      <4>3. ASSUME NEW u \in Tags, InFile(u, file) PROVE InFile(u, file')
        <5>1. PICK f \in Files : file[f].form = "json" /\ u \in file[f].tags /\ u \in file[f].users
          BY <4>3 DEF InFile
        <5>2. file'[f].form = "json" /\ u \in file'[f].tags /\ u \in file'[f].users
          BY <2>3, <2>u, <3>1, <4>1, <5>1
        <5> QED BY <5>2 DEF InFile
      <4>4. done.ok => \A u \in Tags : client'[u] = "on" => u \in done.tags \/ InFile(u, file')
        BY <2>4, <2>7, <4>1, <4>2, <4>3
      <4> QED BY <2>4, <4>4 DEF QuietOf
    <3> QED BY <1>p, <1>t, <2>1, <2>4, <2>7, <3>2, <3>3, <3>4, OneSync
  <2> QED BY <2>2, <2>6, <2>7
<1> QED BY <1>1, <1>2, <1>3, <1>4

(* The Sync is over and its result recorded: if it is fresh, all enabled   *)
(* clients have been seen in config.d.                                     *)
LEMMA RecordInv ==
    ASSUME Inv, NEW x \in Syncs, Record(x)
    PROVE  Inv'
<1>t. SyncOf(s[x]) /\ s[x] \in SyncRecords /\ s \in [Syncs -> SyncRecords] /\ StoreTypes /\ AdminOf(h)
  BY DEF Inv
<1>1. /\ s[x].pc = "list" /\ s[x].tags = {} /\ Return(x) /\ UNCHANGED stores /\ Doubt
      /\ status' = [ok |-> s[x].ok, fresh |-> x \in quiet] /\ quiet' = quiet \ {x}
  BY DEF Record
<1>2. s' = [s EXCEPT ![x] = IdleSync]
  BY <1>1 DEF Return
<1>3. AdminOf(h')
  <2>1. IdleAdmin.x \in Syncs
    BY IdleFacts DEF AdminRecords
  <2>2. AdminOf([h EXCEPT !.pc = "again", !.x = IdleAdmin.x])
    BY <1>t, <2>1 DEF AdminOf, AdminRecords
  <2> QED BY <1>1, <1>t, <2>2 DEF Return
<1> DEFINE b == x \in quiet
<1>4. status' = [ok |-> s[x].ok, fresh |-> b] /\ b \in BOOLEAN /\ s[x].ok \in BOOLEAN
  BY <1>1, <1>t DEF SyncRecords
<1> HIDE DEF b
<1>5. status' \in [ok : BOOLEAN, fresh : BOOLEAN] /\ status'.ok = s[x].ok /\ status'.fresh = b
  BY <1>4
<1>6. StatusHonest'
  <2>1. ASSUME status'.fresh, status'.ok, NEW t \in Tags, client'[t] = "on"
        PROVE  \E f \in Holding(t)' : t \in file'[f].users
    <3>1. x \in quiet /\ s[x].ok
      BY <1>5, <2>1, Zenon DEF b
    <3>2. file' = file /\ client' = client
      BY <1>1 DEF stores
    <3>3. InFile(t, file)
      BY <1>1, <2>1, <3>1, <3>2 DEF Inv, QuietOf
    <3> QED BY <3>2, <3>3 DEF InFile, Holding
  <2> QED BY <2>1 DEF StatusHonest
<1>7. quiet' \subseteq quiet \cup {x} /\ x \notin quiet'
  BY <1>1
<1> QED BY <1>1, <1>2, <1>3, <1>5, <1>6, <1>7, IdleFacts, BackSync

(* A step of a request or of the operator: no Sync moves.                  *)
LEMMA OutsideStep ==
    ASSUME Inv, UNCHANGED s, AdminOf(h'), StoreTypes', Moved({})
    PROVE  Inv'
<1>1. s' \in [Syncs -> SyncRecords] /\ \A y \in Syncs \ {} : s'[y] = s[y]
  BY DEF Inv
<1>2. Doubt /\ quiet' \subseteq quiet \cup {} /\ (stores' = stores \/ quiet' \subseteq {})
  BY DEF Moved, Observed
<1>3. status' \in [ok : BOOLEAN, fresh : BOOLEAN] /\ StatusHonest'
  BY StatusKept, Zenon DEF Moved
<1>4. /\ {} \in SUBSET Syncs
      /\ \A y \in {} : SyncOf(s'[y]) /\ (y \in quiet' => QuietOf(s'[y], client', file'))
      /\ \A y \in {}, t \in Tags : y \in Importing' /\ y \notin doubt'[t] => PlaceOf(s'[y], t, row'[t].at)
  OBVIOUS
<1> QED BY <1>1, <1>2, <1>3, <1>4, StepInv

(* The admin switches a client, or enrols the account.                     *)
LEMMA SwitchInv ==
    ASSUME Inv, NEW t \in Tags, EnableClient(t) \/ DisableClient(t) \/ Enroll(t)
    PROVE  Inv'
<1>t. StoreTypes /\ AdminOf(h)
  BY DEF Inv
<1>a. ASSUME NEW p \in {"remove", "sync"} PROVE AdminOf([IdleAdmin EXCEPT !.pc = p, !.t = t])
  BY IdleFacts DEF AdminOf, AdminRecords
<1>1. ASSUME NEW c \in {"on", "off"}, HasRow(t), client' = [client EXCEPT ![t] = c], UNCHANGED <<file, row>>
      PROVE  StoreTypes'
  BY <1>1, <1>t DEF StoreTypes, HasRow
<1>2. ASSUME EnableClient(t) PROVE Inv'
  <2>1. /\ client[t] = "off" /\ client' = [client EXCEPT ![t] = "on"]
        /\ UNCHANGED <<file, row>> /\ UNCHANGED s /\ h' = h /\ Moved({})
    BY <1>2 DEF EnableClient
  <2>2. HasRow(t)
    BY <1>t, <2>1 DEF StoreTypes
  <2> QED BY <1>1, <1>t, <2>1, <2>2, OutsideStep
<1>3. ASSUME DisableClient(t) PROVE Inv'
  <2>1. /\ client[t] = "on" /\ client' = [client EXCEPT ![t] = "off"]
        /\ UNCHANGED <<file, row>> /\ UNCHANGED s /\ Moved({})
        /\ h' = [IdleAdmin EXCEPT !.pc = "remove", !.t = t]
    BY <1>3 DEF DisableClient, Admin
  <2>2. HasRow(t)
    BY <1>t, <2>1 DEF StoreTypes
  <2> QED BY <1>1, <1>a, <2>1, <2>2, OutsideStep
<1>4. ASSUME Enroll(t) PROVE Inv'
  <2>1. UNCHANGED <<file, row>> /\ UNCHANGED s /\ Moved({})
    BY <1>4 DEF Enroll, Admin
  <2>2. \/ HasRow(t) /\ client' = [client EXCEPT ![t] = "on"] /\ h' = IdleAdmin
        \/ UNCHANGED client /\ h' = [IdleAdmin EXCEPT !.pc = "sync", !.t = t]
    BY <1>4 DEF Enroll, Admin
  <2>3. CASE HasRow(t) /\ client' = [client EXCEPT ![t] = "on"] /\ h' = IdleAdmin
    BY <1>1, <2>1, <2>3, IdleFacts, OutsideStep
  <2>4. CASE UNCHANGED client /\ h' = [IdleAdmin EXCEPT !.pc = "sync", !.t = t]
    <3>1. StoreTypes'
      BY <1>t, <2>1, <2>4 DEF StoreTypes, HasRow
    <3> QED BY <1>a, <2>1, <2>4, <3>1, OutsideStep
  <2> QED BY <2>2, <2>3, <2>4
<1> QED BY <1>2, <1>3, <1>4

(* A request goes on.                                                      *)
LEMMA HandlerInv ==
    ASSUME Inv, Handler
    PROVE  Inv'
<1>t. StoreTypes /\ AdminOf(h) /\ h.t \in Tags /\ h.f \in Files /\ h.buf \in Contents /\ h \in AdminRecords
  BY DEF Inv, AdminOf, AdminRecords
<1>n. \A f \in Files : f \in 0..ApiManaged /\ f # NoRow
  BY FilesAssumption DEF Files, ApiManaged, NoRow
<1>m. ApiManaged \in 0..ApiManaged /\ ApiManaged # NoRow
  BY FilesAssumption DEF ApiManaged, NoRow
<1>1. ASSUME RemoveRead PROVE Inv'
  <2> DEFINE first == FirstHolding(h.t)
             r == [h EXCEPT !.pc = "save", !.f = first, !.buf = file[first]]
  <2>1. UNCHANGED stores /\ UNCHANGED s /\ Moved({}) /\ (h' = IdleAdmin \/ (h' = r /\ Holding(h.t) # {}))
    BY <1>1 DEF RemoveRead, Admin
  <2>2. Holding(h.t) # {} => first \in Files /\ file[first] \in Contents /\ file[first].form = "json"
    BY <1>t, HoldingFacts
  <2> HIDE DEF first
  <2>3. Holding(h.t) # {} => AdminOf(r)
    BY <1>t, <2>2 DEF AdminOf, AdminRecords
  <2>4. StoreTypes'
    BY <1>t, <2>1 DEF StoreTypes, stores, HasRow
  <2> HIDE DEF r
  <2> QED BY <2>1, <2>3, <2>4, IdleFacts, OutsideStep
<1>2. ASSUME RemoveSave PROVE Inv'
  <2> DEFINE users == h.buf.users \ {h.t}
             copy == [h.buf EXCEPT !.users = users]
  <2>1. h.pc = "save" /\ h' = IdleAdmin /\ UNCHANGED s /\ Moved({})
    BY <1>2 DEF RemoveSave, Admin
  <2>2. UNCHANGED <<row, client>> /\ (UNCHANGED file \/ file' = [file EXCEPT ![h.f] = copy])
    BY <1>2, Zenon DEF RemoveSave, stores
  <2>3. copy \in Contents
    <3>1. h.buf.form = "json" /\ users \in SUBSET Tags
      BY <1>t, <2>1, ContentsFacts DEF AdminOf
    <3> QED BY <1>t, <3>1, ContentsFacts
  <2> HIDE DEF copy
  <2>4. StoreTypes'
    BY <1>t, <2>2, <2>3 DEF StoreTypes, HasRow
  <2> QED BY <2>1, <2>4, IdleFacts, OutsideStep
<1>3. ASSUME EnrollAgain PROVE Inv'
  <2> DEFINE t == h.t
             c == IF client[t] = "none" THEN "on" ELSE client[t]
  <2>1. h' = IdleAdmin /\ UNCHANGED s /\ UNCHANGED file /\ Moved({})
    BY <1>3 DEF EnrollAgain, Admin
  <2>2. \/ HasRow(t) /\ client' = [client EXCEPT ![t] = c] /\ UNCHANGED row
        \/ /\ client' = [client EXCEPT ![t] = c]
           /\ \E f \in Holding(t) : row' = [row EXCEPT ![t] = [at |-> f, raw |-> t \in file[f].users]]
        \/ /\ client' = [client EXCEPT ![t] = c]
           /\ row' = [row EXCEPT ![t] = [at |-> ApiManaged, raw |-> FALSE]]
        \/ UNCHANGED <<row, client>>
    BY <1>3, Zenon DEF EnrollAgain
  <2>3. c \in {"none", "on", "off"} /\ c # "none"
    BY <1>t DEF StoreTypes
  <2> HIDE DEF c
  <2>4. ASSUME client' = [client EXCEPT ![t] = c], NEW r \in Rows, r.at # NoRow, row' = [row EXCEPT ![t] = r]
        PROVE  StoreTypes'
    <3>1. /\ client' \in [Tags -> {"none", "on", "off"}] /\ row' \in [Tags -> Rows] /\ row'[t] = r
          /\ \A u \in Tags : u # t => client'[u] = client[u] /\ row'[u] = row[u]
      BY <1>t, <2>3, <2>4 DEF StoreTypes
    <3> QED BY <1>t, <2>1, <2>4, <3>1 DEF StoreTypes, HasRow
  <2>5. CASE HasRow(t) /\ client' = [client EXCEPT ![t] = c] /\ UNCHANGED row
    <3>1. StoreTypes'
      BY <1>t, <2>1, <2>3, <2>5 DEF StoreTypes, HasRow
    <3> QED BY <2>1, <3>1, IdleFacts, OutsideStep
  <2>6. CASE /\ client' = [client EXCEPT ![t] = c]
             /\ \E f \in Holding(t) : row' = [row EXCEPT ![t] = [at |-> f, raw |-> t \in file[f].users]]
    <3>1. PICK f \in Holding(t) : row' = [row EXCEPT ![t] = [at |-> f, raw |-> t \in file[f].users]]
      BY <2>6
    <3> DEFINE b == t \in file[f].users
               r == [at |-> f, raw |-> b]
    <3>2. f \in Files
      BY <1>t, HoldingFacts
    <3>b. b \in BOOLEAN
      OBVIOUS
    <3>3. row' = [row EXCEPT ![t] = r]
      BY <3>1, Zenon
    <3> HIDE DEF b
    <3>4. r \in Rows /\ r.at # NoRow
      BY <1>n, <3>2, <3>b DEF Rows
    <3> HIDE DEF r
    <3>5. StoreTypes'
      BY <2>4, <2>6, <3>3, <3>4
    <3> QED BY <2>1, <3>5, IdleFacts, OutsideStep
  <2>7. CASE /\ client' = [client EXCEPT ![t] = c]
             /\ row' = [row EXCEPT ![t] = [at |-> ApiManaged, raw |-> FALSE]]
    <3> DEFINE r == [at |-> ApiManaged, raw |-> FALSE]
    <3>1. r \in Rows /\ r.at # NoRow /\ row' = [row EXCEPT ![t] = r]
      BY <1>m, <2>7 DEF Rows
    <3> HIDE DEF r
    <3>2. StoreTypes'
      BY <2>4, <2>7, <3>1
    <3> QED BY <2>1, <3>2, IdleFacts, OutsideStep
  <2>8. CASE UNCHANGED <<row, client>>
    <3>1. StoreTypes'
      BY <1>t, <2>1, <2>8 DEF StoreTypes, HasRow
    <3> QED BY <2>1, <3>1, IdleFacts, OutsideStep
  <2> QED BY <2>2, <2>5, <2>6, <2>7, <2>8
<1> QED BY <1>1, <1>2, <1>3 DEF Handler

(* The operator saves, breaks or deletes a file.                           *)
LEMMA EditInv ==
    ASSUME Inv, NEW f \in Files, NEW c \in Edits, EditFile(f, c)
    PROVE  Inv'
<1>1. StoreTypes /\ AdminOf(h)
  BY DEF Inv
<1>2. /\ c \in Contents /\ file' = [file EXCEPT ![f] = c] /\ UNCHANGED <<row, client>>
      /\ UNCHANGED s /\ h' = h /\ Moved({})
  BY EditsAssumption DEF EditFile
<1>3. StoreTypes'
  BY <1>1, <1>2 DEF StoreTypes, HasRow
<1> QED BY <1>1, <1>2, <1>3, OutsideStep

(* The server stops and starts again: every Sync and request is lost.      *)
LEMMA CrashInv ==
    ASSUME Inv, ServerCrash
    PROVE  Inv'
<1>1. /\ s' = [x \in Syncs |-> IdleSync] /\ h' = IdleAdmin /\ status' = [ok |-> FALSE, fresh |-> FALSE]
      /\ quiet' = {} /\ UNCHANGED stores /\ Doubt
  BY DEF ServerCrash
<1>2. s' \in [Syncs -> SyncRecords] /\ (\A y \in Syncs : s'[y] = IdleSync) /\ Importing' = {}
  BY <1>1, IdleFacts DEF Importing
<1>3. StoreTypes'
  BY <1>1 DEF Inv, StoreTypes, stores, HasRow
<1>4. status' \in [ok : BOOLEAN, fresh : BOOLEAN] /\ StatusHonest'
  BY <1>1 DEF StatusHonest
<1>5. /\ Syncs \in SUBSET Syncs /\ \A y \in Syncs \ Syncs : s'[y] = s[y]
      /\ quiet' \subseteq quiet \cup Syncs /\ (stores' = stores \/ quiet' \subseteq Syncs)
      /\ \A y \in Syncs : SyncOf(s'[y]) /\ (y \in quiet' => QuietOf(s'[y], client', file'))
      /\ \A y \in Syncs, t \in Tags : y \in Importing' /\ y \notin doubt'[t] => PlaceOf(s'[y], t, row'[t].at)
  BY <1>1, <1>2, IdleFacts
<1> QED BY <1>1, <1>2, <1>3, <1>4, <1>5, IdleFacts, StepInv


(* Before the first Sync.                                                  *)
LEMMA InitInv ==
    ASSUME RowsInit
    PROVE  Inv
<1>1. /\ file = [f \in Files |-> IF f = 1 THEN Json(Tags, Tags) ELSE Json({}, {})]
      /\ row = [t \in Tags |-> [at |-> NoRow, raw |-> FALSE]] /\ client = [t \in Tags |-> "none"]
      /\ s = [x \in Syncs |-> IdleSync] /\ h = IdleAdmin /\ status = [ok |-> TRUE, fresh |-> FALSE]
      /\ quiet = {} /\ doubt = [t \in Tags |-> {}]
  BY DEF RowsInit
<1>2. StoreTypes
  <2>1. Json(Tags, Tags) \in Contents /\ Json({}, {}) \in Contents
    BY ContentsFacts
  <2>2. file \in [Files -> Contents]
    BY <1>1, <2>1
  <2>3. [at |-> NoRow, raw |-> FALSE] \in Rows
    BY FilesAssumption DEF Rows, NoRow, ApiManaged
  <2>4. /\ row \in [Tags -> Rows]
        /\ client \in [Tags -> {"none", "on", "off"}] /\ \A t \in Tags : client[t] = "none"
    BY <1>1, <2>3
  <2> QED BY <2>2, <2>4 DEF StoreTypes
<1>3. s \in [Syncs -> SyncRecords] /\ (\A x \in Syncs : SyncOf(s[x])) /\ Importing = {}
  BY <1>1, IdleFacts DEF Importing
<1>4. status \in [ok : BOOLEAN, fresh : BOOLEAN] /\ StatusHonest
  BY <1>1 DEF StatusHonest
<1>5. doubt \in [Tags -> SUBSET Importing]
  BY <1>1, <1>3
<1> QED BY <1>1, <1>2, <1>3, <1>4, <1>5, IdleFacts DEF Inv

(* Every step preserves the invariant.                                     *)
LEMMA NextInv ==
    ASSUME Inv, [RowsNext]_rowVars
    PROVE  Inv'
<1>1. CASE UNCHANGED rowVars
  <2>1. UNCHANGED <<file, row, client, s, h, status, quiet, doubt>>
    BY <1>1 DEF rowVars
  <2>2. UNCHANGED <<StoreTypes, StatusHonest, Importing>> /\ \A t \in Tags : InPlace(t)' = InPlace(t)
    BY <2>1, Zenon DEF StoreTypes, HasRow, StatusHonest, Holding, Importing, InPlace
  <2> QED BY <2>1, <2>2, SMTT(60) DEF Inv, SyncOf, AdminOf, QuietOf, InFile, PlaceOf, HasRead
<1>2. ASSUME NEW x \in Syncs, SyncStart(x) \/ SyncStep(x) PROVE Inv'
  BY <1>2, SyncStartInv, ReadDirInv, VisitInv, ListInv, WriteInv, RecordInv, Zenon DEF SyncStep
<1>3. ASSUME NEW t \in Tags, EnableClient(t) \/ DisableClient(t) \/ Enroll(t) PROVE Inv'
  BY <1>3, SwitchInv
<1>4. CASE Handler
  BY <1>4, HandlerInv
<1>5. ASSUME NEW f \in Files, NEW c \in Edits, EditFile(f, c) PROVE Inv'
  BY <1>5, EditInv
<1>6. CASE ServerCrash
  BY <1>6, CrashInv
<1> QED BY <1>1, <1>2, <1>3, <1>4, <1>5, <1>6, Zenon DEF RowsNext

(* The inductive invariant of the inbound rows and the Syncs over them.    *)
THEOREM RowsInvariant == RowsSpec => []Inv
<1>1. RowsInit => Inv
  BY InitInv
<1>2. Inv /\ [RowsNext]_rowVars => Inv'
  BY NextInv
<1> QED BY <1>1, <1>2, PTL DEF RowsSpec

(* Config.d, the rows, the Syncs and the history keep their types; above   *)
(* all, every client row has the row of its inbound, whichever Sync        *)
(* deletes, moves or makes it (the foreign key of user_clients).           *)
THEOREM RowsTypes == RowsSpec => []RowsTypeOK
<1>1. ASSUME Inv PROVE RowsTypeOK
  <2>1. \A x \in Syncs : s[x].tags \cup s[x].named \cup s[x].stale \subseteq Tags
    <3>1. \A x \in Syncs : s[x] \in SyncRecords
      BY <1>1 DEF Inv
    <3> QED BY <3>1 DEF SyncRecords
  <2>2. quiet \subseteq Running
    BY <1>1 DEF Inv, QuietOf, Running
  <2> QED BY <1>1, <2>1, <2>2 DEF Inv, StoreTypes, Rows, RowsTypeOK
<1> QED BY <1>1, RowsInvariant, PTL

(* When the last Sync reports ok, with every query answered and nobody     *)
(* having changed anything since it listed the inbounds, every enabled     *)
(* client is in config.d: the result a Sync records is honest.             *)
THEOREM RowsStatus == RowsSpec => []StatusHonest
<1>1. Inv => StatusHonest
  BY DEF Inv
<1> QED BY <1>1, RowsInvariant, PTL

(* What a step may do to a row that is in its place and about which no     *)
(* Sync that imports is in doubt.                                          *)
LEMMA RowKept ==
    ASSUME Inv, [RowsNext]_rowVars, NEW t \in Tags, HasRow(t), doubt[t] = {}
    PROVE  row'[t].at # NoRow /\ (client[t] # "none" => client'[t] # "none")
<1> DEFINE Goal == row'[t].at # NoRow /\ (client[t] # "none" => client'[t] # "none")
<1>t. StoreTypes /\ s \in [Syncs -> SyncRecords] /\ \A x \in Syncs : s[x].f \in Files
  BY DEF Inv, SyncRecords
<1>n. (\A f \in Files : f # NoRow) /\ ApiManaged # NoRow
  BY FilesAssumption DEF Files, NoRow, ApiManaged
<1>1. ASSUME UNCHANGED <<row, client>> PROVE Goal
  BY <1>1 DEF HasRow
<1>2. ASSUME NEW x \in Syncs, SyncStart(x) \/ SyncStep(x) PROVE Goal
  <2>1. ASSUME CreateApiRow(x) PROVE Goal
    <3>1. /\ client' = client
          /\ \/ row' = row
             \/ row' = [u \in Tags |-> IF u \in ApiTags THEN [at |-> ApiManaged, raw |-> FALSE] ELSE row[u]]
      BY <2>1 DEF CreateApiRow, stores
    <3> QED BY <1>n, <3>1 DEF HasRow
  <2>2. ASSUME NEW u \in Tags, DeleteInbound(x, u) PROVE Goal
    <3>1. /\ s[x].pc = "visit" /\ u \in s[x].stale
          /\ \/ UNCHANGED <<row, client>>
             \/ /\ row' = [row EXCEPT ![u] = [at |-> NoRow, raw |-> FALSE]]
                /\ client' = [client EXCEPT ![u] = "none"]
      BY <2>2 DEF DeleteInbound, stores
    <3>2. x \in Importing
      BY <3>1 DEF Importing
    <3>3. t \notin s[x].stale
      BY <3>2 DEF Inv, PlaceOf
    <3>4. UNCHANGED <<row, client>> \/ (row'[t] = row[t] /\ client'[t] = client[t])
      BY <1>t, <3>1, <3>3 DEF StoreTypes
    <3> QED BY <1>1, <3>4 DEF HasRow
  <2>3. ASSUME NEW u \in Tags, UpsertInbound(x, u) PROVE Goal
    <3> DEFINE named == u \in s[x].named
    <3>1. /\ client' = client
          /\ \/ row' = row
             \/ row' = [row EXCEPT ![u] = [at |-> s[x].f, raw |-> named]]
      BY <2>3, Zenon DEF UpsertInbound, stores
    <3> HIDE DEF named
    <3> QED BY <1>n, <1>t, <3>1 DEF StoreTypes, HasRow
  <2>8. ASSUME SyncClient(x) PROVE Goal
    <3> DEFINE u == s[x].t
    <3>1. /\ row' = row
          /\ \/ client' = client
             \/ client' = [client EXCEPT ![u] = IF HasRow(u) /\ client[u] = "none" THEN "on" ELSE client[u]]
      BY <2>8, Zenon DEF SyncClient, stores
    <3> HIDE DEF u
    <3>2. client[t] # "none" => client'[t] # "none"
      BY <1>t, <3>1 DEF StoreTypes
    <3> QED BY <3>1, <3>2 DEF HasRow
  <2>4. ASSUME SyncStart(x) \/ Parse(x) \/ ParseFails(x) \/ \E f \in Files : Visit(x, f)
        PROVE  UNCHANGED stores
    BY <2>4 DEF SyncStart, Parse, ParseFails, Visit
  <2>5. ASSUME ListInbounds(x) \/ (\E u \in Tags : ListClients(x, u)) \/ Idents(x) \/ Find(x)
               \/ ReadCopy(x) \/ Record(x)
        PROVE  UNCHANGED stores
    BY <2>5, Zenon DEF ListInbounds, ListClients, Idents, Find, ReadCopy, Record
  <2>6. ASSUME WriteBack(x) PROVE UNCHANGED <<row, client>>
    BY <2>6 DEF WriteBack, stores
  <2>7. UNCHANGED stores => UNCHANGED <<row, client>>
    BY DEF stores
  <2> QED BY <1>1, <1>2, <2>1, <2>2, <2>3, <2>4, <2>5, <2>6, <2>7, <2>8, Zenon DEF SyncStep
<1>3. ASSUME NEW u \in Tags, NEW c, c # "none", row' = row,
             client' = client \/ client' = [client EXCEPT ![u] = c]
      PROVE  Goal
  BY <1>3, <1>t DEF StoreTypes, HasRow
<1>4. ASSUME NEW u \in Tags, EnableClient(u) \/ DisableClient(u) \/ Enroll(u) PROVE Goal
  <2>1. /\ row' = row
        /\ client' = client \/ client' = [client EXCEPT ![u] = "on"] \/ client' = [client EXCEPT ![u] = "off"]
    BY <1>4 DEF EnableClient, DisableClient, Enroll
  <2> QED BY <1>3, <2>1
<1>5. ASSUME Handler PROVE Goal
  <2>1. ASSUME EnrollAgain PROVE Goal
    <3> DEFINE u == h.t
    <3>1. u \in Tags
      BY DEF Inv, AdminOf, AdminRecords
    <3>2. /\ row' = row \/ (~HasRow(u) /\ \E r : row' = [row EXCEPT ![u] = r])
          /\ client' = client \/ client' = [client EXCEPT ![u] = IF @ = "none" THEN "on" ELSE @]
      BY <2>1, Zenon DEF EnrollAgain
    <3> HIDE DEF u
    <3>3. row'[t] = row[t]
      <4>1. CASE row' = row
        BY <4>1
      <4>2. CASE ~HasRow(u) /\ \E r : row' = [row EXCEPT ![u] = r]
        BY <1>t, <4>2 DEF StoreTypes
      <4> QED BY <3>2, <4>1, <4>2
    <3>4. client[t] # "none" => client'[t] # "none"
      BY <1>t, <3>1, <3>2 DEF StoreTypes
    <3> QED BY <3>3, <3>4 DEF HasRow
  <2>2. ASSUME RemoveRead \/ RemoveSave PROVE UNCHANGED <<row, client>>
    BY <2>2, Zenon DEF RemoveRead, RemoveSave, stores
  <2> QED BY <1>1, <1>5, <2>1, <2>2 DEF Handler
<1>6. ASSUME ServerCrash \/ (\E f \in Files, c \in Edits : EditFile(f, c)) \/ UNCHANGED rowVars
      PROVE  UNCHANGED <<row, client>>
  BY <1>6, Zenon DEF ServerCrash, EditFile, rowVars, stores
<1> QED BY <1>1, <1>2, <1>4, <1>5, <1>6, Zenon DEF RowsNext

(* While every running Sync began after the inbound was put where its row  *)
(* says, no step deletes the row or the account's client row in it: not a  *)
(* file that is broken or gone, not the order in which files are visited,  *)
(* not another Sync that runs at the same time.                            *)
THEOREM RowsInPlace == RowsSpec => InPlaceKept
<1>1. ASSUME Inv, [RowsNext]_rowVars
      PROVE  [\A t \in Tags : HasRow(t) /\ InPlace(t) /\ doubt[t] = {} =>
                row'[t].at # NoRow /\ (client[t] # "none" => client'[t] # "none")]_rowVars
  BY <1>1, RowKept
<1> QED BY <1>1, RowsInvariant, PTL DEF RowsSpec, InPlaceKept

-----------------------------------------------------------------------------
(* Both levels.                                                            *)

(* A step of the directory is a step of one level and none of the other,   *)
(* so what is proved of each level holds of ConfigDir: the file is         *)
(* replaced atomically, rows in place are kept and an ok status is true.   *)
LEMMA DirImplements == DirSpec => Spec /\ RowsSpec
<1>1. DirInit => Init /\ RowsInit
  BY DEF DirInit
<1>2. [DirNext]_dirVars => [Next]_vars /\ [RowsNext]_rowVars
  BY DEF DirNext, AtBytes, AtRows, dirVars
<1> QED BY <1>1, <1>2, PTL DEF DirSpec, Spec, RowsSpec

(* The properties of both levels that the run on ConfigDir checks.         *)
THEOREM DirSafe == DirSpec => /\ []FileInv /\ ImplementsAtomicFile
                              /\ []RowsTypeOK /\ []StatusHonest /\ InPlaceKept
BY DirImplements, FileInvariant, FileRefines, RowsTypes, RowsStatus, RowsInPlace, PTL

=============================================================================
