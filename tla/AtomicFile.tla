----------------------------- MODULE AtomicFile -----------------------------
(***************************************************************************)
(* What "atomically replaces filePath" (configwriter.go) promises the      *)
(* readers and the writers of a config.d file, as long as its writers take *)
(* turns: the file is what the last successful writer wrote, and a reader  *)
(* gets the file of one moment.  Once two writers have been at it at the   *)
(* same time nothing is promised.                                          *)
(***************************************************************************)
CONSTANTS Readers,
          Documents,    \* what a writer may write
          Bytes         \* all that a file may hold

VARIABLES file,         \* what the file holds
          last,         \* the document of the last write that was answered nil
          got,          \* what each reader read last
          alone         \* no two writers have overlapped

vars == <<file, last, got, alone>>

Init ==
    /\ file \in Documents
    /\ last = file
    /\ got = [r \in Readers |-> file]
    /\ alone = TRUE

Replace == alone /\ file' \in Documents /\ last' = file' /\ UNCHANGED <<got, alone>>

Read(r) == alone /\ got' = [got EXCEPT ![r] = file] /\ UNCHANGED <<file, last, alone>>

Overlap == alone' = FALSE /\ UNCHANGED <<file, last, got>>

Anything ==
    /\ ~alone
    /\ file' \in Bytes
    /\ last' \in Documents
    /\ got' \in [Readers -> Bytes]
    /\ UNCHANGED alone

Next == Replace \/ (\E r \in Readers : Read(r)) \/ Overlap \/ Anything

Spec == Init /\ [][Next]_vars
=============================================================================
