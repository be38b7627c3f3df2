----------------------------- MODULE ConfigDir ------------------------------
(***************************************************************************)
(* config.d at two levels that share no variable: one file with its bytes, *)
(* its inodes and its temporary file (ConfigFile), and the directory whose *)
(* files are replaced as wholes, with the inbound rows that follow it      *)
(* (Inbounds).  A behaviour is about one of them.                          *)
(***************************************************************************)
EXTENDS ConfigFile, Inbounds

VARIABLE level      \* "bytes" or "rows"

dirVars == <<vars, rowVars, level>>

DirInit ==
    /\ Init /\ RowsInit
    /\ level \in {"bytes", "rows"}
    /\ level = "rows" => \A n \in Lengths : Len(last) <= n

AtBytes == level = "bytes" /\ UNCHANGED <<rowVars, level>>
AtRows == level = "rows" /\ UNCHANGED <<vars, level>>

DirNext == (Next /\ AtBytes) \/ (RowsNext /\ AtRows)

(* The ticker starts a Sync again and again, and a request that needs one  *)
(* runs it; what has begun goes on.                                        *)
DirFairness ==
    /\ WF_dirVars((\E x \in Syncs : SyncStart(x)) /\ AtRows)
    /\ \A x \in Syncs : WF_dirVars(SyncStep(x) /\ AtRows)
    /\ WF_dirVars((Handler \/ \E x \in Syncs : SyncStart(x) /\ h.pc = "sync" /\ h'.pc = "wait") /\ AtRows)

DirSpec == DirInit /\ [][DirNext]_dirVars /\ DirFairness

(* When the files are left alone, the rows end up in step with them,       *)
(* whatever Syncs, moves, failures and crashes came before, and whichever  *)
(* order the files were visited in.                                        *)
RowsFollow == <>[](level = "rows" => RowsInStep)

(* Periodic Syncs persist API-created clients: one that stays enabled in   *)
(* an inbound that stays in a readable file is in the file for good,       *)
(* whatever overlapping writers of whole files have overwritten before.    *)
ClientsPersist ==
    \A t \in Tags :
      <>[](client[t] = "on" /\ Holding(t) # {}) => <>[](\E f \in Holding(t) : t \in file[f].users)
=============================================================================
