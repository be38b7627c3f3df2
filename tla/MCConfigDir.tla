---------------------------- MODULE MCConfigDir -----------------------------
(***************************************************************************)
(* Small instance of ConfigDir.                                            *)
(***************************************************************************)
EXTENDS ConfigDir
CONSTANTS p1, p2, r1, t1, x1, x2

(* A file is broken or deleted, its inbound is taken out, or it gets the   *)
(* inbound, whose clients a Sync has to bring back.                        *)
Moves == {Unread, Json({}, {}), Json(Tags, {})}
=============================================================================
