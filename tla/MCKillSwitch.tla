---------------------------- MODULE MCKillSwitch ----------------------------
(***************************************************************************)
(* Small instance of KillSwitch: two killswitch tags, two concurrent       *)
(* toggle requests, the reconcile loop, and a few environment events.      *)
(***************************************************************************)
EXTENDS KillSwitch
CONSTANTS t1, t2, r1, r2

MCTags == {t1, t2}
MCTogglers == {r1, r2}
=============================================================================
