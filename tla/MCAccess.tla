------------------------------ MODULE MCAccess ------------------------------
(***************************************************************************)
(* Small instances of Access.  The query's filter selects one tag of the   *)
(* emergency profile and one the profile does not name.                    *)
(***************************************************************************)
EXTENDS Access
CONSTANTS vless, xhttp, reality, cdn, backup, a1, s1

AllTags == {vless, xhttp, reality, cdn, backup}
SomeTagLists == {{vless, xhttp}}
SomeFilters == {{vless, reality, backup}}
=============================================================================
