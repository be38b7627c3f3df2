----------------------------- MODULE Emergency ------------------------------
(***************************************************************************)
(* Emergency mode: the profiles of internal/api/emergency.go and the three *)
(* app_settings keys that say which one is in force.                       *)
(*                                                                         *)
(* Each SQL statement is a step; admin requests take no lock.  A malformed *)
(* body, a bad id or a profile name that is taken is answered 4xx and      *)
(* changes nothing, so it is no step; names and descriptions are left out. *)
(***************************************************************************)
EXTENDS Naturals, FiniteSets

CONSTANTS Tags,         \* inbound tags
          TagLists,     \* the lists of inbound tags admins give a profile
          Admins,       \* concurrent admin requests
          Ops,          \* the requests admins send
          Faults,       \* a query of the database may fail
          MaxProfiles,  \* bound on profiles ever created
          MaxCrashes    \* bound on crashes of the server

AllOps == {"activate", "deactivate", "create", "update", "delete"}

ASSUME OpsAssumption == Ops \subseteq AllOps
ASSUME BoundsAssumption == MaxProfiles \in Nat /\ MaxCrashes \in Nat
ASSUME TagListsAssumption == TagLists \subseteq SUBSET Tags
ASSUME FaultsAssumption == Faults \in BOOLEAN

VARIABLES
    profiles,   \* emergency_profiles: the inbound tags of each row id
    lastId,     \* AUTOINCREMENT of emergency_profiles
    active,     \* emergency_active is "true"
    pid,        \* emergency_profile_id (0 = no such key)
    stamped,    \* emergency_activated_at is set
    e,          \* the request each admin sends
    crashes

vars == <<profiles, lastId, active, pid, stamped, e, crashes>>
settings == <<active, pid, stamped>>

IdleAdmin == [pc |-> "idle", id |-> 0]

Init ==
    /\ profiles = [n \in {} |-> {}]
    /\ lastId = 0
    /\ active = FALSE
    /\ pid = 0
    /\ stamped = FALSE
    /\ e = [a \in Admins |-> IdleAdmin]
    /\ crashes = 0

-----------------------------------------------------------------------------
(* The database.                                                           *)

Exists(id) == id \in DOMAIN profiles

CreateEmergencyProfile(tags) ==
    /\ lastId < MaxProfiles
    /\ lastId' = lastId + 1
    /\ profiles' = [n \in DOMAIN profiles \cup {lastId + 1} |->
                      IF n = lastId + 1 THEN tags ELSE profiles[n]]

UpdateEmergencyProfile(id, tags) == profiles' = [profiles EXCEPT ![id] = tags]

DeleteEmergencyProfile(id) == profiles' = [n \in DOMAIN profiles \ {id} |-> profiles[n]]

(* One DELETE takes the three keys out.                                    *)
DeactivateEmergency == active' = FALSE /\ pid' = 0 /\ stamped' = FALSE

-----------------------------------------------------------------------------
(* The admin requests.                                                     *)

Goto(a, pc) == e' = [e EXCEPT ![a].pc = pc]
Finish(a) == e' = [e EXCEPT ![a] = IdleAdmin]
Begin(a, pc, id) == e[a].pc = "idle" /\ e' = [e EXCEPT ![a] = [pc |-> pc, id |-> id]]

(* activateEmergency names any id; deleteEmergencyProfile too.             *)
Activate(a, id) ==
    /\ "activate" \in Ops
    /\ Begin(a, "check", id)
    /\ UNCHANGED <<profiles, lastId, settings, crashes>>

(* GetEmergencyProfile: 404 without a row, 500 on an error.                *)
CheckProfile(a) ==
    /\ e[a].pc = "check"
    /\ \/ Exists(e[a].id) /\ Goto(a, "active")
       \/ (Faults \/ ~Exists(e[a].id)) /\ Finish(a)
    /\ UNCHANGED <<profiles, lastId, settings, crashes>>

(* ActivateEmergency: one upsert after the other.                          *)
SetActive(a) ==
    /\ e[a].pc = "active"
    /\ active' = TRUE
    /\ Goto(a, "pid")
    /\ UNCHANGED <<profiles, lastId, pid, stamped, crashes>>

SetProfileId(a) ==
    /\ e[a].pc = "pid"
    /\ pid' = e[a].id
    /\ Goto(a, "stamp")
    /\ UNCHANGED <<profiles, lastId, active, stamped, crashes>>

SetActivatedAt(a) ==
    /\ e[a].pc = "stamp"
    /\ stamped' = TRUE
    /\ Finish(a)
    /\ UNCHANGED <<profiles, lastId, active, pid, crashes>>

(* An upsert fails: the keys written before it stay.                       *)
UpsertFails(a) ==
    /\ Faults
    /\ e[a].pc \in {"active", "pid", "stamp"}
    /\ Finish(a)
    /\ UNCHANGED <<profiles, lastId, settings, crashes>>

Deactivate(a) ==
    /\ "deactivate" \in Ops
    /\ e[a].pc = "idle"
    /\ DeactivateEmergency
    /\ UNCHANGED <<profiles, lastId, e, crashes>>

Create(a, tags) ==
    /\ "create" \in Ops
    /\ e[a].pc = "idle"
    /\ CreateEmergencyProfile(tags)
    /\ UNCHANGED <<settings, e, crashes>>

(* RowsAffected = 0 is a 404.                                              *)
Update(a, id, tags) ==
    /\ "update" \in Ops
    /\ e[a].pc = "idle"
    /\ Exists(id)
    /\ UpdateEmergencyProfile(id, tags)
    /\ UNCHANGED <<lastId, settings, e, crashes>>

Delete(a, id) ==
    /\ "delete" \in Ops
    /\ Begin(a, "status", id)
    /\ UNCHANGED <<profiles, lastId, settings, crashes>>

(* GetEmergencyStatus, its first query.  An error lets the deletion go on. *)
DeleteReadsActive(a) ==
    /\ e[a].pc = "status"
    /\ \/ active /\ Goto(a, "statusId")
       \/ (Faults \/ ~active) /\ Goto(a, "delete")
    /\ UNCHANGED <<profiles, lastId, settings, crashes>>

(* Its second query; the two after it do not matter to the caller.  The    *)
(* profile in force is refused with 409.                                   *)
DeleteReadsId(a) ==
    /\ e[a].pc = "statusId"
    /\ \/ pid = e[a].id /\ Finish(a)
       \/ (Faults \/ pid # e[a].id) /\ Goto(a, "delete")
    /\ UNCHANGED <<profiles, lastId, settings, crashes>>

DeleteRow(a) ==
    /\ e[a].pc = "delete"
    /\ DeleteEmergencyProfile(e[a].id)
    /\ Finish(a)
    /\ UNCHANGED <<lastId, settings, crashes>>

Admin(a) ==
    \/ \E id \in 1..MaxProfiles : Activate(a, id) \/ Delete(a, id)
    \/ \E id \in 1..MaxProfiles, tags \in TagLists : Update(a, id, tags)
    \/ \E tags \in TagLists : Create(a, tags)
    \/ CheckProfile(a) \/ SetActive(a) \/ SetProfileId(a) \/ SetActivatedAt(a)
    \/ UpsertFails(a) \/ Deactivate(a)
    \/ DeleteReadsActive(a) \/ DeleteReadsId(a) \/ DeleteRow(a)

(* The server dies between any two statements; the tables stay.            *)
Crash ==
    /\ crashes < MaxCrashes
    /\ crashes' = crashes + 1
    /\ e' = [a \in Admins |-> IdleAdmin]
    /\ UNCHANGED <<profiles, lastId, settings>>

Next == Crash \/ \E a \in Admins : Admin(a)

Spec == Init /\ [][Next]_vars

-----------------------------------------------------------------------------
(* Properties.                                                             *)

(* Every variable keeps its type; row ids were given out.                  *)
TypeOK ==
    /\ lastId \in Nat
    /\ DOMAIN profiles \subseteq 1..lastId
    /\ \A n \in DOMAIN profiles : profiles[n] \subseteq Tags
    /\ active \in BOOLEAN
    /\ pid \in Nat
    /\ stamped \in BOOLEAN
    /\ e \in [Admins -> [pc : {"idle", "check", "active", "pid", "stamp", "status",
                               "statusId", "delete"},
                         id : Nat]]
    /\ crashes \in Nat

(* "Refuse to delete the active profile": whatever happened between the    *)
(* three keys, the profile that is in force has its row.  Requests that    *)
(* overlap and a failing status query break it.                            *)
ActiveProfileExists == active /\ pid # 0 => Exists(pid)

(* What carries it while one request is served at a time: no profile id is *)
(* left behind by a crash or a deactivation, the request that is about to  *)
(* name a profile has found it, and the one about to delete a profile has  *)
(* found another one in force.                                             *)
ProfileInv ==
    /\ pid # 0 => active /\ Exists(pid)
    /\ \A a \in Admins :
         /\ e[a].pc \in {"active", "pid"} => Exists(e[a].id)
         /\ e[a].pc = "stamp" => pid = e[a].id
         /\ e[a].pc = "pid" => active
         /\ e[a].pc = "delete" => pid # e[a].id
         /\ e[a].pc # "idle" => e[a].id # 0

EmergencyInv == TypeOK /\ ProfileInv
=============================================================================
