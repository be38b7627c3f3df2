---------------------------- MODULE AccessProofs ----------------------------
(***************************************************************************)
(* What a subscription request is served, for any number of concurrent     *)
(* requests and admins, any clients, tags and profiles: the isolation of   *)
(* the fallback inbounds, the emergency restriction, and the gate in front *)
(* of both.  The gate only ever delays or drops requests, so what holds of *)
(* Subscription holds behind it.  First the profiles by themselves: while  *)
(* one admin request is served at a time and the database answers, the     *)
(* profile in force has its row, however often the server crashes.         *)
(***************************************************************************)
EXTENDS Access, TLAPS

(***************************************************************************)
(* Emergency profiles.                                                     *)
(***************************************************************************)

EPC == {"idle", "check", "active", "pid", "stamp", "status", "statusId", "delete"}

OneAdmin == \A a, b \in Admins : a = b

(* Emergency mode starts off, without profiles.                            *)
LEMMA InitEmergency == Init => EmergencyInv
<1> SUFFICES ASSUME Init PROVE EmergencyInv
  OBVIOUS
<1>1. DOMAIN profiles = {}
  BY DEF Init
<1>2. \A a \in Admins : e[a].pc = "idle"
  BY DEF Init, IdleAdmin
<1>3. TypeOK
  BY <1>1 DEF Init, TypeOK, IdleAdmin
<1>4. ProfileInv
  <2>1. pid = 0
    BY DEF Init
  <2> QED BY <1>2, <2>1 DEF ProfileInv
<1> QED BY <1>3, <1>4 DEF EmergencyInv

(* The requests that write emergency_profiles and nothing else.            *)
LEMMA RowsStep ==
  ASSUME EmergencyInv, OneAdmin, NEW a \in Admins,
         \/ \E tags \in TagLists : Create(a, tags)
         \/ \E id \in 1..MaxProfiles, tags \in TagLists : Update(a, id, tags)
         \/ DeleteRow(a)
  PROVE  EmergencyInv'
<1> USE DEF EmergencyInv, TypeOK, ProfileInv, Exists
<1>1. ASSUME NEW tags \in TagLists, Create(a, tags) PROVE EmergencyInv'
  <2>1. /\ lastId' = lastId + 1 /\ lastId' \in Nat
        /\ DOMAIN profiles' = DOMAIN profiles \cup {lastId + 1}
        /\ \A n \in DOMAIN profiles' : profiles'[n] = IF n = lastId + 1 THEN tags ELSE profiles[n]
    BY <1>1 DEF Create, CreateEmergencyProfile
  <2>2. UNCHANGED <<active, pid, stamped, e, crashes>>
    BY <1>1 DEF Create, settings
  <2>3. DOMAIN profiles' \subseteq 1..lastId'
    BY <2>1
  <2>4. \A n \in DOMAIN profiles' : profiles'[n] \subseteq Tags
    BY <2>1, TagListsAssumption
  <2> QED BY <2>1, <2>2, <2>3, <2>4
<1>2. ASSUME NEW id \in 1..MaxProfiles, NEW tags \in TagLists, Update(a, id, tags)
      PROVE  EmergencyInv'
  <2>1. /\ DOMAIN profiles' = DOMAIN profiles
        /\ \A n \in DOMAIN profiles' : profiles'[n] = IF n = id THEN tags ELSE profiles[n]
    BY <1>2 DEF Update, UpdateEmergencyProfile
  <2>2. UNCHANGED <<lastId, active, pid, stamped, e, crashes>>
    BY <1>2 DEF Update, settings
  <2> QED BY <2>1, <2>2, TagListsAssumption
<1>3. CASE DeleteRow(a)
  <2>1. /\ DOMAIN profiles' = DOMAIN profiles \ {e[a].id}
        /\ \A n \in DOMAIN profiles' : profiles'[n] = profiles[n]
    BY <1>3 DEF DeleteRow, DeleteEmergencyProfile
  <2>2. UNCHANGED <<lastId, active, pid, stamped, crashes>>
    BY <1>3 DEF DeleteRow, settings
  <2>3. e' = [b \in Admins |-> IdleAdmin]
    BY <1>3 DEF DeleteRow, Finish, OneAdmin
  <2>4. e[a].pc = "delete" /\ pid # e[a].id
    BY <1>3 DEF DeleteRow
  <2> QED BY <2>1, <2>2, <2>3, <2>4 DEF IdleAdmin
<1> QED BY <1>1, <1>2, <1>3

(* The requests that read, and those that write the three keys.            *)
LEMMA SettingsStep ==
  ASSUME EmergencyInv, OneAdmin, Faults = FALSE, NEW a \in Admins,
         \/ \E id \in 1..MaxProfiles : Activate(a, id) \/ Delete(a, id)
         \/ CheckProfile(a) \/ SetActive(a) \/ SetProfileId(a) \/ SetActivatedAt(a)
         \/ UpsertFails(a) \/ Deactivate(a)
         \/ DeleteReadsActive(a) \/ DeleteReadsId(a)
  PROVE  EmergencyInv'
<1> USE DEF EmergencyInv, TypeOK, ProfileInv, Exists, settings
<1>1. \A b \in Admins : e[b] = e[a] /\ e'[b] = e'[a]
  BY DEF OneAdmin
<1>2. e[a] \in [pc : EPC, id : Nat]
  BY DEF EPC
<1>3. ASSUME NEW id \in 1..MaxProfiles, Activate(a, id) \/ Delete(a, id) PROVE EmergencyInv'
  <2>1. id \in Nat /\ id # 0
    BY BoundsAssumption
  <2>2. e' = [e EXCEPT ![a] = [pc |-> "check", id |-> id]]
        \/ e' = [e EXCEPT ![a] = [pc |-> "status", id |-> id]]
    BY <1>3 DEF Activate, Delete, Begin
  <2>3. e'[a].pc \in {"check", "status"} /\ e'[a].id = id
    BY <2>2
  <2>4. UNCHANGED <<profiles, lastId, active, pid, stamped, crashes>>
    BY <1>3 DEF Activate, Delete
  <2>5. e' \in [Admins -> [pc : EPC, id : Nat]]
    BY <2>1, <2>2 DEF EPC
  <2> QED BY <1>1, <2>1, <2>3, <2>4, <2>5 DEF EPC
<1>4. CASE CheckProfile(a)
  BY <1>1, <1>4 DEF CheckProfile, Goto, Finish, IdleAdmin
<1>5. CASE SetActive(a)
  BY <1>1, <1>5 DEF SetActive, Goto
<1>6. CASE SetProfileId(a)
  BY <1>1, <1>6 DEF SetProfileId, Goto
<1>7. CASE SetActivatedAt(a)
  BY <1>1, <1>7 DEF SetActivatedAt, Finish, IdleAdmin
<1>8. CASE UpsertFails(a)
  BY <1>8 DEF UpsertFails
<1>9. CASE Deactivate(a)
  BY <1>1, <1>9 DEF Deactivate, DeactivateEmergency
<1>10. CASE DeleteReadsActive(a)
  BY <1>1, <1>10 DEF DeleteReadsActive, Goto
<1>11. CASE DeleteReadsId(a)
  BY <1>1, <1>11 DEF DeleteReadsId, Goto, Finish, IdleAdmin
<1> QED BY <1>3, <1>4, <1>5, <1>6, <1>7, <1>8, <1>9, <1>10, <1>11

(* A crash forgets the request and keeps the tables.                       *)
LEMMA CrashStep == EmergencyInv /\ Crash => EmergencyInv'
  BY DEF EmergencyInv, TypeOK, ProfileInv, Exists, Crash, IdleAdmin, settings

(* deleteEmergencyProfile's refusal and activateEmergency's lookup are     *)
(* enough as long as requests do not overlap, wherever the server dies     *)
(* between the three upserts.                                              *)
THEOREM EmergencyInvariant ==
  ASSUME OneAdmin, Faults = FALSE PROVE Spec => []EmergencyInv
<1>1. EmergencyInv /\ [Next]_vars => EmergencyInv'
  <2> SUFFICES ASSUME EmergencyInv, [Next]_vars PROVE EmergencyInv'
    OBVIOUS
  <2>1. CASE Crash
    BY <2>1, CrashStep
  <2>2. ASSUME NEW a \in Admins, Admin(a) PROVE EmergencyInv'
    BY <2>2, RowsStep, SettingsStep DEF Admin
  <2>3. CASE UNCHANGED vars
    BY <2>3 DEF vars, EmergencyInv, TypeOK, ProfileInv, Exists
  <2> QED BY <2>1, <2>2, <2>3 DEF Next
<1> QED BY <1>1, InitEmergency, PTL DEF Spec

(***************************************************************************)
(* Types, and row ids of profiles that were given out.                     *)
(***************************************************************************)

RPC == {"idle", "clients", "active", "id", "profile", "served"}
Reading == {"clients", "active", "id", "profile"}
Requests == [pc : RPC, path : {"json", "links"}, fallback : BOOLEAN, filter : SUBSET Tags,
             got : SUBSET Tags, id : Nat, out : SUBSET Tags, blind : BOOLEAN]
Pasts == [calm : BOOLEAN, ids : SUBSET Nat, tags : SUBSET SUBSET Tags, on : SUBSET Tags]

(* The profile ids an activation or a setting holds were given out.        *)
IdsGiven ==
    /\ TypeOK
    /\ pid <= lastId
    /\ \A a \in Admins : e[a].pc \in {"active", "pid", "stamp"} => e[a].id <= lastId

SubTypes ==
    /\ enabled \in BOOLEAN
    /\ clients \subseteq Tags
    /\ r \in [Readers -> Requests]
    /\ past \in [Readers -> Pasts]

(* A set of clients a document of this kind may list.                      *)
Clean(cs, fallback) ==
    /\ cs \cap ExcludeInboundTags = {}
    /\ FallbackInboundTags # {} =>
         IF fallback THEN cs \subseteq FallbackInboundTags ELSE cs \cap FallbackInboundTags = {}

(* What a request has read stays clean and was enabled at some moment: q   *)
(* is the request, w its history and cs the clients now enabled.           *)
IsolationOf(q, w, cs) ==
    /\ q.pc \in Reading => cs \subseteq w.on
    /\ q.pc \in {"active", "id", "profile"} => Clean(q.got, q.fallback) /\ q.got \subseteq w.on
    /\ q.pc = "served" => Clean(q.out, q.fallback) /\ q.out \subseteq w.on

IsolationInv == \A s \in Readers : IsolationOf(r[s], past[s], clients)

(* The history knows the profile in force, and the tags of every profile   *)
(* that was in force; a request that reads the profile has the id of one   *)
(* of them; and a document is restricted unless the request was blind.     *)
HistoryOf(w) ==
    /\ w.calm \/ (InForce /\ pid \in w.ids)
    /\ \A n \in w.ids \cap DOMAIN profiles : profiles[n] \in w.tags

RestrictOf(q, w) ==
    /\ q.pc \in Reading => HistoryOf(w)
    /\ q.pc \in {"clients", "active", "id"} => q.id = 0
    /\ q.pc = "profile" => q.id # 0 /\ (w.calm \/ q.id \in w.ids)
    /\ q.id <= lastId
    /\ q.pc = "served" /\ q.path = "json" /\ ~w.calm /\ ~q.blind =>
         \E tags \in w.tags : q.out = Restrict(q.got, tags) \cap q.filter

RestrictInv == \A s \in Readers : RestrictOf(r[s], past[s])

SubInv == IdsGiven /\ SubTypes /\ IsolationInv

(* Row ids of profiles are given out once.                                 *)
GoneStaysGone ==
    /\ lastId <= lastId'
    /\ \A n \in Nat : n <= lastId /\ n \notin DOMAIN profiles => n \notin DOMAIN profiles'

(* A step of an admin's request keeps IdsGiven, whatever other requests    *)
(* and failed queries did, and no deleted profile comes back.              *)
LEMMA AdminIds ==
    ASSUME IdsGiven, NEW a \in Admins, Admin(a)
    PROVE  IdsGiven' /\ GoneStaysGone
<1>t. /\ lastId \in Nat /\ DOMAIN profiles \subseteq 1..lastId /\ pid \in Nat /\ pid <= lastId
      /\ \A n \in DOMAIN profiles : profiles[n] \subseteq Tags
      /\ active \in BOOLEAN /\ stamped \in BOOLEAN /\ crashes \in Nat
      /\ e \in [Admins -> [pc : EPC, id : Nat]] /\ e[a] \in [pc : EPC, id : Nat]
      /\ \A b \in Admins : e[b].pc \in {"active", "pid", "stamp"} => e[b].id <= lastId
  BY DEF IdsGiven, TypeOK, EPC
<1> DEFINE Goal == IdsGiven' /\ GoneStaysGone
           Kept == UNCHANGED <<profiles, lastId, crashes>>
           Typed == e' \in [Admins -> [pc : EPC, id : Nat]]
           Held == \A b \in Admins : e'[b].pc \in {"active", "pid", "stamp"} => e'[b].id <= lastId'
<1>g. ASSUME Kept, Typed, Held, active' \in BOOLEAN, stamped' \in BOOLEAN, pid' \in Nat, pid' <= lastId
      PROVE  Goal
  BY <1>g, <1>t DEF IdsGiven, TypeOK, EPC, GoneStaysGone
<1>i. IdleAdmin \in [pc : EPC, id : Nat] /\ IdleAdmin.pc = "idle"
  BY DEF IdleAdmin, EPC
<1>f. ASSUME Finish(a), UNCHANGED lastId PROVE Typed /\ Held
  BY <1>f, <1>i, <1>t DEF Finish
<1>o. ASSUME NEW pc \in EPC, Goto(a, pc), UNCHANGED lastId,
             pc \in {"active", "pid", "stamp"} => e[a].id <= lastId
      PROVE  Typed /\ Held
  BY <1>o, <1>t DEF Goto
<1>e. ASSUME UNCHANGED <<e, lastId>> PROVE Typed /\ Held
  BY <1>e, <1>t
<1>p. EPC = {"idle", "check", "active", "pid", "stamp", "status", "statusId", "delete"}
  BY DEF EPC
<1>1. ASSUME NEW id \in 1..MaxProfiles, Activate(a, id) \/ Delete(a, id) PROVE Goal
  <2>1. \E pc \in {"check", "status"} : e' = [e EXCEPT ![a] = [pc |-> pc, id |-> id]]
    BY <1>1 DEF Activate, Delete, Begin
  <2>2. Kept /\ UNCHANGED <<active, pid, stamped>>
    BY <1>1 DEF Activate, Delete, settings
  <2>3. Typed /\ Held
    BY <1>p, <1>t, <2>1, <2>2, BoundsAssumption
  <2> QED BY <1>g, <1>t, <2>2, <2>3
<1>2. ASSUME CheckProfile(a) PROVE Goal
  <2>1. Kept /\ UNCHANGED <<active, pid, stamped>>
    BY <1>2 DEF CheckProfile, settings
  <2>2. Finish(a) \/ (Goto(a, "active") /\ e[a].id <= lastId)
    BY <1>2, <1>t DEF CheckProfile, Exists
  <2> QED BY <1>f, <1>g, <1>o, <1>p, <1>t, <2>1, <2>2
<1>3. ASSUME SetActive(a) PROVE Goal
  <2>1. Kept /\ UNCHANGED <<pid, stamped>> /\ active' \in BOOLEAN /\ Goto(a, "pid")
        /\ e[a].id <= lastId
    BY <1>3, <1>t DEF SetActive
  <2> QED BY <1>g, <1>o, <1>p, <1>t, <2>1
<1>4. ASSUME SetProfileId(a) PROVE Goal
  <2>1. /\ Kept /\ UNCHANGED <<active, stamped>> /\ Goto(a, "stamp") /\ e[a].id <= lastId
        /\ pid' = e[a].id /\ pid' \in Nat
    BY <1>4, <1>t DEF SetProfileId
  <2> QED BY <1>g, <1>o, <1>p, <1>t, <2>1
<1>5. ASSUME SetActivatedAt(a) PROVE Goal
  <2>1. Kept /\ UNCHANGED <<active, pid>> /\ stamped' \in BOOLEAN /\ Finish(a)
    BY <1>5 DEF SetActivatedAt
  <2> QED BY <1>f, <1>g, <1>t, <2>1
<1>6. ASSUME UpsertFails(a) PROVE Goal
  <2>1. Kept /\ UNCHANGED <<active, pid, stamped>> /\ Finish(a)
    BY <1>6 DEF UpsertFails, settings
  <2> QED BY <1>f, <1>g, <1>t, <2>1
<1>7. ASSUME Deactivate(a) PROVE Goal
  <2>1. Kept /\ UNCHANGED e /\ active' = FALSE /\ pid' = 0 /\ stamped' = FALSE
    BY <1>7 DEF Deactivate, DeactivateEmergency
  <2>2. active' \in BOOLEAN /\ stamped' \in BOOLEAN
    BY <2>1, Zenon
  <2>3. pid' \in Nat /\ pid' <= lastId
    BY <1>t, <2>1
  <2>4. Typed /\ Held
    BY <1>e, <2>1
  <2> QED BY <1>g, <2>1, <2>2, <2>3, <2>4
<1>8. ASSUME DeleteReadsActive(a) \/ DeleteReadsId(a) PROVE Goal
  <2>1. Kept /\ UNCHANGED <<active, pid, stamped>>
    BY <1>8 DEF DeleteReadsActive, DeleteReadsId, settings
  <2>2. Finish(a) \/ Goto(a, "statusId") \/ Goto(a, "delete")
    BY <1>8, Zenon DEF DeleteReadsActive, DeleteReadsId
  <2>3. Typed /\ Held
    BY <1>f, <1>o, <1>p, <2>1, <2>2
  <2> QED BY <1>g, <1>t, <2>1, <2>3
<1>9. ASSUME DeleteRow(a) PROVE Goal
  <2>1. /\ DOMAIN profiles' = DOMAIN profiles \ {e[a].id}
        /\ \A n \in DOMAIN profiles' : profiles'[n] = profiles[n]
    BY <1>9 DEF DeleteRow, DeleteEmergencyProfile
  <2>2. UNCHANGED <<lastId, active, pid, stamped, crashes>> /\ Finish(a)
    BY <1>9 DEF DeleteRow, settings
  <2> QED BY <1>f, <1>t, <2>1, <2>2 DEF IdsGiven, TypeOK, EPC, GoneStaysGone
<1>10. ASSUME NEW tags \in TagLists, Create(a, tags) PROVE Goal
  <2>1. /\ lastId' = lastId + 1 /\ DOMAIN profiles' = DOMAIN profiles \cup {lastId + 1}
        /\ \A n \in DOMAIN profiles' : profiles'[n] = IF n = lastId + 1 THEN tags ELSE profiles[n]
    BY <1>10 DEF Create, CreateEmergencyProfile
  <2>2. UNCHANGED <<active, pid, stamped, e, crashes>>
    BY <1>10 DEF Create, settings
  <2>3. tags \subseteq Tags
    BY TagListsAssumption
  <2>4. Typed /\ Held
    BY <1>t, <2>1, <2>2
  <2>5. TypeOK'
    BY <1>t, <2>1, <2>2, <2>3, <2>4 DEF TypeOK, EPC
  <2> QED BY <1>t, <2>1, <2>2, <2>4, <2>5 DEF IdsGiven, GoneStaysGone
<1>11. ASSUME NEW id \in 1..MaxProfiles, NEW tags \in TagLists, Update(a, id, tags) PROVE Goal
  <2>1. /\ DOMAIN profiles' = DOMAIN profiles
        /\ \A n \in DOMAIN profiles' : profiles'[n] = IF n = id THEN tags ELSE profiles[n]
    BY <1>11 DEF Update, UpdateEmergencyProfile
  <2>2. UNCHANGED <<lastId, active, pid, stamped, e, crashes>>
    BY <1>11 DEF Update, settings
  <2>3. tags \subseteq Tags
    BY TagListsAssumption
  <2> QED BY <1>e, <1>t, <2>1, <2>2, <2>3 DEF IdsGiven, TypeOK, EPC, GoneStaysGone
<1> HIDE DEF Goal
<1>12. Goal
  BY <1>1, <1>2, <1>3, <1>4, <1>5, <1>6, <1>7, <1>8, <1>9, <1>10, <1>11, Zenon DEF Admin
<1> QED BY <1>12 DEF Goal

(* So does a crash.                                                        *)
LEMMA CrashIds ==
    ASSUME IdsGiven, Crash
    PROVE  IdsGiven' /\ UNCHANGED <<profiles, lastId, active, pid>>
<1>1. IdleAdmin.pc = "idle" /\ IdleAdmin \in [pc : EPC, id : Nat]
  BY DEF IdleAdmin, EPC
<1>2. /\ UNCHANGED <<profiles, lastId, active, pid, stamped>> /\ crashes' = crashes + 1
      /\ e' = [a \in Admins |-> IdleAdmin]
  BY DEF Crash, settings
<1>3. /\ e' \in [Admins -> [pc : EPC, id : Nat]]
      /\ \A a \in Admins : e'[a].pc = "idle"
  BY <1>1, <1>2
<1>4. TypeOK'
  BY <1>2, <1>3 DEF IdsGiven, TypeOK, EPC
<1> QED BY <1>2, <1>3, <1>4 DEF IdsGiven

(***************************************************************************)
(* The operators of a request.                                             *)
(***************************************************************************)

(* The split of the clients leaves clean ones of those enabled, in both of *)
(* its copies.                                                             *)
LEMMA VisibleClean ==
    ASSUME NEW cs, NEW fallback \in BOOLEAN
    PROVE  /\ Clean(VisibleDocument(cs, fallback), fallback)
           /\ VisibleDocument(cs, fallback) \subseteq cs
           /\ Clean(VisibleLinks(cs, fallback), fallback)
           /\ VisibleLinks(cs, fallback) \subseteq cs
<1>1. Clean(VisibleDocument(cs, fallback), fallback) /\ VisibleDocument(cs, fallback) \subseteq cs
  BY DEF Clean, VisibleDocument
<1>2. Clean(VisibleLinks(cs, fallback), fallback) /\ VisibleLinks(cs, fallback) \subseteq cs
  BY DEF Clean, VisibleLinks
<1> QED BY <1>1, <1>2

(* The emergency profile and the query's filter only take clients away.    *)
LEMMA LessIsClean ==
    ASSUME NEW cs, NEW fallback \in BOOLEAN, Clean(cs, fallback), NEW less, less \subseteq cs
    PROVE  Clean(less, fallback)
BY DEF Clean

(* Restrict never adds a client.                                           *)
LEMMA RestrictLess ==
    ASSUME NEW cs, NEW tags
    PROVE  Restrict(cs, tags) \subseteq cs
BY DEF Restrict

(***************************************************************************)
(* The steps of a request.                                                 *)
(***************************************************************************)

(* What a step does to the request: it ends, it begins, or it moves on.    *)
Ends(s) == r'[s] = NoRequest /\ past'[s] = NoPast

Begins(s) ==
    r'[s].pc = "clients" /\ r'[s].id = 0 /\ past'[s] = Now

SameAsk(s) ==
    /\ past'[s] = past[s]
    /\ r'[s].path = r[s].path /\ r'[s].fallback = r[s].fallback /\ r'[s].filter = r[s].filter

GetsClients(s) ==
    /\ SameAsk(s) /\ r[s].pc = "clients" /\ r'[s].id = r[s].id
    /\ \/ r'[s].pc = "active" /\ r'[s].got = VisibleDocument(clients, r[s].fallback)
       \/ /\ r'[s].pc = "served" /\ r[s].path = "links"
          /\ r'[s].out = VisibleLinks(clients, r[s].fallback) \cap r[s].filter

LooksOn(s) ==
    /\ SameAsk(s) /\ r'[s].got = r[s].got
    /\ \/ r[s].pc = "active" /\ r'[s].pc = "id" /\ r'[s].id = r[s].id
       \/ r[s].pc = "id" /\ r'[s].pc = "profile" /\ pid # 0 /\ r'[s].id = pid

ServesAll(s) ==
    /\ SameAsk(s) /\ r'[s].got = r[s].got /\ r'[s].id = r[s].id
    /\ r'[s].pc = "served" /\ r'[s].out = r[s].got \cap r[s].filter
    /\ \/ r[s].pc = "active" /\ ~active
       \/ r[s].pc = "id" /\ pid = 0
       \/ r[s].pc \in {"active", "id", "profile"} /\ r'[s].blind

ServesProfile(s) ==
    /\ SameAsk(s) /\ r'[s].got = r[s].got /\ r'[s].id = r[s].id
    /\ r[s].pc = "profile" /\ Exists(r[s].id)
    /\ r'[s].pc = "served"
    /\ r'[s].out = Restrict(r[s].got, profiles[r[s].id]) \cap r[s].filter

Moves(s) ==
    \/ Ends(s) \/ Begins(s) \/ GetsClients(s) \/ LooksOn(s) \/ ServesAll(s) \/ ServesProfile(s)

(* The records of no request and of its history are well typed, and so is  *)
(* the history of a request that begins.                                   *)
LEMMA RequestTypes ==
    ASSUME IdsGiven, SubTypes
    PROVE  NoRequest \in Requests /\ NoPast \in Pasts /\ Now \in Pasts
<1>1. NoRequest \in Requests
  BY DEF NoRequest, Requests, RPC
<1>2. NoPast \in Pasts
  BY DEF NoPast, Pasts
<1>3. Now \in Pasts
  <2> DEFINE ids == IF InForce THEN {pid} ELSE {}
             calm == ~InForce
  <2>1. calm \in BOOLEAN
    BY Zenon
  <2>2. ids \subseteq Nat /\ \A n \in ids : profiles[n] \subseteq Tags
    BY DEF IdsGiven, TypeOK, InForce, Exists
  <2>3. Now = [calm |-> calm, ids |-> ids, tags |-> {profiles[n] : n \in ids}, on |-> clients]
    BY Zenon DEF Now
  <2> HIDE DEF ids, calm
  <2>4. {profiles[n] : n \in ids} \subseteq SUBSET Tags
    BY <2>2
  <2> QED BY <2>1, <2>2, <2>3, <2>4 DEF SubTypes, Pasts
<1> QED BY <1>1, <1>2, <1>3

(* Every statement of a request moves it on and touches no other request.  *)
LEMMA ReaderMoves ==
    ASSUME IdsGiven, SubTypes, NEW s \in Readers, Reader(s)
    PROVE  /\ Moves(s) /\ r'[s] \in Requests /\ past'[s] \in Pasts
           /\ r' \in [Readers -> Requests] /\ past' \in [Readers -> Pasts]
           /\ \A t \in Readers \ {s} : r'[t] = r[t] /\ past'[t] = past[t]
           /\ UNCHANGED <<vars, enabled, clients>>
<1>t. /\ r \in [Readers -> Requests] /\ past \in [Readers -> Pasts]
      /\ r[s] \in Requests /\ clients \subseteq Tags
  BY DEF SubTypes
<1>f. /\ r[s].pc \in RPC /\ r[s].path \in {"json", "links"} /\ r[s].fallback \in BOOLEAN
      /\ r[s].filter \subseteq Tags /\ r[s].got \subseteq Tags /\ r[s].id \in Nat
  BY <1>t DEF Requests
<1> DEFINE Typed == /\ r' \in [Readers -> Requests] /\ past' \in [Readers -> Pasts]
                    /\ \A t \in Readers \ {s} : r'[t] = r[t] /\ past'[t] = past[t]
           Goal == Moves(s) /\ Typed
<1>r. ASSUME Rejected(s) PROVE Goal
  <2>1. r'[s] = NoRequest /\ past'[s] = NoPast /\ Typed
    BY <1>r, <1>t, RequestTypes DEF Rejected
  <2> QED BY <2>1 DEF Moves, Ends
<1>q. ASSUME NEW q \in Requests, Step(s, q)
      PROVE  r'[s] = q /\ past'[s] = past[s] /\ Typed
  BY <1>q, <1>t DEF Step
<1>s. ASSUME NEW cs, cs \subseteq Tags, NEW b \in BOOLEAN, Serve(s, cs, b)
      PROVE  \/ Goal
             \/ /\ Typed /\ SameAsk(s) /\ r'[s].got = r[s].got /\ r'[s].id = r[s].id
                /\ r'[s].pc = "served" /\ r'[s].out = cs \cap r[s].filter /\ r'[s].blind = b
  <2> DEFINE q == [r[s] EXCEPT !.pc = "served", !.out = cs \cap r[s].filter, !.blind = b]
  <2>1. /\ q \in Requests /\ q.path = r[s].path /\ q.fallback = r[s].fallback
        /\ q.filter = r[s].filter /\ q.got = r[s].got /\ q.id = r[s].id
        /\ q.pc = "served" /\ q.out = cs \cap r[s].filter /\ q.blind = b
    BY <1>t, <1>f, <1>s DEF Requests, RPC
  <2>2. Rejected(s) \/ Step(s, q)
    BY <1>s, Zenon DEF Serve
  <2> HIDE DEF q, Goal
  <2>3. ASSUME Step(s, q)
        PROVE  /\ Typed /\ SameAsk(s) /\ r'[s].got = r[s].got /\ r'[s].id = r[s].id
               /\ r'[s].pc = "served" /\ r'[s].out = cs \cap r[s].filter /\ r'[s].blind = b
    BY <1>q, <2>1, <2>3 DEF SameAsk
  <2> QED BY <1>r, <2>2, <2>3
<1>1. ASSUME NEW path \in Paths, NEW fallback \in BOOLEAN, NEW filter \in Filters,
             Ask(s, path, fallback, filter)
      PROVE  Goal
  <2> DEFINE q == [NoRequest EXCEPT !.pc = "clients", !.path = path,
                                    !.fallback = fallback, !.filter = filter]
  <2>1. q \in Requests /\ q.pc = "clients" /\ q.id = 0
    BY PathsAssumption, TagsAssumption DEF NoRequest, Requests, RPC
  <2>2. r' = [r EXCEPT ![s] = q] /\ past' = [past EXCEPT ![s] = Now]
    BY <1>1 DEF Ask
  <2> HIDE DEF q
  <2>3. r'[s] = q /\ past'[s] = Now /\ Typed
    BY <1>t, <2>1, <2>2, RequestTypes
  <2> QED BY <2>1, <2>3 DEF Moves, Begins
<1>2. ASSUME ReadClients(s) PROVE Goal
  <2> DEFINE links == VisibleLinks(clients, r[s].fallback)
             got == VisibleDocument(clients, r[s].fallback)
             q == [r[s] EXCEPT !.pc = "active", !.got = got]
  <2>0. got \subseteq Tags /\ links \subseteq Tags
    BY <1>f, <1>t, VisibleClean
  <2>1. /\ r[s].pc = "clients"
        /\ (r[s].path = "links" /\ Serve(s, links, FALSE)) \/ Step(s, q) \/ Rejected(s)
    BY <1>2, Zenon DEF ReadClients
  <2> HIDE DEF got, links
  <2>2. /\ q \in Requests /\ q.path = r[s].path /\ q.fallback = r[s].fallback
        /\ q.filter = r[s].filter /\ q.got = got /\ q.id = r[s].id /\ q.pc = "active"
    BY <1>t, <2>0 DEF Requests, RPC
  <2> HIDE DEF q
  <2>3. ASSUME Step(s, q) PROVE GetsClients(s) /\ Typed
    BY <1>q, <2>1, <2>2, <2>3 DEF GetsClients, SameAsk, got
  <2>4. ASSUME r[s].path = "links", Serve(s, links, FALSE) PROVE Goal \/ (GetsClients(s) /\ Typed)
    <3> HIDE DEF Goal
    <3> QED BY <1>s, <2>0, <2>1, <2>4 DEF GetsClients, links
  <2> QED BY <1>r, <2>1, <2>3, <2>4 DEF Moves
<1>3. ASSUME ReadActive(s) PROVE Goal
  <2> DEFINE q == [r[s] EXCEPT !.pc = "id"]
  <2>1. /\ r[s].pc = "active"
        /\ Step(s, q) \/ (~active /\ Serve(s, r[s].got, FALSE)) \/ Serve(s, r[s].got, TRUE)
    BY <1>3, Zenon DEF ReadActive
  <2>2. /\ q \in Requests /\ q.path = r[s].path /\ q.fallback = r[s].fallback
        /\ q.filter = r[s].filter /\ q.got = r[s].got /\ q.id = r[s].id /\ q.pc = "id"
    BY <1>t DEF Requests, RPC
  <2> HIDE DEF q
  <2>3. ASSUME Step(s, q) PROVE LooksOn(s) /\ Typed
    BY <1>q, <2>1, <2>2, <2>3 DEF LooksOn, SameAsk
  <2>4. ASSUME NEW b \in BOOLEAN, b \/ ~active, Serve(s, r[s].got, b)
        PROVE  Goal \/ (ServesAll(s) /\ Typed)
    <3> HIDE DEF Goal
    <3> QED BY <1>f, <1>s, <2>1, <2>4 DEF ServesAll
  <2> QED BY <2>1, <2>3, <2>4 DEF Moves
<1>4. ASSUME ReadProfileId(s) PROVE Goal
  <2> DEFINE q == [r[s] EXCEPT !.pc = "profile", !.id = pid]
  <2>1. /\ r[s].pc = "id"
        /\ \/ pid # 0 /\ Step(s, q)
           \/ pid = 0 /\ Serve(s, r[s].got, FALSE)
           \/ Serve(s, r[s].got, TRUE)
    BY <1>4, Zenon DEF ReadProfileId
  <2>2. /\ q \in Requests /\ q.path = r[s].path /\ q.fallback = r[s].fallback
        /\ q.filter = r[s].filter /\ q.got = r[s].got /\ q.id = pid /\ q.pc = "profile"
    BY <1>t DEF Requests, RPC, IdsGiven, TypeOK
  <2> HIDE DEF q
  <2>3. ASSUME pid # 0, Step(s, q) PROVE LooksOn(s) /\ Typed
    BY <1>q, <2>1, <2>2, <2>3 DEF LooksOn, SameAsk
  <2>4. ASSUME NEW b \in BOOLEAN, b \/ pid = 0, Serve(s, r[s].got, b)
        PROVE  Goal \/ (ServesAll(s) /\ Typed)
    <3> HIDE DEF Goal
    <3> QED BY <1>f, <1>s, <2>1, <2>4 DEF ServesAll
  <2> QED BY <2>1, <2>3, <2>4 DEF Moves
<1>5. ASSUME ReadProfile(s) PROVE Goal
  <2> DEFINE cs == Restrict(r[s].got, profiles[r[s].id])
  <2>0. cs \subseteq Tags
    BY <1>f, RestrictLess
  <2>1. /\ r[s].pc = "profile"
        /\ (Exists(r[s].id) /\ Serve(s, cs, FALSE)) \/ Serve(s, r[s].got, TRUE)
    BY <1>5, Zenon DEF ReadProfile
  <2> HIDE DEF cs
  <2>2. ASSUME Exists(r[s].id), Serve(s, cs, FALSE) PROVE Goal \/ (ServesProfile(s) /\ Typed)
    <3> HIDE DEF Goal
    <3> QED BY <1>s, <2>0, <2>1, <2>2 DEF ServesProfile, cs
  <2>3. ASSUME Serve(s, r[s].got, TRUE) PROVE Goal \/ (ServesAll(s) /\ Typed)
    <3> HIDE DEF Goal
    <3> QED BY <1>f, <1>s, <2>1, <2>3 DEF ServesAll
  <2> QED BY <2>1, <2>2, <2>3 DEF Moves
<1>6. ASSUME Close(s) PROVE Goal
  BY <1>6, <1>r, Zenon DEF Close
<1>7. UNCHANGED <<vars, enabled, clients>>
  BY Zenon DEF Reader, Ask, ReadClients, ReadActive, ReadProfileId, ReadProfile, Close
<1> HIDE DEF Goal
<1>8. Goal
  BY <1>1, <1>2, <1>3, <1>4, <1>5, <1>6, Zenon DEF Reader
<1>9. Goal => r'[s] \in Requests /\ past'[s] \in Pasts
  BY DEF Goal
<1> QED BY <1>7, <1>8, <1>9 DEF Goal

(* A request's step keeps it isolated, ...                                 *)
LEMMA ReaderIsolation ==
    ASSUME IdsGiven, SubTypes, IsolationInv, NEW s \in Readers, Reader(s)
    PROVE  IsolationInv'
<1>m. /\ Moves(s) /\ r'[s] \in Requests /\ UNCHANGED clients
      /\ \A t \in Readers \ {s} : r'[t] = r[t] /\ past'[t] = past[t]
  BY ReaderMoves
<1>f. r[s].fallback \in BOOLEAN /\ r[s] \in Requests
  BY DEF SubTypes, Requests
<1>i. IsolationOf(r[s], past[s], clients)
  BY DEF IsolationInv
<1>1. ASSUME Ends(s) PROVE IsolationOf(r'[s], past'[s], clients)
  <2>1. r'[s].pc = "idle"
    BY <1>1 DEF Ends, NoRequest
  <2> QED BY <2>1 DEF IsolationOf, Reading
<1>2. ASSUME Begins(s) PROVE IsolationOf(r'[s], past'[s], clients)
  <2>1. past'[s].on = clients /\ r'[s].pc = "clients"
    BY <1>2 DEF Begins, Now
  <2> QED BY <2>1 DEF IsolationOf
<1>3. ASSUME GetsClients(s) PROVE IsolationOf(r'[s], past'[s], clients)
  <2> DEFINE got == VisibleDocument(clients, r[s].fallback)
             links == VisibleLinks(clients, r[s].fallback)
  <2>1. /\ Clean(got, r[s].fallback) /\ got \subseteq clients
        /\ Clean(links, r[s].fallback) /\ links \subseteq clients
    BY <1>f, VisibleClean
  <2>2. Clean(links \cap r[s].filter, r[s].fallback)
    BY <1>f, <2>1, LessIsClean
  <2>3. /\ past'[s] = past[s] /\ r'[s].fallback = r[s].fallback /\ clients \subseteq past[s].on
        /\ \/ r'[s].pc = "active" /\ r'[s].got = got
           \/ r'[s].pc = "served" /\ r'[s].out = links \cap r[s].filter
    BY <1>3, <1>i DEF GetsClients, SameAsk, IsolationOf, Reading
  <2> HIDE DEF got, links
  <2> QED BY <2>1, <2>2, <2>3 DEF IsolationOf
<1>4. ASSUME LooksOn(s) PROVE IsolationOf(r'[s], past'[s], clients)
  <2>1. /\ past'[s] = past[s] /\ r'[s].fallback = r[s].fallback /\ r'[s].got = r[s].got
        /\ r'[s].pc \in {"id", "profile"} /\ r[s].pc \in {"active", "id"}
    BY <1>4 DEF LooksOn, SameAsk
  <2> QED BY <1>i, <2>1 DEF IsolationOf, Reading
<1>5. ASSUME ServesAll(s) \/ ServesProfile(s) PROVE IsolationOf(r'[s], past'[s], clients)
  <2>1. /\ past'[s] = past[s] /\ r'[s].fallback = r[s].fallback
        /\ r'[s].pc = "served" /\ r[s].pc \in {"active", "id", "profile"}
        /\ r'[s].out \subseteq r[s].got
    BY <1>5, RestrictLess DEF ServesAll, ServesProfile, SameAsk
  <2>2. Clean(r[s].got, r[s].fallback) /\ r[s].got \subseteq past[s].on
    BY <1>i, <2>1 DEF IsolationOf
  <2>3. Clean(r'[s].out, r[s].fallback)
    BY <1>f, <2>1, <2>2, LessIsClean
  <2> QED BY <2>1, <2>2, <2>3 DEF IsolationOf, Reading
<1>6. IsolationOf(r'[s], past'[s], clients)
  BY <1>m, <1>1, <1>2, <1>3, <1>4, <1>5 DEF Moves
<1>7. \A t \in Readers : IsolationOf(r'[t], past'[t], clients)
  BY <1>m, <1>6 DEF IsolationInv
<1> QED BY <1>m, <1>7 DEF IsolationInv, IsolationOf, Clean

(* ... and knows which profile restricts it.                               *)
LEMMA ReaderRestricts ==
    ASSUME IdsGiven, SubTypes, RestrictInv, NEW s \in Readers, Reader(s)
    PROVE  RestrictInv'
<1>m. /\ Moves(s) /\ UNCHANGED <<profiles, lastId, active, pid>>
      /\ \A t \in Readers \ {s} : r'[t] = r[t] /\ past'[t] = past[t]
  BY ReaderMoves DEF vars
<1>t. lastId \in Nat /\ pid \in Nat /\ pid <= lastId
  BY DEF IdsGiven, TypeOK
<1>i. RestrictOf(r[s], past[s])
  BY DEF RestrictInv
<1>1. ASSUME Ends(s) PROVE RestrictOf(r'[s], past'[s])
  <2>1. r'[s].pc = "idle" /\ r'[s].id = 0
    BY <1>1 DEF Ends, NoRequest
  <2> QED BY <1>t, <2>1 DEF RestrictOf, Reading
<1>2. ASSUME Begins(s) PROVE RestrictOf(r'[s], past'[s])
  <2> DEFINE w == past'[s]
  <2>1. /\ r'[s].pc = "clients" /\ r'[s].id = 0
        /\ w.calm = ~InForce /\ w.ids = (IF InForce THEN {pid} ELSE {})
        /\ w.tags = {profiles[n] : n \in w.ids}
    BY <1>2 DEF Begins, Now
  <2> HIDE DEF w
  <2>2. HistoryOf(w)
    BY <2>1 DEF HistoryOf
  <2> QED BY <1>t, <2>1, <2>2 DEF RestrictOf, w
<1>3. ASSUME GetsClients(s) PROVE RestrictOf(r'[s], past'[s])
  <2>1. /\ past'[s] = past[s] /\ r'[s].path = r[s].path /\ r'[s].id = r[s].id
        /\ r[s].pc = "clients"
        /\ r'[s].pc = "active" \/ (r'[s].pc = "served" /\ r[s].path # "json")
    BY <1>3 DEF GetsClients, SameAsk
  <2> QED BY <1>i, <2>1 DEF RestrictOf, Reading
<1>4. ASSUME LooksOn(s) PROVE RestrictOf(r'[s], past'[s])
  <2>1. /\ past'[s] = past[s]
        /\ \/ r[s].pc = "active" /\ r'[s].pc = "id" /\ r'[s].id = r[s].id
           \/ r[s].pc = "id" /\ r'[s].pc = "profile" /\ pid # 0 /\ r'[s].id = pid
    BY <1>4 DEF LooksOn, SameAsk
  <2>2. HistoryOf(past[s]) /\ r[s].id = 0
    BY <1>i, <2>1 DEF RestrictOf, Reading
  <2>3. r[s].pc = "active" => RestrictOf(r'[s], past'[s])
    BY <1>t, <2>1, <2>2 DEF RestrictOf
  <2>4. r[s].pc = "id" => RestrictOf(r'[s], past'[s])
    BY <1>t, <2>1, <2>2 DEF RestrictOf, HistoryOf
  <2> QED BY <2>1, <2>3, <2>4
<1>5. ASSUME ServesAll(s) PROVE RestrictOf(r'[s], past'[s])
  <2>1. /\ past'[s] = past[s] /\ r'[s].id = r[s].id /\ r'[s].pc = "served"
        /\ r[s].pc \in Reading
        /\ \/ r[s].pc = "active" /\ ~active
           \/ r[s].pc = "id" /\ pid = 0
           \/ r'[s].blind
    BY <1>5 DEF ServesAll, SameAsk, Reading
  <2>2. HistoryOf(past[s]) /\ r[s].id <= lastId
    BY <1>i, <2>1 DEF RestrictOf
  <2>3. past[s].calm \/ r'[s].blind
    BY <1>i, <2>1, <2>2 DEF HistoryOf, InForce, RestrictOf
  <2> QED BY <2>1, <2>2, <2>3 DEF RestrictOf, Reading
<1>6. ASSUME ServesProfile(s) PROVE RestrictOf(r'[s], past'[s])
  <2>1. /\ past'[s] = past[s] /\ r'[s].id = r[s].id /\ r'[s].pc = "served"
        /\ r'[s].got = r[s].got /\ r'[s].filter = r[s].filter
        /\ r[s].pc = "profile" /\ r[s].id \in DOMAIN profiles
        /\ r'[s].out = Restrict(r[s].got, profiles[r[s].id]) \cap r[s].filter
    BY <1>6 DEF ServesProfile, SameAsk, Exists
  <2>2. HistoryOf(past[s]) /\ r[s].id <= lastId /\ (past[s].calm \/ r[s].id \in past[s].ids)
    BY <1>i, <2>1 DEF RestrictOf, Reading
  <2>3. past[s].calm \/ profiles[r[s].id] \in past[s].tags
    BY <2>1, <2>2 DEF HistoryOf
  <2> QED BY <2>1, <2>2, <2>3 DEF RestrictOf, Reading
<1>7. RestrictOf(r'[s], past'[s])
  BY <1>m, <1>1, <1>2, <1>3, <1>4, <1>5, <1>6 DEF Moves
<1>8. \A t \in Readers : RestrictOf(r'[t], past'[t])
  BY <1>m, <1>7 DEF RestrictInv
<1> QED BY <1>m, <1>8 DEF RestrictInv, RestrictOf, HistoryOf, InForce, Exists

(* While others work, the history of a request that still reads takes in   *)
(* the new state; that of one that is served stays.                        *)
LEMMA TrackStep ==
    ASSUME IdsGiven, IdsGiven', SubTypes, GoneStaysGone, clients' \subseteq Tags, UNCHANGED r, Track
    PROVE  /\ past' \in [Readers -> Pasts]
           /\ IsolationInv => IsolationInv'
           /\ RestrictInv => RestrictInv'
<1>t. /\ r \in [Readers -> Requests] /\ past \in [Readers -> Pasts]
      /\ lastId \in Nat /\ lastId' \in Nat /\ lastId <= lastId' /\ pid' \in Nat
      /\ DOMAIN profiles' \subseteq 1..lastId'
      /\ \A n \in DOMAIN profiles' : profiles'[n] \subseteq Tags
  BY DEF SubTypes, IdsGiven, TypeOK, GoneStaysGone
<1>f. ASSUME NEW s \in Readers
      PROVE  /\ r[s].pc \in RPC /\ r[s].id \in Nat
             /\ past[s].calm \in BOOLEAN /\ past[s].ids \subseteq Nat
             /\ past[s].tags \subseteq SUBSET Tags /\ past[s].on \subseteq Tags
  BY <1>t DEF Requests, Pasts
<1> DEFINE inForce == active' /\ pid' # 0 /\ pid' \in DOMAIN profiles'
           ids == IF inForce THEN {pid'} ELSE {}
           calm == ~inForce
<1>n. Now' = [calm |-> calm, ids |-> ids, tags |-> {profiles'[n] : n \in ids}, on |-> clients']
  BY Zenon DEF Now, InForce, Exists
<1>i. InForce' <=> inForce
  BY Zenon DEF InForce, Exists
<1>d. ids \subseteq Nat /\ ids \subseteq DOMAIN profiles' /\ calm \in BOOLEAN
  BY <1>t
<1>c. calm \/ pid' \in ids
  OBVIOUS
<1>e. calm \/ inForce
  OBVIOUS
<1> HIDE DEF inForce, ids, calm
<1>p. /\ Now'.calm = calm /\ Now'.ids = ids /\ Now'.on = clients'
      /\ Now'.tags = {profiles'[n] : n \in ids}
  BY <1>n
<1>w. ASSUME NEW s \in Readers, r[s].pc \in Reading
      PROVE  /\ past'[s] \in Pasts
             /\ past'[s].calm = (past[s].calm \/ calm)
             /\ past'[s].ids = past[s].ids \cup ids
             /\ past'[s].tags = past[s].tags \cup {profiles'[n] : n \in ids}
                                  \cup {profiles'[n] : n \in past[s].ids \cap DOMAIN profiles'}
             /\ past'[s].on = past[s].on \cup clients'
  <2> DEFINE b == past[s].calm \/ calm
             m == past[s].ids \cup ids
             ts == past[s].tags \cup {profiles'[n] : n \in ids}
                     \cup {profiles'[n] : n \in past[s].ids \cap DOMAIN profiles'}
             on == past[s].on \cup clients'
  <2>1. past'[s] = [calm |-> b, ids |-> m, tags |-> ts, on |-> on]
    <3>1. r[s].pc \notin {"idle", "served"}
      BY <1>w DEF Reading
    <3>2. past'[s] = [calm |-> past[s].calm \/ Now'.calm,
                      ids |-> past[s].ids \cup Now'.ids,
                      tags |-> past[s].tags \cup Now'.tags
                           \cup {profiles'[n] : n \in past[s].ids \cap DOMAIN profiles'},
                      on |-> past[s].on \cup Now'.on]
      BY <3>1, Zenon DEF Track
    <3> QED BY <1>p, <3>2, Zenon
  <2>2. b \in BOOLEAN
    BY Zenon
  <2>3. m \subseteq Nat
    BY <1>d, <1>f
  <2>4. on \subseteq Tags
    BY <1>f
  <2>5. ts \subseteq SUBSET Tags
    BY <1>d, <1>f, <1>t
  <2> HIDE DEF b, m, ts, on
  <2>6. past'[s] \in Pasts
    BY <2>1, <2>2, <2>3, <2>4, <2>5 DEF Pasts
  <2>7. past'[s].calm = b /\ past'[s].ids = m /\ past'[s].tags = ts /\ past'[s].on = on
    BY <2>1
  <2> QED BY <2>6, <2>7 DEF b, m, ts, on
<1>o. ASSUME NEW s \in Readers, r[s].pc \notin Reading PROVE past'[s] = past[s]
  BY <1>o, <1>f DEF Track, RPC, Reading
<1>1. past' \in [Readers -> Pasts]
  <2>1. \A s \in Readers : past'[s] \in Pasts
    BY <1>w, <1>o, <1>t
  <2>2. past' = [s \in Readers |-> past'[s]]
    BY DEF Track
  <2> QED BY <2>1, <2>2
<1>2. ASSUME IsolationInv PROVE IsolationInv'
  <2>1. ASSUME NEW s \in Readers PROVE IsolationOf(r[s], past'[s], clients')
    <3>1. IsolationOf(r[s], past[s], clients)
      BY <1>2 DEF IsolationInv
    <3>2. CASE r[s].pc \in Reading
      <4>1. past[s].on \subseteq past'[s].on /\ clients' \subseteq past'[s].on
        BY <1>w, <3>2
      <4> QED BY <3>1, <3>2, <4>1 DEF IsolationOf, Reading
    <3>3. CASE r[s].pc \notin Reading
      BY <1>o, <3>1, <3>3 DEF IsolationOf, Reading
    <3> QED BY <3>2, <3>3
  <2> QED BY <2>1 DEF IsolationInv, IsolationOf, Clean
<1>3. ASSUME RestrictInv PROVE RestrictInv'
  <2>1. ASSUME NEW s \in Readers PROVE RestrictOf(r[s], past[s])'
    <3>1. RestrictOf(r[s], past[s])
      BY <1>3 DEF RestrictInv
    <3>2. r[s].id <= lastId' /\ (~Exists(r[s].id) => ~Exists(r[s].id)')
      BY <1>f, <1>t, <3>1 DEF RestrictOf, GoneStaysGone, Exists
    <3>3. CASE r[s].pc \in Reading
      <4> DEFINE w == past'[s]
      <4>1. /\ w.calm \/ (inForce /\ pid' \in w.ids)
            /\ past[s].calm => w.calm
            /\ past[s].ids \subseteq w.ids
        BY <1>c, <1>e, <1>w, <3>3
      <4>2. \A n \in w.ids \cap DOMAIN profiles' : profiles'[n] \in w.tags
        <5> SUFFICES ASSUME NEW n \in w.ids, n \in DOMAIN profiles' PROVE profiles'[n] \in w.tags
          OBVIOUS
        <5>1. n \in ids \/ n \in past[s].ids \cap DOMAIN profiles'
          BY <1>w, <3>3
        <5>2. w.tags = past[s].tags \cup {profiles'[k] : k \in ids}
                         \cup {profiles'[k] : k \in past[s].ids \cap DOMAIN profiles'}
          BY <1>w, <3>3
        <5> HIDE DEF w
        <5> QED BY <5>1, <5>2
      <4> HIDE DEF w
      <4>3. HistoryOf(past[s])'
        BY <1>i, <4>1, <4>2 DEF HistoryOf, w
      <4>4. r[s].pc \in {"clients", "active", "id"} => r[s].id = 0
        BY <3>1 DEF RestrictOf
      <4>5. r[s].pc = "profile" => r[s].id # 0 /\ (w.calm \/ r[s].id \in w.ids)
        BY <3>1, <4>1 DEF RestrictOf
      <4> QED BY <3>2, <3>3, <4>3, <4>4, <4>5 DEF RestrictOf, Reading, w
    <3>4. CASE r[s].pc \notin Reading
      <4>1. past'[s] = past[s] /\ r'[s] = r[s]
        BY <1>o, <3>4
      <4> QED BY <3>1, <3>2, <3>4, <4>1 DEF RestrictOf, Reading
    <3> QED BY <3>3, <3>4
  <2> QED BY <2>1 DEF RestrictInv
<1> QED BY <1>1, <1>2, <1>3

(* The server starts without requests.                                     *)
LEMMA InitSub == SubInit => SubInv /\ RestrictInv
<1> SUFFICES ASSUME SubInit PROVE SubInv /\ RestrictInv
  OBVIOUS
<1>1. IdsGiven
  <2>1. DOMAIN profiles = {}
    BY DEF SubInit, Init
  <2>2. /\ lastId = 0 /\ active = FALSE /\ pid = 0 /\ stamped = FALSE /\ crashes = 0
        /\ e = [a \in Admins |-> IdleAdmin]
    BY DEF SubInit, Init
  <2>3. /\ e \in [Admins -> [pc : EPC, id : Nat]]
        /\ \A a \in Admins : e[a].pc = "idle"
    BY <2>2 DEF IdleAdmin, EPC
  <2>4. TypeOK
    BY <2>1, <2>2, <2>3 DEF TypeOK, EPC
  <2> QED BY <2>2, <2>3, <2>4 DEF IdsGiven
<1>2. /\ \A s \in Readers : r[s] = NoRequest /\ past[s] = NoPast
      /\ r = [s \in Readers |-> NoRequest] /\ past = [s \in Readers |-> NoPast]
  BY DEF SubInit
<1>3. NoRequest \in Requests /\ NoPast \in Pasts /\ NoRequest.pc = "idle" /\ NoRequest.id = 0
  BY DEF NoRequest, NoPast, Requests, RPC, Pasts
<1>4. enabled \in BOOLEAN
  BY Zenon DEF SubInit
<1>5. SubTypes
  BY <1>2, <1>3, <1>4 DEF SubTypes, SubInit
<1>6. IsolationInv
  BY <1>2, <1>3 DEF IsolationInv, IsolationOf, Reading
<1>7. RestrictInv
  BY <1>1, <1>2, <1>3 DEF RestrictInv, RestrictOf, Reading, IdsGiven, TypeOK
<1> QED BY <1>1, <1>5, <1>6, <1>7 DEF SubInv

(* Every step keeps types, isolation and the restriction.                  *)
LEMMA NextSub ==
    ASSUME SubInv, [SubNext]_allVars
    PROVE  SubInv' /\ (RestrictInv => RestrictInv')
<1>t. IdsGiven /\ SubTypes /\ IsolationInv
  BY DEF SubInv
<1> DEFINE Goal == SubInv' /\ (RestrictInv => RestrictInv')
<1>1. ASSUME EmergencyStep PROVE Goal
  <2>1. IdsGiven' /\ GoneStaysGone
    BY <1>1, <1>t, AdminIds DEF EmergencyStep
  <2>2. UNCHANGED <<enabled, clients, r>> /\ Track
    BY <1>1 DEF EmergencyStep
  <2>3. /\ past' \in [Readers -> Pasts] /\ IsolationInv' /\ (RestrictInv => RestrictInv')
    BY <1>t, <2>1, <2>2, TrackStep DEF SubTypes
  <2>4. SubTypes'
    BY <1>t, <2>2, <2>3 DEF SubTypes
  <2> QED BY <2>1, <2>3, <2>4 DEF SubInv
<1>2. ASSUME NEW t \in Switched, SetUserClientEnabled(t) PROVE Goal
  <2>1. UNCHANGED <<vars, enabled, r>> /\ Track /\ clients' \subseteq Tags
    BY <1>2, <1>t, TagsAssumption DEF SetUserClientEnabled, SubTypes
  <2>2. UNCHANGED <<profiles, lastId, active, pid, stamped, e, crashes>>
    BY <2>1 DEF vars
  <2>3. IdsGiven' /\ GoneStaysGone
    BY <1>t, <2>2 DEF IdsGiven, TypeOK, GoneStaysGone
  <2>4. /\ past' \in [Readers -> Pasts] /\ IsolationInv' /\ (RestrictInv => RestrictInv')
    BY <1>t, <2>1, <2>3, TrackStep
  <2>5. SubTypes'
    BY <1>t, <2>1, <2>4 DEF SubTypes
  <2> QED BY <2>3, <2>4, <2>5 DEF SubInv
<1>3. ASSUME SetUserEnabled PROVE Goal
  <2>1. UNCHANGED <<profiles, lastId, active, pid, stamped, e, crashes, clients, r, past>>
    BY <1>3 DEF SetUserEnabled, vars
  <2>2. enabled' \in BOOLEAN
    BY <1>3, Zenon DEF SetUserEnabled
  <2>3. IdsGiven'
    BY <1>t, <2>1 DEF IdsGiven, TypeOK
  <2>4. SubTypes'
    BY <1>t, <2>1, <2>2 DEF SubTypes
  <2>5. IsolationInv'
    BY <1>t, <2>1 DEF IsolationInv, IsolationOf, Clean
  <2>6. RestrictInv => RestrictInv'
    BY <2>1 DEF RestrictInv, RestrictOf, HistoryOf, InForce, Exists, Restrict
  <2> QED BY <2>3, <2>4, <2>5, <2>6 DEF SubInv
<1>4. ASSUME ServerCrash PROVE Goal
  <2>1. Crash /\ UNCHANGED <<enabled, clients>> /\ r' = [s \in Readers |-> NoRequest]
        /\ past' = [s \in Readers |-> NoPast]
    BY <1>4 DEF ServerCrash
  <2>2. IdsGiven' /\ UNCHANGED <<profiles, lastId, active, pid>>
    BY <1>t, <2>1, CrashIds
  <2>3. NoRequest \in Requests /\ NoPast \in Pasts /\ NoRequest.pc = "idle" /\ NoRequest.id = 0
    BY DEF NoRequest, NoPast, Requests, RPC, Pasts
  <2>4. SubTypes'
    BY <1>t, <2>1, <2>3 DEF SubTypes
  <2>5. \A s \in Readers : r'[s].pc = "idle" /\ r'[s].id = 0
    BY <2>1, <2>3
  <2>6. IsolationInv'
    BY <2>5 DEF IsolationInv, IsolationOf, Reading
  <2>7. RestrictInv'
    BY <1>t, <2>2, <2>5 DEF RestrictInv, RestrictOf, Reading, IdsGiven, TypeOK
  <2> QED BY <2>2, <2>4, <2>6, <2>7 DEF SubInv
<1>5. ASSUME NEW s \in Readers, Reader(s) PROVE Goal
  <2>1. /\ r' \in [Readers -> Requests] /\ past' \in [Readers -> Pasts]
        /\ UNCHANGED <<vars, enabled, clients>>
    BY <1>5, <1>t, ReaderMoves
  <2>2. UNCHANGED <<profiles, lastId, active, pid, stamped, e, crashes>>
    BY <2>1 DEF vars
  <2>3. IdsGiven'
    BY <1>t, <2>2 DEF IdsGiven, TypeOK
  <2>4. SubTypes'
    BY <1>t, <2>1 DEF SubTypes
  <2>5. IsolationInv'
    BY <1>5, <1>t, ReaderIsolation
  <2>6. RestrictInv => RestrictInv'
    BY <1>5, <1>t, ReaderRestricts
  <2> QED BY <2>3, <2>4, <2>5, <2>6 DEF SubInv
<1>6. ASSUME UNCHANGED allVars PROVE Goal
  <2>1. UNCHANGED <<profiles, lastId, active, pid, stamped, e, crashes, enabled, clients, r, past>>
    BY <1>6 DEF allVars, subVars, vars
  <2>2. IdsGiven' /\ SubTypes'
    BY <1>t, <2>1 DEF IdsGiven, TypeOK, SubTypes
  <2>3. IsolationInv'
    BY <1>t, <2>1 DEF IsolationInv, IsolationOf, Clean
  <2>4. RestrictInv => RestrictInv'
    BY <2>1 DEF RestrictInv, RestrictOf, HistoryOf, InForce, Exists, Restrict
  <2> QED BY <2>2, <2>3, <2>4 DEF SubInv
<1> HIDE DEF Goal
<1>7. Goal
  BY <1>1, <1>2, <1>3, <1>4, <1>5, <1>6, Zenon DEF SubNext
<1> QED BY <1>7 DEF Goal

(* Types and isolation hold throughout.                                    *)
LEMMA SubInvariant == SubSpec => []SubInv
<1>1. SubInit => SubInv
  BY InitSub
<1>2. SubInv /\ [SubNext]_allVars => SubInv'
  BY NextSub
<1> QED BY <1>1, <1>2, PTL DEF SubSpec

(* A document never mixes primary and fallback inbounds, lists nothing     *)
(* excluded, and lists only clients that were enabled at some moment of    *)
(* the request, whatever admins do in between.                             *)
THEOREM SubscriptionIsolation == SubSpec => []ServedIsolation
<1>1. SubInv => ServedIsolation
  BY DEF SubInv, IsolationInv, IsolationOf, Clean, ServedIsolation, Served
<1> QED BY <1>1, SubInvariant, PTL

(* A profile that is in force all through a request restricts its document *)
(* unless a read of the request failed or found the row gone, however many *)
(* admins switch, edit and delete profiles between its three reads.        *)
THEOREM SubscriptionRestricts == SubSpec => []EmergencyRestricts
<1>1. SubInit => SubInv /\ RestrictInv
  BY InitSub
<1>2. (SubInv /\ RestrictInv) /\ [SubNext]_allVars => (SubInv /\ RestrictInv)'
  BY NextSub
<1>3. SubInv /\ RestrictInv => EmergencyRestricts
  <2> SUFFICES ASSUME RestrictInv, NEW s \in Readers, Served(s), r[s].path = "json",
                      ~past[s].calm, ~r[s].blind
               PROVE  \E tags \in past[s].tags : r[s].out = Restrict(r[s].got, tags) \cap r[s].filter
    BY DEF EmergencyRestricts
  <2>1. RestrictOf(r[s], past[s])
    BY DEF RestrictInv
  <2> QED BY <2>1 DEF RestrictOf, Served
<1> QED BY <1>1, <1>2, <1>3, PTL DEF SubSpec

(***************************************************************************)
(* The gate.  It passes requests on or drops them, and changes nothing     *)
(* else, so a server behind it behaves as Subscription says.               *)
(***************************************************************************)

GPC == {"idle", "flag", "fallback", "user", "in", "out"}
Gates == [pc : GPC, fallback : BOOLEAN, shown : Nat, key : Nat, uri : BOOLEAN]
Sights == [token : BOOLEAN, flag : BOOLEAN, hy2 : BOOLEAN]

GateTypes ==
    /\ token \in Nat /\ ftoken \in Nat
    /\ flag \in BOOLEAN /\ hy2 \in BOOLEAN /\ enabled \in BOOLEAN
    /\ g \in [Readers -> Gates]
    /\ seen \in [Readers -> Sights]

(* What each check that a request has passed has seen: q is its gate, w    *)
(* its history and pc where the handler behind the gate stands.            *)
GateOf(q, w, pc) ==
    /\ pc # "idle" => q.pc \in {"in", "out"}
    /\ q.pc \in {"flag", "fallback"} => q.fallback
    /\ ~q.fallback => q.key = q.shown
    /\ q.fallback /\ q.pc \in {"fallback", "user", "in", "out"} => w.flag
    /\ q.pc \in {"in", "out"} \/ (q.pc = "user" /\ q.fallback) => w.token
    /\ q.uri => q.pc = "out" /\ w.hy2

GateInv == GateTypes /\ \A s \in Readers : GateOf(g[s], seen[s], r[s].pc)

(* The history of a request that goes on keeps what it has and takes in    *)
(* what the new state grants.                                              *)
LEMMA SeenGrows ==
    ASSUME g' \in [Readers -> Gates], Record
    PROVE  /\ seen' \in [Readers -> Sights]
           /\ \A s \in Readers : g'[s].pc # "idle" =>
                /\ seen[s].token \/ (enabled' /\ g'[s].shown = IF g'[s].fallback THEN ftoken' ELSE token')
                     => seen'[s].token
                /\ seen[s].flag \/ flag' => seen'[s].flag
                /\ seen[s].hy2 \/ (enabled' /\ hy2') => seen'[s].hy2
<1>1. ASSUME NEW s \in Readers
      PROVE  /\ seen'[s] \in Sights
             /\ g'[s].pc # "idle" =>
                /\ seen[s].token \/ (enabled' /\ g'[s].shown = IF g'[s].fallback THEN ftoken' ELSE token')
                     => seen'[s].token
                /\ seen[s].flag \/ flag' => seen'[s].flag
                /\ seen[s].hy2 \/ (enabled' /\ hy2') => seen'[s].hy2
  <2> DEFINE now == enabled' /\ g'[s].shown = IF g'[s].fallback THEN ftoken' ELSE token'
             tk == seen[s].token \/ now
             fl == seen[s].flag \/ flag'
             hy == seen[s].hy2 \/ (enabled' /\ hy2')
  <2>1. CASE g'[s].pc = "idle"
    <3>1. seen'[s] = NoneSeen
      BY <2>1 DEF Record
    <3> QED BY <2>1, <3>1 DEF NoneSeen, Sights
  <2>2. CASE g'[s].pc # "idle"
    <3>1. Granted(s)' = [token |-> now, flag |-> flag', hy2 |-> enabled' /\ hy2']
      BY Zenon DEF Granted
    <3>2. /\ Granted(s)'.token = now /\ Granted(s)'.flag = flag'
          /\ Granted(s)'.hy2 = (enabled' /\ hy2')
      <4> DEFINE k == enabled' /\ hy2'
      <4> HIDE DEF now, k
      <4>1. Granted(s)' = [token |-> now, flag |-> flag', hy2 |-> k]
        BY <3>1, Zenon DEF k
      <4>2. Granted(s)'.token = now /\ Granted(s)'.flag = flag' /\ Granted(s)'.hy2 = k
        BY <4>1
      <4> QED BY <4>2, Zenon DEF k
    <3>3. seen'[s] = [token |-> seen[s].token \/ Granted(s)'.token,
                      flag |-> seen[s].flag \/ Granted(s)'.flag,
                      hy2 |-> seen[s].hy2 \/ Granted(s)'.hy2]
      BY <2>2, Zenon DEF Record
    <3> HIDE DEF now
    <3>4. seen'[s] = [token |-> tk, flag |-> fl, hy2 |-> hy]
      BY <3>2, <3>3, Zenon
    <3>5. tk \in BOOLEAN /\ fl \in BOOLEAN /\ hy \in BOOLEAN
      BY Zenon
    <3>6. seen[s].token \/ now => tk
      BY Zenon
    <3>7. seen[s].flag \/ flag' => fl
      BY Zenon
    <3>8. seen[s].hy2 \/ (enabled' /\ hy2') => hy
      BY Zenon
    <3> HIDE DEF tk, fl, hy
    <3>9. seen'[s] \in Sights /\ seen'[s].token = tk /\ seen'[s].flag = fl /\ seen'[s].hy2 = hy
      BY <3>4, <3>5 DEF Sights
    <3> QED BY <3>6, <3>7, <3>8, <3>9, Zenon DEF now
  <2> QED BY <2>1, <2>2
<1>2. seen' = [s \in Readers |-> seen'[s]]
  BY DEF Record
<1> QED BY <1>1, <1>2

(* One request's gate moves, the others wait: what is to be shown of the   *)
(* step is that the gate that moved saw what it passed.                    *)
LEMMA GateStep ==
    ASSUME GateInv, Record, NEW s \in Readers, NEW q \in Gates, Pass(s, q),
           token' \in Nat, ftoken' \in Nat, flag' \in BOOLEAN, hy2' \in BOOLEAN, enabled' \in BOOLEAN,
           \A t \in Readers \ {s} : r'[t].pc = r[t].pc,
           GateOf(q, seen'[s], r'[s].pc)
    PROVE  GateInv'
<1>1. g' \in [Readers -> Gates] /\ g'[s] = q /\ \A t \in Readers \ {s} : g'[t] = g[t]
  BY DEF Pass, GateInv, GateTypes
<1>2. GateTypes'
  BY <1>1, SeenGrows, Zenon DEF GateTypes
<1>3. ASSUME NEW t \in Readers, t # s PROVE GateOf(g'[t], seen'[t], r'[t].pc)
  <2>1. GateOf(g[t], seen[t], r[t].pc) /\ g'[t] = g[t] /\ r'[t].pc = r[t].pc
    BY <1>1, <1>3 DEF GateInv
  <2>2. /\ g[t].pc # "idle" /\ seen[t].token => seen'[t].token
        /\ g[t].pc # "idle" /\ seen[t].flag => seen'[t].flag
        /\ g[t].pc # "idle" /\ seen[t].hy2 => seen'[t].hy2
    BY <1>1, <2>1, SeenGrows, Zenon
  <2> QED BY <2>1, <2>2 DEF GateOf
<1>4. \A t \in Readers : GateOf(g'[t], seen'[t], r'[t].pc)
  BY <1>1, <1>3
<1> QED BY <1>2, <1>4 DEF GateInv, GateOf

(* The gate starts empty.                                                  *)
LEMMA InitGate == AccessInit => GateInv
<1> SUFFICES ASSUME AccessInit PROVE GateInv
  OBVIOUS
<1>1. NoGate \in Gates /\ NoGate.pc = "idle" /\ NoGate.key = NoGate.shown
  BY DEF NoGate, Gates, GPC
<1>2. ~NoGate.uri
  BY DEF NoGate
<1>3. NoneSeen \in Sights
  BY DEF NoneSeen, Sights
<1>4. /\ g = [s \in Readers |-> NoGate] /\ seen = [s \in Readers |-> NoneSeen]
      /\ \A s \in Readers : r[s] = NoRequest
      /\ token = 1 /\ ftoken = 1
  BY DEF AccessInit, SubInit
<1>5. flag \in BOOLEAN /\ hy2 \in BOOLEAN /\ enabled \in BOOLEAN
  BY Zenon DEF AccessInit, SubInit
<1>6. GateTypes
  BY <1>1, <1>3, <1>4, <1>5 DEF GateTypes
<1>7. NoRequest.pc = "idle"
  BY DEF NoRequest
<1>8. \A s \in Readers : GateOf(g[s], seen[s], r[s].pc)
  BY <1>1, <1>2, <1>4, <1>7 DEF GateOf
<1> QED BY <1>6, <1>8 DEF GateInv

(* A request's step through the gate leaves the account alone, and is a    *)
(* step of its handler or leaves Subscription's state alone.               *)
LEMMA VisitorIsReader ==
    ASSUME GateInv, NEW s \in Readers, Visitor(s)
    PROVE  /\ UNCHANGED accountVars
           /\ Reader(s) \/ UNCHANGED allVars
<1>1. g[s].fallback \in BOOLEAN
  BY DEF GateInv, GateTypes, Gates
<1>2. ASSUME LookUp(s) PROVE UNCHANGED accountVars /\ (Reader(s) \/ UNCHANGED allVars)
  BY <1>1, <1>2, Zenon DEF LookUp, Reader
<1>3. ASSUME Inside(s) PROVE UNCHANGED accountVars /\ Reader(s)
  BY <1>3, Zenon DEF Inside, Reader
<1>4. ASSUME Leave(s) PROVE UNCHANGED accountVars /\ Reader(s)
  BY <1>4, Zenon DEF Leave, Reader
<1>5. ASSUME \/ \E t \in 1..token : Knock(s, FALSE, t)
             \/ \E t \in 1..ftoken : Knock(s, TRUE, t)
             \/ GateFlag(s) \/ GateToken(s) \/ Append(s)
      PROVE  UNCHANGED accountVars /\ UNCHANGED allVars
  BY <1>5 DEF Knock, GateFlag, GateToken, Append
<1> QED BY <1>2, <1>3, <1>4, <1>5, Zenon DEF Visitor

(* Behind the gate the server takes the steps of Subscription.             *)
LEMMA AccessStep ==
    ASSUME GateInv, [AccessNext]_accessVars
    PROVE  [SubNext]_allVars
<1>1. ASSUME RegenerateToken \/ RegenerateFallbackToken \/ SetFallbackEnabled \/ SetUserHy2
      PROVE  UNCHANGED allVars
  BY <1>1 DEF RegenerateToken, RegenerateFallbackToken, SetFallbackEnabled, SetUserHy2
<1>2. ASSUME Behind PROVE SubNext
  BY <1>2, Zenon DEF Behind, SubNext
<1>3. ASSUME Restart PROVE SubNext
  BY <1>3, Zenon DEF Restart, SubNext
<1>4. ASSUME NEW s \in Readers, Visitor(s) PROVE [SubNext]_allVars
  BY <1>4, VisitorIsReader, Zenon DEF SubNext
<1>5. ASSUME UNCHANGED accessVars PROVE UNCHANGED allVars
  BY <1>5 DEF accessVars
<1> QED BY <1>1, <1>2, <1>3, <1>4, <1>5, Zenon DEF AccessNext

(* A request's step through the gate: each check it passes is seen.        *)
LEMMA VisitorGate ==
    ASSUME SubInv, GateInv, Record, NEW s \in Readers, Visitor(s)
    PROVE  GateInv'
<1>t. /\ token \in Nat /\ ftoken \in Nat /\ flag \in BOOLEAN /\ hy2 \in BOOLEAN /\ enabled \in BOOLEAN
      /\ g \in [Readers -> Gates] /\ g[s] \in Gates
      /\ GateOf(g[s], seen[s], r[s].pc)
  BY DEF GateInv, GateTypes
<1>f. /\ g[s].pc \in GPC /\ g[s].fallback \in BOOLEAN /\ g[s].shown \in Nat /\ g[s].key \in Nat
      /\ g[s].uri \in BOOLEAN
  BY <1>t DEF Gates
<1>a. UNCHANGED <<token, ftoken, flag, hy2>> /\ (Reader(s) \/ UNCHANGED allVars)
  BY VisitorIsReader DEF accountVars
<1>o. UNCHANGED enabled /\ \A u \in Readers \ {s} : r'[u].pc = r[u].pc
  <2>1. CASE Reader(s)
    BY <2>1, ReaderMoves DEF SubInv
  <2>2. CASE UNCHANGED allVars
    BY <2>2 DEF allVars, subVars
  <2> QED BY <1>a, <2>1, <2>2
<1>p. ASSUME NEW q \in Gates, Pass(s, q), GateOf(q, seen'[s], r'[s].pc) PROVE GateInv'
  BY <1>a, <1>o, <1>p, <1>t, GateStep
<1>w. ASSUME NEW q \in Gates, Pass(s, q), q.pc # "idle"
      PROVE  /\ seen[s].token \/ (enabled /\ q.shown = IF q.fallback THEN ftoken ELSE token)
                  => seen'[s].token
             /\ seen[s].flag \/ flag => seen'[s].flag
             /\ seen[s].hy2 \/ (enabled /\ hy2) => seen'[s].hy2
  <2>1. g' \in [Readers -> Gates] /\ g'[s] = q
    BY <1>t, <1>w DEF Pass
  <2> QED BY <1>a, <1>o, <1>w, <2>1, SeenGrows, Zenon
<1>g. NoGate \in Gates /\ NoGate.pc = "idle" /\ NoGate.key = NoGate.shown /\ NoGate.uri = FALSE
  BY DEF NoGate, Gates, GPC
<1>n. ASSUME Refuse(s), r'[s].pc = "idle" PROVE GateInv'
  <2>1. GateOf(NoGate, seen'[s], r'[s].pc)
    BY <1>g, <1>n DEF GateOf
  <2> QED BY <1>g, <1>n, <1>p, <2>1 DEF Refuse
<1>i. ASSUME UNCHANGED allVars, g[s].pc \notin {"in", "out"} PROVE r'[s].pc = "idle"
  BY <1>i, <1>t DEF allVars, subVars, GateOf
<1>1. ASSUME NEW fallback \in BOOLEAN, NEW t \in Nat, Knock(s, fallback, t) PROVE GateInv'
  <2> DEFINE q == [NoGate EXCEPT !.pc = IF fallback THEN "flag" ELSE "user",
                                 !.fallback = fallback, !.shown = t, !.key = t]
  <2>1. /\ q \in Gates /\ q.pc \in {"flag", "user"} /\ q.fallback = fallback
        /\ q.key = t /\ q.shown = t /\ q.uri = FALSE
        /\ (q.pc = "flag" <=> fallback)
    BY DEF NoGate, Gates, GPC
  <2>2. Pass(s, q) /\ UNCHANGED allVars /\ g[s].pc = "idle"
    BY <1>1, Zenon DEF Knock
  <2> HIDE DEF q
  <2>3. r'[s].pc = "idle"
    BY <1>i, <2>2
  <2>4. GateOf(q, seen'[s], r'[s].pc)
    BY <2>1, <2>3 DEF GateOf
  <2> QED BY <1>p, <2>1, <2>2, <2>4
<1>2. ASSUME GateFlag(s) PROVE GateInv'
  <2> DEFINE q == [g[s] EXCEPT !.pc = "fallback"]
  <2>1. /\ q \in Gates /\ q.pc = "fallback" /\ q.fallback = g[s].fallback
        /\ q.key = g[s].key /\ q.shown = g[s].shown /\ q.uri = g[s].uri
    BY <1>t DEF Gates, GPC
  <2>2. /\ g[s].pc = "flag" /\ UNCHANGED allVars
        /\ (flag /\ Pass(s, q)) \/ Refuse(s)
    BY <1>2, Zenon DEF GateFlag
  <2> HIDE DEF q
  <2>3. r'[s].pc = "idle"
    BY <1>i, <2>2
  <2>4. ASSUME flag, Pass(s, q) PROVE GateInv'
    <3>1. seen'[s].flag
      BY <1>w, <2>1, <2>4, Zenon
    <3>2. GateOf(q, seen'[s], r'[s].pc)
      BY <1>t, <2>1, <2>2, <2>3, <3>1 DEF GateOf
    <3> QED BY <1>p, <2>1, <2>4, <3>2
  <2> QED BY <1>n, <2>2, <2>3, <2>4
<1>3. ASSUME GateToken(s) PROVE GateInv'
  <2> DEFINE q == [g[s] EXCEPT !.pc = "user", !.key = token]
  <2>1. /\ q \in Gates /\ q.pc = "user" /\ q.fallback = g[s].fallback
        /\ q.key = token /\ q.shown = g[s].shown /\ q.uri = g[s].uri
    BY <1>t DEF Gates, GPC
  <2>2. /\ g[s].pc = "fallback" /\ UNCHANGED allVars
        /\ (g[s].shown = ftoken /\ enabled /\ Pass(s, q)) \/ Refuse(s)
    BY <1>3, Zenon DEF GateToken
  <2> HIDE DEF q
  <2>3. r'[s].pc = "idle"
    BY <1>i, <2>2
  <2>4. g[s].fallback /\ seen[s].flag /\ ~g[s].uri
    BY <1>t, <2>2 DEF GateOf
  <2>5. ASSUME g[s].shown = ftoken, enabled, Pass(s, q) PROVE GateInv'
    <3>1. seen'[s].token /\ seen'[s].flag
      BY <1>w, <2>1, <2>4, <2>5, Zenon
    <3>2. GateOf(q, seen'[s], r'[s].pc)
      BY <2>1, <2>3, <2>4, <3>1 DEF GateOf
    <3> QED BY <1>p, <2>1, <2>5, <3>2
  <2> QED BY <1>n, <2>2, <2>3, <2>5
<1>4. ASSUME LookUp(s) PROVE GateInv'
  <2> DEFINE q == [g[s] EXCEPT !.pc = "in"]
  <2>1. /\ q \in Gates /\ q.pc = "in" /\ q.fallback = g[s].fallback
        /\ q.key = g[s].key /\ q.shown = g[s].shown /\ q.uri = g[s].uri
    BY <1>t DEF Gates, GPC
  <2>2. /\ g[s].pc = "user"
        /\ \/ g[s].key = token /\ enabled /\ Pass(s, q)
           \/ Refuse(s) /\ UNCHANGED allVars
    BY <1>4, Zenon DEF LookUp, Ask
  <2> HIDE DEF q
  <2>3. /\ g[s].fallback => seen[s].token /\ seen[s].flag
        /\ ~g[s].fallback => g[s].key = g[s].shown
        /\ ~g[s].uri
    BY <1>t, <2>2 DEF GateOf
  <2>4. ASSUME g[s].key = token, enabled, Pass(s, q) PROVE GateInv'
    <3>1. seen'[s].token /\ (g[s].fallback => seen'[s].flag)
      BY <1>w, <2>1, <2>3, <2>4, Zenon
    <3>2. GateOf(q, seen'[s], r'[s].pc)
      BY <2>1, <2>3, <3>1 DEF GateOf
    <3> QED BY <1>p, <2>1, <2>4, <3>2
  <2> QED BY <1>i, <1>n, <2>2, <2>4
<1>5. ASSUME Inside(s) PROVE GateInv'
  <2>1. g[s].pc = "in" /\ IF r'[s].pc = "idle" THEN Refuse(s) ELSE UNCHANGED g
    BY <1>5 DEF Inside
  <2>2. ASSUME UNCHANGED g PROVE GateInv'
    <3>1. Pass(s, g[s])
      BY <1>t, <2>2 DEF Pass
    <3>2. /\ seen[s].token => seen'[s].token
          /\ seen[s].flag => seen'[s].flag
          /\ seen[s].hy2 => seen'[s].hy2
      BY <1>t, <1>w, <2>1, <3>1
    <3>3. GateOf(g[s], seen'[s], r'[s].pc)
      BY <1>t, <2>1, <3>2 DEF GateOf
    <3> QED BY <1>p, <1>t, <3>1, <3>3
  <2> QED BY <1>n, <2>1, <2>2
<1>6. ASSUME Append(s) PROVE GateInv'
  <2>1. g[s].pc = "in"
    BY <1>6 DEF Append
  <2>2. \E b \in BOOLEAN : Pass(s, [g[s] EXCEPT !.pc = "out", !.uri = b]) /\ (b => enabled /\ hy2)
    <3>1. [g[s] EXCEPT !.pc = "out"] = [g[s] EXCEPT !.pc = "out", !.uri = FALSE]
      <4>1. g[s].uri = FALSE
        BY <1>f, <1>t, <2>1 DEF GateOf
      <4> QED BY <1>t, <4>1 DEF Gates
    <3> QED BY <1>6, <3>1, Zenon DEF Append
  <2>3. PICK b \in BOOLEAN : Pass(s, [g[s] EXCEPT !.pc = "out", !.uri = b]) /\ (b => enabled /\ hy2)
    BY <2>2
  <2> DEFINE q == [g[s] EXCEPT !.pc = "out", !.uri = b]
  <2>4. /\ q \in Gates /\ q.pc = "out" /\ q.fallback = g[s].fallback
        /\ q.key = g[s].key /\ q.shown = g[s].shown /\ q.uri = b
    BY <1>t DEF Gates, GPC
  <2>5. Pass(s, q)
    BY <2>3
  <2> HIDE DEF q
  <2>6. /\ seen[s].token => seen'[s].token
        /\ seen[s].flag => seen'[s].flag
        /\ b => seen'[s].hy2
    BY <1>w, <2>3, <2>4, <2>5, Zenon
  <2>7. GateOf(q, seen'[s], r'[s].pc)
    BY <1>t, <2>1, <2>4, <2>6 DEF GateOf
  <2> QED BY <1>p, <2>4, <2>5, <2>7
<1>7. ASSUME Leave(s) PROVE GateInv'
  <2>1. Refuse(s) /\ Rejected(s)
    BY <1>7 DEF Leave, Close
  <2>2. r'[s].pc = "idle"
    BY <2>1 DEF Rejected, SubInv, SubTypes, NoRequest
  <2> QED BY <1>n, <2>1, <2>2
<1>8. ASSUME \/ \E t \in 1..token : Knock(s, FALSE, t)
             \/ \E t \in 1..ftoken : Knock(s, TRUE, t)
      PROVE  GateInv'
  <2>1. 1..token \subseteq Nat /\ 1..ftoken \subseteq Nat
    OBVIOUS
  <2>2. TRUE \in BOOLEAN /\ FALSE \in BOOLEAN
    OBVIOUS
  <2> QED BY <1>1, <1>8, <2>1, <2>2, Zenon
<1> QED BY <1>2, <1>3, <1>4, <1>5, <1>6, <1>7, <1>8, Zenon DEF Visitor

(* Every step of the server keeps what the gate has seen.                  *)
LEMMA NextGate ==
    ASSUME SubInv, GateInv, [AccessNext]_accessVars
    PROVE  GateInv'
<1>t. /\ token \in Nat /\ ftoken \in Nat /\ flag \in BOOLEAN /\ hy2 \in BOOLEAN /\ enabled \in BOOLEAN
      /\ g \in [Readers -> Gates] /\ seen \in [Readers -> Sights]
      /\ \A s \in Readers : GateOf(g[s], seen[s], r[s].pc)
  BY DEF GateInv, GateTypes
<1>q. ASSUME Record, UNCHANGED <<g, r>>,
             token' \in Nat, ftoken' \in Nat, flag' \in BOOLEAN, hy2' \in BOOLEAN, enabled' \in BOOLEAN
      PROVE  GateInv'
  <2>1. ASSUME NEW s \in Readers PROVE GateOf(g[s], seen'[s], r[s].pc)
    <3>1. /\ g[s].pc # "idle" /\ seen[s].token => seen'[s].token
          /\ g[s].pc # "idle" /\ seen[s].flag => seen'[s].flag
          /\ g[s].pc # "idle" /\ seen[s].hy2 => seen'[s].hy2
      BY <1>q, <1>t, SeenGrows, Zenon
    <3> QED BY <1>t, <3>1 DEF GateOf
  <2>2. GateTypes'
    BY <1>q, <1>t, SeenGrows, Zenon DEF GateTypes
  <2> QED BY <1>q, <2>1, <2>2 DEF GateInv, GateOf
<1>1. ASSUME Record, RegenerateToken \/ RegenerateFallbackToken PROVE GateInv'
  <2>1. UNCHANGED <<g, r, flag, hy2, enabled>> /\ token' \in Nat /\ ftoken' \in Nat
    BY <1>1, <1>t DEF RegenerateToken, RegenerateFallbackToken, allVars, subVars
  <2> QED BY <1>1, <1>q, <1>t, <2>1
<1>2. ASSUME Record, SetFallbackEnabled \/ SetUserHy2 PROVE GateInv'
  <2>1. UNCHANGED <<g, r, token, ftoken, enabled>>
    BY <1>2 DEF SetFallbackEnabled, SetUserHy2, allVars, subVars
  <2>2. flag' \in BOOLEAN /\ hy2' \in BOOLEAN
    BY <1>2, <1>t, Zenon DEF SetFallbackEnabled, SetUserHy2
  <2> QED BY <1>2, <1>q, <1>t, <2>1, <2>2
<1>3. ASSUME Record, Behind PROVE GateInv'
  <2>1. UNCHANGED <<g, r, token, ftoken, flag, hy2>>
    BY <1>3 DEF Behind, EmergencyStep, SetUserEnabled, SetUserClientEnabled, accountVars
  <2>2. enabled' = enabled \/ enabled' = ~enabled
    BY <1>3, Zenon DEF Behind, EmergencyStep, SetUserEnabled, SetUserClientEnabled
  <2>3. enabled' \in BOOLEAN
    BY <1>t, <2>2, Zenon
  <2> QED BY <1>3, <1>q, <1>t, <2>1, <2>3
<1>4. ASSUME Record, Restart PROVE GateInv'
  <2>1. /\ UNCHANGED <<token, ftoken, flag, hy2, enabled>>
        /\ g' = [s \in Readers |-> NoGate] /\ r' = [s \in Readers |-> NoRequest]
    BY <1>4 DEF Restart, ServerCrash, accountVars
  <2>2. /\ NoGate \in Gates /\ NoGate.pc = "idle" /\ NoGate.key = NoGate.shown /\ NoGate.uri = FALSE
        /\ NoRequest.pc = "idle"
    BY DEF NoGate, Gates, GPC, NoRequest
  <2>3. g' \in [Readers -> Gates] /\ \A s \in Readers : g'[s] = NoGate /\ r'[s].pc = "idle"
    BY <2>1, <2>2
  <2>4. GateTypes'
    BY <1>4, <1>t, <2>1, <2>3, SeenGrows, Zenon DEF GateTypes
  <2>5. \A s \in Readers : GateOf(g'[s], seen'[s], r'[s].pc)
    BY <2>2, <2>3 DEF GateOf
  <2> QED BY <2>4, <2>5 DEF GateInv, GateOf
<1>5. ASSUME Record, NEW s \in Readers, Visitor(s) PROVE GateInv'
  BY <1>5, VisitorGate
<1>6. ASSUME UNCHANGED accessVars PROVE GateInv'
  <2>1. UNCHANGED <<token, ftoken, flag, hy2, enabled, g, seen, r>>
    BY <1>6 DEF accessVars, accountVars, allVars, subVars
  <2> QED BY <1>t, <2>1 DEF GateInv, GateTypes, GateOf
<1> QED BY <1>1, <1>2, <1>3, <1>4, <1>5, <1>6, Zenon DEF AccessNext

(* The server behind its gate implements Subscription, whatever tokens and *)
(* switches admins change: the gate adds no behaviour to what is served.   *)
THEOREM AccessRefines == AccessSpec => SubSpec
<1>1. AccessInit => SubInit /\ SubInv /\ GateInv
  BY InitSub, InitGate DEF AccessInit
<1>2. SubInv /\ GateInv /\ [AccessNext]_accessVars => [SubNext]_allVars /\ SubInv' /\ GateInv'
  BY AccessStep, NextSub, NextGate
<1> QED BY <1>1, <1>2, PTL DEF AccessSpec, SubSpec

(* Hence isolation holds behind the gate too.                              *)
THEOREM AccessIsolation == AccessSpec => []ServedIsolation
BY AccessRefines, SubscriptionIsolation, PTL

(* And so does the emergency restriction.                                  *)
THEOREM AccessRestricts == AccessSpec => []EmergencyRestricts
BY AccessRefines, SubscriptionRestricts, PTL

(* What an admin took away before a request began, it is not served, for   *)
(* any interleaving of the gate's four checks with rotations, switches and *)
(* restarts, and with failing queries.                                     *)
THEOREM AccessRevoked == AccessSpec => []RevokedNotServed
<1>1. AccessInit => SubInv /\ GateInv
  BY InitSub, InitGate DEF AccessInit
<1>2. (SubInv /\ GateInv) /\ [AccessNext]_accessVars => (SubInv /\ GateInv)'
  BY AccessStep, NextSub, NextGate
<1>3. SubInv /\ GateInv => RevokedNotServed
  <2> SUFFICES ASSUME GateInv, NEW s \in Readers, Served(s)
               PROVE  /\ seen[s].token
                      /\ g[s].fallback => seen[s].flag
                      /\ g[s].uri => seen[s].hy2
    BY DEF RevokedNotServed
  <2>1. GateOf(g[s], seen[s], r[s].pc) /\ r[s].pc = "served"
    BY DEF GateInv, Served
  <2> QED BY <2>1 DEF GateOf
<1> QED BY <1>1, <1>2, <1>3, PTL DEF AccessSpec
=============================================================================
