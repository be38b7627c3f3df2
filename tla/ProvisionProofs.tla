-------------------------- MODULE ProvisionProofs ---------------------------
(***************************************************************************)
(* The row ids a handler or a Sync holds stay harmless, for any number of  *)
(* users, inbounds, concurrent requests and concurrent Syncs, with failing *)
(* RPCs and writes, crashes and Xray restarts.                             *)
(***************************************************************************)
EXTENDS Provision, TLAPS

(* The records of an idle handler and an idle Sync are well typed.         *)
LEMMA IdleTypes == /\ IdleHandler \in HandlerState
                   /\ IdleSync \in SyncState
                   /\ NoEntries \in Entries
<1>1. SomeUser \in Users /\ SomeInbound \in Inbounds
  BY SomeAssumption DEF SomeUser, SomeInbound
<1>2. NoEntries \in Entries /\ NoCreds \in [Inbounds -> Nat] /\ NoWant \in [Users -> Nat]
  BY DEF NoEntries, Entries, NoCreds, NoWant
<1>3. IdleHandler \in HandlerState
  BY <1>1, <1>2 DEF IdleHandler, HandlerState, HandlerPC, AllOps
<1>4. IdleSync \in SyncState
  BY <1>1, <1>2 DEF IdleSync, SyncState, SyncPC
<1> QED BY <1>2, <1>3, <1>4

(* A handler's step leaves a function of handler records.                  *)
LEMMA GotoType ==
    ASSUME h \in [Handlers -> HandlerState], NEW p \in Handlers,
           NEW r \in HandlerState, Goto(p, r)
    PROVE  h' \in [Handlers -> HandlerState]
BY DEF Goto

(* So does a Sync's step.                                                  *)
LEMMA GotoSyncType ==
    ASSUME y \in [Syncs -> SyncState], NEW s \in Syncs,
           NEW r \in SyncState, GotoSync(s, r)
    PROVE  y' \in [Syncs -> SyncState]
BY DEF GotoSync

(* The statements on users keep the table's type.                          *)
LEMMA UserStatements ==
    ASSUME TypeOK
    PROVE  /\ \A u \in Users : CreateUser(u) =>
                user' \in [Users -> [id : Nat, enabled : BOOLEAN]] /\ lastId' \in Nat /\ client' = client
           /\ \A id \in Nat, b \in BOOLEAN : SetUserEnabled(id, b) =>
                user' \in [Users -> [id : Nat, enabled : BOOLEAN]]
           /\ \A id \in Nat : DeleteUser(id) =>
                /\ user' \in [Users -> [id : Nat, enabled : BOOLEAN]]
                /\ client' \in [Users -> [Inbounds -> [cred : Nat, enabled : BOOLEAN]]]
<1> USE DEF TypeOK, NoUser, NoClient
<1>1. ASSUME NEW u \in Users, CreateUser(u)
      PROVE  user' \in [Users -> [id : Nat, enabled : BOOLEAN]] /\ lastId' \in Nat /\ client' = client
  BY <1>1 DEF CreateUser
<1>2. ASSUME NEW id \in Nat, NEW b \in BOOLEAN, SetUserEnabled(id, b)
      PROVE  user' \in [Users -> [id : Nat, enabled : BOOLEAN]]
  BY <1>2 DEF SetUserEnabled
<1>3. ASSUME NEW id \in Nat, DeleteUser(id)
      PROVE  /\ user' \in [Users -> [id : Nat, enabled : BOOLEAN]]
             /\ client' \in [Users -> [Inbounds -> [cred : Nat, enabled : BOOLEAN]]]
  BY <1>3 DEF DeleteUser
<1> QED BY <1>1, <1>2, <1>3

(* So do the statements on user_clients.                                   *)
LEMMA ClientStatements ==
    ASSUME TypeOK, NEW id \in Nat, NEW i \in Inbounds
    PROVE  /\ \A c \in Nat : UpsertUserClient(id, i, c) =>
                client' \in [Users -> [Inbounds -> [cred : Nat, enabled : BOOLEAN]]]
           /\ \A b \in BOOLEAN : SetUserClientEnabled(id, i, b) =>
                client' \in [Users -> [Inbounds -> [cred : Nat, enabled : BOOLEAN]]]
           /\ GetAllUserClients(id) \in [Inbounds -> Nat]
           /\ GetUserClients(id) \in [Inbounds -> Nat]
           /\ ListUserClientsByInboundTag(i) \in [Users -> Nat]
<1> USE DEF TypeOK
<1>1. ASSUME NEW c \in Nat, UpsertUserClient(id, i, c)
      PROVE  client' \in [Users -> [Inbounds -> [cred : Nat, enabled : BOOLEAN]]]
  <2>1. ASSUME NEW u \in Users
        PROVE  [client[u] EXCEPT ![i] = [cred |-> c, enabled |-> @.cred = 0 \/ @.enabled]]
                 \in [Inbounds -> [cred : Nat, enabled : BOOLEAN]]
    <3>1. client[u] \in [Inbounds -> [cred : Nat, enabled : BOOLEAN]]
      OBVIOUS
    <3> DEFINE e == client[u][i].cred = 0 \/ client[u][i].enabled
    <3>2. e \in BOOLEAN
      BY Zenon
    <3> HIDE DEF e
    <3>3. [client[u] EXCEPT ![i] = [cred |-> c, enabled |-> e]]
            \in [Inbounds -> [cred : Nat, enabled : BOOLEAN]]
      BY <3>1, <3>2
    <3> QED BY <3>3, Zenon DEF e
  <2>2. \A u \in Users : client[u] \in [Inbounds -> [cred : Nat, enabled : BOOLEAN]]
    OBVIOUS
  <2> QED BY <1>1, <2>1, <2>2, Zenon DEF UpsertUserClient
<1>2. ASSUME NEW b \in BOOLEAN, SetUserClientEnabled(id, i, b)
      PROVE  client' \in [Users -> [Inbounds -> [cred : Nat, enabled : BOOLEAN]]]
  BY <1>2 DEF SetUserClientEnabled
<1>3. GetAllUserClients(id) \in [Inbounds -> Nat]
  <2> DEFINE v == CHOOSE u \in Users : Has(u, id)
  <2>1. (\E u \in Users : Has(u, id)) => v \in Users
    BY Zenon
  <2> HIDE DEF v
  <2>2. \A j \in Inbounds : (IF \E u \in Users : Has(u, id) THEN client[v][j].cred ELSE 0) \in Nat
    BY <2>1
  <2> QED BY <2>2, Zenon DEF GetAllUserClients, v
<1>4. GetUserClients(id) \in [Inbounds -> Nat]
  BY <1>3 DEF GetUserClients
<1>5. ListUserClientsByInboundTag(i) \in [Users -> Nat]
  BY DEF ListUserClientsByInboundTag
<1> QED BY <1>1, <1>2, <1>3, <1>4, <1>5

(* RPCs and file writes keep the types of the runtime and of config.d.     *)
LEMMA EffectTypes ==
    ASSUME TypeOK, NEW i \in Inbounds, NEW u \in Users
    PROVE  /\ \A c \in Nat : Added(i, u, c) \in [Inbounds -> [Users -> Nat]]
           /\ \A c \in Nat : AddUserRPC(i, u, c) => run' \in [Inbounds -> [Users -> Nat]]
           /\ RemoveUserRPC(i, u) => run' \in [Inbounds -> [Users -> Nat]]
           /\ \A buf \in Entries, c \in Nat : WithEntry(i, u, buf, c) \in [Inbounds -> Entries]
           /\ \A buf \in Entries : WithoutEntry(i, u, buf) \in [Inbounds -> Entries]
<1> USE DEF TypeOK
<1>1. \A c \in Nat : Added(i, u, c) \in [Inbounds -> [Users -> Nat]]
  <2>1. run \in [Inbounds -> [Users -> Nat]]
    OBVIOUS
  <2>2. \A c \in Nat : [run EXCEPT ![i][u] = c] \in [Inbounds -> [Users -> Nat]]
    BY <2>1
  <2> QED BY <2>1, <2>2, Zenon DEF Added
<1>2. \A c \in Nat : AddUserRPC(i, u, c) => run' \in [Inbounds -> [Users -> Nat]]
  BY <1>1, ZenonT(60) DEF AddUserRPC
<1>3. RemoveUserRPC(i, u) => run' \in [Inbounds -> [Users -> Nat]]
  <2>1. run \in [Inbounds -> [Users -> Nat]]
    OBVIOUS
  <2>2. [run EXCEPT ![i][u] = 0] \in [Inbounds -> [Users -> Nat]]
    BY <2>1
  <2> QED BY <2>1, <2>2, Zenon DEF RemoveUserRPC
<1>4. \A buf \in Entries, c \in Nat : WithEntry(i, u, buf, c) \in [Inbounds -> Entries]
  BY DEF WithEntry, Entries
<1>5. \A buf \in Entries : WithoutEntry(i, u, buf) \in [Inbounds -> Entries]
  BY DEF WithoutEntry, Entries
<1> QED BY <1>1, <1>2, <1>3, <1>4, <1>5

(* Every step of an admin handler keeps the types.                         *)
LEMMA HandlerTypeOK ==
    ASSUME TypeOK, NEW p \in Handlers, Handler(p)
    PROVE  TypeOK'
<1>h. h \in [Handlers -> HandlerState] /\ h[p] \in HandlerState
  BY DEF TypeOK
<1>f. /\ h[p].pc \in HandlerPC /\ h[p].op \in AllOps /\ h[p].u \in Users /\ h[p].id \in Nat
      /\ h[p].todo \in SUBSET Inbounds /\ h[p].i \in Inbounds /\ h[p].asked \in SUBSET Inbounds
      /\ h[p].creds \in [Inbounds -> Nat] /\ h[p].buf \in Entries
  BY <1>h DEF HandlerState
<1>v. /\ user[h[p].u].id \in Nat /\ lastId \in Nat /\ owner \in Seq(Users) /\ Len(owner) \in Nat
      /\ file \in [Inbounds -> Entries] /\ run \in [Inbounds -> [Users -> Nat]]
      /\ pending \in Nat /\ reqs \in Nat
  BY <1>f DEF TypeOK
<1>n. lastId + 1 \in Nat /\ Len(owner) + 1 \in Nat
  BY <1>v
<1>1. ASSUME NEW o \in AllOps, NEW u \in Users, NEW is \in SUBSET Inbounds, Request(p, o, u, is) PROVE TypeOK'
  <2>0. (IF is = {} THEN SomeInbound ELSE CHOOSE i \in is : TRUE) \in Inbounds
    BY SomeAssumption, Zenon DEF SomeInbound
  <2>1. [IdleHandler EXCEPT
               !.pc = IF o = "createUser" THEN "check" ELSE "lookup",
               !.op = o, !.u = u, !.asked = is, !.todo = is,
               !.i = IF is = {} THEN SomeInbound ELSE CHOOSE i \in is : TRUE]
          \in HandlerState
    BY <1>h, <1>f, <1>v, <2>0, IdleTypes, ZenonT(60) DEF HandlerState, HandlerPC
  <2>h. h' \in [Handlers -> HandlerState]
    BY <1>1, <1>h, <2>1, GotoType, IdleTypes DEF Request
  <2>o. reqs' \in Nat
    BY <1>1, <1>v DEF Request
  <2> QED BY <1>1, <2>h, <2>o DEF TypeOK, Request
<1>2. ASSUME CheckDuplicate(p) PROVE TypeOK'
  <2>1. [h[p] EXCEPT !.pc = "insert"]
          \in HandlerState
    BY <1>h, <1>f, <1>v DEF HandlerState, HandlerPC
  <2>h. h' \in [Handlers -> HandlerState]
    BY <1>2, <1>h, <2>1, GotoType, IdleTypes DEF CheckDuplicate, Finish
  <2> QED BY <1>2, <2>h DEF TypeOK, CheckDuplicate
<1>3. ASSUME InsertUser(p) PROVE TypeOK'
  <2>1. [h[p] EXCEPT !.pc = "add", !.id = lastId + 1]
          \in HandlerState
    BY <1>h, <1>f, <1>n DEF HandlerState, HandlerPC
  <2>h. h' \in [Handlers -> HandlerState]
    BY <1>3, <1>h, <2>1, GotoType, IdleTypes DEF InsertUser, Finish
  <2>o. /\ user' \in [Users -> [id : Nat, enabled : BOOLEAN]]
        /\ lastId' \in Nat
        /\ client' \in [Users -> [Inbounds -> [cred : Nat, enabled : BOOLEAN]]]
    BY <1>3, <1>f, UserStatements DEF TypeOK, InsertUser, db
  <2> QED BY <1>3, <2>h, <2>o DEF TypeOK, InsertUser
<1>4. ASSUME GetByID(p) PROVE TypeOK'
  <2>1. [h[p] EXCEPT !.id = user[h[p].u].id,
                     !.pc = IF h[p].op \in {"enableUser", "disableUser"}
                            THEN "update" ELSE "clients"]
          \in HandlerState
    BY <1>h, <1>f, <1>v, ZenonT(60) DEF HandlerState, HandlerPC
  <2>h. h' \in [Handlers -> HandlerState]
    BY <1>4, <1>h, <2>1, GotoType, IdleTypes DEF GetByID, Finish
  <2> QED BY <1>4, <2>h DEF TypeOK, GetByID
<1>5. ASSUME UpdateUser(p) PROVE TypeOK'
  <2>1. [h[p] EXCEPT !.pc = "clients"]
          \in HandlerState
    BY <1>h, <1>f, <1>v DEF HandlerState, HandlerPC
  <2>h. h' \in [Handlers -> HandlerState]
    BY <1>5, <1>h, <2>1, GotoType, IdleTypes DEF UpdateUser
  <2>o. user' \in [Users -> [id : Nat, enabled : BOOLEAN]]
    BY <1>5, <1>f, UserStatements, (h[p].op = "enableUser") \in BOOLEAN DEF UpdateUser
  <2> QED BY <1>5, <2>h, <2>o DEF TypeOK, UpdateUser
<1>6. ASSUME ReadAccount(p) PROVE TypeOK'
  <2>0. GetUserClients(h[p].id) \in [Inbounds -> Nat]
    BY <1>f, ClientStatements, Zenon
  <2>1. [h[p] EXCEPT !.todo = {i \in Inbounds : GetUserClients(h[p].id)[i] # 0},
                     !.asked = {i \in Inbounds : GetUserClients(h[p].id)[i] # 0},
                     !.creds = GetUserClients(h[p].id),
                     !.pc = IF h[p].op = "enableUser" THEN "push" ELSE "remove"]
          \in HandlerState
    BY <1>h, <1>f, <1>v, <2>0, ZenonT(60) DEF HandlerState, HandlerPC
  <2>h. h' \in [Handlers -> HandlerState]
    BY <1>6, <1>h, <2>1, GotoType, IdleTypes DEF ReadAccount, Finish
  <2> QED BY <1>6, <2>h DEF TypeOK, ReadAccount
<1>7. ASSUME ReadClient(p) PROVE TypeOK'
  <2>0. GetAllUserClients(h[p].id) \in [Inbounds -> Nat]
    BY <1>f, ClientStatements
  <2>1. [h[p] EXCEPT !.creds = GetAllUserClients(h[p].id), !.pc = "flag"]
          \in HandlerState
    BY <1>h, <1>f, <1>v, <2>0 DEF HandlerState, HandlerPC
  <2>2. [h[p] EXCEPT !.pc = "add"]
          \in HandlerState
    BY <1>h, <1>f, <1>v, <2>0 DEF HandlerState, HandlerPC
  <2>h. h' \in [Handlers -> HandlerState]
    BY <1>7, <1>h, <2>1, <2>2, GotoType, IdleTypes DEF ReadClient, Finish
  <2> QED BY <1>7, <2>h DEF TypeOK, ReadClient
<1>8. ASSUME FlagClient(p) PROVE TypeOK'
  <2>1. [h[p] EXCEPT !.pc = IF h[p].op = "disableClient" THEN "remove" ELSE "push"]
          \in HandlerState
    BY <1>h, <1>f, <1>v, ZenonT(60) DEF HandlerState, HandlerPC
  <2>h. h' \in [Handlers -> HandlerState]
    BY <1>8, <1>h, <2>1, GotoType, IdleTypes DEF FlagClient
  <2>o. client' \in [Users -> [Inbounds -> [cred : Nat, enabled : BOOLEAN]]]
    BY <1>8, <1>f, ClientStatements, (h[p].op # "disableClient") \in BOOLEAN DEF FlagClient
  <2> QED BY <1>8, <2>h, <2>o DEF TypeOK, FlagClient
<1>9. ASSUME UpsertClient(p) PROVE TypeOK'
  <2>1. [h[p] EXCEPT !.todo = @ \ {h[p].i}, !.pc = "add"]
          \in HandlerState
    BY <1>h, <1>f, <1>v DEF HandlerState, HandlerPC
  <2>h. h' \in [Handlers -> HandlerState]
    BY <1>9, <1>h, <2>1, GotoType, IdleTypes DEF UpsertClient
  <2>o. client' \in [Users -> [Inbounds -> [cred : Nat, enabled : BOOLEAN]]]
    BY <1>9, <1>f, ClientStatements DEF UpsertClient
  <2> QED BY <1>9, <2>h, <2>o DEF TypeOK, UpsertClient
<1>10. ASSUME AddDone(p) PROVE TypeOK'
  <2>h. h' \in [Handlers -> HandlerState]
    BY <1>10, <1>h, GotoType, IdleTypes DEF AddDone, Finish
  <2>o. pending' \in Nat
    BY <1>10, <1>v DEF AddDone, SpawnSync
  <2> QED BY <1>10, <2>h, <2>o DEF TypeOK, AddDone
<1>11. ASSUME PushDone(p) PROVE TypeOK'
  <2>h. h' \in [Handlers -> HandlerState]
    BY <1>11, <1>h, GotoType, IdleTypes DEF PushDone, Finish
  <2>o. pending' \in Nat
    BY <1>11, <1>v DEF PushDone, SpawnSync
  <2> QED BY <1>11, <2>h, <2>o DEF TypeOK, PushDone
<1>12. ASSUME AppendToFile(p) PROVE TypeOK'
  <2>1. [h[p] EXCEPT !.pc = "upsert", !.buf = NoEntries]
          \in HandlerState
    BY <1>h, <1>f, <1>v, IdleTypes DEF HandlerState, HandlerPC
  <2>2. [h[p] EXCEPT !.pc = "push", !.todo = @ \ {h[p].i}, !.buf = NoEntries]
          \in HandlerState
    BY <1>h, <1>f, <1>v, IdleTypes DEF HandlerState, HandlerPC
  <2>h. h' \in [Handlers -> HandlerState]
    BY <1>12, <1>h, <2>1, <2>2, GotoType, IdleTypes DEF AppendToFile
  <2>o. file' \in [Inbounds -> Entries]
    BY <1>12, <1>f, EffectTypes DEF AppendToFile
  <2> QED BY <1>12, <2>h, <2>o DEF TypeOK, AppendToFile
<1>13. ASSUME AppendFailed(p) PROVE TypeOK'
  <2>1. [h[p] EXCEPT !.pc = IF h[p].pc = "append" THEN "add" ELSE "push",
                     !.todo = @ \ {h[p].i}, !.buf = NoEntries]
          \in HandlerState
    BY <1>h, <1>f, <1>v, IdleTypes, ZenonT(60) DEF HandlerState, HandlerPC
  <2>h. h' \in [Handlers -> HandlerState]
    BY <1>13, <1>h, <2>1, GotoType, IdleTypes DEF AppendFailed
  <2> QED BY <1>13, <2>h DEF TypeOK, AppendFailed
<1>14. ASSUME EraseFromFile(p) PROVE TypeOK'
  <2>1. [h[p] EXCEPT !.todo = @ \ {h[p].i}, !.buf = NoEntries, !.pc = "remove"]
          \in HandlerState
    BY <1>h, <1>f, <1>v, IdleTypes DEF HandlerState, HandlerPC
  <2>h. h' \in [Handlers -> HandlerState]
    BY <1>14, <1>h, <2>1, GotoType, IdleTypes DEF EraseFromFile
  <2>2. WithoutEntry(h[p].i, h[p].u, h[p].buf) \in [Inbounds -> Entries]
    BY <1>f, EffectTypes
  <2>o. file' \in [Inbounds -> Entries]
    BY <1>14, <1>v, <2>2, Zenon DEF EraseFromFile
  <2> QED BY <1>14, <2>h, <2>o DEF TypeOK, EraseFromFile
<1>15. ASSUME RemoveDone(p) PROVE TypeOK'
  <2>1. [h[p] EXCEPT !.pc = "delete"]
          \in HandlerState
    BY <1>h, <1>f, <1>v DEF HandlerState, HandlerPC
  <2>h. h' \in [Handlers -> HandlerState]
    BY <1>15, <1>h, <2>1, GotoType, IdleTypes DEF RemoveDone, Finish
  <2>o. pending' \in Nat
    BY <1>15, <1>v DEF RemoveDone, SpawnSync
  <2> QED BY <1>15, <2>h, <2>o DEF TypeOK, RemoveDone
<1>16. ASSUME DeleteAccount(p) PROVE TypeOK'
  <2>h. h' \in [Handlers -> HandlerState]
    BY <1>16, <1>h, GotoType, IdleTypes DEF DeleteAccount, Finish
  <2>o. /\ user' \in [Users -> [id : Nat, enabled : BOOLEAN]]
        /\ client' \in [Users -> [Inbounds -> [cred : Nat, enabled : BOOLEAN]]]
    BY <1>16, <1>f, UserStatements DEF DeleteAccount
  <2> QED BY <1>16, <2>h, <2>o DEF TypeOK, DeleteAccount
<1>17. ASSUME NEW i \in Inbounds, AddClientRPC(p, i) PROVE TypeOK'
  <2> DEFINE c == Len(owner) + 1
  <2>0. c \in Nat /\ owner \in Seq(Users) /\ Append(owner, h[p].u) \in Seq(Users)
    BY <1>n, <1>v, <1>f
  <2>9. Added(i, h[p].u, c) \in [Inbounds -> [Users -> Nat]]
    BY <1>f, <2>0, EffectTypes
  <2> HIDE DEF c
  <2>1. [h[p] EXCEPT !.pc = "upsert", !.i = i, !.creds[i] = c] \in HandlerState
    BY <1>h, <1>f, <2>0 DEF HandlerState, HandlerPC
  <2>2. [h[p] EXCEPT !.todo = @ \ {i}]
          \in HandlerState
    BY <1>h, <1>f, <1>v DEF HandlerState, HandlerPC
  <2>h. h' \in [Handlers -> HandlerState]
    BY <1>17, <1>h, <2>1, <2>2, GotoType DEF AddClientRPC, c
  <2>o. run' \in [Inbounds -> [Users -> Nat]] /\ owner' \in Seq(Users)
    BY <1>17, <1>v, <2>0, <2>9 DEF AddClientRPC, c
  <2> QED BY <1>17, <2>h, <2>o DEF TypeOK, AddClientRPC
<1>18. ASSUME NEW i \in Inbounds, PushRPC(p, i) PROVE TypeOK'
  <2>1. [h[p] EXCEPT !.todo = @ \ {i}]
          \in HandlerState
    BY <1>h, <1>f, <1>v DEF HandlerState, HandlerPC
  <2>h. h' \in [Handlers -> HandlerState]
    BY <1>18, <1>h, <2>1, GotoType, IdleTypes DEF PushRPC
  <2>o. run' \in [Inbounds -> [Users -> Nat]]
    BY <1>18, <1>f, EffectTypes DEF PushRPC
  <2> QED BY <1>18, <2>h, <2>o DEF TypeOK, PushRPC
<1>19. ASSUME NEW i \in Inbounds, ReadToAppend(p, i) PROVE TypeOK'
  <2> DEFINE c == IF h[p].pc = "add" THEN Len(owner) + 1 ELSE h[p].creds[i]
             x == IF h[p].pc = "add" THEN "append" ELSE "reappend"
  <2>0. c \in Nat /\ x \in HandlerPC /\ file[i] \in Entries
    BY <1>n, <1>f, <1>v DEF HandlerPC
  <2> HIDE DEF c, x
  <2>1. [h[p] EXCEPT !.i = i, !.buf = file[i], !.creds[i] = c, !.pc = x] \in HandlerState
    BY <1>h, <1>f, <2>0 DEF HandlerState
  <2>h. h' \in [Handlers -> HandlerState]
    BY <1>19, <1>h, <2>1, GotoType, IdleTypes DEF ReadToAppend, c, x
  <2>o. owner' \in Seq(Users)
    BY <1>19, <1>f, <1>v DEF ReadToAppend
  <2> QED BY <1>19, <2>h, <2>o DEF TypeOK, ReadToAppend
<1>20. ASSUME NEW i \in Inbounds, RemoveRPC(p, i) PROVE TypeOK'
  <2>1. [h[p] EXCEPT !.pc = "scan", !.i = i]
          \in HandlerState
    BY <1>h, <1>f, <1>v DEF HandlerState, HandlerPC
  <2>h. h' \in [Handlers -> HandlerState]
    BY <1>20, <1>h, <2>1, GotoType, IdleTypes DEF RemoveRPC
  <2>o. run' \in [Inbounds -> [Users -> Nat]]
    BY <1>20, <1>f, EffectTypes DEF RemoveRPC
  <2> QED BY <1>20, <2>h, <2>o DEF TypeOK, RemoveRPC
<1>21. ASSUME NEW i \in Inbounds, ReadToRemove(p, i) PROVE TypeOK'
  <2>1. [h[p] EXCEPT !.todo = @ \ {i}, !.pc = "remove"]
          \in HandlerState
    BY <1>h, <1>f, <1>v DEF HandlerState, HandlerPC
  <2>2. [h[p] EXCEPT !.i = i, !.buf = file[i], !.pc = "erase"]
          \in HandlerState
    BY <1>h, <1>f, <1>v, ZenonT(60) DEF HandlerState, HandlerPC
  <2>h. h' \in [Handlers -> HandlerState]
    BY <1>21, <1>h, <2>1, <2>2, GotoType, IdleTypes DEF ReadToRemove
  <2> QED BY <1>21, <2>h DEF TypeOK, ReadToRemove
<1> QED
  <2>1. ASSUME NEW o \in Ops, NEW u \in Users,
               \/ \E is \in SUBSET Inbounds : Request(p, o, u, is)
               \/ Request(p, o, u, {})
               \/ \E i \in Inbounds : Request(p, o, u, {i})
        PROVE  TypeOK'
    <3>1. o \in AllOps /\ {} \in SUBSET Inbounds /\ \A i \in Inbounds : {i} \in SUBSET Inbounds
      BY OpsAssumption
    <3> QED BY <1>1, <2>1, <3>1, Zenon
  <2> QED BY <2>1, <1>2, <1>3, <1>4, <1>5, <1>6, <1>7, <1>8, <1>9, <1>10, <1>11, <1>12, <1>13, <1>14, <1>15, <1>16, <1>17, <1>18, <1>19, <1>20, <1>21 DEF Handler

(* The first of a sequence of credentials, and the rest.                   *)
LEMMA HeadTailType ==
    ASSUME NEW q \in Seq(Nat), q # <<>>
    PROVE  Head(q) \in Nat /\ Tail(q) \in Seq(Nat)
OBVIOUS

(* Every step of a Sync or of RestoreOnStartup keeps the types.            *)
LEMMA SyncTypeOK ==
    ASSUME TypeOK, EntryInv, NEW s \in Syncs, SyncStart(s) \/ SyncStep(s)
    PROVE  TypeOK'
<1>h. y \in [Syncs -> SyncState] /\ y[s] \in SyncState
  BY DEF TypeOK
<1>f. /\ y[s].pc \in SyncPC /\ y[s].u \in Users /\ y[s].i \in Inbounds /\ y[s].id \in Nat
      /\ y[s].todo \in SUBSET Inbounds /\ y[s].want \in [Users -> Nat] /\ y[s].buf \in Entries
      /\ y[s].snap \in [Inbounds -> Entries] /\ y[s].boot \in BOOLEAN
  BY <1>h DEF SyncState
<1>v. /\ lastId \in Nat /\ file \in [Inbounds -> Entries] /\ pending \in Nat
      /\ \A u \in Users : user[u].id \in Nat
      /\ \A i \in Inbounds : file[i] \in Entries
  BY DEF TypeOK
<1>n. lastId + 1 \in Nat /\ (pending > 0 => pending - 1 \in Nat)
  BY <1>v
<1>r. ASSUME SyncReturn(s) PROVE y' \in [Syncs -> SyncState] /\ booted' \in BOOLEAN
  <2> DEFINE r == [IdleSync EXCEPT !.pc = "restore", !.todo = Inbounds, !.boot = TRUE]
  <2>1. r \in SyncState
    BY IdleTypes DEF SyncState, SyncPC
  <2> HIDE DEF r
  <2>2. y' \in [Syncs -> SyncState]
    BY <1>h, <1>r, <2>1, IdleTypes, GotoSyncType DEF SyncReturn, r
  <2>3. booted' \in BOOLEAN
    BY <1>r, Zenon DEF SyncReturn
  <2> QED BY <2>2, <2>3
<1>t. ASSUME y[s].pc \in {"insert", "link"}
      PROVE  /\ Head(y[s].snap[y[s].i][y[s].u]) \in Nat
             /\ NextEntry(y[s]) \in SyncState
  <2>1. /\ y[s].snap[y[s].i][y[s].u] \in Seq(Nat)
        /\ y[s].snap[y[s].i][y[s].u] # <<>>
    BY <1>f, <1>t DEF Entries, EntryInv
  <2> DEFINE e == Tail(y[s].snap[y[s].i][y[s].u])
  <2>2. e \in Seq(Nat) /\ Head(y[s].snap[y[s].i][y[s].u]) \in Nat
    BY <2>1, HeadTailType
  <2> HIDE DEF e
  <2>3. [y[s].snap EXCEPT ![y[s].i][y[s].u] = e] \in [Inbounds -> Entries]
    BY <1>f, <2>2 DEF Entries
  <2>4. [y[s] EXCEPT !.snap[y[s].i][y[s].u] = e, !.id = 0, !.pc = "entries"] \in SyncState
    BY <1>h, <1>f, <2>3 DEF SyncState, SyncPC
  <2> QED BY <2>2, <2>4 DEF NextEntry, e
<1>1. ASSUME SyncStart(s) PROVE TypeOK'
  <2>1. [y[s] EXCEPT !.pc = "entries", !.snap = file] \in SyncState
    BY <1>h, <1>f, <1>v DEF SyncState, SyncPC
  <2>h. y' \in [Syncs -> SyncState]
    BY <1>1, <1>h, <2>1, GotoSyncType DEF SyncStart
  <2>o. pending' \in Nat
    BY <1>1, <1>v, <1>n DEF SyncStart
  <2> QED BY <1>1, <2>h, <2>o DEF TypeOK, SyncStart
<1>2. ASSUME NEW i \in Inbounds, NEW u \in Users, SyncLookup(s, i, u) PROVE TypeOK'
  <2>1. [y[s] EXCEPT !.i = i, !.u = u, !.id = user[u].id,
                     !.pc = IF user[u].id = 0 THEN "insert" ELSE "link"]
          \in SyncState
    BY <1>h, <1>f, <1>v, ZenonT(60) DEF SyncState, SyncPC
  <2>h. y' \in [Syncs -> SyncState]
    BY <1>2, <1>h, <2>1, GotoSyncType DEF SyncLookup
  <2> QED BY <1>2, <2>h DEF TypeOK, SyncLookup
<1>3. ASSUME SyncCreateUser(s) PROVE TypeOK'
  <2>1. [y[s] EXCEPT !.id = lastId + 1, !.pc = "link"] \in SyncState
    BY <1>h, <1>f, <1>n DEF SyncState, SyncPC
  <2>h. y' \in [Syncs -> SyncState]
    BY <1>3, <1>h, <2>1, <1>t, GotoSyncType DEF SyncCreateUser
  <2>o. /\ user' \in [Users -> [id : Nat, enabled : BOOLEAN]]
        /\ lastId' \in Nat
        /\ client' \in [Users -> [Inbounds -> [cred : Nat, enabled : BOOLEAN]]]
    BY <1>3, <1>f, UserStatements DEF TypeOK, SyncCreateUser, db
  <2> QED BY <1>3, <2>h, <2>o DEF TypeOK, SyncCreateUser
<1>4. ASSUME SyncLink(s) PROVE TypeOK'
  <2>h. y' \in [Syncs -> SyncState]
    BY <1>4, <1>h, <1>t, GotoSyncType, Zenon DEF SyncLink
  <2>o. client' \in [Users -> [Inbounds -> [cred : Nat, enabled : BOOLEAN]]]
    BY <1>4, <1>f, <1>t, ClientStatements, Zenon DEF SyncLink
  <2> QED BY <1>4, <2>h, <2>o DEF TypeOK, SyncLink
<1>5. ASSUME SyncEntriesDone(s) PROVE TypeOK'
  <2>1. [y[s] EXCEPT !.pc = "list", !.todo = Inbounds] \in SyncState
    BY <1>h, <1>f DEF SyncState, SyncPC
  <2>h. y' \in [Syncs -> SyncState]
    BY <1>5, <1>h, <2>1, <1>r, GotoSyncType DEF SyncEntriesDone
  <2>o. booted' \in BOOLEAN
    BY <1>5, <1>r DEF SyncEntriesDone, TypeOK
  <2> QED BY <1>5, <2>h, <2>o DEF TypeOK, SyncEntriesDone
<1>6. ASSUME NEW i \in Inbounds, SyncList(s, i) PROVE TypeOK'
  <2>0. ListUserClientsByInboundTag(i) \in [Users -> Nat]
    BY <1>f, ClientStatements
  <2>1. [y[s] EXCEPT !.i = i, !.todo = @ \ {i},
                     !.want = ListUserClientsByInboundTag(i), !.pc = "idents"] \in SyncState
    BY <1>h, <1>f, <2>0 DEF SyncState, SyncPC
  <2>h. y' \in [Syncs -> SyncState]
    BY <1>6, <1>h, <2>1, GotoSyncType DEF SyncList
  <2> QED BY <1>6, <2>h DEF TypeOK, SyncList
<1>7. ASSUME SyncIdents(s) PROVE TypeOK'
  <2> DEFINE w == [u \in Users |-> IF file[y[s].i][u] = <<>> THEN y[s].want[u] ELSE 0]
  <2>0. w \in [Users -> Nat]
    BY <1>f
  <2> HIDE DEF w
  <2>1. [y[s] EXCEPT !.want = w, !.pc = "flush"] \in SyncState
    BY <1>h, <1>f, <2>0 DEF SyncState, SyncPC
  <2>h. y' \in [Syncs -> SyncState]
    BY <1>7, <1>h, <2>1, GotoSyncType DEF SyncIdents, w
  <2> QED BY <1>7, <2>h DEF TypeOK, SyncIdents
<1>8. ASSUME NEW u \in Users, SyncRead(s, u) PROVE TypeOK'
  <2>1. [y[s] EXCEPT !.u = u, !.buf = file[y[s].i], !.pc = "write"] \in SyncState
    BY <1>h, <1>f, <1>v DEF SyncState, SyncPC
  <2>h. y' \in [Syncs -> SyncState]
    BY <1>8, <1>h, <2>1, GotoSyncType DEF SyncRead
  <2> QED BY <1>8, <2>h DEF TypeOK, SyncRead
<1>9. ASSUME SyncWrite(s) PROVE TypeOK'
  <2>0. WithEntry(y[s].i, y[s].u, y[s].buf, y[s].want[y[s].u]) \in [Inbounds -> Entries]
    BY <1>f, EffectTypes
  <2>1. [y[s] EXCEPT !.want[y[s].u] = 0, !.buf = NoEntries, !.pc = "flush"] \in SyncState
    BY <1>h, <1>f, IdleTypes DEF SyncState, SyncPC
  <2>h. y' \in [Syncs -> SyncState]
    BY <1>9, <1>h, <2>1, GotoSyncType DEF SyncWrite
  <2>o. file' \in [Inbounds -> Entries]
    BY <1>9, <1>v, <2>0, Zenon DEF SyncWrite
  <2> QED BY <1>9, <2>h, <2>o DEF TypeOK, SyncWrite
<1>10. ASSUME SyncFlushed(s) PROVE TypeOK'
  <2>1. [y[s] EXCEPT !.pc = "list"] \in SyncState
    BY <1>h, <1>f DEF SyncState, SyncPC
  <2>h. y' \in [Syncs -> SyncState]
    BY <1>10, <1>h, <2>1, GotoSyncType DEF SyncFlushed
  <2> QED BY <1>10, <2>h DEF TypeOK, SyncFlushed
<1>11. ASSUME SyncListDone(s) PROVE TypeOK'
  <2>h. y' \in [Syncs -> SyncState]
    BY <1>11, <1>h, <1>r, GotoSyncType DEF SyncListDone
  <2>o. booted' \in BOOLEAN
    BY <1>11, <1>r DEF SyncListDone
  <2> QED BY <1>11, <2>h, <2>o DEF TypeOK, SyncListDone
<1>12. ASSUME NEW i \in Inbounds, RestoreList(s, i) PROVE TypeOK'
  <2>0. ListUserClientsByInboundTag(i) \in [Users -> Nat]
    BY <1>f, ClientStatements
  <2>1. [y[s] EXCEPT !.i = i, !.todo = @ \ {i},
                     !.want = ListUserClientsByInboundTag(i), !.pc = "restoring"] \in SyncState
    BY <1>h, <1>f, <2>0 DEF SyncState, SyncPC
  <2>h. y' \in [Syncs -> SyncState]
    BY <1>12, <1>h, <2>1, GotoSyncType DEF RestoreList
  <2> QED BY <1>12, <2>h DEF TypeOK, RestoreList
<1>13. ASSUME NEW u \in Users, RestoreUser(s, u) PROVE TypeOK'
  <2>1. [y[s] EXCEPT !.want[u] = 0] \in SyncState
    BY <1>h, <1>f DEF SyncState, SyncPC
  <2>h. y' \in [Syncs -> SyncState]
    BY <1>13, <1>h, <2>1, GotoSyncType DEF RestoreUser
  <2>o. run' \in [Inbounds -> [Users -> Nat]]
    BY <1>13, <1>f, EffectTypes DEF RestoreUser
  <2> QED BY <1>13, <2>h, <2>o DEF TypeOK, RestoreUser
<1>14. ASSUME RestoreNext(s) PROVE TypeOK'
  <2>1. [y[s] EXCEPT !.pc = "restore"] \in SyncState
    BY <1>h, <1>f DEF SyncState, SyncPC
  <2>h. y' \in [Syncs -> SyncState]
    BY <1>14, <1>h, <2>1, GotoSyncType DEF RestoreNext
  <2> QED BY <1>14, <2>h DEF TypeOK, RestoreNext
<1>15. ASSUME RestoreDone(s) PROVE TypeOK'
  <2>h. y' \in [Syncs -> SyncState]
    BY <1>15, <1>h, IdleTypes, GotoSyncType DEF RestoreDone
  <2>o. booted' \in BOOLEAN
    BY <1>15, Zenon DEF RestoreDone
  <2> QED BY <1>15, <2>h, <2>o DEF TypeOK, RestoreDone
<1> QED BY <1>1, <1>2, <1>3, <1>4, <1>5, <1>6, <1>7, <1>8, <1>9, <1>10, <1>11, <1>12, <1>13, <1>14, <1>15 DEF SyncStep

(* Restarts, crashes and edits keep the types.                             *)
LEMMA EnvironmentTypeOK ==
    ASSUME TypeOK,
           \/ XrayRestart
           \/ \E s \in Syncs : Crash(s)
           \/ \E i \in Inbounds, u \in Edited : EditConfig(i, u)
    PROVE  TypeOK'
<1>e. ASSUME Happens PROVE events' \in Nat
  BY <1>e DEF Happens, TypeOK
<1>1. CASE XrayRestart
  <2>1. run' \in [Inbounds -> [Users -> Nat]]
    <3>1. \A i \in Inbounds, u \in Users :
            (IF file[i][u] = <<>> THEN 0 ELSE Head(file[i][u])) \in Nat
      BY DEF TypeOK, Entries
    <3> QED BY <1>1, <3>1, Zenon DEF XrayRestart
  <2> QED BY <1>1, <1>e, <2>1 DEF XrayRestart, TypeOK
<1>2. ASSUME NEW s \in Syncs, Crash(s) PROVE TypeOK'
  <2> DEFINE r == [IdleSync EXCEPT !.pc = "entries", !.snap = file, !.boot = TRUE]
  <2>1. r \in SyncState
    BY IdleTypes DEF SyncState, SyncPC, TypeOK
  <2> HIDE DEF r
  <2>2. h' \in [Handlers -> HandlerState] /\ y' \in [Syncs -> SyncState]
    BY <1>2, <2>1, IdleTypes DEF Crash, r
  <2>3. booted' \in BOOLEAN
    BY <1>2, Zenon DEF Crash
  <2>4. pending' \in Nat /\ events' \in Nat
    BY <1>2, <1>e DEF Crash
  <2> QED BY <1>2, <2>2, <2>3, <2>4 DEF Crash, TypeOK
<1>3. ASSUME NEW i \in Inbounds, NEW u \in Edited, EditConfig(i, u) PROVE TypeOK'
  <2>1. u \in Users /\ Len(owner) + 1 \in Nat /\ owner' \in Seq(Users)
    BY <1>3, EditedAssumption DEF TypeOK, EditConfig
  <2>2. file' \in [Inbounds -> Entries]
    BY <1>3, <2>1 DEF TypeOK, EditConfig, Entries
  <2> QED BY <1>3, <1>e, <2>1, <2>2 DEF EditConfig, TypeOK
<1> QED BY <1>1, <1>2, <1>3

(* A handler's step other than the INSERT leaves the other handlers alone, *)
(* and its own request either ends, keeps its row id, or takes the id its  *)
(* lookup found.                                                           *)
Held(p) == h'[p].id = 0 \/ (h'[p].u = h[p].u /\ h'[p].id \in {h[p].id, user[h[p].u].id})
Past(p) == h'[p].pc \notin {"idle", "check", "insert", "lookup"} => h'[p].id # 0

(* A step of a handler's code keeps the row id it holds, drops it, or      *)
(* takes the current one of its own account.                               *)
LEMMA HandlerHolds ==
    ASSUME TypeOK, HeldIdsGiven, NEW p \in Handlers, Handler(p), ~InsertUser(p)
    PROVE  /\ \A q \in Handlers \ {p} : h'[q] = h[q]
           /\ Held(p) /\ Past(p)
           /\ UNCHANGED <<y, lastId>>
<1>h. /\ h \in [Handlers -> HandlerState] /\ h[p] \in HandlerState
      /\ h[p].pc \notin {"idle", "check", "insert", "lookup"} => h[p].id # 0
      /\ IdleHandler.id = 0 /\ IdleHandler.pc = "idle"
  BY DEF TypeOK, HeldIdsGiven, IdleHandler
<1> DEFINE Goal == /\ \A q \in Handlers \ {p} : h'[q] = h[q]
                   /\ Held(p) /\ Past(p)
                   /\ UNCHANGED <<y, lastId>>
<1> USE <1>h DEF Held, Past, Goto, Finish, HandlerState
<1>1. ASSUME NEW o \in Ops, NEW u \in Users, NEW is \in SUBSET Inbounds, Request(p, o, u, is) PROVE Goal
  BY <1>1 DEF Request
<1>2. ASSUME CheckDuplicate(p) PROVE Goal
  BY <1>2 DEF CheckDuplicate
<1>4. ASSUME GetByID(p) PROVE Goal
  <2>1. CASE user[h[p].u].id = 0
    BY <1>4, <2>1 DEF GetByID
  <2>2. CASE user[h[p].u].id # 0
    <3>1. PICK pc \in {"update", "clients"} :
             Goto(p, [h[p] EXCEPT !.id = user[h[p].u].id, !.pc = pc])
      BY <1>4, <2>2, Zenon DEF GetByID
    <3>2. UNCHANGED <<y, lastId>>
      BY <1>4 DEF GetByID
    <3> QED BY <2>2, <3>1, <3>2
  <2> QED BY <2>1, <2>2
<1>5. ASSUME UpdateUser(p) PROVE Goal
  BY <1>5 DEF UpdateUser
<1>6. ASSUME ReadAccount(p) PROVE Goal
  <2> DEFINE rows == GetUserClients(h[p].id)
  <2> DEFINE is == {i \in Inbounds : rows[i] # 0}
  <2>1. \/ Finish(p)
        \/ \E pc \in {"push", "remove"} :
             Goto(p, [h[p] EXCEPT !.todo = is, !.asked = is, !.creds = rows, !.pc = pc])
    BY <1>6, Zenon DEF ReadAccount
  <2>2. UNCHANGED <<y, lastId>> /\ h[p].pc = "clients"
    BY <1>6 DEF ReadAccount
  <2> HIDE DEF rows, is
  <2>3. ASSUME Finish(p) PROVE Goal
    BY <2>2, <2>3
  <2>4. ASSUME NEW pc \in {"push", "remove"},
               Goto(p, [h[p] EXCEPT !.todo = is, !.asked = is, !.creds = rows, !.pc = pc])
        PROVE  Goal
    BY <2>2, <2>4
  <2> HIDE DEF Goal
  <2> QED BY <2>1, <2>3, <2>4
<1>7. ASSUME ReadClient(p) PROVE Goal
  <2> DEFINE rows == GetAllUserClients(h[p].id)
  <2>1. \/ Goto(p, [h[p] EXCEPT !.creds = rows, !.pc = "flag"])
        \/ Goto(p, [h[p] EXCEPT !.pc = "add"])
        \/ Finish(p)
    BY <1>7, Zenon DEF ReadClient
  <2>2. UNCHANGED <<y, lastId>> /\ h[p].pc = "clients"
    BY <1>7, Zenon DEF ReadClient
  <2> HIDE DEF rows
  <2>3. ASSUME Goto(p, [h[p] EXCEPT !.creds = rows, !.pc = "flag"]) PROVE Goal
    BY <2>2, <2>3
  <2>4. ASSUME Goto(p, [h[p] EXCEPT !.pc = "add"]) PROVE Goal
    BY <2>2, <2>4
  <2>5. ASSUME Finish(p) PROVE Goal
    BY <2>2, <2>5
  <2> HIDE DEF Goal
  <2> QED BY <2>1, <2>3, <2>4, <2>5
<1>8. ASSUME FlagClient(p) PROVE Goal
  BY <1>8 DEF FlagClient
<1>9. ASSUME UpsertClient(p) PROVE Goal
  BY <1>9 DEF UpsertClient
<1>10. ASSUME AddDone(p) \/ PushDone(p) PROVE Goal
  BY <1>10 DEF AddDone, PushDone
<1>11. ASSUME AppendToFile(p) PROVE Goal
  <2>1. \/ Goto(p, [h[p] EXCEPT !.pc = "upsert", !.buf = NoEntries])
        \/ Goto(p, [h[p] EXCEPT !.pc = "push", !.todo = @ \ {h[p].i}, !.buf = NoEntries])
    BY <1>11, Zenon DEF AppendToFile
  <2>2. UNCHANGED <<y, lastId>> /\ h[p].id # 0
    BY <1>11 DEF AppendToFile
  <2>3. ASSUME Goto(p, [h[p] EXCEPT !.pc = "upsert", !.buf = NoEntries]) PROVE Goal
    BY <2>2, <2>3
  <2>4. ASSUME Goto(p, [h[p] EXCEPT !.pc = "push", !.todo = @ \ {h[p].i}, !.buf = NoEntries]) PROVE Goal
    BY <2>2, <2>4
  <2> HIDE DEF Goal
  <2> QED BY <2>1, <2>3, <2>4
<1>19. ASSUME AppendFailed(p) PROVE Goal
  BY <1>19 DEF AppendFailed
<1>12. ASSUME EraseFromFile(p) PROVE Goal
  BY <1>12 DEF EraseFromFile
<1>13. ASSUME RemoveDone(p) \/ DeleteAccount(p) PROVE Goal
  BY <1>13 DEF RemoveDone, DeleteAccount
<1>14. ASSUME NEW i \in Inbounds, AddClientRPC(p, i) PROVE Goal
  <2>1. \/ Goto(p, [h[p] EXCEPT !.pc = "upsert", !.i = i, !.creds[i] = Len(owner) + 1])
        \/ Goto(p, [h[p] EXCEPT !.todo = @ \ {i}])
    BY <1>14, Zenon DEF AddClientRPC
  <2>2. UNCHANGED <<y, lastId>> /\ h[p].id # 0
    BY <1>14 DEF AddClientRPC
  <2>3. ASSUME Goto(p, [h[p] EXCEPT !.pc = "upsert", !.i = i, !.creds[i] = Len(owner) + 1]) PROVE Goal
    BY <2>2, <2>3
  <2>4. ASSUME Goto(p, [h[p] EXCEPT !.todo = @ \ {i}]) PROVE Goal
    BY <2>2, <2>4
  <2> HIDE DEF Goal
  <2> QED BY <2>1, <2>3, <2>4
<1>20. ASSUME NEW i \in Inbounds, PushRPC(p, i) PROVE Goal
  BY <1>20 DEF PushRPC
<1>15. ASSUME NEW i \in Inbounds, ReadToAppend(p, i) PROVE Goal
  BY <1>15 DEF ReadToAppend
<1>16. ASSUME NEW i \in Inbounds, RemoveRPC(p, i) PROVE Goal
  BY <1>16 DEF RemoveRPC
<1>21. ASSUME NEW i \in Inbounds, ReadToRemove(p, i) PROVE Goal
  <2>1. \/ Goto(p, [h[p] EXCEPT !.todo = @ \ {i}, !.pc = "remove"])
        \/ Goto(p, [h[p] EXCEPT !.i = i, !.buf = file[i], !.pc = "erase"])
    BY <1>21, Zenon DEF ReadToRemove
  <2>2. UNCHANGED <<y, lastId>> /\ h[p].id # 0
    BY <1>21 DEF ReadToRemove
  <2>3. ASSUME Goto(p, [h[p] EXCEPT !.todo = @ \ {i}, !.pc = "remove"]) PROVE Goal
    BY <2>2, <2>3
  <2>4. ASSUME Goto(p, [h[p] EXCEPT !.i = i, !.buf = file[i], !.pc = "erase"]) PROVE Goal
    BY <2>2, <2>4
  <2> HIDE DEF Goal
  <2> QED BY <2>1, <2>3, <2>4
<1> HIDE DEF Goal
<1>17. ASSUME NEW o \in Ops, NEW u \in Users,
              \/ \E is \in SUBSET Inbounds : Request(p, o, u, is)
              \/ Request(p, o, u, {})
              \/ \E i \in Inbounds : Request(p, o, u, {i})
       PROVE  Goal
  <2>1. {} \in SUBSET Inbounds /\ \A i \in Inbounds : {i} \in SUBSET Inbounds
    OBVIOUS
  <2> QED BY <1>1, <1>17, <2>1, Zenon
<1>18. Goal
  BY <1>2, <1>4, <1>5, <1>6, <1>7, <1>8, <1>9, <1>10, <1>11, <1>12, <1>13, <1>14, <1>15,
     <1>16, <1>17, <1>19, <1>20, <1>21, Zenon DEF Handler
<1> QED BY <1>18 DEF Goal

(* The statements keep the tables consistent.                              *)
LEMMA StatementRows ==
    ASSUME TypeOK, RowsInv, UNCHANGED lastId
    PROVE  /\ \A id \in Nat, b \in BOOLEAN : SetUserEnabled(id, b) /\ UNCHANGED client => RowsInv'
           /\ \A id \in Nat \ {0}, i \in Inbounds, c \in Nat :
                UpsertUserClient(id, i, c) /\ UNCHANGED user => RowsInv'
           /\ \A id \in Nat, i \in Inbounds, b \in BOOLEAN :
                SetUserClientEnabled(id, i, b) /\ UNCHANGED user => RowsInv'
           /\ \A id \in Nat : DeleteUser(id) => RowsInv'
<1> USE DEF TypeOK, RowsInv, Has, NoUser, NoClient
<1>1. ASSUME NEW id \in Nat, NEW b \in BOOLEAN, SetUserEnabled(id, b), UNCHANGED client
      PROVE  RowsInv'
  BY <1>1 DEF SetUserEnabled
<1>2. ASSUME NEW id \in Nat \ {0}, NEW i \in Inbounds, NEW c \in Nat,
             UpsertUserClient(id, i, c), UNCHANGED user
      PROVE  RowsInv'
  <2>1. \A u \in Users : user[u].id = 0 => client'[u] = client[u]
    BY <1>2 DEF UpsertUserClient
  <2> QED BY <1>2, <2>1
<1>3. ASSUME NEW id \in Nat, NEW i \in Inbounds, NEW b \in BOOLEAN,
             SetUserClientEnabled(id, i, b), UNCHANGED user
      PROVE  RowsInv'
  <2>1. \A u \in Users : user[u].id = 0 => client'[u] = client[u]
    BY <1>3 DEF SetUserClientEnabled
  <2> QED BY <1>3, <2>1
<1>4. ASSUME NEW id \in Nat, DeleteUser(id) PROVE RowsInv'
  BY <1>4 DEF DeleteUser
<1> QED BY <1>1, <1>2, <1>3, <1>4

(* Apart from the INSERT, a handler's step only ever frees row ids.        *)
LEMMA HandlerRows ==
    ASSUME TypeOK, RowsInv, HeldIdsGiven, NEW p \in Handlers, Handler(p), ~InsertUser(p)
    PROVE  RowsInv' /\ \A v \in Users : user'[v].id \in {0, user[v].id}
<1>h. h[p].id \in Nat /\ h[p].i \in Inbounds /\ h[p].creds[h[p].i] \in Nat
  BY DEF TypeOK, HandlerState
<1>l. UNCHANGED lastId
  BY HandlerHolds
<1> DEFINE Goal == RowsInv' /\ \A v \in Users : user'[v].id \in {0, user[v].id}
<1>u. ASSUME UNCHANGED <<user, client>> PROVE Goal
  BY <1>l, <1>u DEF RowsInv
<1>b. (h[p].op = "enableUser") \in BOOLEAN /\ (h[p].op # "disableClient") \in BOOLEAN
  OBVIOUS
<1>1. ASSUME UpdateUser(p) PROVE Goal
  <2>1. \A v \in Users : user'[v].id = user[v].id
    BY <1>1, <1>h DEF UpdateUser, SetUserEnabled, TypeOK
  <2>2. RowsInv'
    BY <1>1, <1>h, <1>l, <1>b, StatementRows DEF UpdateUser
  <2> QED BY <2>1, <2>2
<1>2. ASSUME FlagClient(p) PROVE Goal
  BY <1>2, <1>h, <1>l, <1>b, StatementRows DEF FlagClient
<1>3. ASSUME UpsertClient(p) PROVE Goal
  <2>1. h[p].id # 0
    BY <1>3 DEF UpsertClient, HeldIdsGiven
  <2> QED BY <1>3, <1>h, <1>l, <2>1, StatementRows DEF UpsertClient
<1>4. ASSUME DeleteAccount(p) PROVE Goal
  <2>1. \A v \in Users : user'[v].id \in {0, user[v].id}
    BY <1>4, <1>h DEF DeleteAccount, DeleteUser, NoUser, TypeOK
  <2> QED BY <1>4, <1>h, <1>l, <2>1, StatementRows DEF DeleteAccount
<1>5. ASSUME NEW o, NEW u, NEW is, Request(p, o, u, is) PROVE Goal
  BY <1>5, <1>u DEF Request
<1>6. ASSUME \/ CheckDuplicate(p) \/ GetByID(p) \/ ReadAccount(p) \/ ReadClient(p)
             \/ AddDone(p) \/ PushDone(p) \/ AppendToFile(p) \/ AppendFailed(p)
             \/ EraseFromFile(p) \/ RemoveDone(p)
      PROVE  Goal
  BY <1>6, <1>u, Zenon DEF CheckDuplicate, GetByID, ReadAccount, ReadClient, AddDone, PushDone,
     AppendToFile, AppendFailed, EraseFromFile, RemoveDone
<1>7. ASSUME NEW i \in Inbounds,
             \/ AddClientRPC(p, i) \/ PushRPC(p, i) \/ ReadToAppend(p, i)
             \/ RemoveRPC(p, i) \/ ReadToRemove(p, i)
      PROVE  Goal
  BY <1>7, <1>u, Zenon DEF AddClientRPC, PushRPC, ReadToAppend, RemoveRPC, ReadToRemove
<1> HIDE DEF Goal
<1>8. Goal
  BY <1>1, <1>2, <1>3, <1>4, <1>5, <1>6, <1>7, Zenon DEF Handler
<1> QED BY <1>8 DEF Goal

(* A Sync's step leaves the handlers and the other Syncs alone.  The Sync  *)
(* holds a row id only between lookup (or INSERT) and upsert, and then the *)
(* id of the account it looked up.                                         *)
SyncHeld(s) ==
    /\ \A t \in Syncs \ {s} : y'[t] = y[t]
    /\ y'[s].pc = "link" <=> y'[s].id # 0
    /\ y'[s].pc \in {"insert", "link"} => y'[s].snap[y'[s].i][y'[s].u] # <<>>
    /\ y'[s].id \in {0, user[y'[s].u].id}

(* A step of a Sync's code keeps its place, or moves on to an entry that   *)
(* its parse of config.d has; the row id it takes is the current one of    *)
(* that entry's account.                                                   *)
LEMMA SyncHolds ==
    ASSUME RowInv, NEW s \in Syncs, SyncStart(s) \/ SyncStep(s),
           ~(SyncCreateUser(s) /\ CreateUser(y[s].u))
    PROVE  /\ SyncHeld(s) /\ UNCHANGED <<h, lastId>>
           /\ RowsInv' /\ \A v \in Users : user'[v].id = user[v].id
<1>h. /\ y \in [Syncs -> SyncState] /\ y[s] \in SyncState
      /\ y[s].pc = "link" <=> y[s].id # 0
      /\ IdleSync.id = 0 /\ IdleSync.pc = "idle"
      /\ NextEntry(y[s]).id = 0 /\ NextEntry(y[s]).pc = "entries"
  BY ZenonT(60) DEF RowInv, TypeOK, HeldIdsGiven, IdleSync, NextEntry, SyncState
<1>f. /\ y[s].id \in Nat /\ y[s].i \in Inbounds /\ y[s].u \in Users
      /\ user \in [Users -> [id : Nat, enabled : BOOLEAN]]
  BY <1>h DEF SyncState, RowInv, TypeOK
<1>g. ASSUME NEW r, GotoSync(s, r)
      PROVE  y'[s] = r /\ \A t \in Syncs \ {s} : y'[t] = y[t]
  BY <1>h, <1>g DEF GotoSync
<1> DEFINE Goal == /\ SyncHeld(s) /\ UNCHANGED <<h, lastId>>
                   /\ RowsInv' /\ \A v \in Users : user'[v].id = user[v].id
<1>u. ASSUME SyncHeld(s), UNCHANGED <<h, user, client, lastId>> PROVE Goal
  BY <1>u DEF RowsInv, RowInv
<1>0. ASSUME NEW r, GotoSync(s, r), r.id = 0, r.pc \notin {"insert", "link"} PROVE SyncHeld(s)
  BY <1>0, <1>g DEF SyncHeld
<1>1. ASSUME SyncStart(s) PROVE Goal
  <2> DEFINE r == [y[s] EXCEPT !.pc = "entries", !.snap = file]
  <2>1. r.id = 0 /\ r.pc = "entries"
    BY <1>1, <1>h DEF SyncStart, SyncState
  <2> HIDE DEF r
  <2>2. GotoSync(s, r) /\ UNCHANGED <<h, user, client, lastId>>
    BY <1>1 DEF SyncStart, r
  <2> QED BY <1>0, <1>u, <2>1, <2>2
<1>2. ASSUME NEW i \in Inbounds, NEW u \in Users, SyncLookup(s, i, u) PROVE Goal
  <2> DEFINE r == [y[s] EXCEPT !.i = i, !.u = u, !.id = user[u].id,
                               !.pc = IF user[u].id = 0 THEN "insert" ELSE "link"]
  <2>1. /\ r.id = user[u].id /\ r.u = u /\ r.i = i /\ r.snap = y[s].snap
        /\ r.pc = IF user[u].id = 0 THEN "insert" ELSE "link"
    BY <1>h DEF SyncState
  <2> HIDE DEF r
  <2>2. GotoSync(s, r) /\ UNCHANGED <<h, user, client, lastId>> /\ y[s].snap[i][u] # <<>>
    BY <1>2 DEF SyncLookup, r
  <2>3. SyncHeld(s)
    BY <1>g, <2>1, <2>2 DEF SyncHeld
  <2> QED BY <1>u, <2>2, <2>3
<1>3. ASSUME SyncCreateUser(s), ~CreateUser(y[s].u) PROVE Goal
  <2>1. GotoSync(s, NextEntry(y[s])) /\ UNCHANGED <<h, user, client, lastId>>
    BY <1>3 DEF SyncCreateUser, db
  <2> QED BY <1>0, <1>h, <1>u, <2>1
<1>4. ASSUME SyncLink(s) PROVE Goal
  <2>1. GotoSync(s, NextEntry(y[s])) /\ UNCHANGED <<h, user, lastId>>
    BY <1>4 DEF SyncLink
  <2>2. y[s].id # 0 /\ Head(y[s].snap[y[s].i][y[s].u]) \in Nat
    <3>1. y[s].pc = "link" /\ y[s].id # 0
      BY <1>4, <1>h DEF SyncLink
    <3>2. y[s].snap[y[s].i][y[s].u] \in Seq(Nat) /\ y[s].snap[y[s].i][y[s].u] # <<>>
      <4>1. y[s].snap \in [Inbounds -> [Users -> Seq(Nat)]]
        BY <1>h DEF SyncState, Entries
      <4>2. y[s].snap[y[s].i][y[s].u] # <<>>
        BY <3>1, Zenon DEF RowInv, EntryInv
      <4> QED BY <1>f, <4>1, <4>2
    <3> QED BY <3>1, <3>2, HeadTailType
  <2>3. RowsInv'
    BY <1>4, <1>f, <2>1, <2>2, StatementRows, Zenon DEF SyncLink, RowInv
  <2> QED BY <1>0, <1>h, <2>1, <2>3
<1>r. ASSUME SyncReturn(s) PROVE SyncHeld(s)
  <2> DEFINE r == [IdleSync EXCEPT !.pc = "restore", !.todo = Inbounds, !.boot = TRUE]
  <2>1. r.id = 0 /\ r.pc = "restore"
    BY DEF IdleSync
  <2> HIDE DEF r
  <2>2. GotoSync(s, r) \/ GotoSync(s, IdleSync)
    BY <1>r DEF SyncReturn, r
  <2> QED BY <1>0, <1>h, <2>1, <2>2
<1>5. ASSUME SyncEntriesDone(s) PROVE Goal
  <2> DEFINE r == [y[s] EXCEPT !.pc = "list", !.todo = Inbounds]
  <2>1. y[s].pc = "entries" => r.id = 0 /\ r.pc = "list"
    BY <1>h DEF SyncState
  <2> HIDE DEF r
  <2>2. GotoSync(s, r) \/ SyncReturn(s)
    BY <1>5 DEF SyncEntriesDone, r
  <2>3. UNCHANGED <<h, user, client, lastId>> /\ y[s].pc = "entries"
    BY <1>5 DEF SyncEntriesDone
  <2> QED BY <1>0, <1>r, <1>u, <2>1, <2>2, <2>3
<1>6. ASSUME NEW i \in Inbounds, SyncList(s, i) PROVE Goal
  <2> DEFINE r == [y[s] EXCEPT !.i = i, !.todo = @ \ {i},
                               !.want = ListUserClientsByInboundTag(i), !.pc = "idents"]
  <2>1. r.id = 0 /\ r.pc \notin {"insert", "link"}
    BY <1>6, <1>h DEF SyncList, SyncState
  <2> HIDE DEF r
  <2>2. GotoSync(s, r) /\ UNCHANGED <<h, user, client, lastId>>
    BY <1>6 DEF SyncList, r
  <2> QED BY <1>0, <1>u, <2>1, <2>2
<1>7. ASSUME SyncIdents(s) PROVE Goal
  <2> DEFINE r == [y[s] EXCEPT !.want = [u \in Users |-> IF file[y[s].i][u] = <<>> THEN y[s].want[u] ELSE 0],
                               !.pc = "flush"]
  <2>1. r.id = 0 /\ r.pc \notin {"insert", "link"}
    BY <1>7, <1>h DEF SyncIdents, SyncState
  <2> HIDE DEF r
  <2>2. GotoSync(s, r) /\ UNCHANGED <<h, user, client, lastId>>
    BY <1>7 DEF SyncIdents, r
  <2> QED BY <1>0, <1>u, <2>1, <2>2
<1>8. ASSUME NEW u \in Users, SyncRead(s, u) PROVE Goal
  <2> DEFINE r == [y[s] EXCEPT !.u = u, !.buf = file[y[s].i], !.pc = "write"]
  <2>1. r.id = 0 /\ r.pc \notin {"insert", "link"}
    BY <1>8, <1>h DEF SyncRead, SyncState
  <2> HIDE DEF r
  <2>2. GotoSync(s, r) /\ UNCHANGED <<h, user, client, lastId>>
    BY <1>8 DEF SyncRead, r
  <2> QED BY <1>0, <1>u, <2>1, <2>2
<1>9. ASSUME SyncWrite(s) PROVE Goal
  <2> DEFINE r == [y[s] EXCEPT !.want[y[s].u] = 0, !.buf = NoEntries, !.pc = "flush"]
  <2>1. r.id = 0 /\ r.pc \notin {"insert", "link"}
    BY <1>9, <1>h DEF SyncWrite, SyncState
  <2> HIDE DEF r
  <2>2. GotoSync(s, r) /\ UNCHANGED <<h, user, client, lastId>>
    BY <1>9 DEF SyncWrite, r
  <2> QED BY <1>0, <1>u, <2>1, <2>2
<1>10. ASSUME SyncFlushed(s) PROVE Goal
  <2> DEFINE r == [y[s] EXCEPT !.pc = "list"]
  <2>1. r.id = 0 /\ r.pc \notin {"insert", "link"}
    BY <1>10, <1>h DEF SyncFlushed, SyncState
  <2> HIDE DEF r
  <2>2. GotoSync(s, r) /\ UNCHANGED <<h, user, client, lastId>>
    BY <1>10 DEF SyncFlushed, r
  <2> QED BY <1>0, <1>u, <2>1, <2>2
<1>12. ASSUME NEW i \in Inbounds, RestoreList(s, i) PROVE Goal
  <2> DEFINE r == [y[s] EXCEPT !.i = i, !.todo = @ \ {i},
                               !.want = ListUserClientsByInboundTag(i), !.pc = "restoring"]
  <2>1. r.id = 0 /\ r.pc \notin {"insert", "link"}
    BY <1>12, <1>h DEF RestoreList, SyncState
  <2> HIDE DEF r
  <2>2. GotoSync(s, r) /\ UNCHANGED <<h, user, client, lastId>>
    BY <1>12 DEF RestoreList, r
  <2> QED BY <1>0, <1>u, <2>1, <2>2
<1>13. ASSUME NEW u \in Users, RestoreUser(s, u) PROVE Goal
  <2> DEFINE r == [y[s] EXCEPT !.want[u] = 0]
  <2>1. r.id = 0 /\ r.pc \notin {"insert", "link"}
    BY <1>13, <1>h DEF RestoreUser, SyncState
  <2> HIDE DEF r
  <2>2. GotoSync(s, r) /\ UNCHANGED <<h, user, client, lastId>>
    BY <1>13 DEF RestoreUser, r
  <2> QED BY <1>0, <1>u, <2>1, <2>2
<1>14. ASSUME RestoreNext(s) PROVE Goal
  <2> DEFINE r == [y[s] EXCEPT !.pc = "restore"]
  <2>1. r.id = 0 /\ r.pc \notin {"insert", "link"}
    BY <1>14, <1>h DEF RestoreNext, SyncState
  <2> HIDE DEF r
  <2>2. GotoSync(s, r) /\ UNCHANGED <<h, user, client, lastId>>
    BY <1>14 DEF RestoreNext, r
  <2> QED BY <1>0, <1>u, <2>1, <2>2
<1>11. ASSUME SyncListDone(s) PROVE Goal
  BY <1>11, <1>r, <1>u DEF SyncListDone
<1>15. ASSUME RestoreDone(s) PROVE Goal
  BY <1>15, <1>0, <1>h, <1>u DEF RestoreDone
<1> HIDE DEF Goal
<1>16. Goal
  BY <1>1, <1>2, <1>3, <1>4, <1>5, <1>6, <1>7, <1>8, <1>9, <1>10, <1>11, <1>12, <1>13, <1>14,
     <1>15, Zenon DEF SyncStep
<1> QED BY <1>16 DEF Goal

(* Held ids stay harmless when rows only disappear and each holder keeps   *)
(* its id, ends, or takes the id of the account it is about.               *)
LEMMA HeldIdsStep ==
    ASSUME RowInv, TypeOK', UNCHANGED lastId,
           \A v \in Users : user'[v].id \in {0, user[v].id},
           \A p \in Handlers : h'[p] = h[p] \/ Held(p),
           \A s \in Syncs : y'[s] = y[s] \/ y'[s].id \in {0, user[y'[s].u].id}
    PROVE  /\ HeldIdsSafe'
           /\ \A p \in Handlers : h'[p].id <= lastId'
           /\ \A s \in Syncs : y'[s].id <= lastId'
<1>1. /\ \A p \in Handlers : h[p].u \in Users /\ h[p].id \in Nat /\ h'[p].u \in Users
      /\ \A s \in Syncs : y[s].u \in Users /\ y[s].id \in Nat /\ y'[s].u \in Users
      /\ \A v \in Users : user[v].id \in Nat
      /\ lastId \in Nat
  BY ZenonT(60) DEF RowInv, TypeOK, HandlerState, SyncState
<1>2. /\ \A u \in Users : user[u].id <= lastId
      /\ \A u, v \in Users : user[u].id = user[v].id /\ user[u].id # 0 => u = v
  BY DEF RowInv, RowsInv
<1>3. /\ \A p \in Handlers, v \in Users : h[p].id # 0 /\ user[v].id = h[p].id => v = h[p].u
      /\ \A s \in Syncs, v \in Users : y[s].id # 0 /\ user[v].id = y[s].id => v = y[s].u
      /\ \A p \in Handlers : h[p].id <= lastId
      /\ \A s \in Syncs : y[s].id <= lastId
  BY DEF RowInv, HeldIdsSafe, HeldIdsGiven, Has
<1>4. ASSUME NEW p \in Handlers, NEW v \in Users, h'[p].id # 0, user'[v].id = h'[p].id
      PROVE  v = h'[p].u
  BY <1>1, <1>2, <1>3, <1>4 DEF Held
<1>5. ASSUME NEW s \in Syncs, NEW v \in Users, y'[s].id # 0, user'[v].id = y'[s].id
      PROVE  v = y'[s].u
  BY <1>1, <1>2, <1>3, <1>5
<1>6. /\ \A p \in Handlers : h'[p].id <= lastId'
      /\ \A s \in Syncs : y'[s].id <= lastId'
  BY <1>1, <1>2, <1>3 DEF Held
<1> QED BY <1>4, <1>5, <1>6 DEF HeldIdsSafe, Has

(* An INSERT takes an id nobody holds.                                     *)
LEMMA CreateStep ==
    ASSUME RowInv, NEW u \in Users, CreateUser(u)
    PROVE  /\ RowsInv' /\ lastId' = lastId + 1
           /\ user'[u].id = lastId + 1
           /\ \A v \in Users \ {u} : user'[v] = user[v]
           /\ \A p \in Handlers, v \in Users : h[p].id # 0 /\ user'[v].id = h[p].id => v = h[p].u
           /\ \A s \in Syncs, v \in Users : y[s].id # 0 /\ user'[v].id = y[s].id => v = y[s].u
           /\ \A p \in Handlers : h[p].id <= lastId' /\ h[p].id # lastId + 1
           /\ \A s \in Syncs : y[s].id <= lastId' /\ y[s].id # lastId + 1
<1>1. /\ user \in [Users -> [id : Nat, enabled : BOOLEAN]] /\ lastId \in Nat
      /\ \A p \in Handlers : h[p].id \in Nat
      /\ \A s \in Syncs : y[s].id \in Nat
  BY DEF RowInv, TypeOK, HandlerState, SyncState
<1>2. /\ lastId' = lastId + 1 /\ user'[u].id = lastId + 1 /\ UNCHANGED client
      /\ \A v \in Users \ {u} : user'[v] = user[v]
  BY <1>1 DEF CreateUser
<1>3. RowsInv'
  BY <1>1, <1>2 DEF RowInv, RowsInv
<1>4. /\ \A p \in Handlers : h[p].id <= lastId' /\ h[p].id # lastId + 1
      /\ \A s \in Syncs : y[s].id <= lastId' /\ y[s].id # lastId + 1
  BY <1>1, <1>2 DEF RowInv, HeldIdsGiven
<1>5. /\ \A p \in Handlers, v \in Users : h[p].id # 0 /\ user'[v].id = h[p].id => v = h[p].u
      /\ \A s \in Syncs, v \in Users : y[s].id # 0 /\ user'[v].id = y[s].id => v = y[s].u
  BY <1>2, <1>4 DEF RowInv, HeldIdsSafe, Has
<1> QED BY <1>2, <1>3, <1>4, <1>5

(* The server starts with empty tables and idle goroutines.                *)
LEMMA InitRowInv == Init => RowInv
<1> SUFFICES ASSUME Init PROVE RowInv
  OBVIOUS
<1>1. booted \in BOOLEAN /\ grpc \in BOOLEAN
  BY ModesAssumption, Zenon DEF Init
<1>2. /\ owner \in Seq(Users) /\ NoWant \in [Users -> Nat] /\ NoEntries \in Entries
      /\ NoUser \in [id : Nat, enabled : BOOLEAN]
      /\ NoClient \in [cred : Nat, enabled : BOOLEAN]
  BY DEF Init, NoWant, NoEntries, Entries, NoUser, NoClient
<1>3. TypeOK
  BY <1>1, <1>2, IdleTypes DEF Init, TypeOK
<1>4. /\ IdleHandler.id = 0 /\ IdleHandler.pc = "idle"
      /\ IdleSync.id = 0 /\ IdleSync.pc = "idle" /\ NoUser.id = 0
  BY DEF IdleHandler, IdleSync, NoUser
<1>5. EntryInv /\ HeldIdsGiven /\ HeldIdsSafe
  BY <1>4 DEF Init, EntryInv, HeldIdsGiven, HeldIdsSafe
<1>6. RowsInv
  BY <1>4 DEF Init, RowsInv
<1> QED BY <1>3, <1>5, <1>6 DEF RowInv

(* Every step keeps the tables consistent and the held ids harmless.       *)
LEMMA NextRowInv == RowInv /\ [Next]_vars => RowInv'
<1> SUFFICES ASSUME RowInv, [Next]_vars PROVE RowInv'
  OBVIOUS
<1>t. TypeOK /\ EntryInv /\ RowsInv /\ HeldIdsGiven /\ HeldIdsSafe
  BY DEF RowInv
<1>1. ASSUME NEW p \in Handlers, Handler(p) PROVE RowInv'
  <2>1. TypeOK'
    BY <1>1, <1>t, HandlerTypeOK
  <2>2. CASE InsertUser(p)
    <3>1. CASE CreateUser(h[p].u)
      <4> DEFINE r == [h[p] EXCEPT !.pc = "add", !.id = lastId + 1]
      <4>0. h[p].u \in Users /\ h[p] \in HandlerState /\ lastId \in Nat
        BY <1>t DEF TypeOK, HandlerState
      <4>1. r.id = lastId + 1 /\ r.u = h[p].u /\ r.pc = "add"
        BY <4>0 DEF HandlerState
      <4> HIDE DEF r
      <4>2. Goto(p, r) /\ UNCHANGED y
        BY <2>2, <3>1 DEF InsertUser, CreateUser, r
      <4>3. h'[p] = r /\ \A q \in Handlers \ {p} : h'[q] = h[q]
        BY <1>t, <4>2 DEF Goto, TypeOK
      <4>4. HeldIdsGiven'
        BY <1>t, <3>1, <4>0, <4>1, <4>2, <4>3, CreateStep DEF HeldIdsGiven
      <4>5. \A v \in Users : user'[v].id = lastId + 1 => v = h[p].u
        BY <1>t, <3>1, <4>0, CreateStep DEF RowsInv, TypeOK
      <4>6. HeldIdsSafe'
        BY <3>1, <4>0, <4>1, <4>2, <4>3, <4>5, CreateStep DEF HeldIdsSafe, Has
      <4>7. EntryInv'
        BY <1>t, <4>2 DEF EntryInv
      <4> QED BY <2>1, <3>1, <4>0, <4>4, <4>6, <4>7, CreateStep DEF RowInv
    <3>2. CASE ~CreateUser(h[p].u)
      <4>1. h'[p] = IdleHandler /\ (\A q \in Handlers \ {p} : h'[q] = h[q])
            /\ UNCHANGED <<y, user, client, lastId>>
        BY <1>t, <2>2, <3>2 DEF InsertUser, Finish, Goto, db, TypeOK
      <4>2. IdleHandler.id = 0 /\ IdleHandler.pc = "idle"
        BY DEF IdleHandler
      <4>3. HeldIdsSafe' /\ HeldIdsGiven'
        <5>1. lastId \in Nat /\ 0 <= lastId
          BY <1>t DEF TypeOK
        <5>2. HeldIdsGiven'
          BY <1>t, <4>1, <4>2, <5>1 DEF HeldIdsGiven
        <5>3. HeldIdsSafe'
          BY <1>t, <4>1, <4>2 DEF HeldIdsSafe, Has
        <5> QED BY <5>2, <5>3
      <4>4. RowsInv' /\ EntryInv'
        BY <1>t, <4>1 DEF RowsInv, EntryInv
      <4> QED BY <2>1, <4>3, <4>4 DEF RowInv
    <3> QED BY <3>1, <3>2
  <2>3. CASE ~InsertUser(p)
    <3>1. /\ \A q \in Handlers \ {p} : h'[q] = h[q]
          /\ Held(p) /\ Past(p) /\ UNCHANGED <<y, lastId>>
      BY <1>1, <1>t, <2>3, HandlerHolds
    <3>2. RowsInv' /\ \A v \in Users : user'[v].id \in {0, user[v].id}
      BY <1>1, <1>t, <2>3, HandlerRows
    <3>3. /\ HeldIdsSafe'
          /\ \A q \in Handlers : h'[q].id <= lastId'
          /\ \A s \in Syncs : y'[s].id <= lastId'
      BY <2>1, <3>1, <3>2, HeldIdsStep
    <3>4. HeldIdsGiven' /\ EntryInv'
      BY <1>t, <3>1, <3>3 DEF HeldIdsGiven, Past, EntryInv
    <3> QED BY <2>1, <3>2, <3>3, <3>4 DEF RowInv
  <2> QED BY <2>2, <2>3
<1>2. ASSUME NEW s \in Syncs, SyncStart(s) \/ SyncStep(s) PROVE RowInv'
  <2>1. TypeOK'
    BY <1>2, <1>t, SyncTypeOK
  <2>2. CASE SyncCreateUser(s) /\ CreateUser(y[s].u)
    <3> DEFINE r == [y[s] EXCEPT !.id = lastId + 1, !.pc = "link"]
    <3>0. y[s].u \in Users /\ y[s] \in SyncState /\ lastId \in Nat
      BY <1>t DEF TypeOK, SyncState
    <3>1. r.id = lastId + 1 /\ r.u = y[s].u /\ r.i = y[s].i /\ r.snap = y[s].snap /\ r.pc = "link"
      BY <3>0 DEF SyncState
    <3> HIDE DEF r
    <3>2. GotoSync(s, r) /\ UNCHANGED h /\ y[s].pc = "insert"
      BY <2>2 DEF SyncCreateUser, CreateUser, r
    <3>3. y'[s] = r /\ \A t \in Syncs \ {s} : y'[t] = y[t]
      BY <1>t, <3>2 DEF GotoSync, TypeOK
    <3>4. HeldIdsGiven'
      BY <1>t, <2>2, <3>0, <3>1, <3>2, <3>3, CreateStep DEF HeldIdsGiven
    <3>5. \A v \in Users : user'[v].id = lastId + 1 => v = y[s].u
      BY <1>t, <2>2, <3>0, CreateStep DEF RowsInv, TypeOK
    <3>6. HeldIdsSafe'
      BY <2>2, <3>0, <3>1, <3>2, <3>3, <3>5, CreateStep DEF HeldIdsSafe, Has
    <3>7. EntryInv'
      BY <1>t, <3>1, <3>2, <3>3 DEF EntryInv
    <3> QED BY <2>1, <2>2, <3>0, <3>4, <3>6, <3>7, CreateStep DEF RowInv
  <2>3. CASE ~(SyncCreateUser(s) /\ CreateUser(y[s].u))
    <3>1. /\ SyncHeld(s) /\ UNCHANGED <<h, lastId>>
          /\ RowsInv' /\ \A v \in Users : user'[v].id = user[v].id
      BY <1>2, <2>3, SyncHolds
    <3>2. \A t \in Syncs : y'[t] = y[t] \/ y'[t].id \in {0, user[y'[t].u].id}
      BY <3>1 DEF SyncHeld
    <3>3. /\ HeldIdsSafe'
          /\ \A q \in Handlers : h'[q].id <= lastId'
          /\ \A t \in Syncs : y'[t].id <= lastId'
      BY <2>1, <3>1, <3>2, HeldIdsStep
    <3>4. HeldIdsGiven' /\ EntryInv'
      BY <1>t, <3>1, <3>3 DEF HeldIdsGiven, SyncHeld, EntryInv
    <3> QED BY <2>1, <3>1, <3>3, <3>4 DEF RowInv
  <2> QED BY <2>2, <2>3
<1>3. ASSUME NEW s \in Syncs, Crash(s) PROVE RowInv'
  <2>1. TypeOK'
    BY <1>3, <1>t, EnvironmentTypeOK
  <2>2. /\ IdleHandler.id = 0 /\ IdleHandler.pc = "idle" /\ IdleSync.id = 0 /\ IdleSync.pc = "idle"
        /\ [IdleSync EXCEPT !.pc = "entries", !.snap = file, !.boot = TRUE].id = 0
        /\ [IdleSync EXCEPT !.pc = "entries", !.snap = file, !.boot = TRUE].pc = "entries"
    BY DEF IdleHandler, IdleSync
  <2>3. /\ \A p \in Handlers : h'[p].id = 0 /\ h'[p].pc = "idle"
        /\ \A t \in Syncs : y'[t].id = 0 /\ y'[t].pc \in {"idle", "entries"}
        /\ UNCHANGED <<user, client, lastId>>
    BY <1>3, <2>2 DEF Crash
  <2>4. HeldIdsGiven' /\ HeldIdsSafe' /\ EntryInv' /\ RowsInv'
    <3>1. lastId \in Nat /\ 0 <= lastId
      BY <1>t DEF TypeOK
    <3>2. HeldIdsGiven' /\ HeldIdsSafe'
      BY <2>3, <3>1 DEF HeldIdsGiven, HeldIdsSafe
    <3>3. EntryInv' /\ RowsInv'
      BY <1>t, <2>3 DEF EntryInv, RowsInv
    <3> QED BY <3>2, <3>3
  <2> QED BY <2>1, <2>4 DEF RowInv
<1>4. ASSUME XrayRestart \/ \E i \in Inbounds, u \in Edited : EditConfig(i, u) PROVE RowInv'
  <2>1. TypeOK'
    BY <1>4, <1>t, EnvironmentTypeOK
  <2>2. UNCHANGED <<user, client, lastId, h, y>>
    BY <1>4 DEF XrayRestart, EditConfig
  <2> QED BY <1>t, <2>1, <2>2 DEF RowInv, EntryInv, RowsInv, HeldIdsGiven, HeldIdsSafe, Has
<1>5. CASE UNCHANGED vars
  BY <1>t, <1>5 DEF vars, RowInv, TypeOK, EntryInv, RowsInv, HeldIdsGiven, HeldIdsSafe, Has
<1> QED BY <1>1, <1>2, <1>3, <1>4, <1>5 DEF Next

(* The tables stay consistent, and the row ids handlers and Syncs hold     *)
(* stay harmless, in every state of the provisioning code.                 *)
THEOREM ProvisionRows == Spec => []RowInv
BY InitRowInv, NextRowInv, PTL DEF Spec

(* Whatever a handler or a Sync does with the row id it looked up, it hits *)
(* no account but its own.                                                 *)
THEOREM ProvisionHeldIds == Spec => []HeldIdsSafe
<1>1. RowInv => HeldIdsSafe
  BY DEF RowInv
<1> QED BY <1>1, ProvisionRows, PTL
=============================================================================
