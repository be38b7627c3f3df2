-------------------------- MODULE CredentialProofs --------------------------
(***************************************************************************)
(* What the provisioning code does to enabled flags and to credentials,    *)
(* for any number of users, inbounds, concurrent requests and concurrent   *)
(* Syncs.  ProvisionProofs supplies the types and the row ids: whatever id *)
(* a handler or a Sync holds, no other account has it.                     *)
(***************************************************************************)
EXTENDS ProvisionProofs

(***************************************************************************)
(* Disabled stays disabled.                                                *)
(***************************************************************************)

(* At the start no handler is about to set a flag.                         *)
LEMMA InitOpInv == Init => OpInv
BY DEF Init, OpInv, IdleHandler

(* Every step of a handler keeps OpInv.                                  *)
LEMMA HandlerOpInv ==
    ASSUME TypeOK, OpInv, NEW p \in Handlers, Handler(p)
    PROVE  OpInv'
<1>h. h \in [Handlers -> HandlerState] /\ h[p] \in HandlerState
  BY DEF TypeOK
<1>g. ASSUME NEW r, Goto(p, r), r.pc \notin {"flag", "update"} PROVE OpInv'
  BY <1>g, <1>h DEF Goto, OpInv
<1>i. IdleHandler.pc = "idle"
  BY DEF IdleHandler
<1>f. ASSUME Finish(p) PROVE OpInv'
  BY <1>f, <1>g, <1>i DEF Finish
<1> DEFINE Moves == \E r : Goto(p, r) /\ r.pc \notin {"flag", "update"}
<1>m. Moves => OpInv'
  BY <1>g
<1>s. ASSUME NEW r, Goto(p, r), r.pc \notin {"flag", "update"} PROVE Moves
  BY <1>s, Zenon
<1> HIDE DEF Moves
<1>1. ASSUME NEW o, NEW u, NEW is, Request(p, o, u, is) PROVE OpInv'
  <2> DEFINE r == [IdleHandler EXCEPT
               !.pc = IF o = "createUser" THEN "check" ELSE "lookup",
               !.op = o, !.u = u, !.asked = is, !.todo = is,
               !.i = IF is = {} THEN SomeInbound ELSE CHOOSE i \in is : TRUE]
  <2>1. r.pc \notin {"flag", "update"}
    BY DEF IdleHandler
  <2>2. Goto(p, r)
    BY <1>1, Zenon DEF Request
  <2> HIDE DEF r
  <2> QED BY <1>g, <2>1, <2>2
<1>2. ASSUME ReadClient(p) PROVE OpInv'
  <2>1. h[p].op \in ClientOps /\ h[p].pc = "clients"
    BY <1>2, Zenon DEF ReadClient
  <2>2. CASE Goto(p, [h[p] EXCEPT !.creds = GetAllUserClients(h[p].id), !.pc = "flag"])
    <3>1. h'[p].op = h[p].op /\ h'[p].pc = "flag" /\ \A q \in Handlers \ {p} : h'[q] = h[q]
      BY <1>h, <2>2 DEF Goto, HandlerState
    <3> QED BY <2>1, <3>1 DEF OpInv
  <2>3. CASE Goto(p, [h[p] EXCEPT !.pc = "add"])
    <3>1. [h[p] EXCEPT !.pc = "add"].pc \notin {"flag", "update"}
      BY <1>h DEF HandlerState
    <3> QED BY <1>g, <2>3, <3>1
  <2> QED BY <1>2, <1>f, <2>2, <2>3, Zenon DEF ReadClient
<1>3. ASSUME GetByID(p) PROVE OpInv'
  <2> DEFINE b == h[p].op \in {"enableUser", "disableUser"}
             r == [h[p] EXCEPT !.id = user[h[p].u].id, !.pc = IF b THEN "update" ELSE "clients"]
  <2>1. r.pc \in {"update", "clients"} /\ r.op = h[p].op /\ (r.pc = "update" => b)
    <3> HIDE DEF b
    <3> QED BY <1>h DEF HandlerState
  <2>2. Finish(p) \/ Goto(p, r)
    BY <1>3, Zenon DEF GetByID
  <2> HIDE DEF r
  <2>3. ASSUME Goto(p, r) PROVE OpInv'
    <3>1. h'[p] = r /\ \A q \in Handlers \ {p} : h'[q] = h[q]
      BY <1>h, <2>3 DEF Goto
    <3> QED BY <2>1, <3>1 DEF OpInv
  <2> QED BY <1>f, <2>2, <2>3
<1>4. ASSUME ReadAccount(p) PROVE OpInv'
  <2> DEFINE rows == GetUserClients(h[p].id)
             is == {i \in Inbounds : rows[i] # 0}
             r == [h[p] EXCEPT !.todo = is, !.asked = is, !.creds = rows,
                        !.pc = IF h[p].op = "enableUser" THEN "push" ELSE "remove"]
  <2>1. r.pc \notin {"flag", "update"}
    <3> HIDE DEF rows, is
    <3> QED BY <1>h DEF HandlerState
  <2>2. Finish(p) \/ Goto(p, r)
    BY <1>4, Zenon DEF ReadAccount
  <2> HIDE DEF r
  <2> QED BY <1>f, <1>g, <2>1, <2>2
<1>5. ASSUME FlagClient(p) PROVE OpInv'
  <2> DEFINE r == [h[p] EXCEPT !.pc = IF h[p].op = "disableClient" THEN "remove" ELSE "push"]
  <2>1. r.pc \notin {"flag", "update"}
    BY <1>h DEF HandlerState
  <2>2. Goto(p, r)
    BY <1>5, Zenon DEF FlagClient
  <2> HIDE DEF r
  <2> QED BY <1>g, <2>1, <2>2
<1>6. ASSUME \/ CheckDuplicate(p) \/ InsertUser(p) \/ UpdateUser(p) \/ UpsertClient(p)
             \/ AddDone(p) \/ PushDone(p) \/ RemoveDone(p) \/ DeleteAccount(p)
      PROVE  OpInv'
  <2>1. \/ Finish(p)
        \/ Goto(p, [h[p] EXCEPT !.pc = "insert"])
        \/ Goto(p, [h[p] EXCEPT !.pc = "add", !.id = lastId + 1])
        \/ Goto(p, [h[p] EXCEPT !.pc = "clients"])
        \/ Goto(p, [h[p] EXCEPT !.todo = @ \ {h[p].i}, !.pc = "add"])
        \/ Goto(p, [h[p] EXCEPT !.pc = "delete"])
    BY <1>6, Zenon DEF CheckDuplicate, InsertUser, UpdateUser, UpsertClient, AddDone, PushDone,
       RemoveDone, DeleteAccount
  <2>2. /\ [h[p] EXCEPT !.pc = "insert"].pc \notin {"flag", "update"}
        /\ [h[p] EXCEPT !.pc = "add", !.id = lastId + 1].pc \notin {"flag", "update"}
        /\ [h[p] EXCEPT !.pc = "clients"].pc \notin {"flag", "update"}
        /\ [h[p] EXCEPT !.todo = @ \ {h[p].i}, !.pc = "add"].pc \notin {"flag", "update"}
        /\ [h[p] EXCEPT !.pc = "delete"].pc \notin {"flag", "update"}
    BY <1>h DEF HandlerState
  <2> QED BY <1>f, <1>m, <1>s, <2>1, <2>2, Zenon
<1>7. ASSUME AppendToFile(p) \/ AppendFailed(p) \/ EraseFromFile(p) PROVE OpInv'
  <2> DEFINE r == [h[p] EXCEPT !.pc = IF h[p].pc = "append" THEN "add" ELSE "push",
                          !.todo = @ \ {h[p].i}, !.buf = NoEntries]
  <2>1. \/ Goto(p, [h[p] EXCEPT !.pc = "upsert", !.buf = NoEntries])
        \/ Goto(p, [h[p] EXCEPT !.pc = "push", !.todo = @ \ {h[p].i}, !.buf = NoEntries])
        \/ Goto(p, r)
        \/ Goto(p, [h[p] EXCEPT !.todo = @ \ {h[p].i}, !.buf = NoEntries, !.pc = "remove"])
    BY <1>7, Zenon DEF AppendToFile, AppendFailed, EraseFromFile
  <2>2. /\ [h[p] EXCEPT !.pc = "upsert", !.buf = NoEntries].pc \notin {"flag", "update"}
        /\ [h[p] EXCEPT !.pc = "push", !.todo = @ \ {h[p].i}, !.buf = NoEntries].pc \notin {"flag", "update"}
        /\ r.pc \notin {"flag", "update"}
        /\ [h[p] EXCEPT !.todo = @ \ {h[p].i}, !.buf = NoEntries, !.pc = "remove"].pc \notin {"flag", "update"}
    BY <1>h DEF HandlerState
  <2> HIDE DEF r
  <2> QED BY <1>m, <1>s, <2>1, <2>2, Zenon
<1>8. ASSUME NEW i \in Inbounds,
             \/ AddClientRPC(p, i) \/ PushRPC(p, i) \/ RemoveRPC(p, i) \/ ReadToRemove(p, i)
      PROVE  OpInv'
  <2>0. h[p].pc \notin {"flag", "update"}
    BY <1>8 DEF AddClientRPC, PushRPC, RemoveRPC, ReadToRemove
  <2>1. \/ Goto(p, [h[p] EXCEPT !.pc = "upsert", !.i = i, !.creds[i] = Len(owner) + 1])
        \/ Goto(p, [h[p] EXCEPT !.todo = @ \ {i}])
        \/ Goto(p, [h[p] EXCEPT !.pc = "scan", !.i = i])
        \/ Goto(p, [h[p] EXCEPT !.todo = @ \ {i}, !.pc = "remove"])
        \/ Goto(p, [h[p] EXCEPT !.i = i, !.buf = file[i], !.pc = "erase"])
    BY <1>8, Zenon DEF AddClientRPC, PushRPC, RemoveRPC, ReadToRemove
  <2>2. /\ [h[p] EXCEPT !.pc = "upsert", !.i = i, !.creds[i] = Len(owner) + 1].pc \notin {"flag", "update"}
        /\ [h[p] EXCEPT !.todo = @ \ {i}].pc \notin {"flag", "update"}
        /\ [h[p] EXCEPT !.pc = "scan", !.i = i].pc \notin {"flag", "update"}
        /\ [h[p] EXCEPT !.todo = @ \ {i}, !.pc = "remove"].pc \notin {"flag", "update"}
        /\ [h[p] EXCEPT !.i = i, !.buf = file[i], !.pc = "erase"].pc \notin {"flag", "update"}
    BY <1>h, <2>0 DEF HandlerState
  <2> QED BY <1>m, <1>s, <2>1, <2>2, Zenon
<1>9. ASSUME NEW i \in Inbounds, ReadToAppend(p, i) PROVE OpInv'
  <2> DEFINE r == [h[p] EXCEPT !.i = i, !.buf = file[i],
                          !.creds[i] = IF h[p].pc = "add" THEN Len(owner) + 1 ELSE @,
                          !.pc = IF h[p].pc = "add" THEN "append" ELSE "reappend"]
  <2>1. r.pc \notin {"flag", "update"}
    BY <1>h DEF HandlerState
  <2>2. Goto(p, r)
    BY <1>9, Zenon DEF ReadToAppend
  <2> HIDE DEF r
  <2> QED BY <1>g, <2>1, <2>2
<1> QED BY <1>1, <1>2, <1>3, <1>4, <1>5, <1>6, <1>7, <1>8, <1>9, Zenon DEF Handler

(* What a step may do to the flags of account u and of its clients.        *)
FlagsKept(u) ==
    user'[u].id = user[u].id =>
      /\ (~user[u].enabled /\ user'[u].enabled) =>
           \E p \in Handlers : h[p].u = u /\ h[p].op = "enableUser"
      /\ \A i \in Inbounds :
           (client[u][i].cred # 0 /\ ~client[u][i].enabled /\ client'[u][i].enabled) =>
             \E p \in Handlers : h[p].u = u /\ h[p].i = i
                                 /\ h[p].op \in {"addClient", "enableClient"}

(* The INSERT gives the account a row id it did not have.                  *)
LEMMA CreateFlags ==
    ASSUME TypeOK, NEW v \in Users, CreateUser(v)
    PROVE  \A u \in Users : FlagsKept(u)
<1>1. user'[v].id # user[v].id /\ UNCHANGED client /\ \A u \in Users \ {v} : user'[u] = user[u]
  BY DEF TypeOK, CreateUser
<1> QED BY <1>1 DEF FlagsKept

(* UpsertUserClient replaces the credential of an existing row and nothing *)
(* else.                                                                   *)
LEMMA UpsertFlags ==
    ASSUME TypeOK, NEW id, NEW j \in Inbounds, NEW c, UpsertUserClient(id, j, c), UNCHANGED user
    PROVE  \A u \in Users : FlagsKept(u)
<1>1. ASSUME NEW u \in Users, NEW i \in Inbounds, client[u][i].cred # 0, ~client[u][i].enabled
      PROVE  ~client'[u][i].enabled
  <2>0. client[u] \in [Inbounds -> [cred : Nat, enabled : BOOLEAN]]
    BY DEF TypeOK
  <2>1. CASE ~Has(u, id) \/ i # j
    <3>1. client'[u] = client[u] \/ i # j
      BY <2>1 DEF UpsertUserClient
    <3>2. i # j => client'[u][i] = client[u][i]
      BY <2>0 DEF UpsertUserClient
    <3> QED BY <1>1, <3>1, <3>2
  <2>2. CASE Has(u, id) /\ i = j
    <3> DEFINE e == client[u][i].cred = 0 \/ client[u][i].enabled
    <3>1. ~e
      BY <1>1
    <3>2. client'[u] = [client[u] EXCEPT ![i] = [cred |-> c, enabled |-> e]]
      BY <2>2, Zenon DEF UpsertUserClient
    <3> HIDE DEF e
    <3>3. client'[u][i].enabled = e
      BY <2>0, <3>2
    <3> QED BY <3>1, <3>3
  <2> QED BY <2>1, <2>2
<1> QED BY <1>1, Zenon DEF FlagsKept

(* A handler sets a flag only when it serves an enable or add request, and *)
(* only on the account and the client of that request.                     *)
LEMMA HandlerFlags ==
    ASSUME RowInv, OpInv, NEW p \in Handlers, Handler(p)
    PROVE  \A u \in Users : FlagsKept(u)
<1>t. TypeOK
  BY DEF RowInv
<1>h. h[p] \in HandlerState /\ h[p].u \in Users /\ h[p].i \in Inbounds /\ h[p].id \in Nat
  BY <1>t DEF TypeOK, HandlerState
<1>s. \A v \in Users : h[p].id # 0 /\ user[v].id = h[p].id => v = h[p].u
  BY DEF RowInv, HeldIdsSafe, Has
<1>d. h[p].pc \notin {"idle", "check", "insert", "lookup"} => h[p].id # 0
  BY DEF RowInv, HeldIdsGiven
<1>u. ASSUME UNCHANGED <<user, client>> PROVE \A u \in Users : FlagsKept(u)
  BY <1>u DEF FlagsKept
<1>1. ASSUME UpdateUser(p) PROVE \A u \in Users : FlagsKept(u)
  <2>1. h[p].id # 0 /\ UNCHANGED client
    BY <1>1, <1>d DEF UpdateUser
  <2>2. ASSUME NEW u \in Users, ~user[u].enabled, user'[u].enabled
        PROVE  h[p].u = u /\ h[p].op = "enableUser"
    <3>1. user'[u] = IF Has(u, h[p].id)
                     THEN [user[u] EXCEPT !.enabled = (h[p].op = "enableUser")] ELSE user[u]
      BY <1>1, Zenon DEF UpdateUser, SetUserEnabled
    <3>2. Has(u, h[p].id)
      BY <2>2, <3>1
    <3>3. user[u] \in [id : Nat, enabled : BOOLEAN]
      BY <1>t DEF TypeOK
    <3>4. user'[u].enabled = (h[p].op = "enableUser")
      BY <3>1, <3>2, <3>3
    <3> QED BY <1>s, <2>1, <2>2, <3>2, <3>4 DEF Has
  <2> QED BY <2>1, <2>2 DEF FlagsKept
<1>2. ASSUME FlagClient(p) PROVE \A u \in Users : FlagsKept(u)
  <2>1. h[p].id # 0 /\ UNCHANGED user /\ h[p].op \in ClientOps
    BY <1>2, <1>d DEF FlagClient, OpInv
  <2>2. ASSUME NEW u \in Users, NEW i \in Inbounds, ~client[u][i].enabled, client'[u][i].enabled
        PROVE  h[p].u = u /\ h[p].i = i /\ h[p].op \in {"addClient", "enableClient"}
    <3> DEFINE b == h[p].op # "disableClient"
    <3>1. client'[u] = IF Has(u, h[p].id) /\ client[u][h[p].i].cred # 0
                       THEN [client[u] EXCEPT ![h[p].i] = [cred |-> @.cred, enabled |-> b]]
                       ELSE client[u]
      BY <1>2, Zenon DEF FlagClient, SetUserClientEnabled
    <3>2. client[u] \in [Inbounds -> [cred : Nat, enabled : BOOLEAN]]
      BY <1>t DEF TypeOK
    <3> HIDE DEF b
    <3>3. Has(u, h[p].id) /\ client[u][h[p].i].cred # 0
      BY <2>2, <3>1
    <3>5. client'[u] = [client[u] EXCEPT ![h[p].i] = [cred |-> client[u][h[p].i].cred, enabled |-> b]]
      BY <3>1, <3>3
    <3>6. i # h[p].i => client'[u][i] = client[u][i]
      BY <3>2, <3>5
    <3>7. i = h[p].i
      BY <2>2, <3>6, Zenon
    <3>8. client'[u][i] = [cred |-> client[u][i].cred, enabled |-> b]
      BY <1>h, <3>2, <3>5, <3>7
    <3>9. client'[u][i].enabled = b
      BY <3>8
    <3>4. h[p].u = u
      BY <1>s, <2>1, <3>3 DEF Has
    <3> QED BY <2>1, <2>2, <3>4, <3>7, <3>9 DEF b, ClientOps
  <2> QED BY <2>1, <2>2 DEF FlagsKept
<1>3. ASSUME UpsertClient(p) PROVE \A u \in Users : FlagsKept(u)
  BY <1>3, <1>t, <1>h, UpsertFlags DEF UpsertClient
<1>4. ASSUME InsertUser(p) PROVE \A u \in Users : FlagsKept(u)
  BY <1>4, <1>t, <1>h, <1>u, CreateFlags DEF InsertUser, db
<1>5. ASSUME DeleteAccount(p) PROVE \A u \in Users : FlagsKept(u)
  <2>1. DeleteUser(h[p].id)
    BY <1>5 DEF DeleteAccount
  <2>2. ASSUME NEW u \in Users PROVE user'[u] \in {user[u], NoUser}
    BY <2>1 DEF DeleteUser
  <2>3. ASSUME NEW u \in Users, NEW i \in Inbounds
        PROVE  client'[u][i] \in {client[u][i], NoClient}
    BY <2>1 DEF DeleteUser
  <2> QED BY <2>2, <2>3 DEF FlagsKept, NoUser, NoClient
<1>6. ASSUME NEW o, NEW u, NEW is, Request(p, o, u, is) PROVE UNCHANGED <<user, client>>
  BY <1>6 DEF Request
<1>7. ASSUME \/ CheckDuplicate(p) \/ GetByID(p) \/ ReadAccount(p) \/ ReadClient(p)
             \/ AddDone(p) \/ PushDone(p) \/ AppendToFile(p) \/ AppendFailed(p)
             \/ EraseFromFile(p) \/ RemoveDone(p)
      PROVE  UNCHANGED <<user, client>>
  BY <1>7, Zenon DEF CheckDuplicate, GetByID, ReadAccount, ReadClient, AddDone, PushDone,
     AppendToFile, AppendFailed, EraseFromFile, RemoveDone
<1>8. ASSUME NEW i \in Inbounds,
             \/ AddClientRPC(p, i) \/ PushRPC(p, i) \/ ReadToAppend(p, i)
             \/ RemoveRPC(p, i) \/ ReadToRemove(p, i)
      PROVE  UNCHANGED <<user, client>>
  BY <1>8, Zenon DEF AddClientRPC, PushRPC, ReadToAppend, RemoveRPC, ReadToRemove
<1> QED BY <1>u, <1>1, <1>2, <1>3, <1>4, <1>5, <1>6, <1>7, <1>8, Zenon DEF Handler

(* A Sync never sets a flag of an account or client that exists.           *)
LEMMA SyncFlags ==
    ASSUME TypeOK, NEW s \in Syncs, SyncStart(s) \/ SyncStep(s)
    PROVE  \A u \in Users : FlagsKept(u)
<1>h. y[s].u \in Users /\ y[s].i \in Inbounds
  BY DEF TypeOK, SyncState
<1>u. ASSUME UNCHANGED <<user, client>> PROVE \A u \in Users : FlagsKept(u)
  BY <1>u DEF FlagsKept
<1>1. ASSUME SyncCreateUser(s) PROVE \A u \in Users : FlagsKept(u)
  BY <1>1, <1>h, <1>u, CreateFlags DEF SyncCreateUser, db
<1>2. ASSUME SyncLink(s) PROVE \A u \in Users : FlagsKept(u)
  BY <1>2, <1>h, UpsertFlags DEF SyncLink
<1>3. ASSUME \/ SyncStart(s) \/ SyncEntriesDone(s) \/ SyncIdents(s) \/ SyncWrite(s)
             \/ SyncFlushed(s) \/ SyncListDone(s) \/ RestoreNext(s) \/ RestoreDone(s)
      PROVE  UNCHANGED <<user, client>>
  BY <1>3, Zenon DEF SyncStart, SyncEntriesDone, SyncIdents, SyncWrite, SyncFlushed,
     SyncListDone, RestoreNext, RestoreDone
<1>4. ASSUME NEW i \in Inbounds, NEW u \in Users,
             \/ SyncList(s, i) \/ RestoreList(s, i) \/ SyncLookup(s, i, u)
             \/ SyncRead(s, u) \/ RestoreUser(s, u)
      PROVE  UNCHANGED <<user, client>>
  BY <1>4, Zenon DEF SyncList, RestoreList, SyncLookup, SyncRead, RestoreUser
<1>5. \E i \in Inbounds, u \in Users : TRUE
  BY <1>h
<1> QED BY <1>u, <1>1, <1>2, <1>3, <1>4, <1>5, Zenon DEF SyncStep

(* OpInv holds throughout.                                               *)
LEMMA NextOpInv == RowInv /\ OpInv /\ [Next]_vars => OpInv'
<1> SUFFICES ASSUME RowInv, OpInv, [Next]_vars PROVE OpInv'
  OBVIOUS
<1>1. ASSUME NEW p \in Handlers, Handler(p) PROVE OpInv'
  BY <1>1, HandlerOpInv DEF RowInv
<1>2. ASSUME NEW s \in Syncs, SyncStart(s) \/ SyncStep(s) PROVE OpInv'
  <2>1. UNCHANGED h
    <3>1. ASSUME SyncCreateUser(s) PROVE UNCHANGED h
      BY <3>1 DEF SyncCreateUser
    <3>2. CASE ~SyncCreateUser(s)
      BY <1>2, <3>2, SyncHolds
    <3> QED BY <3>1, <3>2
  <2> QED BY <2>1 DEF OpInv
<1>3. ASSUME NEW s \in Syncs, Crash(s) PROVE OpInv'
  BY <1>3 DEF Crash, OpInv, IdleHandler
<1>4. ASSUME XrayRestart \/ \E i \in Inbounds, u \in Edited : EditConfig(i, u) PROVE OpInv'
  BY <1>4 DEF XrayRestart, EditConfig, OpInv
<1>5. CASE UNCHANGED vars
  BY <1>5 DEF vars, OpInv
<1> QED BY <1>1, <1>2, <1>3, <1>4, <1>5 DEF Next

(* Whatever requests, Syncs, crashes and restarts interleave, a disabled   *)
(* account or client stays disabled until it is deleted or a request to    *)
(* enable or add it is being served.                                       *)
THEOREM ProvisionDisabled == Spec => DisabledStaysDisabled
<1>1. RowInv /\ OpInv /\ [Next]_vars => [\A u \in Users : FlagsKept(u)]_vars
  <2> SUFFICES ASSUME RowInv, OpInv, Next PROVE \A u \in Users : FlagsKept(u)
    OBVIOUS
  <2>t. TypeOK
    BY DEF RowInv
  <2>1. ASSUME NEW p \in Handlers, Handler(p) PROVE \A u \in Users : FlagsKept(u)
    BY <2>1, HandlerFlags
  <2>2. ASSUME NEW s \in Syncs, SyncStart(s) \/ SyncStep(s) PROVE \A u \in Users : FlagsKept(u)
    BY <2>2, <2>t, SyncFlags
  <2>3. ASSUME UNCHANGED <<user, client>> PROVE \A u \in Users : FlagsKept(u)
    BY <2>3 DEF FlagsKept
  <2>4. ASSUME NEW s \in Syncs, Crash(s) PROVE UNCHANGED <<user, client>>
    BY <2>4 DEF Crash
  <2>5. XrayRestart \/ (\E i \in Inbounds, u \in Edited : EditConfig(i, u))
          => UNCHANGED <<user, client>>
    BY DEF XrayRestart, EditConfig
  <2> QED BY <2>1, <2>2, <2>3, <2>4, <2>5, Zenon DEF Next
<1>2. Spec => [](RowInv /\ OpInv)
  BY InitRowInv, InitOpInv, NextRowInv, NextOpInv, PTL DEF Spec
<1>3. Spec => [][\A u \in Users : FlagsKept(u)]_vars
  BY <1>1, <1>2, PTL DEF Spec
<1> QED BY <1>3 DEF DisabledStaysDisabled, FlagsKept

(***************************************************************************)
(* Nobody holds somebody else's credential.  owner grows, so the facts     *)
(* below name the history they are about: o is owner before or after.      *)
(***************************************************************************)

OwnIn(o, c, u) == c = 0 \/ (c \in 1..Len(o) /\ o[c] = u)
AllOwn(o, e) == \A u \in Users : \A k \in 1..Len(e[u]) : e[u][k] # 0 /\ OwnIn(o, e[u][k], u)
RowsOwn(o, rows) == \A u \in Users, i \in Inbounds : OwnIn(o, rows[u][i].cred, u)
RunOwn(o, xray) == \A u \in Users, i \in Inbounds : OwnIn(o, xray[i][u], u)
FilesOwn(o, f) == \A i \in Inbounds : AllOwn(o, f[i])

(* A handler about to store or push a credential has one.                  *)
Ready(r) ==
    /\ r.pc \in {"append", "reappend"} => r.creds[r.i] # 0
    /\ r.pc \in {"push", "reappend"} => \A i \in r.todo : r.creds[i] # 0
    /\ r.pc = "flag" => r.todo = {r.i} /\ r.creds[r.i] # 0
    /\ r.pc \in {"lookup", "clients"} /\ r.op \in ClientOps => r.todo = {r.i}

HandlerOwns(o, r) ==
    /\ \A i \in Inbounds : OwnIn(o, r.creds[i], r.u)
    /\ AllOwn(o, r.buf)
    /\ Ready(r)

SyncOwns(o, r) ==
    /\ \A i \in Inbounds : AllOwn(o, r.snap[i])
    /\ \A u \in Users : OwnIn(o, r.want[u], u)
    /\ AllOwn(o, r.buf)
    /\ r.pc = "write" => r.want[r.u] # 0

(* CredentialsOwned and CarriedOwned, part by part.                        *)
LEMMA OwnedParts ==
    /\ CredentialsOwned <=> RowsOwn(owner, client) /\ RunOwn(owner, run) /\ FilesOwn(owner, file)
    /\ CarriedOwned <=> /\ \A p \in Handlers : HandlerOwns(owner, h[p])
                        /\ \A s \in Syncs : SyncOwns(owner, y[s])
BY Zenon DEF CredentialsOwned, CarriedOwned, OwnedBy, EntriesOwned, OwnIn, AllOwn, RowsOwn, RunOwn,
   FilesOwn, Ready, HandlerOwns, SyncOwns

(* The same in the next state.                                             *)
LEMMA OwnedPartsNext ==
    /\ CredentialsOwned' <=>
         RowsOwn(owner', client') /\ RunOwn(owner', run') /\ FilesOwn(owner', file')
    /\ CarriedOwned' <=> /\ \A p \in Handlers : HandlerOwns(owner', h'[p])
                         /\ \A s \in Syncs : SyncOwns(owner', y'[s])
BY Zenon DEF CredentialsOwned, CarriedOwned, OwnedBy, EntriesOwned, OwnIn, AllOwn, RowsOwn, RunOwn,
   FilesOwn, Ready, HandlerOwns, SyncOwns

(* Generating a credential takes nothing from anybody.                     *)
LEMMA GrowOwns ==
    ASSUME NEW o \in Seq(Users), NEW v \in Users
    PROVE  /\ \A c, u : OwnIn(o, c, u) => OwnIn(Append(o, v), c, u)
           /\ \A e : AllOwn(o, e) => AllOwn(Append(o, v), e)
           /\ \A rows : RowsOwn(o, rows) => RowsOwn(Append(o, v), rows)
           /\ \A xray : RunOwn(o, xray) => RunOwn(Append(o, v), xray)
           /\ \A f : FilesOwn(o, f) => FilesOwn(Append(o, v), f)
           /\ \A r : HandlerOwns(o, r) => HandlerOwns(Append(o, v), r)
           /\ \A r : SyncOwns(o, r) => SyncOwns(Append(o, v), r)
           /\ OwnIn(Append(o, v), Len(o) + 1, v) /\ Len(o) + 1 # 0
<1>1. ASSUME NEW c, NEW u, OwnIn(o, c, u) PROVE OwnIn(Append(o, v), c, u)
  <2>1. Len(o) \in Nat /\ Len(Append(o, v)) = Len(o) + 1
    OBVIOUS
  <2>2. ASSUME c \in 1..Len(o) PROVE c \in 1..(Len(o) + 1) /\ Append(o, v)[c] = o[c]
    BY <2>2
  <2> QED BY <1>1, <2>1, <2>2 DEF OwnIn
<1>2. OwnIn(Append(o, v), Len(o) + 1, v) /\ Len(o) + 1 # 0
  BY DEF OwnIn
<1>3. ASSUME NEW e, AllOwn(o, e) PROVE AllOwn(Append(o, v), e)
  BY <1>1, <1>3, Zenon DEF AllOwn
<1>4. /\ \A rows : RowsOwn(o, rows) => RowsOwn(Append(o, v), rows)
      /\ \A xray : RunOwn(o, xray) => RunOwn(Append(o, v), xray)
      /\ \A f : FilesOwn(o, f) => FilesOwn(Append(o, v), f)
  BY <1>1, <1>3, Zenon DEF RowsOwn, RunOwn, FilesOwn
<1>5. /\ \A r : HandlerOwns(o, r) => HandlerOwns(Append(o, v), r)
      /\ \A r : SyncOwns(o, r) => SyncOwns(Append(o, v), r)
  BY <1>1, <1>3, Zenon DEF HandlerOwns, SyncOwns
<1> QED BY <1>1, <1>2, <1>3, <1>4, <1>5, Zenon

(* Rewriting a file from a copy whose entries are owned: with one entry    *)
(* more, without an identity, or without its first entry.                  *)
LEMMA EntriesOwn ==
    ASSUME NEW o, NEW e \in Entries, AllOwn(o, e), NEW u \in Users
    PROVE  /\ \A c \in Nat \ {0} : OwnIn(o, c, u) => AllOwn(o, [e EXCEPT ![u] = Append(@, c)])
           /\ AllOwn(o, [e EXCEPT ![u] = <<>>])
           /\ e[u] # <<>> => /\ AllOwn(o, [e EXCEPT ![u] = Tail(@)])
                             /\ Head(e[u]) # 0 /\ OwnIn(o, Head(e[u]), u)
<1>t. e[u] \in Seq(Nat) /\ Len(e[u]) \in Nat
  BY DEF Entries
<1>v. \A w : \A v \in Users : [e EXCEPT ![u] = w][v] = IF v = u THEN w ELSE e[v]
  BY DEF Entries
<1>a. \A k \in 1..Len(e[u]) : e[u][k] # 0 /\ OwnIn(o, e[u][k], u)
  BY DEF AllOwn
<1>p. ASSUME NEW w, \A k \in 1..Len(w) : w[k] # 0 /\ OwnIn(o, w[k], u)
      PROVE  AllOwn(o, [e EXCEPT ![u] = w])
  <2> DEFINE f == [e EXCEPT ![u] = w]
  <2>1. f[u] = w /\ \A v \in Users \ {u} : f[v] = e[v]
    BY <1>v
  <2> HIDE DEF f
  <2>2. ASSUME NEW v \in Users PROVE \A k \in 1..Len(f[v]) : f[v][k] # 0 /\ OwnIn(o, f[v][k], v)
    <3>1. CASE v = u
      BY <1>p, <2>1, <3>1
    <3>2. CASE v # u
      BY <2>1, <3>2 DEF AllOwn
    <3> QED BY <3>1, <3>2
  <2>3. AllOwn(o, f)
    BY <2>2 DEF AllOwn
  <2> QED BY <2>3 DEF f
<1>1. ASSUME NEW c \in Nat \ {0}, OwnIn(o, c, u) PROVE AllOwn(o, [e EXCEPT ![u] = Append(@, c)])
  <2> DEFINE w == Append(e[u], c)
  <2>1. Len(w) = Len(e[u]) + 1 /\ w[Len(e[u]) + 1] = c /\ \A k \in 1..Len(e[u]) : w[k] = e[u][k]
    BY <1>t
  <2> HIDE DEF w
  <2>2. \A k \in 1..Len(w) : k \in 1..Len(e[u]) \/ k = Len(e[u]) + 1
    BY <1>t, <2>1
  <2>3. ASSUME NEW k \in 1..Len(w) PROVE w[k] # 0 /\ OwnIn(o, w[k], u)
    BY <1>1, <1>a, <2>1, <2>2
  <2> QED BY <1>p, <2>3 DEF w
<1>2. AllOwn(o, [e EXCEPT ![u] = <<>>])
  <2>1. \A k \in 1..Len(<<>>) : FALSE
    OBVIOUS
  <2> QED BY <1>p, <2>1
<1>3. ASSUME e[u] # <<>>
      PROVE  /\ AllOwn(o, [e EXCEPT ![u] = Tail(@)])
             /\ Head(e[u]) # 0 /\ OwnIn(o, Head(e[u]), u)
  <2> DEFINE w == Tail(e[u])
  <2>1. 1 \in 1..Len(e[u]) /\ Head(e[u]) = e[u][1]
    BY <1>t, <1>3
  <2>2. Len(w) = Len(e[u]) - 1 /\ \A k \in 1..Len(w) : w[k] = e[u][k + 1] /\ k + 1 \in 1..Len(e[u])
    BY <1>t, <1>3, <2>1
  <2> HIDE DEF w
  <2>3. ASSUME NEW k \in 1..Len(w) PROVE w[k] # 0 /\ OwnIn(o, w[k], u)
    BY <1>a, <2>2
  <2>4. AllOwn(o, [e EXCEPT ![u] = w])
    BY <1>p, <2>3
  <2> QED BY <1>a, <2>1, <2>4 DEF w
<1> QED BY <1>1, <1>2, <1>3

(* The effects on config.d and on the running Xray.                        *)
LEMMA EffectsOwn ==
    ASSUME TypeOK, NEW o, NEW i \in Inbounds, NEW u \in Users
    PROVE  /\ AllOwn(o, NoEntries)
           /\ \A buf \in Entries, c \in Nat \ {0} :
                FilesOwn(o, file) /\ AllOwn(o, buf) /\ OwnIn(o, c, u)
                  => FilesOwn(o, WithEntry(i, u, buf, c))
           /\ \A buf \in Entries :
                FilesOwn(o, file) /\ AllOwn(o, buf) => FilesOwn(o, WithoutEntry(i, u, buf))
           /\ \A c : RunOwn(o, run) /\ OwnIn(o, c, u) => RunOwn(o, Added(i, u, c))
           /\ \A c : RunOwn(o, run) /\ OwnIn(o, c, u) /\ AddUserRPC(i, u, c) => RunOwn(o, run')
           /\ RunOwn(o, run) /\ RemoveUserRPC(i, u) => RunOwn(o, run')
<1>1. AllOwn(o, NoEntries)
  BY DEF AllOwn, NoEntries
<1>f. ASSUME NEW e, FilesOwn(o, file), AllOwn(o, e) PROVE FilesOwn(o, [file EXCEPT ![i] = e])
  BY <1>f DEF FilesOwn, TypeOK
<1>r. ASSUME NEW c, RunOwn(o, run), OwnIn(o, c, u) PROVE RunOwn(o, [run EXCEPT ![i][u] = c])
  <2>1. run \in [Inbounds -> [Users -> Nat]]
    BY DEF TypeOK
  <2>2. \A j \in Inbounds, v \in Users :
          [run EXCEPT ![i][u] = c][j][v] = IF j = i /\ v = u THEN c ELSE run[j][v]
    BY <2>1
  <2> QED BY <1>r, <2>2 DEF RunOwn
<1>2. ASSUME NEW buf \in Entries, NEW c \in Nat \ {0}, FilesOwn(o, file), AllOwn(o, buf),
             OwnIn(o, c, u)
      PROVE  FilesOwn(o, WithEntry(i, u, buf, c))
  <2>1. AllOwn(o, [buf EXCEPT ![u] = Append(@, c)])
    BY <1>2, EntriesOwn
  <2> QED BY <1>2, <1>f, <2>1 DEF WithEntry
<1>3. ASSUME NEW buf \in Entries, FilesOwn(o, file), AllOwn(o, buf)
      PROVE  FilesOwn(o, WithoutEntry(i, u, buf))
  <2>1. AllOwn(o, [buf EXCEPT ![u] = <<>>])
    BY <1>3, EntriesOwn
  <2> QED BY <1>3, <1>f, <2>1 DEF WithoutEntry
<1>4. ASSUME NEW c, RunOwn(o, run), OwnIn(o, c, u) PROVE RunOwn(o, Added(i, u, c))
  BY <1>4, <1>r DEF Added
<1>5. ASSUME NEW c, RunOwn(o, run), OwnIn(o, c, u), AddUserRPC(i, u, c) PROVE RunOwn(o, run')
  BY <1>4, <1>5, Zenon DEF AddUserRPC
<1>6. ASSUME RunOwn(o, run), RemoveUserRPC(i, u) PROVE RunOwn(o, run')
  <2>1. OwnIn(o, 0, u)
    BY DEF OwnIn
  <2> QED BY <1>r, <1>6, <2>1, Zenon DEF RemoveUserRPC
<1> QED BY <1>1, <1>2, <1>3, <1>4, <1>5, <1>6, Zenon

(* The statements of an account's holder: what it writes stays on that     *)
(* account, and what it reads is that account's.                           *)
LEMMA StatementsOwn ==
    ASSUME TypeOK, NEW o, RowsOwn(o, client), NEW id \in Nat, NEW i \in Inbounds, NEW u \in Users,
           \A v \in Users : Has(v, id) => v = u
    PROVE  /\ \A c : OwnIn(o, c, u) /\ UpsertUserClient(id, i, c) => RowsOwn(o, client')
           /\ \A b : SetUserClientEnabled(id, i, b) => RowsOwn(o, client')
           /\ DeleteUser(id) => RowsOwn(o, client')
           /\ \A j \in Inbounds : OwnIn(o, GetAllUserClients(id)[j], u)
           /\ \A j \in Inbounds : OwnIn(o, GetUserClients(id)[j], u)
<1>t. \A v \in Users : client[v] \in [Inbounds -> [cred : Nat, enabled : BOOLEAN]]
  BY DEF TypeOK
<1>e. ASSUME NEW v \in Users, NEW c, NEW b, NEW j \in Inbounds
      PROVE  [client[v] EXCEPT ![i] = [cred |-> c, enabled |-> b]][j].cred
               = IF j = i THEN c ELSE client[v][j].cred
  BY <1>t
<1>0. OwnIn(o, 0, u) /\ \A v \in Users : OwnIn(o, 0, v)
  BY DEF OwnIn
<1>1. ASSUME NEW c, OwnIn(o, c, u), UpsertUserClient(id, i, c) PROVE RowsOwn(o, client')
  <2>1. ASSUME NEW v \in Users, NEW j \in Inbounds PROVE OwnIn(o, client'[v][j].cred, v)
    <3>1. CASE Has(v, id)
      <4> DEFINE b == client[v][i].cred = 0 \/ client[v][i].enabled
      <4>1. client'[v] = [client[v] EXCEPT ![i] = [cred |-> c, enabled |-> b]]
        BY <1>1, <3>1, Zenon DEF UpsertUserClient
      <4> HIDE DEF b
      <4>2. client'[v][j].cred = IF j = i THEN c ELSE client[v][j].cred
        BY <1>e, <4>1
      <4> QED BY <1>1, <3>1, <4>2 DEF RowsOwn
    <3>2. CASE ~Has(v, id)
      BY <1>1, <3>2 DEF UpsertUserClient, RowsOwn
    <3> QED BY <3>1, <3>2
  <2> QED BY <2>1 DEF RowsOwn
<1>2. ASSUME NEW b, SetUserClientEnabled(id, i, b) PROVE RowsOwn(o, client')
  <2>1. ASSUME NEW v \in Users, NEW j \in Inbounds PROVE client'[v][j].cred = client[v][j].cred
    <3>1. \/ client'[v] = client[v]
          \/ client'[v] = [client[v] EXCEPT ![i] = [cred |-> client[v][i].cred, enabled |-> b]]
      BY <1>2, Zenon DEF SetUserClientEnabled
    <3>2. CASE client'[v] = client[v]
      BY <3>2
    <3>3. CASE client'[v] = [client[v] EXCEPT ![i] = [cred |-> client[v][i].cred, enabled |-> b]]
      <4>1. client'[v][j].cred = IF j = i THEN client[v][i].cred ELSE client[v][j].cred
        BY <1>e, <3>3
      <4> QED BY <4>1
    <3> QED BY <3>1, <3>2, <3>3
  <2> QED BY <2>1 DEF RowsOwn
<1>3. ASSUME DeleteUser(id) PROVE RowsOwn(o, client')
  <2>1. ASSUME NEW v \in Users, NEW j \in Inbounds PROVE client'[v][j].cred \in {client[v][j].cred, 0}
    BY <1>3 DEF DeleteUser, NoClient
  <2> QED BY <1>0, <2>1 DEF RowsOwn
<1>4. ASSUME NEW j \in Inbounds PROVE OwnIn(o, GetAllUserClients(id)[j], u)
  <2>1. CASE \E v \in Users : Has(v, id)
    <3>1. (CHOOSE v \in Users : Has(v, id)) = u
      BY <2>1
    <3>2. GetAllUserClients(id)[j] = client[u][j].cred
      BY <2>1, <3>1 DEF GetAllUserClients
    <3> QED BY <3>2 DEF RowsOwn
  <2>2. CASE ~\E v \in Users : Has(v, id)
    BY <1>0, <2>2 DEF GetAllUserClients
  <2> QED BY <2>1, <2>2
<1>5. ASSUME NEW j \in Inbounds PROVE OwnIn(o, GetUserClients(id)[j], u)
  <2>1. GetUserClients(id)[j] \in {0, GetAllUserClients(id)[j]}
    BY DEF GetUserClients
  <2> QED BY <1>0, <1>4, <2>1
<1> QED BY <1>1, <1>2, <1>3, <1>4, <1>5, Zenon

(* What a step must establish: at most one credential is generated, and    *)
(* rows, runtime and files stay owned.                                     *)
StoredOwn ==
    /\ owner' = owner \/ \E v \in Users : owner' = Append(owner, v)
    /\ RowsOwn(owner', client') /\ RunOwn(owner', run') /\ FilesOwn(owner', file')

(* Every step of an admin handler keeps what is stored and what it carries *)
(* owned.                                                                  *)
LEMMA HandlerOwnsStep ==
    ASSUME IInv, NEW p \in Handlers, Handler(p)
    PROVE  /\ StoredOwn /\ UNCHANGED y
           /\ HandlerOwns(owner', h'[p]) /\ \A q \in Handlers \ {p} : h'[q] = h[q]
<1>t. TypeOK /\ OpInv
  BY DEF IInv, RowInv
<1>h. h \in [Handlers -> HandlerState] /\ h[p] \in HandlerState
  BY <1>t DEF TypeOK
<1>f. /\ h[p].pc \in HandlerPC /\ h[p].op \in AllOps /\ h[p].u \in Users /\ h[p].id \in Nat
      /\ h[p].todo \in SUBSET Inbounds /\ h[p].i \in Inbounds
      /\ h[p].creds \in [Inbounds -> Nat] /\ h[p].buf \in Entries
  BY <1>h DEF HandlerState
<1>v. owner \in Seq(Users) /\ Len(owner) \in Nat /\ file \in [Inbounds -> Entries]
  BY <1>t DEF TypeOK
<1>o. /\ RowsOwn(owner, client) /\ RunOwn(owner, run) /\ FilesOwn(owner, file)
      /\ HandlerOwns(owner, h[p])
  BY OwnedParts DEF IInv
<1>a. /\ \A i \in Inbounds : OwnIn(owner, h[p].creds[i], h[p].u)
      /\ AllOwn(owner, h[p].buf) /\ Ready(h[p])
  BY <1>o DEF HandlerOwns
<1>s. h[p].id # 0 => \A v \in Users : Has(v, h[p].id) => v = h[p].u
  BY DEF IInv, RowInv, HeldIdsSafe
<1>d. h[p].pc \notin {"idle", "check", "insert", "lookup"} => h[p].id # 0
  BY DEF IInv, RowInv, HeldIdsGiven
<1>n. AllOwn(owner, NoEntries)
  BY <1>f, <1>t, EffectsOwn
<1> DEFINE Others == UNCHANGED y /\ \A q \in Handlers \ {p} : h'[q] = h[q]
           Goal == StoredOwn /\ HandlerOwns(owner', h'[p]) /\ Others
<1>g. ASSUME NEW r, Goto(p, r), UNCHANGED y PROVE h'[p] = r /\ Others
  BY <1>g, <1>h DEF Goto
<1>k. ASSUME NEW r, r.u = h[p].u, r.creds = h[p].creds, r.buf \in {h[p].buf, NoEntries}, Ready(r)
      PROVE  HandlerOwns(owner, r)
  BY <1>k, <1>a, <1>n DEF HandlerOwns
<1>i. HandlerOwns(owner, IdleHandler)
  <2>1. /\ IdleHandler.pc = "idle" /\ IdleHandler.buf = NoEntries
        /\ \A i \in Inbounds : IdleHandler.creds[i] = 0
    BY DEF IdleHandler, NoCreds
  <2> QED BY <1>n, <2>1 DEF HandlerOwns, Ready, OwnIn
<1> HIDE DEF Others
<1>u. ASSUME NEW r, Goto(p, r), HandlerOwns(owner, r), UNCHANGED <<owner, client, run, file, y>>
      PROVE  Goal
  BY <1>u, <1>g, <1>o DEF StoredOwn
<1>w. ASSUME Finish(p), UNCHANGED <<owner, client, run, file, y>> PROVE Goal
  BY <1>i, <1>u, <1>w DEF Finish
<1>1. ASSUME NEW o \in Ops, NEW u \in Users, NEW is \in SUBSET Inbounds, Request(p, o, u, is),
             o \in ClientOps => \E j \in Inbounds : is = {j}
      PROVE  Goal
  <2> DEFINE i == IF is = {} THEN SomeInbound ELSE CHOOSE i \in is : TRUE
             pc == IF o = "createUser" THEN "check" ELSE "lookup"
             r == [IdleHandler EXCEPT !.pc = pc, !.op = o, !.u = u, !.asked = is, !.todo = is, !.i = i]
  <2>1. o \in ClientOps => is = {i}
    BY <1>1
  <2>2. pc \in {"check", "lookup"}
    OBVIOUS
  <2> HIDE DEF i, pc
  <2>3. /\ r.buf = NoEntries /\ r.pc = pc /\ r.op = o /\ r.todo = is /\ r.i = i
        /\ \A j \in Inbounds : r.creds[j] = 0
    BY DEF IdleHandler, NoCreds
  <2>4. Goto(p, r) /\ UNCHANGED <<owner, client, run, file, y>>
    BY <1>1, Zenon DEF Request, i, pc
  <2> HIDE DEF r
  <2>5. HandlerOwns(owner, r)
    BY <1>n, <2>1, <2>2, <2>3 DEF HandlerOwns, Ready, OwnIn
  <2> QED BY <1>u, <2>4, <2>5
<1>2. ASSUME CheckDuplicate(p) PROVE Goal
  <2> DEFINE r == [h[p] EXCEPT !.pc = "insert"]
  <2>1. r.u = h[p].u /\ r.creds = h[p].creds /\ r.buf = h[p].buf /\ Ready(r)
    BY <1>h DEF HandlerState, Ready
  <2>2. (Finish(p) \/ Goto(p, r)) /\ UNCHANGED <<owner, client, run, file, y>>
    BY <1>2, Zenon DEF CheckDuplicate
  <2> HIDE DEF r, Goal
  <2> QED BY <1>k, <1>u, <1>w, <2>1, <2>2
<1>3. ASSUME InsertUser(p) PROVE Goal
  <2> DEFINE r == [h[p] EXCEPT !.pc = "add", !.id = lastId + 1]
  <2>1. r.u = h[p].u /\ r.creds = h[p].creds /\ r.buf = h[p].buf /\ Ready(r)
    BY <1>h DEF HandlerState, Ready
  <2>2. (Finish(p) \/ Goto(p, r)) /\ UNCHANGED <<owner, client, run, file, y>>
    BY <1>3 DEF InsertUser, CreateUser, db
  <2> HIDE DEF r, Goal
  <2> QED BY <1>k, <1>u, <1>w, <2>1, <2>2
<1>4. ASSUME GetByID(p) PROVE Goal
  <2> DEFINE pc == IF h[p].op \in {"enableUser", "disableUser"} THEN "update" ELSE "clients"
             r == [h[p] EXCEPT !.id = user[h[p].u].id, !.pc = pc]
  <2>1. pc \in {"update", "clients"} /\ h[p].pc = "lookup"
    BY <1>4 DEF GetByID
  <2>2. (Finish(p) \/ Goto(p, r)) /\ UNCHANGED <<owner, client, run, file, y>>
    BY <1>4, Zenon DEF GetByID
  <2> HIDE DEF pc
  <2>3. /\ r.u = h[p].u /\ r.creds = h[p].creds /\ r.buf = h[p].buf /\ r.pc = pc
        /\ r.op = h[p].op /\ r.todo = h[p].todo /\ r.i = h[p].i
    BY <1>h DEF HandlerState
  <2> HIDE DEF r, Goal
  <2>4. Ready(r)
    BY <1>a, <2>1, <2>3 DEF Ready
  <2> QED BY <1>k, <1>u, <1>w, <2>2, <2>3, <2>4
<1>5. ASSUME UpdateUser(p) PROVE Goal
  <2> DEFINE r == [h[p] EXCEPT !.pc = "clients"]
  <2>1. /\ r.u = h[p].u /\ r.creds = h[p].creds /\ r.buf = h[p].buf /\ r.pc = "clients"
        /\ r.op = h[p].op
    BY <1>h DEF HandlerState
  <2>2. Goto(p, r) /\ UNCHANGED <<owner, client, run, file, y>> /\ h[p].pc = "update"
    BY <1>5, Zenon DEF UpdateUser
  <2> HIDE DEF r, Goal
  <2>3. r.op \notin ClientOps
    BY <1>t, <2>1, <2>2 DEF OpInv, ClientOps
  <2>4. Ready(r)
    BY <2>1, <2>3 DEF Ready
  <2> QED BY <1>k, <1>u, <2>1, <2>2, <2>4
<1>6. ASSUME ReadAccount(p) PROVE Goal
  <2> DEFINE rows == GetUserClients(h[p].id)
             is == {i \in Inbounds : rows[i] # 0}
             pc == IF h[p].op = "enableUser" THEN "push" ELSE "remove"
             r == [h[p] EXCEPT !.todo = is, !.asked = is, !.creds = rows, !.pc = pc]
  <2>1. (Finish(p) \/ Goto(p, r)) /\ UNCHANGED <<owner, client, run, file, y>> /\ h[p].pc = "clients"
    BY <1>6, Zenon DEF ReadAccount
  <2>2. \A i \in Inbounds : OwnIn(owner, rows[i], h[p].u)
    BY <1>t, <1>o, <1>f, <1>s, <1>d, <2>1, StatementsOwn
  <2>3. pc \in {"push", "remove"} /\ \A i \in is : rows[i] # 0
    OBVIOUS
  <2> HIDE DEF rows, is, pc
  <2>4. r.u = h[p].u /\ r.creds = rows /\ r.buf = h[p].buf /\ r.pc = pc /\ r.todo = is
    BY <1>h DEF HandlerState
  <2> HIDE DEF r, Goal
  <2>5. HandlerOwns(owner, r)
    BY <1>a, <2>2, <2>3, <2>4 DEF HandlerOwns, Ready
  <2> QED BY <1>u, <1>w, <2>1, <2>5
<1>7. ASSUME ReadClient(p) PROVE Goal
  <2> DEFINE rows == GetAllUserClients(h[p].id)
             r == [h[p] EXCEPT !.creds = rows, !.pc = "flag"]
             q == [h[p] EXCEPT !.pc = "add"]
  <2>1. /\ Finish(p) \/ Goto(p, q) \/ (Goto(p, r) /\ rows[h[p].i] # 0)
        /\ UNCHANGED <<owner, client, run, file, y>>
        /\ h[p].pc = "clients" /\ h[p].op \in ClientOps
    BY <1>7, Zenon DEF ReadClient
  <2>2. \A i \in Inbounds : OwnIn(owner, rows[i], h[p].u)
    BY <1>t, <1>o, <1>f, <1>s, <1>d, <2>1, StatementsOwn
  <2> HIDE DEF rows
  <2>3. /\ r.u = h[p].u /\ r.creds = rows /\ r.buf = h[p].buf /\ r.pc = "flag"
        /\ r.todo = h[p].todo /\ r.i = h[p].i
    BY <1>h DEF HandlerState
  <2>4. q.u = h[p].u /\ q.creds = h[p].creds /\ q.buf = h[p].buf /\ Ready(q)
    BY <1>h DEF HandlerState, Ready
  <2> HIDE DEF r, q, Goal
  <2>5. rows[h[p].i] # 0 => HandlerOwns(owner, r)
    BY <1>a, <2>1, <2>2, <2>3 DEF HandlerOwns, Ready
  <2> QED BY <1>k, <1>u, <1>w, <2>1, <2>4, <2>5
<1>8. ASSUME FlagClient(p) PROVE Goal
  <2> DEFINE pc == IF h[p].op = "disableClient" THEN "remove" ELSE "push"
             r == [h[p] EXCEPT !.pc = pc]
  <2>1. /\ Goto(p, r) /\ UNCHANGED <<owner, run, file, y>> /\ h[p].pc = "flag"
        /\ SetUserClientEnabled(h[p].id, h[p].i, h[p].op # "disableClient")
    BY <1>8, Zenon DEF FlagClient
  <2>2. RowsOwn(owner, client')
    BY <1>t, <1>o, <1>f, <1>s, <1>d, <2>1, StatementsOwn
  <2>3. pc \in {"push", "remove"}
    OBVIOUS
  <2> HIDE DEF pc
  <2>4. /\ r.u = h[p].u /\ r.creds = h[p].creds /\ r.buf = h[p].buf /\ r.pc = pc
        /\ r.todo = h[p].todo /\ r.i = h[p].i
    BY <1>h DEF HandlerState
  <2> HIDE DEF r
  <2>5. Ready(r)
    BY <1>a, <2>1, <2>3, <2>4 DEF Ready
  <2> QED BY <1>g, <1>k, <1>o, <2>1, <2>2, <2>4, <2>5 DEF StoredOwn
<1>9. ASSUME UpsertClient(p) PROVE Goal
  <2> DEFINE r == [h[p] EXCEPT !.todo = @ \ {h[p].i}, !.pc = "add"]
  <2>1. /\ Goto(p, r) /\ UNCHANGED <<owner, run, file, y>> /\ h[p].pc = "upsert"
        /\ UpsertUserClient(h[p].id, h[p].i, h[p].creds[h[p].i])
    BY <1>9, Zenon DEF UpsertClient
  <2>2. RowsOwn(owner, client')
    BY <1>t, <1>o, <1>a, <1>f, <1>s, <1>d, <2>1, StatementsOwn
  <2>3. r.u = h[p].u /\ r.creds = h[p].creds /\ r.buf = h[p].buf /\ Ready(r)
    BY <1>h DEF HandlerState, Ready
  <2> HIDE DEF r
  <2> QED BY <1>g, <1>k, <1>o, <2>1, <2>2, <2>3 DEF StoredOwn
<1>10. ASSUME DeleteAccount(p) PROVE Goal
  <2>1. /\ Goto(p, IdleHandler) /\ UNCHANGED <<owner, run, file, y>> /\ h[p].pc = "delete"
        /\ DeleteUser(h[p].id)
    BY <1>10, Zenon DEF DeleteAccount, Finish
  <2>2. RowsOwn(owner, client')
    BY <1>t, <1>o, <1>f, <1>s, <1>d, <2>1, StatementsOwn
  <2> QED BY <1>g, <1>i, <1>o, <2>1, <2>2 DEF StoredOwn
<1>11. ASSUME AddDone(p) \/ PushDone(p) PROVE Goal
  BY <1>11, <1>w, Zenon DEF AddDone, PushDone
<1>12. ASSUME RemoveDone(p) PROVE Goal
  <2> DEFINE r == [h[p] EXCEPT !.pc = "delete"]
  <2>1. r.u = h[p].u /\ r.creds = h[p].creds /\ r.buf = h[p].buf /\ Ready(r)
    BY <1>h DEF HandlerState, Ready
  <2>2. (Finish(p) \/ Goto(p, r)) /\ UNCHANGED <<owner, client, run, file, y>>
    BY <1>12, Zenon DEF RemoveDone
  <2> HIDE DEF r, Goal
  <2> QED BY <1>k, <1>u, <1>w, <2>1, <2>2
<1>13. ASSUME AppendToFile(p) PROVE Goal
  <2> DEFINE a == [h[p] EXCEPT !.pc = "upsert", !.buf = NoEntries]
             b == [h[p] EXCEPT !.pc = "push", !.todo = @ \ {h[p].i}, !.buf = NoEntries]
  <2>1. /\ UNCHANGED <<owner, client, run, y>> /\ h[p].pc \in {"append", "reappend"}
        /\ file' = WithEntry(h[p].i, h[p].u, h[p].buf, h[p].creds[h[p].i])
        /\ Goto(p, a) \/ (h[p].pc # "append" /\ Goto(p, b))
    BY <1>13, Zenon DEF AppendToFile
  <2>2. h[p].creds[h[p].i] \in Nat \ {0}
    BY <1>a, <1>f, <2>1 DEF Ready
  <2>3. FilesOwn(owner, file')
    BY <1>t, <1>o, <1>a, <1>f, <2>1, <2>2, EffectsOwn
  <2>4. a.u = h[p].u /\ a.creds = h[p].creds /\ a.buf = NoEntries /\ Ready(a)
    BY <1>h DEF HandlerState, Ready
  <2>5. /\ b.u = h[p].u /\ b.creds = h[p].creds /\ b.buf = NoEntries /\ b.pc = "push"
        /\ b.todo = h[p].todo \ {h[p].i}
    BY <1>h DEF HandlerState
  <2> HIDE DEF a, b
  <2>6. h[p].pc # "append" => Ready(b)
    BY <1>a, <2>1, <2>5 DEF Ready
  <2> QED BY <1>g, <1>k, <1>o, <2>1, <2>3, <2>4, <2>5, <2>6 DEF StoredOwn
<1>14. ASSUME AppendFailed(p) PROVE Goal
  <2> DEFINE pc == IF h[p].pc = "append" THEN "add" ELSE "push"
             r == [h[p] EXCEPT !.pc = pc, !.todo = @ \ {h[p].i}, !.buf = NoEntries]
  <2>1. Goto(p, r) /\ UNCHANGED <<owner, client, run, file, y>> /\ h[p].pc \in {"append", "reappend"}
    BY <1>14, Zenon DEF AppendFailed
  <2>2. pc = "add" \/ (pc = "push" /\ h[p].pc = "reappend")
    BY <2>1
  <2> HIDE DEF pc
  <2>3. /\ r.u = h[p].u /\ r.creds = h[p].creds /\ r.buf = NoEntries /\ r.pc = pc
        /\ r.todo = h[p].todo \ {h[p].i}
    BY <1>h DEF HandlerState
  <2> HIDE DEF r, Goal
  <2>4. Ready(r)
    BY <1>a, <2>2, <2>3 DEF Ready
  <2> QED BY <1>k, <1>u, <2>1, <2>3, <2>4
<1>15. ASSUME EraseFromFile(p) PROVE Goal
  <2> DEFINE r == [h[p] EXCEPT !.todo = @ \ {h[p].i}, !.buf = NoEntries, !.pc = "remove"]
  <2>1. /\ Goto(p, r) /\ UNCHANGED <<owner, client, run, y>>
        /\ file' = WithoutEntry(h[p].i, h[p].u, h[p].buf) \/ UNCHANGED file
    BY <1>15, Zenon DEF EraseFromFile
  <2>2. FilesOwn(owner, WithoutEntry(h[p].i, h[p].u, h[p].buf))
    BY <1>t, <1>o, <1>a, <1>f, EffectsOwn
  <2>3. r.u = h[p].u /\ r.creds = h[p].creds /\ r.buf = NoEntries /\ Ready(r)
    BY <1>h DEF HandlerState, Ready
  <2> HIDE DEF r
  <2> QED BY <1>g, <1>k, <1>o, <2>1, <2>2, <2>3 DEF StoredOwn
<1>16. ASSUME NEW i \in Inbounds, AddClientRPC(p, i) PROVE Goal
  <2> DEFINE c == Len(owner) + 1
             o == Append(owner, h[p].u)
             r == [h[p] EXCEPT !.pc = "upsert", !.i = i, !.creds[i] = c]
             q == [h[p] EXCEPT !.todo = @ \ {i}]
  <2>1. UNCHANGED <<client, file, y>> /\ h[p].pc = "add"
    BY <1>16 DEF AddClientRPC
  <2>2. \/ Goto(p, r) /\ run' = Added(i, h[p].u, c) /\ owner' = o
        \/ Goto(p, q) /\ owner' = owner /\ run' = run
        \/ Goto(p, q) /\ run' \in {run, Added(i, h[p].u, c)} /\ owner' = o
    BY <1>16, Zenon DEF AddClientRPC
  <2>3. /\ q.u = h[p].u /\ q.creds = h[p].creds /\ q.buf = h[p].buf /\ q.pc = "add"
        /\ r.u = h[p].u /\ r.buf = h[p].buf /\ r.pc = "upsert"
        /\ \A j \in Inbounds : r.creds[j] = IF j = i THEN c ELSE h[p].creds[j]
    BY <1>h, <1>f, <2>1 DEF HandlerState
  <2>4. /\ OwnIn(o, c, h[p].u)
        /\ \A d, u : OwnIn(owner, d, u) => OwnIn(o, d, u)
        /\ AllOwn(o, h[p].buf) /\ RowsOwn(o, client) /\ RunOwn(o, run) /\ FilesOwn(o, file)
        /\ \A x : HandlerOwns(owner, x) => HandlerOwns(o, x)
    BY <1>v, <1>f, <1>o, <1>a, GrowOwns, Zenon
  <2> HIDE DEF c, o, r, q
  <2>5. HandlerOwns(owner, q) /\ HandlerOwns(o, q)
    BY <1>k, <2>3, <2>4 DEF Ready
  <2>6. HandlerOwns(o, r)
    BY <1>a, <2>3, <2>4 DEF HandlerOwns, Ready
  <2>7. RunOwn(o, Added(i, h[p].u, c))
    BY <1>t, <1>f, <2>4, EffectsOwn
  <2>8. (owner' = owner \/ \E v \in Users : owner' = Append(owner, v))
    BY <1>f, <2>2, Zenon DEF o
  <2>9. RowsOwn(owner', client') /\ RunOwn(owner', run') /\ FilesOwn(owner', file')
    BY <1>o, <2>1, <2>2, <2>4, <2>7
  <2>10. HandlerOwns(owner', h'[p]) /\ Others
    BY <1>g, <2>1, <2>2, <2>5, <2>6
  <2> QED BY <2>8, <2>9, <2>10 DEF StoredOwn
<1>17. ASSUME NEW i \in Inbounds, PushRPC(p, i) PROVE Goal
  <2> DEFINE q == [h[p] EXCEPT !.todo = @ \ {i}]
  <2>1. /\ Goto(p, q) /\ UNCHANGED <<owner, client, file, y>> /\ h[p].pc = "push"
        /\ AddUserRPC(i, h[p].u, h[p].creds[i])
    BY <1>17, Zenon DEF PushRPC
  <2>2. RunOwn(owner, run')
    BY <1>t, <1>o, <1>a, <1>f, <2>1, EffectsOwn
  <2>3. /\ q.u = h[p].u /\ q.creds = h[p].creds /\ q.buf = h[p].buf /\ q.pc = "push"
        /\ q.todo = h[p].todo \ {i}
    BY <1>h, <2>1 DEF HandlerState
  <2> HIDE DEF q
  <2>4. Ready(q)
    BY <1>a, <2>1, <2>3 DEF Ready
  <2> QED BY <1>g, <1>k, <1>o, <2>1, <2>2, <2>3, <2>4 DEF StoredOwn
<1>18. ASSUME NEW i \in Inbounds, RemoveRPC(p, i) PROVE Goal
  <2> DEFINE q == [h[p] EXCEPT !.pc = "scan", !.i = i]
  <2>1. Goto(p, q) /\ UNCHANGED <<owner, client, file, y>> /\ RemoveUserRPC(i, h[p].u)
    BY <1>18, Zenon DEF RemoveRPC
  <2>2. RunOwn(owner, run')
    BY <1>t, <1>o, <1>f, <2>1, EffectsOwn
  <2>3. q.u = h[p].u /\ q.creds = h[p].creds /\ q.buf = h[p].buf /\ Ready(q)
    BY <1>h DEF HandlerState, Ready
  <2> HIDE DEF q
  <2> QED BY <1>g, <1>k, <1>o, <2>1, <2>2, <2>3 DEF StoredOwn
<1>19. ASSUME NEW i \in Inbounds, ReadToRemove(p, i) PROVE Goal
  <2> DEFINE q == [h[p] EXCEPT !.todo = @ \ {i}, !.pc = "remove"]
             r == [h[p] EXCEPT !.i = i, !.buf = file[i], !.pc = "erase"]
  <2>1. (Goto(p, q) \/ Goto(p, r)) /\ UNCHANGED <<owner, client, run, file, y>>
    BY <1>19, Zenon DEF ReadToRemove
  <2>2. q.u = h[p].u /\ q.creds = h[p].creds /\ q.buf = h[p].buf /\ Ready(q)
    BY <1>h DEF HandlerState, Ready
  <2>3. r.u = h[p].u /\ r.creds = h[p].creds /\ r.buf = file[i] /\ Ready(r)
    BY <1>h DEF HandlerState, Ready
  <2> HIDE DEF q, r, Goal
  <2>4. HandlerOwns(owner, r)
    BY <1>a, <1>o, <2>3 DEF HandlerOwns, FilesOwn
  <2> QED BY <1>k, <1>u, <2>1, <2>2, <2>4
<1>20. ASSUME NEW i \in Inbounds, ReadToAppend(p, i) PROVE Goal
  <2> DEFINE new == h[p].pc = "add"
             c == IF new THEN Len(owner) + 1 ELSE h[p].creds[i]
             o == IF new THEN Append(owner, h[p].u) ELSE owner
             pc == IF new THEN "append" ELSE "reappend"
             r == [h[p] EXCEPT !.i = i, !.buf = file[i], !.creds[i] = c, !.pc = pc]
  <2>1. /\ UNCHANGED <<client, run, file, y>> /\ i \in h[p].todo /\ h[p].pc \in {"add", "push"}
        /\ owner' = o
    BY <1>20, Zenon DEF ReadToAppend
  <2>2. Goto(p, r)
    BY <1>20, Zenon DEF ReadToAppend
  <2>3. /\ OwnIn(o, c, h[p].u)
        /\ \A d, u : OwnIn(owner, d, u) => OwnIn(o, d, u)
        /\ RowsOwn(o, client) /\ RunOwn(o, run) /\ FilesOwn(o, file)
    <3>1. CASE new
      <4>1. o = Append(owner, h[p].u) /\ c = Len(owner) + 1
        BY <3>1
      <4> HIDE DEF new, c, o
      <4> QED BY <1>v, <1>f, <1>o, <4>1, GrowOwns, Zenon
    <3>2. CASE ~new
      BY <1>o, <1>a, <3>2
    <3> QED BY <3>1, <3>2
  <2>4. c # 0 /\ (pc = "append" \/ (pc = "reappend" /\ h[p].pc = "push"))
    BY <1>v, <1>a, <2>1 DEF Ready
  <2>5. owner' = owner \/ \E v \in Users : owner' = Append(owner, v)
    BY <1>f, <2>1
  <2> HIDE DEF new, c, o, pc
  <2>6. /\ r.u = h[p].u /\ r.buf = file[i] /\ r.pc = pc /\ r.i = i /\ r.todo = h[p].todo
        /\ \A j \in Inbounds : r.creds[j] = IF j = i THEN c ELSE h[p].creds[j]
    BY <1>h, <1>f DEF HandlerState
  <2> HIDE DEF r
  <2>7. \A j \in Inbounds : OwnIn(o, r.creds[j], r.u)
    BY <1>a, <2>3, <2>6
  <2>8. AllOwn(o, r.buf)
    BY <2>3, <2>6 DEF FilesOwn
  <2>9. Ready(r)
    BY <1>a, <1>f, <2>4, <2>6 DEF Ready
  <2> QED BY <1>g, <2>1, <2>2, <2>3, <2>5, <2>7, <2>8, <2>9 DEF StoredOwn, HandlerOwns
<1>21. ASSUME NEW o \in Ops, NEW u \in Users,
              \/ o = "createUser" /\ \E is \in SUBSET Inbounds : Request(p, o, u, is)
              \/ o \in AccountOps /\ Request(p, o, u, {})
              \/ o \in ClientOps /\ \E i \in Inbounds : Request(p, o, u, {i})
       PROVE  Goal
  <2>1. {} \in SUBSET Inbounds /\ \A i \in Inbounds : {i} \in SUBSET Inbounds
    OBVIOUS
  <2>2. "createUser" \notin ClientOps /\ (o \in AccountOps => o \notin ClientOps)
    BY DEF ClientOps, AccountOps
  <2> HIDE DEF Goal
  <2> QED BY <1>1, <1>21, <2>1, <2>2, Zenon
<1> HIDE DEF Goal
<1>22. Goal
  BY <1>2, <1>3, <1>4, <1>5, <1>6, <1>7, <1>8, <1>9, <1>10, <1>11, <1>12, <1>13, <1>14, <1>15,
     <1>16, <1>17, <1>18, <1>19, <1>20, <1>21, Zenon DEF Handler
<1> QED BY <1>22 DEF Goal, Others

(* Every step of a Sync keeps what is stored and what it carries owned.    *)
LEMMA SyncOwnsStep ==
    ASSUME IInv, NEW s \in Syncs, SyncStart(s) \/ SyncStep(s)
    PROVE  /\ StoredOwn /\ UNCHANGED <<h, owner>>
           /\ SyncOwns(owner, y'[s]) /\ \A t \in Syncs \ {s} : y'[t] = y[t]
<1>t. TypeOK
  BY DEF IInv, RowInv
<1>h. y \in [Syncs -> SyncState] /\ y[s] \in SyncState
  BY <1>t DEF TypeOK
<1>f. /\ y[s].u \in Users /\ y[s].i \in Inbounds /\ y[s].id \in Nat /\ y[s].buf \in Entries
      /\ y[s].want \in [Users -> Nat] /\ y[s].snap \in [Inbounds -> Entries]
  BY <1>h DEF SyncState
<1>o. /\ RowsOwn(owner, client) /\ RunOwn(owner, run) /\ FilesOwn(owner, file)
      /\ SyncOwns(owner, y[s])
  BY OwnedParts DEF IInv
<1>a. /\ \A i \in Inbounds : AllOwn(owner, y[s].snap[i])
      /\ \A u \in Users : OwnIn(owner, y[s].want[u], u)
      /\ AllOwn(owner, y[s].buf) /\ (y[s].pc = "write" => y[s].want[y[s].u] # 0)
  BY <1>o DEF SyncOwns
<1>n. AllOwn(owner, NoEntries)
  BY <1>f, <1>t, EffectsOwn
<1> DEFINE Others == \A t \in Syncs \ {s} : y'[t] = y[t]
           Goal == /\ StoredOwn /\ UNCHANGED <<h, owner>>
                   /\ SyncOwns(owner, y'[s]) /\ Others
<1>g. ASSUME NEW r, GotoSync(s, r) PROVE y'[s] = r /\ Others
  BY <1>g, <1>h DEF GotoSync
<1> HIDE DEF Others
<1>u. ASSUME NEW r, GotoSync(s, r), SyncOwns(owner, r), UNCHANGED <<h, owner, client, run, file>>
      PROVE  Goal
  BY <1>u, <1>g, <1>o DEF StoredOwn
<1>k. ASSUME NEW r, r.snap = y[s].snap, r.want = y[s].want, r.buf = y[s].buf, r.pc # "write"
      PROVE  SyncOwns(owner, r)
  BY <1>k, <1>a DEF SyncOwns
<1>i. SyncOwns(owner, IdleSync)
  <2>1. /\ IdleSync.pc = "idle" /\ IdleSync.buf = NoEntries
        /\ \A i \in Inbounds : IdleSync.snap[i] = NoEntries
        /\ \A u \in Users : IdleSync.want[u] = 0
    BY DEF IdleSync, NoWant
  <2> QED BY <1>n, <2>1 DEF SyncOwns, OwnIn
<1>r. ASSUME SyncReturn(s), UNCHANGED <<h, owner, client, run, file>> PROVE Goal
  <2> DEFINE r == [IdleSync EXCEPT !.pc = "restore", !.todo = Inbounds, !.boot = TRUE]
  <2>1. /\ r.snap = IdleSync.snap /\ r.want = IdleSync.want /\ r.buf = IdleSync.buf
        /\ r.pc = "restore"
    BY DEF IdleSync
  <2>2. GotoSync(s, r) \/ GotoSync(s, IdleSync)
    BY <1>r, Zenon DEF SyncReturn
  <2> HIDE DEF r, Goal
  <2>3. SyncOwns(owner, r)
    BY <1>i, <2>1 DEF SyncOwns
  <2> QED BY <1>i, <1>r, <1>u, <2>2, <2>3
<1>l. ASSUME NEW i \in Inbounds
      PROVE  \A u \in Users : OwnIn(owner, ListUserClientsByInboundTag(i)[u], u)
  BY <1>o DEF RowsOwn, ListUserClientsByInboundTag, OwnIn
<1>e. y[s].pc \in {"insert", "link"} => y[s].snap[y[s].i][y[s].u] # <<>>
  BY Zenon DEF IInv, RowInv, EntryInv
<1>x. ASSUME y[s].pc \in {"insert", "link"} PROVE SyncOwns(owner, NextEntry(y[s]))
  <2> DEFINE e == y[s].snap[y[s].i]
             r == NextEntry(y[s])
  <2>1. e \in Entries /\ AllOwn(owner, [e EXCEPT ![y[s].u] = Tail(@)])
    BY <1>a, <1>e, <1>f, <1>x, EntriesOwn
  <2>2. /\ r.want = y[s].want /\ r.buf = y[s].buf /\ r.pc = "entries"
        /\ r.snap = [y[s].snap EXCEPT ![y[s].i][y[s].u] = Tail(@)]
    BY <1>h DEF NextEntry, SyncState
  <2>3. \A i \in Inbounds : r.snap[i] = IF i = y[s].i THEN [e EXCEPT ![y[s].u] = Tail(@)]
                                        ELSE y[s].snap[i]
    BY <1>f, <2>2
  <2> HIDE DEF r, e
  <2>4. \A i \in Inbounds : AllOwn(owner, r.snap[i])
    BY <1>a, <2>1, <2>3
  <2> QED BY <1>a, <2>2, <2>4, Zenon DEF SyncOwns, r
<1>1. ASSUME SyncStart(s) PROVE Goal
  <2> DEFINE r == [y[s] EXCEPT !.pc = "entries", !.snap = file]
  <2>1. r.snap = file /\ r.want = y[s].want /\ r.buf = y[s].buf /\ r.pc = "entries"
    BY <1>h DEF SyncState
  <2>2. GotoSync(s, r) /\ UNCHANGED <<h, owner, client, run, file>>
    BY <1>1, Zenon DEF SyncStart
  <2> HIDE DEF r, Goal
  <2>3. SyncOwns(owner, r)
    BY <1>a, <1>o, <2>1 DEF SyncOwns, FilesOwn
  <2> QED BY <1>u, <2>2, <2>3
<1>2. ASSUME NEW i \in Inbounds, NEW u \in Users, SyncLookup(s, i, u) PROVE Goal
  <2> DEFINE pc == IF user[u].id = 0 THEN "insert" ELSE "link"
             r == [y[s] EXCEPT !.i = i, !.u = u, !.id = user[u].id, !.pc = pc]
  <2>1. pc # "write"
    OBVIOUS
  <2>2. GotoSync(s, r) /\ UNCHANGED <<h, owner, client, run, file>>
    BY <1>2, Zenon DEF SyncLookup
  <2> HIDE DEF pc
  <2>3. r.snap = y[s].snap /\ r.want = y[s].want /\ r.buf = y[s].buf /\ r.pc = pc
    BY <1>h DEF SyncState
  <2> HIDE DEF r, Goal
  <2> QED BY <1>k, <1>u, <2>1, <2>2, <2>3
<1>3. ASSUME SyncCreateUser(s) PROVE Goal
  <2> DEFINE r == [y[s] EXCEPT !.id = lastId + 1, !.pc = "link"]
  <2>1. r.snap = y[s].snap /\ r.want = y[s].want /\ r.buf = y[s].buf /\ r.pc = "link"
    BY <1>h DEF SyncState
  <2>2. /\ GotoSync(s, r) \/ GotoSync(s, NextEntry(y[s]))
        /\ UNCHANGED <<h, owner, client, run, file>> /\ y[s].pc = "insert"
    BY <1>3 DEF SyncCreateUser, CreateUser, db
  <2> HIDE DEF r, Goal
  <2> QED BY <1>k, <1>u, <1>x, <2>1, <2>2
<1>4. ASSUME SyncLink(s) PROVE Goal
  <2> DEFINE c == Head(y[s].snap[y[s].i][y[s].u])
  <2>1. /\ GotoSync(s, NextEntry(y[s])) /\ UNCHANGED <<h, owner, run, file>> /\ y[s].pc = "link"
        /\ UpsertUserClient(y[s].id, y[s].i, c)
    BY <1>4, Zenon DEF SyncLink
  <2>2. OwnIn(owner, c, y[s].u)
    BY <1>a, <1>e, <1>f, <2>1, EntriesOwn, Zenon
  <2>3. \A v \in Users : Has(v, y[s].id) => v = y[s].u
    BY <2>1 DEF IInv, RowInv, HeldIdsSafe, HeldIdsGiven
  <2> HIDE DEF c
  <2>4. RowsOwn(owner, client')
    BY <1>t, <1>o, <1>f, <2>1, <2>2, <2>3, StatementsOwn
  <2> QED BY <1>g, <1>o, <1>x, <2>1, <2>4 DEF StoredOwn
<1>5. ASSUME SyncEntriesDone(s) PROVE Goal
  <2> DEFINE r == [y[s] EXCEPT !.pc = "list", !.todo = Inbounds]
  <2>1. r.snap = y[s].snap /\ r.want = y[s].want /\ r.buf = y[s].buf /\ r.pc = "list"
    BY <1>h DEF SyncState
  <2>2. (GotoSync(s, r) \/ SyncReturn(s)) /\ UNCHANGED <<h, owner, client, run, file>>
    BY <1>5, Zenon DEF SyncEntriesDone
  <2> HIDE DEF r, Goal
  <2> QED BY <1>k, <1>r, <1>u, <2>1, <2>2
<1>6. ASSUME NEW i \in Inbounds, SyncList(s, i) \/ RestoreList(s, i) PROVE Goal
  <2> DEFINE w == ListUserClientsByInboundTag(i)
             r == [y[s] EXCEPT !.i = i, !.todo = @ \ {i}, !.want = w, !.pc = "idents"]
             q == [y[s] EXCEPT !.i = i, !.todo = @ \ {i}, !.want = w, !.pc = "restoring"]
  <2>1. (GotoSync(s, r) \/ GotoSync(s, q)) /\ UNCHANGED <<h, owner, client, run, file>>
    BY <1>6, Zenon DEF SyncList, RestoreList
  <2> HIDE DEF w
  <2>2. /\ r.snap = y[s].snap /\ r.want = w /\ r.buf = y[s].buf /\ r.pc = "idents"
        /\ q.snap = y[s].snap /\ q.want = w /\ q.buf = y[s].buf /\ q.pc = "restoring"
    BY <1>h DEF SyncState
  <2> HIDE DEF r, q, Goal
  <2>3. \A u \in Users : OwnIn(owner, w[u], u)
    BY <1>l DEF w
  <2>4. SyncOwns(owner, r) /\ SyncOwns(owner, q)
    BY <1>a, <2>2, <2>3 DEF SyncOwns
  <2> QED BY <1>u, <2>1, <2>4
<1>7. ASSUME SyncIdents(s) PROVE Goal
  <2> DEFINE w == [u \in Users |-> IF file[y[s].i][u] = <<>> THEN y[s].want[u] ELSE 0]
             r == [y[s] EXCEPT !.want = w, !.pc = "flush"]
  <2>1. GotoSync(s, r) /\ UNCHANGED <<h, owner, client, run, file>>
    BY <1>7, Zenon DEF SyncIdents
  <2>2. \A u \in Users : OwnIn(owner, w[u], u)
    BY <1>a DEF OwnIn
  <2> HIDE DEF w
  <2>3. r.snap = y[s].snap /\ r.want = w /\ r.buf = y[s].buf /\ r.pc = "flush"
    BY <1>h DEF SyncState
  <2> HIDE DEF r, Goal
  <2>4. SyncOwns(owner, r)
    BY <1>a, <2>2, <2>3 DEF SyncOwns
  <2> QED BY <1>u, <2>1, <2>4
<1>8. ASSUME NEW u \in Users, SyncRead(s, u) PROVE Goal
  <2> DEFINE r == [y[s] EXCEPT !.u = u, !.buf = file[y[s].i], !.pc = "write"]
  <2>1. GotoSync(s, r) /\ UNCHANGED <<h, owner, client, run, file>> /\ y[s].want[u] # 0
    BY <1>8, Zenon DEF SyncRead
  <2>2. r.snap = y[s].snap /\ r.want = y[s].want /\ r.buf = file[y[s].i] /\ r.u = u
    BY <1>h DEF SyncState
  <2> HIDE DEF r, Goal
  <2>3. SyncOwns(owner, r)
    BY <1>a, <1>f, <1>o, <2>1, <2>2 DEF SyncOwns, FilesOwn
  <2> QED BY <1>u, <2>1, <2>3
<1>9. ASSUME SyncWrite(s) PROVE Goal
  <2> DEFINE r == [y[s] EXCEPT !.want[y[s].u] = 0, !.buf = NoEntries, !.pc = "flush"]
             c == y[s].want[y[s].u]
  <2>1. /\ GotoSync(s, r) /\ UNCHANGED <<h, owner, client, run>> /\ y[s].pc = "write"
        /\ file' = WithEntry(y[s].i, y[s].u, y[s].buf, c) \/ UNCHANGED file
    BY <1>9, Zenon DEF SyncWrite
  <2>2. c \in Nat \ {0} /\ OwnIn(owner, c, y[s].u)
    BY <1>a, <1>f, <2>1
  <2>3. r.snap = y[s].snap /\ r.buf = NoEntries /\ r.pc = "flush"
        /\ \A u \in Users : r.want[u] = IF u = y[s].u THEN 0 ELSE y[s].want[u]
    BY <1>h, <1>f DEF SyncState
  <2> HIDE DEF r, c
  <2>4. FilesOwn(owner, WithEntry(y[s].i, y[s].u, y[s].buf, c))
    BY <1>t, <1>o, <1>a, <1>f, <2>2, EffectsOwn
  <2>5. SyncOwns(owner, r)
    BY <1>a, <1>n, <2>3 DEF SyncOwns, OwnIn
  <2> QED BY <1>g, <1>o, <2>1, <2>4, <2>5 DEF StoredOwn
<1>10. ASSUME SyncFlushed(s) \/ RestoreNext(s) PROVE Goal
  <2> DEFINE r == [y[s] EXCEPT !.pc = "list"]
             q == [y[s] EXCEPT !.pc = "restore"]
  <2>1. (GotoSync(s, r) \/ GotoSync(s, q)) /\ UNCHANGED <<h, owner, client, run, file>>
    BY <1>10, Zenon DEF SyncFlushed, RestoreNext
  <2>2. /\ r.snap = y[s].snap /\ r.want = y[s].want /\ r.buf = y[s].buf /\ r.pc = "list"
        /\ q.snap = y[s].snap /\ q.want = y[s].want /\ q.buf = y[s].buf /\ q.pc = "restore"
    BY <1>h DEF SyncState
  <2> HIDE DEF r, q, Goal
  <2>3. SyncOwns(owner, r) /\ SyncOwns(owner, q)
    BY <1>k, <2>2
  <2> QED BY <1>u, <2>1, <2>3
<1>11. ASSUME SyncListDone(s) PROVE Goal
  BY <1>11, <1>r, Zenon DEF SyncListDone
<1>12. ASSUME RestoreDone(s) PROVE Goal
  BY <1>12, <1>i, <1>u, Zenon DEF RestoreDone
<1>13. ASSUME NEW u \in Users, RestoreUser(s, u) PROVE Goal
  <2> DEFINE r == [y[s] EXCEPT !.want[u] = 0]
  <2>1. /\ GotoSync(s, r) /\ UNCHANGED <<h, owner, client, file>> /\ y[s].pc = "restoring"
        /\ AddUserRPC(y[s].i, u, y[s].want[u])
    BY <1>13, Zenon DEF RestoreUser
  <2>2. RunOwn(owner, run')
    BY <1>t, <1>o, <1>a, <1>f, <2>1, EffectsOwn
  <2>3. r.snap = y[s].snap /\ r.buf = y[s].buf /\ r.pc = "restoring"
        /\ \A v \in Users : r.want[v] = IF v = u THEN 0 ELSE y[s].want[v]
    BY <1>h, <1>f, <2>1 DEF SyncState
  <2> HIDE DEF r
  <2>4. SyncOwns(owner, r)
    BY <1>a, <2>3 DEF SyncOwns, OwnIn
  <2> QED BY <1>g, <1>o, <2>1, <2>2, <2>4 DEF StoredOwn
<1> HIDE DEF Goal
<1>14. Goal
  BY <1>1, <1>2, <1>3, <1>4, <1>5, <1>6, <1>7, <1>8, <1>9, <1>10, <1>11, <1>12, <1>13, Zenon
     DEF SyncStep
<1> QED BY <1>14 DEF Goal, Others

(* At the start there are no credentials.                                  *)
LEMMA InitIInv == Init => IInv
<1> SUFFICES ASSUME Init PROVE IInv
  OBVIOUS
<1>1. RowInv /\ OpInv
  BY InitRowInv, InitOpInv
<1>2. /\ \A u \in Users, i \in Inbounds : client[u][i].cred = 0 /\ run[i][u] = 0
      /\ \A i \in Inbounds, u \in Users : file[i][u] = <<>>
  BY DEF Init, NoClient, NoWant, NoEntries
<1>3. CredentialsOwned
  BY <1>2 DEF CredentialsOwned, OwnedBy, EntriesOwned
<1>4. /\ \A p \in Handlers : /\ h[p].pc = "idle" /\ \A i \in Inbounds : h[p].creds[i] = 0
                             /\ \A u \in Users : h[p].buf[u] = <<>>
      /\ \A s \in Syncs : /\ y[s].pc = "idle" /\ \A u \in Users : y[s].want[u] = 0
                          /\ \A u \in Users : y[s].buf[u] = <<>>
                          /\ \A i \in Inbounds, u \in Users : y[s].snap[i][u] = <<>>
  BY DEF Init, IdleHandler, IdleSync, NoEntries, NoCreds, NoWant
<1>5. CarriedOwned
  <2>1. \A c, u : c = 0 => OwnedBy(c, u)
    BY DEF OwnedBy
  <2>2. ASSUME NEW e, \A u \in Users : e[u] = <<>> PROVE EntriesOwned(e)
    BY <2>2 DEF EntriesOwned
  <2>3. ASSUME NEW p \in Handlers
        PROVE  /\ \A i \in Inbounds : OwnedBy(h[p].creds[i], h[p].u)
               /\ EntriesOwned(h[p].buf)
               /\ h[p].pc \notin {"append", "reappend", "push", "flag", "lookup", "clients"}
    <3>1. h[p].pc = "idle"
      BY <1>4
    <3>2. h[p].pc \notin {"append", "reappend", "push", "flag", "lookup", "clients"}
      BY <3>1
    <3> QED BY <1>4, <2>1, <2>2, <3>2, Zenon
  <2>4. ASSUME NEW s \in Syncs
        PROVE  /\ \A i \in Inbounds : EntriesOwned(y[s].snap[i])
               /\ \A u \in Users : OwnedBy(y[s].want[u], u)
               /\ EntriesOwned(y[s].buf)
               /\ y[s].pc # "write"
    <3>1. y[s].pc = "idle"
      BY <1>4
    <3>2. y[s].pc # "write"
      BY <3>1
    <3> QED BY <1>4, <2>1, <2>2, <3>2, Zenon
  <2> QED BY <2>3, <2>4, Zenon DEF CarriedOwned
<1> QED BY <1>1, <1>3, <1>5 DEF IInv

(* Every step keeps credentials with the identity they were made for.      *)
LEMMA NextIInv == IInv /\ [Next]_vars => IInv'
<1> SUFFICES ASSUME IInv, [Next]_vars PROVE IInv'
  OBVIOUS
<1>t. TypeOK /\ RowInv /\ OpInv
  BY DEF IInv, RowInv
<1>0. RowInv' /\ OpInv'
  BY <1>t, NextRowInv, NextOpInv
<1>o. /\ RowsOwn(owner, client) /\ RunOwn(owner, run) /\ FilesOwn(owner, file)
      /\ \A p \in Handlers : HandlerOwns(owner, h[p])
      /\ \A s \in Syncs : SyncOwns(owner, y[s])
  BY OwnedParts DEF IInv
<1>v. owner \in Seq(Users)
  BY <1>t DEF TypeOK
<1>1. ASSUME StoredOwn,
             \A p \in Handlers : h'[p] = h[p] \/ HandlerOwns(owner', h'[p]),
             \A s \in Syncs : y'[s] = y[s] \/ SyncOwns(owner', y'[s])
      PROVE  IInv'
  <2>1. /\ \A p \in Handlers : HandlerOwns(owner', h[p])
        /\ \A s \in Syncs : SyncOwns(owner', y[s])
    BY <1>o, <1>v, <1>1, GrowOwns DEF StoredOwn
  <2>2. /\ \A p \in Handlers : HandlerOwns(owner', h'[p])
        /\ \A s \in Syncs : SyncOwns(owner', y'[s])
    BY <1>1, <2>1
  <2>3. CredentialsOwned' /\ CarriedOwned'
    BY <1>1, <2>2, OwnedPartsNext DEF StoredOwn
  <2> QED BY <1>0, <2>3 DEF IInv
<1>2. ASSUME NEW p \in Handlers, Handler(p) PROVE IInv'
  BY <1>1, <1>2, HandlerOwnsStep
<1>3. ASSUME NEW s \in Syncs, SyncStart(s) \/ SyncStep(s) PROVE IInv'
  BY <1>1, <1>3, SyncOwnsStep
<1>4. ASSUME NEW s \in Syncs, Crash(s) PROVE IInv'
  <2> DEFINE r == [IdleSync EXCEPT !.pc = "entries", !.snap = file, !.boot = TRUE]
  <2>0. SomeUser \in Users /\ SomeInbound \in Inbounds
    BY SomeAssumption DEF SomeUser, SomeInbound
  <2>1. AllOwn(owner, NoEntries)
    BY <1>t, <2>0, EffectsOwn
  <2>2. /\ r.snap = file /\ r.want = NoWant /\ r.buf = NoEntries /\ r.pc = "entries"
        /\ IdleSync.want = NoWant /\ IdleSync.buf = NoEntries /\ IdleSync.pc = "idle"
        /\ \A i \in Inbounds : IdleSync.snap[i] = NoEntries
        /\ IdleHandler.buf = NoEntries /\ IdleHandler.pc = "idle"
        /\ \A i \in Inbounds : IdleHandler.creds[i] = 0
        /\ \A u \in Users : NoWant[u] = 0
    BY DEF IdleSync, IdleHandler, NoCreds, NoWant
  <2>3. UNCHANGED <<owner, client, run, file>>
    BY <1>4 DEF Crash
  <2>4. (\A p \in Handlers : h'[p] = IdleHandler) /\ \A t \in Syncs : y'[t] \in {r, IdleSync}
    BY <1>4 DEF Crash
  <2> HIDE DEF r
  <2>5. HandlerOwns(owner, IdleHandler) /\ SyncOwns(owner, IdleSync) /\ SyncOwns(owner, r)
    BY <1>o, <2>1, <2>2 DEF HandlerOwns, Ready, SyncOwns, OwnIn, FilesOwn
  <2>6. StoredOwn
    BY <1>o, <2>3 DEF StoredOwn
  <2> QED BY <1>1, <2>3, <2>4, <2>5, <2>6
<1>5. ASSUME XrayRestart PROVE IInv'
  <2>1. UNCHANGED <<owner, client, file, h, y>>
    BY <1>5 DEF XrayRestart
  <2>2. ASSUME NEW i \in Inbounds, NEW u \in Users PROVE OwnIn(owner, run'[i][u], u)
    <3>1. run'[i][u] = IF file[i][u] = <<>> THEN 0 ELSE Head(file[i][u])
      BY <1>5 DEF XrayRestart
    <3>2. file[i] \in Entries /\ AllOwn(owner, file[i])
      BY <1>o, <1>t DEF FilesOwn, TypeOK
    <3>3. file[i][u] # <<>> => OwnIn(owner, Head(file[i][u]), u)
      BY <3>2, EntriesOwn
    <3>4. OwnIn(owner, 0, u)
      BY DEF OwnIn
    <3> QED BY <3>1, <3>3, <3>4
  <2>3. StoredOwn
    BY <1>o, <2>1, <2>2 DEF StoredOwn, RunOwn
  <2> QED BY <1>1, <2>1, <2>3
<1>6. ASSUME NEW i \in Inbounds, NEW u \in Edited, EditConfig(i, u) PROVE IInv'
  <2>1. /\ UNCHANGED <<client, run, h, y>> /\ owner' = Append(owner, u) /\ u \in Users
        /\ file' = [file EXCEPT ![i][u] = Append(@, Len(owner) + 1)]
    BY <1>6, EditedAssumption DEF EditConfig
  <2> DEFINE o == Append(owner, u)
             c == Len(owner) + 1
  <2>2. /\ RowsOwn(o, client) /\ RunOwn(o, run) /\ FilesOwn(o, file) /\ OwnIn(o, c, u)
    BY <1>o, <1>v, <2>1, GrowOwns
  <2>3. c \in Nat \ {0} /\ file[i] \in Entries /\ file \in [Inbounds -> Entries]
    BY <1>t DEF TypeOK
  <2>4. file' = WithEntry(i, u, file[i], c)
    BY <2>1, <2>3 DEF WithEntry
  <2> HIDE DEF o, c
  <2>5. FilesOwn(o, WithEntry(i, u, file[i], c))
    <3>1. AllOwn(o, file[i])
      BY <2>2 DEF FilesOwn
    <3> QED BY <1>t, <2>1, <2>2, <2>3, <3>1, EffectsOwn
  <2>6. StoredOwn
    BY <2>1, <2>2, <2>4, <2>5 DEF StoredOwn, o
  <2> QED BY <1>1, <2>1, <2>6
<1>7. CASE UNCHANGED vars
  <2>1. UNCHANGED <<owner, client, run, file, h, y>>
    BY <1>7 DEF vars
  <2> QED BY <1>1, <1>o, <2>1 DEF StoredOwn
<1> QED BY <1>2, <1>3, <1>4, <1>5, <1>6, <1>7 DEF Next

(* The inductive invariant of the provisioning code, credentials included. *)
THEOREM ProvisionInvariant == Spec => []IInv
BY InitIInv, NextIInv, PTL DEF Spec

(* Whatever requests, Syncs, crashes, restarts and edits of config.d       *)
(* interleave, no row, no config.d entry and no running Xray holds for one *)
(* identity a credential that was generated for another.                   *)
THEOREM ProvisionCredentials == Spec => []CredentialsOwned
<1>1. IInv => CredentialsOwned
  BY DEF IInv
<1> QED BY <1>1, ProvisionInvariant, PTL

=============================================================================
