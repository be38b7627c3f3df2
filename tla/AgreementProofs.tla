-------------------------- MODULE AgreementProofs ---------------------------
(***************************************************************************)
(* Where requests do not get in each other's way the three places a client *)
(* lives in stay in step.  The theorems are for any users, inbounds and    *)
(* number of requests; CredentialProofs supplies types, row ids and the    *)
(* owners of credentials.                                                  *)
(***************************************************************************)
EXTENDS CredentialProofs

(* A function changed at one place.                                        *)
LEMMA UpdateOne ==
    ASSUME NEW I, NEW V, NEW f \in [I -> V], NEW k \in I, NEW x
    PROVE  /\ [f EXCEPT ![k] = x][k] = x
           /\ \A i \in I \ {k} : [f EXCEPT ![k] = x][i] = f[i]
OBVIOUS

(* Whether there is an xray_api_addr is settled when the server starts.    *)
LEMMA ModeKept ==
    ASSUME [Next]_vars PROVE grpc' = grpc
<1>1. ASSUME NEW p \in Handlers, Handler(p) PROVE grpc' = grpc
  BY <1>1, Zenon DEF Handler, Request, CheckDuplicate, InsertUser, GetByID, UpdateUser, ReadAccount,
     ReadClient, FlagClient, UpsertClient, AddDone, PushDone, AppendToFile, AppendFailed,
     EraseFromFile, RemoveDone, DeleteAccount, AddClientRPC, PushRPC, ReadToAppend, RemoveRPC,
     ReadToRemove
<1>2. ASSUME NEW s \in Syncs, SyncStart(s) \/ SyncStep(s) \/ Crash(s) PROVE grpc' = grpc
  BY <1>2, Zenon DEF SyncStart, SyncStep, Crash, SyncList, RestoreList, SyncLookup, SyncRead,
     RestoreUser, SyncCreateUser, SyncLink, SyncEntriesDone, SyncIdents, SyncWrite, SyncFlushed,
     SyncListDone, RestoreNext, RestoreDone
<1>3. ASSUME XrayRestart \/ \E i \in Inbounds, u \in Edited : EditConfig(i, u) PROVE grpc' = grpc
  BY <1>3, Zenon DEF XrayRestart, EditConfig
<1> QED BY <1>1, <1>2, <1>3, Zenon DEF Next, vars

(***************************************************************************)
(* Database, config.d and the running Xray agree at rest.                  *)
(***************************************************************************)

(* Of one client: row c, entries f, runtime credential r; its account is   *)
(* enabled or not.                                                         *)
Loose(c, f, r) == f \in {<<>>, <<c.cred>>} /\ r \in {0, c.cred}
Agree(on, c, f, r) ==
    /\ Loose(c, f, r)
    /\ on /\ c.enabled => r = c.cred
    /\ ~c.enabled => r = 0 /\ f = <<>>

(* What a request q in progress has done to its account's client in i and  *)
(* what it still has to do.                                                *)
Adding(q, i) == q.pc = "upsert" /\ i = q.i
Starting(q, i) == \/ q.pc = "clients" /\ q.op = "enableUser"
                  \/ q.pc = "push" /\ i \in q.todo
Stopping(q, i) == /\ q.pc \in {"remove", "scan", "erase"} /\ q.op = "disableClient"
                  /\ i \in q.todo
CellOf(q, i, on, c, f, r) ==
    /\ Adding(q, i) => f = <<>> /\ r = q.creds[i]
    /\ Starting(q, i) => Agree(FALSE, c, f, r)
    /\ Stopping(q, i) => Loose(c, f, r) /\ ~c.enabled
    /\ Adding(q, i) \/ Starting(q, i) \/ Stopping(q, i) \/ Agree(on, c, f, r)
    /\ q.pc \in {"add", "upsert"} /\ i \in q.todo => c.cred = 0
    /\ q.pc = "push" /\ i \in q.todo => c.enabled /\ q.creds[i] = c.cred
    /\ q.pc = "flag" /\ i = q.i => q.creds[i] = c.cred
    /\ q.pc \in {"scan", "erase"} /\ i = q.i => r = 0

(* What it knows of its account, and where it can be.                      *)
RequestOf(q, usr) ==
    /\ q.op # "deleteUser" /\ q.pc \notin {"append", "reappend", "delete"}
    /\ q.pc \notin {"check", "insert", "lookup"} => usr.id = q.id
    /\ q.pc \in {"remove", "scan", "erase"} => q.op \in {"disableUser", "disableClient"}
    /\ q.pc \in {"clients", "remove", "scan", "erase"} /\ q.op = "disableUser" => ~usr.enabled
    /\ q.pc \in {"upsert", "scan", "erase"} => q.i \in q.todo

(* What a Sync holds is what the database and the files hold.              *)
PassOf(z, cl, f) ==
    /\ z.boot = FALSE /\ z.pc \notin {"insert", "restore", "restoring"}
    /\ z.pc \in {"entries", "link"} => \A i \in Inbounds, u \in Users :
         z.snap[i][u] \in {<<>>, <<cl[u][i].cred>>}
    /\ z.pc \in {"idents", "flush", "write"} => \A u \in Users :
         z.want[u] # 0 => cl[u][z.i].enabled /\ z.want[u] = cl[u][z.i].cred
    /\ z.pc \in {"flush", "write"} => \A u \in Users :
         z.want[u] # 0 => f[z.i][u] = <<>>
    /\ z.pc = "write" => z.buf = f[z.i]

(* At most one request or Sync is under way.                               *)
AloneInv ==
    /\ pending \in {0, 1}
    /\ \A p \in Handlers : h[p].pc # "idle" =>
         /\ pending = 0
         /\ \A s \in Syncs : y[s].pc = "idle"
         /\ \A q \in Handlers \ {p} : h[q].pc = "idle"
    /\ \A s \in Syncs : y[s].pc # "idle" =>
         /\ pending = 0
         /\ \A t \in Syncs \ {s} : y[t].pc = "idle"

(* The inductive invariant behind RestAgreement.                           *)
SerialInv ==
    /\ AloneInv
    /\ \A u \in Users, i \in Inbounds :
         \/ \E p \in Handlers : h[p].pc # "idle" /\ h[p].u = u
         \/ Agree(user[u].enabled, client[u][i], file[i][u], run[i][u])
    /\ \A p \in Handlers : h[p].pc # "idle" =>
         LET q == h[p]
         IN  /\ RequestOf(q, user[q.u])
             /\ q.pc = "erase" => q.buf = file[q.i]
             /\ \A i \in Inbounds :
                  CellOf(q, i, user[q.u].enabled, client[q.u][i], file[i][q.u], run[i][q.u])
    /\ \A s \in Syncs : PassOf(y[s], client, file)

(* The rows of an account that exists are found by its id.                 *)
LEMMA AccountRows ==
    ASSUME TypeOK, RowsInv, NEW u \in Users, user[u].id # 0
    PROVE  /\ \A v \in Users : Has(v, user[u].id) <=> v = u
           /\ \A i \in Inbounds :
                /\ GetAllUserClients(user[u].id)[i] = client[u][i].cred
                /\ GetUserClients(user[u].id)[i] = IF client[u][i].enabled THEN client[u][i].cred ELSE 0
<1>1. \A v \in Users : Has(v, user[u].id) <=> v = u
  BY DEF RowsInv, Has
<1>2. (CHOOSE v \in Users : Has(v, user[u].id)) = u /\ \E v \in Users : Has(v, user[u].id)
  BY <1>1
<1>3. \A i \in Inbounds : GetAllUserClients(user[u].id)[i] = client[u][i].cred
  BY <1>2, Zenon DEF GetAllUserClients
<1>4. \A i \in Inbounds : (\E v \in Users : Has(v, user[u].id) /\ client[v][i].enabled) <=> client[u][i].enabled
  BY <1>1, Zenon
<1>5. \A i \in Inbounds :
        GetUserClients(user[u].id)[i] = IF client[u][i].enabled THEN client[u][i].cred ELSE 0
  BY <1>3, <1>4 DEF GetUserClients
<1> QED BY <1>1, <1>3, <1>5

(* Where nothing is under way for an account, its clients agree.           *)
AgreeAt(u, usr, cl, fl, rn) ==
    \A i \in Inbounds : Agree(usr[u].enabled, cl[u][i], fl[i][u], rn[i][u])

(* A request in progress and its account's clients.                        *)
RequestAt(q, usr, cl, fl, rn) ==
    /\ RequestOf(q, usr[q.u])
    /\ q.pc = "erase" => q.buf = fl[q.i]
    /\ \A i \in Inbounds : CellOf(q, i, usr[q.u].enabled, cl[q.u][i], fl[i][q.u], rn[i][q.u])

(* A step for account u touches no other account.                          *)
Elsewhere(u) ==
    \A v \in Users \ {u} : /\ user'[v] = user[v] /\ client'[v] = client[v]
                           /\ \A i \in Inbounds : file'[i][v] = file[i][v] /\ run'[i][v] = run[i][v]

(* What the step of a request in progress leaves behind.                   *)
ServedStep(p) ==
    /\ y' = y /\ (\A q \in Handlers \ {p} : h'[q] = h[q]) /\ Elsewhere(h[p].u)
    /\ \/ /\ h'[p].pc = "idle" /\ pending' \in {0, 1}
          /\ AgreeAt(h[p].u, user', client', file', run')
       \/ /\ h'[p].pc # "idle" /\ h'[p].u = h[p].u /\ pending' = 0
          /\ RequestAt(h'[p], user', client', file', run')

(* A handler that goes on, one that is done, and one that only reads.      *)
LEMMA ServedRules ==
    ASSUME TypeOK, NEW p \in Handlers, pending = 0, y' = y, Elsewhere(h[p].u)
    PROVE  /\ \A q : Goto(p, q) /\ pending' = 0 /\ q.pc # "idle" /\ q.u = h[p].u
                       /\ RequestAt(q, user', client', file', run') => ServedStep(p)
           /\ Finish(p) /\ pending' \in {0, 1} /\ AgreeAt(h[p].u, user', client', file', run')
                => ServedStep(p)
<1>h. h \in [Handlers -> HandlerState]
  BY DEF TypeOK
<1>1. \A q : Goto(p, q) => h'[p] = q /\ \A t \in Handlers \ {p} : h'[t] = h[t]
  BY <1>h DEF Goto
<1>2. IdleHandler.pc = "idle"
  BY DEF IdleHandler
<1>3. ASSUME NEW q, Goto(p, q), pending' = 0, q.pc # "idle", q.u = h[p].u,
             RequestAt(q, user', client', file', run')
      PROVE  ServedStep(p)
  BY <1>1, <1>3, Zenon DEF ServedStep
<1>4. ASSUME Finish(p), pending' \in {0, 1}, AgreeAt(h[p].u, user', client', file', run')
      PROVE  ServedStep(p)
  BY <1>1, <1>2, <1>4, Zenon DEF ServedStep, Finish
<1> QED BY <1>3, <1>4, Zenon

(* What the invariant says of a request in progress.                       *)
LEMMA ServedFacts ==
    ASSUME IInv, SerialInv, NEW p \in Handlers, h[p].pc # "idle"
    PROVE  /\ TypeOK /\ RowsInv /\ pending = 0
           /\ h[p] \in HandlerState /\ h[p].u \in Users /\ h[p].i \in Inbounds
           /\ h[p].todo \in SUBSET Inbounds /\ h[p].creds \in [Inbounds -> Nat]
           /\ RequestOf(h[p], user[h[p].u])
           /\ h[p].pc = "erase" => h[p].buf = file[h[p].i]
           /\ \A i \in Inbounds : CellOf(h[p], i, user[h[p].u].enabled, client[h[p].u][i],
                                         file[i][h[p].u], run[i][h[p].u])
           /\ \A s \in Syncs : y[s].pc = "idle"
           /\ \A q \in Handlers \ {p} : h[q].pc = "idle"
<1>1. TypeOK /\ RowsInv
  BY DEF IInv, RowInv
<1>2. h[p] \in HandlerState
  BY <1>1 DEF TypeOK
<1>3. /\ h[p].u \in Users /\ h[p].i \in Inbounds /\ h[p].todo \in SUBSET Inbounds
      /\ h[p].creds \in [Inbounds -> Nat]
  BY <1>2 DEF HandlerState
<1>4. /\ pending = 0 /\ \A s \in Syncs : y[s].pc = "idle"
      /\ \A q \in Handlers \ {p} : h[q].pc = "idle"
  BY DEF SerialInv, AloneInv
<1>5. /\ RequestOf(h[p], user[h[p].u])
      /\ h[p].pc = "erase" => h[p].buf = file[h[p].i]
      /\ \A i \in Inbounds : CellOf(h[p], i, user[h[p].u].enabled, client[h[p].u][i],
                                    file[i][h[p].u], run[i][h[p].u])
  BY Zenon DEF SerialInv
<1> QED BY <1>1, <1>2, <1>3, <1>4, <1>5

(* The steps of a request that only read: what they found is what the      *)
(* next steps act on.                                                      *)
LEMMA ServedReads ==
    ASSUME IInv, SerialInv, Serial, grpc = TRUE, NEW p \in Handlers, h[p].pc # "idle",
           \/ CheckDuplicate(p) \/ GetByID(p) \/ ReadAccount(p) \/ ReadClient(p)
           \/ AddDone(p) \/ PushDone(p) \/ RemoveDone(p)
           \/ \E i \in Inbounds : ReadToRemove(p, i)
    PROVE  ServedStep(p)
<1> DEFINE r == h[p]
           u == h[p].u
           C(q, i) == CellOf(q, i, user[u].enabled, client[u][i], file[i][u], run[i][u])
           A(i) == Agree(user[u].enabled, client[u][i], file[i][u], run[i][u])
           Same == UNCHANGED <<user, client, file, run, y>>
<1>c. /\ TypeOK /\ RowsInv /\ pending = 0
      /\ r \in HandlerState /\ u \in Users /\ r.i \in Inbounds
      /\ r.todo \in SUBSET Inbounds /\ r.creds \in [Inbounds -> Nat]
      /\ RequestOf(r, user[u]) /\ (r.pc = "erase" => r.buf = file[r.i])
      /\ \A i \in Inbounds : C(r, i)
  BY ServedFacts
<1>g. ASSUME NEW q, Goto(p, q), Same, pending' = pending, q.pc # "idle", q.u = u,
             RequestOf(q, user[u]), q.pc = "erase" => q.buf = file[q.i],
             \A i \in Inbounds : C(q, i)
      PROVE  ServedStep(p)
  <2>1. RequestAt(q, user', client', file', run')
    BY <1>g DEF RequestAt
  <2>2. Elsewhere(u)
    BY <1>g DEF Elsewhere
  <2> QED BY <1>c, <1>g, <2>1, <2>2, ServedRules
<1>f. ASSUME Finish(p), Same, pending' \in {0, 1}, \A i \in Inbounds : A(i)
      PROVE  ServedStep(p)
  <2>1. AgreeAt(u, user', client', file', run')
    BY <1>f DEF AgreeAt
  <2>2. Elsewhere(u)
    BY <1>f DEF Elsewhere
  <2> QED BY <1>c, <1>f, <2>1, <2>2, ServedRules
<1>r. user[u].id # 0 => \A i \in Inbounds :
                /\ GetAllUserClients(user[u].id)[i] = client[u][i].cred
                /\ GetUserClients(user[u].id)[i] = IF client[u][i].enabled THEN client[u][i].cred ELSE 0
  BY <1>c, AccountRows
<1>d. r.pc \notin {"idle", "check", "insert", "lookup"} => r.id # 0 /\ user[u].id = r.id
  BY <1>c DEF IInv, RowInv, HeldIdsGiven, RequestOf
<1> HIDE DEF A
<1>1. ASSUME CheckDuplicate(p) PROVE ServedStep(p)
  <2> DEFINE q == [r EXCEPT !.pc = "insert"]
  <2>1. r.pc = "check" /\ Same /\ pending' = pending /\ (Finish(p) \/ Goto(p, q))
    BY <1>1 DEF CheckDuplicate
  <2>2. \A i \in Inbounds : A(i)
    BY <1>c, <2>1 DEF CellOf, A, Adding, Starting, Stopping
  <2>3. q.pc = "insert" /\ q.u = u /\ q.op = r.op
    BY <1>c, Zenon DEF HandlerState
  <2> HIDE DEF q
  <2>4. RequestOf(q, user[u]) /\ \A i \in Inbounds : C(q, i)
    BY <1>c, <2>2, <2>3 DEF RequestOf, CellOf, A, Adding, Starting, Stopping
  <2> HIDE DEF C, u
  <2> QED BY <1>c, <1>f, <1>g, <2>1, <2>2, <2>3, <2>4
<1>2. ASSUME GetByID(p) PROVE ServedStep(p)
  <2> DEFINE b == r.op \in {"enableUser", "disableUser"}
             q == [r EXCEPT !.id = user[u].id, !.pc = IF b THEN "update" ELSE "clients"]
  <2>1. r.pc = "lookup" /\ Same /\ pending' = pending /\ (Finish(p) \/ Goto(p, q))
    BY <1>2, Zenon DEF GetByID
  <2>2. \A i \in Inbounds : A(i)
    BY <1>c, <2>1 DEF CellOf, A, Adding, Starting, Stopping
  <2>3. q.pc = (IF b THEN "update" ELSE "clients") /\ q.u = u /\ q.op = r.op /\ q.id = user[u].id
    <3> HIDE DEF b
    <3> QED BY <1>c, Zenon DEF HandlerState
  <2> HIDE DEF q
  <2>4. RequestOf(q, user[u]) /\ \A i \in Inbounds : C(q, i)
    BY <1>c, <2>2, <2>3, ZenonT(60) DEF RequestOf, CellOf, A, Adding, Starting, Stopping
  <2>5. q.pc \notin {"idle", "erase"}
    BY <2>3
  <2> HIDE DEF C, u
  <2> QED BY <1>c, <1>f, <1>g, <2>1, <2>2, <2>3, <2>4, <2>5
<1>3. ASSUME ReadAccount(p) PROVE ServedStep(p)
  <2> DEFINE rows == GetUserClients(r.id)
             is == {i \in Inbounds : rows[i] # 0}
             on == r.op = "enableUser"
             q == [r EXCEPT !.todo = is, !.asked = is, !.creds = rows,
                            !.pc = IF on THEN "push" ELSE "remove"]
  <2>1. /\ r.pc = "clients" /\ r.op \in AccountOps /\ Same /\ pending' = pending
        /\ (is = {} /\ Finish(p)) \/ Goto(p, q)
    BY <1>3, Zenon DEF ReadAccount
  <2>2. r.op \in {"enableUser", "disableUser"}
    BY <1>c, <2>1, Zenon DEF AccountOps, RequestOf
  <2>3. \A i \in Inbounds : rows[i] = IF client[u][i].enabled THEN client[u][i].cred ELSE 0
    BY <1>d, <1>r, <2>1, Zenon
  <2>4. \A i \in Inbounds : i \notin is => A(i)
    BY <1>c, <2>1, <2>2, <2>3, ZenonT(60) DEF CellOf, A, Adding, Starting, Stopping, Agree, Loose
  <2>5. q.pc = (IF on THEN "push" ELSE "remove") /\ q.u = u /\ q.op = r.op /\ q.id = r.id
        /\ q.todo = is /\ q.creds = rows
    <3> HIDE DEF on, is, rows
    <3> QED BY <1>c DEF HandlerState
  <2> HIDE DEF q
  <2>6. RequestOf(q, user[u])
    BY <1>c, <2>1, <2>2, <2>5 DEF RequestOf
  <2>7. ASSUME NEW i \in Inbounds PROVE C(q, i)
    <3>1. C(r, i)
      BY <1>c
    <3>2. i \in is => rows[i] = client[u][i].cred /\ client[u][i].enabled
      BY <2>3
    <3>3. ~on => A(i)
      BY <2>1, <2>2, <3>1 DEF CellOf, A, Adding, Starting, Stopping
    <3>4. on => Agree(FALSE, client[u][i], file[i][u], run[i][u])
      BY <2>1, <2>2, <3>1 DEF CellOf, Starting
    <3> HIDE DEF is, rows
    <3> QED BY <2>2, <2>4, <2>5, <3>2, <3>3, <3>4 DEF CellOf, A, Adding, Starting, Stopping
  <2>8. q.pc \notin {"idle", "erase"}
    BY <2>5
  <2> HIDE DEF C, u, is, rows
  <2>9. is = {} => \A i \in Inbounds : A(i)
    BY <2>4
  <2> QED BY <1>c, <1>f, <1>g, <2>1, <2>5, <2>6, <2>7, <2>8, <2>9
<1>4. ASSUME ReadClient(p) PROVE ServedStep(p)
  <2> DEFINE all == GetAllUserClients(r.id)
             q == [r EXCEPT !.creds = all, !.pc = "flag"]
             t == [r EXCEPT !.pc = "add"]
  <2>1. /\ r.pc = "clients" /\ r.op \in ClientOps /\ Same /\ pending' = pending
        /\ \/ Finish(p) \/ Goto(p, q)
           \/ all[r.i] = 0 /\ Goto(p, t)
    BY <1>4, Zenon DEF ReadClient
  <2>2. r.op \notin {"enableUser", "disableUser"} /\ r.todo = {r.i}
    BY <2>1 DEF ClientOps, IInv, CarriedOwned
  <2>3. \A i \in Inbounds : A(i)
    BY <1>c, <2>1, <2>2 DEF CellOf, A, Adding, Starting, Stopping
  <2>4. \A i \in Inbounds : all[i] = client[u][i].cred
    BY <1>d, <1>r, <2>1
  <2> HIDE DEF all
  <2>5. /\ q.pc = "flag" /\ q.u = u /\ q.op = r.op /\ q.id = r.id /\ q.creds = all
        /\ t.pc = "add" /\ t.u = u /\ t.op = r.op /\ t.id = r.id /\ t.todo = r.todo
    BY <1>c DEF HandlerState
  <2> HIDE DEF q, t
  <2>6. RequestOf(q, user[u]) /\ RequestOf(t, user[u])
    BY <1>c, <2>1, <2>5 DEF RequestOf
  <2>7. \A i \in Inbounds : C(q, i) /\ (all[r.i] = 0 => C(t, i))
    BY <2>2, <2>3, <2>4, <2>5 DEF CellOf, A, Adding, Starting, Stopping
  <2> HIDE DEF C, u
  <2> QED BY <1>c, <1>f, <1>g, <2>1, <2>3, <2>5, <2>6, <2>7
<1>5. ASSUME AddDone(p) \/ PushDone(p) \/ RemoveDone(p) PROVE ServedStep(p)
  <2>1. /\ r.pc \in {"add", "push", "remove"} /\ r.todo = {} /\ Same
        /\ pending' \in {pending, pending + 1}
        /\ Finish(p) \/ r.op = "deleteUser"
    BY <1>5 DEF AddDone, PushDone, RemoveDone, SpawnSync
  <2>2. \A i \in Inbounds : A(i)
    BY <1>c, <2>1, Zenon DEF CellOf, A, Adding, Starting, Stopping
  <2>3. Finish(p) /\ pending' \in {0, 1}
    BY <1>c, <2>1 DEF RequestOf
  <2> QED BY <1>f, <2>1, <2>2, <2>3
<1>6. ASSUME NEW i \in Inbounds, ReadToRemove(p, i) PROVE ServedStep(p)
  <2> DEFINE q == [r EXCEPT !.i = i, !.buf = file[i], !.pc = "erase"]
             t == [r EXCEPT !.todo = @ \ {i}, !.pc = "remove"]
  <2>1. /\ r.pc = "scan" /\ i = r.i /\ Same /\ pending' = pending
        /\ (file[i][u] = <<>> /\ Goto(p, t)) \/ Goto(p, q)
    BY <1>6, Zenon DEF ReadToRemove, Serial
  <2>2. /\ q.pc = "erase" /\ q.i = i /\ q.u = u /\ q.op = r.op /\ q.id = r.id /\ q.buf = file[i]
        /\ q.todo = r.todo
        /\ t.pc = "remove" /\ t.u = u /\ t.op = r.op /\ t.id = r.id /\ t.todo = r.todo \ {i}
    BY <1>c DEF HandlerState
  <2> HIDE DEF q, t
  <2>3. RequestOf(q, user[u]) /\ RequestOf(t, user[u])
    BY <1>c, <2>1, <2>2 DEF RequestOf
  <2>4. ASSUME NEW j \in Inbounds PROVE C(q, j)
    <3>1. C(r, j)
      BY <1>c
    <3> QED BY <2>1, <2>2, <3>1 DEF CellOf, Adding, Starting, Stopping
  <2>5. ASSUME NEW j \in Inbounds, file[i][u] = <<>> PROVE C(t, j)
    <3>1. C(r, j) /\ r.i \in r.todo
      BY <1>c, <2>1 DEF RequestOf
    <3>2. CASE j # i
      BY <2>1, <2>2, <3>1, <3>2 DEF CellOf, Adding, Starting, Stopping
    <3>3. CASE j = i
      <4>1. A(i)
        BY <2>1, <2>5, <3>1, <3>3, Zenon DEF CellOf, Adding, Starting, Stopping, A, Agree, Loose
      <4> QED BY <2>2, <3>3, <4>1, Zenon DEF CellOf, Adding, Starting, Stopping, A
    <3> QED BY <3>2, <3>3
  <2> HIDE DEF C, u
  <2> QED BY <1>c, <1>g, <2>1, <2>2, <2>3, <2>4, <2>5
<1> QED BY <1>1, <1>2, <1>3, <1>4, <1>5, <1>6, Zenon


(* An entry is a credential, never 0.                                      *)
LEMMA NoZeroEntry ==
    ASSUME TypeOK, CredentialsOwned, NEW i \in Inbounds, NEW u \in Users
    PROVE  file[i][u] # <<0>>
<1>1. EntriesOwned(file[i]) /\ file[i] \in Entries
  BY DEF CredentialsOwned, TypeOK
<1>2. \A k \in 1..Len(file[i][u]) : file[i][u][k] # 0
  BY <1>1 DEF EntriesOwned
<1>3. Len(<<0>>) = 1 /\ <<0>>[1] = 0 /\ 1 \in 1..1
  OBVIOUS
<1> QED BY <1>2, <1>3

(* The steps of a request that write to the database, the runtime or a     *)
(* file: each leaves the client it is at further on its way.               *)
LEMMA ServedWrites ==
    ASSUME IInv, SerialInv, Serial, grpc = TRUE, NEW p \in Handlers, h[p].pc # "idle",
           \/ InsertUser(p) \/ UpdateUser(p) \/ FlagClient(p) \/ UpsertClient(p) \/ EraseFromFile(p)
           \/ \E i \in Inbounds : AddClientRPC(p, i) \/ PushRPC(p, i) \/ RemoveRPC(p, i)
    PROVE  ServedStep(p)
<1> DEFINE r == h[p]
           u == h[p].u
           C(q, i) == CellOf(q, i, user[u].enabled, client[u][i], file[i][u], run[i][u])
           D(q, i) == CellOf(q, i, user'[u].enabled, client'[u][i], file'[i][u], run'[i][u])
           A(i) == Agree(user[u].enabled, client[u][i], file[i][u], run[i][u])
<1>c. /\ TypeOK /\ RowsInv /\ pending = 0
      /\ r \in HandlerState /\ u \in Users /\ r.i \in Inbounds
      /\ r.todo \in SUBSET Inbounds /\ r.creds \in [Inbounds -> Nat]
      /\ RequestOf(r, user[u]) /\ (r.pc = "erase" => r.buf = file[r.i])
      /\ \A i \in Inbounds : C(r, i)
  BY ServedFacts
<1>t. /\ user \in [Users -> [id : Nat, enabled : BOOLEAN]] /\ lastId \in Nat
      /\ client \in [Users -> [Inbounds -> [cred : Nat, enabled : BOOLEAN]]]
      /\ client[u] \in [Inbounds -> [cred : Nat, enabled : BOOLEAN]]
      /\ user[u] \in [id : Nat, enabled : BOOLEAN]
      /\ file \in [Inbounds -> [Users -> Seq(Nat)]] /\ run \in [Inbounds -> [Users -> Nat]]
  BY <1>c DEF TypeOK, Entries
<1>g. ASSUME NEW q, Goto(p, q), y' = y, pending' = pending, Elsewhere(u), q.pc # "idle", q.u = u,
             RequestOf(q, user'[u]), q.pc # "erase", \A i \in Inbounds : D(q, i)
      PROVE  ServedStep(p)
  <2>1. RequestAt(q, user', client', file', run')
    BY <1>g DEF RequestAt
  <2> QED BY <1>c, <1>g, <2>1, ServedRules
<1>d. r.pc \notin {"idle", "check", "insert", "lookup"} => r.id # 0 /\ user[u].id = r.id
  BY <1>c DEF IInv, RowInv, HeldIdsGiven, RequestOf
<1>o. r.pc \notin {"idle", "check", "insert", "lookup"} => \A v \in Users : Has(v, r.id) <=> v = u
  BY <1>c, <1>d, AccountRows
<1> HIDE DEF A
<1>1. ASSUME InsertUser(p) PROVE ServedStep(p)
  <2> DEFINE q == [r EXCEPT !.pc = "add", !.id = lastId + 1]
  <2>1. r.pc = "insert" /\ UNCHANGED <<client, file, run, y, pending>>
    BY <1>1 DEF InsertUser, CreateUser, db
  <2>2. \A i \in Inbounds : A(i)
    BY <1>c, <2>1 DEF CellOf, A, Adding, Starting, Stopping
  <2>3. CASE Finish(p) /\ UNCHANGED db
    <3>1. AgreeAt(u, user', client', file', run')
      BY <2>1, <2>2, <2>3 DEF AgreeAt, A, db
    <3>2. Elsewhere(u)
      BY <2>1, <2>3 DEF Elsewhere, db
    <3> QED BY <1>c, <2>1, <2>3, <3>1, <3>2, ServedRules
  <2>4. CASE CreateUser(u) /\ Goto(p, q)
    <3>1. user[u].id = 0 /\ user' = [user EXCEPT ![u] = [id |-> lastId + 1, enabled |-> TRUE]]
      BY <2>4 DEF CreateUser
    <3>2. user'[u].id = lastId + 1 /\ \A v \in Users \ {u} : user'[v] = user[v]
      <4> DEFINE w == [id |-> lastId + 1, enabled |-> TRUE]
      <4>1. w.id = lastId + 1
        OBVIOUS
      <4> HIDE DEF w
      <4>2. user' = [user EXCEPT ![u] = w]
        BY <3>1 DEF w
      <4>3. user'[u] = w /\ \A v \in Users \ {u} : user'[v] = user[v]
        BY <1>c, <1>t, <4>2
      <4> QED BY <4>1, <4>3
    <3>3. q.pc = "add" /\ q.u = u /\ q.op = r.op /\ q.id = lastId + 1
      BY <1>c DEF HandlerState
    <3> HIDE DEF q
    <3>4. Elsewhere(u) /\ RequestOf(q, user'[u])
      BY <1>c, <2>1, <3>2, <3>3 DEF Elsewhere, RequestOf
    <3>5. \A i \in Inbounds : client[u][i] = NoClient
      BY <1>c, <3>1 DEF RowsInv
    <3>6. \A i \in Inbounds : client[u][i].cred = 0 /\ ~client[u][i].enabled
      BY <3>5 DEF NoClient
    <3>7. \A i \in Inbounds : D(q, i)
      BY <2>1, <2>2, <3>3, <3>6, Zenon DEF CellOf, A, Adding, Starting, Stopping, Agree, Loose
    <3> QED BY <1>g, <2>1, <2>4, <3>3, <3>4, <3>7
  <2> QED BY <1>1, <2>3, <2>4 DEF InsertUser
<1>2. ASSUME UpdateUser(p) PROVE ServedStep(p)
  <2> DEFINE b == r.op = "enableUser"
             q == [r EXCEPT !.pc = "clients"]
  <2>1. /\ r.pc = "update" /\ UNCHANGED <<client, file, run, y, pending>> /\ Goto(p, q)
        /\ user' = [v \in Users |-> IF Has(v, r.id) THEN [user[v] EXCEPT !.enabled = b] ELSE user[v]]
    BY <1>2, Zenon DEF UpdateUser, SetUserEnabled
  <2>2. r.op \in {"enableUser", "disableUser"}
    BY <2>1 DEF IInv, OpInv
  <2>3. \A i \in Inbounds : A(i)
    BY <1>c, <2>1 DEF CellOf, A, Adding, Starting, Stopping
  <2>4. b \in BOOLEAN
    OBVIOUS
  <2>5. /\ user'[u] = [user[u] EXCEPT !.enabled = b]
        /\ \A v \in Users \ {u} : user'[v] = user[v]
    BY <1>c, <1>o, <2>1, Zenon
  <2> HIDE DEF b
  <2>6. user'[u].id = user[u].id /\ user'[u].enabled = b
    BY <1>t, <2>5
  <2>7. q.pc = "clients" /\ q.u = u /\ q.op = r.op /\ q.id = r.id
    BY <1>c DEF HandlerState
  <2> HIDE DEF q
  <2>8. Elsewhere(u)
    BY <2>1, <2>5 DEF Elsewhere
  <2>9. RequestOf(q, user'[u])
    BY <1>c, <1>d, <2>1, <2>2, <2>6, <2>7, Zenon DEF RequestOf, b
  <2>10. \A i \in Inbounds : D(q, i)
    BY <2>1, <2>2, <2>3, <2>6, <2>7, Zenon DEF CellOf, A, Adding, Starting, Stopping, Agree, b
  <2> QED BY <1>g, <2>1, <2>7, <2>8, <2>9, <2>10, Zenon
<1>3. ASSUME FlagClient(p) PROVE ServedStep(p)
  <2> DEFINE b == r.op # "disableClient"
             k == r.i
             q == [r EXCEPT !.pc = IF r.op = "disableClient" THEN "remove" ELSE "push"]
  <2>1. /\ r.pc = "flag" /\ UNCHANGED <<user, file, run, y, pending>> /\ Goto(p, q)
        /\ client' = [v \in Users |-> IF Has(v, r.id) /\ client[v][k].cred # 0
                        THEN [client[v] EXCEPT ![k] = [cred |-> @.cred, enabled |-> b]]
                        ELSE client[v]]
    BY <1>3, Zenon DEF FlagClient, SetUserClientEnabled
  <2>2. r.op \in ClientOps /\ r.todo = {k} /\ r.creds[k] # 0
    BY <2>1 DEF IInv, OpInv, CarriedOwned
  <2>3. \A i \in Inbounds : A(i)
    BY <1>c, <2>1 DEF CellOf, A, Adding, Starting, Stopping
  <2>4. r.creds[k] = client[u][k].cred
    BY <1>c, <2>1, Zenon DEF CellOf
  <2>5. \A v \in Users \ {u} : client'[v] = client[v]
    BY <1>o, <2>1, Zenon
  <2>6. client'[u] = [client[u] EXCEPT ![k] = [cred |-> client[u][k].cred, enabled |-> b]]
    BY <1>c, <1>o, <2>1, <2>2, <2>4, Zenon
  <2> HIDE DEF b
  <2>7. /\ client'[u][k].cred = client[u][k].cred /\ client'[u][k].enabled = b
        /\ \A i \in Inbounds \ {k} : client'[u][i] = client[u][i]
    <3> DEFINE x == [cred |-> client[u][k].cred, enabled |-> b]
    <3>1. client[u] \in [Inbounds -> [cred : Nat, enabled : BOOLEAN]] /\ k \in Inbounds
      BY <1>c, <1>t, Zenon
    <3>2. x.cred = client[u][k].cred /\ x.enabled = b
      OBVIOUS
    <3>3. client'[u] = [client[u] EXCEPT ![k] = x]
      BY <2>6, Zenon
    <3> HIDE DEF x
    <3>4. client'[u][k] = x /\ \A i \in Inbounds \ {k} : client'[u][i] = client[u][i]
      BY <3>1, <3>3
    <3> QED BY <3>2, <3>4, Zenon
  <2>8. /\ q.pc = (IF r.op = "disableClient" THEN "remove" ELSE "push")
        /\ q.u = u /\ q.op = r.op /\ q.id = r.id /\ q.todo = {k} /\ q.creds = r.creds
    BY <1>c, <2>2 DEF HandlerState
  <2> HIDE DEF q
  <2>9. Elsewhere(u)
    BY <2>1, <2>5 DEF Elsewhere
  <2>10. RequestOf(q, user'[u]) /\ q.pc \notin {"idle", "erase"}
    BY <1>c, <1>d, <2>1, <2>2, <2>8 DEF RequestOf, ClientOps
  <2>11. ASSUME NEW i \in Inbounds PROVE D(q, i)
    <3>1. CASE i # k
      <4>1. D(q, i) <=> C(q, i)
        BY <2>1, <2>7, <3>1, Zenon
      <4> HIDE DEF D
      <4> QED BY <2>2, <2>3, <2>8, <3>1, <4>1, ZenonT(60)
         DEF CellOf, A, Adding, Starting, Stopping, ClientOps
    <3>2. CASE i = k
      <4>1. A(k)
        BY <1>c, <2>3
      <4> QED BY <2>1, <2>2, <2>4, <2>7, <2>8, <3>2, <4>1, ZenonT(60)
           DEF CellOf, A, Adding, Starting, Stopping, Agree, Loose, ClientOps, b
    <3> QED BY <3>1, <3>2
  <2> HIDE DEF D, u
  <2> QED BY <1>g, <2>1, <2>8, <2>9, <2>10, <2>11
<1>4. ASSUME UpsertClient(p) PROVE ServedStep(p)
  <2> DEFINE k == r.i
             c == r.creds[k]
             e == client[u][k].cred = 0 \/ client[u][k].enabled
             q == [r EXCEPT !.todo = @ \ {r.i}, !.pc = "add"]
  <2>1. /\ r.pc = "upsert" /\ UNCHANGED <<user, file, run, y, pending>> /\ Goto(p, q)
        /\ client' = [v \in Users |-> IF Has(v, r.id)
                 THEN [client[v] EXCEPT ![k] = [cred |-> c, enabled |-> @.cred = 0 \/ @.enabled]]
                 ELSE client[v]]
    BY <1>4, Zenon DEF UpsertClient, UpsertUserClient
  <2>2. C(r, k) /\ k \in r.todo
    BY <1>c, <2>1, Zenon DEF RequestOf
  <2>3. client[u][k].cred = 0 /\ file[k][u] = <<>> /\ run[k][u] = c
    BY <2>1, <2>2, Zenon DEF CellOf, Adding
  <2>4. \A v \in Users \ {u} : client'[v] = client[v]
    BY <1>o, <2>1, Zenon
  <2>5. client'[u] = [client[u] EXCEPT ![k] = [cred |-> c, enabled |-> e]]
    BY <1>c, <1>o, <2>1, Zenon
  <2>6. e /\ e \in BOOLEAN
    BY <2>3
  <2> HIDE DEF e
  <2>7. /\ client'[u][k].cred = c /\ client'[u][k].enabled = e
        /\ \A i \in Inbounds \ {k} : client'[u][i] = client[u][i]
    BY <1>c, <1>t, <2>5, SMTT(60)
  <2>8. q.pc = "add" /\ q.u = u /\ q.op = r.op /\ q.id = r.id /\ q.todo = r.todo \ {k}
    BY <1>c DEF HandlerState
  <2> HIDE DEF q
  <2>9. Elsewhere(u)
    BY <2>1, <2>4, Zenon DEF Elsewhere
  <2>10. RequestOf(q, user'[u])
    BY <1>c, <1>d, <2>1, <2>8 DEF RequestOf
  <2>11. ASSUME NEW i \in Inbounds PROVE D(q, i)
    <3>1. CASE i # k
      <4>1. C(r, i)
        BY <1>c
      <4>2. D(q, i) <=> C(q, i)
        BY <2>1, <2>7, <3>1, Zenon
      <4> HIDE DEF D
      <4> QED BY <2>1, <2>8, <3>1, <4>1, <4>2 DEF CellOf, Adding, Starting, Stopping
    <3>2. CASE i = k
      BY <2>1, <2>3, <2>6, <2>7, <2>8, <3>2, Zenon
         DEF CellOf, Adding, Starting, Stopping, Agree, Loose
    <3> QED BY <3>1, <3>2
  <2> HIDE DEF D, u
  <2> QED BY <1>g, <2>1, <2>8, <2>9, <2>10, <2>11
<1>5. ASSUME EraseFromFile(p) PROVE ServedStep(p)
  <2> DEFINE k == r.i
             q == [r EXCEPT !.todo = @ \ {r.i}, !.buf = NoEntries, !.pc = "remove"]
  <2>1. /\ r.pc = "erase" /\ UNCHANGED <<user, client, run, y, pending>> /\ Goto(p, q)
        /\ file' = [file EXCEPT ![k] = [r.buf EXCEPT ![u] = <<>>]]
    BY <1>5 DEF EraseFromFile, WithoutEntry, Serial
  <2>2. r.buf = file[k] /\ C(r, k) /\ k \in r.todo
    BY <1>c, <2>1, Zenon DEF RequestOf
  <2>3. /\ file'[k][u] = <<>> /\ \A i \in Inbounds \ {k} : file'[i] = file[i]
        /\ \A v \in Users \ {u} : file'[k][v] = file[k][v]
    <3>1. file \in [Inbounds -> [Users -> Seq(Nat)]] /\ k \in Inbounds /\ u \in Users
      BY <1>c, <1>t, Zenon
    <3>2. file' = [file EXCEPT ![k] = [file[k] EXCEPT ![u] = <<>>]]
      BY <2>1, <2>2, Zenon
    <3>3. /\ file'[k] = [file[k] EXCEPT ![u] = <<>>]
          /\ \A i \in Inbounds \ {k} : file'[i] = file[i]
      BY <3>1, <3>2, UpdateOne, Zenon
    <3>4. file[k] \in [Users -> Seq(Nat)]
      BY <3>1, Zenon
    <3> QED BY <3>1, <3>3, <3>4
  <2>4. q.pc = "remove" /\ q.u = u /\ q.op = r.op /\ q.id = r.id /\ q.todo = r.todo \ {k}
    BY <1>c DEF HandlerState
  <2> HIDE DEF q
  <2>5. Elsewhere(u)
    BY <2>1, <2>3 DEF Elsewhere
  <2>6. RequestOf(q, user'[u]) /\ r.op \in {"disableUser", "disableClient"}
        /\ (r.op = "disableUser" => ~user[u].enabled)
    BY <1>c, <1>d, <2>1, <2>4 DEF RequestOf
  <2>7. ASSUME NEW i \in Inbounds PROVE D(q, i)
    <3>1. CASE i # k
      <4>1. C(r, i)
        BY <1>c
      <4>2. D(q, i) <=> C(q, i)
        BY <2>1, <2>3, <3>1
      <4> HIDE DEF D
      <4> QED BY <2>1, <2>4, <3>1, <4>1, <4>2 DEF CellOf, Adding, Starting, Stopping
    <3>2. CASE i = k
      BY <2>1, <2>2, <2>3, <2>4, <2>6, <3>2, Zenon
         DEF CellOf, Adding, Starting, Stopping, Agree, Loose
    <3> QED BY <3>1, <3>2
  <2> HIDE DEF D, u
  <2> QED BY <1>g, <2>1, <2>4, <2>5, <2>6, <2>7
<1>n. ASSUME NEW k \in Inbounds, NEW c, run' = [run EXCEPT ![k][u] = c], UNCHANGED <<user, client, file>>
      PROVE  /\ Elsewhere(u) /\ run'[k][u] = c
             /\ \A i \in Inbounds \ {k} : run'[i] = run[i]
             /\ \A q, i : i \in Inbounds \ {k} => (D(q, i) <=> C(q, i))
  <2>1. /\ run'[k][u] = c /\ \A i \in Inbounds \ {k} : run'[i] = run[i]
        /\ \A v \in Users \ {u} : run'[k][v] = run[k][v]
    BY <1>c, <1>n, <1>t
  <2>2. Elsewhere(u)
    BY <1>n, <2>1 DEF Elsewhere
  <2> QED BY <1>n, <2>1, <2>2
<1>6. ASSUME NEW k \in Inbounds, AddClientRPC(p, k) PROVE ServedStep(p)
  <2> DEFINE c == Len(owner) + 1
             q == [r EXCEPT !.pc = "upsert", !.i = k, !.creds[k] = c]
             t == [r EXCEPT !.todo = @ \ {k}]
  <2>1. /\ r.pc = "add" /\ k \in r.todo /\ UNCHANGED <<user, client, file, y, pending>>
        /\ \/ run[k][u] = 0 /\ run' = [run EXCEPT ![k][u] = c] /\ Goto(p, q)
           \/ run' = run /\ Goto(p, t)
    BY <1>6, Zenon DEF AddClientRPC, Added, Serial
  <2> HIDE DEF c
  <2>2. /\ q.pc = "upsert" /\ q.i = k /\ q.u = u /\ q.op = r.op /\ q.id = r.id /\ q.todo = r.todo
        /\ q.creds[k] = c
        /\ t.pc = "add" /\ t.u = u /\ t.op = r.op /\ t.id = r.id /\ t.todo = r.todo \ {k}
    BY <1>c, <2>1 DEF HandlerState
  <2> HIDE DEF q, t
  <2>3. RequestOf(q, user'[u]) /\ RequestOf(t, user'[u])
    BY <1>c, <1>d, <2>1, <2>2 DEF RequestOf
  <2>4. \A i \in Inbounds : A(i) /\ (i \in r.todo => client[u][i].cred = 0)
    BY <1>c, <2>1 DEF CellOf, A, Adding, Starting, Stopping
  <2>5. file[k][u] # <<0>>
    BY <1>c, NoZeroEntry, Zenon DEF IInv
  <2>6. file[k][u] = <<>>
    BY <2>1, <2>4, <2>5, Zenon DEF A, Agree, Loose
  <2>7. CASE run' = [run EXCEPT ![k][u] = c] /\ Goto(p, q)
    <3>1. /\ Elsewhere(u) /\ run'[k][u] = c
          /\ \A i \in Inbounds \ {k} : D(q, i) <=> C(q, i)
      BY <1>n, <2>1, <2>7, Zenon
    <3>2. ASSUME NEW i \in Inbounds \ {k} PROVE D(q, i)
      <4>1. C(q, i)
        BY <2>2, <2>4 DEF CellOf, A, Adding, Starting, Stopping
      <4> HIDE DEF C, D
      <4> QED BY <3>1, <4>1
    <3>3. D(q, k)
      BY <2>1, <2>2, <2>4, <2>6, <3>1, Zenon DEF CellOf, Adding, Starting, Stopping
    <3> HIDE DEF C, D, u
    <3> QED BY <1>g, <2>1, <2>2, <2>3, <2>7, <3>1, <3>2, <3>3
  <2>8. CASE run' = run /\ Goto(p, t)
    <3>1. Elsewhere(u)
      BY <2>1, <2>8 DEF Elsewhere
    <3>2. \A i \in Inbounds : D(t, i)
      BY <2>1, <2>2, <2>4, <2>8 DEF CellOf, A, Adding, Starting, Stopping
    <3> HIDE DEF C, D, u
    <3> QED BY <1>g, <2>1, <2>2, <2>3, <2>8, <3>1, <3>2
  <2> QED BY <2>1, <2>7, <2>8
<1>7. ASSUME NEW k \in Inbounds, PushRPC(p, k) \/ RemoveRPC(p, k) PROVE ServedStep(p)
  <2> DEFINE c == IF r.pc = "remove" THEN 0 ELSE IF run[k][u] = 0 THEN r.creds[k] ELSE run[k][u]
             q == [r EXCEPT !.todo = @ \ {k}]
             t == [r EXCEPT !.pc = "scan", !.i = k]
  <2>0. [run EXCEPT ![k][u] = run[k][u]] = run
    BY <1>t
  <2>1. /\ k \in r.todo /\ UNCHANGED <<user, client, file, y, pending>>
        /\ run' = [run EXCEPT ![k][u] = c]
        /\ (r.pc = "push" /\ Goto(p, q)) \/ (r.pc = "remove" /\ Goto(p, t))
    BY <1>7, <2>0, Zenon DEF PushRPC, RemoveRPC, AddUserRPC, RemoveUserRPC, Added, Serial
  <2>2. /\ q.pc = r.pc /\ q.u = u /\ q.op = r.op /\ q.id = r.id /\ q.todo = r.todo \ {k}
        /\ q.creds = r.creds
        /\ t.pc = "scan" /\ t.i = k /\ t.u = u /\ t.op = r.op /\ t.id = r.id /\ t.todo = r.todo
    BY <1>c DEF HandlerState
  <2> HIDE DEF q, t
  <2>3. (r.pc = "push" => RequestOf(q, user'[u])) /\ (r.pc = "remove" => RequestOf(t, user'[u]))
    BY <1>c, <1>d, <2>1, <2>2, Zenon DEF RequestOf
  <2>4. C(r, k)
    BY <1>c
  <2>5. /\ r.pc = "push" => c = client[u][k].cred /\ client[u][k].enabled
                            /\ Agree(FALSE, client[u][k], file[k][u], run[k][u])
        /\ r.pc = "remove" => c = 0
    BY <2>1, <2>4, Zenon DEF CellOf, Starting, Agree, Loose
  <2>6. r.pc = "remove" => /\ r.op \in {"disableUser", "disableClient"}
                           /\ r.op = "disableUser" => ~user[u].enabled
    BY <1>c DEF RequestOf
  <2> HIDE DEF c
  <2>7. /\ Elsewhere(u) /\ run'[k][u] = c
        /\ \A i \in Inbounds \ {k} : (D(q, i) <=> C(q, i)) /\ (D(t, i) <=> C(t, i))
    BY <1>n, <2>1, Zenon
  <2>8. ASSUME NEW i \in Inbounds \ {k}
        PROVE  (r.pc = "push" => D(q, i)) /\ (r.pc = "remove" => D(t, i))
    <3>1. C(r, i)
      BY <1>c
    <3>2. (r.pc = "push" => C(q, i)) /\ (r.pc = "remove" => C(t, i))
      BY <2>2, <3>1, Zenon DEF CellOf, Adding, Starting, Stopping
    <3> HIDE DEF C, D
    <3> QED BY <2>7, <3>2
  <2>9. r.pc = "push" => D(q, k)
    BY <2>1, <2>2, <2>5, <2>7, ZenonT(60) DEF CellOf, Adding, Starting, Stopping, Agree, Loose
  <2>10. r.pc = "remove" => D(t, k)
    BY <2>1, <2>2, <2>4, <2>5, <2>6, <2>7, Zenon
       DEF CellOf, Adding, Starting, Stopping, Agree, Loose
  <2> HIDE DEF C, D, u
  <2> QED BY <1>g, <2>1, <2>2, <2>3, <2>7, <2>8, <2>9, <2>10
<1> QED BY <1>1, <1>2, <1>3, <1>4, <1>5, <1>6, <1>7, Zenon


(* What the step of a Sync leaves behind.                                  *)
PassStep(s) ==
    /\ h' = h /\ pending' = 0 /\ \A t \in Syncs \ {s} : y'[t] = y[t]
    /\ \A u \in Users : AgreeAt(u, user', client', file', run')
    /\ PassOf(y'[s], client', file')

(* While a Sync runs, or one may start, no request is in progress, so all  *)
(* clients agree.                                                          *)
LEMMA PassFacts ==
    ASSUME IInv, SerialInv, Serial, grpc = TRUE, NEW s \in Syncs, SyncStart(s) \/ y[s].pc # "idle"
    PROVE  /\ TypeOK /\ y[s] \in SyncState /\ y[s].i \in Inbounds /\ y[s].u \in Users
           /\ \A p \in Handlers : h[p].pc = "idle"
           /\ \A t \in Syncs \ {s} : y[t].pc = "idle"
           /\ y[s].pc # "idle" => pending = 0
           /\ \A u \in Users : AgreeAt(u, user, client, file, run)
           /\ PassOf(y[s], client, file)
<1>1. TypeOK
  BY DEF IInv, RowInv
<1>2. y[s] \in SyncState
  BY <1>1 DEF TypeOK
<1>3. y[s].i \in Inbounds /\ y[s].u \in Users
  BY <1>2 DEF SyncState
<1>4. PassOf(y[s], client, file) /\ AloneInv
  BY DEF SerialInv
<1>5. SyncStart(s) => pending > 0 \/ AtRest
  BY DEF SyncStart, Serial
<1>6. SyncStart(s) => (\A p \in Handlers : h[p].pc = "idle") /\ (\A t \in Syncs : y[t].pc = "idle")
  BY <1>4, <1>5 DEF AtRest, HandlersIdle, SyncsIdle, AloneInv
<1>7. y[s].pc # "idle" => /\ \A p \in Handlers : h[p].pc = "idle"
                          /\ \A t \in Syncs \ {s} : y[t].pc = "idle"
                          /\ pending = 0
  BY <1>4 DEF AloneInv
<1>8. \A p \in Handlers : h[p].pc = "idle"
  BY <1>6, <1>7
<1>9. \A u \in Users : AgreeAt(u, user, client, file, run)
  BY <1>8 DEF SerialInv, AgreeAt
<1> QED BY <1>1, <1>2, <1>3, <1>4, <1>6, <1>7, <1>8, <1>9

(* Every step of a Sync leaves all clients in agreement: it imports what   *)
(* the rows already say, and appends only enabled clients the file lacks.  *)
LEMMA PassSteps ==
    ASSUME IInv, SerialInv, Serial, grpc = TRUE, NEW s \in Syncs,
           SyncStart(s) \/ (y[s].pc # "idle" /\ SyncStep(s))
    PROVE  PassStep(s)
<1> DEFINE z == y[s]
           Same == UNCHANGED <<user, client, file, run, h>>
<1>c. /\ TypeOK /\ z \in SyncState /\ z.i \in Inbounds /\ z.u \in Users
      /\ z.pc # "idle" => pending = 0
      /\ \A u \in Users : AgreeAt(u, user, client, file, run)
      /\ PassOf(z, client, file)
  BY PassFacts
<1>t. /\ y \in [Syncs -> SyncState]
      /\ user \in [Users -> [id : Nat, enabled : BOOLEAN]]
      /\ client \in [Users -> [Inbounds -> [cred : Nat, enabled : BOOLEAN]]]
      /\ file \in [Inbounds -> [Users -> Seq(Nat)]] /\ pending \in Nat
      /\ z.snap \in [Inbounds -> [Users -> Seq(Nat)]] /\ z.want \in [Users -> Nat]
  BY <1>c DEF TypeOK, SyncState, Entries
<1>p. z.boot = FALSE /\ z.pc \notin {"insert", "restore", "restoring"}
  BY <1>c DEF PassOf
<1>a. \A u \in Users, i \in Inbounds :
        Agree(user[u].enabled, client[u][i], file[i][u], run[i][u])
  BY <1>c DEF AgreeAt
<1>g. ASSUME NEW q, GotoSync(s, q), Same, pending' = 0, PassOf(q, client, file)
      PROVE  PassStep(s)
  <2>1. y'[s] = q /\ \A t \in Syncs \ {s} : y'[t] = y[t]
    BY <1>g, <1>t DEF GotoSync
  <2>2. \A u \in Users : AgreeAt(u, user', client', file', run')
    BY <1>c, <1>g
  <2>3. PassOf(y'[s], client', file')
    BY <1>g, <2>1
  <2> QED BY <1>g, <2>1, <2>2, <2>3 DEF PassStep
<1>z. ASSUME NEW u \in Users, NEW i \in Inbounds, z.pc \in {"entries", "link"}, z.snap[i][u] # <<>>
      PROVE  /\ z.snap[i][u] = <<client[u][i].cred>> /\ client[u][i].cred # 0
             /\ Head(z.snap[i][u]) = client[u][i].cred /\ Tail(z.snap[i][u]) = <<>>
             /\ user[u].id # 0
  <2> DEFINE c == client[u][i].cred
  <2>1. z.snap[i][u] = <<c>>
    BY <1>c, <1>z DEF PassOf
  <2>2. c \in Nat
    BY <1>t
  <2>3. EntriesOwned(z.snap[i])
    BY DEF IInv, CarriedOwned
  <2>4. \A k \in 1..Len(z.snap[i][u]) : z.snap[i][u][k] # 0
    BY <2>3 DEF EntriesOwned
  <2>9. user[u].id = 0 => client[u][i] = NoClient
    BY DEF IInv, RowInv, RowsInv
  <2> HIDE DEF c
  <2>5. Len(<<c>>) = 1 /\ <<c>>[1] = c /\ Head(<<c>>) = c /\ Tail(<<c>>) = <<>>
    BY <2>2
  <2>6. c # 0
    BY <2>1, <2>4, <2>5
  <2>7. user[u].id # 0
    BY <2>6, <2>9 DEF c, NoClient
  <2> QED BY <2>1, <2>5, <2>6, <2>7 DEF c
<1>x. ASSUME z.pc = "link", z.snap[z.i][z.u] # <<>>
      PROVE  \A cl : (\A u \in Users, i \in Inbounds : cl[u][i].cred = client[u][i].cred)
                       => PassOf(NextEntry(z), cl, file)
  <2> DEFINE q == NextEntry(z)
  <2>1. q.pc = "entries" /\ q.boot = z.boot /\ q.snap = [z.snap EXCEPT ![z.i][z.u] = Tail(@)]
    BY <1>c DEF NextEntry, SyncState
  <2>2. Tail(z.snap[z.i][z.u]) = <<>>
    BY <1>c, <1>x, <1>z, Zenon
  <2>3. \A i \in Inbounds, u \in Users : q.snap[i][u] = <<>> \/ q.snap[i][u] = z.snap[i][u]
    <3> DEFINE e == [z.snap[z.i] EXCEPT ![z.u] = <<>>]
    <3>1. q.snap = [z.snap EXCEPT ![z.i] = e]
      BY <1>c, <1>t, <2>1, <2>2, Zenon
    <3>2. \A u \in Users : e[u] = <<>> \/ e[u] = z.snap[z.i][u]
      BY <1>c, <1>t
    <3> HIDE DEF e, q
    <3>3. \A i \in Inbounds : q.snap[i] = IF i = z.i THEN e ELSE z.snap[i]
      BY <1>t, <3>1
    <3> QED BY <3>2, <3>3
  <2>4. \A i \in Inbounds, u \in Users : z.snap[i][u] \in {<<>>, <<client[u][i].cred>>}
    BY <1>c, <1>x DEF PassOf
  <2> HIDE DEF q
  <2> QED BY <1>p, <2>1, <2>3, <2>4, ZenonT(60) DEF PassOf, q
<1>1. ASSUME SyncStart(s) PROVE PassStep(s)
  <2> DEFINE q == [z EXCEPT !.pc = "entries", !.snap = file]
  <2>1. GotoSync(s, q) /\ Same /\ pending' = IF pending > 0 THEN pending - 1 ELSE 0
    BY <1>1, Zenon DEF SyncStart
  <2>2. pending' = 0
    BY <2>1 DEF SerialInv, AloneInv
  <2>3. q.pc = "entries" /\ q.boot = z.boot /\ q.snap = file
    BY <1>c DEF SyncState
  <2> HIDE DEF q
  <2>4. \A i \in Inbounds, u \in Users : file[i][u] \in {<<>>, <<client[u][i].cred>>}
    BY <1>a DEF Agree, Loose
  <2>5. PassOf(q, client, file)
    BY <1>p, <2>3, <2>4 DEF PassOf
  <2> QED BY <1>g, <2>1, <2>2, <2>5
<1>2. ASSUME NEW i \in Inbounds, NEW u \in Users, SyncLookup(s, i, u), z.pc # "idle" PROVE PassStep(s)
  <2> DEFINE q == [z EXCEPT !.i = i, !.u = u, !.id = user[u].id, !.pc = "link"]
  <2>1. z.pc = "entries" /\ z.snap[i][u] # <<>> /\ Same /\ pending' = pending
    BY <1>2 DEF SyncLookup
  <2>2. user[u].id # 0
    BY <1>z, <2>1
  <2>3. GotoSync(s, q)
    BY <1>2, <2>2 DEF SyncLookup
  <2>4. q.pc = "link" /\ q.boot = z.boot /\ q.snap = z.snap
    BY <1>c DEF SyncState
  <2> HIDE DEF q
  <2>5. PassOf(q, client, file)
    BY <1>c, <1>p, <2>1, <2>4 DEF PassOf
  <2> QED BY <1>c, <1>g, <2>1, <2>3, <2>5
<1>3. ASSUME SyncLink(s) PROVE PassStep(s)
  <2> DEFINE k == z.i
             w == z.u
             c == Head(z.snap[k][w])
  <2>1. /\ z.pc = "link" /\ UNCHANGED <<user, file, run, h, pending>> /\ GotoSync(s, NextEntry(z))
        /\ UpsertUserClient(z.id, k, c)
    BY <1>3, Zenon DEF SyncLink
  <2>2. z.snap[k][w] # <<>>
    BY <2>1, Zenon DEF IInv, RowInv, EntryInv
  <2>3. c = client[w][k].cred /\ client[w][k].cred # 0
    BY <1>c, <1>z, <2>1, <2>2, Zenon
  <2>4. \A v \in Users : Has(v, z.id) => v = w
    BY <2>1 DEF IInv, RowInv, HeldIdsSafe, HeldIdsGiven
  <2> HIDE DEF c
  <2>5. ASSUME NEW v \in Users, NEW i \in Inbounds
        PROVE  /\ client'[v][i].cred = client[v][i].cred
               /\ client'[v][i].enabled <=> client[v][i].enabled
    <3> DEFINE e == client[v][k].cred = 0 \/ client[v][k].enabled
    <3>1. client'[v] = IF Has(v, z.id) THEN [client[v] EXCEPT ![k] = [cred |-> c, enabled |-> e]]
                       ELSE client[v]
      BY <2>1, Zenon DEF UpsertUserClient
    <3>2. v = w => (e <=> client[v][k].enabled)
      BY <2>3
    <3>3. e \in BOOLEAN /\ client[v] \in [Inbounds -> [cred : Nat, enabled : BOOLEAN]]
      BY <1>t
    <3> HIDE DEF e
    <3>4. CASE ~Has(v, z.id)
      BY <3>1, <3>4
    <3>5. CASE Has(v, z.id)
      <4>1. client'[v] = [client[v] EXCEPT ![k] = [cred |-> c, enabled |-> e]] /\ v = w
        BY <2>4, <3>1, <3>5
      <4>2. i # k => client'[v][i] = client[v][i]
        BY <3>3, <4>1
      <4>3. client'[v][k] = [cred |-> c, enabled |-> e]
        BY <1>c, <3>3, <4>1
      <4>4. client'[v][k].cred = c /\ client'[v][k].enabled = e
        BY <4>3
      <4> QED BY <2>3, <3>2, <4>1, <4>2, <4>4
    <3> QED BY <3>4, <3>5
  <2>6. ASSUME NEW v \in Users, NEW i \in Inbounds
        PROVE  Agree(user'[v].enabled, client'[v][i], file'[i][v], run'[i][v])
    <3>1. Agree(user[v].enabled, client[v][i], file[i][v], run[i][v])
      BY <1>a
    <3>2. client'[v][i].cred = client[v][i].cred /\ (client'[v][i].enabled <=> client[v][i].enabled)
      BY <2>5
    <3> QED BY <2>1, <3>1, <3>2 DEF Agree, Loose
  <2>7. \A v \in Users : AgreeAt(v, user', client', file', run')
    BY <2>6 DEF AgreeAt
  <2>8. PassOf(NextEntry(z), client', file')
    <3>1. PassOf(NextEntry(z), client', file)
      BY <1>x, <2>1, <2>2, <2>5
    <3> QED BY <2>1, <3>1
  <2>9. y'[s] = NextEntry(z) /\ \A t \in Syncs \ {s} : y'[t] = y[t]
    BY <1>t, <2>1 DEF GotoSync
  <2>10. h' = h /\ pending' = 0
    BY <1>c, <2>1
  <2>11. PassOf(y'[s], client', file')
    BY <2>8, <2>9
  <2> QED BY <2>7, <2>9, <2>10, <2>11, Zenon DEF PassStep
<1>4. ASSUME SyncEntriesDone(s) \/ SyncFlushed(s) \/ SyncListDone(s) PROVE PassStep(s)
  <2> DEFINE q == [z EXCEPT !.pc = "list", !.todo = Inbounds]
             t == [z EXCEPT !.pc = "list"]
  <2>1. /\ z.pc # "idle" /\ Same /\ pending' = pending
        /\ GotoSync(s, q) \/ GotoSync(s, t) \/ SyncReturn(s)
    BY <1>4 DEF SyncEntriesDone, SyncFlushed, SyncListDone
  <2>2. SyncReturn(s) => GotoSync(s, IdleSync)
    BY <1>p DEF SyncReturn
  <2>3. /\ q.pc = "list" /\ q.boot = z.boot /\ t.pc = "list" /\ t.boot = z.boot
        /\ IdleSync.pc = "idle" /\ IdleSync.boot = FALSE
    BY <1>c DEF SyncState, IdleSync
  <2> HIDE DEF q, t
  <2>4. PassOf(q, client, file) /\ PassOf(t, client, file) /\ PassOf(IdleSync, client, file)
    BY <1>p, <2>3 DEF PassOf
  <2> QED BY <1>c, <1>g, <2>1, <2>2, <2>4
<1>5. ASSUME NEW i \in Inbounds, SyncList(s, i) PROVE PassStep(s)
  <2> DEFINE w == ListUserClientsByInboundTag(i)
             q == [z EXCEPT !.i = i, !.todo = @ \ {i}, !.want = w, !.pc = "idents"]
  <2>1. z.pc = "list" /\ Same /\ pending' = pending /\ GotoSync(s, q)
    BY <1>5, Zenon DEF SyncList
  <2>2. \A u \in Users : w[u] # 0 => client[u][i].enabled /\ w[u] = client[u][i].cred
    BY DEF ListUserClientsByInboundTag
  <2> HIDE DEF w
  <2>3. q.pc = "idents" /\ q.boot = z.boot /\ q.i = i /\ q.want = w
    BY <1>c DEF SyncState
  <2> HIDE DEF q
  <2>4. PassOf(q, client, file)
    BY <1>p, <2>2, <2>3 DEF PassOf
  <2> QED BY <1>c, <1>g, <2>1, <2>4
<1>6. ASSUME SyncIdents(s) PROVE PassStep(s)
  <2> DEFINE w == [u \in Users |-> IF file[z.i][u] = <<>> THEN z.want[u] ELSE 0]
             q == [z EXCEPT !.want = w, !.pc = "flush"]
  <2>1. z.pc = "idents" /\ Same /\ pending' = pending /\ GotoSync(s, q)
    BY <1>6, Zenon DEF SyncIdents
  <2>2. \A u \in Users : w[u] # 0 => file[z.i][u] = <<>> /\ w[u] = z.want[u]
    OBVIOUS
  <2> HIDE DEF w
  <2>3. q.pc = "flush" /\ q.boot = z.boot /\ q.i = z.i /\ q.want = w
    BY <1>c DEF SyncState
  <2> HIDE DEF q
  <2>4. \A u \in Users : z.want[u] # 0 => client[u][z.i].enabled /\ z.want[u] = client[u][z.i].cred
    BY <1>c, <2>1 DEF PassOf
  <2>5. PassOf(q, client, file)
    BY <1>p, <2>2, <2>3, <2>4 DEF PassOf
  <2> QED BY <1>c, <1>g, <2>1, <2>5
<1>7. ASSUME NEW u \in Users, SyncRead(s, u) PROVE PassStep(s)
  <2> DEFINE q == [z EXCEPT !.u = u, !.buf = file[z.i], !.pc = "write"]
  <2>1. z.pc = "flush" /\ Same /\ pending' = pending /\ GotoSync(s, q)
    BY <1>7, Zenon DEF SyncRead
  <2>2. q.pc = "write" /\ q.boot = z.boot /\ q.i = z.i /\ q.want = z.want /\ q.buf = file[z.i]
    BY <1>c DEF SyncState
  <2> HIDE DEF q
  <2>3. PassOf(q, client, file)
    BY <1>c, <1>p, <2>1, <2>2 DEF PassOf
  <2> QED BY <1>c, <1>g, <2>1, <2>3
<1>8. ASSUME SyncWrite(s) PROVE PassStep(s)
  <2> DEFINE k == z.i
             w == z.u
             c == z.want[w]
             want == [z.want EXCEPT ![w] = 0]
             q == [z EXCEPT !.want[z.u] = 0, !.buf = NoEntries, !.pc = "flush"]
  <2>1. /\ z.pc = "write" /\ UNCHANGED <<user, client, run, h, pending>> /\ GotoSync(s, q)
        /\ file' = [file EXCEPT ![k] = [z.buf EXCEPT ![w] = Append(@, c)]]
    BY <1>8 DEF SyncWrite, WithEntry, Serial
  <2>2. /\ z.buf = file[k] /\ c # 0
        /\ \A u \in Users : z.want[u] # 0 => /\ file[k][u] = <<>> /\ client[u][k].enabled
                                             /\ z.want[u] = client[u][k].cred
    BY <1>c, <2>1 DEF PassOf, IInv, CarriedOwned
  <2>3. c = client[w][k].cred /\ client[w][k].enabled /\ file[k][w] = <<>> /\ c \in Nat
    BY <1>c, <1>t, <2>2
  <2>4. Append(file[k][w], c) = <<c>>
    BY <2>3
  <2>5. /\ q.pc = "flush" /\ q.boot = z.boot /\ q.i = k /\ q.want = want
    BY <1>c DEF SyncState
  <2>6. \A u \in Users : want[u] # 0 => u # w /\ z.want[u] # 0 /\ want[u] = z.want[u]
    BY <1>c, <1>t
  <2>7. /\ file'[k][w] = <<c>>
        /\ \A u \in Users, i \in Inbounds : u # w \/ i # k => file'[i][u] = file[i][u]
    <3> HIDE DEF c
    <3> QED BY <1>c, <1>t, <2>1, <2>2, <2>4, SMTT(60)
  <2> HIDE DEF q, want, c
  <2>8. PassOf(q, client', file')
    <3>1. ASSUME NEW u \in Users, q.want[u] # 0
          PROVE  client'[u][q.i].enabled /\ q.want[u] = client'[u][q.i].cred /\ file'[q.i][u] = <<>>
      <4>1. u # w /\ z.want[u] # 0 /\ want[u] = z.want[u]
        BY <2>5, <2>6, <3>1, Zenon
      <4>2. k \in Inbounds
        BY <1>c, Zenon
      <4>3. client' = client
        BY <2>1, Zenon
      <4> QED BY <2>2, <2>5, <2>7, <4>1, <4>2, <4>3
    <3> QED BY <1>p, <2>5, <3>1 DEF PassOf
  <2>9. ASSUME NEW u \in Users, NEW i \in Inbounds
        PROVE  Agree(user'[u].enabled, client'[u][i], file'[i][u], run'[i][u])
    <3>1. Agree(user[u].enabled, client[u][i], file[i][u], run[i][u])
      BY <1>a
    <3>2. CASE u # w \/ i # k
      BY <2>1, <2>7, <3>1, <3>2
    <3>3. CASE u = w /\ i = k
      BY <2>1, <2>3, <2>7, <3>1, <3>3, Zenon DEF Agree, Loose
    <3> QED BY <3>2, <3>3
  <2>10. \A v \in Users : AgreeAt(v, user', client', file', run')
    BY <2>9 DEF AgreeAt
  <2>11. y'[s] = q /\ \A t \in Syncs \ {s} : y'[t] = y[t]
    BY <1>t, <2>1 DEF GotoSync
  <2>12. h' = h /\ pending' = 0
    BY <1>c, <2>1
  <2>13. PassOf(y'[s], client', file')
    BY <2>8, <2>11
  <2> QED BY <2>10, <2>11, <2>12, <2>13, Zenon DEF PassStep
<1>9. /\ ~SyncCreateUser(s) /\ ~RestoreNext(s) /\ ~RestoreDone(s)
      /\ \A i \in Inbounds : ~RestoreList(s, i)
      /\ \A u \in Users : ~RestoreUser(s, u)
  BY <1>p DEF SyncCreateUser, RestoreNext, RestoreDone, RestoreList, RestoreUser
<1> QED BY <1>1, <1>2, <1>3, <1>4, <1>5, <1>6, <1>7, <1>8, <1>9, Zenon DEF SyncStep


(* At the start everything is empty and idle.                              *)
LEMMA InitSerial == Init => SerialInv
<1> SUFFICES ASSUME Init PROVE SerialInv
  OBVIOUS
<1>1. /\ \A p \in Handlers : h[p].pc = "idle"
      /\ \A s \in Syncs : y[s].pc = "idle" /\ y[s].boot = FALSE
      /\ pending = 0
  BY DEF Init, IdleHandler, IdleSync
<1>2. \A u \in Users, i \in Inbounds : /\ client[u][i].cred = 0 /\ ~client[u][i].enabled
                                       /\ file[i][u] = <<>> /\ run[i][u] = 0
  BY DEF Init, NoClient, NoEntries, NoWant
<1>3. \A u \in Users, i \in Inbounds :
        Agree(user[u].enabled, client[u][i], file[i][u], run[i][u])
  BY <1>2 DEF Agree, Loose
<1>4. AloneInv
  BY <1>1 DEF AloneInv
<1>5. \A s \in Syncs : PassOf(y[s], client, file)
  BY <1>1 DEF PassOf
<1> QED BY <1>1, <1>3, <1>4, <1>5, Zenon DEF SerialInv

(* A request that arrives finds everything at rest.                        *)
LEMMA RequestSerial ==
    ASSUME IInv, SerialInv, Serial, grpc = TRUE, NEW p \in Handlers,
           NEW o \in Ops, NEW u \in Users, NEW is \in SUBSET Inbounds, Request(p, o, u, is)
    PROVE  SerialInv'
<1> DEFINE pc == IF o = "createUser" THEN "check" ELSE "lookup"
           q == [IdleHandler EXCEPT !.pc = pc, !.op = o, !.u = u, !.asked = is, !.todo = is,
                   !.i = IF is = {} THEN SomeInbound ELSE CHOOSE i \in is : TRUE]
<1>1. /\ AtRest /\ h' = [h EXCEPT ![p] = q]
      /\ UNCHANGED <<user, client, file, run, y, pending>>
  BY DEF Request, Serial, Goto
<1>0. pc \in {"check", "lookup"}
  OBVIOUS
<1> HIDE DEF pc
<1>2. q.pc = pc /\ q.op = o /\ q.u = u
  BY DEF IdleHandler
<1> HIDE DEF q
<1>h. h \in [Handlers -> HandlerState]
  BY DEF IInv, RowInv, TypeOK
<1>3. h'[p] = q /\ \A t \in Handlers \ {p} : h'[t] = h[t]
  BY <1>1, <1>h
<1>4. /\ \A t \in Handlers : h[t].pc = "idle"
      /\ \A s \in Syncs : y[s].pc = "idle"
      /\ pending = 0
  BY <1>1 DEF AtRest, HandlersIdle, SyncsIdle
<1>5. \A v \in Users, i \in Inbounds :
        Agree(user[v].enabled, client[v][i], file[i][v], run[i][v])
  BY <1>4 DEF SerialInv
<1>6. AloneInv'
  BY <1>1, <1>3, <1>4 DEF AloneInv
<1>7. RequestOf(q, user[u]) /\ q.pc # "erase"
  BY <1>0, <1>2 DEF RequestOf, Serial
<1>8. \A i \in Inbounds : CellOf(q, i, user[u].enabled, client[u][i], file[i][u], run[i][u])
  BY <1>0, <1>2, <1>5 DEF CellOf, Adding, Starting, Stopping
<1>9. ASSUME NEW t \in Handlers, h'[t].pc # "idle" PROVE RequestAt(h'[t], user', client', file', run')
  <2>1. h'[t] = q
    BY <1>3, <1>4, <1>9
  <2> QED BY <1>1, <1>2, <1>7, <1>8, <2>1 DEF RequestAt
<1>10. \A s \in Syncs : PassOf(y'[s], client', file')
  BY <1>1 DEF SerialInv
<1>11. \A v \in Users, i \in Inbounds :
         Agree(user'[v].enabled, client'[v][i], file'[i][v], run'[i][v])
  BY <1>1, <1>5
<1> QED BY <1>6, <1>9, <1>10, <1>11, Zenon DEF SerialInv, RequestAt

(* One step of a request in progress keeps the invariant.                  *)
LEMMA ServedSerial ==
    ASSUME IInv, SerialInv, NEW p \in Handlers, h[p].pc # "idle", ServedStep(p)
    PROVE  SerialInv'
<1> DEFINE u == h[p].u
<1>1. /\ \A s \in Syncs : y[s].pc = "idle" /\ y'[s] = y[s]
      /\ \A q \in Handlers \ {p} : h[q].pc = "idle" /\ h'[q].pc = "idle"
  BY ServedFacts DEF ServedStep
<1>2. Elsewhere(u)
  BY DEF ServedStep
<1>3. /\ pending' \in {0, 1}
      /\ h'[p].pc # "idle" => /\ h'[p].u = u /\ pending' = 0
                              /\ RequestAt(h'[p], user', client', file', run')
      /\ h'[p].pc = "idle" => AgreeAt(u, user', client', file', run')
  BY DEF ServedStep
<1>4. AloneInv'
  BY <1>1, <1>3 DEF AloneInv
<1>5. \A s \in Syncs : PassOf(y'[s], client', file')
  <2>1. \A s \in Syncs : y[s].boot = FALSE
    BY DEF SerialInv, PassOf
  <2> QED BY <1>1, <2>1 DEF PassOf
<1>6. \A t \in Handlers : h'[t].pc # "idle" => RequestAt(h'[t], user', client', file', run')
  BY <1>1, <1>3
<1>7. ASSUME NEW v \in Users, NEW i \in Inbounds, ~\E t \in Handlers : h'[t].pc # "idle" /\ h'[t].u = v
      PROVE  Agree(user'[v].enabled, client'[v][i], file'[i][v], run'[i][v])
  <2>1. CASE v = u
    BY <1>3, <1>7, <2>1 DEF AgreeAt
  <2>2. CASE v # u
    <3>1. Agree(user[v].enabled, client[v][i], file[i][v], run[i][v])
      BY <1>1, <2>2 DEF SerialInv
    <3>2. user'[v] = user[v] /\ client'[v] = client[v] /\ file'[i][v] = file[i][v] /\ run'[i][v] = run[i][v]
      BY <1>2, <2>2 DEF Elsewhere
    <3> QED BY <3>1, <3>2
  <2> QED BY <2>1, <2>2
<1> QED BY <1>4, <1>5, <1>6, <1>7, Zenon DEF SerialInv, RequestAt

(* One step of a Sync keeps the invariant.                                 *)
LEMMA PassSerial ==
    ASSUME IInv, SerialInv, Serial, grpc = TRUE, NEW s \in Syncs, SyncStart(s) \/ y[s].pc # "idle", PassStep(s)
    PROVE  SerialInv'
<1>1. /\ \A p \in Handlers : h[p].pc = "idle" /\ h'[p] = h[p]
      /\ \A t \in Syncs \ {s} : y[t].pc = "idle" /\ y'[t] = y[t]
      /\ pending' = 0
  BY PassFacts DEF PassStep
<1>2. AloneInv'
  BY <1>1 DEF AloneInv
<1>3. \A t \in Syncs : PassOf(y'[t], client', file')
  <2>1. \A t \in Syncs : y[t].boot = FALSE
    BY DEF SerialInv, PassOf
  <2>2. \A t \in Syncs \ {s} : PassOf(y'[t], client', file')
    BY <1>1, <2>1 DEF PassOf
  <2> QED BY <2>2 DEF PassStep
<1>4. \A v \in Users, i \in Inbounds :
        Agree(user'[v].enabled, client'[v][i], file'[i][v], run'[i][v])
  BY DEF PassStep, AgreeAt
<1>5. \A p \in Handlers : h'[p].pc = "idle"
  BY <1>1
<1> QED BY <1>2, <1>3, <1>4, <1>5, Zenon DEF SerialInv

(* A handler that serves nothing can only be given a request.              *)
LEMMA IdleRequests ==
    ASSUME NEW p \in Handlers, h[p].pc = "idle", Handler(p)
    PROVE  \E o \in Ops, u \in Users, is \in SUBSET Inbounds : Request(p, o, u, is)
<1>1. /\ ~CheckDuplicate(p) /\ ~InsertUser(p) /\ ~GetByID(p) /\ ~UpdateUser(p)
      /\ ~ReadAccount(p) /\ ~ReadClient(p) /\ ~FlagClient(p) /\ ~UpsertClient(p)
      /\ ~AddDone(p) /\ ~PushDone(p) /\ ~AppendToFile(p) /\ ~AppendFailed(p)
      /\ ~EraseFromFile(p) /\ ~RemoveDone(p) /\ ~DeleteAccount(p)
  BY DEF CheckDuplicate, InsertUser, GetByID, UpdateUser, ReadAccount, ReadClient,
     FlagClient, UpsertClient, AddDone, PushDone, AppendToFile, AppendFailed,
     EraseFromFile, RemoveDone, DeleteAccount
<1>2. ~\E i \in Inbounds : \/ AddClientRPC(p, i) \/ PushRPC(p, i) \/ ReadToAppend(p, i)
                           \/ RemoveRPC(p, i) \/ ReadToRemove(p, i)
  BY DEF AddClientRPC, PushRPC, ReadToAppend, RemoveRPC, ReadToRemove
<1>3. PICK o \in Ops, u \in Users :
        \/ o = "createUser" /\ \E is \in SUBSET Inbounds : Request(p, o, u, is)
        \/ o \in AccountOps /\ Request(p, o, u, {})
        \/ o \in ClientOps /\ \E i \in Inbounds : Request(p, o, u, {i})
  BY <1>1, <1>2, Zenon DEF Handler
<1>4. {} \in SUBSET Inbounds /\ \A i \in Inbounds : {i} \in SUBSET Inbounds
  OBVIOUS
<1> QED BY <1>3, <1>4, Zenon

(* A Sync that is not under way takes no step.                             *)
LEMMA IdleSyncs ==
    ASSUME NEW s \in Syncs, SyncStep(s)
    PROVE  y[s].pc # "idle"
<1> SUFFICES ASSUME y[s].pc = "idle" PROVE FALSE
  OBVIOUS
<1>1. /\ ~SyncCreateUser(s) /\ ~SyncLink(s) /\ ~SyncEntriesDone(s) /\ ~SyncIdents(s)
      /\ ~SyncWrite(s) /\ ~SyncFlushed(s) /\ ~SyncListDone(s) /\ ~RestoreNext(s)
      /\ ~RestoreDone(s)
  BY DEF SyncCreateUser, SyncLink, SyncEntriesDone, SyncIdents, SyncWrite, SyncFlushed,
     SyncListDone, RestoreNext, RestoreDone
<1>2. /\ \A i : ~SyncList(s, i) /\ ~RestoreList(s, i)
      /\ \A i, u : ~SyncLookup(s, i, u)
      /\ \A u : ~SyncRead(s, u) /\ ~RestoreUser(s, u)
  BY DEF SyncList, RestoreList, SyncLookup, SyncRead, RestoreUser
<1> QED BY <1>1, <1>2, Zenon DEF SyncStep

(* One request or Sync at a time: every step keeps the invariant.          *)
LEMMA NextSerial ==
    ASSUME Serial, grpc = TRUE, IInv, SerialInv, [Next]_vars
    PROVE  SerialInv'
<1>e. events \in Nat /\ ~Happens
  BY DEF IInv, RowInv, TypeOK, Happens, Serial
<1>1. ASSUME NEW p \in Handlers, Handler(p) PROVE SerialInv'
  <2>1. CASE h[p].pc = "idle"
    BY <1>1, <2>1, IdleRequests, RequestSerial
  <2>2. CASE h[p].pc # "idle"
    <3>1. /\ \A o, u, is : ~Request(p, o, u, is)
          /\ ~AppendToFile(p) /\ ~AppendFailed(p) /\ ~DeleteAccount(p)
          /\ \A i \in Inbounds : ~ReadToAppend(p, i)
      <4>1. RequestOf(h[p], user[h[p].u])
        BY <2>2, ServedFacts
      <4> QED BY <2>2, <4>1, Zenon DEF RequestOf, Request, AppendToFile, AppendFailed, DeleteAccount,
                 ReadToAppend, Serial
    <3>2. ServedStep(p)
      BY <1>1, <2>2, <3>1, ServedReads, ServedWrites, Zenon DEF Handler
    <3> QED BY <2>2, <3>2, ServedSerial
  <2> QED BY <2>1, <2>2
<1>2. ASSUME NEW s \in Syncs, SyncStart(s) \/ SyncStep(s) PROVE SerialInv'
  <2>1. SyncStart(s) \/ y[s].pc # "idle"
    BY <1>2, IdleSyncs
  <2>2. PassStep(s)
    BY <1>2, <2>1, PassSteps
  <2> QED BY <2>1, <2>2, PassSerial
<1>3. /\ \A s \in Syncs : ~Crash(s)
      /\ ~XrayRestart /\ \A i \in Inbounds, u \in Edited : ~EditConfig(i, u)
  BY <1>e, Zenon DEF Crash, XrayRestart, EditConfig
<1>4. CASE UNCHANGED vars
  BY <1>4 DEF vars, SerialInv, AloneInv
<1> QED BY <1>1, <1>2, <1>3, <1>4, Zenon DEF Next

(* Requests that do not overlap, over gRPC and without faults, leave the   *)
(* database, config.d and the running Xray in agreement whenever all is at *)
(* rest, for any users, inbounds, handlers, Syncs and number of requests.  *)
THEOREM ProvisionAgreement ==
    ASSUME Serial
    PROVE  Spec => []RestAgreement
<1> DEFINE J == grpc => SerialInv
<1>0. Init => J
  BY InitSerial
<1>1. IInv /\ J /\ [Next]_vars => J'
  <2> SUFFICES ASSUME IInv, J, [Next]_vars, grpc' PROVE SerialInv'
    OBVIOUS
  <2>1. grpc' = grpc /\ grpc \in BOOLEAN
    BY ModeKept DEF IInv, RowInv, TypeOK
  <2>2. grpc = TRUE /\ SerialInv
    BY <2>1
  <2> QED BY <2>2, NextSerial
<1>2. J => RestAgreement
  <2> SUFFICES ASSUME SerialInv, AtRest, NEW u \in Users, NEW i \in Inbounds
               PROVE  LET c == client[u][i]
                      IN  /\ (user[u].enabled /\ c.enabled) => run[i][u] = c.cred
                          /\ ~c.enabled => run[i][u] = 0 /\ file[i][u] = <<>>
                          /\ file[i][u] \in {<<>>, <<c.cred>>}
    BY Zenon DEF RestAgreement
  <2>1. Agree(user[u].enabled, client[u][i], file[i][u], run[i][u])
    BY DEF SerialInv, AtRest, HandlersIdle
  <2> QED BY <2>1 DEF Agree, Loose
<1> QED BY <1>0, <1>1, <1>2, ProvisionInvariant, PTL DEF Spec

(***************************************************************************)
(* Without xray_api_addr: database and config.d agree at rest.             *)
(***************************************************************************)

(* Of one client: row c, entries f; its account is enabled or not.         *)
Only(c, f) == \A k \in 1..Len(f) : f[k] = c.cred
Filed(on, c, f) ==
    /\ Only(c, f)
    /\ c.cred = 0 => ~c.enabled
    /\ on /\ c.enabled => f # <<>>
    /\ ~c.enabled => f = <<>>

(* What a request q in progress has done to its account's client in i and  *)
(* what it still has to do.                                                *)
Entering(q, i) == q.pc = "upsert" /\ i = q.i
Restoring(q, i) == \/ q.pc = "clients" /\ q.op = "enableUser"
                   \/ q.pc \in {"push", "reappend"} /\ i \in q.todo
Leaving(q, i) == q.pc \in {"remove", "erase"} /\ q.op = "disableClient" /\ i \in q.todo
Gone(q, i) == \/ q.pc \in {"remove", "erase"} /\ q.op = "deleteUser" /\ i \notin q.todo
              \/ q.pc = "delete"
FileCellOf(q, i, on, c, f) ==
    /\ Entering(q, i) => f = <<q.creds[i]>>
    /\ Restoring(q, i) => Filed(FALSE, c, f)
    /\ Leaving(q, i) => Only(c, f) /\ ~c.enabled
    /\ Gone(q, i) => f = <<>>
    /\ Entering(q, i) \/ Restoring(q, i) \/ Leaving(q, i) \/ Gone(q, i) \/ Filed(on, c, f)
    /\ q.pc \in {"add", "append", "upsert"} /\ i \in q.todo => c.cred = 0
    /\ q.pc \in {"push", "reappend"} /\ i \in q.todo => c.enabled /\ q.creds[i] = c.cred
    /\ q.pc = "flag" /\ i = q.i => q.creds[i] = c.cred

(* What it knows of its account and of the file it is about to replace.    *)
FileRequestOf(q, usr, fl) ==
    /\ q.pc # "scan"
    /\ q.pc \notin {"check", "insert", "lookup"} => usr.id = q.id
    /\ q.pc \in {"remove", "erase"} => q.op \in {"disableUser", "disableClient", "deleteUser"}
    /\ q.pc \in {"clients", "remove", "erase"} /\ q.op = "disableUser" => ~usr.enabled
    /\ q.pc \in {"append", "reappend", "upsert", "erase"} => q.i \in q.todo
    /\ q.pc \in {"append", "reappend", "erase"} => q.buf = fl[q.i]

(* A Sync imports what the rows already say and the files still hold.      *)
ImportOf(z, cl, fl) ==
    /\ z.boot = FALSE /\ z.pc \in {"idle", "entries", "link"}
    /\ z.pc # "idle" => \A i \in Inbounds, u \in Users :
         Only(cl[u][i], z.snap[i][u]) /\ (fl[i][u] = <<>> => z.snap[i][u] = <<>>)

(* One request at a time; its Sync waits for its end, except a deletion's. *)
TurnInv ==
    /\ pending \in {0, 1}
    /\ \A p \in Handlers : h[p].pc # "idle" =>
         /\ h[p].pc # "delete" => pending = 0 /\ \A s \in Syncs : y[s].pc = "idle"
         /\ \A q \in Handlers \ {p} : h[q].pc = "idle"
    /\ \A s \in Syncs : y[s].pc # "idle" =>
         /\ pending = 0
         /\ \A t \in Syncs \ {s} : y[t].pc = "idle"

(* A request in progress and its account's clients.                        *)
FileRequestAt(q, usr, cl, fl) ==
    /\ FileRequestOf(q, usr[q.u], fl)
    /\ \A i \in Inbounds : FileCellOf(q, i, usr[q.u].enabled, cl[q.u][i], fl[i][q.u])

(* Where nothing is under way for an account, its clients agree.           *)
FiledAt(u, usr, cl, fl) == \A i \in Inbounds : Filed(usr[u].enabled, cl[u][i], fl[i][u])

(* The inductive invariant behind FileAgreement.                           *)
FiledInv ==
    /\ TurnInv
    /\ \A u \in Users :
         \/ \E p \in Handlers : h[p].pc # "idle" /\ h[p].u = u
         \/ FiledAt(u, user, client, file)
    /\ \A p \in Handlers : h[p].pc # "idle" => FileRequestAt(h[p], user, client, file)
    /\ \A s \in Syncs : ImportOf(y[s], client, file)

(* A step for account u touches no other account.                          *)
Apart(u) ==
    \A v \in Users \ {u} : /\ user'[v] = user[v] /\ client'[v] = client[v]
                           /\ \A i \in Inbounds : file'[i][v] = file[i][v]

(* What the step of a request in progress leaves behind.                   *)
FileStep(p) ==
    /\ y' = y /\ (\A q \in Handlers \ {p} : h'[q] = h[q]) /\ Apart(h[p].u)
    /\ pending' \in {0, 1}
    /\ h'[p].pc = "idle" => FiledAt(h[p].u, user', client', file')
    /\ h'[p].pc # "idle" => /\ h'[p].u = h[p].u
                            /\ h'[p].pc # "delete" => pending' = 0
                            /\ FileRequestAt(h'[p], user', client', file')

(* A handler that goes on and one that is done.                            *)
LEMMA FileStepRules ==
    ASSUME TypeOK, NEW p \in Handlers, y' = y, Apart(h[p].u), pending' \in {0, 1}
    PROVE  /\ \A q : Goto(p, q) /\ (q.pc # "delete" => pending' = 0) /\ q.pc # "idle"
                       /\ q.u = h[p].u /\ FileRequestAt(q, user', client', file') => FileStep(p)
           /\ Finish(p) /\ FiledAt(h[p].u, user', client', file') => FileStep(p)
<1>h. h \in [Handlers -> HandlerState]
  BY DEF TypeOK
<1>1. \A q : Goto(p, q) => h'[p] = q /\ \A t \in Handlers \ {p} : h'[t] = h[t]
  BY <1>h DEF Goto
<1>2. IdleHandler.pc = "idle"
  BY DEF IdleHandler
<1>3. ASSUME NEW q, Goto(p, q), q.pc # "delete" => pending' = 0, q.pc # "idle", q.u = h[p].u,
             FileRequestAt(q, user', client', file')
      PROVE  FileStep(p)
  BY <1>1, <1>3, Zenon DEF FileStep
<1>4. ASSUME Finish(p), FiledAt(h[p].u, user', client', file')
      PROVE  FileStep(p)
  BY <1>1, <1>2, <1>4, Zenon DEF FileStep, Finish
<1> QED BY <1>3, <1>4, Zenon

(* What the invariant says of a request in progress.                       *)
LEMMA FileFacts ==
    ASSUME IInv, FiledInv, NEW p \in Handlers, h[p].pc # "idle"
    PROVE  /\ TypeOK /\ RowsInv /\ pending \in {0, 1}
           /\ h[p] \in HandlerState /\ h[p].u \in Users /\ h[p].i \in Inbounds
           /\ h[p].todo \in SUBSET Inbounds /\ h[p].creds \in [Inbounds -> Nat]
           /\ FileRequestOf(h[p], user[h[p].u], file)
           /\ \A i \in Inbounds : FileCellOf(h[p], i, user[h[p].u].enabled, client[h[p].u][i],
                                             file[i][h[p].u])
           /\ h[p].pc # "delete" => pending = 0 /\ \A s \in Syncs : y[s].pc = "idle"
           /\ \A q \in Handlers \ {p} : h[q].pc = "idle"
<1>1. TypeOK /\ RowsInv
  BY DEF IInv, RowInv
<1>2. h[p] \in HandlerState
  BY <1>1 DEF TypeOK
<1>3. /\ h[p].u \in Users /\ h[p].i \in Inbounds /\ h[p].todo \in SUBSET Inbounds
      /\ h[p].creds \in [Inbounds -> Nat]
  BY <1>2 DEF HandlerState
<1>4. /\ pending \in {0, 1}
      /\ h[p].pc # "delete" => pending = 0 /\ \A s \in Syncs : y[s].pc = "idle"
      /\ \A q \in Handlers \ {p} : h[q].pc = "idle"
  BY DEF FiledInv, TurnInv
<1>5. /\ FileRequestOf(h[p], user[h[p].u], file)
      /\ \A i \in Inbounds : FileCellOf(h[p], i, user[h[p].u].enabled, client[h[p].u][i],
                                        file[i][h[p].u])
  BY Zenon DEF FiledInv, FileRequestAt
<1> QED BY <1>1, <1>2, <1>3, <1>4, <1>5

(* The steps of a request that only read: what they found is what the      *)
(* next steps act on.                                                      *)
LEMMA FileReads ==
    ASSUME IInv, FiledInv, FileSerial, grpc = FALSE, NEW p \in Handlers, h[p].pc \notin {"idle", "delete"},
           \/ CheckDuplicate(p) \/ GetByID(p) \/ ReadAccount(p) \/ ReadClient(p)
           \/ AddDone(p) \/ PushDone(p) \/ RemoveDone(p)
           \/ \E i \in Inbounds : ReadToAppend(p, i) \/ ReadToRemove(p, i)
    PROVE  FileStep(p)
<1> DEFINE r == h[p]
           u == h[p].u
           C(q, i) == FileCellOf(q, i, user[u].enabled, client[u][i], file[i][u])
           A(i) == Filed(user[u].enabled, client[u][i], file[i][u])
           Same == UNCHANGED <<user, client, file, y>>
<1>c. /\ TypeOK /\ RowsInv /\ pending = 0
      /\ r \in HandlerState /\ u \in Users /\ r.i \in Inbounds
      /\ r.todo \in SUBSET Inbounds /\ r.creds \in [Inbounds -> Nat]
      /\ FileRequestOf(r, user[u], file)
      /\ \A i \in Inbounds : C(r, i)
  BY FileFacts
<1>g. ASSUME NEW q, Goto(p, q), Same, pending' \in {0, 1}, q.pc # "delete" => pending' = 0,
             q.pc # "idle", q.u = u, FileRequestOf(q, user[u], file), \A i \in Inbounds : C(q, i)
      PROVE  FileStep(p)
  <2>1. FileRequestAt(q, user', client', file')
    BY <1>g DEF FileRequestAt
  <2>2. Apart(u)
    BY <1>g DEF Apart
  <2> QED BY <1>c, <1>g, <2>1, <2>2, FileStepRules
<1>f. ASSUME Finish(p), Same, pending' \in {0, 1}, \A i \in Inbounds : A(i)
      PROVE  FileStep(p)
  <2>1. FiledAt(u, user', client', file')
    BY <1>f DEF FiledAt
  <2>2. Apart(u)
    BY <1>f DEF Apart
  <2> QED BY <1>c, <1>f, <2>1, <2>2, FileStepRules
<1>r. user[u].id # 0 => \A i \in Inbounds :
                /\ GetAllUserClients(user[u].id)[i] = client[u][i].cred
                /\ GetUserClients(user[u].id)[i] = IF client[u][i].enabled THEN client[u][i].cred ELSE 0
  BY <1>c, AccountRows
<1>d. r.pc \notin {"idle", "check", "insert", "lookup"} => r.id # 0 /\ user[u].id = r.id
  BY <1>c DEF IInv, RowInv, HeldIdsGiven, FileRequestOf
<1> HIDE DEF A
<1>1. ASSUME CheckDuplicate(p) PROVE FileStep(p)
  <2> DEFINE q == [r EXCEPT !.pc = "insert"]
  <2>1. r.pc = "check" /\ Same /\ pending' = pending /\ (Finish(p) \/ Goto(p, q))
    BY <1>1 DEF CheckDuplicate
  <2>2. \A i \in Inbounds : A(i)
    BY <1>c, <2>1 DEF FileCellOf, A, Entering, Restoring, Leaving, Gone
  <2>3. q.pc = "insert" /\ q.u = u /\ q.op = r.op
    BY <1>c DEF HandlerState
  <2> HIDE DEF q
  <2>4. FileRequestOf(q, user[u], file) /\ \A i \in Inbounds : C(q, i)
    BY <1>c, <2>2, <2>3 DEF FileRequestOf, FileCellOf, A, Entering, Restoring, Leaving, Gone
  <2> HIDE DEF C, u
  <2> QED BY <1>c, <1>f, <1>g, <2>1, <2>2, <2>3, <2>4
<1>2. ASSUME GetByID(p) PROVE FileStep(p)
  <2> DEFINE b == r.op \in {"enableUser", "disableUser"}
             q == [r EXCEPT !.id = user[u].id, !.pc = IF b THEN "update" ELSE "clients"]
  <2>1. r.pc = "lookup" /\ Same /\ pending' = pending /\ (Finish(p) \/ Goto(p, q))
    BY <1>2, Zenon DEF GetByID
  <2>2. \A i \in Inbounds : A(i)
    BY <1>c, <2>1 DEF FileCellOf, A, Entering, Restoring, Leaving, Gone
  <2>3. q.pc = (IF b THEN "update" ELSE "clients") /\ q.u = u /\ q.op = r.op /\ q.id = user[u].id
    <3> HIDE DEF b
    <3> QED BY <1>c DEF HandlerState
  <2> HIDE DEF q
  <2>4. FileRequestOf(q, user[u], file) /\ \A i \in Inbounds : C(q, i)
    BY <1>c, <2>2, <2>3, ZenonT(60) DEF FileRequestOf, FileCellOf, A, Entering, Restoring, Leaving, Gone
  <2>5. q.pc # "idle"
    BY <2>3
  <2> HIDE DEF C, u
  <2> QED BY <1>c, <1>f, <1>g, <2>1, <2>2, <2>3, <2>4, <2>5
<1>3. ASSUME ReadAccount(p) PROVE FileStep(p)
  <2> DEFINE rows == GetUserClients(r.id)
             is == {i \in Inbounds : rows[i] # 0}
             on == r.op = "enableUser"
             q == [r EXCEPT !.todo = is, !.asked = is, !.creds = rows,
                            !.pc = IF on THEN "push" ELSE "remove"]
  <2>1. /\ r.pc = "clients" /\ r.op \in AccountOps /\ Same /\ pending' = pending
        /\ (is = {} /\ Finish(p)) \/ Goto(p, q)
    BY <1>3, Zenon DEF ReadAccount
  <2>2. r.op \in {"enableUser", "disableUser", "deleteUser"}
    BY <2>1 DEF AccountOps
  <2>3. \A i \in Inbounds : rows[i] = IF client[u][i].enabled THEN client[u][i].cred ELSE 0
    BY <1>d, <1>r, <2>1, Zenon
  <2>4. \A i \in Inbounds : i \notin is => A(i) /\ file[i][u] = <<>>
    BY <1>c, <2>1, <2>2, <2>3, ZenonT(60) DEF FileCellOf, A, Entering, Restoring, Leaving, Gone, Filed
  <2>5. q.pc = (IF on THEN "push" ELSE "remove") /\ q.u = u /\ q.op = r.op /\ q.id = r.id
        /\ q.todo = is /\ q.creds = rows
    <3> HIDE DEF on, is, rows
    <3> QED BY <1>c DEF HandlerState
  <2> HIDE DEF q
  <2>6. FileRequestOf(q, user[u], file)
    BY <1>c, <2>1, <2>2, <2>5 DEF FileRequestOf
  <2>7. ASSUME NEW i \in Inbounds PROVE C(q, i)
    <3>1. C(r, i)
      BY <1>c
    <3>2. i \in is => rows[i] = client[u][i].cred /\ client[u][i].enabled
      BY <2>3
    <3>3. ~on => A(i)
      BY <2>1, <2>2, <3>1 DEF FileCellOf, A, Entering, Restoring, Leaving, Gone
    <3>4. on => Filed(FALSE, client[u][i], file[i][u])
      BY <2>1, <2>2, <3>1 DEF FileCellOf, Restoring
    <3> HIDE DEF is, rows
    <3> QED BY <2>2, <2>4, <2>5, <3>2, <3>3, <3>4, Zenon DEF FileCellOf, A, Entering, Restoring, Leaving, Gone
  <2>8. q.pc \notin {"idle", "delete"}
    BY <2>5
  <2> HIDE DEF C, u, is, rows
  <2>9. is = {} => \A i \in Inbounds : A(i)
    BY <2>4
  <2> QED BY <1>c, <1>f, <1>g, <2>1, <2>5, <2>6, <2>7, <2>8, <2>9
<1>4. ASSUME ReadClient(p) PROVE FileStep(p)
  <2> DEFINE all == GetAllUserClients(r.id)
             q == [r EXCEPT !.creds = all, !.pc = "flag"]
             t == [r EXCEPT !.pc = "add"]
  <2>1. /\ r.pc = "clients" /\ r.op \in ClientOps /\ Same /\ pending' = pending
        /\ \/ Finish(p) \/ Goto(p, q)
           \/ all[r.i] = 0 /\ Goto(p, t)
    BY <1>4, Zenon DEF ReadClient
  <2>2. r.op \notin {"enableUser", "disableUser"} /\ r.todo = {r.i}
    BY <2>1 DEF ClientOps, IInv, CarriedOwned
  <2>3. \A i \in Inbounds : A(i)
    BY <1>c, <2>1, <2>2, Zenon DEF FileCellOf, A, Entering, Restoring, Leaving, Gone
  <2>4. \A i \in Inbounds : all[i] = client[u][i].cred
    BY <1>d, <1>r, <2>1
  <2> HIDE DEF all
  <2>5. /\ q.pc = "flag" /\ q.u = u /\ q.op = r.op /\ q.id = r.id /\ q.creds = all
        /\ t.pc = "add" /\ t.u = u /\ t.op = r.op /\ t.id = r.id /\ t.todo = r.todo
    BY <1>c DEF HandlerState
  <2> HIDE DEF q, t
  <2>6. FileRequestOf(q, user[u], file) /\ FileRequestOf(t, user[u], file)
    BY <1>c, <2>1, <2>5 DEF FileRequestOf
  <2>7. \A i \in Inbounds : C(q, i) /\ (all[r.i] = 0 => C(t, i))
    BY <2>2, <2>3, <2>4, <2>5 DEF FileCellOf, A, Entering, Restoring, Leaving, Gone
  <2> HIDE DEF C, u
  <2> QED BY <1>c, <1>f, <1>g, <2>1, <2>3, <2>5, <2>6, <2>7
<1>5. ASSUME AddDone(p) \/ PushDone(p) \/ RemoveDone(p) PROVE FileStep(p)
  <2> DEFINE q == [r EXCEPT !.pc = "delete"]
  <2>1. /\ r.pc \in {"add", "push", "remove"} /\ r.todo = {} /\ Same
        /\ pending' \in {pending, pending + 1}
        /\ \/ Finish(p) /\ ~(r.pc = "remove" /\ r.op = "deleteUser")
           \/ r.pc = "remove" /\ r.op = "deleteUser" /\ Goto(p, q)
    BY <1>5 DEF AddDone, PushDone, RemoveDone, SpawnSync
  <2>2. pending' \in {0, 1}
    BY <1>c, <2>1
  <2>3. CASE Finish(p) /\ ~(r.pc = "remove" /\ r.op = "deleteUser")
    <3>1. \A i \in Inbounds : A(i)
      BY <1>c, <2>1, <2>3, Zenon DEF FileCellOf, A, Entering, Restoring, Leaving, Gone
    <3> QED BY <1>f, <2>1, <2>2, <2>3, <3>1
  <2>4. CASE r.pc = "remove" /\ r.op = "deleteUser" /\ Goto(p, q)
    <3>1. q.pc = "delete" /\ q.u = u /\ q.op = r.op /\ q.id = r.id
      BY <1>c DEF HandlerState
    <3> HIDE DEF q
    <3>2. FileRequestOf(q, user[u], file)
      BY <1>c, <2>4, <3>1 DEF FileRequestOf
    <3>3. \A i \in Inbounds : C(q, i)
      BY <1>c, <2>1, <2>4, <3>1 DEF FileCellOf, Entering, Restoring, Leaving, Gone
    <3> HIDE DEF C, u
    <3> QED BY <1>g, <2>1, <2>2, <2>4, <3>1, <3>2, <3>3
  <2> QED BY <2>1, <2>3, <2>4
<1>6. ASSUME NEW k \in Inbounds, ReadToAppend(p, k) PROVE FileStep(p)
  <2> DEFINE c == IF r.pc = "add" THEN Len(owner) + 1 ELSE r.creds[k]
             pc == IF r.pc = "add" THEN "append" ELSE "reappend"
             q == [r EXCEPT !.i = k, !.buf = file[k], !.creds[k] = c, !.pc = pc]
  <2>1. /\ r.pc \in {"add", "push"} /\ k \in r.todo /\ Same /\ pending' = pending /\ Goto(p, q)
    BY <1>6 DEF ReadToAppend
  <2>2. /\ q.pc = pc /\ q.i = k /\ q.u = u /\ q.op = r.op /\ q.id = r.id /\ q.buf = file[k]
        /\ q.todo = r.todo /\ q.creds = [r.creds EXCEPT ![k] = c]
    <3> HIDE DEF c, pc
    <3> QED BY <1>c DEF HandlerState
  <2>3. pc \in {"append", "reappend"} /\ (pc = "append" <=> r.pc = "add")
    OBVIOUS
  <2>4. r.pc = "push" => q.creds = r.creds
    BY <1>c, <2>2
  <2> HIDE DEF c, pc, q
  <2>5. FileRequestOf(q, user[u], file)
    BY <1>c, <1>d, <2>1, <2>2, <2>3 DEF FileRequestOf
  <2>6. ASSUME NEW j \in Inbounds PROVE C(q, j)
    <3>1. C(r, j)
      BY <1>c
    <3> QED BY <2>1, <2>2, <2>3, <2>4, <3>1, Zenon DEF FileCellOf, Entering, Restoring, Leaving, Gone
  <2> HIDE DEF C, u
  <2> QED BY <1>c, <1>g, <2>1, <2>2, <2>3, <2>5, <2>6
<1>7. ASSUME NEW k \in Inbounds, ReadToRemove(p, k) PROVE FileStep(p)
  <2> DEFINE q == [r EXCEPT !.i = k, !.buf = file[k], !.pc = "erase"]
             t == [r EXCEPT !.todo = @ \ {k}, !.pc = "remove"]
  <2>1. /\ r.pc = "remove" /\ k \in r.todo /\ Same /\ pending' = pending
        /\ (file[k][u] = <<>> /\ Goto(p, t)) \/ Goto(p, q)
    BY <1>7, <1>c, Zenon DEF ReadToRemove, FileSerial, FileRequestOf
  <2>2. /\ q.pc = "erase" /\ q.i = k /\ q.u = u /\ q.op = r.op /\ q.id = r.id /\ q.buf = file[k]
        /\ q.todo = r.todo
        /\ t.pc = "remove" /\ t.u = u /\ t.op = r.op /\ t.id = r.id /\ t.todo = r.todo \ {k}
    BY <1>c DEF HandlerState
  <2> HIDE DEF q, t
  <2>3. FileRequestOf(q, user[u], file) /\ FileRequestOf(t, user[u], file)
    BY <1>c, <2>1, <2>2 DEF FileRequestOf
  <2>4. ASSUME NEW j \in Inbounds PROVE C(q, j)
    <3>1. C(r, j)
      BY <1>c
    <3> QED BY <2>1, <2>2, <3>1 DEF FileCellOf, Entering, Restoring, Leaving, Gone
  <2>5. ASSUME NEW j \in Inbounds, file[k][u] = <<>> PROVE C(t, j)
    <3>1. C(r, j)
      BY <1>c
    <3>2. CASE j # k
      BY <2>1, <2>2, <3>1, <3>2 DEF FileCellOf, Entering, Restoring, Leaving, Gone
    <3>3. CASE j = k
      <4>1. r.op # "deleteUser" => A(k)
        BY <2>1, <2>5, <3>1, <3>3 DEF FileCellOf, Entering, Restoring, Leaving, Gone, A, Filed
      <4> QED BY <2>2, <2>5, <3>3, <4>1 DEF FileCellOf, Entering, Restoring, Leaving, Gone, A
    <3> QED BY <3>2, <3>3
  <2> HIDE DEF C, u
  <2> QED BY <1>c, <1>g, <2>1, <2>2, <2>3, <2>4, <2>5
<1> QED BY <1>1, <1>2, <1>3, <1>4, <1>5, <1>6, <1>7, Zenon

(* One more entry with the credential of the row.                          *)
LEMMA OnlyAppend ==
    ASSUME NEW c, NEW d \in Nat, d = c.cred, NEW f \in Seq(Nat), Only(c, f)
    PROVE  Append(f, d) # <<>> /\ Only(c, Append(f, d))
<1> DEFINE g == Append(f, d)
<1>1. Len(g) = Len(f) + 1 /\ Len(f) \in Nat /\ g[Len(f) + 1] = d
  OBVIOUS
<1>2. \A j \in 1..Len(f) : g[j] = f[j]
  OBVIOUS
<1>3. Len(<<>>) = 0
  OBVIOUS
<1> HIDE DEF g
<1>4. g # <<>>
  BY <1>1, <1>3
<1>5. ASSUME NEW j \in 1..Len(g) PROVE g[j] = c.cred
  <2>1. j \in 1..Len(f) \/ j = Len(f) + 1
    BY <1>1
  <2> QED BY <1>1, <1>2, <2>1 DEF Only
<1> QED BY <1>4, <1>5 DEF Only, g

(* The steps of a request that write to the database or a file: each       *)
(* leaves the client it is at further on its way.                          *)
LEMMA FileWrites ==
    ASSUME IInv, FiledInv, FileSerial, grpc = FALSE, NEW p \in Handlers, h[p].pc \notin {"idle", "delete"},
           \/ InsertUser(p) \/ UpdateUser(p) \/ FlagClient(p) \/ UpsertClient(p)
           \/ AppendToFile(p) \/ EraseFromFile(p)
    PROVE  FileStep(p)
<1> DEFINE r == h[p]
           u == h[p].u
           C(q, i) == FileCellOf(q, i, user[u].enabled, client[u][i], file[i][u])
           D(q, i) == FileCellOf(q, i, user'[u].enabled, client'[u][i], file'[i][u])
           A(i) == Filed(user[u].enabled, client[u][i], file[i][u])
<1>c. /\ TypeOK /\ RowsInv /\ pending = 0
      /\ r \in HandlerState /\ u \in Users /\ r.i \in Inbounds
      /\ r.todo \in SUBSET Inbounds /\ r.creds \in [Inbounds -> Nat]
      /\ FileRequestOf(r, user[u], file)
      /\ \A i \in Inbounds : C(r, i)
  BY FileFacts
<1>t. /\ user \in [Users -> [id : Nat, enabled : BOOLEAN]] /\ lastId \in Nat
      /\ client \in [Users -> [Inbounds -> [cred : Nat, enabled : BOOLEAN]]]
      /\ client[u] \in [Inbounds -> [cred : Nat, enabled : BOOLEAN]]
      /\ user[u] \in [id : Nat, enabled : BOOLEAN]
      /\ file \in [Inbounds -> [Users -> Seq(Nat)]]
  BY <1>c DEF TypeOK, Entries
<1>g. ASSUME NEW q, Goto(p, q), y' = y, pending' = pending, Apart(u), q.pc # "idle", q.u = u,
             FileRequestOf(q, user'[u], file'), \A i \in Inbounds : D(q, i)
      PROVE  FileStep(p)
  <2>1. FileRequestAt(q, user', client', file')
    BY <1>g DEF FileRequestAt
  <2> QED BY <1>c, <1>g, <2>1, FileStepRules
<1>d. r.pc \notin {"idle", "check", "insert", "lookup"} => r.id # 0 /\ user[u].id = r.id
  BY <1>c DEF IInv, RowInv, HeldIdsGiven, FileRequestOf
<1>o. r.pc \notin {"idle", "check", "insert", "lookup"} => \A v \in Users : Has(v, r.id) <=> v = u
  BY <1>c, <1>d, AccountRows
<1> HIDE DEF A
<1>1. ASSUME InsertUser(p) PROVE FileStep(p)
  <2> DEFINE q == [r EXCEPT !.pc = "add", !.id = lastId + 1]
  <2>1. r.pc = "insert" /\ UNCHANGED <<client, file, y, pending>>
    BY <1>1 DEF InsertUser, CreateUser, db
  <2>2. \A i \in Inbounds : A(i)
    BY <1>c, <2>1 DEF FileCellOf, A, Entering, Restoring, Leaving, Gone
  <2>3. CASE Finish(p) /\ UNCHANGED db
    <3>1. FiledAt(u, user', client', file')
      BY <2>1, <2>2, <2>3 DEF FiledAt, A, db
    <3>2. Apart(u)
      BY <2>1, <2>3 DEF Apart, db
    <3> QED BY <1>c, <2>1, <2>3, <3>1, <3>2, FileStepRules
  <2>4. CASE CreateUser(u) /\ Goto(p, q)
    <3>1. user[u].id = 0 /\ user' = [user EXCEPT ![u] = [id |-> lastId + 1, enabled |-> TRUE]]
      BY <2>4 DEF CreateUser
    <3>2. user'[u].id = lastId + 1 /\ \A v \in Users \ {u} : user'[v] = user[v]
      <4> DEFINE w == [id |-> lastId + 1, enabled |-> TRUE]
      <4>1. w.id = lastId + 1
        OBVIOUS
      <4> HIDE DEF w
      <4>2. user' = [user EXCEPT ![u] = w]
        BY <3>1 DEF w
      <4>3. user'[u] = w /\ \A v \in Users \ {u} : user'[v] = user[v]
        BY <1>c, <1>t, <4>2
      <4> QED BY <4>1, <4>3
    <3>3. q.pc = "add" /\ q.u = u /\ q.op = r.op /\ q.id = lastId + 1
      BY <1>c DEF HandlerState
    <3> HIDE DEF q
    <3>4. Apart(u) /\ FileRequestOf(q, user'[u], file')
      BY <1>c, <2>1, <3>2, <3>3 DEF Apart, FileRequestOf
    <3>5. \A i \in Inbounds : client[u][i] = NoClient
      BY <1>c, <3>1 DEF RowsInv
    <3>6. \A i \in Inbounds : client[u][i].cred = 0 /\ ~client[u][i].enabled
      BY <3>5 DEF NoClient
    <3>7. \A i \in Inbounds : D(q, i)
      BY <2>1, <2>2, <3>3, <3>6 DEF FileCellOf, A, Entering, Restoring, Leaving, Gone, Filed
    <3> QED BY <1>g, <2>1, <2>4, <3>3, <3>4, <3>7
  <2> QED BY <1>1, <2>3, <2>4 DEF InsertUser
<1>2. ASSUME UpdateUser(p) PROVE FileStep(p)
  <2> DEFINE b == r.op = "enableUser"
             q == [r EXCEPT !.pc = "clients"]
  <2>1. /\ r.pc = "update" /\ UNCHANGED <<client, file, y, pending>> /\ Goto(p, q)
        /\ user' = [v \in Users |-> IF Has(v, r.id) THEN [user[v] EXCEPT !.enabled = b] ELSE user[v]]
    BY <1>2, Zenon DEF UpdateUser, SetUserEnabled
  <2>2. r.op \in {"enableUser", "disableUser"}
    BY <2>1 DEF IInv, OpInv
  <2>3. \A i \in Inbounds : A(i)
    BY <1>c, <2>1 DEF FileCellOf, A, Entering, Restoring, Leaving, Gone
  <2>4. b \in BOOLEAN
    OBVIOUS
  <2>5. /\ user'[u] = [user[u] EXCEPT !.enabled = b]
        /\ \A v \in Users \ {u} : user'[v] = user[v]
    BY <1>c, <1>o, <2>1, Zenon
  <2> HIDE DEF b
  <2>6. user'[u].id = user[u].id /\ user'[u].enabled = b
    BY <1>t, <2>5
  <2>7. q.pc = "clients" /\ q.u = u /\ q.op = r.op /\ q.id = r.id
    BY <1>c DEF HandlerState
  <2> HIDE DEF q
  <2>8. Apart(u)
    BY <2>1, <2>5 DEF Apart
  <2>9. FileRequestOf(q, user'[u], file')
    BY <1>c, <1>d, <2>1, <2>2, <2>6, <2>7, Zenon DEF FileRequestOf, b
  <2>10. \A i \in Inbounds : D(q, i)
    BY <2>1, <2>2, <2>3, <2>6, <2>7, Zenon DEF FileCellOf, A, Entering, Restoring, Leaving, Gone, Filed, b
  <2> QED BY <1>g, <2>1, <2>7, <2>8, <2>9, <2>10
<1>3. ASSUME FlagClient(p) PROVE FileStep(p)
  <2> DEFINE b == r.op # "disableClient"
             k == r.i
             q == [r EXCEPT !.pc = IF r.op = "disableClient" THEN "remove" ELSE "push"]
  <2>1. /\ r.pc = "flag" /\ UNCHANGED <<user, file, y, pending>> /\ Goto(p, q)
        /\ client' = [v \in Users |-> IF Has(v, r.id) /\ client[v][k].cred # 0
                        THEN [client[v] EXCEPT ![k] = [cred |-> @.cred, enabled |-> b]]
                        ELSE client[v]]
    BY <1>3, Zenon DEF FlagClient, SetUserClientEnabled
  <2>2. r.op \in ClientOps /\ r.todo = {k} /\ r.creds[k] # 0
    BY <2>1 DEF IInv, OpInv, CarriedOwned
  <2>3. \A i \in Inbounds : A(i)
    BY <1>c, <2>1 DEF FileCellOf, A, Entering, Restoring, Leaving, Gone
  <2>4. r.creds[k] = client[u][k].cred
    BY <1>c, <2>1, Zenon DEF FileCellOf
  <2>5. \A v \in Users \ {u} : client'[v] = client[v]
    BY <1>o, <2>1, Zenon
  <2>6. client'[u] = [client[u] EXCEPT ![k] = [cred |-> client[u][k].cred, enabled |-> b]]
    BY <1>c, <1>o, <2>1, <2>2, <2>4, Zenon
  <2> HIDE DEF b
  <2>7. /\ client'[u][k].cred = client[u][k].cred /\ client'[u][k].enabled = b
        /\ \A i \in Inbounds \ {k} : client'[u][i] = client[u][i]
    <3> DEFINE x == [cred |-> client[u][k].cred, enabled |-> b]
    <3>1. client[u] \in [Inbounds -> [cred : Nat, enabled : BOOLEAN]] /\ k \in Inbounds
      BY <1>c, <1>t, Zenon
    <3>2. x.cred = client[u][k].cred /\ x.enabled = b
      OBVIOUS
    <3>3. client'[u] = [client[u] EXCEPT ![k] = x]
      BY <2>6, Zenon
    <3> HIDE DEF x
    <3>4. client'[u][k] = x /\ \A i \in Inbounds \ {k} : client'[u][i] = client[u][i]
      BY <3>1, <3>3
    <3> QED BY <3>2, <3>4, Zenon
  <2>8. /\ q.pc = (IF r.op = "disableClient" THEN "remove" ELSE "push")
        /\ q.u = u /\ q.op = r.op /\ q.id = r.id /\ q.todo = {k} /\ q.creds = r.creds
    BY <1>c, <2>2 DEF HandlerState
  <2> HIDE DEF q
  <2>9. Apart(u)
    BY <2>1, <2>5 DEF Apart
  <2>10. FileRequestOf(q, user'[u], file') /\ q.pc # "idle"
    BY <1>c, <1>d, <2>1, <2>2, <2>8 DEF FileRequestOf, ClientOps
  <2>11. ASSUME NEW i \in Inbounds PROVE D(q, i)
    <3>1. CASE i # k
      <4>1. D(q, i) <=> C(q, i)
        BY <2>1, <2>7, <3>1, Zenon
      <4> HIDE DEF D
      <4> QED BY <2>2, <2>3, <2>8, <3>1, <4>1, ZenonT(60)
         DEF FileCellOf, A, Entering, Restoring, Leaving, Gone, ClientOps
    <3>2. CASE i = k
      <4>1. A(k)
        BY <1>c, <2>3
      <4>2. Only(client'[u][k], file[k][u]) <=> Only(client[u][k], file[k][u])
        BY <2>7 DEF Only
      <4> QED BY <2>1, <2>2, <2>4, <2>7, <2>8, <3>2, <4>1, <4>2, ZenonT(60)
           DEF FileCellOf, A, Entering, Restoring, Leaving, Gone, Filed, ClientOps, b
    <3> QED BY <3>1, <3>2
  <2> HIDE DEF D, u
  <2> QED BY <1>g, <2>1, <2>8, <2>9, <2>10, <2>11
<1>4. ASSUME UpsertClient(p) PROVE FileStep(p)
  <2> DEFINE k == r.i
             c == r.creds[k]
             e == client[u][k].cred = 0 \/ client[u][k].enabled
             q == [r EXCEPT !.todo = @ \ {r.i}, !.pc = "add"]
  <2>1. /\ r.pc = "upsert" /\ UNCHANGED <<user, file, y, pending>> /\ Goto(p, q)
        /\ client' = [v \in Users |-> IF Has(v, r.id)
                 THEN [client[v] EXCEPT ![k] = [cred |-> c, enabled |-> @.cred = 0 \/ @.enabled]]
                 ELSE client[v]]
    BY <1>4, Zenon DEF UpsertClient, UpsertUserClient
  <2>2. C(r, k) /\ k \in r.todo
    BY <1>c, <2>1 DEF FileRequestOf
  <2>3. client[u][k].cred = 0 /\ file[k][u] = <<c>>
    BY <2>1, <2>2, Zenon DEF FileCellOf, Entering
  <2>12. c # 0 /\ c \in Nat
    BY <1>c, <2>3, NoZeroEntry DEF IInv
  <2>4. \A v \in Users \ {u} : client'[v] = client[v]
    BY <1>o, <2>1, Zenon
  <2>5. client'[u] = [client[u] EXCEPT ![k] = [cred |-> c, enabled |-> e]]
    BY <1>c, <1>o, <2>1, Zenon
  <2>6. e /\ e \in BOOLEAN
    BY <2>3
  <2> HIDE DEF e
  <2>7. /\ client'[u][k].cred = c /\ client'[u][k].enabled = e
        /\ \A i \in Inbounds \ {k} : client'[u][i] = client[u][i]
    BY <1>c, <1>t, <2>5
  <2>8. q.pc = "add" /\ q.u = u /\ q.op = r.op /\ q.id = r.id /\ q.todo = r.todo \ {k}
    BY <1>c DEF HandlerState
  <2> HIDE DEF q, c
  <2>9. Apart(u)
    BY <2>1, <2>4 DEF Apart
  <2>10. FileRequestOf(q, user'[u], file')
    BY <1>c, <1>d, <2>1, <2>8 DEF FileRequestOf
  <2>11. ASSUME NEW i \in Inbounds PROVE D(q, i)
    <3>1. CASE i # k
      <4>1. C(r, i)
        BY <1>c
      <4>2. D(q, i) <=> C(q, i)
        BY <2>1, <2>7, <3>1, Zenon
      <4> HIDE DEF D
      <4> QED BY <2>1, <2>8, <3>1, <4>1, <4>2 DEF FileCellOf, Entering, Restoring, Leaving, Gone
    <3>2. CASE i = k
      <4>1. file'[k][u] = <<c>> /\ <<c>> # <<>>
        BY <2>1, <2>3
      <4>2. Only(client'[u][k], <<c>>)
        BY <2>7, <2>12 DEF Only
      <4>3. Filed(user'[u].enabled, client'[u][k], file'[k][u])
        BY <2>6, <2>7, <2>12, <4>1, <4>2 DEF Filed
      <4> QED BY <2>8, <3>2, <4>3 DEF FileCellOf, Entering, Restoring, Leaving, Gone
    <3> QED BY <3>1, <3>2
  <2> HIDE DEF D, u
  <2> QED BY <1>g, <2>1, <2>8, <2>9, <2>10, <2>11
<1>n. ASSUME NEW k \in Inbounds, NEW f, r.buf = file[k], UNCHANGED <<user, client>>,
             file' = [file EXCEPT ![k] = [r.buf EXCEPT ![u] = f]]
      PROVE  /\ Apart(u) /\ file'[k][u] = f
             /\ \A q, i : i \in Inbounds \ {k} => (D(q, i) <=> C(q, i))
  <2>1. /\ file'[k][u] = f /\ \A i \in Inbounds \ {k} : file'[i] = file[i]
        /\ \A v \in Users \ {u} : file'[k][v] = file[k][v]
    BY <1>c, <1>n, <1>t
  <2>2. Apart(u)
    BY <1>n, <2>1 DEF Apart
  <2> QED BY <1>n, <2>1, <2>2
<1>5. ASSUME EraseFromFile(p) PROVE FileStep(p)
  <2> DEFINE k == r.i
             q == [r EXCEPT !.todo = @ \ {r.i}, !.buf = NoEntries, !.pc = "remove"]
  <2>1. /\ r.pc = "erase" /\ UNCHANGED <<user, client, y, pending>> /\ Goto(p, q)
        /\ file' = [file EXCEPT ![k] = [r.buf EXCEPT ![u] = <<>>]]
    BY <1>5 DEF EraseFromFile, WithoutEntry, FileSerial
  <2>2. r.buf = file[k] /\ C(r, k) /\ k \in r.todo
    BY <1>c, <2>1, Zenon DEF FileRequestOf
  <2>3. /\ Apart(u) /\ file'[k][u] = <<>>
        /\ \A i \in Inbounds \ {k} : D(q, i) <=> C(q, i)
    BY <1>c, <1>n, <2>1, <2>2, ZenonT(60)
  <2>4. q.pc = "remove" /\ q.u = u /\ q.op = r.op /\ q.id = r.id /\ q.todo = r.todo \ {k}
    BY <1>c DEF HandlerState
  <2> HIDE DEF q
  <2>6. /\ FileRequestOf(q, user'[u], file') /\ r.op \in {"disableUser", "disableClient", "deleteUser"}
        /\ (r.op = "disableUser" => ~user[u].enabled)
    BY <1>c, <1>d, <2>1, <2>4 DEF FileRequestOf
  <2>7. ASSUME NEW i \in Inbounds PROVE D(q, i)
    <3>1. CASE i # k
      <4>1. C(r, i)
        BY <1>c
      <4>2. D(q, i) <=> C(q, i)
        BY <2>3, <3>1
      <4> HIDE DEF D
      <4> QED BY <2>1, <2>4, <3>1, <4>1, <4>2 DEF FileCellOf, Entering, Restoring, Leaving, Gone
    <3>2. CASE i = k
      <4>1. Only(client[u][k], <<>>)
        BY DEF Only
      <4>2. r.op = "disableClient" => ~client[u][k].enabled
        BY <2>1, <2>2, Zenon DEF FileCellOf, Leaving
      <4>3. r.op = "disableUser" => A(k)
        BY <2>1, <2>2, Zenon DEF FileCellOf, A, Entering, Restoring, Leaving, Gone
      <4>4. r.op # "deleteUser" => Filed(user'[u].enabled, client'[u][k], file'[k][u])
        BY <2>1, <2>3, <2>6, <4>1, <4>2, <4>3, Zenon DEF A, Filed
      <4> QED BY <2>3, <2>4, <3>2, <4>4 DEF FileCellOf, Entering, Restoring, Leaving, Gone
    <3> QED BY <3>1, <3>2
  <2> HIDE DEF D, u
  <2> QED BY <1>g, <2>1, <2>3, <2>4, <2>6, <2>7
<1>6. ASSUME AppendToFile(p) PROVE FileStep(p)
  <2> DEFINE k == r.i
             c == r.creds[k]
             f == Append(file[k][u], c)
             q == [r EXCEPT !.pc = "upsert", !.buf = NoEntries]
             t == [r EXCEPT !.pc = "push", !.todo = @ \ {r.i}, !.buf = NoEntries]
  <2>2. r.pc \in {"append", "reappend"} => r.buf = file[k] /\ C(r, k) /\ k \in r.todo
    BY <1>c DEF FileRequestOf
  <2>1. /\ r.pc \in {"append", "reappend"} /\ UNCHANGED <<user, client, y, pending>>
        /\ (r.pc = "append" /\ Goto(p, q)) \/ (r.pc = "reappend" /\ Goto(p, t))
        /\ file' = [file EXCEPT ![k] = [r.buf EXCEPT ![u] = f]]
    BY <1>6, <2>2, Zenon DEF AppendToFile, WithEntry
  <2>3. c \in Nat /\ file[k][u] \in Seq(Nat)
    BY <1>c, <1>t
  <2> HIDE DEF c, f
  <2>4. /\ Apart(u) /\ file'[k][u] = f
        /\ \A i \in Inbounds \ {k} : (D(q, i) <=> C(q, i)) /\ (D(t, i) <=> C(t, i))
    BY <1>c, <1>n, <2>1, <2>2, ZenonT(60)
  <2>5. /\ q.pc = "upsert" /\ q.i = k /\ q.u = u /\ q.op = r.op /\ q.id = r.id /\ q.todo = r.todo
        /\ q.creds = r.creds
        /\ t.pc = "push" /\ t.u = u /\ t.op = r.op /\ t.id = r.id /\ t.todo = r.todo \ {k}
        /\ t.creds = r.creds
    BY <1>c DEF HandlerState
  <2> HIDE DEF q, t
  <2>6. FileRequestOf(q, user'[u], file') /\ FileRequestOf(t, user'[u], file')
    BY <1>c, <1>d, <2>1, <2>2, <2>5 DEF FileRequestOf
  <2>7. ASSUME NEW i \in Inbounds \ {k}
        PROVE  (r.pc = "append" => D(q, i)) /\ (r.pc = "reappend" => D(t, i))
    <3>1. C(r, i)
      BY <1>c
    <3>2. (r.pc = "append" => C(q, i)) /\ (r.pc = "reappend" => C(t, i))
      BY <2>5, <3>1, Zenon DEF FileCellOf, Entering, Restoring, Leaving, Gone
    <3> HIDE DEF C, D
    <3> QED BY <2>4, <3>2
  <2>8. r.pc = "append" => D(q, k)
    <3> SUFFICES ASSUME r.pc = "append" PROVE D(q, k)
      OBVIOUS
    <3>1. client[u][k].cred = 0 /\ A(k)
      BY <2>2, Zenon DEF FileCellOf, A, Entering, Restoring, Leaving, Gone
    <3>2. file[k][u] = <<>>
      BY <3>1, Zenon DEF A, Filed
    <3>3. file'[k][u] = <<r.creds[k]>>
      BY <2>3, <2>4, <3>2 DEF f, c
    <3> QED BY <2>1, <2>5, <3>1, <3>3 DEF FileCellOf, Entering, Restoring, Leaving, Gone
  <2>9. r.pc = "reappend" => D(t, k)
    <3> SUFFICES ASSUME r.pc = "reappend" PROVE D(t, k)
      OBVIOUS
    <3>1. client[u][k].enabled /\ c = client[u][k].cred /\ Filed(FALSE, client[u][k], file[k][u])
      BY <2>2, Zenon DEF FileCellOf, Restoring, c
    <3>2. Only(client[u][k], file[k][u])
      BY <3>1 DEF Filed
    <3>3. f # <<>> /\ Only(client[u][k], f)
      BY <2>3, <3>1, <3>2, OnlyAppend, Zenon DEF f
    <3>4. Filed(user'[u].enabled, client'[u][k], file'[k][u])
      BY <2>1, <2>4, <3>1, <3>3, Zenon DEF Filed
    <3> QED BY <2>5, <3>4 DEF FileCellOf, Entering, Restoring, Leaving, Gone
  <2> HIDE DEF C, D, u
  <2> QED BY <1>g, <2>1, <2>4, <2>5, <2>6, <2>7, <2>8, <2>9
<1> QED BY <1>1, <1>2, <1>3, <1>4, <1>5, <1>6, Zenon

(* One step of a request in progress keeps the invariant.                  *)
LEMMA FileServed ==
    ASSUME IInv, FiledInv, NEW p \in Handlers, h[p].pc \notin {"idle", "delete"}, FileStep(p)
    PROVE  FiledInv'
<1> DEFINE u == h[p].u
<1>1. /\ \A s \in Syncs : y[s].pc = "idle" /\ y'[s] = y[s]
      /\ \A q \in Handlers \ {p} : h[q].pc = "idle" /\ h'[q].pc = "idle"
  BY FileFacts DEF FileStep
<1>2. Apart(u)
  BY DEF FileStep
<1>3. /\ pending' \in {0, 1}
      /\ h'[p].pc # "idle" => /\ h'[p].u = u
                              /\ h'[p].pc # "delete" => pending' = 0
                              /\ FileRequestAt(h'[p], user', client', file')
      /\ h'[p].pc = "idle" => FiledAt(u, user', client', file')
  BY DEF FileStep
<1>4. TurnInv'
  BY <1>1, <1>3 DEF TurnInv
<1>5. \A s \in Syncs : ImportOf(y'[s], client', file')
  <2>1. \A s \in Syncs : y[s].boot = FALSE
    BY DEF FiledInv, ImportOf
  <2> QED BY <1>1, <2>1 DEF ImportOf
<1>6. \A t \in Handlers : h'[t].pc # "idle" => FileRequestAt(h'[t], user', client', file')
  BY <1>1, <1>3
<1>7. ASSUME NEW v \in Users, ~\E t \in Handlers : h'[t].pc # "idle" /\ h'[t].u = v
      PROVE  FiledAt(v, user', client', file')
  <2>1. CASE v = u
    BY <1>3, <1>7, <2>1
  <2>2. CASE v # u
    <3>1. FiledAt(v, user, client, file)
      BY <1>1, <2>2 DEF FiledInv
    <3>2. /\ user'[v] = user[v] /\ client'[v] = client[v]
          /\ \A i \in Inbounds : file'[i][v] = file[i][v]
      BY <1>2, <2>2 DEF Apart
    <3> QED BY <3>1, <3>2 DEF FiledAt
  <2> QED BY <2>1, <2>2
<1> QED BY <1>4, <1>5, <1>6, <1>7, Zenon DEF FiledInv

(* deleteUser's last step, beside its own Sync: the files have none of the *)
(* account's clients left, so the Sync has nothing of it to import.        *)
LEMMA FileDeletes ==
    ASSUME IInv, FiledInv, NEW p \in Handlers, DeleteAccount(p)
    PROVE  FiledInv'
<1> DEFINE r == h[p]
           u == h[p].u
<1>1. /\ r.pc = "delete" /\ DeleteUser(r.id) /\ h' = [h EXCEPT ![p] = IdleHandler]
      /\ UNCHANGED <<file, y, pending>>
  BY DEF DeleteAccount, Finish, Goto
<1>c. /\ TypeOK /\ RowsInv /\ u \in Users /\ FileRequestOf(r, user[u], file)
      /\ \A i \in Inbounds : FileCellOf(r, i, user[u].enabled, client[u][i], file[i][u])
      /\ \A q \in Handlers \ {p} : h[q].pc = "idle"
  BY <1>1, FileFacts
<1>2. \A i \in Inbounds : file[i][u] = <<>>
  BY <1>1, <1>c, Zenon DEF FileCellOf, Gone
<1>3. user[u].id = r.id /\ r.id # 0
  BY <1>1, <1>c DEF FileRequestOf, IInv, RowInv, HeldIdsGiven
<1>4. \A v \in Users : Has(v, r.id) <=> v = u
  BY <1>3, <1>c, AccountRows
<1>5. /\ \A v \in Users \ {u} : user'[v] = user[v] /\ client'[v] = client[v]
      /\ client'[u] = [i \in Inbounds |-> NoClient]
  BY <1>1, <1>4, <1>c, Zenon DEF DeleteUser
<1>6. \A t \in Handlers : h'[t].pc = "idle"
  <2>1. h \in [Handlers -> HandlerState] /\ IdleHandler.pc = "idle"
    BY <1>c DEF TypeOK, IdleHandler
  <2> QED BY <1>1, <1>c, <2>1
<1>7. TurnInv'
  BY <1>1, <1>6 DEF FiledInv, TurnInv
<1>8. ASSUME NEW v \in Users PROVE FiledAt(v, user', client', file')
  <2>1. CASE v = u
    <3>1. \A i \in Inbounds : client'[u][i].cred = 0 /\ client'[u][i].enabled = FALSE
      BY <1>5 DEF NoClient
    <3>2. \A c : Only(c, <<>>)
      BY DEF Only
    <3> QED BY <1>1, <1>2, <2>1, <3>1, <3>2 DEF FiledAt, Filed
  <2>2. CASE v # u
    <3>1. FiledAt(v, user, client, file)
      BY <1>c, <2>2 DEF FiledInv
    <3> QED BY <1>1, <1>5, <2>2, <3>1 DEF FiledAt
  <2> QED BY <2>1, <2>2
<1>9. ASSUME NEW s \in Syncs PROVE ImportOf(y'[s], client', file')
  <2>1. ImportOf(y[s], client, file)
    BY DEF FiledInv
  <2>2. ASSUME y[s].pc # "idle", NEW i \in Inbounds, NEW v \in Users
        PROVE  Only(client'[v][i], y[s].snap[i][v])
    <3>1. Only(client[v][i], y[s].snap[i][v]) /\ (file[i][v] = <<>> => y[s].snap[i][v] = <<>>)
      BY <2>1, <2>2 DEF ImportOf
    <3>2. CASE v = u
      <4>1. y[s].snap[i][v] = <<>>
        BY <1>2, <3>1, <3>2
      <4> QED BY <4>1 DEF Only
    <3>3. CASE v # u
      BY <1>5, <3>1, <3>3
    <3> QED BY <3>2, <3>3
  <2> QED BY <1>1, <2>1, <2>2 DEF ImportOf
<1> QED BY <1>6, <1>7, <1>8, <1>9, Zenon DEF FiledInv

(* A Sync over config.d alone changes nothing: it imports what the rows    *)
(* already say.                                                            *)
ImportStep(s) ==
    /\ UNCHANGED <<user, client, file, h>> /\ pending' = 0
    /\ \A t \in Syncs \ {s} : y[t].pc = "idle" /\ y'[t] = y[t]
    /\ \A p \in Handlers : h[p].pc \in {"idle", "delete"}
    /\ ImportOf(y'[s], client, file)

(* When a Sync starts, every entry of every file has the credential of its *)
(* row: the only request that may be in progress is a deletion that has    *)
(* taken the entries out.                                                  *)
LEMMA FileStart ==
    ASSUME IInv, FiledInv, FileSerial, grpc = FALSE, NEW s \in Syncs, SyncStart(s)
    PROVE  ImportStep(s)
<1> DEFINE z == y[s]
           q == [z EXCEPT !.pc = "entries", !.snap = file]
<1>1. /\ z.pc = "idle" /\ (pending > 0 \/ AtRest)
      /\ pending' = IF pending > 0 THEN pending - 1 ELSE 0
      /\ y' = [y EXCEPT ![s] = q] /\ UNCHANGED <<user, client, file, h>>
  BY DEF SyncStart, FileSerial, GotoSync
<1>2. TypeOK /\ TurnInv
  BY DEF IInv, RowInv, FiledInv
<1>3. y \in [Syncs -> SyncState] /\ pending \in {0, 1}
  BY <1>2 DEF TypeOK, TurnInv
<1>4. pending' = 0
  BY <1>1, <1>3
<1>5. /\ \A p \in Handlers : h[p].pc \in {"idle", "delete"}
      /\ \A t \in Syncs : y[t].pc = "idle"
  BY <1>1, <1>2, <1>3 DEF TurnInv, AtRest, HandlersIdle, SyncsIdle
<1>6. q.pc = "entries" /\ q.snap = file /\ q.boot = z.boot
  BY <1>3 DEF SyncState
<1> HIDE DEF q
<1>7. y'[s] = q /\ \A t \in Syncs \ {s} : y'[t] = y[t]
  BY <1>1, <1>3
<1>8. ASSUME NEW i \in Inbounds, NEW u \in Users PROVE Only(client[u][i], file[i][u])
  <2>1. CASE \E p \in Handlers : h[p].pc # "idle" /\ h[p].u = u
    <3>1. PICK p \in Handlers : h[p].pc # "idle" /\ h[p].u = u
      BY <2>1
    <3>2. h[p].pc = "delete"
      BY <1>5, <3>1
    <3>3. file[i][u] = <<>>
      BY <3>1, <3>2, FileFacts DEF FileCellOf, Gone
    <3> QED BY <3>3 DEF Only
  <2>2. CASE FiledAt(u, user, client, file)
    BY <2>2 DEF FiledAt, Filed
  <2> QED BY <2>1, <2>2 DEF FiledInv
<1>9. z.boot = FALSE
  BY DEF FiledInv, ImportOf
<1>10. ImportOf(q, client, file)
  BY <1>6, <1>8, <1>9 DEF ImportOf
<1> QED BY <1>1, <1>4, <1>5, <1>7, <1>10 DEF ImportStep

(* Every step of a Sync over config.d alone.                               *)
LEMMA FileImports ==
    ASSUME IInv, FiledInv, FileSerial, grpc = FALSE, NEW s \in Syncs, y[s].pc # "idle", SyncStep(s)
    PROVE  ImportStep(s)
<1> DEFINE z == y[s]
           Same == UNCHANGED <<user, client, file, h>>
<1>c. TypeOK /\ TurnInv /\ ImportOf(z, client, file)
  BY DEF IInv, RowInv, FiledInv
<1>t. /\ y \in [Syncs -> SyncState] /\ z \in SyncState /\ z.i \in Inbounds /\ z.u \in Users
      /\ client \in [Users -> [Inbounds -> [cred : Nat, enabled : BOOLEAN]]]
      /\ z.snap \in [Inbounds -> [Users -> Seq(Nat)]]
  BY <1>c DEF TypeOK, SyncState, Entries
<1>p. /\ z.boot = FALSE /\ z.pc \in {"entries", "link"} /\ pending = 0
      /\ \A t \in Syncs \ {s} : y[t].pc = "idle"
      /\ \A p \in Handlers : h[p].pc \in {"idle", "delete"}
  BY <1>c DEF ImportOf, TurnInv
<1>g. ASSUME NEW q, GotoSync(s, q), Same, pending' = pending, ImportOf(q, client, file)
      PROVE  ImportStep(s)
  <2>1. y'[s] = q /\ \A t \in Syncs \ {s} : y'[t] = y[t]
    BY <1>g, <1>t DEF GotoSync
  <2> QED BY <1>g, <1>p, <2>1 DEF ImportStep
<1>z. ASSUME NEW u \in Users, NEW i \in Inbounds, z.snap[i][u] # <<>>
      PROVE  /\ Head(z.snap[i][u]) = client[u][i].cred /\ client[u][i].cred # 0
             /\ user[u].id # 0
  <2> DEFINE e == z.snap[i][u]
             c == client[u][i]
  <2>1. e \in Seq(Nat)
    BY <1>t
  <2>2. EntriesOwned(z.snap[i])
    BY DEF IInv, CarriedOwned
  <2>3. \A k \in 1..Len(e) : e[k] # 0
    BY <2>2 DEF EntriesOwned
  <2>4. Only(c, e)
    BY <1>c, <1>p DEF ImportOf
  <2>5. user[u].id = 0 => c = NoClient
    BY DEF IInv, RowInv, RowsInv
  <2> HIDE DEF e, c
  <2>6. Len(e) \in Nat /\ 1 \in 1..Len(e) /\ Head(e) = e[1]
    BY <1>z, <2>1 DEF e
  <2>7. Head(e) = c.cred /\ c.cred # 0
    BY <2>3, <2>4, <2>6 DEF Only
  <2>8. user[u].id # 0
    BY <2>5, <2>7 DEF NoClient
  <2> QED BY <2>7, <2>8 DEF e, c
<1>1. ASSUME NEW i \in Inbounds, NEW u \in Users, SyncLookup(s, i, u) PROVE ImportStep(s)
  <2> DEFINE q == [z EXCEPT !.i = i, !.u = u, !.id = user[u].id, !.pc = "link"]
  <2>1. z.pc = "entries" /\ z.snap[i][u] # <<>> /\ Same /\ pending' = pending
    BY <1>1 DEF SyncLookup
  <2>2. user[u].id # 0
    BY <1>z, <2>1
  <2>3. GotoSync(s, q)
    BY <1>1, <2>2 DEF SyncLookup
  <2>4. q.pc = "link" /\ q.boot = z.boot /\ q.snap = z.snap
    BY <1>t DEF SyncState
  <2> HIDE DEF q
  <2>5. ImportOf(q, client, file)
    BY <1>c, <1>p, <2>1, <2>4 DEF ImportOf
  <2> QED BY <1>g, <2>1, <2>3, <2>5
<1>2. ASSUME SyncLink(s) PROVE ImportStep(s)
  <2> DEFINE k == z.i
             w == z.u
             c == Head(z.snap[k][w])
             q == NextEntry(z)
  <2>1. /\ z.pc = "link" /\ UNCHANGED <<user, file, h, pending>> /\ GotoSync(s, q)
        /\ UpsertUserClient(z.id, k, c)
    BY <1>2, Zenon DEF SyncLink
  <2>2. z.snap[k][w] # <<>>
    BY <2>1, Zenon DEF IInv, RowInv, EntryInv
  <2>3. c = client[w][k].cred /\ client[w][k].cred # 0
    BY <1>t, <1>z, <2>2
  <2>4. \A v \in Users : Has(v, z.id) => v = w
    BY <2>1 DEF IInv, RowInv, HeldIdsSafe, HeldIdsGiven
  <2> HIDE DEF c
  <2>5. ASSUME NEW v \in Users
        PROVE  (IF Has(v, z.id)
                THEN [client[v] EXCEPT ![k] = [cred |-> c, enabled |-> @.cred = 0 \/ @.enabled]]
                ELSE client[v]) = client[v]
    <3>1. CASE ~Has(v, z.id)
      BY <3>1
    <3>2. CASE Has(v, z.id)
      <4> DEFINE d == client[v][k]
                 e == d.cred = 0 \/ d.enabled
      <4>1. v = w /\ c = d.cred /\ d.cred # 0
        BY <2>3, <2>4, <3>2
      <4>2. client[v] \in [Inbounds -> [cred : Nat, enabled : BOOLEAN]]
            /\ d \in [cred : Nat, enabled : BOOLEAN]
        BY <1>t
      <4>3. d = [cred |-> d.cred, enabled |-> d.enabled]
        BY <4>2
      <4>4. e = d.enabled
        BY <4>1, <4>2
      <4>5. [cred |-> c, enabled |-> e] = d
        BY <4>1, <4>3, <4>4, Zenon
      <4>6. [client[v] EXCEPT ![k] = d] = client[v]
        BY <1>t, <4>2
      <4> QED BY <3>2, <4>5, <4>6
    <3> QED BY <3>1, <3>2
  <2>6. client' = client
    <3>1. client' = [v \in Users |-> IF Has(v, z.id)
                THEN [client[v] EXCEPT ![k] = [cred |-> c, enabled |-> @.cred = 0 \/ @.enabled]]
                ELSE client[v]]
      BY <2>1, Zenon DEF UpsertUserClient
    <3>2. client' = [v \in Users |-> client[v]]
      BY <2>5, <3>1, Zenon
    <3> QED BY <1>t, <3>2
  <2>7. q.pc = "entries" /\ q.boot = z.boot /\ q.snap = [z.snap EXCEPT ![k][w] = Tail(@)]
    BY <1>t DEF NextEntry, SyncState
  <2> HIDE DEF q
  <2>8. /\ \A i \in Inbounds, u \in Users : i # k \/ u # w => q.snap[i][u] = z.snap[i][u]
        /\ q.snap[k][w] = Tail(z.snap[k][w])
    <3> DEFINE g == z.snap
               x == Tail(g[k][w])
    <3>1. g \in [Inbounds -> [Users -> Seq(Nat)]] /\ k \in Inbounds /\ w \in Users
      BY <1>t, Zenon
    <3>2. q.snap = [g EXCEPT ![k] = [g[k] EXCEPT ![w] = x]]
      BY <2>7, Zenon
    <3> HIDE DEF g, x
    <3>3. /\ q.snap[k] = [g[k] EXCEPT ![w] = x]
          /\ \A i \in Inbounds \ {k} : q.snap[i] = g[i]
      BY <3>1, <3>2
    <3>4. g[k] \in [Users -> Seq(Nat)]
      BY <3>1, Zenon
    <3>5. q.snap[k][w] = x /\ \A u \in Users \ {w} : q.snap[k][u] = g[k][u]
      BY <3>1, <3>3, <3>4
    <3> QED BY <3>3, <3>5, Zenon DEF g, x
  <2>9. ASSUME NEW i \in Inbounds, NEW u \in Users
        PROVE  Only(client[u][i], q.snap[i][u]) /\ (file[i][u] = <<>> => q.snap[i][u] = <<>>)
    <3>1. Only(client[u][i], z.snap[i][u]) /\ (file[i][u] = <<>> => z.snap[i][u] = <<>>)
      BY <1>c, <1>p DEF ImportOf
    <3>2. CASE i # k \/ u # w
      BY <2>8, <3>1, <3>2
    <3>3. CASE i = k /\ u = w
      <4> DEFINE e == z.snap[i][u]
      <4>1. e \in Seq(Nat) /\ e # <<>> /\ q.snap[i][u] = Tail(e) /\ Only(client[u][i], e)
        BY <1>t, <2>2, <2>8, <3>1, <3>3, ZenonT(60)
      <4>2. file[i][u] # <<>>
        BY <3>1, <4>1
      <4> HIDE DEF e
      <4>3. Len(e) \in Nat /\ Len(Tail(e)) = Len(e) - 1 /\ \A j \in 1..Len(Tail(e)) : Tail(e)[j] = e[j + 1]
        BY <4>1
      <4>4. ASSUME NEW j \in 1..Len(Tail(e)) PROVE Tail(e)[j] = client[u][i].cred
        <5>1. j + 1 \in 1..Len(e)
          BY <4>3
        <5> QED BY <4>1, <4>3, <5>1 DEF Only
      <4> QED BY <4>1, <4>2, <4>4, Zenon DEF Only
    <3> QED BY <3>2, <3>3
  <2>10. ImportOf(q, client, file)
    BY <1>p, <2>7, <2>9, Zenon DEF ImportOf
  <2> QED BY <1>g, <2>1, <2>6, <2>10
<1>3. ASSUME SyncEntriesDone(s) PROVE ImportStep(s)
  <2>1. Same /\ pending' = pending /\ SyncReturn(s)
    BY <1>3 DEF SyncEntriesDone, FileSerial
  <2>2. GotoSync(s, IdleSync)
    BY <1>p, <2>1 DEF SyncReturn
  <2>3. IdleSync.pc = "idle" /\ IdleSync.boot = FALSE
    BY DEF IdleSync
  <2>4. ImportOf(IdleSync, client, file)
    BY <2>3 DEF ImportOf
  <2> QED BY <1>g, <2>1, <2>2, <2>4
<1>4. /\ ~SyncCreateUser(s) /\ ~SyncIdents(s) /\ ~SyncWrite(s) /\ ~SyncFlushed(s)
      /\ ~SyncListDone(s) /\ ~RestoreNext(s) /\ ~RestoreDone(s)
      /\ \A i \in Inbounds : ~SyncList(s, i) /\ ~RestoreList(s, i)
      /\ \A u \in Users : ~SyncRead(s, u) /\ ~RestoreUser(s, u)
  BY <1>p, Zenon DEF SyncCreateUser, SyncIdents, SyncWrite, SyncFlushed, SyncListDone, RestoreNext,
     RestoreDone, SyncList, RestoreList, SyncRead, RestoreUser
<1> QED BY <1>1, <1>2, <1>3, <1>4, Zenon DEF SyncStep

(* One step of a Sync keeps the invariant.                                 *)
LEMMA FileImported ==
    ASSUME FiledInv, NEW s \in Syncs, SyncStart(s) \/ y[s].pc # "idle", ImportStep(s)
    PROVE  FiledInv'
<1>1. /\ UNCHANGED <<user, client, file, h>> /\ pending' = 0
      /\ \A t \in Syncs \ {s} : y[t].pc = "idle" /\ y'[t] = y[t]
      /\ \A p \in Handlers : h[p].pc \in {"idle", "delete"}
      /\ ImportOf(y'[s], client, file)
  BY DEF ImportStep
<1>2. TurnInv'
  BY <1>1 DEF FiledInv, TurnInv
<1>3. \A t \in Syncs : ImportOf(y'[t], client', file')
  <2>1. \A t \in Syncs \ {s} : ImportOf(y[t], client, file)
    BY DEF FiledInv
  <2> QED BY <1>1, <2>1
<1>4. \A u \in Users :
        \/ \E p \in Handlers : h'[p].pc # "idle" /\ h'[p].u = u
        \/ FiledAt(u, user', client', file')
  BY <1>1 DEF FiledInv
<1>5. \A p \in Handlers : h'[p].pc # "idle" => FileRequestAt(h'[p], user', client', file')
  BY <1>1 DEF FiledInv
<1> QED BY <1>2, <1>3, <1>4, <1>5, Zenon DEF FiledInv

(* At the start everything is empty and idle.                              *)
LEMMA InitFiled == Init => FiledInv
<1> SUFFICES ASSUME Init PROVE FiledInv
  OBVIOUS
<1>1. /\ \A p \in Handlers : h[p].pc = "idle"
      /\ \A s \in Syncs : y[s].pc = "idle" /\ y[s].boot = FALSE
      /\ pending = 0
  BY DEF Init, IdleHandler, IdleSync
<1>2. \A u \in Users, i \in Inbounds : /\ client[u][i].cred = 0 /\ ~client[u][i].enabled
                                       /\ file[i][u] = <<>>
  BY DEF Init, NoClient, NoEntries
<1>3. \A u \in Users : FiledAt(u, user, client, file)
  <2>1. \A c : Only(c, <<>>)
    BY DEF Only
  <2> QED BY <1>2, <2>1 DEF FiledAt, Filed
<1>4. TurnInv
  BY <1>1 DEF TurnInv
<1>5. \A s \in Syncs : ImportOf(y[s], client, file)
  BY <1>1 DEF ImportOf
<1> QED BY <1>1, <1>3, <1>4, <1>5, Zenon DEF FiledInv

(* A request that arrives finds everything at rest.                        *)
LEMMA FileArrives ==
    ASSUME IInv, FiledInv, FileSerial, grpc = FALSE, NEW p \in Handlers,
           NEW o \in Ops, NEW u \in Users, NEW is \in SUBSET Inbounds, Request(p, o, u, is)
    PROVE  FiledInv'
<1> DEFINE pc == IF o = "createUser" THEN "check" ELSE "lookup"
           q == [IdleHandler EXCEPT !.pc = pc, !.op = o, !.u = u, !.asked = is, !.todo = is,
                   !.i = IF is = {} THEN SomeInbound ELSE CHOOSE i \in is : TRUE]
<1>1. /\ AtRest /\ h' = [h EXCEPT ![p] = q]
      /\ UNCHANGED <<user, client, file, y, pending>>
  BY DEF Request, FileSerial, Goto
<1>0. pc \in {"check", "lookup"}
  OBVIOUS
<1> HIDE DEF pc
<1>2. q.pc = pc /\ q.op = o /\ q.u = u
  BY DEF IdleHandler
<1> HIDE DEF q
<1>h. h \in [Handlers -> HandlerState]
  BY DEF IInv, RowInv, TypeOK
<1>3. h'[p] = q /\ \A t \in Handlers \ {p} : h'[t] = h[t]
  BY <1>1, <1>h
<1>4. /\ \A t \in Handlers : h[t].pc = "idle"
      /\ \A s \in Syncs : y[s].pc = "idle"
      /\ pending = 0
  BY <1>1 DEF AtRest, HandlersIdle, SyncsIdle
<1>5. \A v \in Users : FiledAt(v, user, client, file)
  BY <1>4 DEF FiledInv
<1>6. TurnInv'
  BY <1>1, <1>3, <1>4 DEF TurnInv
<1>7. FileRequestOf(q, user[u], file)
  BY <1>0, <1>2 DEF FileRequestOf
<1>8. \A i \in Inbounds : FileCellOf(q, i, user[u].enabled, client[u][i], file[i][u])
  BY <1>0, <1>2, <1>5 DEF FileCellOf, Entering, Restoring, Leaving, Gone, FiledAt
<1>9. ASSUME NEW t \in Handlers, h'[t].pc # "idle" PROVE FileRequestAt(h'[t], user', client', file')
  <2>1. h'[t] = q
    BY <1>3, <1>4, <1>9
  <2> QED BY <1>1, <1>2, <1>7, <1>8, <2>1 DEF FileRequestAt
<1>10. \A s \in Syncs : ImportOf(y'[s], client', file')
  BY <1>1 DEF FiledInv
<1>11. \A v \in Users : FiledAt(v, user', client', file')
  BY <1>1, <1>5
<1> QED BY <1>6, <1>9, <1>10, <1>11, Zenon DEF FiledInv

(* One request at a time over config.d alone: every step keeps the         *)
(* invariant.                                                              *)
LEMMA NextFiled ==
    ASSUME FileSerial, grpc = FALSE, IInv, FiledInv, [Next]_vars
    PROVE  FiledInv'
<1>e. events \in Nat /\ ~Happens
  BY DEF IInv, RowInv, TypeOK, Happens, FileSerial
<1>1. ASSUME NEW p \in Handlers, Handler(p) PROVE FiledInv'
  <2>1. CASE h[p].pc = "idle"
    BY <1>1, <2>1, IdleRequests, FileArrives
  <2>2. CASE h[p].pc = "delete"
    <3>1. DeleteAccount(p)
      <4>1. /\ \A o, u, is : ~Request(p, o, u, is)
            /\ ~CheckDuplicate(p) /\ ~InsertUser(p) /\ ~GetByID(p) /\ ~UpdateUser(p)
            /\ ~ReadAccount(p) /\ ~ReadClient(p) /\ ~FlagClient(p) /\ ~UpsertClient(p)
            /\ ~AddDone(p) /\ ~PushDone(p) /\ ~AppendToFile(p) /\ ~AppendFailed(p)
            /\ ~EraseFromFile(p) /\ ~RemoveDone(p)
        BY <2>2 DEF Request, CheckDuplicate, InsertUser, GetByID, UpdateUser, ReadAccount, ReadClient,
           FlagClient, UpsertClient, AddDone, PushDone, AppendToFile, AppendFailed,
           EraseFromFile, RemoveDone
      <4>2. ~\E i \in Inbounds : \/ AddClientRPC(p, i) \/ PushRPC(p, i) \/ ReadToAppend(p, i)
                                 \/ RemoveRPC(p, i) \/ ReadToRemove(p, i)
        BY <2>2 DEF AddClientRPC, PushRPC, ReadToAppend, RemoveRPC, ReadToRemove
      <4> QED BY <1>1, <4>1, <4>2, Zenon DEF Handler
    <3> QED BY <3>1, FileDeletes
  <2>3. CASE h[p].pc \notin {"idle", "delete"}
    <3>1. /\ \A o, u, is : ~Request(p, o, u, is)
          /\ ~AppendFailed(p) /\ ~DeleteAccount(p)
          /\ \A i \in Inbounds : ~AddClientRPC(p, i) /\ ~PushRPC(p, i) /\ ~RemoveRPC(p, i)
      BY <2>3, Zenon
         DEF Request, AppendFailed, DeleteAccount, AddClientRPC, PushRPC, RemoveRPC, FileSerial
    <3>2. FileStep(p)
      BY <1>1, <2>3, <3>1, FileReads, FileWrites, Zenon DEF Handler
    <3> QED BY <2>3, <3>2, FileServed
  <2> QED BY <2>1, <2>2, <2>3
<1>2. ASSUME NEW s \in Syncs, SyncStart(s) \/ SyncStep(s) PROVE FiledInv'
  <2>1. SyncStart(s) \/ y[s].pc # "idle"
    BY <1>2, IdleSyncs
  <2>2. ImportStep(s)
    BY <1>2, <2>1, IdleSyncs, FileStart, FileImports
  <2> QED BY <2>1, <2>2, FileImported
<1>3. /\ \A s \in Syncs : ~Crash(s)
      /\ ~XrayRestart /\ \A i \in Inbounds, u \in Edited : ~EditConfig(i, u)
  BY <1>e, Zenon DEF Crash, XrayRestart, EditConfig
<1>4. CASE UNCHANGED vars
  BY <1>4 DEF vars, FiledInv, TurnInv
<1> QED BY <1>1, <1>2, <1>3, <1>4, Zenon DEF Next

(* Without xray_api_addr, requests that do not overlap and do not fail,    *)
(* deletions beside their own Sync included, leave in config.d the enabled *)
(* clients of enabled accounts under their database credentials and no     *)
(* disabled client, for any users, inbounds and number of requests.        *)
THEOREM ProvisionFileAgreement ==
    ASSUME FileSerial
    PROVE  Spec => []FileAgreement
<1> DEFINE J == ~grpc => FiledInv
<1>0. Init => J
  BY InitFiled
<1>1. IInv /\ J /\ [Next]_vars => J'
  <2> SUFFICES ASSUME IInv, J, [Next]_vars, ~grpc' PROVE FiledInv'
    OBVIOUS
  <2>1. grpc' = grpc /\ grpc \in BOOLEAN
    BY ModeKept DEF IInv, RowInv, TypeOK
  <2>2. grpc = FALSE /\ FiledInv
    BY <2>1
  <2> QED BY <2>2, NextFiled
<1>2. J => FileAgreement
  <2> SUFFICES ASSUME FiledInv, AtRest, NEW u \in Users, NEW i \in Inbounds
               PROVE  LET c == client[u][i]
                      IN  /\ (user[u].enabled /\ c.enabled) =>
                               file[i][u] # <<>> /\ \A k \in 1..Len(file[i][u]) : file[i][u][k] = c.cred
                          /\ ~c.enabled => file[i][u] = <<>>
    BY Zenon DEF FileAgreement
  <2>1. Filed(user[u].enabled, client[u][i], file[i][u])
    BY DEF FiledInv, FiledAt, AtRest, HandlersIdle
  <2> QED BY <2>1 DEF Filed, Only
<1> QED BY <1>0, <1>1, <1>2, ProvisionInvariant, PTL DEF Spec
=============================================================================
