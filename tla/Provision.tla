----------------------------- MODULE Provision ------------------------------
(***************************************************************************)
(* Provisioning: the admin handlers of internal/api/server.go that create, *)
(* delete, enable and disable accounts and their inbound clients, and the  *)
(* Syncs of internal/syncer/syncer.go that run beside them.                *)
(*                                                                         *)
(* A client lives in three places that nothing keeps together: a row of    *)
(* user_clients, an entry of the inbound's config.d file, and the running  *)
(* Xray.  Every SQL statement, every RPC, every file read and every file   *)
(* rename is one step; handlers and Syncs take no common lock.             *)
(*                                                                         *)
(* Every inbound has its row and a config.d file of its own; a directory   *)
(* parse is one step.  A file is what it holds for each identity: the      *)
(* sequence of credentials of that identity's entries.                     *)
(***************************************************************************)
EXTENDS Naturals, Sequences

CONSTANTS Users,      \* identities (username = email)
          Inbounds,   \* inbound tags
          Handlers,   \* concurrent admin requests
          Syncs,      \* concurrent runs of Sync
          Modes,      \* the deployments looked at: TRUE with xray_api_addr, else FALSE
          Ops,        \* the requests the admin sends
          Edited,     \* identities the operator adds to config.d by hand
          Overlap,    \* a request may arrive while others or a Sync still run
          Faults,     \* RPCs and file writes may fail
          MaxReqs,    \* bound on requests
          MaxEvents   \* bound on Xray restarts, crashes and edits of config.d

AccountOps == {"enableUser", "disableUser", "deleteUser"}
ClientOps == {"addClient", "enableClient", "disableClient"}
AllOps == {"createUser"} \cup AccountOps \cup ClientOps

ASSUME OpsAssumption == Ops \subseteq AllOps
ASSUME EditedAssumption == Edited \subseteq Users
ASSUME ModesAssumption == Modes \subseteq BOOLEAN
ASSUME ModeAssumption == Overlap \in BOOLEAN /\ Faults \in BOOLEAN
ASSUME BoundsAssumption == MaxReqs \in Nat /\ MaxEvents \in Nat
ASSUME SomeAssumption == Users # {} /\ Inbounds # {}

VARIABLES
    grpc,     \* xray_api_addr is set (grpcAdmin), else fileAdmin
    user,     \* users: row id (0 = no row) and enabled flag of each username
    lastId,   \* AUTOINCREMENT: the last row id given
    client,   \* user_clients: credential (0 = no row) and enabled flag
    owner,    \* history: owner[c] is the identity credential c was generated for
    file,     \* config.d: the entries of each inbound, by identity
    run,      \* the running Xray: the credential it accepts per inbound and identity
    h,        \* the request each handler serves
    y,        \* the Sync each goroutine runs
    pending,  \* goroutines started with "go Sync()" that have not begun
    booted,   \* main is past RestoreOnStartup: the listener and the ticker run
    reqs, events

db == <<user, lastId, client>>
vars == <<grpc, user, lastId, client, owner, file, run, h, y, pending, booted, reqs, events>>

NoUser == [id |-> 0, enabled |-> FALSE]
NoClient == [cred |-> 0, enabled |-> FALSE]
NoEntries == [u \in Users |-> <<>>]
NoCreds == [i \in Inbounds |-> 0]
NoWant == [u \in Users |-> 0]

SomeUser == CHOOSE u \in Users : TRUE
SomeInbound == CHOOSE i \in Inbounds : TRUE

IdleHandler == [pc |-> "idle", op |-> "createUser", u |-> SomeUser, id |-> 0,
                asked |-> {}, todo |-> {}, i |-> SomeInbound, creds |-> NoCreds,
                buf |-> NoEntries]

IdleSync == [pc |-> "idle", snap |-> [i \in Inbounds |-> NoEntries],
             u |-> SomeUser, i |-> SomeInbound, id |-> 0, todo |-> {},
             want |-> NoWant, buf |-> NoEntries, boot |-> FALSE]

Init ==
    /\ grpc \in Modes
    /\ user = [u \in Users |-> NoUser]
    /\ lastId = 0
    /\ client = [u \in Users |-> [i \in Inbounds |-> NoClient]]
    /\ owner = <<>>
    /\ file = [i \in Inbounds |-> NoEntries]
    /\ run = [i \in Inbounds |-> NoWant]
    /\ h = [p \in Handlers |-> IdleHandler]
    /\ y = [s \in Syncs |-> IdleSync]
    /\ pending = 0
    /\ booted = TRUE
    /\ reqs = 0
    /\ events = 0

HandlersIdle == \A p \in Handlers : h[p].pc = "idle"
SyncsIdle == pending = 0 /\ \A s \in Syncs : y[s].pc = "idle"
AtRest == booted /\ HandlersIdle /\ SyncsIdle

-----------------------------------------------------------------------------
(* The database.                                                           *)

(* Without AUTOINCREMENT SQLite gives the row id after the largest in use. *)
CreateUserReusesId(u) ==
    LET id == CHOOSE n \in 1..(lastId + 1) :
                /\ \A v \in Users : user[v].id < n
                /\ n = 1 \/ \E v \in Users : user[v].id = n - 1
    IN  /\ user[u].id = 0
        /\ lastId' = lastId + 1
        /\ user' = [user EXCEPT ![u] = [id |-> id, enabled |-> TRUE]]
        /\ UNCHANGED client

(* INSERT fails on the UNIQUE username when the row exists; AUTOINCREMENT  *)
(* never hands a row id out twice.                                         *)
CreateUser(u) ==
    /\ user[u].id = 0
    /\ lastId' = lastId + 1
    /\ user' = [user EXCEPT ![u] = [id |-> lastId + 1, enabled |-> TRUE]]
    /\ UNCHANGED client

(* The statements below address the account by its row id alone.           *)
Has(u, id) == user[u].id = id

SetUserEnabled(id, b) ==
    user' = [u \in Users |-> IF Has(u, id) THEN [user[u] EXCEPT !.enabled = b] ELSE user[u]]

(* ON CONFLICT re-enables the row.                                         *)
UpsertEnables(id, i, c) ==
    client' = [u \in Users |-> IF Has(u, id)
                 THEN [client[u] EXCEPT ![i] = [cred |-> c, enabled |-> TRUE]]
                 ELSE client[u]]

(* A missing account is a foreign key error, which every caller drops; on  *)
(* conflict only the credential is replaced.                               *)
UpsertUserClient(id, i, c) ==
    client' = [u \in Users |-> IF Has(u, id)
                 THEN [client[u] EXCEPT ![i] = [cred |-> c, enabled |-> @.cred = 0 \/ @.enabled]]
                 ELSE client[u]]

SetUserClientEnabled(id, i, b) ==
    client' = [u \in Users |-> IF Has(u, id) /\ client[u][i].cred # 0
                 THEN [client[u] EXCEPT ![i] = [cred |-> @.cred, enabled |-> b]]
                 ELSE client[u]]

(* The cascade is off (PRAGMA foreign_keys not set).                       *)
DeleteUserNoCascade(id) ==
    /\ user' = [u \in Users |-> IF Has(u, id) THEN NoUser ELSE user[u]]
    /\ UNCHANGED client

(* ON DELETE CASCADE takes the client rows along.                          *)
DeleteUser(id) ==
    /\ user' = [u \in Users |-> IF Has(u, id) THEN NoUser ELSE user[u]]
    /\ client' = [u \in Users |-> IF Has(u, id) THEN [i \in Inbounds |-> NoClient] ELSE client[u]]

(* GetAllUserClients and GetUserClientByUserAndInbound: the rows of the    *)
(* account, as the credential per inbound (0 = no row).                    *)
GetAllUserClients(id) ==
    [i \in Inbounds |-> IF \E u \in Users : Has(u, id)
                        THEN client[CHOOSE u \in Users : Has(u, id)][i].cred ELSE 0]

(* GetUserClients: only the enabled rows.                                  *)
GetUserClients(id) ==
    [i \in Inbounds |-> IF \E u \in Users : Has(u, id) /\ client[u][i].enabled
                        THEN GetAllUserClients(id)[i] ELSE 0]

(* ListUserClientsByInboundTag: account and client both enabled; 0 = not   *)
(* in the result.                                                          *)
ListUserClientsByInboundTag(i) ==
    [u \in Users |-> IF user[u].enabled /\ client[u][i].enabled
                     THEN client[u][i].cred ELSE 0]

-----------------------------------------------------------------------------
(* Xray's HandlerService (external): adding an identity it already has is  *)
(* an error.  The call may time out before or after it took effect.        *)

Added(i, u, c) == IF run[i][u] = 0 THEN [run EXCEPT ![i][u] = c] ELSE run

AddUserRPC(i, u, c) ==
    \/ run' = Added(i, u, c)
    \/ Faults /\ UNCHANGED run

RemoveUserRPC(i, u) ==
    \/ run' = [run EXCEPT ![i][u] = 0]
    \/ Faults /\ UNCHANGED run

(* addClientToFile and removeClientFromFile rewrite the whole file from    *)
(* the copy they read; an addition does not look for the identity.         *)
WithEntry(i, u, buf, c) == [file EXCEPT ![i] = [buf EXCEPT ![u] = Append(@, c)]]
WithoutFirst(i, u, buf) == [file EXCEPT ![i] = [buf EXCEPT ![u] = Tail(@)]]
WithoutEntry(i, u, buf) == [file EXCEPT ![i] = [buf EXCEPT ![u] = <<>>]]

-----------------------------------------------------------------------------
(* The admin handlers.                                                     *)

Goto(p, r) == h' = [h EXCEPT ![p] = r]
Finish(p) == Goto(p, IdleHandler)

(* "go Sync()": the goroutine runs on its own from here.                   *)
SpawnSync(b) == pending' = IF b THEN pending + 1 ELSE pending

(* createUser names any inbounds, each once; a client request names one.   *)
(* A body that names a tag twice is left out: the handler would provision  *)
(* that inbound twice, over gRPC failing the second time, and in file mode *)
(* appending a second entry with a credential of its own.                  *)
Request(p, o, u, is) ==
    /\ h[p].pc = "idle"
    /\ booted
    /\ reqs < MaxReqs
    /\ Overlap \/ AtRest
    /\ reqs' = reqs + 1
    /\ Goto(p, [IdleHandler EXCEPT
               !.pc = IF o = "createUser" THEN "check" ELSE "lookup",
               !.op = o, !.u = u, !.asked = is, !.todo = is,
               !.i = IF is = {} THEN SomeInbound ELSE CHOOSE i \in is : TRUE])
    /\ UNCHANGED <<user, lastId, client, owner, file, run, y, pending, booted, events, grpc>>

CheckDuplicate(p) ==
    /\ h[p].pc = "check"
    /\ IF user[h[p].u].id # 0 THEN Finish(p) ELSE Goto(p, [h[p] EXCEPT !.pc = "insert"])
    /\ UNCHANGED <<user, lastId, client, owner, file, run, y, pending, booted, grpc, reqs, events>>

InsertUser(p) ==
    /\ h[p].pc = "insert"
    /\ \/ /\ CreateUser(h[p].u)
          /\ Goto(p, [h[p] EXCEPT !.pc = "add", !.id = lastId + 1])
       \/ /\ user[h[p].u].id # 0
          /\ Finish(p)
          /\ UNCHANGED db
    /\ UNCHANGED <<owner, file, run, y, pending, booted, grpc, reqs, events>>

(* getByID: the handler keeps the row id it found; 404 without one.        *)
GetByID(p) ==
    /\ h[p].pc = "lookup"
    /\ IF user[h[p].u].id = 0
       THEN Finish(p)
       ELSE Goto(p, [h[p] EXCEPT !.id = user[h[p].u].id,
                           !.pc = IF h[p].op \in {"enableUser", "disableUser"}
                                     THEN "update" ELSE "clients"])
    /\ UNCHANGED <<user, lastId, client, owner, file, run, y, pending, booted, grpc, reqs, events>>

UpdateUser(p) ==
    /\ h[p].pc = "update"
    /\ SetUserEnabled(h[p].id, h[p].op = "enableUser")
    /\ Goto(p, [h[p] EXCEPT !.pc = "clients"])
    /\ UNCHANGED <<lastId, client, owner, file, run, y, pending, booted, grpc, reqs, events>>

(* addUserToXray and removeUserFromXray list the account's enabled rows.   *)
ReadAccount(p) ==
    LET rows == GetUserClients(h[p].id)
        is == {i \in Inbounds : rows[i] # 0}
    IN  /\ h[p].pc = "clients"
        /\ h[p].op \in AccountOps
        /\ IF is = {} /\ h[p].op # "deleteUser"
           THEN Finish(p)
           ELSE Goto(p, [h[p] EXCEPT !.todo = is, !.asked = is, !.creds = rows,
                        !.pc = IF h[p].op = "enableUser" THEN "push" ELSE "remove"])
        /\ UNCHANGED <<user, lastId, client, owner, file, run, y, pending, booted, grpc, reqs, events>>

(* addUserClient and setClientEnabled look one row up.  Adding an enabled  *)
(* client is a no-op, adding a disabled one enables it.                    *)
ReadClient(p) ==
    LET i == h[p].i
        adding == h[p].op = "addClient"
        exists == GetAllUserClients(h[p].id)[i] # 0
        enabled == GetUserClients(h[p].id)[i] # 0
    IN  /\ h[p].pc = "clients"
        /\ h[p].op \in ClientOps
        /\ \/ /\ exists /\ ~(adding /\ enabled)
              /\ Goto(p, [h[p] EXCEPT !.creds = GetAllUserClients(h[p].id), !.pc = "flag"])
           \/ /\ ~exists /\ adding
              /\ Goto(p, [h[p] EXCEPT !.pc = "add"])
           \/ /\ IF exists THEN adding /\ enabled ELSE ~adding
              /\ Finish(p)
        /\ UNCHANGED <<user, lastId, client, owner, file, run, y, pending, booted, grpc, reqs, events>>

FlagClient(p) ==
    /\ h[p].pc = "flag"
    /\ SetUserClientEnabled(h[p].id, h[p].i, h[p].op # "disableClient")
    /\ Goto(p, [h[p] EXCEPT !.pc = IF h[p].op = "disableClient" THEN "remove" ELSE "push"])
    /\ UNCHANGED <<user, lastId, owner, file, run, y, pending, booted, grpc, reqs, events>>

(* addUserToInbound, gRPC: a fresh credential goes to Xray and, if Xray    *)
(* took it, into user_clients.  On any error the inbound is skipped.       *)
AddClientRPC(p, i) ==
    LET u == h[p].u
        c == Len(owner) + 1
    IN  /\ h[p].pc = "add" /\ grpc
        /\ i \in h[p].todo
        /\ \/ /\ run[i][u] = 0
              /\ run' = Added(i, u, c)
              /\ Goto(p, [h[p] EXCEPT !.pc = "upsert", !.i = i, !.creds[i] = c])
              /\ owner' = Append(owner, u)
           \/ /\ run[i][u] # 0
              /\ Goto(p, [h[p] EXCEPT !.todo = @ \ {i}])
              /\ UNCHANGED <<owner, run>>
           \/ /\ Faults
              /\ run' \in {run, Added(i, u, c)}
              /\ Goto(p, [h[p] EXCEPT !.todo = @ \ {i}])
              /\ owner' = Append(owner, u)
        /\ UNCHANGED <<user, lastId, client, file, y, pending, booted, grpc, reqs, events>>

UpsertClient(p) ==
    /\ h[p].pc = "upsert"
    /\ UpsertUserClient(h[p].id, h[p].i, h[p].creds[h[p].i])
    /\ Goto(p, [h[p] EXCEPT !.todo = @ \ {h[p].i}, !.pc = "add"])
    /\ UNCHANGED <<user, lastId, owner, file, run, y, pending, booted, grpc, reqs, events>>

AddDone(p) ==
    /\ h[p].pc = "add"
    /\ h[p].todo = {}
    /\ Finish(p)
    /\ SpawnSync(~grpc /\ h[p].op = "createUser" /\ h[p].asked # {})
    /\ UNCHANGED <<user, lastId, client, owner, file, run, y, booted, grpc, reqs, events>>

(* AddExistingClient with the credential read from the database.           *)
PushRPC(p, i) ==
    /\ h[p].pc = "push" /\ grpc
    /\ i \in h[p].todo
    /\ AddUserRPC(i, h[p].u, h[p].creds[i])
    /\ Goto(p, [h[p] EXCEPT !.todo = @ \ {i}])
    /\ UNCHANGED <<user, lastId, client, owner, file, y, pending, booted, grpc, reqs, events>>

PushDone(p) ==
    /\ h[p].pc = "push"
    /\ h[p].todo = {}
    /\ Finish(p)
    /\ SpawnSync(~grpc)
    /\ UNCHANGED <<user, lastId, client, owner, file, run, y, booted, grpc, reqs, events>>

(* fileAdmin's additions: read the file, then append and rename.  A new    *)
(* credential is generated before the read.                                *)
ReadToAppend(p, i) ==
    LET new == h[p].pc = "add"
    IN  /\ h[p].pc \in {"add", "push"} /\ ~grpc
        /\ i \in h[p].todo
        /\ owner' = IF new THEN Append(owner, h[p].u) ELSE owner
        /\ Goto(p, [h[p] EXCEPT !.i = i, !.buf = file[i],
                          !.creds[i] = IF new THEN Len(owner) + 1 ELSE @,
                          !.pc = IF new THEN "append" ELSE "reappend"])
        /\ UNCHANGED <<user, lastId, client, file, run, y, pending, booted, grpc, reqs, events>>

AppendToFile(p) ==
    LET r == h[p]
    IN  /\ r.pc \in {"append", "reappend"}
        /\ file' = WithEntry(r.i, r.u, r.buf, r.creds[r.i])
        /\ IF r.pc = "append"
           THEN Goto(p, [h[p] EXCEPT !.pc = "upsert", !.buf = NoEntries])
           ELSE Goto(p, [h[p] EXCEPT !.pc = "push", !.todo = @ \ {r.i}, !.buf = NoEntries])
        /\ UNCHANGED <<user, lastId, client, owner, run, y, pending, booted, grpc, reqs, events>>

(* The write fails: the inbound is skipped.                                *)
AppendFailed(p) ==
    LET r == h[p]
    IN  /\ r.pc \in {"append", "reappend"} /\ Faults
        /\ Goto(p, [h[p] EXCEPT !.pc = IF r.pc = "append" THEN "add" ELSE "push",
                          !.todo = @ \ {r.i}, !.buf = NoEntries])
        /\ UNCHANGED <<user, lastId, client, owner, file, run, y, pending, booted, grpc, reqs, events>>

(* Only the runtime is told.                                               *)
RemoveRPCOnly(p, i) ==
    /\ h[p].pc = "remove" /\ grpc
    /\ i \in h[p].todo
    /\ RemoveUserRPC(i, h[p].u)
    /\ Goto(p, [h[p] EXCEPT !.todo = @ \ {i}])
    /\ UNCHANGED <<user, lastId, client, owner, file, y, pending, booted, grpc, reqs, events>>

(* RemoveClient: the RPC first, and whatever it returns, the file.         *)
RemoveRPC(p, i) ==
    /\ h[p].pc = "remove" /\ grpc
    /\ i \in h[p].todo
    /\ RemoveUserRPC(i, h[p].u)
    /\ Goto(p, [h[p] EXCEPT !.pc = "scan", !.i = i])
    /\ UNCHANGED <<user, lastId, client, owner, file, y, pending, booted, grpc, reqs, events>>

ReadToRemove(p, i) ==
    LET u == h[p].u
    IN  /\ \/ h[p].pc = "scan" /\ i = h[p].i
           \/ h[p].pc = "remove" /\ ~grpc /\ i \in h[p].todo
        /\ IF file[i][u] = <<>>
           THEN Goto(p, [h[p] EXCEPT !.todo = @ \ {i}, !.pc = "remove"])
           ELSE Goto(p, [h[p] EXCEPT !.i = i, !.buf = file[i], !.pc = "erase"])
        /\ UNCHANGED <<user, lastId, client, owner, file, run, y, pending, booted, grpc, reqs, events>>

EraseFromFile(p) ==
    /\ h[p].pc = "erase"
    /\ \/ file' = WithoutEntry(h[p].i, h[p].u, h[p].buf)
       \/ Faults /\ UNCHANGED file
    /\ Goto(p, [h[p] EXCEPT !.todo = @ \ {h[p].i}, !.buf = NoEntries, !.pc = "remove"])
    /\ UNCHANGED <<user, lastId, client, owner, run, y, pending, booted, grpc, reqs, events>>

(* The Sync is spawned here, before deleteUser deletes the row.            *)
RemoveDone(p) ==
    /\ h[p].pc = "remove"
    /\ h[p].todo = {}
    /\ SpawnSync(h[p].asked # {})
    /\ IF h[p].op = "deleteUser" THEN Goto(p, [h[p] EXCEPT !.pc = "delete"]) ELSE Finish(p)
    /\ UNCHANGED <<user, lastId, client, owner, file, run, y, booted, grpc, reqs, events>>

DeleteAccount(p) ==
    /\ h[p].pc = "delete"
    /\ DeleteUser(h[p].id)
    /\ Finish(p)
    /\ UNCHANGED <<lastId, owner, file, run, y, pending, booted, grpc, reqs, events>>

Handler(p) ==
    \/ \E o \in Ops, u \in Users :
         \/ o = "createUser" /\ \E is \in SUBSET Inbounds : Request(p, o, u, is)
         \/ o \in AccountOps /\ Request(p, o, u, {})
         \/ o \in ClientOps /\ \E i \in Inbounds : Request(p, o, u, {i})
    \/ CheckDuplicate(p) \/ InsertUser(p) \/ GetByID(p)
    \/ UpdateUser(p) \/ ReadAccount(p) \/ ReadClient(p) \/ FlagClient(p)
    \/ UpsertClient(p) \/ AddDone(p) \/ PushDone(p) \/ AppendToFile(p)
    \/ AppendFailed(p) \/ EraseFromFile(p) \/ RemoveDone(p) \/ DeleteAccount(p)
    \/ \E i \in Inbounds :
         \/ AddClientRPC(p, i) \/ PushRPC(p, i) \/ ReadToAppend(p, i)
         \/ RemoveRPC(p, i) \/ ReadToRemove(p, i)

-----------------------------------------------------------------------------
(* Sync.                                                                   *)

GotoSync(s, r) == y' = [y EXCEPT ![s] = r]

(* A spawned goroutine, the ticker, the watcher or POST /api/sync.  It     *)
(* parses config.d first.                                                  *)
SyncStart(s) ==
    /\ y[s].pc = "idle"
    /\ booted
    /\ Overlap \/ pending > 0 \/ AtRest
    /\ pending' = IF pending > 0 THEN pending - 1 ELSE 0
    /\ GotoSync(s, [y[s] EXCEPT !.pc = "entries", !.snap = file])
    /\ UNCHANGED <<user, lastId, client, owner, file, run, h, booted, grpc, reqs, events>>

(* syncClient for the first entry of u in the parsed inbound i.            *)
SyncLookup(s, i, u) ==
    /\ y[s].pc = "entries"
    /\ y[s].snap[i][u] # <<>>
    /\ GotoSync(s, [y[s] EXCEPT !.i = i, !.u = u, !.id = user[u].id,
                      !.pc = IF user[u].id = 0 THEN "insert" ELSE "link"])
    /\ UNCHANGED <<user, lastId, client, owner, file, run, h, pending, booted, grpc, reqs, events>>

(* On to the entry after the one just handled.                             *)
NextEntry(r) == [r EXCEPT !.snap[r.i][r.u] = Tail(@), !.id = 0, !.pc = "entries"]

(* The account is created under the name; a UNIQUE error drops the entry.  *)
SyncCreateUser(s) ==
    /\ y[s].pc = "insert"
    /\ \/ /\ CreateUser(y[s].u)
          /\ GotoSync(s, [y[s] EXCEPT !.id = lastId + 1, !.pc = "link"])
       \/ /\ user[y[s].u].id # 0
          /\ GotoSync(s, NextEntry(y[s]))
          /\ UNCHANGED db
    /\ UNCHANGED <<owner, file, run, h, pending, booted, grpc, reqs, events>>

SyncLink(s) ==
    LET r == y[s]
    IN  /\ r.pc = "link"
        /\ UpsertUserClient(r.id, r.i, Head(r.snap[r.i][r.u]))
        /\ GotoSync(s, NextEntry(r))
        /\ UNCHANGED <<user, lastId, owner, file, run, h, pending, booted, grpc, reqs, events>>

(* Back to the caller: a ticker or goroutine is done, main goes on to      *)
(* RestoreOnStartup, which does nothing without xray_api_addr.             *)
SyncReturn(s) ==
    LET restore == y[s].boot /\ grpc
    IN  /\ GotoSync(s, IF restore
                   THEN [IdleSync EXCEPT !.pc = "restore", !.todo = Inbounds, !.boot = TRUE]
                   ELSE IdleSync)
        /\ booted' = (booted \/ (y[s].boot /\ ~restore))

(* The pass from the database to the files is left out.                    *)
SyncImportOnly(s) ==
    /\ y[s].pc = "entries"
    /\ \A i \in Inbounds, u \in Users : y[s].snap[i][u] = <<>>
    /\ SyncReturn(s)
    /\ UNCHANGED <<user, lastId, client, owner, file, run, h, pending, reqs, events, grpc>>

SyncEntriesDone(s) ==
    /\ y[s].pc = "entries"
    /\ \A i \in Inbounds, u \in Users : y[s].snap[i][u] = <<>>
    /\ \/ /\ grpc
          /\ GotoSync(s, [y[s] EXCEPT !.pc = "list", !.todo = Inbounds])
          /\ UNCHANGED booted
       \/ ~grpc /\ SyncReturn(s)
    /\ UNCHANGED <<user, lastId, client, owner, file, run, h, pending, reqs, events, grpc>>

(* Database to file, one inbound after the other.                          *)
SyncList(s, i) ==
    /\ y[s].pc = "list"
    /\ i \in y[s].todo
    /\ GotoSync(s, [y[s] EXCEPT !.i = i, !.todo = @ \ {i},
                      !.want = ListUserClientsByInboundTag(i), !.pc = "idents"])
    /\ UNCHANGED <<user, lastId, client, owner, file, run, h, pending, booted, grpc, reqs, events>>

(* GetExistingIdentitiesInInbound: those already in the file are skipped.  *)
SyncIdents(s) ==
    LET r == y[s]
    IN  /\ r.pc = "idents"
        /\ GotoSync(s, [y[s] EXCEPT !.want = [u \in Users |-> IF file[r.i][u] = <<>> THEN r.want[u] ELSE 0],
                          !.pc = "flush"])
        /\ UNCHANGED <<user, lastId, client, owner, file, run, h, pending, booted, grpc, reqs, events>>

(* AddExistingClientToInbound for one missing user: read, then write.      *)
SyncRead(s, u) ==
    /\ y[s].pc = "flush"
    /\ y[s].want[u] # 0
    /\ GotoSync(s, [y[s] EXCEPT !.u = u, !.buf = file[y[s].i], !.pc = "write"])
    /\ UNCHANGED <<user, lastId, client, owner, file, run, h, pending, booted, grpc, reqs, events>>

SyncWrite(s) ==
    LET r == y[s]
    IN  /\ r.pc = "write"
        /\ \/ file' = WithEntry(r.i, r.u, r.buf, r.want[r.u])
           \/ Faults /\ UNCHANGED file
        /\ GotoSync(s, [y[s] EXCEPT !.want[r.u] = 0, !.buf = NoEntries, !.pc = "flush"])
        /\ UNCHANGED <<user, lastId, client, owner, run, h, pending, booted, grpc, reqs, events>>

SyncFlushed(s) ==
    /\ y[s].pc = "flush"
    /\ \A u \in Users : y[s].want[u] = 0
    /\ GotoSync(s, [y[s] EXCEPT !.pc = "list"])
    /\ UNCHANGED <<user, lastId, client, owner, file, run, h, pending, booted, grpc, reqs, events>>

SyncListDone(s) ==
    /\ y[s].pc = "list"
    /\ y[s].todo = {}
    /\ SyncReturn(s)
    /\ UNCHANGED <<user, lastId, client, owner, file, run, h, pending, reqs, events, grpc>>

-----------------------------------------------------------------------------
(* RestoreOnStartup, after the first Sync and before the listener.         *)

RestoreList(s, i) ==
    /\ y[s].pc = "restore"
    /\ i \in y[s].todo
    /\ GotoSync(s, [y[s] EXCEPT !.i = i, !.todo = @ \ {i},
                      !.want = ListUserClientsByInboundTag(i), !.pc = "restoring"])
    /\ UNCHANGED <<user, lastId, client, owner, file, run, h, pending, booted, grpc, reqs, events>>

RestoreUser(s, u) ==
    LET r == y[s]
    IN  /\ r.pc = "restoring"
        /\ r.want[u] # 0
        /\ AddUserRPC(r.i, u, r.want[u])
        /\ GotoSync(s, [y[s] EXCEPT !.want[u] = 0])
        /\ UNCHANGED <<user, lastId, client, owner, file, h, pending, booted, grpc, reqs, events>>

RestoreNext(s) ==
    /\ y[s].pc = "restoring"
    /\ \A u \in Users : y[s].want[u] = 0
    /\ GotoSync(s, [y[s] EXCEPT !.pc = "restore"])
    /\ UNCHANGED <<user, lastId, client, owner, file, run, h, pending, booted, grpc, reqs, events>>

RestoreDone(s) ==
    /\ y[s].pc = "restore"
    /\ y[s].todo = {}
    /\ GotoSync(s, IdleSync)
    /\ booted' = TRUE
    /\ UNCHANGED <<user, lastId, client, owner, file, run, h, pending, reqs, events, grpc>>

SyncStep(s) ==
    \/ \E i \in Inbounds :
         \/ SyncList(s, i) \/ RestoreList(s, i)
         \/ \E u \in Users : SyncLookup(s, i, u)
    \/ \E u \in Users : SyncRead(s, u) \/ RestoreUser(s, u)
    \/ SyncCreateUser(s) \/ SyncLink(s) \/ SyncEntriesDone(s)
    \/ SyncIdents(s) \/ SyncWrite(s) \/ SyncFlushed(s) \/ SyncListDone(s)
    \/ RestoreNext(s) \/ RestoreDone(s)

-----------------------------------------------------------------------------
(* The environment.                                                        *)

Happens == events < MaxEvents /\ events' = events + 1

(* Xray restarts: it knows what config.d holds, and nothing else.          *)
XrayRestart ==
    /\ Happens
    /\ run' = [i \in Inbounds |-> [u \in Users |->
                 IF file[i][u] = <<>> THEN 0 ELSE Head(file[i][u])]]
    /\ UNCHANGED <<user, lastId, client, owner, file, h, y, pending, booted, reqs, grpc>>

(* The operator adds a client to a file by hand.                           *)
EditConfig(i, u) ==
    /\ Happens
    /\ file[i][u] = <<>>
    /\ owner' = Append(owner, u)
    /\ file' = [file EXCEPT ![i][u] = Append(@, Len(owner) + 1)]
    /\ UNCHANGED <<user, lastId, client, run, h, y, pending, booted, reqs, grpc>>

(* The server dies between any two steps; main starts with a Sync.         *)
Crash(s) ==
    /\ Happens
    /\ h' = [p \in Handlers |-> IdleHandler]
    /\ y' = [t \in Syncs |-> IF t = s
               THEN [IdleSync EXCEPT !.pc = "entries", !.snap = file, !.boot = TRUE]
               ELSE IdleSync]
    /\ pending' = 0
    /\ booted' = FALSE
    /\ UNCHANGED <<user, lastId, client, owner, file, run, reqs, grpc>>

Next ==
    \/ \E p \in Handlers : Handler(p)
    \/ \E s \in Syncs : SyncStart(s) \/ SyncStep(s) \/ Crash(s)
    \/ XrayRestart
    \/ \E i \in Inbounds, u \in Edited : EditConfig(i, u)

Spec == Init /\ [][Next]_vars

(* A handler and a Sync that run go on to their end, and the ticker keeps  *)
(* starting Syncs.  Nobody has to send a request.                          *)
Fairness ==
    /\ \A p \in Handlers : WF_vars(h[p].pc # "idle" /\ Handler(p))
    /\ WF_vars(\E s \in Syncs : SyncStart(s))
    /\ \A s \in Syncs : WF_vars(SyncStep(s))

FairSpec == Spec /\ Fairness

-----------------------------------------------------------------------------
(* Properties.                                                             *)

HandlerPC == {"idle", "check", "insert", "lookup", "update", "clients", "flag", "add",
              "upsert", "push", "append", "reappend", "remove", "scan", "erase", "delete"}
SyncPC == {"idle", "entries", "insert", "link", "list", "idents", "flush", "write",
           "restore", "restoring"}
Entries == [Users -> Seq(Nat)]
HandlerState == [pc : HandlerPC, op : AllOps, u : Users, id : Nat,
                 asked : SUBSET Inbounds, todo : SUBSET Inbounds, i : Inbounds,
                 creds : [Inbounds -> Nat], buf : Entries]
SyncState == [pc : SyncPC, snap : [Inbounds -> Entries], u : Users, i : Inbounds, id : Nat,
              todo : SUBSET Inbounds, want : [Users -> Nat], buf : Entries, boot : BOOLEAN]

(* Every variable keeps its type.                                          *)
TypeOK ==
    /\ grpc \in BOOLEAN
    /\ user \in [Users -> [id : Nat, enabled : BOOLEAN]]
    /\ lastId \in Nat
    /\ client \in [Users -> [Inbounds -> [cred : Nat, enabled : BOOLEAN]]]
    /\ owner \in Seq(Users)
    /\ file \in [Inbounds -> Entries]
    /\ run \in [Inbounds -> [Users -> Nat]]
    /\ h \in [Handlers -> HandlerState]
    /\ y \in [Syncs -> SyncState]
    /\ pending \in Nat
    /\ booted \in BOOLEAN
    /\ reqs \in Nat
    /\ events \in Nat

(* Row ids are handed out once, and a client row belongs to an account     *)
(* row: deleteUser's cascade and the foreign key leave no orphan behind.   *)
RowsInv ==
    /\ \A u \in Users : user[u].id <= lastId
    /\ \A u, v \in Users : user[u].id = user[v].id /\ user[u].id # 0 => u = v
    /\ \A u \in Users, i \in Inbounds : user[u].id = 0 => client[u][i] = NoClient

(* A handler or a Sync keeps the row id it looked up while others delete   *)
(* and create accounts.  Whatever it does with that id later, it can only  *)
(* ever hit the account it was sent for, never one created since under     *)
(* another name.                                                           *)
HeldIdsSafe ==
    /\ \A p \in Handlers, v \in Users : h[p].id # 0 /\ Has(v, h[p].id) => v = h[p].u
    /\ \A s \in Syncs, v \in Users : y[s].id # 0 /\ Has(v, y[s].id) => v = y[s].u

OwnedBy(c, u) == c = 0 \/ (c \in 1..Len(owner) /\ owner[c] = u)
EntriesOwned(e) == \A u \in Users : \A k \in 1..Len(e[u]) : e[u][k] # 0 /\ OwnedBy(e[u][k], u)

(* Nobody ever gets somebody else's credential: what a database row, a     *)
(* config.d entry or the running Xray holds for an identity was generated  *)
(* for that identity, however file copies and rows were overwritten.       *)
CredentialsOwned ==
    /\ \A u \in Users, i \in Inbounds : OwnedBy(client[u][i].cred, u) /\ OwnedBy(run[i][u], u)
    /\ \A i \in Inbounds : EntriesOwned(file[i])

(* The same for the copies handlers and Syncs carry: rows they read, files *)
(* they parsed, and the credential they are about to store.                *)
CarriedOwned ==
    /\ \A p \in Handlers :
         /\ \A i \in Inbounds : OwnedBy(h[p].creds[i], h[p].u)
         /\ EntriesOwned(h[p].buf)
         /\ h[p].pc \in {"append", "reappend"} => h[p].creds[h[p].i] # 0
         /\ h[p].pc \in {"push", "reappend"} => \A i \in h[p].todo : h[p].creds[i] # 0
         /\ h[p].pc = "flag" => h[p].todo = {h[p].i} /\ h[p].creds[h[p].i] # 0
         /\ h[p].pc \in {"lookup", "clients"} /\ h[p].op \in ClientOps => h[p].todo = {h[p].i}
    /\ \A s \in Syncs :
         /\ \A i \in Inbounds : EntriesOwned(y[s].snap[i])
         /\ \A u \in Users : OwnedBy(y[s].want[u], u)
         /\ EntriesOwned(y[s].buf)
         /\ y[s].pc = "write" => y[s].want[y[s].u] # 0

(* A Sync that looks an entry up still has it in front of it.              *)
EntryInv == \A s \in Syncs :
    y[s].pc \in {"insert", "link"} => y[s].snap[y[s].i][y[s].u] # <<>>

(* A request that is past its lookup holds a row id that was given out.    *)
HeldIdsGiven ==
    /\ \A p \in Handlers :
         /\ h[p].id <= lastId
         /\ h[p].pc \notin {"idle", "check", "insert", "lookup"} => h[p].id # 0
    /\ \A s \in Syncs :
         /\ y[s].id <= lastId
         /\ y[s].pc = "link" <=> y[s].id # 0

(* The statement that sets a flag is only reached by the requests that     *)
(* change that kind of flag.                                               *)
OpInv == \A p \in Handlers :
    /\ h[p].pc = "flag" => h[p].op \in ClientOps
    /\ h[p].pc = "update" => h[p].op \in {"enableUser", "disableUser"}

(* The inductive invariant behind HeldIdsSafe, and with the credentials.   *)
RowInv == TypeOK /\ EntryInv /\ RowsInv /\ HeldIdsGiven /\ HeldIdsSafe
IInv == RowInv /\ OpInv /\ CredentialsOwned /\ CarriedOwned

(* Sync and crashes leave the flags alone: a client row that is disabled   *)
(* stays disabled until the account is deleted or an enable or add request *)
(* for that very client is being served; likewise for a disabled account.  *)
DisabledStaysDisabled ==
    [][\A u \in Users :
         user'[u].id = user[u].id =>
           /\ (~user[u].enabled /\ user'[u].enabled) =>
                \E p \in Handlers : h[p].u = u /\ h[p].op = "enableUser"
           /\ \A i \in Inbounds :
                (client[u][i].cred # 0 /\ ~client[u][i].enabled /\ client'[u][i].enabled) =>
                  \E p \in Handlers : h[p].u = u /\ h[p].i = i
                                      /\ h[p].op \in {"addClient", "enableClient"}]_vars

(* One request at a time, no faults, gRPC: when everything is done, every  *)
(* enabled client of an enabled account is known to the running Xray under *)
(* its database credential, a disabled client is neither there nor in      *)
(* config.d, and config.d holds at most one entry per identity.            *)
RestAgreement ==
    grpc /\ AtRest => \A u \in Users, i \in Inbounds :
      LET c == client[u][i]
      IN  /\ (user[u].enabled /\ c.enabled) => run[i][u] = c.cred
          /\ ~c.enabled => run[i][u] = 0 /\ file[i][u] = <<>>
          /\ file[i][u] \in {<<>>, <<c.cred>>}

(* The hypotheses of RestAgreement.  Deleting an account is left out: its  *)
(* own Sync overlaps it.                                                   *)
Serial == /\ Overlap = FALSE /\ Faults = FALSE /\ MaxEvents = 0
          /\ "deleteUser" \notin Ops

(* The same without xray_api_addr: at rest an enabled client of an enabled *)
(* account is in config.d under its database credential alone, and a       *)
(* disabled or missing client is not there.  Of the enabled clients of a   *)
(* disabled account nothing is said: addUserClient and setClientEnabled    *)
(* write them without looking at the account's flag.                       *)
FileAgreement ==
    ~grpc /\ AtRest => \A u \in Users, i \in Inbounds :
      LET c == client[u][i]
      IN  /\ (user[u].enabled /\ c.enabled) =>
               file[i][u] # <<>> /\ \A k \in 1..Len(file[i][u]) : file[i][u][k] = c.cred
          /\ ~c.enabled => file[i][u] = <<>>

(* The hypotheses of FileAgreement.  Deleting an account is included: its  *)
(* own Sync overlaps it too, but only imports what the files still hold.   *)
FileSerial == Overlap = FALSE /\ Faults = FALSE /\ MaxEvents = 0

(* Periodic Syncs persist API-created clients: a client that stays enabled *)
(* is eventually in config.d for good, whatever writes were lost before.   *)
Persisted ==
    \A u \in Users, i \in Inbounds :
      <>[](user[u].enabled /\ client[u][i].enabled) => <>[](file[i][u] # <<>>)

(* docs/INSTALL.md on a deleted user that is listed again: "Current        *)
(* versions also remove the client from the on-disk inbound JSON when      *)
(* deleting a user."  With nobody else editing config.d, an account comes  *)
(* into being only through createUser.                                     *)
OnlyAdminCreates ==
    [][\A u \in Users : user[u].id = 0 /\ user'[u].id # 0 =>
         \E p \in Handlers : h[p].pc = "insert" /\ h[p].u = u]_vars

(* README on "Disable user": "enabled=false", "Remove from inbound".       *)
DisabledAccountOut ==
    AtRest => \A u \in Users, i \in Inbounds :
      (user[u].id # 0 /\ ~user[u].enabled) => run[i][u] = 0
=============================================================================
