------------------------------ MODULE Inbounds ------------------------------
(***************************************************************************)
(* The rows of the inbounds table and how Syncs keep them in step with     *)
(* config.d (syncer.go, parser.go, database.go), while an operator moves   *)
(* inbounds between files, breaks files and deletes them, and while admins *)
(* switch one client of each inbound on and off.                           *)
(*                                                                         *)
(* A file is its JSON, if it has one: the inbound tags in it and those     *)
(* whose client list names the account; how often it is named is left to   *)
(* module Provision, as are accounts, credentials and Xray's runtime.      *)
(* xray_api_addr is set, so that a Sync also writes clients back to files. *)
(***************************************************************************)
EXTENDS Naturals, FiniteSets

CONSTANTS NFiles,       \* the .json files of config.d, in directory order
          Tags,
          ApiTags,      \* api_user_inbound_tag, if its protocol is set too
          Syncs,        \* Syncs that may run at the same time
          Edits,        \* what an operator saves, see Contents
          MaxEvents     \* bound on edits, admin requests and failures together

ASSUME FilesAssumption == NFiles \in Nat \ {0}
ASSUME TagsAssumption == ApiTags \subseteq Tags /\ Tags # {}
ASSUME SyncsAssumption == Syncs # {}
ASSUME BoundAssumption == MaxEvents \in Nat

Files == 1..NFiles
NoRow == 0                  \* config_file of a row that does not exist
ApiManaged == NFiles + 1    \* config_file "api-managed"

(* A file that is gone or does not parse, which nobody tells apart.        *)
Unread == [form |-> "none", tags |-> {}, users |-> {}]
Json(T, U) == [form |-> "json", tags |-> T, users |-> U]
Contents == {Unread} \cup {Json(T, U) : T \in SUBSET Tags, U \in SUBSET Tags}

ASSUME EditsAssumption == Edits \subseteq Contents

VARIABLES
    file,       \* config.d
    row,        \* inbounds: config_file, and whether raw_config names the client
    client,     \* user_clients of the account: "none", "on" or "off"
    s,          \* the Syncs
    h,          \* an admin request
    status,     \* the last record: ok, and nobody else has changed anything since
    quiet,      \* history: Syncs with no failing query from ListInbounds on, since when
                \* nobody else changed anything
    doubt,      \* history: Syncs that import, and did when an inbound was not in its row's file
    events      \* edits, requests and failures so far

stores == <<file, row, client>>
rowVars == <<file, row, client, s, h, status, quiet, doubt, events>>

IdleSync == [pc |-> "idle", k |-> 1, snap |-> [f \in Files |-> Unread], f |-> 1,
             stale |-> {}, tags |-> {}, named |-> {}, t |-> CHOOSE t \in Tags : TRUE,
             buf |-> Unread, ok |-> TRUE]
IdleAdmin == [pc |-> "idle", t |-> CHOOSE t \in Tags : TRUE, f |-> 1, buf |-> Unread,
              x |-> CHOOSE x \in Syncs : TRUE]

RowsInit ==
    /\ file = [f \in Files |-> IF f = 1 THEN Json(Tags, Tags) ELSE Json({}, {})]
    /\ row = [t \in Tags |-> [at |-> NoRow, raw |-> FALSE]]
    /\ client = [t \in Tags |-> "none"]
    /\ s = [x \in Syncs |-> IdleSync]
    /\ h = IdleAdmin
    /\ status = [ok |-> TRUE, fresh |-> FALSE]
    /\ quiet = {}
    /\ doubt = [t \in Tags |-> {}]
    /\ events = 0

-----------------------------------------------------------------------------
(* Who looks into config.d.                                                *)

Parsed(f) == IF file[f].form = "json" THEN file[f] ELSE Unread
Holding(t) == {f \in Files : file[f].form = "json" /\ t \in file[f].tags}

(* findInboundSettings takes the first file of the directory that has the  *)
(* tag; GetInboundByTag and GetExistingIdentitiesInInbound take any.       *)
FirstHolding(t) == CHOOSE f \in Holding(t) : \A g \in Holding(t) : f <= g

HasRow(t) == row[t].at # NoRow

-----------------------------------------------------------------------------
(* History.                                                                *)

Running == {x \in Syncs : s[x].pc # "idle"}

(* Syncs that may still delete rows.                                       *)
Importing == {x \in Syncs : s[x].pc \in {"api", "parse", "visit", "client"}}

(* The inbound is where its row says, or nobody can tell.                  *)
InPlace(t) == row[t].at \in Files => (file[row[t].at].form = "json" => t \in file[row[t].at].tags)

Doubt ==
    doubt' = [t \in Tags |->
        IF ~InPlace(t)' \/ row[t].at # row'[t].at THEN Importing'
        ELSE doubt[t] \cap Importing']

(* A step of who, a Sync or somebody else; it may have changed the stores. *)
Observed(who) ==
    /\ Doubt
    /\ IF stores' = stores THEN UNCHANGED quiet ELSE quiet' = quiet \cap who

Moved(who) == Observed(who) /\ status' = [status EXCEPT !.fresh = @ /\ stores' = stores]

Happens == events < MaxEvents /\ events' = events + 1

(* A statement or a file system call fails, or the server does.            *)
Fault == Happens

-----------------------------------------------------------------------------
(* Sync.                                                                   *)

Go(x, r) == s' = [s EXCEPT ![x] = r] /\ UNCHANGED h

(* Sync returns; addUserToInbound goes on after its own.                   *)
Return(x) ==
    /\ s' = [s EXCEPT ![x] = IdleSync]
    /\ h' = IF h.pc = "wait" /\ h.x = x THEN [h EXCEPT !.pc = "again", !.x = IdleAdmin.x] ELSE h

(* The ticker, the watcher, a request in the background or one that waits  *)
(* for it calls Sync.  The row of api_user_inbound_tag is looked up first. *)
SyncStart(x) ==
    /\ s[x].pc = "idle"
    /\ s' = [s EXCEPT ![x].pc = IF \E t \in ApiTags : ~HasRow(t) THEN "api" ELSE "parse"]
    /\ \/ UNCHANGED h
       \/ h.pc = "sync" /\ h' = [h EXCEPT !.pc = "wait", !.x = x]
    /\ UNCHANGED <<stores, events>>
    /\ Moved({x})

CreateApiRow(x) ==
    /\ s[x].pc = "api"
    /\ Go(x, [s[x] EXCEPT !.pc = "parse"])
    /\ \/ /\ row' = [t \in Tags |-> IF t \in ApiTags THEN [at |-> ApiManaged, raw |-> FALSE] ELSE row[t]]
          /\ UNCHANGED <<file, client, events>>
       \/ Fault /\ UNCHANGED stores
    /\ Moved({x})

(* Mutant: a file that cannot be parsed counts as one without inbounds.    *)
ParseAsEmpty(x) ==
    LET snap == [s[x].snap EXCEPT ![s[x].k] = Json(file[s[x].k].tags, file[s[x].k].users)]
    IN  /\ s[x].pc = "parse"
        /\ Go(x, IF s[x].k < NFiles
                 THEN [s[x] EXCEPT !.snap = snap, !.k = @ + 1]
                 ELSE [s[x] EXCEPT !.snap = snap, !.k = 1, !.pc = "visit"])
        /\ UNCHANGED <<stores, events>>
        /\ Moved({x})

(* parseConfigDirWith reads one file after the other and leaves out those  *)
(* that are gone or do not parse.                                          *)
Parse(x) ==
    LET snap == [s[x].snap EXCEPT ![s[x].k] = Parsed(s[x].k)]
    IN  /\ s[x].pc = "parse"
        /\ Go(x, IF s[x].k < NFiles
                 THEN [s[x] EXCEPT !.snap = snap, !.k = @ + 1]
                 ELSE [s[x] EXCEPT !.snap = snap, !.k = 1, !.pc = "visit"])
        /\ UNCHANGED <<stores, events>>
        /\ Moved({x})

(* ReadDir fails: the Sync is over and nothing is recorded.                *)
ParseFails(x) ==
    /\ s[x].pc = "parse" /\ s[x].k = 1
    /\ Return(x)
    /\ Fault
    /\ UNCHANGED stores
    /\ Moved({x})

(* The file under visit is done; the files that are left.                  *)
Visited(x) == s[x].pc = "visit" /\ s[x].stale = {} /\ s[x].tags = {}
ToVisit(x) == {f \in Files : s[x].snap[f].form = "json"}

(* Mutant: rows that the file has lost stay.                               *)
VisitKeepsStale(x, f) ==
    /\ Visited(x) /\ f \in ToVisit(x)
    /\ Go(x, [s[x] EXCEPT !.snap[f] = Unread, !.f = f, !.tags = s[x].snap[f].tags,
                          !.named = s[x].snap[f].users])
    /\ UNCHANGED <<stores, events>>
    /\ Moved({x})

(* The parsed files come in the order of a Go map.  GetInboundTagsNotInFile *)
(* finds the rows that the file has lost, or none when the query fails.    *)
Visit(x, f) ==
    LET there == s[x].snap[f].tags
        visit(lost) == Go(x, [s[x] EXCEPT !.snap[f] = Unread, !.f = f, !.tags = there,
                                          !.named = s[x].snap[f].users, !.stale = lost])
    IN  /\ Visited(x) /\ f \in ToVisit(x)
        /\ \/ visit({t \in Tags : row[t].at = f /\ t \notin there}) /\ UNCHANGED events
           \/ visit({}) /\ Fault
        /\ UNCHANGED stores
        /\ Moved({x})

(* Mutant: the client rows of a deleted inbound stay.                      *)
DeleteNoCascade(x, t) ==
    /\ s[x].pc = "visit" /\ t \in s[x].stale
    /\ Go(x, [s[x] EXCEPT !.stale = @ \ {t}])
    /\ \/ /\ row' = [row EXCEPT ![t] = [at |-> NoRow, raw |-> FALSE]]
          /\ UNCHANGED <<file, client, events>>
       \/ Fault /\ UNCHANGED stores
    /\ Moved({x})

(* DeleteInboundByTag, wherever the row belongs by now; its client rows go *)
(* with it.  Of the Syncs that have upserted the row, those that know its  *)
(* id already fail on the foreign key: ids are not used again.             *)
DeleteInbound(x, t) ==
    LET upserted == {y \in Syncs \ {x} : s[y].pc = "client" /\ s[y].t = t}
        done == [s EXCEPT ![x].stale = @ \ {t}]
    IN  /\ s[x].pc = "visit" /\ t \in s[x].stale
        /\ \/ /\ row' = [row EXCEPT ![t] = [at |-> NoRow, raw |-> FALSE]]
              /\ client' = [client EXCEPT ![t] = "none"]
              /\ \E Y \in SUBSET upserted :
                   s' = [y \in Syncs |-> IF y \in Y THEN [s[y] EXCEPT !.pc = "visit"] ELSE done[y]]
              /\ UNCHANGED <<file, events>>
           \/ s' = done /\ Fault /\ UNCHANGED stores
        /\ UNCHANGED h
        /\ Moved({x})

(* The first statement of UpsertInbound.                                   *)
UpsertInbound(x, t) ==
    LET named == t \in s[x].named
        done == [s[x] EXCEPT !.tags = @ \ {t}, !.named = @ \ {t}]
    IN  /\ s[x].pc = "visit" /\ s[x].stale = {} /\ t \in s[x].tags
        /\ \/ /\ row' = [row EXCEPT ![t] = [at |-> s[x].f, raw |-> named]]
              /\ Go(x, IF named THEN [done EXCEPT !.pc = "client", !.t = t] ELSE done)
              /\ UNCHANGED <<file, client, events>>
           \/ Go(x, done) /\ Fault /\ UNCHANGED stores
        /\ Moved({x})

(* The id of the row is selected, unless the row is gone again, and        *)
(* syncClient inserts the client row enabled; an older one keeps its flag. *)
SyncClient(x) ==
    LET t == s[x].t
    IN  /\ s[x].pc = "client"
        /\ Go(x, [s[x] EXCEPT !.pc = "visit"])
        /\ \/ /\ client' = [client EXCEPT ![t] = IF HasRow(t) /\ @ = "none" THEN "on" ELSE @]
              /\ UNCHANGED <<file, row, events>>
           \/ Fault /\ UNCHANGED stores
        /\ Moved({x})

(* Mutant: a Sync that imports only.                                       *)
ListNone(x) ==
    /\ Visited(x) /\ ToVisit(x) = {}
    /\ Go(x, [s[x] EXCEPT !.pc = "list", !.f = 1])
    /\ UNCHANGED <<stores, events>>
    /\ Doubt
    /\ quiet' = quiet \cup {x}
    /\ UNCHANGED status

(* ListInbounds, for the way back.  A query that fails here or in the next *)
(* step counts as an empty list, and the Sync reports no error.            *)
ListInbounds(x) ==
    LET list(T) == Go(x, [s[x] EXCEPT !.pc = "list", !.tags = T, !.f = 1])
    IN  /\ Visited(x) /\ ToVisit(x) = {}
        /\ \/ list({t \in Tags : HasRow(t)}) /\ quiet' = quiet \cup {x} /\ UNCHANGED events
           \/ list({}) /\ Fault /\ UNCHANGED quiet
        /\ UNCHANGED <<stores, status>>
        /\ Doubt

(* ListUserClientsByInboundTag: an inbound without enabled clients is done.*)
ListClients(x, t) ==
    LET done == [s[x] EXCEPT !.tags = @ \ {t}]
    IN  /\ s[x].pc = "list" /\ t \in s[x].tags
        /\ \/ /\ Go(x, IF client[t] = "on" THEN [done EXCEPT !.t = t, !.pc = "idents"] ELSE done)
              /\ UNCHANGED <<events, quiet>>
           \/ Go(x, done) /\ Fault /\ quiet' = quiet \ {x}
        /\ UNCHANGED <<stores, status>>
        /\ Doubt

(* The client could not be written: the Sync records it and goes on.       *)
NotWritten(x) == Go(x, [s[x] EXCEPT !.pc = "list", !.f = 1, !.buf = Unread, !.ok = FALSE])

(* GetExistingIdentitiesInInbound: is the client missing?                  *)
Idents(x) ==
    LET t == s[x].t
    IN  /\ s[x].pc = "idents"
        /\ \/ /\ UNCHANGED events
              /\ \E f \in Holding(t) :
                   Go(x, [s[x] EXCEPT !.pc = IF t \in file[f].users THEN "list" ELSE "find"])
           \/ Holding(t) = {} /\ NotWritten(x) /\ UNCHANGED events
           \/ NotWritten(x) /\ Fault
        /\ UNCHANGED stores
        /\ Moved({x})

(* findInboundSettings.                                                    *)
Find(x) ==
    LET t == s[x].t
    IN  /\ s[x].pc = "find"
        /\ \/ /\ Holding(t) # {} /\ UNCHANGED events
              /\ Go(x, [s[x] EXCEPT !.pc = "read", !.f = FirstHolding(t)])
           \/ Holding(t) = {} /\ NotWritten(x) /\ UNCHANGED events
           \/ NotWritten(x) /\ Fault
        /\ UNCHANGED stores
        /\ Moved({x})

(* addClientToFile reads the file that was found, and appends the client   *)
(* to the copy if the inbound is still there.                              *)
ReadCopy(x) ==
    LET f == s[x].f
    IN  /\ s[x].pc = "read"
        /\ \/ /\ f \in Holding(s[x].t) /\ UNCHANGED events
              /\ Go(x, [s[x] EXCEPT !.pc = "write", !.buf = file[f]])
           \/ f \notin Holding(s[x].t) /\ NotWritten(x) /\ UNCHANGED events
           \/ NotWritten(x) /\ Fault
        /\ UNCHANGED stores
        /\ Moved({x})

(* Mutant: a write that fails is logged and not counted.                   *)
WriteBackNotCounted(x) ==
    /\ s[x].pc = "write"
    /\ Go(x, [s[x] EXCEPT !.pc = "list", !.f = 1, !.buf = Unread])
    /\ \/ /\ file' = [file EXCEPT ![s[x].f] = [s[x].buf EXCEPT !.users = @ \cup {s[x].t}]]
          /\ UNCHANGED <<row, client, events>>
       \/ Fault /\ UNCHANGED stores
    /\ Moved({x})

(* The copy replaces the file, whatever has become of it meanwhile.        *)
WriteBack(x) ==
    /\ s[x].pc = "write"
    /\ \/ /\ file' = [file EXCEPT ![s[x].f] = [s[x].buf EXCEPT !.users = @ \cup {s[x].t}]]
          /\ Go(x, [s[x] EXCEPT !.pc = "list", !.f = 1, !.buf = Unread])
          /\ UNCHANGED <<row, client, events>>
       \/ NotWritten(x) /\ Fault /\ UNCHANGED stores
    /\ Moved({x})

Record(x) ==
    /\ s[x].pc = "list" /\ s[x].tags = {}
    /\ Return(x)
    /\ status' = [ok |-> s[x].ok, fresh |-> x \in quiet]
    /\ quiet' = quiet \ {x}
    /\ UNCHANGED <<stores, events>>
    /\ Doubt

SyncStep(x) ==
    \/ CreateApiRow(x) \/ Parse(x) \/ ParseFails(x)
    \/ \E f \in Files : Visit(x, f)
    \/ \E t \in Tags : DeleteInbound(x, t) \/ UpsertInbound(x, t) \/ ListClients(x, t)
    \/ SyncClient(x) \/ ListInbounds(x)
    \/ Idents(x) \/ Find(x) \/ ReadCopy(x) \/ WriteBack(x) \/ Record(x)

-----------------------------------------------------------------------------
(* Admin requests, one at a time; module Provision has all their steps.    *)

Admin(r) == h' = r /\ UNCHANGED s

(* enableUserClient: over gRPC no file is touched.                         *)
EnableClient(t) ==
    /\ h.pc = "idle" /\ client[t] = "off"
    /\ Happens
    /\ client' = [client EXCEPT ![t] = "on"]
    /\ UNCHANGED <<file, row, s, h>>
    /\ Moved({})

(* disableUserClient: SetUserClientEnabled, then RemoveUserFromInbound.    *)
DisableClient(t) ==
    /\ h.pc = "idle" /\ client[t] = "on"
    /\ Happens
    /\ client' = [client EXCEPT ![t] = "off"]
    /\ Admin([IdleAdmin EXCEPT !.pc = "remove", !.t = t])
    /\ UNCHANGED <<file, row>>
    /\ Moved({})

(* removeClientFromFile has nothing to write if the client is not there.   *)
RemoveRead ==
    LET f == FirstHolding(h.t)
    IN  /\ h.pc = "remove"
        /\ Admin(IF Holding(h.t) # {} /\ h.t \in file[f].users
                 THEN [h EXCEPT !.pc = "save", !.f = f, !.buf = file[f]]
                 ELSE IdleAdmin)
        /\ UNCHANGED <<stores, events>>
        /\ Moved({})

RemoveSave ==
    /\ h.pc = "save"
    /\ Admin(IdleAdmin)
    /\ \/ /\ file' = [file EXCEPT ![h.f] = [h.buf EXCEPT !.users = @ \ {h.t}]]
          /\ UNCHANGED <<row, client, events>>
       \/ Fault /\ UNCHANGED stores
    /\ Moved({})

(* addUserToInbound, once Xray has the client: the row is looked for, a    *)
(* Sync is run and the row is looked for again, then it is made from the   *)
(* file that has the tag, or as "api-managed" if a protocol is known.      *)
Enroll(t) ==
    /\ h.pc = "idle" /\ client[t] = "none"
    /\ Happens
    /\ IF HasRow(t) THEN client' = [client EXCEPT ![t] = "on"] /\ Admin(IdleAdmin)
       ELSE UNCHANGED client /\ Admin([IdleAdmin EXCEPT !.pc = "sync", !.t = t])
    /\ UNCHANGED <<file, row>>
    /\ Moved({})

EnrollAgain ==
    LET t == h.t
        linked == client' = [client EXCEPT ![t] = IF @ = "none" THEN "on" ELSE @]
        made(at, raw) == row' = [row EXCEPT ![t] = [at |-> at, raw |-> raw]]
    IN  /\ h.pc = "again"
        /\ Admin(IdleAdmin)
        /\ \/ HasRow(t) /\ linked /\ UNCHANGED row
           \/ ~HasRow(t) /\ \E f \in Holding(t) : made(f, t \in file[f].users) /\ linked
           \/ ~HasRow(t) /\ Holding(t) = {} /\ made(ApiManaged, FALSE) /\ linked
           \/ ~HasRow(t) /\ Holding(t) = {} /\ UNCHANGED <<row, client>>
        /\ UNCHANGED <<file, events>>
        /\ Moved({})

-----------------------------------------------------------------------------
(* The rest of the world.                                                  *)

(* The operator saves, breaks or deletes a file.                           *)
EditFile(f, c) ==
    /\ Happens
    /\ c # file[f]
    /\ file' = [file EXCEPT ![f] = c]
    /\ UNCHANGED <<row, client, s, h>>
    /\ Moved({})

ServerCrash ==
    /\ Fault
    /\ s' = [x \in Syncs |-> IdleSync]
    /\ h' = IdleAdmin
    /\ status' = [ok |-> FALSE, fresh |-> FALSE]
    /\ quiet' = {}
    /\ UNCHANGED stores
    /\ Doubt

Handler == RemoveRead \/ RemoveSave \/ EnrollAgain

RowsNext ==
    \/ \E x \in Syncs : SyncStart(x) \/ SyncStep(x)
    \/ \E t \in Tags : EnableClient(t) \/ DisableClient(t) \/ Enroll(t)
    \/ Handler
    \/ \E f \in Files, c \in Edits : EditFile(f, c)
    \/ ServerCrash

RowsSpec == RowsInit /\ [][RowsNext]_rowVars

-----------------------------------------------------------------------------
(* Properties.                                                             *)

(* Every variable keeps its type.                                          *)
RowsTypeOK ==
    /\ file \in [Files -> Contents]
    /\ row \in [Tags -> [at : 0..ApiManaged, raw : BOOLEAN]]
    /\ client \in [Tags -> {"none", "on", "off"}]
    /\ \A t \in Tags : client[t] # "none" => HasRow(t)
    /\ \A x \in Syncs : s[x].tags \cup s[x].named \cup s[x].stale \subseteq Tags
    /\ quiet \subseteq Running
    /\ doubt \in [Tags -> SUBSET Importing]

(* "Remove inbounds from this file that are no longer present": as long as *)
(* every Sync that still imports began after the inbound was put where its *)
(* row says, no Sync deletes the row, and the client row with its flag and *)
(* its credential stays, whatever happens to other files and in whichever  *)
(* order they are visited; a file that is broken or gone costs no row.     *)
InPlaceKept ==
    [][\A t \in Tags : HasRow(t) /\ InPlace(t) /\ doubt[t] = {} =>
         row'[t].at # NoRow /\ (client[t] # "none" => client'[t] # "none")]_rowVars

(* "those errors only surfaced in journalctl ... with no signal to the     *)
(* admin": when the last Sync reports ok, its queries went through and     *)
(* nobody has changed anything since it listed the inbounds, every enabled *)
(* client is in config.d.                                                  *)
StatusHonest ==
    status.fresh /\ status.ok =>
      \A t \in Tags : client[t] = "on" => \E f \in Holding(t) : t \in file[f].users

(* Every inbound of a readable file has a row that names a file it is in,  *)
(* with a raw_config like in that file, no readable file keeps a row of an *)
(* inbound it does not have, and api_user_inbound_tag has a row.           *)
RowsInStep ==
    \A t \in Tags :
      /\ Holding(t) # {} => row[t].at \in Holding(t)
      /\ row[t].at \in Files =>
           /\ InPlace(t)
           /\ row[t].at \in Holding(t) => row[t].raw = (t \in file[row[t].at].users)
      /\ t \in ApiTags => HasRow(t)
=============================================================================
