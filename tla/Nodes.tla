------------------------------- MODULE Nodes --------------------------------
(***************************************************************************)
(* Multi-node mode: the fan-out of internal/xray/fanout.go over the nodes  *)
(* of the configuration, the placement of users on nodes, and the          *)
(* reconcile loop of internal/api/nodes.go.                                *)
(*                                                                         *)
(* All nodes serve one inbound, in which an account has one client.  Every *)
(* SQL statement and every RPC is a step; requests and the loop share no   *)
(* lock.  Remote nodes have no config.d here, so Syncs play no part.       *)
(***************************************************************************)
EXTENDS Naturals

CONSTANTS Users,      \* identities (username = email)
          Nodes,      \* node names
          Enrolled,   \* who has an account from before, at most one
          Handlers,   \* concurrent admin requests
          Ops,        \* the requests admins send
          Named,      \* the lists of nodes createUser and setUserNodes give
          Configs,    \* the configurations: each node absent ("none"), "on" or "off"
          Overlap,    \* requests and reconcile passes may overlap
          Outages,    \* a node may be unreachable for a while
          MaxReqs,    \* bound on requests
          MaxEvents   \* bound on restarts and outages

AllOps == {"createUser", "deleteUser", "enableUser", "disableUser",
           "setUserNodes", "deleteUserNode"}

ASSUME OpsAssumption == Ops \subseteq AllOps
ASSUME EnrolledAssumption == Enrolled \subseteq Users /\ \A u, v \in Enrolled : u = v
ASSUME NamedAssumption == Named \subseteq SUBSET Nodes
ASSUME NodesAssumption == Nodes # {}
ASSUME ConfigsAssumption == Configs # {} /\ Configs \subseteq [Nodes -> {"none", "on", "off"}]
ASSUME ModeAssumption == Overlap \in BOOLEAN /\ Outages \in BOOLEAN
ASSUME BoundsAssumption == MaxReqs \in Nat /\ MaxEvents \in Nat

VARIABLES
    row,      \* nodes: "none", "on" (enabled) or "off"
    acct,     \* users and user_clients: row id, enabled, credential (0 = no client row)
    place,    \* user_nodes: the nodes each account is placed on
    lastId, lastCred,   \* the last row id and the last credential given
    have,     \* each node's runtime: the credential it accepts per identity
    up,       \* the nodes that can be reached
    h,        \* the request each handler serves
    loop,     \* the reconcile pass
    reqs, events

vars == <<row, acct, place, lastId, lastCred, have, up, h, loop, reqs, events>>

NoAccount == [id |-> 0, enabled |-> FALSE, cred |-> 0]
NoWant == [u \in Users |-> 0]
SomeUser == CHOOSE u \in Users : TRUE
SomeNode == CHOOSE n \in Nodes : TRUE
IdleHandler == [pc |-> "idle", op |-> "createUser", u |-> SomeUser, id |-> 0,
                names |-> {}, todo |-> {}, cred |-> 0]
IdleLoop == [pc |-> "idle", n |-> SomeNode, todo |-> {}, want |-> NoWant]

Enabled(conf) == {n \in Nodes : conf[n] = "on"}

(* The rows ReconcileNodes leaves for a configuration: every node of it    *)
(* gets a row, and one that is gone from it keeps its row, disabled.       *)
Reconciled(old, conf) ==
    [n \in Nodes |-> IF conf[n] # "none" THEN conf[n]
                     ELSE IF old[n] = "none" THEN "none" ELSE "off"]

(* An account from before has been placed on every enabled node.           *)
Init ==
    /\ \E conf \in Configs :
         /\ row = Reconciled([n \in Nodes |-> "none"], conf)
         /\ place = [u \in Users |-> IF u \in Enrolled THEN Enabled(conf) ELSE {}]
    /\ acct = [u \in Users |-> IF u \in Enrolled THEN [id |-> 1, enabled |-> TRUE, cred |-> 1]
                               ELSE NoAccount]
    /\ lastId = IF Enrolled = {} THEN 0 ELSE 1
    /\ lastCred = lastId
    /\ have = [n \in Nodes |-> [u \in Users |-> IF n \in place[u] THEN acct[u].cred ELSE 0]]
    /\ up = Nodes
    /\ h = [p \in Handlers |-> IdleHandler]
    /\ loop = IdleLoop
    /\ reqs = 0 /\ events = 0

HandlersIdle == \A p \in Handlers : h[p].pc = "idle"
AtRest == HandlersIdle /\ loop.pc = "idle"

-----------------------------------------------------------------------------
(* The database.                                                           *)

(* EnabledNodeIDs; the fan-out's targets are the same nodes, from the      *)
(* configuration the server was started with.                              *)
Targets == {n \in Nodes : row[n] = "on"}

SetUserEnabled(id, b) ==
    acct' = [u \in Users |-> IF acct[u].id = id THEN [acct[u] EXCEPT !.enabled = b] ELSE acct[u]]

UpsertUserClient(id, c) ==
    acct' = [u \in Users |-> IF acct[u].id = id THEN [acct[u] EXCEPT !.cred = c] ELSE acct[u]]

GetUserClients(id) ==
    IF \E u \in Users : acct[u].id = id THEN acct[CHOOSE u \in Users : acct[u].id = id].cred ELSE 0

(* One transaction; without the account its foreign keys fail.             *)
SetUserNodes(id, ns) ==
    place' = [u \in Users |-> IF acct[u].id = id THEN ns ELSE place[u]]

RemoveUserFromNode(id, n) ==
    place' = [u \in Users |-> IF acct[u].id = id THEN place[u] \ {n} ELSE place[u]]

(* user_nodes has no cascade.                                              *)
DeleteUserKeepsPlacement(id) ==
    /\ acct' = [u \in Users |-> IF acct[u].id = id THEN NoAccount ELSE acct[u]]
    /\ UNCHANGED place

(* The cascade takes the client and the placement along.                   *)
DeleteUser(id) ==
    /\ acct' = [u \in Users |-> IF acct[u].id = id THEN NoAccount ELSE acct[u]]
    /\ place' = [u \in Users |-> IF acct[u].id = id THEN {} ELSE place[u]]

(* Enabled users placed on the node who hold a credential; 0 = not wanted. *)
ListWantedClientsForNode(n) ==
    [u \in Users |-> IF n \in place[u] /\ acct[u].enabled THEN acct[u].cred ELSE 0]

(* Enabled nodes for whoever has no placement at all.                      *)
BackfillUserNodesToEnabled(ns) ==
    [u \in Users |-> IF acct[u].id # 0 /\ place[u] = {} THEN ns ELSE place[u]]

-----------------------------------------------------------------------------
(* A node's HandlerService (external): adding an identity that is there is *)
(* an error, removing one that is not is harmless.                         *)

CanAdd(n, u) == n \in up /\ have[n][u] = 0
AddUserRPC(n, u, c) == have' = IF CanAdd(n, u) THEN [have EXCEPT ![n][u] = c] ELSE have
RemoveUserRPC(n, u) == have' = IF n \in up THEN [have EXCEPT ![n][u] = 0] ELSE have

-----------------------------------------------------------------------------
(* The admin requests.                                                     *)

Goto(p, r) == h' = [h EXCEPT ![p] = r]
Finish(p) == Goto(p, IdleHandler)

(* Names that do not exist are refused with 400 before anything is done.   *)
Request(p, o, u, names) ==
    /\ h[p].pc = "idle"
    /\ Overlap \/ AtRest
    /\ reqs < MaxReqs
    /\ \A n \in names : row[n] # "none"
    /\ reqs' = reqs + 1
    /\ Goto(p, [IdleHandler EXCEPT !.pc = "account", !.op = o, !.u = u, !.names = names])
    /\ UNCHANGED <<row, acct, place, lastId, lastCred, have, up, loop, events>>

(* createUser inserts the row; a second one of the name is refused.        *)
InsertUser(p) ==
    LET u == h[p].u
    IN  /\ h[p].pc = "account" /\ h[p].op = "createUser"
        /\ IF acct[u].id = 0
           THEN /\ lastId' = lastId + 1
                /\ acct' = [acct EXCEPT ![u] = [id |-> lastId + 1, enabled |-> TRUE, cred |-> 0]]
                /\ Goto(p, [h[p] EXCEPT !.id = lastId + 1, !.todo = Targets, !.pc = "add"])
           ELSE Finish(p) /\ UNCHANGED <<lastId, acct>>
        /\ UNCHANGED <<row, place, lastCred, have, up, loop, reqs, events>>

GetByID(p) ==
    /\ h[p].pc = "account" /\ h[p].op # "createUser"
    /\ IF acct[h[p].u].id = 0 THEN Finish(p)
       ELSE Goto(p, [h[p] EXCEPT !.id = acct[h[p].u].id,
                     !.pc = CASE h[p].op \in {"setUserNodes", "deleteUserNode"} -> "place"
                              [] h[p].op = "deleteUser" -> "client"
                              [] OTHER -> "flag"])
    /\ UNCHANGED <<row, acct, place, lastId, lastCred, have, up, loop, reqs, events>>

Flag(p) ==
    /\ h[p].pc = "flag"
    /\ SetUserEnabled(h[p].id, h[p].op = "enableUser")
    /\ Goto(p, [h[p] EXCEPT !.pc = "client"])
    /\ UNCHANGED <<row, place, lastId, lastCred, have, up, loop, reqs, events>>

(* addUserToXray and removeUserFromXray: without a client nothing is sent. *)
ReadClient(p) ==
    LET c == GetUserClients(h[p].id)
    IN  /\ h[p].pc = "client"
        /\ Goto(p, [h[p] EXCEPT !.cred = c, !.todo = IF c = 0 THEN {} ELSE Targets,
                                !.pc = IF h[p].op = "enableUser" THEN "push" ELSE "remove"])
        /\ UNCHANGED <<row, acct, place, lastId, lastCred, have, up, loop, reqs, events>>

(* fanoutAdmin.AddClient on one node.  Each call makes up a credential of  *)
(* its own; the first that is accepted is the one to be stored.            *)
FanoutAddClient(p, n) ==
    LET u == h[p].u
        c == lastCred + 1
    IN  /\ h[p].pc = "add" /\ n \in h[p].todo
        /\ AddUserRPC(n, u, c)
        /\ lastCred' = c
        /\ Goto(p, [h[p] EXCEPT !.todo = @ \ {n},
                                !.cred = IF CanAdd(n, u) /\ @ = 0 THEN c ELSE @])
        /\ UNCHANGED <<row, acct, place, lastId, up, loop, reqs, events>>

(* An error on every node leaves the account without a client.             *)
StoreClient(p) ==
    /\ h[p].pc = "add" /\ h[p].todo = {}
    /\ IF h[p].cred = 0 THEN UNCHANGED acct ELSE UpsertUserClient(h[p].id, h[p].cred)
    /\ Goto(p, [h[p] EXCEPT !.pc = "place"])
    /\ UNCHANGED <<row, place, lastId, lastCred, have, up, loop, reqs, events>>

FanoutAddExistingClient(p, n) ==
    /\ h[p].pc = "push" /\ n \in h[p].todo
    /\ AddUserRPC(n, h[p].u, h[p].cred)
    /\ Goto(p, [h[p] EXCEPT !.todo = @ \ {n}])
    /\ UNCHANGED <<row, acct, place, lastId, lastCred, up, loop, reqs, events>>

(* Errors are logged; the caller goes on regardless.                       *)
FanoutRemoveClient(p, n) ==
    /\ h[p].pc = "remove" /\ n \in h[p].todo
    /\ RemoveUserRPC(n, h[p].u)
    /\ Goto(p, [h[p] EXCEPT !.todo = @ \ {n}])
    /\ UNCHANGED <<row, acct, place, lastId, lastCred, up, loop, reqs, events>>

FanoutDone(p) ==
    /\ h[p].pc \in {"push", "remove"} /\ h[p].todo = {}
    /\ IF h[p].op = "deleteUser" THEN Goto(p, [h[p] EXCEPT !.pc = "delete"]) ELSE Finish(p)
    /\ UNCHANGED <<row, acct, place, lastId, lastCred, have, up, loop, reqs, events>>

DeleteAccount(p) ==
    /\ h[p].pc = "delete"
    /\ DeleteUser(h[p].id)
    /\ Finish(p)
    /\ UNCHANGED <<row, lastId, lastCred, have, up, loop, reqs, events>>

(* placeUserOnNodes (all enabled nodes unless some were named),            *)
(* setUserNodes and deleteUserNode.                                        *)
Place(p) ==
    LET all == h[p].op = "createUser" /\ h[p].names = {}
    IN  /\ h[p].pc = "place"
        /\ IF h[p].op = "deleteUserNode"
           THEN \E n \in h[p].names : RemoveUserFromNode(h[p].id, n)
           ELSE SetUserNodes(h[p].id, IF all THEN Targets ELSE h[p].names)
        /\ Finish(p)
        /\ UNCHANGED <<row, acct, lastId, lastCred, have, up, loop, reqs, events>>

Handler(p) ==
    \/ \E o \in Ops, u \in Users :
         \/ o \in {"createUser", "setUserNodes"} /\ \E ns \in Named : Request(p, o, u, ns)
         \/ o = "deleteUserNode" /\ \E n \in Nodes : Request(p, o, u, {n})
         \/ o \in {"deleteUser", "enableUser", "disableUser"} /\ Request(p, o, u, {})
    \/ InsertUser(p) \/ GetByID(p) \/ Flag(p) \/ ReadClient(p) \/ StoreClient(p)
    \/ FanoutDone(p) \/ DeleteAccount(p) \/ Place(p)
    \/ \E n \in Nodes :
         FanoutAddClient(p, n) \/ FanoutAddExistingClient(p, n) \/ FanoutRemoveClient(p, n)

-----------------------------------------------------------------------------
(* The reconcile loop.                                                     *)

ReconcileNodesOnce ==
    /\ loop.pc = "idle"
    /\ Overlap \/ AtRest
    /\ loop' = [IdleLoop EXCEPT !.pc = "next", !.todo = Targets]
    /\ UNCHANGED <<row, acct, place, lastId, lastCred, have, up, h, reqs, events>>

(* reconcileOneNode: what the database wants on the node ...               *)
ReadWant(n) ==
    /\ loop.pc = "next" /\ n \in loop.todo
    /\ loop' = [loop EXCEPT !.pc = "have", !.n = n, !.todo = @ \ {n},
                            !.want = ListWantedClientsForNode(n)]
    /\ UNCHANGED <<row, acct, place, lastId, lastCred, have, up, h, reqs, events>>

(* ... what the node has; one that cannot be reached is left to the next   *)
(* pass.  clientsToAdd keeps the identities that are missing.              *)
ReadHave ==
    /\ loop.pc = "have"
    /\ loop' = IF loop.n \in up
               THEN [loop EXCEPT !.pc = "add",
                       !.want = [u \in Users |-> IF have[loop.n][u] = 0 THEN @[u] ELSE 0]]
               ELSE [loop EXCEPT !.pc = "next", !.want = NoWant]
    /\ UNCHANGED <<row, acct, place, lastId, lastCred, have, up, h, reqs, events>>

(* The missing identities are only counted.                                *)
CountMissing(u) ==
    /\ loop.pc = "add" /\ loop.want[u] # 0
    /\ loop' = [loop EXCEPT !.want[u] = 0]
    /\ UNCHANGED <<row, acct, place, lastId, lastCred, have, up, h, reqs, events>>

AddMissing(u) ==
    /\ loop.pc = "add" /\ loop.want[u] # 0
    /\ AddUserRPC(loop.n, u, loop.want[u])
    /\ loop' = [loop EXCEPT !.want[u] = 0]
    /\ UNCHANGED <<row, acct, place, lastId, lastCred, up, h, reqs, events>>

NodeDone ==
    /\ loop.pc = "add" /\ loop.want = NoWant
    /\ loop' = [loop EXCEPT !.pc = "next"]
    /\ UNCHANGED <<row, acct, place, lastId, lastCred, have, up, h, reqs, events>>

PassDone ==
    /\ loop.pc = "next" /\ loop.todo = {}
    /\ loop' = IdleLoop
    /\ UNCHANGED <<row, acct, place, lastId, lastCred, have, up, h, reqs, events>>

Reconcile ==
    \/ ReconcileNodesOnce \/ ReadHave \/ NodeDone \/ PassDone
    \/ \E n \in Nodes : ReadWant(n)
    \/ \E u \in Users : AddMissing(u)

-----------------------------------------------------------------------------
(* The environment.                                                        *)

Happens == events < MaxEvents /\ events' = events + 1

(* gRPC-added users are in a node's memory only.                           *)
NodeRestart(n) ==
    /\ Happens
    /\ have' = [have EXCEPT ![n] = NoWant]
    /\ UNCHANGED <<row, acct, place, lastId, lastCred, up, h, loop, reqs>>

NodeDown(n) ==
    /\ Outages /\ Happens
    /\ n \in up
    /\ up' = up \ {n}
    /\ UNCHANGED <<row, acct, place, lastId, lastCred, have, h, loop, reqs>>

NodeUp(n) ==
    /\ n \notin up
    /\ up' = up \cup {n}
    /\ UNCHANGED <<row, acct, place, lastId, lastCred, have, h, loop, reqs, events>>

(* The server stops, between any two steps, and starts with another        *)
(* configuration: main's reconcileNodes, before anything else runs.        *)
ServerRestart(conf) ==
    /\ Happens
    /\ Overlap \/ AtRest
    /\ row' = Reconciled(row, conf)
    /\ place' = BackfillUserNodesToEnabled(Enabled(conf))
    /\ h' = [p \in Handlers |-> IdleHandler]
    /\ loop' = IdleLoop
    /\ UNCHANGED <<acct, lastId, lastCred, have, up, reqs>>

Next ==
    \/ \E p \in Handlers : Handler(p)
    \/ Reconcile
    \/ \E n \in Nodes : NodeRestart(n) \/ NodeDown(n) \/ NodeUp(n)
    \/ \E conf \in Configs : ServerRestart(conf)

Spec == Init /\ [][Next]_vars

(* Requests are served to their end, the ticker keeps starting passes, and *)
(* a node that cannot be reached can be reached again some day.            *)
Fairness ==
    /\ \A p \in Handlers : WF_vars(h[p].pc # "idle" /\ Handler(p))
    /\ WF_vars(Reconcile)
    /\ \A n \in Nodes : WF_vars(NodeUp(n))

FairSpec == Spec /\ Fairness

-----------------------------------------------------------------------------
(* Properties.                                                             *)

(* Every variable keeps its type, only existing accounts are placed, and   *)
(* only on nodes that have a row.                                          *)
NodesInv ==
    /\ row \in [Nodes -> {"none", "on", "off"}]
    /\ acct \in [Users -> [id : 0..lastId, enabled : BOOLEAN, cred : 0..lastCred]]
    /\ place \in [Users -> SUBSET Nodes]
    /\ have \in [Nodes -> [Users -> 0..lastCred]]
    /\ up \subseteq Nodes
    /\ \A u \in Users : acct[u].id = 0 => acct[u] = NoAccount /\ place[u] = {}
    /\ \A u \in Users : \A n \in place[u] : row[n] # "none"

(* expandClientsForNodes: the node endpoints of an account's subscription. *)
Endpoints(u) ==
    IF acct[u].enabled /\ acct[u].cred # 0 THEN {n \in place[u] : row[n] = "on"} ELSE {}

(* "a node restart drops them - but the reconcile loop re-applies each     *)
(* node's users": whatever restarts, outages, restarts of the server and   *)
(* half-done requests came before, a node that stays in a user's           *)
(* subscription gets to know the user and keeps knowing it.                *)
EndpointsServed ==
    \A u \in Users, n \in Nodes :
      <>[](n \in Endpoints(u)) => <>[](have[n][u] # 0)

(* A disabled or deleted user is on no node, whichever nodes restarted.    *)
(* This is true only under Steady.                                         *)
DisabledOut ==
    AtRest => \A u \in Users, n \in Nodes : ~acct[u].enabled => have[n][u] = 0

(* Requests and passes do not overlap and the server restarts between      *)
(* them, every node can be reached, and the enabled nodes stay the same: a *)
(* node that is disabled is not told of removals.                          *)
Steady == Overlap = FALSE /\ Outages = FALSE /\ \A a, b \in Configs : Enabled(a) = Enabled(b)

(* A restart of the server, whatever the configuration enables now, moves  *)
(* nobody who has a placement: "users that already have any placement are  *)
(* left untouched", also when the node is out of the configuration.        *)
PlacementKept ==
    [][\A u \in Users :
         (place[u] # {} /\ acct'[u].id = acct[u].id /\ place'[u] # place[u]) =>
           \E p \in Handlers : h[p].pc = "place" /\ h[p].id = acct[u].id]_vars

(* fanoutAdmin.AddClient: "Because nodes are homogeneous the credential is *)
(* identical on every node" - the one the subscription will contain.       *)
SameCredential ==
    AtRest => \A u \in Users, n \in Nodes : have[n][u] \in {0, acct[u].cred}

(* fanoutAdmin.RemoveClient: "a down node is reconciled once it returns".  *)
(* A user that stays disabled is off every enabled node in the end.        *)
RemovalReconciled ==
    \A u \in Users, n \in Nodes :
      <>[](n \in Targets /\ ~acct[u].enabled) => <>[](have[n][u] = 0)

(* docs/multi-node.md: "Existing users are backfilled onto the new node on *)
(* the next reconcile."  Nobody having chosen otherwise, a user that stays *)
(* is placed on every node that stays enabled.                             *)
NewNodeBackfilled ==
    \A u \in Users, n \in Nodes :
      <>[](acct[u].id # 0 /\ n \in Targets) => <>(n \in place[u])
=============================================================================
