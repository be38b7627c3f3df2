---------------------------- MODULE NodesProofs -----------------------------
(***************************************************************************)
(* Multi-node mode, for any users, nodes, configurations and any number of *)
(* overlapping requests: what the database and the nodes hold stays        *)
(* consistent, a request never acts on an account other than the one it    *)
(* was sent for, and only a request for it moves a placed user.  While     *)
(* requests and passes do not overlap, every node can be reached and the   *)
(* configuration stays, a disabled user is on no node.                     *)
(***************************************************************************)
EXTENDS Nodes, TLAPS

HPC == {"idle", "account", "add", "place", "client", "flag", "push", "remove", "delete"}
LPC == {"idle", "next", "have", "add"}
HandlerRecords == [pc : HPC, op : AllOps, u : Users \cup {SomeUser}, id : Nat,
                   names : SUBSET Nodes, todo : SUBSET Nodes, cred : Nat]
LoopRecords == [pc : LPC, n : Nodes, todo : SUBSET Nodes, want : [Users -> Nat]]

(* The database and the nodes; a row id belongs to one account.            *)
StoreInv ==
    /\ lastId \in Nat /\ lastCred \in Nat
    /\ NodesInv
    /\ \A u, v \in Users : acct[u].id # 0 /\ acct[u].id = acct[v].id => u = v

(* A request q holds ids and credentials that were given out, names nodes  *)
(* that have a row, and the account of its id, if it is still there, is    *)
(* that of its user; ac, rw, li and lc are acct, row, lastId and lastCred. *)
HandlerOf(q, ac, rw, li, lc) ==
    /\ q \in HandlerRecords
    /\ q.pc # "idle" => q.u \in Users
    /\ IF q.pc \in {"idle", "account"} THEN q.id = 0 ELSE q.id \in 1..li
    /\ q.cred <= lc
    /\ \A n \in q.names : rw[n] # "none"
    /\ \A u \in Users : q.id # 0 /\ ac[u].id = q.id => u = q.u

LoopOf(l, lc) ==
    /\ l \in LoopRecords
    /\ \A u \in Users : l.want[u] <= lc

HandlersInv ==
    /\ h \in [Handlers -> HandlerRecords]
    /\ \A p \in Handlers : HandlerOf(h[p], acct, row, lastId, lastCred)

Inv == StoreInv /\ HandlersInv /\ LoopOf(loop, lastCred)

(* What a request or the loop holds stays given out while the database     *)
(* changes: accounts lose their id or get a fresh one, rows never vanish.  *)
Frame ==
    /\ lastId' \in Nat /\ lastId <= lastId' /\ lastCred' \in Nat /\ lastCred <= lastCred'
    /\ \A n \in Nodes : row[n] # "none" => row'[n] # "none"
    /\ \A u \in Users : acct'[u].id \in {0, acct[u].id} \/ acct'[u].id \notin 0..lastId

(* A request that waits keeps what holds of it.                            *)
LEMMA HandlerKept ==
    ASSUME StoreInv, Frame, NEW q, HandlerOf(q, acct, row, lastId, lastCred)
    PROVE  HandlerOf(q, acct', row', lastId', lastCred')
<1>1. /\ q \in HandlerRecords /\ q.id \in Nat /\ q.cred \in Nat /\ q.names \subseteq Nodes
      /\ lastId \in Nat /\ lastCred \in Nat
  BY DEF HandlerOf, HandlerRecords, StoreInv
<1>2. ASSUME NEW u \in Users, q.id # 0, acct'[u].id = q.id PROVE u = q.u
  <2>1. q.id \in 1..lastId
    BY <1>2 DEF HandlerOf
  <2> QED BY <1>2, <2>1 DEF HandlerOf, Frame
<1>3. IF q.pc \in {"idle", "account"} THEN q.id = 0 ELSE q.id \in 1..lastId'
  BY <1>1 DEF HandlerOf, Frame
<1>4. q.cred <= lastCred' /\ \A n \in q.names : row'[n] # "none"
  BY <1>1 DEF HandlerOf, Frame
<1>5. q.pc # "idle" => q.u \in Users
  BY DEF HandlerOf
<1> QED BY <1>1, <1>2, <1>3, <1>4, <1>5 DEF HandlerOf

(* A step of one request keeps the invariant when it keeps the store, the  *)
(* others' ids, and what holds of the request itself.                      *)
LEMMA HandlerStep ==
    ASSUME Inv, Frame, StoreInv', UNCHANGED loop,
           NEW p \in Handlers, NEW q, Goto(p, q), HandlerOf(q, acct', row', lastId', lastCred')
    PROVE  Inv'
<1>1. h \in [Handlers -> HandlerRecords] /\ StoreInv /\ LoopOf(loop, lastCred)
      /\ \A o \in Handlers : HandlerOf(h[o], acct, row, lastId, lastCred)
  BY DEF Inv, HandlersInv
<1>2. q \in HandlerRecords
  BY DEF HandlerOf
<1>3. /\ h' \in [Handlers -> HandlerRecords] /\ h'[p] = q
      /\ \A o \in Handlers \ {p} : h'[o] = h[o]
  BY <1>1, <1>2 DEF Goto
<1>4. ASSUME NEW o \in Handlers PROVE HandlerOf(h'[o], acct', row', lastId', lastCred')
  <2>1. CASE o = p
    BY <1>3, <2>1
  <2>2. CASE o # p
    BY <1>1, <1>3, <2>2, HandlerKept
  <2> QED BY <2>1, <2>2
<1>5. HandlersInv'
  BY <1>3, <1>4 DEF HandlersInv, HandlerOf
<1>6. LoopOf(loop, lastCred)'
  BY <1>1 DEF LoopOf, LoopRecords, Frame, StoreInv
<1> QED BY <1>5, <1>6 DEF Inv

(* A request without one is idle.                                          *)
LEMMA IdleHandlerOf ==
    ASSUME StoreInv, Frame PROVE HandlerOf(IdleHandler, acct', row', lastId', lastCred')
<1>1. /\ IdleHandler \in HandlerRecords /\ IdleHandler.pc = "idle" /\ IdleHandler.id = 0
      /\ IdleHandler.cred = 0 /\ IdleHandler.names = {}
  BY DEF IdleHandler, HandlerRecords, HPC, AllOps
<1> QED BY <1>1 DEF HandlerOf, Frame

(* When the database and the nodes do not change, nothing of them does.    *)
LEMMA StoreStays ==
    ASSUME StoreInv, UNCHANGED <<row, acct, place, lastId, lastCred, have, up>>
    PROVE  StoreInv' /\ Frame
BY DEF StoreInv, NodesInv, Frame

(* A node's runtime gets an identity with a credential that was given out, *)
(* or loses one.                                                           *)
LEMMA RuntimeTypes ==
    ASSUME StoreInv, NEW n \in Nodes, NEW u \in Users, NEW c \in 0..lastCred',
           lastCred' \in Nat, lastCred <= lastCred',
           AddUserRPC(n, u, c) \/ RemoveUserRPC(n, u),
           UNCHANGED <<row, acct, place, lastId, up>>
    PROVE  StoreInv' /\ Frame
<1>1. lastCred \in Nat /\ have \in [Nodes -> [Users -> 0..lastCred]]
      /\ acct \in [Users -> [id : 0..lastId, enabled : BOOLEAN, cred : 0..lastCred]]
  BY DEF StoreInv, NodesInv
<1>2. 0..lastCred \subseteq 0..lastCred' /\ 0 \in 0..lastCred'
  BY <1>1
<1>3. have' \in [Nodes -> [Users -> 0..lastCred']]
  <2>1. have \in [Nodes -> [Users -> 0..lastCred']]
    BY <1>1, <1>2
  <2>2. \A d \in 0..lastCred' : [have EXCEPT ![n][u] = d] \in [Nodes -> [Users -> 0..lastCred']]
    BY <2>1
  <2> QED BY <1>2, <2>1, <2>2 DEF AddUserRPC, RemoveUserRPC
<1>4. acct' \in [Users -> [id : 0..lastId', enabled : BOOLEAN, cred : 0..lastCred']]
  BY <1>1, <1>2
<1>5. Frame
  BY <1>1 DEF Frame, StoreInv
<1> QED BY <1>3, <1>4, <1>5 DEF StoreInv, NodesInv

Accounts == [id : Nat, enabled : BOOLEAN, cred : Nat]

(* The accounts, one by one.                                               *)
LEMMA AccountFacts ==
    ASSUME StoreInv, NEW u \in Users
    PROVE  /\ acct[u] \in Accounts /\ acct[u].id \in 0..lastId /\ acct[u].cred \in 0..lastCred
           /\ acct[u].enabled \in BOOLEAN
           /\ acct[u].id = 0 => acct[u] = NoAccount /\ place[u] = {}
BY DEF StoreInv, NodesInv, Accounts

(* The store is well formed when its accounts are, one by one.             *)
LEMMA AccountsStep ==
    ASSUME StoreInv, lastId' \in Nat, lastId <= lastId',
           UNCHANGED <<row, lastCred, have, up>>,
           acct' = [u \in Users |-> acct'[u]],
           \A u \in Users :
             /\ acct'[u] \in Accounts /\ acct'[u].id \in 0..lastId' /\ acct'[u].cred \in 0..lastCred
             /\ acct'[u].id = 0 => acct'[u] = NoAccount /\ place'[u] = {}
             /\ acct'[u].id \in {0, acct[u].id} \/ acct'[u].id \notin 0..lastId,
           place' \in [Users -> SUBSET Nodes],
           \A u \in Users : \A n \in place'[u] : row[n] # "none",
           \A u, v \in Users : acct'[u].id # 0 /\ acct'[u].id = acct'[v].id => u = v
    PROVE  StoreInv' /\ Frame
<1>1. acct' \in [Users -> [id : 0..lastId', enabled : BOOLEAN, cred : 0..lastCred]]
  <2>1. ASSUME NEW u \in Users
        PROVE  acct'[u] \in [id : 0..lastId', enabled : BOOLEAN, cred : 0..lastCred]
    BY DEF Accounts
  <2> QED BY <2>1
<1> QED BY <1>1 DEF StoreInv, NodesInv, Frame

(* createUser's row gets a fresh id.                                       *)
LEMMA InsertStore ==
    ASSUME StoreInv, NEW u \in Users, acct[u].id = 0, lastId' = lastId + 1,
           acct' = [acct EXCEPT ![u] = [id |-> lastId + 1, enabled |-> TRUE, cred |-> 0]],
           UNCHANGED <<row, place, lastCred, have, up>>
    PROVE  /\ StoreInv' /\ Frame /\ acct'[u].id = lastId + 1
           /\ \A v \in Users : v # u => acct'[v].id \in 0..lastId
<1>t. lastId \in Nat /\ lastCred \in Nat /\ place \in [Users -> SUBSET Nodes]
  BY DEF StoreInv, NodesInv
<1> DEFINE new == [id |-> lastId + 1, enabled |-> TRUE, cred |-> 0]
<1>1. new \in Accounts /\ new.id = lastId + 1 /\ new.cred = 0
  BY <1>t DEF Accounts
<1>2. /\ acct' = [v \in Users |-> acct'[v]] /\ acct'[u] = new
      /\ \A v \in Users : v # u => acct'[v] = acct[v]
  BY DEF StoreInv, NodesInv
<1> HIDE DEF new
<1>3. ASSUME NEW v \in Users
      PROVE  /\ acct'[v] \in Accounts /\ acct'[v].id \in 0..lastId' /\ acct'[v].cred \in 0..lastCred
             /\ acct'[v].id = 0 => acct'[v] = NoAccount /\ place'[v] = {}
             /\ acct'[v].id \in {0, acct[v].id} \/ acct'[v].id \notin 0..lastId
             /\ v # u => acct'[v].id \in 0..lastId
  <2>1. CASE v = u
    <3>1. acct'[v] = new /\ lastId' = lastId + 1
      BY <1>2, <2>1
    <3>2. new.id # 0 /\ new.id \in 0..lastId' /\ new.id \notin 0..lastId /\ new.cred \in 0..lastCred
      BY <1>t, <1>1, <3>1
    <3> QED BY <1>1, <2>1, <3>1, <3>2
  <2>2. CASE v # u
    <3>1. acct'[v] = acct[v] /\ place'[v] = place[v] /\ lastId' = lastId + 1
      BY <1>2, <2>2
    <3> QED BY <1>t, <2>2, <3>1, AccountFacts
  <2> QED BY <2>1, <2>2
<1>4. ASSUME NEW v \in Users, NEW w \in Users, acct'[v].id # 0, acct'[v].id = acct'[w].id
      PROVE  v = w
  <2>1. acct'[u].id \notin 0..lastId
    BY <1>t, <1>1, <1>2
  <2>2. CASE v = u \/ w = u
    BY <1>3, <1>4, <2>1, <2>2
  <2>3. CASE v # u /\ w # u
    BY <1>2, <1>4, <2>3 DEF StoreInv
  <2> QED BY <2>2, <2>3
<1>5. place' \in [Users -> SUBSET Nodes] /\ \A v \in Users : \A n \in place'[v] : row[n] # "none"
  BY <1>t DEF StoreInv, NodesInv
<1>6. StoreInv' /\ Frame
  <2>1. lastId' \in Nat /\ lastId <= lastId'
    BY <1>t
  <2>2. \A v \in Users :
          /\ acct'[v] \in Accounts /\ acct'[v].id \in 0..lastId' /\ acct'[v].cred \in 0..lastCred
          /\ acct'[v].id = 0 => acct'[v] = NoAccount /\ place'[v] = {}
          /\ acct'[v].id \in {0, acct[v].id} \/ acct'[v].id \notin 0..lastId
    BY <1>3
  <2>3. \A v, w \in Users : acct'[v].id # 0 /\ acct'[v].id = acct'[w].id => v = w
    BY <1>4
  <2>4. UNCHANGED <<row, lastCred, have, up>>
    OBVIOUS
  <2> HIDE DEF new
  <2> QED BY <1>2, <1>5, <2>1, <2>2, <2>3, <2>4, AccountsStep, Zenon
<1> QED BY <1>1, <1>2, <1>3, <1>6

(* The statements that update the account of an id.                        *)
LEMMA AccountStore ==
    ASSUME StoreInv, acct' = [u \in Users |-> acct'[u]],
           \A u \in Users :
             /\ acct'[u] \in Accounts /\ acct'[u].id = acct[u].id /\ acct'[u].cred \in 0..lastCred
             /\ acct[u].id = 0 => acct'[u] = acct[u],
           UNCHANGED <<row, place, lastId, lastCred, have, up>>
    PROVE  StoreInv' /\ Frame
<1>t. lastId \in Nat /\ lastCred \in Nat /\ place \in [Users -> SUBSET Nodes]
  BY DEF StoreInv, NodesInv
<1>1. \A u \in Users : acct[u].id \in 0..lastId
                       /\ (acct[u].id = 0 => acct[u] = NoAccount /\ place[u] = {})
  BY AccountFacts
<1>2. place' \in [Users -> SUBSET Nodes] /\ \A v \in Users : \A n \in place'[v] : row[n] # "none"
  BY <1>t DEF StoreInv, NodesInv
<1>3. \A u, v \in Users : acct'[u].id # 0 /\ acct'[u].id = acct'[v].id => u = v
  BY DEF StoreInv
<1>4. lastId' \in Nat /\ lastId <= lastId' /\ UNCHANGED <<row, lastCred, have, up>>
  BY <1>t
<1>5. \A u \in Users :
        /\ acct'[u] \in Accounts /\ acct'[u].id \in 0..lastId' /\ acct'[u].cred \in 0..lastCred
        /\ acct'[u].id = 0 => acct'[u] = NoAccount /\ place'[u] = {}
        /\ acct'[u].id \in {0, acct[u].id} \/ acct'[u].id \notin 0..lastId
  BY <1>1
<1> QED BY <1>2, <1>3, <1>4, <1>5, AccountsStep

(* SetUserEnabled and UpsertUserClient.                                    *)
LEMMA UpdateStore ==
    ASSUME StoreInv, NEW id \in 1..lastId, NEW b \in BOOLEAN, NEW c \in 0..lastCred,
           SetUserEnabled(id, b) \/ UpsertUserClient(id, c),
           UNCHANGED <<row, place, lastId, lastCred, have, up>>
    PROVE  StoreInv' /\ Frame
<1>1. acct' = [u \in Users |-> acct'[u]]
  BY DEF SetUserEnabled, UpsertUserClient
<1>2. ASSUME NEW u \in Users
      PROVE  /\ acct'[u] \in Accounts /\ acct'[u].id = acct[u].id /\ acct'[u].cred \in 0..lastCred
             /\ acct[u].id = 0 => acct'[u] = acct[u]
  <2>1. acct[u] \in Accounts /\ acct[u].cred \in 0..lastCred /\ lastCred \in Nat /\ lastId \in Nat
    BY AccountFacts DEF StoreInv
  <2>2. CASE acct[u].id # id
    BY <2>1, <2>2 DEF SetUserEnabled, UpsertUserClient
  <2>3. CASE acct[u].id = id
    <3>1. acct'[u] = [acct[u] EXCEPT !.enabled = b] \/ acct'[u] = [acct[u] EXCEPT !.cred = c]
      BY <2>3 DEF SetUserEnabled, UpsertUserClient
    <3>2. /\ [acct[u] EXCEPT !.enabled = b] \in Accounts
          /\ [acct[u] EXCEPT !.enabled = b].id = id
          /\ [acct[u] EXCEPT !.enabled = b].cred = acct[u].cred
      BY <2>1, <2>3 DEF Accounts
    <3>3. /\ [acct[u] EXCEPT !.cred = c] \in Accounts
          /\ [acct[u] EXCEPT !.cred = c].id = id
          /\ [acct[u] EXCEPT !.cred = c].cred = c
      BY <2>1, <2>3 DEF Accounts
    <3>4. id # 0
      BY <2>1
    <3> QED BY <2>1, <2>3, <3>1, <3>2, <3>3, <3>4
  <2> QED BY <2>2, <2>3
<1> QED BY <1>1, <1>2, AccountStore

(* DeleteUser takes the placement along.                                   *)
LEMMA DeleteStore ==
    ASSUME StoreInv, NEW id \in 1..lastId, DeleteUser(id),
           UNCHANGED <<row, lastId, lastCred, have, up>>
    PROVE  StoreInv' /\ Frame
<1>t. lastId \in Nat /\ lastCred \in Nat /\ place \in [Users -> SUBSET Nodes]
      /\ \A u \in Users : \A n \in place[u] : row[n] # "none"
  BY DEF StoreInv, NodesInv
<1>1. acct' = [u \in Users |-> acct'[u]]
  BY DEF DeleteUser
<1>2. NoAccount \in Accounts /\ NoAccount.id = 0 /\ NoAccount.cred = 0
  BY DEF NoAccount, Accounts
<1>3. ASSUME NEW u \in Users
      PROVE  /\ acct'[u] \in Accounts /\ acct'[u].id \in 0..lastId' /\ acct'[u].cred \in 0..lastCred
             /\ acct'[u].id = 0 => acct'[u] = NoAccount /\ place'[u] = {}
             /\ acct'[u].id \in {0, acct[u].id}
             /\ place'[u] \subseteq place[u]
  <2>1. CASE acct[u].id = id
    <3>1. acct'[u] = NoAccount /\ place'[u] = {} /\ lastId' = lastId
      BY <2>1 DEF DeleteUser
    <3> QED BY <1>t, <1>2, <3>1
  <2>2. CASE acct[u].id # id
    <3>1. acct'[u] = acct[u] /\ place'[u] = place[u] /\ lastId' = lastId
      BY <2>2 DEF DeleteUser
    <3> QED BY <3>1, AccountFacts
  <2> QED BY <2>1, <2>2
<1>4. place' = [u \in Users |-> place'[u]]
  BY DEF DeleteUser
<1>5. place' \in [Users -> SUBSET Nodes] /\ \A u \in Users : \A n \in place'[u] : row[n] # "none"
  BY <1>t, <1>3, <1>4
<1>6. \A u, v \in Users : acct'[u].id # 0 /\ acct'[u].id = acct'[v].id => u = v
  BY <1>3 DEF StoreInv
<1> QED BY <1>t, <1>1, <1>3, <1>5, <1>6, AccountsStep

(* SetUserNodes and RemoveUserFromNode.                                    *)
LEMMA PlaceStore ==
    ASSUME StoreInv, NEW id \in 1..lastId, NEW ns \in SUBSET Nodes,
           \A n \in ns : row[n] # "none",
           SetUserNodes(id, ns) \/ \E n \in Nodes : RemoveUserFromNode(id, n),
           UNCHANGED <<row, acct, lastId, lastCred, have, up>>
    PROVE  StoreInv' /\ Frame
<1>t. lastId \in Nat /\ lastCred \in Nat /\ place \in [Users -> SUBSET Nodes]
      /\ \A u \in Users : \A n \in place[u] : row[n] # "none"
  BY DEF StoreInv, NodesInv
<1>1. /\ place' = [u \in Users |-> place'[u]]
      /\ \A u \in Users : place'[u] \subseteq place[u] \/ (acct[u].id = id /\ place'[u] = ns)
  <2>1. CASE SetUserNodes(id, ns)
    BY <2>1 DEF SetUserNodes
  <2>2. CASE \E n \in Nodes : RemoveUserFromNode(id, n)
    BY <1>t, <2>2 DEF RemoveUserFromNode
  <2> QED BY <2>1, <2>2
<1>2. place' \in [Users -> SUBSET Nodes] /\ \A u \in Users : \A n \in place'[u] : row[n] # "none"
  BY <1>t, <1>1
<1>3. \A u \in Users : acct[u].id = 0 => place'[u] = {}
  <2>1. \A u \in Users : acct[u].id = 0 => place[u] = {}
    BY AccountFacts
  <2> QED BY <1>t, <1>1, <2>1
<1>4. Frame
  BY <1>t DEF Frame
<1> QED BY <1>2, <1>3, <1>4 DEF StoreInv, NodesInv

(* A step of a request keeps the invariant.                                *)
LEMMA HandlerInv ==
    ASSUME Inv, NEW p \in Handlers, Handler(p)
    PROVE  Inv'
<1>s. StoreInv /\ lastId \in Nat /\ lastCred \in Nat
  BY DEF Inv, StoreInv
<1>t. HandlerOf(h[p], acct, row, lastId, lastCred) /\ h[p] \in HandlerRecords
  BY DEF Inv, HandlersInv, HandlerOf
<1>f. /\ h[p].pc \in HPC /\ h[p].op \in AllOps /\ h[p].id \in Nat /\ h[p].names \subseteq Nodes
      /\ h[p].todo \subseteq Nodes /\ h[p].cred \in Nat /\ h[p].cred <= lastCred
      /\ h[p].pc # "idle" => h[p].u \in Users
      /\ h[p].pc \notin {"idle", "account"} => h[p].id \in 1..lastId
      /\ \A n \in h[p].names : row[n] # "none"
  BY <1>t DEF HandlerOf, HandlerRecords
<1>k. ASSUME StoreInv', Frame, UNCHANGED loop, NEW q, Goto(p, q),
             HandlerOf(q, acct', row', lastId', lastCred')
      PROVE  Inv'
  BY <1>k, HandlerStep
<1>e. ASSUME StoreInv', Frame, UNCHANGED loop, Finish(p) PROVE Inv'
  BY <1>e, <1>k, <1>s, IdleHandlerOf DEF Finish
<1>m. ASSUME Frame, NEW q \in HandlerRecords, q.u = h[p].u, q.id = h[p].id, q.names = h[p].names,
             q.cred <= lastCred', h[p].pc \notin {"idle", "account"}, q.pc \notin {"idle", "account"}
      PROVE  HandlerOf(q, acct', row', lastId', lastCred')
  <2>1. HandlerOf(h[p], acct', row', lastId', lastCred')
    BY <1>m, <1>s, <1>t, HandlerKept
  <2> QED BY <1>m, <2>1 DEF HandlerOf
<1>z. UNCHANGED <<row, acct, place, lastId, lastCred, have, up>> => StoreInv' /\ Frame
  BY <1>s, StoreStays
<1>p. /\ AllOps = {"createUser", "deleteUser", "enableUser", "disableUser", "setUserNodes", "deleteUserNode"}
      /\ HPC = {"idle", "account", "add", "place", "client", "flag", "push", "remove", "delete"}
      /\ Targets \subseteq Nodes /\ \A n \in Targets : row[n] # "none"
  BY DEF AllOps, HPC, Targets
<1>1. ASSUME NEW o \in Ops, NEW u \in Users, NEW names \in SUBSET Nodes, Request(p, o, u, names)
      PROVE  Inv'
  <2> DEFINE q == [IdleHandler EXCEPT !.pc = "account", !.op = o, !.u = u, !.names = names]
  <2>1. o \in AllOps
    BY OpsAssumption
  <2>2. /\ q \in HandlerRecords /\ q.pc = "account" /\ q.u = u /\ q.id = 0 /\ q.cred = 0
        /\ q.names = names
    BY <2>1 DEF IdleHandler, HandlerRecords, HPC
  <2>3. /\ Goto(p, q) /\ UNCHANGED <<row, acct, place, lastId, lastCred, have, up, loop>>
        /\ \A n \in names : row[n] # "none"
    BY <1>1 DEF Request
  <2> HIDE DEF q
  <2>4. HandlerOf(q, acct', row', lastId', lastCred')
    BY <1>s, <2>2, <2>3 DEF HandlerOf
  <2> QED BY <1>k, <1>z, <2>3, <2>4
<1>2. ASSUME InsertUser(p) PROVE Inv'
  <2> DEFINE q == [h[p] EXCEPT !.id = lastId + 1, !.todo = Targets, !.pc = "add"]
  <2>1. /\ h[p].u \in Users /\ UNCHANGED <<row, place, lastCred, have, up, loop>>
        /\ \/ /\ acct[h[p].u].id = 0 /\ lastId' = lastId + 1 /\ Goto(p, q)
              /\ acct' = [acct EXCEPT ![h[p].u] = [id |-> lastId + 1, enabled |-> TRUE, cred |-> 0]]
           \/ Finish(p) /\ UNCHANGED <<lastId, acct>>
    BY <1>2, <1>f DEF InsertUser
  <2>2. /\ q \in HandlerRecords /\ q.pc = "add" /\ q.u = h[p].u /\ q.id = lastId + 1
        /\ q.cred = h[p].cred /\ q.names = h[p].names
    <3>1. lastId + 1 \in Nat /\ Targets \in SUBSET Nodes /\ "add" \in HPC
      BY <1>p, <1>s
    <3> QED BY <1>t, <3>1 DEF HandlerRecords
  <2> HIDE DEF q
  <2>3. ASSUME acct[h[p].u].id = 0, lastId' = lastId + 1, Goto(p, q),
               acct' = [acct EXCEPT ![h[p].u] = [id |-> lastId + 1, enabled |-> TRUE, cred |-> 0]]
        PROVE  Inv'
    <3>1. /\ StoreInv' /\ Frame /\ \A v \in Users : v # h[p].u => acct'[v].id \in 0..lastId
      BY <1>s, <2>1, <2>3, InsertStore
    <3>2. \A v \in Users : acct'[v].id = q.id => v = q.u
      BY <1>s, <2>2, <3>1
    <3>3. q.id \in 1..lastId' /\ q.cred <= lastCred' /\ \A n \in q.names : row'[n] # "none"
      BY <1>f, <1>s, <2>1, <2>2, <2>3
    <3>4. HandlerOf(q, acct', row', lastId', lastCred')
      BY <2>1, <2>2, <3>2, <3>3 DEF HandlerOf
    <3> QED BY <1>k, <2>1, <2>3, <3>1, <3>4
  <2>4. ASSUME Finish(p), UNCHANGED <<lastId, acct>> PROVE Inv'
    BY <1>e, <1>z, <2>1, <2>4
  <2> QED BY <2>1, <2>3, <2>4
<1>3. ASSUME GetByID(p) PROVE Inv'
  <2>1. PICK pc \in {"place", "client", "flag"} :
           /\ h[p].pc = "account" /\ UNCHANGED <<row, acct, place, lastId, lastCred, have, up, loop>>
           /\ \/ Finish(p)
              \/ /\ acct[h[p].u].id # 0
                 /\ Goto(p, [h[p] EXCEPT !.id = acct[h[p].u].id, !.pc = pc])
    <3> DEFINE pc == CASE h[p].op \in {"setUserNodes", "deleteUserNode"} -> "place"
                       [] h[p].op = "deleteUser" -> "client"
                       [] OTHER -> "flag"
    <3>1. pc \in {"place", "client", "flag"}
      OBVIOUS
    <3>2. /\ h[p].pc = "account" /\ UNCHANGED <<row, acct, place, lastId, lastCred, have, up, loop>>
          /\ \/ Finish(p)
             \/ /\ acct[h[p].u].id # 0
                /\ Goto(p, [h[p] EXCEPT !.id = acct[h[p].u].id, !.pc = pc])
      BY <1>3, Zenon DEF GetByID
    <3> HIDE DEF pc
    <3> QED BY <3>1, <3>2
  <2> DEFINE q == [h[p] EXCEPT !.id = acct[h[p].u].id, !.pc = pc]
  <2>2. h[p].u \in Users /\ acct[h[p].u].id \in 0..lastId
    BY <1>f, <1>s, <2>1, AccountFacts
  <2>3. /\ q \in HandlerRecords /\ q.pc = pc /\ q.u = h[p].u /\ q.id = acct[h[p].u].id
        /\ q.cred = h[p].cred /\ q.names = h[p].names
    <3>1. acct[h[p].u].id \in Nat /\ pc \in HPC
      BY <1>p, <1>s, <2>2
    <3> QED BY <1>t, <3>1 DEF HandlerRecords
  <2>4. Finish(p) \/ (acct[h[p].u].id # 0 /\ Goto(p, q))
    BY <2>1
  <2> HIDE DEF q
  <2>5. ASSUME acct[h[p].u].id # 0, Goto(p, q) PROVE Inv'
    <3>1. \A v \in Users : acct'[v].id = q.id => v = q.u
      BY <1>s, <2>1, <2>2, <2>3, <2>5 DEF StoreInv
    <3>2. q.id \in 1..lastId' /\ q.cred <= lastCred' /\ \A n \in q.names : row'[n] # "none"
      BY <1>f, <1>s, <2>1, <2>2, <2>3, <2>5
    <3>3. HandlerOf(q, acct', row', lastId', lastCred')
      BY <2>2, <2>3, <3>1, <3>2 DEF HandlerOf
    <3> QED BY <1>k, <1>z, <2>1, <2>5, <3>3
  <2> QED BY <1>e, <1>z, <2>1, <2>4, <2>5
<1>4. ASSUME Flag(p) PROVE Inv'
  <2> DEFINE q == [h[p] EXCEPT !.pc = "client"]
             b == h[p].op = "enableUser"
  <2>1. /\ h[p].pc = "flag" /\ SetUserEnabled(h[p].id, b) /\ Goto(p, q)
        /\ UNCHANGED <<row, place, lastId, lastCred, have, up, loop>>
    BY <1>4, Zenon DEF Flag
  <2>2. /\ q \in HandlerRecords /\ q.pc = "client" /\ q.u = h[p].u /\ q.id = h[p].id
        /\ q.cred = h[p].cred /\ q.names = h[p].names /\ b \in BOOLEAN
    BY <1>p, <1>t DEF HandlerRecords
  <2> HIDE DEF q, b
  <2>3. StoreInv' /\ Frame
    BY <1>f, <1>s, <2>1, <2>2, UpdateStore
  <2>4. HandlerOf(q, acct', row', lastId', lastCred')
    BY <1>f, <1>m, <2>1, <2>2, <2>3
  <2> QED BY <1>k, <2>1, <2>3, <2>4
<1>5. ASSUME ReadClient(p) PROVE Inv'
  <2> DEFINE c == GetUserClients(h[p].id)
             todo == IF c = 0 THEN {} ELSE Targets
             pc == IF h[p].op = "enableUser" THEN "push" ELSE "remove"
             q == [h[p] EXCEPT !.cred = c, !.todo = todo, !.pc = pc]
  <2>1. /\ h[p].pc = "client" /\ Goto(p, q)
        /\ UNCHANGED <<row, acct, place, lastId, lastCred, have, up, loop>>
    BY <1>5, Zenon DEF ReadClient
  <2>2. c \in 0..lastCred
    BY <1>s, AccountFacts DEF GetUserClients
  <2>3. todo \subseteq Nodes /\ pc \in {"push", "remove"}
    BY <1>p
  <2> HIDE DEF c, todo, pc
  <2>4. /\ q \in HandlerRecords /\ q.pc = pc /\ q.u = h[p].u /\ q.id = h[p].id
        /\ q.cred = c /\ q.names = h[p].names
    <3>1. c \in Nat /\ todo \in SUBSET Nodes /\ pc \in HPC
      BY <1>p, <1>s, <2>2, <2>3
    <3> QED BY <1>t, <3>1 DEF HandlerRecords
  <2> HIDE DEF q
  <2>5. HandlerOf(q, acct', row', lastId', lastCred')
    BY <1>m, <1>s, <1>z, <2>1, <2>2, <2>3, <2>4
  <2> QED BY <1>k, <1>z, <2>1, <2>5
<1>6. ASSUME NEW n \in Nodes, FanoutAddClient(p, n) PROVE Inv'
  <2> DEFINE c == lastCred + 1
             d == IF CanAdd(n, h[p].u) /\ h[p].cred = 0 THEN c ELSE h[p].cred
             q == [h[p] EXCEPT !.todo = h[p].todo \ {n}, !.cred = d]
  <2>1. /\ h[p].pc = "add" /\ AddUserRPC(n, h[p].u, c) /\ lastCred' = c
        /\ UNCHANGED <<row, acct, place, lastId, up, loop>>
    BY <1>6 DEF FanoutAddClient
  <2>2. Goto(p, q)
    BY <1>6, <1>t DEF FanoutAddClient, HandlerRecords
  <2>3. /\ d \in 0..lastCred'
    BY <1>f, <1>s, <2>1
  <2> HIDE DEF d
  <2>4. /\ q \in HandlerRecords /\ q.pc = "add" /\ q.u = h[p].u /\ q.id = h[p].id
        /\ q.cred = d /\ q.names = h[p].names
    <3>1. d \in Nat /\ h[p].todo \ {n} \in SUBSET Nodes
      BY <1>f, <1>s, <2>1, <2>3
    <3> QED BY <1>t, <2>1, <3>1 DEF HandlerRecords
  <2> HIDE DEF q
  <2>5. StoreInv' /\ Frame
    BY <1>f, <1>s, <2>1, RuntimeTypes
  <2>6. HandlerOf(q, acct', row', lastId', lastCred')
    BY <1>m, <2>1, <2>3, <2>4, <2>5
  <2> QED BY <1>k, <2>1, <2>2, <2>5, <2>6
<1>7. ASSUME StoreClient(p) PROVE Inv'
  <2> DEFINE q == [h[p] EXCEPT !.pc = "place"]
  <2>1. /\ h[p].pc = "add" /\ Goto(p, q) /\ UNCHANGED <<row, place, lastId, lastCred, have, up, loop>>
        /\ UNCHANGED acct \/ UpsertUserClient(h[p].id, h[p].cred)
    BY <1>7 DEF StoreClient
  <2>2. /\ q \in HandlerRecords /\ q.pc = "place" /\ q.u = h[p].u /\ q.id = h[p].id
        /\ q.cred = h[p].cred /\ q.names = h[p].names
    BY <1>p, <1>t DEF HandlerRecords
  <2> HIDE DEF q
  <2>3. h[p].cred \in 0..lastCred /\ h[p].id \in 1..lastId /\ TRUE \in BOOLEAN
    BY <1>f, <1>s, <2>1
  <2>4. StoreInv' /\ Frame
    BY <1>s, <1>z, <2>1, <2>3, UpdateStore
  <2>5. HandlerOf(q, acct', row', lastId', lastCred')
    BY <1>f, <1>m, <2>1, <2>2, <2>4
  <2> QED BY <1>k, <2>1, <2>4, <2>5
<1>8. ASSUME NEW n \in Nodes, FanoutAddExistingClient(p, n) \/ FanoutRemoveClient(p, n) PROVE Inv'
  <2> DEFINE q == [h[p] EXCEPT !.todo = h[p].todo \ {n}]
  <2>1. /\ h[p].pc \in {"push", "remove"} /\ UNCHANGED <<row, acct, place, lastId, lastCred, up, loop>>
        /\ AddUserRPC(n, h[p].u, h[p].cred) \/ RemoveUserRPC(n, h[p].u)
    BY <1>8 DEF FanoutAddExistingClient, FanoutRemoveClient
  <2>2. Goto(p, q)
    BY <1>8, <1>t DEF FanoutAddExistingClient, FanoutRemoveClient, HandlerRecords
  <2>3. /\ q \in HandlerRecords /\ q.pc = h[p].pc /\ q.u = h[p].u /\ q.id = h[p].id
        /\ q.cred = h[p].cred /\ q.names = h[p].names
    BY <1>t DEF HandlerRecords
  <2> HIDE DEF q
  <2>4. h[p].cred \in 0..lastCred' /\ h[p].u \in Users
    BY <1>f, <1>s, <2>1
  <2>5. StoreInv' /\ Frame
    BY <1>s, <2>1, <2>4, RuntimeTypes
  <2>6. HandlerOf(q, acct', row', lastId', lastCred')
    BY <1>f, <1>m, <2>1, <2>3, <2>5
  <2> QED BY <1>k, <2>1, <2>2, <2>5, <2>6
<1>9. ASSUME FanoutDone(p) PROVE Inv'
  <2> DEFINE q == [h[p] EXCEPT !.pc = "delete"]
  <2>1. /\ h[p].pc \in {"push", "remove"}
        /\ Goto(p, q) \/ Finish(p)
        /\ UNCHANGED <<row, acct, place, lastId, lastCred, have, up, loop>>
    BY <1>9 DEF FanoutDone
  <2>2. /\ q \in HandlerRecords /\ q.pc = "delete" /\ q.u = h[p].u /\ q.id = h[p].id
        /\ q.cred = h[p].cred /\ q.names = h[p].names
    BY <1>p, <1>t DEF HandlerRecords
  <2> HIDE DEF q
  <2>3. HandlerOf(q, acct', row', lastId', lastCred')
    <3>1. Frame /\ q.cred <= lastCred' /\ h[p].pc \notin {"idle", "account"}
      BY <1>f, <1>z, <2>1, <2>2
    <3> QED BY <1>m, <2>2, <3>1
  <2> QED BY <1>e, <1>k, <1>z, <2>1, <2>3
<1>10. ASSUME DeleteAccount(p) PROVE Inv'
  <2>1. /\ h[p].pc = "delete" /\ DeleteUser(h[p].id) /\ Finish(p)
        /\ UNCHANGED <<row, lastId, lastCred, have, up, loop>>
    BY <1>10 DEF DeleteAccount
  <2>2. StoreInv' /\ Frame
    BY <1>f, <1>s, <2>1, DeleteStore
  <2> QED BY <1>e, <2>1, <2>2
<1>11. ASSUME Place(p) PROVE Inv'
  <2>1. /\ h[p].pc = "place" /\ Finish(p) /\ UNCHANGED <<row, acct, lastId, lastCred, have, up, loop>>
    BY <1>11 DEF Place
  <2>2. \E ns \in {Targets, h[p].names} :
          SetUserNodes(h[p].id, ns) \/ \E n \in Nodes : RemoveUserFromNode(h[p].id, n)
    BY <1>11, <1>f DEF Place
  <2>3. StoreInv' /\ Frame
    BY <1>f, <1>p, <1>s, <2>1, <2>2, PlaceStore
  <2> QED BY <1>e, <2>1, <2>3
<1>12. ASSUME NEW o \in Ops, NEW u \in Users,
              \/ o \in {"createUser", "setUserNodes"} /\ \E ns \in Named : Request(p, o, u, ns)
              \/ o = "deleteUserNode" /\ \E n \in Nodes : Request(p, o, u, {n})
              \/ o \in {"deleteUser", "enableUser", "disableUser"} /\ Request(p, o, u, {})
       PROVE  Inv'
  <2>1. Named \subseteq SUBSET Nodes /\ {} \in SUBSET Nodes /\ \A n \in Nodes : {n} \in SUBSET Nodes
    BY NamedAssumption
  <2> QED BY <1>1, <1>12, <2>1, Zenon
<1> QED
  BY <1>2, <1>3, <1>4, <1>5, <1>6, <1>7, <1>8, <1>9, <1>10, <1>11, <1>12, Zenon DEF Handler

(* When the requests stand still, a step of the loop or of the world that  *)
(* keeps the store keeps what holds of them.                               *)
LEMMA WorldStep ==
    ASSUME Inv, StoreInv', Frame, UNCHANGED h, LoopOf(loop', lastCred')
    PROVE  Inv'
<1>1. \A o \in Handlers : HandlerOf(h[o], acct', row', lastId', lastCred')
  BY HandlerKept DEF Inv, HandlersInv
<1>2. HandlersInv'
  BY <1>1 DEF Inv, HandlersInv, HandlerOf
<1>3. LoopOf(loop, lastCred)'
  BY DEF LoopOf
<1> QED BY <1>2, <1>3 DEF Inv

(* The loop is idle at first and after a pass.                             *)
LEMMA IdleLoopOf ==
    ASSUME NEW c \in Nat
    PROVE  /\ LoopOf(IdleLoop, c) /\ IdleLoop \in LoopRecords
           /\ NoWant \in [Users -> Nat] /\ \A u \in Users : NoWant[u] <= c
<1>1. SomeNode \in Nodes
  <2>1. \E n \in Nodes : TRUE
    BY NodesAssumption
  <2> QED BY <2>1 DEF SomeNode
<1>2. /\ NoWant \in [Users -> Nat] /\ \A u \in Users : NoWant[u] = 0
  BY DEF NoWant
<1>3. IdleLoop \in LoopRecords /\ IdleLoop.want = NoWant
  BY <1>1, <1>2 DEF IdleLoop, LoopRecords, LPC
<1> QED BY <1>2, <1>3 DEF LoopOf

(* A step of the reconcile loop keeps the invariant.                       *)
LEMMA ReconcileInv ==
    ASSUME Inv, Reconcile
    PROVE  Inv'
<1>s. StoreInv /\ lastId \in Nat /\ lastCred \in Nat
  BY DEF Inv, StoreInv
<1>t. /\ loop \in LoopRecords /\ loop.pc \in LPC /\ loop.n \in Nodes /\ loop.todo \subseteq Nodes
      /\ loop.want \in [Users -> Nat] /\ \A u \in Users : loop.want[u] <= lastCred
  BY DEF Inv, LoopOf, LoopRecords
<1>z. UNCHANGED <<row, acct, place, lastId, lastCred, have, up>> => StoreInv' /\ Frame
  BY <1>s, StoreStays
<1>p. LPC = {"idle", "next", "have", "add"} /\ Targets \in SUBSET Nodes
  BY DEF LPC, Targets
<1>w. ASSUME NEW l, loop' = l, l \in LoopRecords, \A u \in Users : l.want[u] <= lastCred,
             UNCHANGED <<row, acct, place, lastId, lastCred, have, up, h>>
      PROVE  Inv'
  <2>1. LoopOf(loop', lastCred')
    BY <1>w DEF LoopOf
  <2> QED BY <1>w, <1>z, <2>1, WorldStep
<1>i. /\ IdleLoop \in LoopRecords /\ \A u \in Users : IdleLoop.want[u] <= lastCred
      /\ NoWant \in [Users -> Nat] /\ \A u \in Users : NoWant[u] <= lastCred
  BY <1>s, IdleLoopOf DEF LoopOf
<1>1. ASSUME ReconcileNodesOnce PROVE Inv'
  <2> DEFINE l == [IdleLoop EXCEPT !.pc = "next", !.todo = Targets]
  <2>1. "next" \in LPC /\ loop' = l /\ UNCHANGED <<row, acct, place, lastId, lastCred, have, up, h>>
    BY <1>1, <1>p DEF ReconcileNodesOnce
  <2>2. l \in LoopRecords /\ l.want = IdleLoop.want
    BY <1>i, <1>p, <2>1 DEF LoopRecords
  <2> HIDE DEF l
  <2> QED BY <1>i, <1>w, <2>1, <2>2
<1>2. ASSUME NEW n \in Nodes, ReadWant(n) PROVE Inv'
  <2> DEFINE want == ListWantedClientsForNode(n)
             l == [loop EXCEPT !.pc = "have", !.n = n, !.todo = loop.todo \ {n}, !.want = want]
  <2>1. loop' = l /\ UNCHANGED <<row, acct, place, lastId, lastCred, have, up, h>>
    BY <1>2, <1>t DEF ReadWant, LoopRecords
  <2>2. want \in [Users -> Nat] /\ \A u \in Users : want[u] <= lastCred
    <3>1. want = [u \in Users |-> IF n \in place[u] /\ acct[u].enabled THEN acct[u].cred ELSE 0]
      BY DEF ListWantedClientsForNode
    <3>2. \A u \in Users : acct[u].cred \in 0..lastCred
      BY <1>s, AccountFacts
    <3>3. want = [u \in Users |-> want[u]]
      BY <3>1, Zenon
    <3>4. \A u \in Users : want[u] = acct[u].cred \/ want[u] = 0
      BY <3>1, Zenon
    <3> HIDE DEF want
    <3> QED BY <1>s, <3>2, <3>3, <3>4
  <2>3. "have" \in LPC /\ loop.todo \ {n} \in SUBSET Nodes
    BY <1>p, <1>t
  <2> HIDE DEF want
  <2>4. l \in LoopRecords /\ l.want = want
    BY <1>t, <2>2, <2>3 DEF LoopRecords
  <2> HIDE DEF l
  <2> QED BY <1>w, <2>1, <2>2, <2>4
<1>3. ASSUME ReadHave PROVE Inv'
  <2> DEFINE want == [u \in Users |-> IF have[loop.n][u] = 0 THEN loop.want[u] ELSE 0]
             l == [loop EXCEPT !.pc = "add", !.want = want]
             m == [loop EXCEPT !.pc = "next", !.want = NoWant]
  <2>1. (loop' = l \/ loop' = m) /\ UNCHANGED <<row, acct, place, lastId, lastCred, have, up, h>>
    BY <1>3, <1>t DEF ReadHave, LoopRecords
  <2>2. want \in [Users -> Nat] /\ \A u \in Users : want[u] <= lastCred
    BY <1>s, <1>t
  <2>3. "add" \in LPC /\ "next" \in LPC
    BY <1>p
  <2> HIDE DEF want
  <2>4. l \in LoopRecords /\ l.want = want
    BY <1>t, <2>2, <2>3 DEF LoopRecords
  <2>5. m \in LoopRecords /\ m.want = NoWant
    BY <1>i, <1>t, <2>3 DEF LoopRecords
  <2> HIDE DEF l, m
  <2> QED BY <1>i, <1>w, <2>1, <2>2, <2>4, <2>5
<1>4. ASSUME NodeDone PROVE Inv'
  <2> DEFINE l == [loop EXCEPT !.pc = "next"]
  <2>1. loop' = l /\ "next" \in LPC /\ UNCHANGED <<row, acct, place, lastId, lastCred, have, up, h>>
    BY <1>4, <1>p DEF NodeDone
  <2>2. l \in LoopRecords /\ l.want = loop.want
    BY <1>t, <2>1 DEF LoopRecords
  <2> HIDE DEF l
  <2> QED BY <1>t, <1>w, <2>1, <2>2
<1>5. ASSUME PassDone PROVE Inv'
  <2>1. loop' = IdleLoop /\ UNCHANGED <<row, acct, place, lastId, lastCred, have, up, h>>
    BY <1>5 DEF PassDone
  <2> QED BY <1>i, <1>w, <2>1
<1>6. ASSUME NEW u \in Users, AddMissing(u) PROVE Inv'
  <2> DEFINE want == [loop.want EXCEPT ![u] = 0]
             l == [loop EXCEPT !.want = want]
  <2>1. /\ AddUserRPC(loop.n, u, loop.want[u])
        /\ UNCHANGED <<row, acct, place, lastId, lastCred, up, h>>
    BY <1>6 DEF AddMissing
  <2>2. loop' = l
    BY <1>6, <1>t DEF AddMissing, LoopRecords
  <2>3. want \in [Users -> Nat] /\ \A v \in Users : want[v] <= lastCred
    BY <1>s, <1>t
  <2> HIDE DEF want
  <2>4. l \in LoopRecords /\ l.want = want
    BY <1>t, <2>3 DEF LoopRecords
  <2> HIDE DEF l
  <2>5. StoreInv' /\ Frame
    <3>1. loop.want[u] \in 0..lastCred' /\ lastCred' \in Nat /\ lastCred <= lastCred'
      BY <1>s, <1>t, <2>1
    <3> QED BY <1>s, <1>t, <2>1, <3>1, RuntimeTypes
  <2>6. LoopOf(loop', lastCred')
    BY <2>1, <2>2, <2>3, <2>4 DEF LoopOf
  <2> QED BY <2>1, <2>5, <2>6, WorldStep
<1> QED BY <1>1, <1>2, <1>3, <1>4, <1>5, <1>6, Zenon DEF Reconcile

(* Nodes restart, go and come, and the server restarts with another        *)
(* configuration: the rows of nodes stay and nobody is placed elsewhere.   *)
LEMMA EnvironmentInv ==
    ASSUME Inv,
           \/ \E n \in Nodes : NodeRestart(n) \/ NodeDown(n) \/ NodeUp(n)
           \/ \E conf \in Configs : ServerRestart(conf)
    PROVE  Inv'
<1>s. StoreInv /\ lastId \in Nat /\ lastCred \in Nat /\ LoopOf(loop, lastCred)
  BY DEF Inv, StoreInv
<1>1. ASSUME NEW n \in Nodes, NodeRestart(n) PROVE Inv'
  <2>1. /\ UNCHANGED <<row, acct, place, lastId, lastCred, up, h, loop>>
        /\ have' = [have EXCEPT ![n] = NoWant]
    BY <1>1 DEF NodeRestart
  <2>2. have' \in [Nodes -> [Users -> 0..lastCred]]
    <3>1. NoWant \in [Users -> 0..lastCred]
      BY <1>s DEF NoWant
    <3> QED BY <1>s, <2>1, <3>1 DEF StoreInv, NodesInv
  <2>3. StoreInv' /\ Frame
    BY <1>s, <2>1, <2>2 DEF StoreInv, NodesInv, Frame
  <2> QED BY <1>s, <2>1, <2>3, WorldStep
<1>2. ASSUME NEW n \in Nodes, NodeDown(n) \/ NodeUp(n) PROVE Inv'
  <2>1. /\ UNCHANGED <<row, acct, place, lastId, lastCred, have, h, loop>>
        /\ up' = up \ {n} \/ up' = up \cup {n}
    BY <1>2 DEF NodeDown, NodeUp
  <2>2. StoreInv' /\ Frame
    BY <1>s, <2>1 DEF StoreInv, NodesInv, Frame
  <2> QED BY <1>s, <2>1, <2>2, WorldStep
<1>3. ASSUME NEW conf \in Configs, ServerRestart(conf) PROVE Inv'
  <2> DEFINE ns == Enabled(conf)
  <2>1. /\ UNCHANGED <<acct, lastId, lastCred, have, up>> /\ row' = Reconciled(row, conf)
        /\ place' = BackfillUserNodesToEnabled(ns)
        /\ h' = [p \in Handlers |-> IdleHandler] /\ loop' = IdleLoop
    BY <1>3, Zenon DEF ServerRestart
  <2>a. conf \in [Nodes -> {"none", "on", "off"}] /\ ns \in SUBSET Nodes
        /\ \A n \in ns : conf[n] = "on"
    BY ConfigsAssumption DEF Enabled
  <2> HIDE DEF ns
  <2>2. row \in [Nodes -> {"none", "on", "off"}]
        /\ place \in [Users -> SUBSET Nodes] /\ \A u \in Users : \A n \in place[u] : row[n] # "none"
    BY <1>s DEF StoreInv, NodesInv
  <2>3. /\ row' \in [Nodes -> {"none", "on", "off"}]
        /\ \A n \in Nodes : (n \in ns \/ row[n] # "none") => row'[n] # "none"
    BY <2>1, <2>2, <2>a DEF Reconciled
  <2>b. place' = [u \in Users |-> IF acct[u].id # 0 /\ place[u] = {} THEN ns ELSE place[u]]
    BY <2>1, Zenon DEF BackfillUserNodesToEnabled
  <2>4. /\ place' \in [Users -> SUBSET Nodes]
        /\ \A u \in Users : place'[u] = place[u] \/ (acct[u].id # 0 /\ place'[u] = ns)
    BY <2>2, <2>a, <2>b
  <2>5. \A u \in Users : \A n \in place'[u] : row'[n] # "none"
    <3> SUFFICES ASSUME NEW u \in Users, NEW n \in place'[u] PROVE row'[n] # "none"
      OBVIOUS
    <3>1. n \in Nodes /\ (n \in ns \/ n \in place[u])
      BY <2>4, <2>a
    <3> QED BY <2>2, <2>3, <3>1
  <2>6. \A u \in Users : acct[u].id = 0 => place'[u] = {}
    BY <1>s, <2>4 DEF StoreInv, NodesInv
  <2>7. Frame
    BY <1>s, <2>1, <2>3 DEF Frame
  <2>8. StoreInv'
    BY <1>s, <2>1, <2>3, <2>4, <2>5, <2>6 DEF StoreInv, NodesInv
  <2>9. HandlerOf(IdleHandler, acct', row', lastId', lastCred')
    BY <1>s, <2>7, IdleHandlerOf
  <2>10. IdleHandler \in HandlerRecords
    BY <2>9 DEF HandlerOf
  <2>11. h' \in [Handlers -> HandlerRecords] /\ \A p \in Handlers : h'[p] = IdleHandler
    BY <2>1, <2>10
  <2>12. HandlersInv'
    BY <2>9, <2>11 DEF HandlersInv, HandlerOf
  <2>13. LoopOf(loop, lastCred)'
    BY <1>s, <2>1, IdleLoopOf DEF LoopOf
  <2> QED BY <2>8, <2>12, <2>13 DEF Inv
<1> QED BY <1>1, <1>2, <1>3

(* The accounts from before are placed on the nodes that are configured.   *)
LEMMA InitInv == Init => Inv
<1> SUFFICES ASSUME Init PROVE Inv
  OBVIOUS
<1>1. PICK conf \in Configs : /\ row = Reconciled([n \in Nodes |-> "none"], conf)
                              /\ place = [u \in Users |-> IF u \in Enrolled THEN Enabled(conf) ELSE {}]
  BY DEF Init
<1>2. /\ conf \in [Nodes -> {"none", "on", "off"}] /\ Enabled(conf) \subseteq Nodes
      /\ \A n \in Enabled(conf) : conf[n] = "on"
  BY ConfigsAssumption DEF Enabled
<1>3. /\ lastId \in {0, 1} /\ lastCred = lastId /\ (Enrolled # {} => lastId = 1)
      /\ up = Nodes /\ h = [p \in Handlers |-> IdleHandler] /\ loop = IdleLoop
      /\ have = [n \in Nodes |-> [u \in Users |-> IF n \in place[u] THEN acct[u].cred ELSE 0]]
  BY DEF Init
<1>4. acct = [u \in Users |-> IF u \in Enrolled THEN [id |-> 1, enabled |-> TRUE, cred |-> 1]
                              ELSE NoAccount]
  BY DEF Init
<1>5. /\ row \in [Nodes -> {"none", "on", "off"}] /\ \A n \in Enabled(conf) : row[n] # "none"
  BY <1>1, <1>2 DEF Reconciled
<1>6. place \in [Users -> SUBSET Nodes] /\ \A u \in Users : \A n \in place[u] : n \in Enabled(conf)
  BY <1>1, <1>2
<1> DEFINE one == [id |-> 1, enabled |-> TRUE, cred |-> 1]
<1>7. one.id = 1 /\ one.cred = 1 /\ NoAccount.id = 0 /\ NoAccount.cred = 0
  BY DEF NoAccount
<1>8. one \in Accounts /\ NoAccount \in Accounts
  BY DEF NoAccount, Accounts
<1> HIDE DEF one
<1>9. ASSUME NEW u \in Users
      PROVE  \/ u \in Enrolled /\ acct[u] = one /\ lastId = 1
             \/ u \notin Enrolled /\ acct[u] = NoAccount /\ place[u] = {}
  BY <1>1, <1>3, <1>4 DEF one
<1>10. acct \in [Users -> [id : 0..lastId, enabled : BOOLEAN, cred : 0..lastCred]]
  <2>1. ASSUME NEW u \in Users
        PROVE  acct[u] \in [id : 0..lastId, enabled : BOOLEAN, cred : 0..lastCred]
    <3>1. /\ acct[u] \in Accounts /\ acct[u].id \in 0..lastId /\ acct[u].cred \in 0..lastCred
      BY <1>3, <1>7, <1>8, <1>9
    <3> QED BY <3>1 DEF Accounts
  <2> QED BY <1>4, <2>1
<1>11. \A u, v \in Users : acct[u].id # 0 /\ acct[u].id = acct[v].id => u = v
  BY <1>7, <1>9, EnrolledAssumption
<1>12. have \in [Nodes -> [Users -> 0..lastCred]]
  <2>1. \A u \in Users : acct[u].cred \in 0..lastCred /\ 0 \in 0..lastCred
    BY <1>3, <1>10
  <2> QED BY <1>3, <2>1
<1>13. \A u \in Users : acct[u].id = 0 => acct[u] = NoAccount /\ place[u] = {}
  BY <1>7, <1>9
<1>14. StoreInv
  BY <1>3, <1>5, <1>6, <1>10, <1>11, <1>12, <1>13 DEF StoreInv, NodesInv
<1>15. /\ IdleHandler \in HandlerRecords /\ IdleHandler.pc = "idle" /\ IdleHandler.id = 0
       /\ IdleHandler.cred = 0 /\ IdleHandler.names = {}
  BY DEF IdleHandler, HandlerRecords, HPC, AllOps
<1>16. HandlersInv
  BY <1>3, <1>15 DEF HandlersInv, HandlerOf
<1>17. LoopOf(loop, lastCred)
  BY <1>3, IdleLoopOf
<1> QED BY <1>14, <1>16, <1>17 DEF Inv

(* Every step keeps the invariant.                                         *)
LEMMA NextInv == Inv /\ [Next]_vars => Inv'
<1> SUFFICES ASSUME Inv, [Next]_vars PROVE Inv'
  OBVIOUS
<1>1. CASE UNCHANGED vars
  <2>1. UNCHANGED <<row, acct, place, lastId, lastCred, have, up, h, loop>>
    BY <1>1 DEF vars
  <2>2. StoreInv' /\ Frame
    BY <2>1, StoreStays DEF Inv
  <2>3. LoopOf(loop', lastCred')
    <3>1. loop' = loop /\ lastCred' = lastCred /\ LoopOf(loop, lastCred)
      BY <2>1 DEF Inv
    <3> QED BY <3>1, Zenon
  <2> QED BY <2>1, <2>2, <2>3, WorldStep
<1>2. CASE Next
  BY <1>2, HandlerInv, ReconcileInv, EnvironmentInv DEF Next
<1> QED BY <1>1, <1>2

(* The invariant holds throughout.                                         *)
LEMMA Invariant == Spec => []Inv
<1> QED BY InitInv, NextInv, PTL DEF Spec

(* Only existing accounts are placed, and only on nodes with a row; every  *)
(* node's runtime holds credentials that were given out.                   *)
THEOREM NodesInvariant == Spec => []NodesInv
<1>1. Inv => NodesInv
  BY DEF Inv, StoreInv
<1> QED BY <1>1, Invariant, PTL

(* A request works by row id in the database and by name on the nodes: the *)
(* two never come apart, however requests overlap, users are deleted and   *)
(* made anew, and the server restarts.                                     *)
OwnAccount ==
    \A p \in Handlers, u \in Users : h[p].id # 0 /\ acct[u].id = h[p].id => u = h[p].u

(* What a request still has to do it does for its own account or for none. *)
THEOREM RequestsOwnAccount == Spec => []OwnAccount
<1>1. Inv => OwnAccount
  BY DEF Inv, HandlersInv, HandlerOf, OwnAccount
<1> QED BY <1>1, Invariant, PTL

(* Nobody who has a placement is moved but by a request that places that   *)
(* very account: no restart of the server, no reconcile pass and no step   *)
(* of another request does it.                                             *)
THEOREM NodesPlacement == Spec => PlacementKept
<1> DEFINE Kept == \A u \in Users :
             (place[u] # {} /\ acct'[u].id = acct[u].id /\ place'[u] # place[u]) =>
               \E p \in Handlers : h[p].pc = "place" /\ h[p].id = acct[u].id
<1>1. ASSUME Inv, [Next]_vars PROVE [Kept]_vars
  <2>t. place \in [Users -> SUBSET Nodes] /\ \A u \in Users : place[u] # {} => acct[u].id # 0
    BY <1>1 DEF Inv, StoreInv, NodesInv
  <2>1. ASSUME UNCHANGED place PROVE Kept
    BY <2>1
  <2>2. ASSUME NEW p \in Handlers, Place(p) PROVE Kept
    <3>1. \A u \in Users : acct[u].id # h[p].id => place'[u] = place[u]
      BY <2>2, <2>t DEF Place, SetUserNodes, RemoveUserFromNode
    <3>2. h[p].pc = "place"
      BY <2>2 DEF Place
    <3> QED BY <3>1, <3>2
  <2>3. ASSUME NEW p \in Handlers, DeleteAccount(p) PROVE Kept
    <3>1. \A u \in Users : IF acct[u].id = h[p].id THEN acct'[u] = NoAccount ELSE place'[u] = place[u]
      BY <2>3, <2>t DEF DeleteAccount, DeleteUser
    <3>2. NoAccount.id = 0
      BY DEF NoAccount
    <3> QED BY <2>t, <3>1, <3>2
  <2>4. ASSUME NEW conf \in Configs, ServerRestart(conf) PROVE Kept
    BY <2>4, <2>t DEF ServerRestart, BackfillUserNodesToEnabled
  <2>5. ASSUME NEW p \in Handlers, Handler(p), ~Place(p), ~DeleteAccount(p) PROVE UNCHANGED place
    BY <2>5, Zenon DEF Handler, Request, InsertUser, GetByID, Flag, ReadClient, StoreClient, FanoutDone,
       FanoutAddClient, FanoutAddExistingClient, FanoutRemoveClient
  <2>6. ASSUME Reconcile PROVE UNCHANGED place
    BY <2>6 DEF Reconcile, ReconcileNodesOnce, ReadWant, ReadHave, AddMissing, NodeDone, PassDone
  <2>7. ASSUME NEW n \in Nodes, NodeRestart(n) \/ NodeDown(n) \/ NodeUp(n) PROVE UNCHANGED place
    BY <2>7 DEF NodeRestart, NodeDown, NodeUp
  <2> HIDE DEF Kept
  <2> QED BY <1>1, <2>1, <2>2, <2>3, <2>4, <2>5, <2>6, <2>7, Zenon DEF Next, vars
<1> QED BY <1>1, Invariant, PTL DEF Spec, PlacementKept

(***************************************************************************)
(* A disabled or deleted user is on no node, while requests and passes do  *)
(* not overlap, every node can be reached and the configuration stays.     *)
(***************************************************************************)

Config == Enabled(CHOOSE conf \in Configs : TRUE)

(* Whoever a node has is enabled, under a credential that is stored; ac    *)
(* and hv are acct and have.                                               *)
Known(u, ac, hv) == \A n \in Nodes : hv[n][u] # 0 => ac[u].enabled /\ ac[u].cred # 0

(* What a request q in progress has done to its account.                   *)
RequestOf(q, ac, hv) ==
    /\ q.pc # "account" => ac[q.u].id = q.id
    /\ q.pc \in {"account", "flag", "place", "push"} => Known(q.u, ac, hv)
    /\ q.pc = "add" =>
         ac[q.u].enabled /\ q.todo \subseteq Config /\ \A n \in Nodes : hv[n][q.u] # 0 => q.cred # 0
    /\ q.pc = "client" =>
         /\ q.op = "enableUser" => ac[q.u].enabled
         /\ \A n \in Nodes : hv[n][q.u] # 0 => ac[q.u].cred # 0
    /\ q.pc = "push" =>
         /\ q.op = "enableUser" /\ ac[q.u].enabled
         /\ q.todo \subseteq Config /\ q.cred = ac[q.u].cred /\ (q.todo # {} => q.cred # 0)
    /\ q.pc = "remove" => \A n \in Nodes : hv[n][q.u] # 0 => n \in q.todo
    /\ q.pc = "delete" => \A n \in Nodes : hv[n][q.u] = 0

(* Whom the loop is about to add is enabled.                               *)
PassOf(l, ac) ==
    /\ l.todo \subseteq Config
    /\ l.pc \in {"have", "add"} =>
         l.n \in Config /\ \A u \in Users : l.want[u] # 0 => ac[u].enabled /\ ac[u].cred # 0

(* One request or pass at a time.                                          *)
AloneInv ==
    \A p \in Handlers : h[p].pc # "idle" =>
      loop.pc = "idle" /\ \A q \in Handlers \ {p} : h[q].pc = "idle"

(* Every node can be reached, those that are on are the configured ones,   *)
(* and no other node has anybody.                                          *)
FleetInv ==
    /\ up = Nodes /\ Targets = Config
    /\ \A n \in Nodes, u \in Users : have[n][u] # 0 => n \in Config

(* The inductive invariant behind DisabledOut.                             *)
OutInv ==
    /\ FleetInv /\ AloneInv
    /\ \A u \in Users : (\E p \in Handlers : h[p].pc # "idle" /\ h[p].u = u) \/ Known(u, acct, have)
    /\ \A p \in Handlers : h[p].pc # "idle" => RequestOf(h[p], acct, have)
    /\ PassOf(loop, acct)

(* What the step of a request in progress leaves behind.                   *)
OwnStep(p) ==
    /\ UNCHANGED <<row, up, loop>>
    /\ \A q \in Handlers \ {p} : h'[q] = h[q]
    /\ \A v \in Users \ {h[p].u} : acct'[v] = acct[v] /\ \A n \in Nodes : have'[n][v] = have[n][v]
    /\ \A n \in Nodes : have'[n][h[p].u] # 0 => n \in Config
    /\ IF h'[p].pc = "idle" THEN Known(h[p].u, acct', have')
       ELSE h'[p].u = h[p].u /\ RequestOf(h'[p], acct', have')

(* The enabled nodes are those of any of the possible configurations.      *)
LEMMA ConfigFacts ==
    ASSUME Steady, NEW conf \in Configs
    PROVE  /\ Enabled(conf) = Config /\ Config \subseteq Nodes
           /\ conf \in [Nodes -> {"none", "on", "off"}]
           /\ \A n \in Nodes : conf[n] = "on" <=> n \in Config
<1>1. (CHOOSE c \in Configs : TRUE) \in Configs
  OBVIOUS
<1>2. Enabled(conf) = Config
  BY <1>1, Zenon DEF Config, Steady
<1> QED BY <1>2, ConfigsAssumption DEF Enabled

(* What the invariants say of a request in progress.                       *)
LEMMA OwnFacts ==
    ASSUME Inv, OutInv, NEW p \in Handlers, h[p].pc # "idle"
    PROVE  /\ h[p] \in HandlerRecords /\ h[p].u \in Users /\ h \in [Handlers -> HandlerRecords]
           /\ acct \in [Users -> Accounts] /\ have \in [Nodes -> [Users -> Nat]]
           /\ lastId \in Nat /\ lastCred \in Nat
           /\ RequestOf(h[p], acct, have)
           /\ h[p].pc # "account" => h[p].id # 0 /\ \A v \in Users : acct[v].id = h[p].id <=> v = h[p].u
           /\ \A n \in Nodes, v \in Users : have[n][v] # 0 => n \in Config
           /\ up = Nodes /\ Targets = Config /\ loop.pc = "idle"
           /\ \A q \in Handlers \ {p} : h[q].pc = "idle"
<1>1. /\ StoreInv /\ h \in [Handlers -> HandlerRecords] /\ HandlerOf(h[p], acct, row, lastId, lastCred)
  BY DEF Inv, HandlersInv
<1>2. h[p].u \in Users /\ h[p] \in HandlerRecords /\ lastId \in Nat /\ lastCred \in Nat
  BY <1>1 DEF HandlerOf, StoreInv
<1>3. acct \in [Users -> Accounts] /\ have \in [Nodes -> [Users -> Nat]]
  <2>1. /\ acct \in [Users -> [id : 0..lastId, enabled : BOOLEAN, cred : 0..lastCred]]
        /\ have \in [Nodes -> [Users -> 0..lastCred]]
    BY <1>1 DEF StoreInv, NodesInv
  <2>2. \A v \in Users : acct[v] \in Accounts
    BY <1>1, AccountFacts
  <2>3. 0..lastCred \subseteq Nat
    BY <1>2
  <2> QED BY <2>1, <2>2, <2>3
<1>4. RequestOf(h[p], acct, have) /\ FleetInv /\ AloneInv
  BY DEF OutInv
<1>5. h[p].pc # "account" => h[p].id # 0
  BY <1>1, <1>2 DEF HandlerOf
<1>6. h[p].pc # "account" => \A v \in Users : acct[v].id = h[p].id <=> v = h[p].u
  BY <1>1, <1>4, <1>5 DEF HandlerOf, RequestOf
<1> QED BY <1>1, <1>2, <1>3, <1>4, <1>5, <1>6 DEF FleetInv, AloneInv

(* Every step of a request in progress.                                    *)
LEMMA OwnSteps ==
    ASSUME Inv, OutInv, Steady, NEW p \in Handlers, h[p].pc # "idle", Handler(p)
    PROVE  OwnStep(p)
<1> DEFINE r == h[p]
           u == h[p].u
           Still == UNCHANGED <<row, up, loop>>
<1>c. /\ r \in HandlerRecords /\ u \in Users /\ h \in [Handlers -> HandlerRecords]
      /\ acct \in [Users -> Accounts] /\ have \in [Nodes -> [Users -> Nat]]
      /\ lastId \in Nat /\ lastCred \in Nat
      /\ RequestOf(r, acct, have)
      /\ r.pc # "account" => r.id # 0 /\ \A v \in Users : acct[v].id = r.id <=> v = u
      /\ \A n \in Nodes, v \in Users : have[n][v] # 0 => n \in Config
      /\ up = Nodes /\ Targets = Config
  BY OwnFacts
<1>f. /\ r.todo \subseteq Nodes /\ r.cred \in Nat /\ r.op \in AllOps
      /\ acct[u] \in Accounts /\ acct[u].cred \in Nat /\ acct[u].enabled \in BOOLEAN
  BY <1>c DEF HandlerRecords, Accounts
<1>g. ASSUME NEW q, Goto(p, q), Still,
             \A v \in Users \ {u} : acct'[v] = acct[v] /\ \A n \in Nodes : have'[n][v] = have[n][v],
             \A n \in Nodes : have'[n][u] # 0 => n \in Config,
             IF q.pc = "idle" THEN Known(u, acct', have') ELSE q.u = u /\ RequestOf(q, acct', have')
      PROVE  OwnStep(p)
  <2>1. h'[p] = q /\ \A t \in Handlers \ {p} : h'[t] = h[t]
    BY <1>c, <1>g DEF Goto
  <2> QED BY <1>g, <2>1 DEF OwnStep
<1>s. ASSUME NEW q, Goto(p, q), Still, UNCHANGED <<acct, have>>,
             IF q.pc = "idle" THEN Known(u, acct, have) ELSE q.u = u /\ RequestOf(q, acct, have)
      PROVE  OwnStep(p)
  BY <1>c, <1>g, <1>s
<1>i. IdleHandler.pc = "idle"
  BY DEF IdleHandler
<1>1. ASSUME InsertUser(p) PROVE OwnStep(p)
  <2> DEFINE w == [id |-> lastId + 1, enabled |-> TRUE, cred |-> 0]
             q == [r EXCEPT !.id = lastId + 1, !.todo = Targets, !.pc = "add"]
  <2>1. r.pc = "account" /\ Still /\ UNCHANGED have
    BY <1>1 DEF InsertUser
  <2>2. Known(u, acct, have)
    BY <1>c, <2>1 DEF RequestOf
  <2>3. CASE acct[u].id # 0
    <3>1. Goto(p, IdleHandler) /\ UNCHANGED acct
      BY <1>1, <2>3 DEF InsertUser, Finish
    <3> QED BY <1>i, <1>s, <2>1, <2>2, <3>1
  <2>4. CASE acct[u].id = 0
    <3>1. acct' = [acct EXCEPT ![u] = w] /\ Goto(p, q)
      BY <1>1, <2>4 DEF InsertUser
    <3>2. w.id = lastId + 1 /\ w.enabled = TRUE
      OBVIOUS
    <3> HIDE DEF w
    <3>3. acct'[u] = w /\ \A v \in Users \ {u} : acct'[v] = acct[v]
      BY <1>c, <3>1
    <3>4. acct[u] = NoAccount
      BY <1>c, <2>4 DEF Inv, StoreInv, NodesInv
    <3>5. \A n \in Nodes : have[n][u] = 0
      BY <2>2, <3>4 DEF Known, NoAccount
    <3>6. q.pc = "add" /\ q.u = u /\ q.id = lastId + 1 /\ q.todo = Config
      BY <1>c DEF HandlerRecords
    <3> HIDE DEF q
    <3>7. RequestOf(q, acct', have')
      BY <2>1, <3>2, <3>3, <3>5, <3>6 DEF RequestOf
    <3> QED BY <1>c, <1>g, <2>1, <3>1, <3>3, <3>6, <3>7
  <2> QED BY <2>3, <2>4
<1>2. ASSUME GetByID(p) PROVE OwnStep(p)
  <2> DEFINE pc == CASE r.op \in {"setUserNodes", "deleteUserNode"} -> "place"
                     [] r.op = "deleteUser" -> "client"
                     [] OTHER -> "flag"
             q == [r EXCEPT !.id = acct[u].id, !.pc = pc]
  <2>1. r.pc = "account" /\ Still /\ UNCHANGED <<acct, have>> /\ (Goto(p, IdleHandler) \/ Goto(p, q))
    BY <1>2, Zenon DEF GetByID, Finish
  <2>2. Known(u, acct, have)
    BY <1>c, <2>1 DEF RequestOf
  <2>3. pc \in {"place", "client", "flag"} /\ (pc = "client" => r.op = "deleteUser")
    OBVIOUS
  <2> HIDE DEF pc
  <2>4. q.pc = pc /\ q.u = u /\ q.id = acct[u].id /\ q.op = r.op
    BY <1>c DEF HandlerRecords
  <2> HIDE DEF q
  <2>5. RequestOf(q, acct, have)
    BY <2>2, <2>3, <2>4 DEF RequestOf, Known
  <2> QED BY <1>i, <1>s, <2>1, <2>2, <2>3, <2>4, <2>5
<1>3. ASSUME Flag(p) PROVE OwnStep(p)
  <2> DEFINE b == r.op = "enableUser"
             q == [r EXCEPT !.pc = "client"]
  <2>1. /\ r.pc = "flag" /\ Still /\ UNCHANGED have /\ Goto(p, q)
        /\ acct' = [v \in Users |-> IF acct[v].id = r.id THEN [acct[v] EXCEPT !.enabled = b] ELSE acct[v]]
    BY <1>3, Zenon DEF Flag, SetUserEnabled
  <2>2. acct'[u] = [acct[u] EXCEPT !.enabled = b] /\ \A v \in Users \ {u} : acct'[v] = acct[v]
    BY <1>c, <2>1, Zenon
  <2>3. b \in BOOLEAN
    OBVIOUS
  <2> HIDE DEF b
  <2>4. acct'[u].id = acct[u].id /\ acct'[u].cred = acct[u].cred /\ acct'[u].enabled = b
    BY <1>f, <2>2 DEF Accounts
  <2>5. q.pc = "client" /\ q.u = u /\ q.id = r.id /\ q.op = r.op
    BY <1>c DEF HandlerRecords
  <2>7. q.op = "enableUser" => b
    BY <2>5 DEF b
  <2>8. acct[u].id = r.id /\ \A n \in Nodes : have[n][u] # 0 => acct[u].cred # 0
    BY <1>c, <2>1, Zenon DEF RequestOf, Known
  <2> HIDE DEF q
  <2>6. RequestOf(q, acct', have')
    BY <2>1, <2>4, <2>5, <2>7, <2>8, Zenon DEF RequestOf
  <2> QED BY <1>c, <1>g, <2>1, <2>2, <2>5, <2>6
<1>4. ASSUME ReadClient(p) PROVE OwnStep(p)
  <2> DEFINE c == GetUserClients(r.id)
             pc == IF r.op = "enableUser" THEN "push" ELSE "remove"
             todo == IF c = 0 THEN {} ELSE Targets
             q == [r EXCEPT !.cred = c, !.todo = todo, !.pc = pc]
  <2>1. r.pc = "client" /\ Still /\ UNCHANGED <<acct, have>> /\ Goto(p, q)
    BY <1>4, Zenon DEF ReadClient
  <2>2. c = acct[u].cred
    <3>1. (\E v \in Users : acct[v].id = r.id) /\ (CHOOSE v \in Users : acct[v].id = r.id) = u
      BY <1>c, <2>1
    <3> QED BY <3>1, Zenon DEF GetUserClients
  <2>3. pc \in {"push", "remove"} /\ (pc = "push" <=> r.op = "enableUser")
        /\ todo = IF c = 0 THEN {} ELSE Config
    BY <1>c
  <2> HIDE DEF c, pc, todo
  <2>4. q.pc = pc /\ q.u = u /\ q.id = r.id /\ q.op = r.op /\ q.cred = c /\ q.todo = todo
    BY <1>c DEF HandlerRecords
  <2> HIDE DEF q
  <2>5. /\ acct[u].id = r.id /\ (r.op = "enableUser" => acct[u].enabled)
        /\ \A n \in Nodes : have[n][u] # 0 => acct[u].cred # 0 /\ n \in Config
    BY <1>c, <2>1, Zenon DEF RequestOf
  <2>6. RequestOf(q, acct, have)
    BY <2>2, <2>3, <2>4, <2>5 DEF RequestOf, Known
  <2> QED BY <1>s, <2>1, <2>3, <2>4, <2>6
<1>5. ASSUME StoreClient(p) PROVE OwnStep(p)
  <2> DEFINE q == [r EXCEPT !.pc = "place"]
  <2>1. /\ r.pc = "add" /\ Still /\ UNCHANGED have /\ Goto(p, q)
        /\ IF r.cred = 0 THEN UNCHANGED acct ELSE UpsertUserClient(r.id, r.cred)
    BY <1>5, Zenon DEF StoreClient
  <2>2. q.pc = "place" /\ q.u = u /\ q.id = r.id
    BY <1>c DEF HandlerRecords
  <2> HIDE DEF q
  <2>3. /\ acct[u].id = r.id /\ acct[u].enabled
        /\ \A n \in Nodes : have[n][u] # 0 => r.cred # 0
    BY <1>c, <2>1 DEF RequestOf
  <2>4. CASE r.cred = 0
    <3>1. RequestOf(q, acct, have)
      BY <2>2, <2>3, <2>4 DEF RequestOf, Known
    <3> QED BY <1>s, <2>1, <2>2, <2>4, <3>1
  <2>5. CASE r.cred # 0
    <3>1. acct' = [v \in Users |-> IF acct[v].id = r.id THEN [acct[v] EXCEPT !.cred = r.cred] ELSE acct[v]]
      BY <2>1, <2>5 DEF UpsertUserClient
    <3>2. acct'[u] = [acct[u] EXCEPT !.cred = r.cred] /\ \A v \in Users \ {u} : acct'[v] = acct[v]
      BY <1>c, <2>1, <3>1, Zenon
    <3>3. acct'[u].id = acct[u].id /\ acct'[u].cred = r.cred /\ acct'[u].enabled = acct[u].enabled
      BY <1>f, <3>2 DEF Accounts
    <3>4. RequestOf(q, acct', have')
      BY <2>1, <2>2, <2>3, <2>5, <3>3 DEF RequestOf, Known
    <3> QED BY <1>c, <1>g, <2>1, <2>2, <3>2, <3>4
  <2> QED BY <2>4, <2>5
<1>6. ASSUME FanoutDone(p) PROVE OwnStep(p)
  <2> DEFINE q == [r EXCEPT !.pc = "delete"]
  <2>1. /\ r.pc \in {"push", "remove"} /\ r.todo = {} /\ Still /\ UNCHANGED <<acct, have>>
        /\ IF r.op = "deleteUser" THEN Goto(p, q) ELSE Goto(p, IdleHandler)
    BY <1>6, Zenon DEF FanoutDone, Finish
  <2>2. q.pc = "delete" /\ q.u = u /\ q.id = r.id
    BY <1>c DEF HandlerRecords
  <2> HIDE DEF q
  <2>3. acct[u].id = r.id /\ Known(u, acct, have)
    BY <1>c, <2>1 DEF RequestOf, Known
  <2>4. r.op = "deleteUser" => r.pc = "remove"
    BY <1>c, <2>1 DEF RequestOf
  <2>5. r.op = "deleteUser" => RequestOf(q, acct, have)
    BY <1>c, <2>1, <2>2, <2>3, <2>4 DEF RequestOf
  <2> QED BY <1>i, <1>s, <2>1, <2>2, <2>3, <2>5
<1>7. ASSUME DeleteAccount(p) PROVE OwnStep(p)
  <2>1. /\ r.pc = "delete" /\ Still /\ UNCHANGED have /\ Goto(p, IdleHandler)
        /\ acct' = [v \in Users |-> IF acct[v].id = r.id THEN NoAccount ELSE acct[v]]
    BY <1>7, Zenon DEF DeleteAccount, DeleteUser, Finish
  <2>2. \A v \in Users \ {u} : acct'[v] = acct[v]
    BY <1>c, <2>1, Zenon
  <2>3. \A n \in Nodes : have[n][u] = 0
    BY <1>c, <2>1 DEF RequestOf
  <2>4. Known(u, acct', have')
    BY <2>1, <2>3 DEF Known
  <2> QED BY <1>c, <1>g, <1>i, <2>1, <2>2, <2>4
<1>8. ASSUME Place(p) PROVE OwnStep(p)
  <2>1. r.pc = "place" /\ Still /\ UNCHANGED <<acct, have>> /\ Goto(p, IdleHandler)
    BY <1>8, Zenon DEF Place, Finish
  <2>2. Known(u, acct, have)
    BY <1>c, <2>1 DEF RequestOf
  <2> QED BY <1>i, <1>s, <2>1, <2>2
<1>n. ASSUME NEW n \in Nodes, NEW c, have' = [have EXCEPT ![n][u] = c]
      PROVE  /\ have'[n][u] = c
             /\ \A m \in Nodes \ {n} : have'[m][u] = have[m][u]
             /\ \A v \in Users \ {u}, m \in Nodes : have'[m][v] = have[m][v]
  BY <1>c, <1>n
<1>9. ASSUME NEW n \in Nodes, FanoutAddClient(p, n) PROVE OwnStep(p)
  <2> DEFINE c == lastCred + 1
             b == CanAdd(n, u)
             q == [r EXCEPT !.todo = @ \ {n}, !.cred = IF b /\ @ = 0 THEN c ELSE @]
  <2>1. r.pc = "add" /\ n \in r.todo /\ Still /\ UNCHANGED acct /\ Goto(p, q) /\ AddUserRPC(n, u, c)
    BY <1>9, Zenon DEF FanoutAddClient
  <2>2. b <=> have[n][u] = 0
    BY <1>c DEF CanAdd
  <2>3. have' = IF b THEN [have EXCEPT ![n][u] = c] ELSE have
    BY <2>1 DEF AddUserRPC
  <2>4. c # 0 /\ c \in Nat
    BY <1>c
  <2> HIDE DEF b, c
  <2>5. q.pc = "add" /\ q.u = u /\ q.id = r.id /\ q.todo = r.todo \ {n}
        /\ q.cred = IF b /\ r.cred = 0 THEN c ELSE r.cred
    BY <1>c, <2>1 DEF HandlerRecords
  <2> HIDE DEF q
  <2>6. /\ acct[u].id = r.id /\ acct[u].enabled /\ r.todo \subseteq Config
        /\ \A m \in Nodes : have[m][u] # 0 => r.cred # 0
    BY <1>c, <2>1 DEF RequestOf
  <2>7. /\ \A m \in Nodes \ {n} : have'[m][u] = have[m][u]
        /\ \A v \in Users \ {u}, m \in Nodes : have'[m][v] = have[m][v]
        /\ have'[n][u] = IF b THEN c ELSE have[n][u]
    <3>1. CASE b
      <4>1. have' = [have EXCEPT ![n][u] = c]
        BY <2>3, <3>1, Zenon
      <4>2. /\ have'[n][u] = c
            /\ \A m \in Nodes \ {n} : have'[m][u] = have[m][u]
            /\ \A v \in Users \ {u}, m \in Nodes : have'[m][v] = have[m][v]
        BY <1>n, <4>1, Zenon
      <4> QED BY <3>1, <4>2, Zenon
    <3>2. CASE ~b
      BY <2>3, <3>2
    <3> QED BY <3>1, <3>2
  <2>8. \A m \in Nodes : have'[m][u] # 0 => q.cred # 0 /\ m \in Config
    BY <1>c, <2>1, <2>2, <2>4, <2>5, <2>6, <2>7
  <2>9. RequestOf(q, acct', have')
    BY <2>1, <2>5, <2>6, <2>8 DEF RequestOf
  <2> QED BY <1>c, <1>g, <2>1, <2>5, <2>7, <2>8, <2>9
<1>10. ASSUME NEW n \in Nodes, FanoutAddExistingClient(p, n) PROVE OwnStep(p)
  <2> DEFINE c == r.cred
             b == CanAdd(n, u)
             q == [r EXCEPT !.todo = @ \ {n}]
  <2>1. r.pc = "push" /\ n \in r.todo /\ Still /\ UNCHANGED acct /\ Goto(p, q) /\ AddUserRPC(n, u, c)
    BY <1>10, Zenon DEF FanoutAddExistingClient
  <2>3. have' = IF b THEN [have EXCEPT ![n][u] = c] ELSE have
    BY <2>1 DEF AddUserRPC
  <2> HIDE DEF b, c
  <2>5. q.pc = "push" /\ q.u = u /\ q.id = r.id /\ q.todo = r.todo \ {n} /\ q.cred = r.cred
        /\ q.op = r.op
    BY <1>c, <2>1 DEF HandlerRecords
  <2> HIDE DEF q
  <2>6. /\ acct[u].id = r.id /\ acct[u].enabled /\ r.todo \subseteq Config
        /\ r.cred = acct[u].cred /\ r.cred # 0 /\ r.op = "enableUser"
    BY <1>c, <2>1 DEF RequestOf
  <2>7. /\ \A m \in Nodes \ {n} : have'[m][u] = have[m][u]
        /\ \A v \in Users \ {u}, m \in Nodes : have'[m][v] = have[m][v]
        /\ have'[n][u] = IF b THEN c ELSE have[n][u]
    <3>1. CASE b
      <4>1. have' = [have EXCEPT ![n][u] = c]
        BY <2>3, <3>1, Zenon
      <4>2. /\ have'[n][u] = c
            /\ \A m \in Nodes \ {n} : have'[m][u] = have[m][u]
            /\ \A v \in Users \ {u}, m \in Nodes : have'[m][v] = have[m][v]
        BY <1>n, <4>1, Zenon
      <4> QED BY <3>1, <4>2, Zenon
    <3>2. CASE ~b
      BY <2>3, <3>2
    <3> QED BY <3>1, <3>2
  <2>8. \A m \in Nodes : have'[m][u] # 0 => m \in Config
    BY <1>c, <2>1, <2>6, <2>7
  <2>9. RequestOf(q, acct', have')
    BY <2>1, <2>5, <2>6 DEF RequestOf, Known
  <2> QED BY <1>c, <1>g, <2>1, <2>5, <2>7, <2>8, <2>9
<1>11. ASSUME NEW n \in Nodes, FanoutRemoveClient(p, n) PROVE OwnStep(p)
  <2> DEFINE q == [r EXCEPT !.todo = @ \ {n}]
  <2>1. /\ r.pc = "remove" /\ Still /\ UNCHANGED acct /\ Goto(p, q)
        /\ have' = [have EXCEPT ![n][u] = 0]
    BY <1>11, <1>c DEF FanoutRemoveClient, RemoveUserRPC
  <2>2. q.pc = "remove" /\ q.u = u /\ q.id = r.id /\ q.todo = r.todo \ {n}
    BY <1>c, <2>1 DEF HandlerRecords
  <2> HIDE DEF q
  <2>3. acct[u].id = r.id /\ \A m \in Nodes : have[m][u] # 0 => m \in r.todo
    BY <1>c, <2>1 DEF RequestOf
  <2>4. /\ have'[n][u] = 0 /\ \A m \in Nodes \ {n} : have'[m][u] = have[m][u]
        /\ \A v \in Users \ {u}, m \in Nodes : have'[m][v] = have[m][v]
    BY <1>n, <2>1
  <2>5. \A m \in Nodes : have'[m][u] # 0 => m \in q.todo /\ m \in Config
    BY <1>c, <2>2, <2>3, <2>4
  <2>6. RequestOf(q, acct', have')
    BY <2>1, <2>2, <2>3, <2>5 DEF RequestOf
  <2> QED BY <1>c, <1>g, <2>1, <2>2, <2>4, <2>5, <2>6
<1>12. \A o, v, ns : ~Request(p, o, v, ns)
  BY DEF Request
<1> QED BY <1>1, <1>2, <1>3, <1>4, <1>5, <1>6, <1>7, <1>8, <1>9, <1>10, <1>11, <1>12, Zenon DEF Handler

(* One step of a request keeps the invariant.                              *)
LEMMA OwnKept ==
    ASSUME Inv, OutInv, NEW p \in Handlers, h[p].pc # "idle", OwnStep(p)
    PROVE  OutInv'
<1> DEFINE u == h[p].u
<1>c. /\ u \in Users /\ up = Nodes /\ Targets = Config /\ loop.pc = "idle"
      /\ \A n \in Nodes, v \in Users : have[n][v] # 0 => n \in Config
      /\ \A q \in Handlers \ {p} : h[q].pc = "idle"
  BY OwnFacts
<1>1. /\ UNCHANGED <<row, up, loop>> /\ \A q \in Handlers \ {p} : h'[q] = h[q]
      /\ \A v \in Users \ {u} : acct'[v] = acct[v] /\ \A n \in Nodes : have'[n][v] = have[n][v]
      /\ \A n \in Nodes : have'[n][u] # 0 => n \in Config
      /\ h'[p].pc = "idle" => Known(u, acct', have')
      /\ h'[p].pc # "idle" => h'[p].u = u /\ RequestOf(h'[p], acct', have')
  BY DEF OwnStep
<1>2. FleetInv'
  BY <1>1, <1>c DEF FleetInv, Targets
<1>3. AloneInv'
  BY <1>1, <1>c DEF AloneInv
<1>4. \A q \in Handlers : h'[q].pc # "idle" => RequestOf(h'[q], acct', have')
  BY <1>1, <1>c
<1>5. ASSUME NEW v \in Users, ~\E q \in Handlers : h'[q].pc # "idle" /\ h'[q].u = v
      PROVE  Known(v, acct', have')
  <2>1. CASE v = u
    BY <1>1, <1>5, <2>1
  <2>2. CASE v # u
    <3>1. Known(v, acct, have)
      BY <1>c, <2>2 DEF OutInv
    <3> QED BY <1>1, <2>2, <3>1 DEF Known
  <2> QED BY <2>1, <2>2
<1>6. PassOf(loop', acct')
  BY <1>1, <1>c DEF OutInv, PassOf
<1> QED BY <1>2, <1>3, <1>4, <1>5, <1>6, Zenon DEF OutInv

(* A request that arrives finds everything at rest.                        *)
LEMMA OutArrives ==
    ASSUME Inv, OutInv, Steady, NEW p \in Handlers, NEW o, NEW u \in Users, NEW ns, Request(p, o, u, ns)
    PROVE  OutInv'
<1> DEFINE q == [IdleHandler EXCEPT !.pc = "account", !.op = o, !.u = u, !.names = ns]
<1>1. AtRest /\ h' = [h EXCEPT ![p] = q] /\ UNCHANGED <<row, up, loop, acct, have>>
  BY DEF Request, Steady, Goto
<1>2. q.pc = "account" /\ q.u = u
  BY DEF IdleHandler
<1> HIDE DEF q
<1>h. h \in [Handlers -> HandlerRecords]
  BY DEF Inv, HandlersInv
<1>3. h'[p] = q /\ \A t \in Handlers \ {p} : h'[t] = h[t]
  BY <1>1, <1>h
<1>4. (\A t \in Handlers : h[t].pc = "idle") /\ loop.pc = "idle"
  BY <1>1 DEF AtRest, HandlersIdle
<1>5. \A v \in Users : Known(v, acct, have)
  BY <1>4 DEF OutInv
<1>6. FleetInv' /\ AloneInv'
  BY <1>1, <1>3, <1>4 DEF OutInv, FleetInv, AloneInv, Targets
<1>7. RequestOf(q, acct, have)
  BY <1>2, <1>5 DEF RequestOf
<1>8. \A t \in Handlers : h'[t].pc # "idle" => RequestOf(h'[t], acct', have')
  BY <1>1, <1>3, <1>4, <1>7
<1>9. PassOf(loop', acct') /\ \A v \in Users : Known(v, acct', have')
  BY <1>1, <1>5 DEF OutInv
<1> QED BY <1>6, <1>8, <1>9, Zenon DEF OutInv

(* A step of the loop: it adds whom it listed, and that is still right     *)
(* since no request is in progress.                                        *)
LEMMA OutPasses ==
    ASSUME Inv, OutInv, Steady, Reconcile
    PROVE  OutInv'
<1>t. /\ loop \in LoopRecords /\ have \in [Nodes -> [Users -> Nat]] /\ loop.n \in Nodes
      /\ loop.want \in [Users -> Nat]
  <2>1. loop \in LoopRecords /\ have \in [Nodes -> [Users -> 0..lastCred]] /\ lastCred \in Nat
    BY DEF Inv, LoopOf, StoreInv, NodesInv
  <2>2. 0..lastCred \subseteq Nat
    BY <2>1
  <2> QED BY <2>1, <2>2 DEF LoopRecords
<1>1. UNCHANGED <<row, acct, up, h>>
  BY DEF Reconcile, ReconcileNodesOnce, ReadWant, ReadHave, AddMissing, NodeDone, PassDone
<1>2. \A p \in Handlers : h[p].pc = "idle"
  <2>1. loop.pc # "idle" \/ AtRest
    BY DEF Reconcile, ReconcileNodesOnce, ReadWant, ReadHave, AddMissing, NodeDone, PassDone, Steady
  <2> QED BY <2>1 DEF OutInv, AloneInv, AtRest, HandlersIdle
<1>3. /\ \A u \in Users : Known(u, acct, have)
      /\ PassOf(loop, acct) /\ FleetInv
  BY <1>2 DEF OutInv
<1>g. ASSUME PassOf(loop', acct),
             \A n \in Nodes, u \in Users : have'[n][u] # 0 =>
                n \in Config /\ acct[u].enabled /\ acct[u].cred # 0
      PROVE  OutInv'
  <2>1. FleetInv'
    BY <1>1, <1>3, <1>g DEF FleetInv, Targets
  <2>2. AloneInv' /\ \A p \in Handlers : h'[p].pc = "idle"
    BY <1>1, <1>2 DEF AloneInv
  <2>3. \A u \in Users : Known(u, acct', have')
    BY <1>1, <1>g DEF Known
  <2>4. PassOf(loop', acct')
    BY <1>1, <1>g
  <2> QED BY <2>1, <2>2, <2>3, <2>4, Zenon DEF OutInv
<1>h. \A n \in Nodes, u \in Users : have[n][u] # 0 => n \in Config /\ acct[u].enabled /\ acct[u].cred # 0
  BY <1>3 DEF FleetInv, Known
<1>s. ASSUME have' = have, PassOf(loop', acct) PROVE OutInv'
  BY <1>g, <1>h, <1>s
<1>i. IdleLoop.pc = "idle" /\ IdleLoop.todo = {}
  BY DEF IdleLoop
<1>4. ASSUME ReconcileNodesOnce PROVE OutInv'
  <2> DEFINE l == [IdleLoop EXCEPT !.pc = "next", !.todo = Targets]
  <2>1. have' = have /\ loop' = l
    BY <1>4 DEF ReconcileNodesOnce
  <2>2. l.pc = "next" /\ l.todo = Targets
    BY DEF IdleLoop
  <2> HIDE DEF l
  <2>3. PassOf(loop', acct)
    BY <1>3, <2>1, <2>2 DEF PassOf, FleetInv
  <2> QED BY <1>s, <2>1, <2>3
<1>5. ASSUME NEW n \in Nodes, ReadWant(n) PROVE OutInv'
  <2> DEFINE w == ListWantedClientsForNode(n)
             l == [loop EXCEPT !.pc = "have", !.n = n, !.todo = @ \ {n}, !.want = w]
  <2>1. have' = have /\ loop' = l /\ n \in loop.todo
    BY <1>5 DEF ReadWant
  <2>2. \A u \in Users : w[u] # 0 => acct[u].enabled /\ acct[u].cred # 0
    BY DEF ListWantedClientsForNode
  <2> HIDE DEF w
  <2>3. l.pc = "have" /\ l.n = n /\ l.todo = loop.todo \ {n} /\ l.want = w
    BY <1>t DEF LoopRecords
  <2> HIDE DEF l
  <2>4. PassOf(loop', acct)
    BY <1>3, <2>1, <2>2, <2>3 DEF PassOf
  <2> QED BY <1>s, <2>1, <2>4
<1>6. ASSUME ReadHave PROVE OutInv'
  <2> DEFINE w == [u \in Users |-> IF have[loop.n][u] = 0 THEN loop.want[u] ELSE 0]
             l == [loop EXCEPT !.pc = "add", !.want = w]
             m == [loop EXCEPT !.pc = "next", !.want = NoWant]
  <2>1. have' = have /\ loop.pc = "have" /\ loop' \in {l, m}
    BY <1>6 DEF ReadHave
  <2>2. \A u \in Users : w[u] # 0 => loop.want[u] # 0
    OBVIOUS
  <2> HIDE DEF w
  <2>3. l.pc = "add" /\ l.n = loop.n /\ l.todo = loop.todo /\ l.want = w
        /\ m.pc = "next" /\ m.todo = loop.todo
    BY <1>t DEF LoopRecords
  <2> HIDE DEF l, m
  <2>4. PassOf(loop', acct)
    BY <1>3, <2>1, <2>2, <2>3 DEF PassOf
  <2> QED BY <1>s, <2>1, <2>4
<1>7. ASSUME NEW u \in Users, AddMissing(u) PROVE OutInv'
  <2> DEFINE c == loop.want[u]
             w == [loop.want EXCEPT ![u] = 0]
             l == [loop EXCEPT !.want = w]
             k == loop.n
  <2>1. /\ loop.pc = "add" /\ c # 0 /\ loop' = l
        /\ have' = have \/ have' = [have EXCEPT ![k][u] = c]
    BY <1>7 DEF AddMissing, AddUserRPC
  <2>2. \A v \in Users : w[v] # 0 => loop.want[v] # 0
    BY <1>t
  <2> HIDE DEF w
  <2>3. l.pc = "add" /\ l.n = k /\ l.todo = loop.todo /\ l.want = w
    BY <1>t, <2>1 DEF LoopRecords
  <2> HIDE DEF l
  <2>4. PassOf(loop', acct)
    BY <1>3, <2>1, <2>2, <2>3 DEF PassOf
  <2>5. k \in Config /\ acct[u].enabled /\ acct[u].cred # 0
    BY <1>3, <2>1 DEF PassOf
  <2>6. \A n \in Nodes, v \in Users : have'[n][v] # 0 => have[n][v] # 0 \/ (n = k /\ v = u)
    <3>1. CASE have' = have
      BY <3>1
    <3>2. CASE have' = [have EXCEPT ![k][u] = c]
      BY <1>t, <3>2
    <3> QED BY <2>1, <3>1, <3>2
  <2> QED BY <1>g, <1>h, <2>4, <2>5, <2>6
<1>8. ASSUME NodeDone \/ PassDone PROVE OutInv'
  <2> DEFINE l == [loop EXCEPT !.pc = "next"]
  <2>1. have' = have /\ loop' \in {l, IdleLoop}
    BY <1>8 DEF NodeDone, PassDone
  <2>2. l.pc = "next" /\ l.todo = loop.todo
    BY <1>t DEF LoopRecords
  <2> HIDE DEF l
  <2>3. PassOf(loop', acct)
    BY <1>3, <1>i, <2>1, <2>2 DEF PassOf
  <2> QED BY <1>s, <2>1, <2>3
<1> QED BY <1>4, <1>5, <1>6, <1>7, <1>8 DEF Reconcile

(* Nodes and the server restart: a node forgets everybody, the server      *)
(* starts with the configuration it had.                                   *)
LEMMA OutRestarts ==
    ASSUME Inv, OutInv, Steady,
           \/ \E n \in Nodes : NodeRestart(n) \/ NodeDown(n) \/ NodeUp(n)
           \/ \E conf \in Configs : ServerRestart(conf)
    PROVE  OutInv'
<1>t. row \in [Nodes -> {"none", "on", "off"}] /\ have \in [Nodes -> [Users -> 0..lastCred]]
  BY DEF Inv, StoreInv, NodesInv
<1>1. FleetInv /\ AloneInv
  BY DEF OutInv
<1>2. ASSUME NEW n \in Nodes, NodeRestart(n) PROVE OutInv'
  <2>1. have' = [have EXCEPT ![n] = NoWant] /\ UNCHANGED <<row, acct, up, h, loop>>
    BY <1>2 DEF NodeRestart
  <2>2. \A m \in Nodes, u \in Users : have'[m][u] # 0 => have[m][u] # 0 /\ have'[m][u] = have[m][u]
    BY <1>t, <2>1 DEF NoWant
  <2>3. FleetInv' /\ AloneInv'
    BY <1>1, <2>1, <2>2 DEF FleetInv, AloneInv, Targets
  <2>4. \A u \in Users : Known(u, acct, have) => Known(u, acct', have')
    BY <2>1, <2>2 DEF Known
  <2>5. ASSUME NEW p \in Handlers, h'[p].pc # "idle" PROVE RequestOf(h'[p], acct', have')
    <3>1. RequestOf(h[p], acct, have) /\ h[p].u \in Users
      BY <2>1, <2>5, OwnFacts
    <3>2. Known(h[p].u, acct, have) => Known(h[p].u, acct, have')
      BY <2>1, <2>4, <3>1, Zenon
    <3>3. \A m \in Nodes : have'[m][h[p].u] # 0 => have[m][h[p].u] # 0
      BY <2>2, <3>1
    <3>4. RequestOf(h[p], acct, have')
      <4> DEFINE q == h[p]
      <4> HIDE DEF q
      <4>1. /\ RequestOf(q, acct, have) /\ (Known(q.u, acct, have) => Known(q.u, acct, have'))
            /\ \A m \in Nodes : have'[m][q.u] # 0 => have[m][q.u] # 0
        BY <3>1, <3>2, <3>3 DEF q
      <4>2. RequestOf(q, acct, have')
        BY <4>1 DEF RequestOf
      <4> QED BY <4>2 DEF q
    <3> QED BY <2>1, <3>4, Zenon
  <2>6. PassOf(loop', acct')
    BY <2>1 DEF OutInv
  <2>7. \A u \in Users : (\E p \in Handlers : h'[p].pc # "idle" /\ h'[p].u = u) \/ Known(u, acct', have')
    BY <2>1, <2>4 DEF OutInv
  <2> QED BY <2>3, <2>5, <2>6, <2>7, Zenon DEF OutInv
<1>3. \A n \in Nodes : ~NodeDown(n) /\ ~NodeUp(n)
  BY <1>1 DEF NodeDown, NodeUp, Steady, FleetInv
<1>4. ASSUME NEW conf \in Configs, ServerRestart(conf) PROVE OutInv'
  <2>1. /\ AtRest /\ row' = Reconciled(row, conf) /\ loop' = IdleLoop
        /\ h' = [p \in Handlers |-> IdleHandler] /\ UNCHANGED <<acct, have, up>>
    BY <1>4 DEF ServerRestart, Steady
  <2>2. Config \subseteq Nodes /\ \A n \in Nodes : conf[n] = "on" <=> n \in Config
    BY ConfigFacts
  <2>3. Targets' = Config
    <3>1. \A n \in Nodes : row'[n] = "on" <=> n \in Config
      BY <2>1, <2>2 DEF Reconciled
    <3> QED BY <2>2, <3>1 DEF Targets
  <2>4. \A p \in Handlers : h'[p].pc = "idle"
    BY <2>1 DEF IdleHandler
  <2>5. loop'.pc = "idle" /\ loop'.todo = {}
    BY <2>1 DEF IdleLoop
  <2>6. \A u \in Users : Known(u, acct', have')
    BY <2>1 DEF OutInv, AtRest, HandlersIdle
  <2>7. FleetInv' /\ AloneInv' /\ PassOf(loop', acct')
    BY <1>1, <2>1, <2>3, <2>4, <2>5 DEF FleetInv, AloneInv, PassOf
  <2> QED BY <2>4, <2>6, <2>7, Zenon DEF OutInv
<1> QED BY <1>2, <1>3, <1>4

(* At the start the accounts from before are enabled and on every node of  *)
(* the configuration.                                                      *)
LEMMA InitOut == ASSUME Steady PROVE Init => OutInv
<1> SUFFICES ASSUME Init PROVE OutInv
  OBVIOUS
<1>1. PICK conf \in Configs : /\ row = Reconciled([n \in Nodes |-> "none"], conf)
                              /\ place = [u \in Users |-> IF u \in Enrolled THEN Enabled(conf) ELSE {}]
  BY DEF Init
<1>2. /\ Enabled(conf) = Config /\ Config \subseteq Nodes
      /\ \A n \in Nodes : conf[n] = "on" <=> n \in Config
  BY ConfigFacts
<1>3. Targets = Config
  <2>1. \A n \in Nodes : row[n] = "on" <=> n \in Config
    BY <1>1, <1>2 DEF Reconciled
  <2> QED BY <1>2, <2>1 DEF Targets
<1>4. \A p \in Handlers : h[p].pc = "idle"
  BY DEF Init, IdleHandler
<1>5. loop.pc = "idle" /\ loop.todo = {} /\ up = Nodes
  BY DEF Init, IdleLoop
<1>6. ASSUME NEW n \in Nodes, NEW u \in Users, have[n][u] # 0
      PROVE  n \in Config /\ acct[u].enabled /\ acct[u].cred # 0
  <2>1. n \in place[u] /\ have[n][u] = acct[u].cred
    BY <1>6 DEF Init
  <2>2. u \in Enrolled /\ n \in Config
    BY <1>1, <1>2, <2>1
  <2>3. acct[u] = [id |-> 1, enabled |-> TRUE, cred |-> 1]
    BY <2>2 DEF Init
  <2> QED BY <2>2, <2>3
<1>7. FleetInv /\ AloneInv /\ PassOf(loop, acct)
  BY <1>3, <1>4, <1>5, <1>6 DEF FleetInv, AloneInv, PassOf
<1>8. \A u \in Users : Known(u, acct, have)
  BY <1>6 DEF Known
<1> QED BY <1>4, <1>7, <1>8, Zenon DEF OutInv

(* While requests and passes do not overlap, every node can be reached and *)
(* the configuration stays, a user that is disabled or deleted is on no    *)
(* node, with restarts of nodes at any time and of the server in between:  *)
(* the fan-out removes the user from every node, and the loop, which only  *)
(* adds, never brings it back.                                             *)
THEOREM NodesDisabledOut == ASSUME Steady PROVE Spec => []DisabledOut
<1>1. Inv /\ OutInv /\ [Next]_vars => OutInv'
  <2> SUFFICES ASSUME Inv, OutInv, [Next]_vars PROVE OutInv'
    OBVIOUS
  <2>1. ASSUME NEW p \in Handlers, Handler(p) PROVE OutInv'
    <3>1. CASE h[p].pc # "idle"
      BY <2>1, <3>1, OwnSteps, OwnKept
    <3>2. CASE h[p].pc = "idle"
      <4>1. /\ ~InsertUser(p) /\ ~GetByID(p) /\ ~Flag(p) /\ ~ReadClient(p) /\ ~StoreClient(p)
            /\ ~FanoutDone(p) /\ ~DeleteAccount(p) /\ ~Place(p)
            /\ \A n \in Nodes : /\ ~FanoutAddClient(p, n) /\ ~FanoutAddExistingClient(p, n)
                                /\ ~FanoutRemoveClient(p, n)
        BY <3>2 DEF InsertUser, GetByID, Flag, ReadClient, StoreClient, FanoutDone, DeleteAccount,
           Place, FanoutAddClient, FanoutAddExistingClient, FanoutRemoveClient
      <4>2. \E o \in Ops, u \in Users : \E ns : Request(p, o, u, ns)
        BY <2>1, <4>1, Zenon DEF Handler
      <4> QED BY <4>2, OutArrives
    <3> QED BY <3>1, <3>2
  <2>2. CASE UNCHANGED vars
    BY <2>2 DEF vars, OutInv, FleetInv, AloneInv, Targets
  <2> QED BY <2>1, <2>2, OutPasses, OutRestarts DEF Next
<1>2. OutInv => DisabledOut
  <2> SUFFICES ASSUME OutInv, AtRest, NEW u \in Users, NEW n \in Nodes, ~acct[u].enabled
               PROVE  have[n][u] = 0
    BY DEF DisabledOut
  <2>1. Known(u, acct, have)
    BY DEF OutInv, AtRest, HandlersIdle
  <2> QED BY <2>1 DEF Known
<1> QED BY <1>1, <1>2, InitOut, Invariant, PTL DEF Spec
=============================================================================
