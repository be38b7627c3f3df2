------------------------------- MODULE Routes -------------------------------
(***************************************************************************)
(* The routing rules of one user (users.client_routes) and the global ones *)
(* (app_settings), which internal/api/server.go reads, edits and writes    *)
(* back as whole lists, without a lock and outside any transaction.        *)
(*                                                                         *)
(* Neither list touches the other, so a behaviour is about one of them.    *)
(* A rule is its id, 0 when it has none.  Rules whose other fields are     *)
(* invalid are answered 400 before anything is read, so they are no step.  *)
(***************************************************************************)
EXTENDS Naturals, FiniteSets, SequencesExt

CONSTANTS Handlers,   \* concurrent admin requests
          Given,      \* ids that admins give to rules
          Lists,      \* the lists that PUT requests carry
          Legacy,     \* what an older version stored, rules without ids
          MaxLen,     \* bound: a longer list is not saved
          MaxId       \* bound on ids, more than are ever in use at once

ASSUME GivenAssumption == Given \subseteq Nat \ {0}
ASSUME ListsAssumption == Lists \subseteq Seq(Given \cup {0}) /\ Legacy \in Seq({0})
ASSUME BoundsAssumption == MaxLen \in Nat /\ MaxId \in Nat /\ \A s \in Lists \cup {Legacy} : Len(s) <= MaxLen

VARIABLES scope,      \* whose list it is, "user" or "global"
          routes,     \* the stored list
          h,          \* the request each handler serves
          overtaken   \* history: handlers that hold a list which another one
                      \* has written over since

vars == <<scope, routes, h, overtaken>>

Idle == [pc |-> "idle", op |-> "get", id |-> 0, index |-> 1, list |-> <<>>]

Init ==
    /\ scope \in {"user", "global"}
    /\ routes \in {<<>>, Legacy}
    /\ h = [p \in Handlers |-> Idle]
    /\ overtaken = {}

-----------------------------------------------------------------------------
(* Lists of rules.                                                         *)

(* validateUserRoutes, the part that is about the list.                    *)
ValidateUserRoutes(s) == \A j, k \in DOMAIN s : s[j] = s[k] /\ s[j] # 0 => j = k

Identified(s) == \A k \in DOMAIN s : s[k] # 0

(* Ids in a list or that a request holds.                                  *)
Used == Given \cup Range(routes) \cup UNION {Range(h[p].list) \cup {h[p].id} : p \in Handlers}

(* generateRouteID: eight random bytes, that is an id that is not in use,  *)
(* and another one at every call; the k-th such.                           *)
NewIds == Injection(1..MaxLen, (1..MaxId) \ Used)
GenerateRouteID(k) == (CHOOSE f \in NewIds : TRUE)[k]

(* Bound: ids are left.                                                    *)
IdsLeft == NewIds # {}

(* A rule that has no id in the list gets one.                             *)
AssignRouteIDs(s) == [k \in DOMAIN s |-> IF s[k] = 0 THEN GenerateRouteID(k) ELSE s[k]]

(* Mutant: an id that is not found is taken for the first rule, as in a    *)
(* loop that starts from index 0 instead of -1.                            *)
FindRouteOrFirst(s, id) ==
    IF \E k \in DOMAIN s : s[k] = id
    THEN CHOOSE k \in DOMAIN s : s[k] = id /\ \A j \in 1..(k - 1) : s[j] # id
    ELSE IF s = <<>> THEN 0 ELSE 1

(* findRouteIndexByID: the first one, 0 if there is none.                  *)
FindRouteIndexByID(s, id) ==
    IF \E k \in DOMAIN s : s[k] = id
    THEN CHOOSE k \in DOMAIN s : s[k] = id /\ \A j \in 1..(k - 1) : s[j] # id
    ELSE 0

-----------------------------------------------------------------------------
(* The requests.                                                           *)

Goto(p, r) == h' = [h EXCEPT ![p] = r]
Finish(p) == Goto(p, Idle)

(* The whole list is written, and what others hold of it is out of date.   *)
Save(p, s) ==
    /\ routes' = s
    /\ overtaken' = {q \in Handlers \ {p} : h[q].pc \in {"assign", "edit"}}
    /\ UNCHANGED scope

Leave(p) == overtaken' = overtaken \ {p} /\ UNCHANGED <<scope, routes>>

(* A request arrives: its operation, what its path names and its body.     *)
Request(p, op, id, index, list) ==
    /\ h[p].pc = "idle"
    /\ Goto(p, [pc |-> IF op \in {"set", "clear"} THEN "replace" ELSE "read",
                op |-> op, id |-> id, index |-> index, list |-> list])
    /\ UNCHANGED <<scope, routes, overtaken>>

(* setUserRoutes, setGlobalRoutes and deleteGlobalRoutes look at nothing   *)
(* that is stored.                                                         *)
Replace(p) ==
    /\ h[p].pc = "replace" /\ IdsLeft
    /\ IF ValidateUserRoutes(h[p].list)
       THEN Save(p, AssignRouteIDs(h[p].list))
       ELSE Leave(p)
    /\ Finish(p)

(* Mutant: ids are made up for the answer only, and a list that lacks some *)
(* is edited as it is.                                                     *)
ReadAsStored(p) ==
    /\ h[p].pc = "read"
    /\ Goto(p, [h[p] EXCEPT !.list = routes, !.pc = "edit"])
    /\ UNCHANGED <<scope, routes, overtaken>>

(* All others read the list, a GET too; ids that are missing are made up   *)
(* and the list with them is saved before anything else is done with it.   *)
Read(p) ==
    /\ h[p].pc = "read" /\ IdsLeft
    /\ Goto(p, [h[p] EXCEPT !.list = AssignRouteIDs(routes),
                            !.pc = IF Identified(routes) THEN "edit" ELSE "assign"])
    /\ UNCHANGED <<scope, routes, overtaken>>

SaveIds(p) ==
    /\ h[p].pc = "assign"
    /\ Save(p, h[p].list)
    /\ Goto(p, [h[p] EXCEPT !.pc = "edit"])

(* addUserRoute and addGlobalRoute append the rule, with an id of its own. *)
Added(r) == Append(r.list, IF r.id = 0 THEN GenerateRouteID(1) ELSE r.id)

(* updateUserRoute keeps the id of the rule it replaces if it has no other.*)
UpdatedAt(r) == [r.list EXCEPT ![r.index] = IF r.id = 0 THEN @ ELSE r.id]

(* The index a request names, by position or by id; 0 if there is none.    *)
Target(r) ==
    IF r.op \in {"updateAt", "deleteAt"}
    THEN IF r.index \in DOMAIN r.list THEN r.index ELSE 0
    ELSE FindRouteIndexByID(r.list, r.id)

(* Mutant: a global rule is validated alone, as a user's is.               *)
AcceptedAlone(r, s) == TRUE

(* addUserRoute validates the new rule alone, addGlobalRoute the list.     *)
Accepted(r, s) == scope = "global" => ValidateUserRoutes(s)

(* The lists a request may store: none on a GET, on an index out of range  *)
(* or an unknown id, and on a global list that is not valid.               *)
Edited(r) ==
    CASE r.op = "get" -> {}
      [] r.op = "add" -> {s \in {Added(r)} : Accepted(r, s)}
      [] OTHER ->
           IF Target(r) = 0 THEN {}
           ELSE CASE r.op = "updateAt" -> {UpdatedAt(r)}
                  [] r.op = "updateByID" -> {r.list}
                  [] OTHER -> {RemoveAt(r.list, Target(r))}

Edit(p) ==
    /\ h[p].pc = "edit" /\ IdsLeft
    /\ \/ \E s \in Edited(h[p]) : Len(s) <= MaxLen /\ Save(p, s)
       \/ Edited(h[p]) = {} /\ Leave(p)
    /\ Finish(p)

(* A read or a save that fails is answered 500; a restart ends the request *)
(* at the same places.                                                     *)
Fail(p) ==
    /\ h[p].pc # "idle"
    /\ Finish(p)
    /\ Leave(p)

(* A user's rules can be named one by one, the global ones can not.        *)
Next == \E p \in Handlers :
    \/ \E id \in Given \cup {0} : Request(p, "add", id, 1, <<>>)
    \/ \E s \in Lists : Request(p, "set", 0, 1, s)
    \/ Request(p, "get", 0, 1, <<>>)
    \/ scope = "global" /\ Request(p, "clear", 0, 1, <<>>)
    \/ scope = "user" /\ \E k \in 1..(MaxLen + 1) :
         \/ \E id \in Given \cup {0} : Request(p, "updateAt", id, k, <<>>)
         \/ Request(p, "deleteAt", 0, k, <<>>)
    \/ scope = "user" /\ \E id \in Given \cup (Range(routes) \ {0}) :
         \/ Request(p, "updateByID", id, 1, <<>>)
         \/ Request(p, "deleteByID", id, 1, <<>>)
    \/ Replace(p) \/ Read(p) \/ SaveIds(p) \/ Edit(p) \/ Fail(p)

Spec == Init /\ [][Next]_vars

-----------------------------------------------------------------------------
(* Every stored rule has an id that the by-id requests can name, unless    *)
(* nobody has asked for the list since an older version stored it.  The    *)
(* handlers edit lists that they read before other handlers saved theirs.  *)
RulesIdentified == routes = Legacy \/ \A k \in DOMAIN routes : routes[k] # 0

(* No two global rules have the same id, whatever lists concurrent         *)
(* addGlobalRoute, setGlobalRoutes and getGlobalRoutes calls write over    *)
(* each other: the first two validate the whole list that they save, the   *)
(* last makes up new ids only for the rules of the list that have none.    *)
GlobalIdsUnique ==
    scope = "global" =>
        \A j, k \in DOMAIN routes : routes[j] = routes[k] /\ routes[j] # 0 => j = k

(* The same of a user's rules, which is what validateUserRoutes says of    *)
(* them (server.go:1851); addUserRoute and updateUserRoute show it only    *)
(* the rule of the request.                                                *)
UserIdsUnique ==
    scope = "user" =>
        \A j, k \in DOMAIN routes : routes[j] = routes[k] /\ routes[j] # 0 => j = k

(* A rule leaves a list only by a request that names it or replaces the    *)
(* whole list, or by one that saves a list it read before another request  *)
(* saved: the handlers take no lock, so that is how updates are lost, but  *)
(* no other way.  Adding, updating or reading rules, a list whose ids are  *)
(* made up on the way included, loses none of the rules it has read.       *)
RulesKept ==
    [][\A k \in DOMAIN routes :
         \/ routes[k] = 0
         \/ \E j \in DOMAIN routes' : routes'[j] = routes[k]
         \/ \E p \in Handlers : h'[p] # h[p] /\
              \/ p \in overtaken
              \/ h[p].op \in {"set", "clear"}
              \/ h[p].op \in {"updateAt", "deleteAt"} /\ h[p].index = k
              \/ h[p].op = "deleteByID" /\ h[p].id = routes[k]]_vars
=============================================================================
