------------------------------ MODULE MCRoutes ------------------------------
(***************************************************************************)
(* Small instances of Documents.                                           *)
(***************************************************************************)
EXTENDS Documents
CONSTANTS a1, a2, t1, t2, t3

MCHandlers == {a1, a2}
Symmetry == Permutations(MCHandlers)

(* A stored rule without an id; a PUT of a rule that has none, and of one  *)
(* id twice.                                                               *)
MCLegacy == <<0>>
ShortLists == {<<0>>, <<1, 1>>}

(* Inputs: two rules of a user and one global rule of every kind for few   *)
(* clients, and up to three clients of every kind for few rules.           *)
Kinds == {[out |-> o, sel |-> sel] : o \in {"direct", "Proxy"},
                                     sel \in {{}, {"geo"}, {"geo", "plain"}, {"geo", "field"}}}
         \cup {[out |-> o, sel |-> {"geo", "plain"}] : o \in {"Direct", "Block", "elsewhere"}}
RulesOf(from, n) ==
    UNION {{[k \in 1..m |-> [from |-> from, k |-> k, out |-> f[k].out, sel |-> f[k].sel]] :
              f \in [1..m -> Kinds]} : m \in 0..n}
ClientsUpTo(n) ==
    UNION {{[k \in 1..m |-> [tag |-> <<t1, t2, t3>>[k], xhttp |-> f[k][1], ok |-> f[k][2],
                             node |-> NoNode]] : f \in [1..m -> BOOLEAN \X BOOLEAN]} : m \in 0..n}
Alone == [placed |-> FALSE, at |-> [t \in {t1, t2, t3} |-> <<>>]]
Placements == {[placed |-> TRUE, at |-> [t \in {t1, t2, t3} |-> f[t]]] :
                 f \in [{t1, t2, t3} -> {<<>>, <<1, 2>>}]}
Input(user, global, clients, nodes, mobile) ==
    [user |-> user, global |-> global, clients |-> clients, nodes |-> nodes, mobile |-> mobile]
MCInputs ==
    {Input(u, g, cs, Alone, m) : u \in RulesOf("user", 2), g \in RulesOf("global", 1),
                                 cs \in {s \in ClientsUpTo(2) : \A k \in DOMAIN s : s[k].ok /\ s[k].xhttp},
                                 m \in BOOLEAN}
    \cup {Input(u, <<>>, cs, n, FALSE) : u \in RulesOf("user", 1), cs \in ClientsUpTo(3),
                                         n \in {Alone} \cup Placements}
=============================================================================
