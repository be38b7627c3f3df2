-------------------------- MODULE DocumentsProofs ---------------------------
(***************************************************************************)
(* Routing rules.  The stored lists, for any number of admin requests that *)
(* read, edit and write back whole lists over each other, any ids that     *)
(* admins give and any lists that they put; and the documents, for stored  *)
(* lists of any length, any clients, any placement and any settings.       *)
(*                                                                         *)
(* What the recursive function of ElementsAt computes for every list is    *)
(* shown by induction on its length, in the form that a set of lengths     *)
(* without a least counterexample is all of them.                          *)
(***************************************************************************)
EXTENDS Documents, SequenceTheorems, FiniteSetTheorems, WellFoundedInduction, TLAPS

(* The least of some numbers.                                              *)
LEMMA FirstIndex ==
    ASSUME NEW K \in SUBSET Nat, K # {}
    PROVE  \E k \in K : \A j \in K : k <= j
<1> DEFINE Less == {ss \in Nat \X Nat : ss[1] < ss[2]}
<1>1. IsWellFoundedOn(Less, Nat)
  BY NatLessThanWellFounded, Zenon DEF OpToRel
<1> HIDE DEF Less
<1>2. PICK k \in K : \A j \in K : ~(<<j, k>> \in Less)
  BY <1>1, WFMin
<1>3. ASSUME NEW j \in K PROVE k <= j
  <2>1. ~(j < k)
    BY <1>2 DEF Less
  <2> QED BY <2>1
<1> QED BY <1>3

(* Induction over the natural numbers, for a set instead of a predicate.  *)
LEMMA Inductive ==
    ASSUME NEW P \in SUBSET Nat, 0 \in P, \A n \in P : n + 1 \in P
    PROVE  P = Nat
<1> SUFFICES ASSUME Nat \ P # {} PROVE FALSE
  OBVIOUS
<1>1. PICK k \in Nat \ P : \A j \in Nat \ P : k <= j
  BY FirstIndex
<1>2. k # 0 /\ k - 1 \in Nat /\ ~(k <= k - 1)
  BY <1>1
<1>3. k - 1 \in P
  BY <1>1, <1>2
<1>4. (k - 1) + 1 \in P
  BY <1>3
<1> QED BY <1>1, <1>2, <1>4

(* The equation of ElementsAt.                                             *)
Step(s, K, g, n) ==
    IF n = 0 THEN <<>> ELSE IF n \in K THEN Append(g[n - 1], s[n]) ELSE g[n - 1]

(* It has a solution, so ElementsAt is the value of one at the end of s.   *)
LEMMA ElementsAtDef ==
    ASSUME NEW S, NEW s \in Seq(S), NEW K
    PROVE  \E f : /\ f = [n \in 0..Len(s) |-> Step(s, K, f, n)]
                  /\ ElementsAt(s, K) = f[Len(s)]
<1> DEFINE P == {m \in Nat : \E g : g = [n \in 0..m |-> Step(s, K, g, n)]}
<1>1. 0 \in P
  <2> DEFINE g == [n \in 0..0 |-> <<>>]
  <2>1. g = [n \in 0..0 |-> Step(s, K, g, n)]
    BY DEF Step
  <2> QED BY <2>1
<1>2. ASSUME NEW m \in P PROVE m + 1 \in P
  <2>1. PICK g : g = [n \in 0..m |-> Step(s, K, g, n)]
    OBVIOUS
  <2> DEFINE e == [n \in 0..(m + 1) |-> IF n = m + 1 THEN Step(s, K, g, n) ELSE g[n]]
  <2>2. \A n \in 0..(m + 1) : e[n] = Step(s, K, e, n)
    <3> TAKE n \in 0..(m + 1)
    <3>1. n # 0 => n - 1 \in 0..m /\ n - 1 \in 0..(m+1) /\ n - 1 # m + 1
      OBVIOUS
    <3>2. n # 0 => e[n - 1] = g[n - 1]
      BY <3>1
    <3>3. Step(s, K, e, n) = Step(s, K, g, n)
      BY <3>2 DEF Step
    <3>4. n # m + 1 => n \in 0..m
      OBVIOUS
    <3>5. n \in 0..m => g[n] = Step(s, K, g, n)
      BY <2>1
    <3>6. e[n] = IF n = m + 1 THEN Step(s, K, g, n) ELSE g[n]
      OBVIOUS
    <3> HIDE DEF e
    <3> QED BY <3>3, <3>4, <3>5, <3>6
  <2>3. e = [n \in 0..(m + 1) |-> e[n]]
    OBVIOUS
  <2> HIDE DEF e
  <2>4. e = [n \in 0..(m + 1) |-> Step(s, K, e, n)]
    BY <2>2, <2>3
  <2> QED BY <2>4
<1>3. P = Nat
  <2> HIDE DEF P
  <2>1. P \in SUBSET Nat
    BY DEF P
  <2> QED BY <1>1, <1>2, <2>1, Inductive
<1>4. Len(s) \in P
  BY <1>3
<1> DEFINE f == CHOOSE g : g = [n \in 0..Len(s) |-> Step(s, K, g, n)]
<1>5. f = [n \in 0..Len(s) |-> Step(s, K, f, n)]
  BY <1>4
<1>6. ElementsAt(s, K) = f[Len(s)]
  BY DEF ElementsAt, Step
<1> HIDE DEF f
<1> QED BY <1>5, <1>6

(* r is what s has at the places in K, f from the places of r to these.    *)
Picks(r, s, K, f) ==
    /\ f \in [1..Len(r) -> K]
    /\ \A j, k \in 1..Len(r) : j < k => f[j] < f[k]
    /\ \A i \in K : \E j \in 1..Len(r) : f[j] = i
    /\ \A j \in 1..Len(r) : r[j] = s[f[j]]

LEMMA PicksNone ==
    ASSUME NEW s, NEW K, K = {}
    PROVE  Picks(<<>>, s, K, <<>>)
BY DEF Picks

LEMMA PicksNext ==
    ASSUME NEW S, NEW r \in Seq(S), NEW s, NEW m \in Nat, NEW K \in SUBSET (1..m), NEW f,
           Picks(r, s, K, f), s[m + 1] \in S
    PROVE  \E g : Picks(Append(r, s[m + 1]), s, K \cup {m + 1}, g)
<1> DEFINE n == Len(r)
           q == Append(r, s[m + 1])
           g == [j \in 1..(n + 1) |-> IF j = n + 1 THEN m + 1 ELSE f[j]]
<1>1. n \in Nat /\ Len(q) = n + 1 /\ q[n + 1] = s[m + 1] /\ \A j \in 1..n : q[j] = r[j]
  BY AppendProperties
<1>2. \A j \in 1..n : j \in 1..(n + 1) /\ j # n + 1 /\ f[j] \in K /\ f[j] < m + 1 /\ r[j] = s[f[j]]
  <2> TAKE j \in 1..n
  <2>1. f[j] \in K /\ r[j] = s[f[j]]
    BY DEF Picks
  <2>2. f[j] \in 1..m
    BY <2>1
  <2>3. f[j] < m + 1
    BY <2>2
  <2> QED BY <1>1, <2>1, <2>3
<1>3. \A j \in 1..(n + 1) : j = n + 1 \/ j \in 1..n
  BY <1>1
<1>4. g[n + 1] = m + 1 /\ \A j \in 1..n : g[j] = f[j]
  BY <1>1, <1>2
<1>5. g \in [1..(n + 1) -> K \cup {m + 1}]
  BY <1>2, <1>3
<1> HIDE DEF g, q, n
<1>6. ASSUME NEW j \in 1..(n + 1), NEW k \in 1..(n + 1), j < k PROVE g[j] < g[k]
  <2>1. j \in 1..n
    BY <1>1, <1>6
  <2>2. CASE k = n + 1
    BY <1>2, <1>4, <2>1, <2>2
  <2>3. CASE k \in 1..n
    BY <1>4, <1>6, <2>1, <2>3 DEF Picks, n
  <2> QED BY <1>3, <2>2, <2>3
<1>7. ASSUME NEW i \in K \cup {m + 1} PROVE \E j \in 1..(n + 1) : g[j] = i
  <2>1. CASE i = m + 1
    <3>1. n + 1 \in 1..(n + 1)
      BY <1>1
    <3> QED BY <1>4, <2>1, <3>1
  <2>2. CASE i \in K
    <3>1. PICK j \in 1..n : f[j] = i
      BY <2>2 DEF Picks, n
    <3> QED BY <1>2, <1>4, <3>1
  <2> QED BY <2>1, <2>2
<1>8. \A j \in 1..(n + 1) : q[j] = s[g[j]]
  BY <1>1, <1>2, <1>3, <1>4
<1>9. Picks(q, s, K \cup {m + 1}, g)
  BY <1>1, <1>5, <1>6, <1>7, <1>8 DEF Picks
<1> QED BY <1>9 DEF q

(* What ElementsAt returns.                                                *)
LEMMA ElementsAtFacts ==
    ASSUME NEW S, NEW s \in Seq(S), NEW K \in SUBSET DOMAIN s
    PROVE  /\ ElementsAt(s, K) \in Seq(S)
           /\ \E f : Picks(ElementsAt(s, K), s, K, f)
<1>1. PICK g : /\ g = [n \in 0..Len(s) |-> Step(s, K, g, n)]
               /\ ElementsAt(s, K) = g[Len(s)]
  BY ElementsAtDef
<1>2. Len(s) \in Nat /\ DOMAIN s = 1..Len(s)
  BY LenProperties
<1> DEFINE Upto(m) == K \cap 1..m
           P == {m \in Nat : m <= Len(s) => g[m] \in Seq(S) /\ \E f : Picks(g[m], s, Upto(m), f)}
<1>3. 0 \in P
  <2>1. g[0] = <<>>
    BY <1>1, <1>2 DEF Step
  <2>2. Upto(0) = {}
    OBVIOUS
  <2> HIDE DEF Upto
  <2>3. Picks(g[0], s, Upto(0), <<>>)
    BY <2>1, <2>2, PicksNone
  <2>4. g[0] \in Seq(S)
    BY <2>1
  <2> QED BY <2>3, <2>4
<1>4. ASSUME NEW m \in P PROVE m + 1 \in P
  <2> SUFFICES ASSUME m + 1 <= Len(s)
               PROVE  g[m + 1] \in Seq(S) /\ \E f : Picks(g[m + 1], s, Upto(m + 1), f)
    <3> HIDE DEF Upto
    <3> QED OBVIOUS
  <2>1. m \in Nat /\ m <= Len(s) /\ m + 1 \in 0..Len(s) /\ m + 1 # 0 /\ (m + 1) - 1 = m
    BY <1>2
  <2>2. g[m] \in Seq(S) /\ \E f : Picks(g[m], s, Upto(m), f)
    BY <2>1 DEF P
  <2>3. g[m + 1] = IF m + 1 \in K THEN Append(g[m], s[m + 1]) ELSE g[m]
    BY <1>1, <2>1 DEF Step
  <2>4. Upto(m + 1) = IF m + 1 \in K THEN Upto(m) \cup {m + 1} ELSE Upto(m)
    BY <2>1
  <2>5. Upto(m) \in SUBSET (1..m)
    OBVIOUS
  <2>6. s[m + 1] \in S
    BY <1>2, <2>1, ElementOfSeq
  <2> HIDE DEF Upto, P
  <2>7. CASE m + 1 \in K
    <3>1. Append(g[m], s[m + 1]) \in Seq(S)
      BY <2>2, <2>6, AppendProperties
    <3>2. \E f : Picks(Append(g[m], s[m + 1]), s, Upto(m) \cup {m + 1}, f)
      BY <2>1, <2>2, <2>5, <2>6, PicksNext
    <3> QED BY <2>3, <2>4, <2>7, <3>1, <3>2
  <2>8. CASE m + 1 \notin K
    BY <2>2, <2>3, <2>4, <2>8
  <2> QED BY <2>7, <2>8
<1>5. Len(s) \in P
  <2>1. P \in SUBSET Nat
    OBVIOUS
  <2> HIDE DEF P
  <2>2. P = Nat
    BY <1>3, <1>4, <2>1, Inductive
  <2> QED BY <1>2, <2>2
<1>6. Upto(Len(s)) = K
  BY <1>2
<1> HIDE DEF Upto
<1> QED BY <1>1, <1>2, <1>5, <1>6

(* The same for FlattenSeq, of which only the type is needed.              *)
LEMMA FlattenSeqType ==
    ASSUME NEW S, NEW ss \in Seq(Seq(S))
    PROVE  FlattenSeq(ss) \in Seq(S)
<1> DEFINE Eq(g, n) == IF n = 1 THEN ss[n] ELSE g[n - 1] \o ss[n]
           P == {m \in Nat : \E g : g = [n \in 1..m |-> Eq(g, n)]}
<1>1. Len(ss) \in Nat /\ \A n \in 1..Len(ss) : ss[n] \in Seq(S)
  BY LenProperties, ElementOfSeq
<1>2. 0 \in P
  <2> DEFINE g == [n \in 1..0 |-> <<>>]
  <2>1. g = [n \in 1..0 |-> Eq(g, n)]
    OBVIOUS
  <2> QED BY <2>1
<1>3. ASSUME NEW m \in P PROVE m + 1 \in P
  <2>1. PICK g : g = [n \in 1..m |-> Eq(g, n)]
    OBVIOUS
  <2> DEFINE e == [n \in 1..(m + 1) |-> IF n = m + 1 THEN Eq(g, n) ELSE g[n]]
  <2>2. \A n \in 1..(m + 1) : e[n] = Eq(e, n)
    <3> TAKE n \in 1..(m + 1)
    <3>1. n # 1 => n - 1 \in 1..(m + 1) /\ n - 1 # m + 1
      OBVIOUS
    <3>2. n # 1 => e[n - 1] = g[n - 1]
      BY <3>1
    <3>3. Eq(e, n) = Eq(g, n)
      BY <3>2
    <3>4. n # m + 1 => n \in 1..m
      OBVIOUS
    <3>5. n \in 1..m => g[n] = Eq(g, n)
      BY <2>1
    <3>6. e[n] = IF n = m + 1 THEN Eq(g, n) ELSE g[n]
      OBVIOUS
    <3> HIDE DEF e, Eq
    <3> QED BY <3>3, <3>4, <3>5, <3>6
  <2>3. e = [n \in 1..(m + 1) |-> e[n]]
    OBVIOUS
  <2> HIDE DEF e, Eq
  <2>4. e = [n \in 1..(m + 1) |-> Eq(e, n)]
    BY <2>2, <2>3
  <2> QED BY <2>4
<1>4. Len(ss) \in P
  <2> HIDE DEF P
  <2>1. P \in SUBSET Nat
    BY Zenon DEF P
  <2> QED BY <1>1, <1>2, <1>3, <2>1, Inductive
<1> DEFINE f == CHOOSE g : g = [n \in 1..Len(ss) |-> Eq(g, n)]
<1>5. f = [n \in 1..Len(ss) |-> Eq(f, n)]
  BY <1>4, Zenon
<1>6. FlattenSeq(ss) = IF Len(ss) = 0 THEN ss ELSE f[Len(ss)]
  BY DEF FlattenSeq
<1> HIDE DEF f, P
<1> DEFINE Q == {m \in Nat : m + 1 <= Len(ss) => f[m + 1] \in Seq(S)}
<1>7. 0 \in Q
  <2>1. 1 <= Len(ss) => f[1] = ss[1]
    BY <1>1, <1>5
  <2> QED BY <1>1, <2>1
<1>8. ASSUME NEW m \in Q PROVE m + 1 \in Q
  <2> SUFFICES ASSUME (m + 1) + 1 <= Len(ss) PROVE f[(m + 1) + 1] \in Seq(S)
    OBVIOUS
  <2> DEFINE n == (m + 1) + 1
  <2>1. n \in 1..Len(ss) /\ n # 1 /\ n - 1 = m + 1 /\ m + 1 <= Len(ss)
    BY <1>1
  <2>2. f[n] = f[n - 1] \o ss[n]
    BY <1>5, <2>1
  <2>3. f[n - 1] \in Seq(S) /\ ss[n] \in Seq(S)
    BY <1>1, <2>1
  <2> QED BY <2>2, <2>3, ConcatProperties
<1>9. Len(ss) # 0 => f[Len(ss)] \in Seq(S)
  <2>1. Q \in SUBSET Nat
    OBVIOUS
  <2> HIDE DEF Q
  <2>2. Q = Nat
    BY <1>7, <1>8, <2>1, Inductive
  <2>3. Len(ss) # 0 => Len(ss) - 1 \in Q /\ (Len(ss) - 1) + 1 = Len(ss) /\ Len(ss) <= Len(ss)
    BY <1>1, <2>2
  <2> QED BY <2>3 DEF Q
<1>10. Len(ss) = 0 => ss \in Seq(S)
  <2>1. Len(ss) = 0 => ss = <<>>
    BY EmptySeq
  <2> QED BY <2>1, EmptySeq
<1> QED BY <1>6, <1>9, <1>10

-----------------------------------------------------------------------------
(* Endpoints and outbounds.                                                *)

(* The endpoints of a user: those of one inbound have its transport.       *)
LEMMA EndpointsFacts ==
    ASSUME NEW i, IsInput(i)
    PROVE  LET ends == ExpandClientsForNodes(i.clients, i.nodes)
           IN  /\ ends \in Seq(Clients)
               /\ \A j, k \in DOMAIN ends : ends[j].tag = ends[k].tag => ends[j].xhttp = ends[k].xhttp
<1> DEFINE cs == i.clients
           at == i.nodes.at
           S == {c \in Clients : \E j \in DOMAIN cs : c.tag = cs[j].tag /\ c.xhttp = cs[j].xhttp}
           many == [j \in DOMAIN cs |-> [k \in DOMAIN at[cs[j].tag] |->
                      [cs[j] EXCEPT !.node = at[cs[j].tag][k]]]]
           ends == ExpandClientsForNodes(i.clients, i.nodes)
<1>1. /\ cs \in Seq(Clients) /\ Len(cs) \in Nat /\ DOMAIN cs = 1..Len(cs)
      /\ at \in [Tags -> Seq(Nat)] /\ i.nodes.placed \in BOOLEAN
      /\ \A j, k \in DOMAIN cs : cs[j].tag = cs[k].tag => j = k
  BY LenProperties DEF IsInput
<1>2. \A j \in DOMAIN cs : cs[j] \in Clients /\ cs[j].tag \in Tags
  <2> HIDE DEF cs, at
  <2>1. \A j \in DOMAIN cs : cs[j] \in Clients
    BY <1>1, ElementOfSeq
  <2> QED BY <2>1 DEF Clients
<1>3. ends = IF ~i.nodes.placed THEN cs ELSE FlattenSeq(many)
  BY DEF ExpandClientsForNodes
<1>4. cs \in Seq(S)
  <2>1. \A j \in DOMAIN cs : cs[j] \in S
    BY <1>2
  <2> HIDE DEF S
  <2> QED BY <1>1, <2>1
<1>5. many \in Seq(Seq(S))
  <2>1. ASSUME NEW j \in DOMAIN cs PROVE many[j] \in Seq(S)
    <3> DEFINE ns == at[cs[j].tag]
    <3>1. ns \in Seq(Nat) /\ Len(ns) \in Nat /\ DOMAIN ns = 1..Len(ns) /\ \A k \in DOMAIN ns : ns[k] \in Nat
      <4>1. ns \in Seq(Nat)
        BY <1>1, <1>2
      <4> HIDE DEF ns
      <4> QED BY <4>1, LenProperties, ElementOfSeq
    <3>2. many[j] = [k \in DOMAIN ns |-> [cs[j] EXCEPT !.node = ns[k]]]
      BY Zenon
    <3> HIDE DEF ns
    <3>3. ASSUME NEW k \in DOMAIN ns PROVE [cs[j] EXCEPT !.node = ns[k]] \in S
      <4>1. /\ [cs[j] EXCEPT !.node = ns[k]] \in Clients
            /\ [cs[j] EXCEPT !.node = ns[k]].tag = cs[j].tag
            /\ [cs[j] EXCEPT !.node = ns[k]].xhttp = cs[j].xhttp
        BY <1>2, <3>1 DEF Clients
      <4> QED BY <4>1
    <3> HIDE DEF S, many
    <3>4. many[j] \in [1..Len(ns) -> S]
      BY <3>1, <3>2, <3>3
    <3>5. \A m \in Nat : [1..m -> S] \subseteq Seq(S)
      BY SeqDef, Zenon
    <3> QED BY <3>1, <3>4, <3>5, Zenon
  <2>2. many = [j \in 1..Len(cs) |-> many[j]]
    BY <1>1, Zenon
  <2> HIDE DEF many, S, cs
  <2>3. many \in [1..Len(cs) -> Seq(S)]
    BY <1>1, <2>1, <2>2
  <2> QED BY <1>1, <2>3, SeqDef
<1>6. ends \in Seq(S)
  <2> HIDE DEF many, S, cs
  <2> QED BY <1>3, <1>4, <1>5, FlattenSeqType
<1>7. DOMAIN ends = 1..Len(ends) /\ \A j \in DOMAIN ends : ends[j] \in S
  <2> HIDE DEF ends, S
  <2> QED BY <1>6, LenProperties, ElementOfSeq
<1>8. ASSUME NEW j \in DOMAIN ends, NEW k \in DOMAIN ends, ends[j].tag = ends[k].tag
      PROVE  ends[j].xhttp = ends[k].xhttp
  <2> HIDE DEF ends
  <2>1. ends[j] \in S /\ ends[k] \in S
    BY <1>7
  <2>2. PICK a \in DOMAIN cs : ends[j].tag = cs[a].tag /\ ends[j].xhttp = cs[a].xhttp
    BY <2>1
  <2>3. PICK b \in DOMAIN cs : ends[k].tag = cs[b].tag /\ ends[k].xhttp = cs[b].xhttp
    BY <2>1
  <2>4. a = b
    BY <1>1, <1>8, <2>2, <2>3
  <2> QED BY <2>2, <2>3, <2>4
<1>9. ends \in Seq(Clients)
  <2>1. S \subseteq Clients
    OBVIOUS
  <2> HIDE DEF ends, S
  <2> QED BY <1>6, <2>1, SeqMonotonic
<1> HIDE DEF ends
<1> QED BY <1>8, <1>9 DEF ends

(* f numbers the elements of K.                                            *)
Numbers(f, n, K) ==
    /\ f \in [1..n -> K]
    /\ \A j, k \in 1..n : f[j] = f[k] => j = k
    /\ \A i \in K : \E j \in 1..n : f[j] = i

LEMMA PicksNumbers ==
    ASSUME NEW n \in Nat, NEW r, Len(r) = n, NEW s, NEW K \in SUBSET Nat, NEW f, Picks(r, s, K, f)
    PROVE  Numbers(f, n, K)
<1>1. \A j \in 1..n : f[j] \in Nat
  BY DEF Picks
<1>2. ASSUME NEW j \in 1..n, NEW k \in 1..n, f[j] = f[k] PROVE j = k
  <2>1. ~(j < k) /\ ~(k < j)
    BY <1>1, <1>2 DEF Picks
  <2> QED BY <2>1
<1> QED BY <1>2 DEF Picks, Numbers

OneToOne(f, J) == \A a, b \in J : f[a] = f[b] => a = b
Reaches(f, J, I) == \A i \in I : \E a \in J : f[a] = i

LEMMA NumbersCompose ==
    ASSUME NEW n \in Nat, NEW J, NEW g, Numbers(g, n, J),
           NEW f, OneToOne(f, J), NEW I, Reaches(f, J, I),
           NEW e \in [1..n -> I], \A j \in 1..n : e[j] = f[g[j]]
    PROVE  Numbers(e, n, I)
<1>1. \A j, k \in 1..n : e[j] = e[k] => j = k
  BY DEF Numbers, OneToOne
<1>2. ASSUME NEW i \in I PROVE \E j \in 1..n : e[j] = i
  <2>1. PICK a \in J : i = f[a]
    BY DEF Reaches
  <2>2. PICK j \in 1..n : g[j] = a
    BY DEF Numbers
  <2> QED BY <2>1, <2>2
<1> QED BY <1>1, <1>2 DEF Numbers

(* Subsets that a numbering relates have the same size.                    *)
LEMMA NumbersCount ==
    ASSUME NEW n \in Nat, NEW K, NEW f, Numbers(f, n, K),
           NEW A \in SUBSET (1..n), NEW B \in SUBSET K,
           \A j \in 1..n : j \in A <=> f[j] \in B
    PROVE  /\ IsFiniteSet(A) /\ IsFiniteSet(B)
           /\ Cardinality(A) = Cardinality(B)
<1>1. IsFiniteSet(A)
  <2>1. IsFiniteSet(1..n)
    BY FS_Interval
  <2> QED BY <2>1, FS_Subset
<1> DEFINE g == [j \in A |-> f[j]]
<1>2. g \in [A -> B]
  OBVIOUS
<1>3. \A j, k \in A : g[j] = g[k] => j = k
  BY DEF Numbers
<1>4. ASSUME NEW i \in B PROVE \E j \in A : g[j] = i
  <2>1. PICK j \in 1..n : f[j] = i
    BY DEF Numbers
  <2> QED BY <2>1
<1> HIDE DEF g
<1>5. g \in Bijection(A, B)
  BY <1>2, <1>3, <1>4 DEF Bijection, Injection, Surjection, IsInjective
<1>6. ExistsBijection(A, B)
  BY <1>5 DEF ExistsBijection
<1> QED BY <1>1, <1>6, FS_Bijection

(* Sorting loses no client and doubles none.                               *)
LEMMA SortFacts ==
    ASSUME NEW cs \in Seq(Clients)
    PROVE  LET r == SortClientsXHTTPFirst(cs)
           IN  /\ r \in Seq(Clients)
               /\ \E f : Numbers(f, Len(r), DOMAIN cs) /\ \A j \in 1..Len(r) : r[j] = cs[f[j]]
<1> DEFINE X == {i \in DOMAIN cs : cs[i].xhttp}
           Y == DOMAIN cs \ X
           a == ElementsAt(cs, X)
           b == ElementsAt(cs, Y)
           r == a \o b
<1>1. DOMAIN cs = 1..Len(cs) /\ Len(cs) \in Nat
  BY LenProperties
<1>2. /\ X \in SUBSET DOMAIN cs /\ Y \in SUBSET DOMAIN cs /\ X \cup Y = DOMAIN cs /\ X \cap Y = {}
      /\ X \in SUBSET Nat /\ Y \in SUBSET Nat
  BY <1>1
<1>3. SortClientsXHTTPFirst(cs) = r
  BY DEF SortClientsXHTTPFirst
<1> HIDE DEF X, Y
<1>4. a \in Seq(Clients) /\ \E f : Picks(a, cs, X, f)
  BY <1>2, ElementsAtFacts
<1>5. b \in Seq(Clients) /\ \E f : Picks(b, cs, Y, f)
  BY <1>2, ElementsAtFacts
<1> HIDE DEF a, b
<1>6. PICK f : Picks(a, cs, X, f)
  BY <1>4
<1>7. PICK g : Picks(b, cs, Y, g)
  BY <1>5
<1> DEFINE m == Len(a)
           n == Len(b)
           e == [j \in 1..(m + n) |-> IF j <= m THEN f[j] ELSE g[j - m]]
<1>8. m \in Nat /\ n \in Nat
  BY <1>4, <1>5
<1>9. Numbers(f, m, X) /\ Numbers(g, n, Y)
  BY <1>2, <1>6, <1>7, <1>8, PicksNumbers
<1>10. /\ r \in Seq(Clients) /\ Len(r) = m + n
       /\ \A j \in 1..(m + n) : r[j] = IF j <= m THEN a[j] ELSE b[j - m]
  BY <1>4, <1>5, ConcatProperties
<1> HIDE DEF r, m, n
<1>11. \A j \in 1..(m + n) : (j <= m => j \in 1..m) /\ (~(j <= m) => j - m \in 1..n)
  BY <1>8
<1>12. \A j \in 1..(m + n) : /\ j <= m => e[j] = f[j] /\ f[j] \in X
                             /\ ~(j <= m) => e[j] = g[j - m] /\ g[j - m] \in Y
  BY <1>9, <1>11 DEF Numbers
<1>13. e \in [1..(m + n) -> DOMAIN cs]
  BY <1>2, <1>12
<1>14. DOMAIN e = 1..(m + n)
  OBVIOUS
<1> HIDE DEF e
<1>15. ASSUME NEW j \in 1..(m + n), NEW k \in 1..(m + n), e[j] = e[k] PROVE j = k
  <2>1. (j <= m) = (k <= m)
    BY <1>2, <1>12, <1>15
  <2>2. CASE j <= m
    BY <1>9, <1>11, <1>12, <1>15, <2>1, <2>2 DEF Numbers
  <2>3. CASE ~(j <= m)
    <3>1. j - m \in 1..n /\ k - m \in 1..n /\ g[j - m] = g[k - m]
      BY <1>11, <1>12, <1>15, <2>1, <2>3
    <3>2. j - m = k - m
      BY <1>9, <3>1 DEF Numbers
    <3> QED BY <1>8, <3>2
  <2> QED BY <2>2, <2>3
<1>16. ASSUME NEW i \in DOMAIN cs PROVE \E j \in 1..(m + n) : e[j] = i
  <2>1. CASE i \in X
    <3>1. PICK j \in 1..m : f[j] = i
      BY <1>9, <2>1 DEF Numbers
    <3>2. j \in 1..(m + n) /\ j <= m
      BY <1>8
    <3> QED BY <1>12, <3>1, <3>2
  <2>2. CASE i \in Y
    <3>1. PICK j \in 1..n : g[j] = i
      BY <1>9, <2>2 DEF Numbers
    <3>2. j + m \in 1..(m + n) /\ ~(j + m <= m) /\ (j + m) - m = j
      BY <1>8
    <3> QED BY <1>12, <3>1, <3>2
  <2> QED BY <1>2, <2>1, <2>2
<1>17. Numbers(e, m + n, DOMAIN cs)
  BY <1>13, <1>15, <1>16 DEF Numbers
<1>18. ASSUME NEW j \in 1..(m + n) PROVE r[j] = cs[e[j]]
  <2>1. CASE j <= m
    BY <1>6, <1>10, <1>11, <1>12, <2>1 DEF Picks, m
  <2>2. CASE ~(j <= m)
    <3>1. j - m \in 1..n /\ r[j] = b[j - m]
      BY <1>10, <1>11, <2>2
    <3>2. b[j - m] = cs[g[j - m]]
      BY <1>7, <3>1 DEF Picks, n
    <3> QED BY <1>12, <2>2, <3>1, <3>2
  <2> QED BY <2>1, <2>2
<1> QED BY <1>3, <1>10, <1>17, <1>18

Outbounds == [tag : Tags \X (Nat \ {0}), client : Clients]

(* A client that can be built becomes one outbound, which has its tag.     *)
LEMMA BuildFacts ==
    ASSUME NEW cs \in Seq(Clients)
    PROVE  LET obs == BuildOutbounds(cs)
           IN  /\ obs \in Seq(Outbounds)
               /\ \E f : /\ Numbers(f, Len(obs), {i \in DOMAIN cs : cs[i].ok})
                         /\ \A j \in 1..Len(obs) : obs[j].client = cs[f[j]] /\ obs[j].tag[1] = cs[f[j]].tag
<1> DEFINE all == [i \in DOMAIN cs |-> [tag |-> <<cs[i].tag, i>>, client |-> cs[i]]]
           K == {i \in DOMAIN cs : cs[i].ok}
           obs == BuildOutbounds(cs)
<1>1. DOMAIN cs = 1..Len(cs) /\ Len(cs) \in Nat
  BY LenProperties
<1>2. \A i \in DOMAIN cs : cs[i] \in Clients /\ cs[i].tag \in Tags /\ i \in Nat \ {0}
  <2>1. \A i \in DOMAIN cs : cs[i] \in Clients
    BY <1>1, ElementOfSeq
  <2> QED BY <1>1, <2>1 DEF Clients
<1>3. /\ \A i \in DOMAIN cs : all[i] \in Outbounds /\ all[i].client = cs[i] /\ all[i].tag[1] = cs[i].tag
      /\ DOMAIN all = 1..Len(cs)
  BY <1>1, <1>2 DEF Outbounds
<1>4. obs = ElementsAt(all, K)
  BY DEF BuildOutbounds
<1>5. all \in [1..Len(cs) -> Outbounds]
  <2>1. all = [i \in 1..Len(cs) |-> all[i]]
    BY <1>1
  <2> HIDE DEF all
  <2> QED BY <1>1, <1>3, <2>1
<1> HIDE DEF all
<1>6. all \in Seq(Outbounds)
  BY <1>1, <1>5, SeqDef
<1>7. K \in SUBSET DOMAIN all /\ K \in SUBSET Nat
  BY <1>1, <1>3
<1>8. obs \in Seq(Outbounds) /\ \E f : Picks(obs, all, K, f)
  <2> HIDE DEF K, obs
  <2> QED BY <1>4, <1>6, <1>7, ElementsAtFacts
<1> HIDE DEF obs
<1>9. PICK f : Picks(obs, all, K, f)
  BY <1>8
<1>10. Len(obs) \in Nat
  BY <1>8
<1>11. Numbers(f, Len(obs), K)
  <2> HIDE DEF K
  <2> QED BY <1>7, <1>9, <1>10, PicksNumbers
<1>12. ASSUME NEW j \in 1..Len(obs) PROVE obs[j].client = cs[f[j]] /\ obs[j].tag[1] = cs[f[j]].tag
  <2>1. f[j] \in K /\ obs[j] = all[f[j]]
    BY <1>9 DEF Picks
  <2> QED BY <1>3, <2>1
<1> QED BY <1>8, <1>11, <1>12 DEF obs

(* Every endpoint that can be built has one outbound, whatever the order.  *)
LEMMA OutboundsFacts ==
    ASSUME NEW ends \in Seq(Clients)
    PROVE  LET obs == BuildOutbounds(SortClientsXHTTPFirst(ends))
           IN  /\ obs \in Seq(Outbounds)
               /\ \E f : /\ Numbers(f, Len(obs), {i \in DOMAIN ends : ends[i].ok})
                         /\ \A j \in 1..Len(obs) : obs[j].client = ends[f[j]] /\ obs[j].tag[1] = ends[f[j]].tag
<1> DEFINE cs == SortClientsXHTTPFirst(ends)
           obs == BuildOutbounds(cs)
           J == {i \in DOMAIN cs : cs[i].ok}
           K == {i \in DOMAIN ends : ends[i].ok}
<1>1. cs \in Seq(Clients)
  BY SortFacts
<1>2. PICK f : Numbers(f, Len(cs), DOMAIN ends) /\ \A j \in 1..Len(cs) : cs[j] = ends[f[j]]
  BY SortFacts
<1> HIDE DEF cs
<1>3. obs \in Seq(Outbounds)
  BY <1>1, BuildFacts
<1>4. PICK g : /\ Numbers(g, Len(obs), J)
               /\ \A j \in 1..Len(obs) : obs[j].client = cs[g[j]] /\ obs[j].tag[1] = cs[g[j]].tag
  BY <1>1, BuildFacts
<1> HIDE DEF obs
<1>5. Len(cs) \in Nat /\ DOMAIN cs = 1..Len(cs) /\ Len(obs) \in Nat
  BY <1>1, <1>3, LenProperties
<1>6. J \in SUBSET (1..Len(cs))
  BY <1>5
<1> DEFINE e == [j \in 1..Len(obs) |-> f[g[j]]]
<1>7. (\A i \in J : f[i] \in K) /\ (\A k \in K : \E i \in J : f[i] = k)
  <2>1. \A i \in J : f[i] \in K
    BY <1>2, <1>5 DEF Numbers
  <2>2. ASSUME NEW k \in K PROVE \E i \in J : f[i] = k
    <3>1. PICK i \in 1..Len(cs) : f[i] = k
      BY <1>2 DEF Numbers
    <3> QED BY <1>2, <1>5, <3>1
  <2> QED BY <2>1, <2>2
<1>8. Numbers(e, Len(obs), K)
  <2>1. e \in [1..Len(obs) -> K] /\ \A j \in 1..Len(obs) : e[j] = f[g[j]]
    <3> HIDE DEF J, K
    <3> QED BY <1>4, <1>7 DEF Numbers
  <2> HIDE DEF J, K, e
  <2>2. OneToOne(f, J)
    BY <1>2, <1>6 DEF Numbers, OneToOne
  <2>3. Numbers(g, Len(obs), J) /\ Len(obs) \in Nat
    BY <1>4, <1>5
  <2>4. Reaches(f, J, K)
    BY <1>7 DEF Reaches
  <2> QED BY <2>1, <2>2, <2>3, <2>4, NumbersCompose
<1>9. ASSUME NEW j \in 1..Len(obs) PROVE obs[j].client = ends[e[j]] /\ obs[j].tag[1] = ends[e[j]].tag
  <2>1. g[j] \in 1..Len(cs) /\ e[j] = f[g[j]]
    BY <1>4, <1>6 DEF Numbers
  <2> HIDE DEF e
  <2> QED BY <1>2, <1>4, <2>1
<1> HIDE DEF e, K
<1> QED BY <1>3, <1>8, <1>9 DEF obs, cs, K

-----------------------------------------------------------------------------
(* Rules.                                                                  *)

Selectors == SUBSET {"geo", "plain", "field"}
ListedRules == [from : {"user", "global", "default"}, k : Nat,
                out : STRING \cup {"direct", "proxy", "block"}, sel : Selectors]

Precedes(r, q) == Rank(r) < Rank(q) \/ (r.from = q.from /\ r.k < q.k)
InOrder(s) == \A j, k \in DOMAIN s : j < k => Precedes(s[j], s[k])

(* The rules of a document before "proxy" is resolved.                     *)
ListedOf(i) == ApplyUserRoutes(ApplyUserRoutes(DefaultRouting, i.global), i.user)

LEMMA RankFacts ==
    /\ \A r : r.from = "user" => Rank(r) = 1
    /\ \A r : r.from = "global" => Rank(r) = 2
    /\ \A r : r.from = "default" => Rank(r) = 3
    /\ \A r : r.from = "all" => Rank(r) = 4
BY DEF Rank

LEMMA DefaultFacts ==
    /\ DefaultRouting \in Seq(ListedRules)
    /\ InOrder(DefaultRouting)
    /\ \A k \in DOMAIN DefaultRouting :
         /\ DefaultRouting[k].from = "default"
         /\ DefaultRouting[k].out \in {"direct", "proxy", "block"}
<1> DEFINE D == DefaultRouting
<1> DEFINE R == [from : {"default"}, k : 1..8, out : {"direct", "proxy", "block"}, sel : Selectors]
<1>1. D \in Seq(R) /\ Len(D) = 8
  BY DEF DefaultRouting, Selectors
<1>2. \A k \in 1..8 : D[k].k = k
  BY DEF DefaultRouting
<1> HIDE DEF D
<1>3. DOMAIN D = 1..8 /\ \A k \in 1..8 : D[k] \in R
  BY <1>1, LenProperties, ElementOfSeq
<1>4. D \in Seq(ListedRules)
  <2>1. R \subseteq ListedRules
    BY DEF ListedRules
  <2> HIDE DEF R
  <2> QED BY <1>1, <2>1, SeqMonotonic
<1>5. \A k \in DOMAIN D : D[k].from = "default" /\ D[k].out \in {"direct", "proxy", "block"}
  BY <1>3
<1>6. InOrder(D)
  BY <1>2, <1>3, <1>5 DEF InOrder, Precedes
<1> QED BY <1>4, <1>5, <1>6 DEF D

(* Lists of different priority, one before the other.                      *)
LEMMA InOrderConcat ==
    ASSUME NEW S, NEW a \in Seq(S), NEW b \in Seq(S), InOrder(a), InOrder(b),
           \A j \in DOMAIN a, k \in DOMAIN b : Rank(a[j]) < Rank(b[k])
    PROVE  InOrder(a \o b)
<1> DEFINE c == a \o b
           m == Len(a)
           n == Len(b)
<1>1. /\ m \in Nat /\ n \in Nat /\ DOMAIN a = 1..m /\ DOMAIN b = 1..n
      /\ c \in Seq(S) /\ Len(c) = m + n /\ DOMAIN c = 1..(m + n)
      /\ \A j \in 1..(m + n) : c[j] = IF j <= m THEN a[j] ELSE b[j - m]
  BY ConcatProperties, LenProperties
<1> HIDE DEF c, m, n
<1>2. ASSUME NEW j \in 1..(m + n), NEW k \in 1..(m + n), j < k PROVE Precedes(c[j], c[k])
  <2>1. CASE k <= m
    <3>1. j \in 1..m /\ k \in 1..m /\ c[j] = a[j] /\ c[k] = a[k]
      BY <1>1, <1>2, <2>1
    <3> QED BY <1>1, <1>2, <3>1 DEF InOrder
  <2>2. CASE j <= m /\ ~(k <= m)
    <3>1. j \in 1..m /\ k - m \in 1..n /\ c[j] = a[j] /\ c[k] = b[k - m]
      BY <1>1, <1>2, <2>2
    <3>2. Rank(a[j]) < Rank(b[k - m])
      BY <1>1, <3>1
    <3> QED BY <3>1, <3>2 DEF Precedes
  <2>3. CASE ~(j <= m)
    <3>1. j - m \in 1..n /\ k - m \in 1..n /\ j - m < k - m /\ c[j] = b[j - m] /\ c[k] = b[k - m]
      BY <1>1, <1>2, <2>3
    <3> QED BY <1>1, <3>1 DEF InOrder
  <2>4. k <= m \/ (j <= m /\ ~(k <= m)) \/ ~(j <= m)
    OBVIOUS
  <2> QED BY <2>1, <2>2, <2>3, <2>4
<1>3. InOrder(c)
  BY <1>1, <1>2 DEF InOrder
<1> QED BY <1>3 DEF c

(* The part of a stored list that is taken: in its order, nothing missing. *)
LEMMA TakenFacts ==
    ASSUME NEW from \in {"user", "global"}, NEW l \in Seq(StoredRules(from)),
           \A k \in DOMAIN l : l[k].k = k
    PROVE  LET t == ElementsAt(l, Effective(l))
           IN  /\ t \in Seq(ListedRules) /\ InOrder(t)
               /\ \A j \in DOMAIN t : /\ t[j].from = from
                                      /\ \E k \in DOMAIN l : t[j] = l[k] /\ IsAllowedOutboundTag(l[k].out)
               /\ \A k \in Effective(l) : \E j \in DOMAIN t : t[j] = l[k]
<1> DEFINE K == Effective(l)
           t == ElementsAt(l, K)
<1>1. DOMAIN l = 1..Len(l) /\ Len(l) \in Nat /\ K \in SUBSET DOMAIN l
  BY LenProperties DEF Effective
<1>2. \A k \in K : k \in DOMAIN l /\ k \in Nat /\ IsAllowedOutboundTag(l[k].out)
  BY <1>1 DEF Effective
<1> HIDE DEF K
<1>3. t \in Seq(StoredRules(from)) /\ \E f : Picks(t, l, K, f)
  BY <1>1, ElementsAtFacts
<1>4. PICK f : Picks(t, l, K, f)
  BY <1>3
<1> HIDE DEF t
<1>5. DOMAIN t = 1..Len(t) /\ Len(t) \in Nat /\ \A j \in DOMAIN t : t[j] \in StoredRules(from)
  BY <1>3, LenProperties, ElementOfSeq
<1>6. \A j \in DOMAIN t : t[j].from = from /\ f[j] \in K /\ t[j] = l[f[j]] /\ t[j].k = f[j]
  BY <1>2, <1>4, <1>5 DEF Picks, StoredRules
<1>7. t \in Seq(ListedRules)
  <2>1. StoredRules(from) \subseteq ListedRules
    BY DEF StoredRules, ListedRules, Selectors
  <2> QED BY <1>3, <2>1, SeqMonotonic
<1>8. InOrder(t)
  BY <1>4, <1>5, <1>6 DEF InOrder, Precedes, Picks
<1>9. \A k \in K : \E j \in DOMAIN t : t[j] = l[k]
  <2> TAKE k \in K
  <2>1. PICK j \in 1..Len(t) : f[j] = k
    BY <1>4 DEF Picks
  <2> QED BY <1>5, <1>6, <2>1
<1>10. \A j \in DOMAIN t : \E k \in DOMAIN l : t[j] = l[k] /\ IsAllowedOutboundTag(l[k].out)
  BY <1>2, <1>6
<1> QED BY <1>6, <1>7, <1>8, <1>9, <1>10 DEF t, K

(* The rules of a document.                                                *)
LEMMA ListedFacts ==
    ASSUME NEW i, IsInput(i)
    PROVE  LET rs == ListedOf(i)
           IN  /\ rs \in Seq(ListedRules) /\ InOrder(rs)
               /\ \A j \in DOMAIN rs :
                    \/ rs[j].out \in {"direct", "proxy", "block"}
                    \/ \E l \in {i.user, i.global} : \E k \in DOMAIN l :
                         rs[j].out = l[k].out /\ IsAllowedOutboundTag(l[k].out)
               /\ \A l \in {i.user, i.global} : \A k \in Effective(l) :
                    \E j \in DOMAIN rs : rs[j] = l[k]
<1> DEFINE D == DefaultRouting
           g == ElementsAt(i.global, Effective(i.global))
           u == ElementsAt(i.user, Effective(i.user))
           rs == u \o (g \o D)
<1>1. ListedOf(i) = rs
  BY DEF ListedOf, ApplyUserRoutes
<1>2. /\ i.user \in Seq(StoredRules("user")) /\ \A k \in DOMAIN i.user : i.user[k].k = k
      /\ i.global \in Seq(StoredRules("global")) /\ \A k \in DOMAIN i.global : i.global[k].k = k
  BY DEF IsInput
<1>3. /\ u \in Seq(ListedRules) /\ InOrder(u)
      /\ \A j \in DOMAIN u : /\ u[j].from = "user"
                             /\ \E k \in DOMAIN i.user : u[j] = i.user[k] /\ IsAllowedOutboundTag(i.user[k].out)
      /\ \A k \in Effective(i.user) : \E j \in DOMAIN u : u[j] = i.user[k]
  BY <1>2, TakenFacts
<1>4. /\ g \in Seq(ListedRules) /\ InOrder(g)
      /\ \A j \in DOMAIN g : /\ g[j].from = "global"
                             /\ \E k \in DOMAIN i.global : g[j] = i.global[k] /\ IsAllowedOutboundTag(i.global[k].out)
      /\ \A k \in Effective(i.global) : \E j \in DOMAIN g : g[j] = i.global[k]
  BY <1>2, TakenFacts
<1>5. /\ D \in Seq(ListedRules) /\ InOrder(D)
      /\ \A k \in DOMAIN D : D[k].from = "default" /\ D[k].out \in {"direct", "proxy", "block"}
  BY DefaultFacts
<1> HIDE DEF D, g, u
<1> DEFINE b == g \o D
<1>6. b \in Seq(ListedRules) /\ InOrder(b)
  <2>1. \A j \in DOMAIN g, k \in DOMAIN D : Rank(g[j]) < Rank(D[k])
    BY <1>4, <1>5, RankFacts
  <2> QED BY <1>4, <1>5, <2>1, InOrderConcat, ConcatProperties
<1>7. /\ DOMAIN u = 1..Len(u) /\ DOMAIN g = 1..Len(g) /\ DOMAIN D = 1..Len(D) /\ DOMAIN b = 1..Len(b)
      /\ Len(u) \in Nat /\ Len(g) \in Nat /\ Len(D) \in Nat
  BY <1>3, <1>4, <1>5, <1>6, LenProperties
<1>8. /\ Len(b) = Len(g) + Len(D)
      /\ \A j \in 1..Len(b) : b[j] = IF j <= Len(g) THEN g[j] ELSE D[j - Len(g)]
  BY <1>4, <1>5, ConcatProperties
<1> HIDE DEF b
<1>9. \A j \in DOMAIN b : \/ \E k \in DOMAIN g : b[j] = g[k]
                          \/ \E k \in DOMAIN D : b[j] = D[k]
  <2> TAKE j \in DOMAIN b
  <2>1. IF j <= Len(g) THEN j \in 1..Len(g) /\ b[j] = g[j] ELSE j - Len(g) \in 1..Len(D) /\ b[j] = D[j - Len(g)]
    BY <1>7, <1>8
  <2> QED BY <1>7, <2>1
<1>10. \A k \in DOMAIN g : \E j \in DOMAIN b : b[j] = g[k]
  BY <1>7, <1>8
<1>11. rs \in Seq(ListedRules) /\ InOrder(rs)
  <2>1. \A k \in DOMAIN b : Rank(b[k]) \in {2, 3}
    BY <1>4, <1>5, <1>9, RankFacts
  <2>2. \A j \in DOMAIN u : Rank(u[j]) = 1
    BY <1>3, RankFacts
  <2>3. \A j \in DOMAIN u, k \in DOMAIN b : Rank(u[j]) < Rank(b[k])
    BY <2>1, <2>2
  <2>4. rs = u \o b
    BY DEF b
  <2> HIDE DEF rs
  <2> QED BY <1>3, <1>6, <2>3, <2>4, InOrderConcat, ConcatProperties
<1>12. /\ Len(rs) = Len(u) + Len(b) /\ DOMAIN rs = 1..Len(rs)
       /\ \A j \in 1..Len(rs) : rs[j] = IF j <= Len(u) THEN u[j] ELSE b[j - Len(u)]
  <2>1. rs = u \o b
    BY DEF b
  <2> QED BY <1>3, <1>6, <1>11, <2>1, ConcatProperties, LenProperties
<1> HIDE DEF rs
<1>13. \A j \in DOMAIN rs : \/ \E k \in DOMAIN u : rs[j] = u[k]
                            \/ \E k \in DOMAIN b : rs[j] = b[k]
  <2> TAKE j \in DOMAIN rs
  <2>1. IF j <= Len(u) THEN j \in 1..Len(u) /\ rs[j] = u[j] ELSE j - Len(u) \in 1..Len(b) /\ rs[j] = b[j - Len(u)]
    BY <1>7, <1>8, <1>12
  <2> QED BY <1>7, <2>1
<1>14. /\ \A k \in DOMAIN u : \E j \in DOMAIN rs : rs[j] = u[k]
       /\ \A k \in DOMAIN b : \E j \in DOMAIN rs : rs[j] = b[k]
  <2>1. \A k \in DOMAIN u : k \in DOMAIN rs /\ rs[k] = u[k]
    BY <1>7, <1>8, <1>12
  <2>2. \A k \in DOMAIN b : k + Len(u) \in DOMAIN rs /\ rs[k + Len(u)] = b[k]
    BY <1>7, <1>8, <1>12
  <2> QED BY <2>1, <2>2
<1>15. ASSUME NEW j \in DOMAIN rs
       PROVE  \/ rs[j].out \in {"direct", "proxy", "block"}
              \/ \E l \in {i.user, i.global} : \E k \in DOMAIN l :
                   rs[j].out = l[k].out /\ IsAllowedOutboundTag(l[k].out)
  <2>1. CASE \E k \in DOMAIN u : rs[j] = u[k]
    BY <1>3, <2>1
  <2>2. CASE \E k \in DOMAIN g : rs[j] = g[k]
    BY <1>4, <2>2
  <2>3. CASE \E k \in DOMAIN D : rs[j] = D[k]
    BY <1>5, <2>3
  <2> QED BY <1>9, <1>13, <2>1, <2>2, <2>3
<1>16. ASSUME NEW l \in {i.user, i.global}, NEW k \in Effective(l)
       PROVE  \E j \in DOMAIN rs : rs[j] = l[k]
  <2>1. CASE l = i.user
    <3>1. PICK j \in DOMAIN u : u[j] = l[k]
      BY <1>3, <2>1
    <3> QED BY <1>14, <3>1
  <2>2. CASE l = i.global
    <3>1. PICK j \in DOMAIN g : g[j] = l[k]
      BY <1>4, <2>2
    <3>2. PICK n \in DOMAIN b : b[n] = g[j]
      BY <1>10
    <3>3. PICK p \in DOMAIN rs : rs[p] = b[n]
      BY <1>14
    <3> QED BY <3>1, <3>2, <3>3
  <2> QED BY <2>1, <2>2
<1> QED BY <1>1, <1>11, <1>15, <1>16

(* The rules of a document, resolved: target stands for the proxies.       *)
AnswerRules(target) ==
    [from : {"user", "global", "default", "all"}, k : Nat, sel : Selectors,
     to : {target} \cup ((STRING \cup {"direct", "proxy", "block"}) \X {0})]
AllRule(target) == [from |-> "all", k |-> 1, sel |-> {"field"}, to |-> target]
AnswerOf(i, target) == Append(ResolveProxyRouteTargets(ListedOf(i), target), AllRule(target))

(* Where a rule may lead to: the target, or what its list says if that is  *)
(* another outbound.                                                       *)
LeadsWell(i, target, to) ==
    \/ to \in {target, <<"direct", 0>>, <<"block", 0>>}
    \/ \E l \in {i.user, i.global} : \E k \in DOMAIN l :
         to = <<l[k].out, 0>> /\ l[k].out \in {"Direct", "Block"}

(* What is common to the rules of a full and of a mobile document.         *)
WellRouted(rs, i, target) ==
    /\ rs \in Seq(AnswerRules(target)) /\ InOrder(rs) /\ Len(rs) > 0
    /\ rs[Len(rs)].from = "all" /\ rs[Len(rs)].to = target /\ "field" \in rs[Len(rs)].sel
    /\ \A j \in DOMAIN rs : LeadsWell(i, target, rs[j].to)

LEMMA AnswerFacts ==
    ASSUME NEW i, IsInput(i), NEW target
    PROVE  LET rs == AnswerOf(i, target)
           IN  /\ WellRouted(rs, i, target)
               /\ \A l \in {i.user, i.global} : \A k \in Effective(l) :
                    \E j \in DOMAIN rs : rs[j].from = l[k].from /\ rs[j].k = k
<1> DEFINE ls == ListedOf(i)
           n == Len(ls)
           res == ResolveProxyRouteTargets(ls, target)
           rs == AnswerOf(i, target)
           R == AnswerRules(target)
           all == AllRule(target)
<1>1. /\ ls \in Seq(ListedRules) /\ InOrder(ls)
      /\ \A j \in DOMAIN ls :
           \/ ls[j].out \in {"direct", "proxy", "block"}
           \/ \E l \in {i.user, i.global} : \E k \in DOMAIN l :
                ls[j].out = l[k].out /\ IsAllowedOutboundTag(l[k].out)
      /\ \A l \in {i.user, i.global} : \A k \in Effective(l) :
           \E j \in DOMAIN ls : ls[j] = l[k]
  BY ListedFacts
<1> HIDE DEF ls
<1>2. n \in Nat /\ DOMAIN ls = 1..n /\ \A j \in 1..n : ls[j] \in ListedRules
  BY <1>1, LenProperties, ElementOfSeq
<1> HIDE DEF n
<1>3. res = [j \in 1..n |-> [from |-> ls[j].from, k |-> ls[j].k, sel |-> ls[j].sel,
                            to |-> IF Lower(ls[j].out) = "proxy" THEN target ELSE <<ls[j].out, 0>>]]
  BY <1>2 DEF ResolveProxyRouteTargets
<1>4. ASSUME NEW j \in 1..n
      PROVE  /\ res[j] \in R /\ res[j].from = ls[j].from /\ res[j].k = ls[j].k
             /\ res[j].to = IF Lower(ls[j].out) = "proxy" THEN target ELSE <<ls[j].out, 0>>
  <2> DEFINE to == IF Lower(ls[j].out) = "proxy" THEN target ELSE <<ls[j].out, 0>>
  <2>1. res[j] = [from |-> ls[j].from, k |-> ls[j].k, sel |-> ls[j].sel, to |-> to]
    BY <1>3
  <2>2. /\ ls[j].from \in {"user", "global", "default"} /\ ls[j].k \in Nat /\ ls[j].sel \in Selectors
        /\ ls[j].out \in STRING \cup {"direct", "proxy", "block"}
    BY <1>2 DEF ListedRules
  <2>3. to \in {target} \cup ((STRING \cup {"direct", "proxy", "block"}) \X {0})
    BY <2>2
  <2> HIDE DEF to
  <2>4. res[j] \in R /\ res[j].from = ls[j].from /\ res[j].k = ls[j].k /\ res[j].to = to
    BY <2>1, <2>2, <2>3 DEF AnswerRules
  <2> QED BY <2>4 DEF to
<1>5. res \in Seq(R) /\ Len(res) = n
  <2>1. res \in [1..n -> R]
    BY <1>3, <1>4
  <2> HIDE DEF res, R
  <2> QED BY <1>2, <2>1
<1>6. all \in R /\ all.from = "all" /\ all.to = target /\ "field" \in all.sel
  BY DEF AllRule, AnswerRules, Selectors
<1>7. rs = Append(res, all)
  BY DEF AnswerOf, ls
<1> HIDE DEF res, R, all, rs
<1>8. /\ rs \in Seq(R) /\ Len(rs) = n + 1 /\ rs[n + 1] = all
      /\ \A j \in 1..n : rs[j] = res[j]
      /\ DOMAIN rs = 1..(n + 1)
  BY <1>5, <1>6, <1>7, AppendProperties, LenProperties
<1>9. \A j \in 1..(n + 1) : j = n + 1 \/ j \in 1..n
  BY <1>2
<1>10. InOrder(rs)
  <2> SUFFICES ASSUME NEW j \in 1..(n + 1), NEW k \in 1..(n + 1), j < k PROVE Precedes(rs[j], rs[k])
    BY <1>8 DEF InOrder
  <2>1. j \in 1..n /\ rs[j].from = ls[j].from /\ rs[j].k = ls[j].k
    <3>1. j \in 1..n
      BY <1>2
    <3> QED BY <1>4, <1>8, <3>1
  <2>2. ls[j].from \in {"user", "global", "default"}
    BY <1>2, <2>1 DEF ListedRules
  <2>3. Rank(rs[j]) = Rank(ls[j]) /\ Rank(rs[j]) \in {1, 2, 3}
    BY <2>1, <2>2, RankFacts
  <2>4. CASE k = n + 1
    <3>1. Rank(rs[k]) = 4
      BY <1>6, <1>8, <2>4, RankFacts
    <3> QED BY <2>3, <3>1 DEF Precedes
  <2>5. CASE k \in 1..n
    <3>1. rs[k].from = ls[k].from /\ rs[k].k = ls[k].k
      BY <1>4, <1>8, <2>5
    <3>2. ls[k].from \in {"user", "global", "default"}
      BY <1>2, <2>5 DEF ListedRules
    <3>3. Rank(rs[k]) = Rank(ls[k])
      BY <3>1, <3>2, RankFacts
    <3>4. Precedes(ls[j], ls[k])
      BY <1>1, <1>2, <2>1, <2>5 DEF InOrder
    <3> QED BY <2>1, <2>3, <3>1, <3>3, <3>4 DEF Precedes
  <2> QED BY <1>9, <2>4, <2>5
<1>11. ASSUME NEW j \in 1..n PROVE LeadsWell(i, target, rs[j].to)
  <2> DEFINE out == ls[j].out
  <2>1. rs[j].to = IF Lower(out) = "proxy" THEN target ELSE <<out, 0>>
    BY <1>4, <1>8
  <2>2. out \in {"direct", "proxy", "block"} \/
        \E l \in {i.user, i.global} : \E k \in DOMAIN l : out = l[k].out /\ IsAllowedOutboundTag(l[k].out)
    BY <1>1, <1>2
  <2> HIDE DEF out
  <2>3. CASE out \in {"direct", "proxy", "block"}
    BY <2>1, <2>3 DEF Lower, LeadsWell
  <2>4. CASE out \notin {"direct", "proxy", "block"}
    <3>1. PICK l \in {i.user, i.global} : \E k \in DOMAIN l : out = l[k].out /\ IsAllowedOutboundTag(l[k].out)
      BY <2>2, <2>4
    <3>2. PICK k \in DOMAIN l : out = l[k].out /\ IsAllowedOutboundTag(l[k].out)
      BY <3>1
    <3>3. out \in {"Direct", "Proxy", "Block"}
      BY <2>4, <3>2 DEF IsAllowedOutboundTag, Lower
    <3>4. out = "Proxy" => rs[j].to = target
      BY <2>1 DEF Lower
    <3>5. out \in {"Direct", "Block"} => rs[j].to = <<out, 0>>
      BY <2>1 DEF Lower
    <3> QED BY <3>2, <3>3, <3>4, <3>5 DEF LeadsWell
  <2> QED BY <2>3, <2>4
<1>12. LeadsWell(i, target, rs[n + 1].to)
  BY <1>6, <1>8 DEF LeadsWell
<1>13. WellRouted(rs, i, target)
  <2>1. \A j \in DOMAIN rs : LeadsWell(i, target, rs[j].to)
    BY <1>8, <1>9, <1>11, <1>12
  <2> QED BY <1>2, <1>6, <1>8, <1>10, <2>1 DEF WellRouted, R
<1>14. ASSUME NEW l \in {i.user, i.global}, NEW k \in Effective(l)
       PROVE  \E j \in DOMAIN rs : rs[j].from = l[k].from /\ rs[j].k = k
  <2>1. PICK j \in DOMAIN ls : ls[j] = l[k]
    BY <1>1
  <2>2. l[k].k = k
    BY DEF IsInput, Effective
  <2>3. j \in 1..n /\ j \in DOMAIN rs
    BY <1>2, <1>8
  <2>4. rs[j] = res[j] /\ res[j].from = ls[j].from /\ res[j].k = ls[j].k
    BY <1>4, <1>8, <2>3
  <2> QED BY <2>1, <2>2, <2>3, <2>4, Zenon
<1> QED BY <1>13, <1>14 DEF rs

(* A list of rules without its geo selectors, and without the rules that   *)
(* have no other.                                                          *)
StripOf(rs) ==
    LET st == [k \in DOMAIN rs |-> [rs[k] EXCEPT !.sel = @ \ {"geo"}]]
    IN  ElementsAt(st, {k \in DOMAIN st : st[k].sel # {}})

(* Removing rules whose selectors are all geo keeps order and last rule.   *)
LEMMA StrippedFacts ==
    ASSUME NEW i, NEW target, NEW rs, WellRouted(rs, i, target)
    PROVE  WellRouted(StripOf(rs), i, target)
<1> DEFINE st == [k \in DOMAIN rs |-> [rs[k] EXCEPT !.sel = @ \ {"geo"}]]
           K == {k \in DOMAIN st : st[k].sel # {}}
           q == ElementsAt(st, K)
           n == Len(rs)
           R == AnswerRules(target)
<1>1. rs \in Seq(R) /\ n \in Nat /\ n > 0 /\ DOMAIN rs = 1..n /\ \A k \in 1..n : rs[k] \in R
  BY LenProperties, ElementOfSeq DEF WellRouted
<1>2. ASSUME NEW k \in 1..n
      PROVE  /\ st[k] \in R /\ st[k].from = rs[k].from /\ st[k].k = rs[k].k /\ st[k].to = rs[k].to
             /\ st[k].sel = rs[k].sel \ {"geo"}
  <2>1. st[k] = [rs[k] EXCEPT !.sel = @ \ {"geo"}]
    BY <1>1
  <2>2. rs[k] \in R
    BY <1>1
  <2> HIDE DEF st
  <2> QED BY <2>1, <2>2 DEF AnswerRules, Selectors
<1>3. st \in Seq(R) /\ DOMAIN st = 1..n
  <2>1. st = [k \in 1..n |-> st[k]]
    BY <1>1
  <2> HIDE DEF st, R
  <2>2. st \in [1..n -> R]
    BY <1>2, <2>1
  <2> QED BY <1>1, <2>1, <2>2
<1> HIDE DEF st
<1>4. K \in SUBSET DOMAIN st
  OBVIOUS
<1>5. n \in K
  <2>1. "field" \in rs[n].sel /\ n \in 1..n
    BY <1>1 DEF WellRouted
  <2> QED BY <1>2, <1>3, <2>1
<1> HIDE DEF K
<1>6. q \in Seq(R) /\ \E f : Picks(q, st, K, f)
  <2> HIDE DEF R
  <2> QED BY <1>3, <1>4, ElementsAtFacts
<1>7. PICK f : Picks(q, st, K, f)
  BY <1>6
<1> HIDE DEF q
<1>8. Len(q) \in Nat /\ DOMAIN q = 1..Len(q)
  BY <1>6, LenProperties
<1>9. \A j \in 1..Len(q) : f[j] \in K /\ f[j] \in 1..n /\ q[j] = st[f[j]]
  BY <1>3, <1>4, <1>7 DEF Picks
<1>10. \A j \in 1..Len(q) : q[j].from = rs[f[j]].from /\ q[j].k = rs[f[j]].k /\ q[j].to = rs[f[j]].to
  BY <1>2, <1>9
<1>11. InOrder(q)
  <2> SUFFICES ASSUME NEW j \in 1..Len(q), NEW k \in 1..Len(q), j < k PROVE Precedes(q[j], q[k])
    BY <1>8 DEF InOrder
  <2> DEFINE a == f[j]
             b == f[k]
  <2>1. a \in 1..n /\ b \in 1..n /\ a < b
    BY <1>7, <1>9 DEF Picks
  <2>2. /\ q[j].from = rs[a].from /\ q[j].k = rs[a].k /\ q[k].from = rs[b].from /\ q[k].k = rs[b].k
    BY <1>10
  <2> HIDE DEF a, b
  <2>3. Precedes(rs[a], rs[b])
    BY <1>1, <2>1 DEF WellRouted, InOrder
  <2>4. rs[a] \in R /\ rs[b] \in R
    BY <1>1, <2>1
  <2>5. Rank(q[j]) = Rank(rs[a]) /\ Rank(q[k]) = Rank(rs[b])
    BY <2>2, <2>4, RankFacts DEF AnswerRules
  <2> QED BY <2>2, <2>3, <2>5 DEF Precedes
<1>12. PICK m \in 1..Len(q) : f[m] = n
  BY <1>5, <1>7 DEF Picks
<1>13. m = Len(q)
  <2>1. m \in Nat /\ m <= Len(q) /\ Len(q) \in 1..Len(q)
    BY <1>8
  <2>2. ASSUME m < Len(q) PROVE FALSE
    <3>1. f[m] < f[Len(q)] /\ f[Len(q)] \in 1..n
      BY <1>7, <1>9, <2>1, <2>2 DEF Picks
    <3> QED BY <1>1, <1>12, <3>1
  <2>3. ~(m < Len(q)) /\ Len(q) \in Nat
    BY <1>8, <2>2
  <2>4. \A a, b \in Nat : a <= b /\ ~(a < b) => a = b
    OBVIOUS
  <2> QED BY <2>1, <2>3, <2>4
<1>14. /\ Len(q) > 0 /\ q[Len(q)].from = "all" /\ q[Len(q)].to = target /\ "field" \in q[Len(q)].sel
  <2>1. q[m] = st[n] /\ q[m].from = rs[n].from /\ q[m].to = rs[n].to
    BY <1>9, <1>10, <1>12
  <2>2. n \in 1..n
    BY <1>1
  <2>3. q[m].sel = rs[n].sel \ {"geo"}
    BY <1>2, <2>1, <2>2
  <2> QED BY <1>8, <1>13, <2>1, <2>3 DEF WellRouted
<1>15. ASSUME NEW j \in DOMAIN q PROVE LeadsWell(i, target, q[j].to)
  <2>1. f[j] \in DOMAIN rs /\ q[j].to = rs[f[j]].to
    BY <1>1, <1>8, <1>9, <1>10
  <2> QED BY <2>1 DEF WellRouted
<1>16. WellRouted(q, i, target)
  BY <1>6, <1>11, <1>14, <1>15 DEF WellRouted
<1>17. StripOf(rs) = q
  BY DEF StripOf, q, K, st
<1> QED BY <1>16, <1>17

-----------------------------------------------------------------------------
(* The balancer.                                                           *)

ProxyTags == Tags \X (Nat \ {0})

(* The tags of some outbounds.                                             *)
LEMMA TagsAtFacts ==
    ASSUME NEW obs \in Seq(Outbounds), NEW K \in SUBSET DOMAIN obs
    PROVE  LET t == TagsOf(ElementsAt(obs, K))
           IN  /\ t \in Seq(ProxyTags)
               /\ t = <<>> <=> K = {}
               /\ t # <<>> => \E k \in K : t[1] = obs[k].tag
               /\ \E f : Numbers(f, Len(t), K) /\ \A j \in 1..Len(t) : t[j] = obs[f[j]].tag
<1> DEFINE r == ElementsAt(obs, K)
           n == Len(r)
           t == TagsOf(r)
<1>1. DOMAIN obs = 1..Len(obs) /\ Len(obs) \in Nat /\ K \in SUBSET Nat
  BY LenProperties
<1>2. r \in Seq(Outbounds) /\ \E f : Picks(r, obs, K, f)
  BY ElementsAtFacts
<1>3. PICK f : Picks(r, obs, K, f)
  BY <1>2
<1> HIDE DEF r
<1>4. n \in Nat /\ DOMAIN r = 1..n /\ \A j \in 1..n : r[j] \in Outbounds
  BY <1>2, LenProperties, ElementOfSeq
<1>5. Numbers(f, n, K)
  BY <1>1, <1>3, <1>4, PicksNumbers
<1>6. \A j \in 1..n : r[j].tag \in ProxyTags /\ r[j] = obs[f[j]]
  BY <1>3, <1>4 DEF Outbounds, ProxyTags, Picks
<1>7. t = [j \in 1..n |-> r[j].tag]
  BY <1>4 DEF TagsOf
<1>8. t \in [1..n -> ProxyTags] /\ \A j \in 1..n : t[j] = obs[f[j]].tag
  BY <1>6, <1>7
<1> HIDE DEF n, t
<1>9. t \in Seq(ProxyTags) /\ Len(t) = n
  BY <1>4, <1>8
<1>10. (n = 0) = (K = {})
  <2>1. CASE n = 0
    BY <1>5, <2>1 DEF Numbers
  <2>2. CASE n # 0
    <3>1. 1 \in 1..n
      BY <1>4, <2>2
    <3> QED BY <1>5, <2>2, <3>1 DEF Numbers
  <2> QED BY <2>1, <2>2
<1>11. (t = <<>>) = (n = 0)
  BY <1>9
<1>12. t # <<>> => \E k \in K : t[1] = obs[k].tag
  <2> SUFFICES ASSUME t # <<>> PROVE \E k \in K : t[1] = obs[k].tag
    OBVIOUS
  <2>1. 1 \in 1..n
    BY <1>4, <1>11
  <2> QED BY <1>5, <1>8, <2>1 DEF Numbers
<1> QED BY <1>5, <1>8, <1>9, <1>10, <1>11, <1>12 DEF t, r

(* Over which outbounds traffic is spread, and which one is the fallback.  *)
LEMMA BalancerFacts ==
    ASSUME NEW obs \in Seq(Outbounds), obs # <<>>, NEW strategy
    PROVE  LET b == BalancerOf(obs, strategy)
               X == XHTTPOf(obs)
           IN  /\ b.selector \in Seq(ProxyTags) /\ b.selector # <<>> /\ b # NoBalancer
               /\ \E f : /\ Numbers(f, Len(b.selector), IF X # {} THEN X ELSE DOMAIN obs)
                         /\ \A j \in 1..Len(b.selector) : b.selector[j] = obs[f[j]].tag
               /\ \E k \in DOMAIN obs : b.fallbackTag = obs[k].tag /\ (X # DOMAIN obs => k \notin X)
<1> DEFINE X == XHTTPOf(obs)
           Y == DOMAIN obs \ X
           xs == TagsOf(ElementsAt(obs, X))
           ys == TagsOf(ElementsAt(obs, Y))
           b == BalancerOf(obs, strategy)
<1>1. X \in SUBSET DOMAIN obs /\ Y \in SUBSET DOMAIN obs
  BY DEF XHTTPOf
<1>2. b = [selector |-> IF xs # <<>> THEN xs ELSE ys,
           fallbackTag |-> IF ys # <<>> THEN ys[1] ELSE xs[1],
           strategy |-> NormalizeBalancerStrategy(strategy)]
  BY DEF BalancerOf
<1>3. DOMAIN obs # {}
  <2>1. Len(obs) # 0 /\ Len(obs) \in Nat /\ DOMAIN obs = 1..Len(obs)
    BY EmptySeq, LenProperties
  <2>2. 1 \in DOMAIN obs
    BY <2>1
  <2> QED BY <2>2
<1> HIDE DEF X
<1>4. /\ xs \in Seq(ProxyTags)
      /\ xs = <<>> <=> X = {}
      /\ xs # <<>> => \E k \in X : xs[1] = obs[k].tag
      /\ \E f : Numbers(f, Len(xs), X) /\ \A j \in 1..Len(xs) : xs[j] = obs[f[j]].tag
  BY <1>1, TagsAtFacts
<1>5. /\ ys \in Seq(ProxyTags)
      /\ ys = <<>> <=> Y = {}
      /\ ys # <<>> => \E k \in Y : ys[1] = obs[k].tag
      /\ \E f : Numbers(f, Len(ys), Y) /\ \A j \in 1..Len(ys) : ys[j] = obs[f[j]].tag
  <2> HIDE DEF Y
  <2> QED BY <1>1, TagsAtFacts
<1> HIDE DEF xs, ys, b
<1>6. /\ b.selector = IF X # {} THEN xs ELSE ys
      /\ b.fallbackTag = IF ys # <<>> THEN ys[1] ELSE xs[1]
      /\ b.strategy = NormalizeBalancerStrategy(strategy)
  BY <1>2, <1>4
<1>7. b # NoBalancer
  <2>1. b.strategy # "none"
    BY <1>6 DEF NormalizeBalancerStrategy, Strategies
  <2>2. NoBalancer.strategy = "none"
    BY DEF NoBalancer
  <2> QED BY <2>1, <2>2
<1>8. X = {} => Y = DOMAIN obs
  OBVIOUS
<1>9. b.selector \in Seq(ProxyTags) /\ b.selector # <<>>
  <2>1. CASE X # {}
    BY <1>4, <1>6, <2>1
  <2>2. CASE X = {}
    BY <1>3, <1>5, <1>6, <1>8, <2>2
  <2> QED BY <2>1, <2>2
<1>10. \E f : /\ Numbers(f, Len(b.selector), IF X # {} THEN X ELSE DOMAIN obs)
              /\ \A j \in 1..Len(b.selector) : b.selector[j] = obs[f[j]].tag
  <2> HIDE DEF Y
  <2>1. CASE X # {}
    BY <1>4, <1>6, <2>1
  <2>2. CASE X = {}
    BY <1>5, <1>6, <1>8, <2>2
  <2> QED BY <2>1, <2>2
<1>11. \E k \in DOMAIN obs : b.fallbackTag = obs[k].tag /\ (X # DOMAIN obs => k \notin X)
  <2>1. CASE Y # {}
    <3>1. PICK k \in Y : ys[1] = obs[k].tag
      BY <1>5, <2>1
    <3> QED BY <1>5, <1>6, <2>1, <3>1
  <2>2. CASE Y = {}
    <3>1. X = DOMAIN obs
      BY <1>1, <2>2
    <3>2. PICK k \in X : xs[1] = obs[k].tag
      BY <1>3, <1>4, <3>1
    <3> QED BY <1>5, <1>6, <2>2, <3>1, <3>2
  <2> QED BY <2>1, <2>2
<1> QED BY <1>7, <1>9, <1>10, <1>11 DEF b, X

-----------------------------------------------------------------------------
(* The document.                                                           *)

EndsOf(i) == ExpandClientsForNodes(i.clients, i.nodes)
ObsOf(i) == BuildOutbounds(SortClientsXHTTPFirst(EndsOf(i)))
TargetOf(i) == IF Len(ObsOf(i)) > 1 THEN ProxyBalance ELSE ObsOf(i)[1].tag
Full(i, strategy) == GenerateClientConfig(i.user, i.global, EndsOf(i), strategy)
Answer(i, strategy) ==
    IF i.mobile THEN ApplyMobileRoutingProfile(Full(i, strategy)) ELSE Full(i, strategy)

Direct == <<"direct", 0>>
Block == <<"block", 0>>

LEMMA NothingToBuild ==
    ASSUME NEW i, NEW strategy, ObsOf(i) = <<>>
    PROVE  Answer(i, strategy) = NoDocument
<1>1. Full(i, strategy) = NoDocument
  BY DEF Full, GenerateClientConfig, ObsOf
<1>2. NoDocument.rules = <<>> /\ NoDocument = [NoDocument EXCEPT !.rules = <<>>]
  BY DEF NoDocument
<1> DEFINE st == [k \in DOMAIN NoDocument.rules |-> [NoDocument.rules[k] EXCEPT !.sel = @ \ {"geo"}]]
           K == {k \in DOMAIN st : st[k].sel # {}}
<1>3. st = <<>> /\ K = {}
  BY <1>2
<1>4. ApplyMobileRoutingProfile(NoDocument) = [NoDocument EXCEPT !.rules = ElementsAt(st, K)]
  BY DEF ApplyMobileRoutingProfile
<1> HIDE DEF st, K
<1>5. ElementsAt(<<>>, {}) = <<>>
  <2>1. PICK f : Picks(ElementsAt(<<>>, {}), <<>>, {}, f) /\ ElementsAt(<<>>, {}) \in Seq({})
    <3>1. <<>> \in Seq({}) /\ {} \in SUBSET DOMAIN <<>>
      OBVIOUS
    <3> QED BY <3>1, ElementsAtFacts, Zenon
  <2>2. Len(ElementsAt(<<>>, {})) = 0
    <3>1. Len(ElementsAt(<<>>, {})) \in Nat
      BY <2>1
    <3>2. Len(ElementsAt(<<>>, {})) # 0 => 1 \in 1..Len(ElementsAt(<<>>, {}))
      BY <3>1
    <3> QED BY <2>1, <3>2 DEF Picks
  <2> QED BY <2>1, <2>2, EmptySeq
<1>6. ApplyMobileRoutingProfile(NoDocument) = NoDocument
  BY <1>2, <1>3, <1>4, <1>5
<1> QED BY <1>1, <1>6 DEF Answer

(* What a document consists of.                                            *)
Consists(d, i, strategy) ==
    /\ d.outbounds = TagsOf(ObsOf(i)) \o <<Direct, Block>>
    /\ d.balancer = IF Len(ObsOf(i)) > 1 THEN BalancerOf(ObsOf(i), strategy) ELSE NoBalancer
    /\ d.observed = IF d.balancer.strategy \in Measured THEN d.balancer.selector ELSE <<>>
    /\ WellRouted(d.rules, i, TargetOf(i))
    /\ ~i.mobile => \A l \in {i.user, i.global} : \A k \in Effective(l) :
         \E j \in DOMAIN d.rules : d.rules[j].from = l[k].from /\ d.rules[j].k = k

LEMMA AnswerParts ==
    ASSUME NEW i, IsInput(i), NEW strategy, ObsOf(i) # <<>>
    PROVE  Consists(Answer(i, strategy), i, strategy)
<1> DEFINE obs == ObsOf(i)
           d == Answer(i, strategy)
           f == Full(i, strategy)
           bal == IF Len(obs) > 1 THEN BalancerOf(obs, strategy) ELSE NoBalancer
           rs == AnswerOf(i, TargetOf(i))
           st == [k \in DOMAIN rs |-> [rs[k] EXCEPT !.sel = @ \ {"geo"}]]
<1>1. f = [outbounds |-> TagsOf(obs) \o <<Direct, Block>>, rules |-> rs, balancer |-> bal,
           observed |-> IF bal.strategy \in Measured THEN bal.selector ELSE <<>>]
  BY DEF Full, GenerateClientConfig, ObsOf, AnswerOf, AllRule, ListedOf, TargetOf, Direct, Block
<1>2. /\ WellRouted(rs, i, TargetOf(i))
      /\ \A l \in {i.user, i.global} : \A k \in Effective(l) :
           \E j \in DOMAIN rs : rs[j].from = l[k].from /\ rs[j].k = k
  BY AnswerFacts, SMTT(60)
<1> DEFINE q == ElementsAt(st, {k \in DOMAIN st : st[k].sel # {}})
<1>3. WellRouted(q, i, TargetOf(i))
  <2> HIDE DEF rs
  <2>1. WellRouted(StripOf(rs), i, TargetOf(i))
    BY <1>2, StrippedFacts
  <2> QED BY <2>1, Zenon DEF StripOf
<1> HIDE DEF bal, rs
<1>4. f.rules = rs
  BY <1>1
<1>5. ApplyMobileRoutingProfile(f) = [f EXCEPT !.rules = q]
  <2> HIDE DEF f
  <2> QED BY <1>4 DEF ApplyMobileRoutingProfile
<1> HIDE DEF q, st
<1>6. d = IF i.mobile THEN [f EXCEPT !.rules = q] ELSE f
  BY <1>5 DEF Answer
<1> HIDE DEF f
<1>7. /\ d.outbounds = TagsOf(obs) \o <<Direct, Block>> /\ d.balancer = bal
      /\ d.observed = IF bal.strategy \in Measured THEN bal.selector ELSE <<>>
      /\ d.rules = IF i.mobile THEN q ELSE rs
  BY <1>1, <1>6
<1> HIDE DEF d
<1>8. Consists(d, i, strategy)
  BY <1>2, <1>3, <1>7 DEF bal, Consists
<1> QED BY <1>8 DEF d

(* The outbounds of a document are those of the endpoints, and two more.   *)
LEMMA HeldTags ==
    ASSUME NEW obs \in Seq(Outbounds)
    PROVE  LET s == TagsOf(obs) \o <<Direct, Block>>
           IN  /\ DOMAIN s = 1..(Len(obs) + 2)
               /\ \A k \in 1..Len(obs) : s[k] = obs[k].tag /\ obs[k].tag \in ProxyTags
               /\ s[Len(obs) + 1] = Direct /\ s[Len(obs) + 2] = Block
               /\ \A k \in DOMAIN obs : Holds(s, obs[k].tag)
               /\ Holds(s, Direct) /\ Holds(s, Block)
<1> DEFINE a == TagsOf(obs)
           b == <<Direct, Block>>
           n == Len(obs)
           S == ProxyTags \cup {Direct, Block}
           s == a \o b
<1>1. n \in Nat /\ DOMAIN obs = 1..n /\ \A k \in 1..n : obs[k] \in Outbounds
  BY LenProperties, ElementOfSeq
<1>2. a = [k \in 1..n |-> obs[k].tag] /\ \A k \in 1..n : obs[k].tag \in ProxyTags
  BY <1>1 DEF TagsOf, Outbounds, ProxyTags
<1>3. a \in Seq(S) /\ Len(a) = n /\ \A k \in 1..n : a[k] = obs[k].tag
  <2>1. a \in [1..n -> S]
    BY <1>2
  <2> HIDE DEF S, a
  <2> QED BY <1>1, <1>2, <2>1
<1>4. b \in Seq(S) /\ Len(b) = 2 /\ b[1] = Direct /\ b[2] = Block
  OBVIOUS
<1> HIDE DEF a, b, n, S
<1>5. /\ s \in Seq(S) /\ Len(s) = n + 2
      /\ \A k \in 1..(n + 2) : s[k] = IF k <= n THEN a[k] ELSE b[k - n]
  <2>1. /\ s \in Seq(S) /\ Len(s) = Len(a) + Len(b)
        /\ \A k \in 1..(Len(a) + Len(b)) : s[k] = IF k <= Len(a) THEN a[k] ELSE b[k - Len(a)]
    BY <1>3, <1>4, ConcatProperties, ZenonT(60)
  <2>2. Len(a) = n /\ Len(b) = 2
    BY <1>3, <1>4
  <2> HIDE DEF s
  <2> QED BY <2>1, <2>2
<1>6. DOMAIN s = 1..(n + 2)
  BY <1>5, LenProperties
<1> HIDE DEF s
<1>7. \A k \in 1..n : k \in 1..(n + 2) /\ s[k] = obs[k].tag
  BY <1>1, <1>3, <1>5
<1>8. /\ n + 1 \in 1..(n + 2) /\ s[n + 1] = Direct
      /\ n + 2 \in 1..(n + 2) /\ s[n + 2] = Block
  <2>1. n + 1 \in 1..(n + 2) /\ ~(n + 1 <= n) /\ (n + 1) - n = 1
    BY <1>1
  <2>2. n + 2 \in 1..(n + 2) /\ ~(n + 2 <= n) /\ (n + 2) - n = 2
    BY <1>1
  <2> QED BY <1>4, <1>5, <2>1, <2>2
<1>9. (\A k \in DOMAIN obs : Holds(s, obs[k].tag)) /\ Holds(s, Direct) /\ Holds(s, Block)
  BY <1>1, <1>6, <1>7, <1>8 DEF Holds
<1> QED BY <1>2, <1>6, <1>7, <1>8, <1>9 DEF s, a, b, n

-----------------------------------------------------------------------------
(* The properties of one document.                                         *)

(* The last answer is a document for what is asked.                        *)
AnswerInv == in \in Inputs /\ (doc = NoDocument \/ \E strategy : doc = Answer(in, strategy))

(* Parts of a document that is one.                                        *)
LEMMA ParsedAnswer ==
    ASSUME AnswerInv, doc # NoDocument
    PROVE  /\ IsInput(in) /\ ObsOf(in) # <<>> /\ ObsOf(in) \in Seq(Outbounds)
           /\ Len(ObsOf(in)) \in Nat \ {0} /\ DOMAIN ObsOf(in) = 1..Len(ObsOf(in))
           /\ EndsOf(in) \in Seq(Clients)
           /\ \E strategy : Consists(doc, in, strategy)
<1>1. PICK strategy : doc = Answer(in, strategy)
  BY DEF AnswerInv
<1>2. IsInput(in)
  BY InputsAssumption DEF AnswerInv
<1>3. ObsOf(in) # <<>>
  BY <1>1, NothingToBuild
<1>4. EndsOf(in) \in Seq(Clients)
  BY <1>2, EndpointsFacts DEF EndsOf
<1>5. ObsOf(in) \in Seq(Outbounds)
  BY <1>4, OutboundsFacts DEF ObsOf
<1>6. Len(ObsOf(in)) \in Nat \ {0} /\ DOMAIN ObsOf(in) = 1..Len(ObsOf(in))
  BY <1>3, <1>5, EmptySeq, LenProperties
<1>7. Consists(doc, in, strategy)
  BY <1>1, <1>2, <1>3, AnswerParts
<1> QED BY <1>2, <1>3, <1>4, <1>5, <1>6, <1>7

LEMMA AnswerResolves ==
    ASSUME AnswerInv
    PROVE  OnlySpellingDangles
<1>1. CASE doc = NoDocument
  <2>1. doc.rules = <<>> /\ doc.balancer = NoBalancer
    BY <1>1 DEF NoDocument
  <2> QED BY <2>1 DEF OnlySpellingDangles, BalancerResolves
<1>2. CASE doc # NoDocument
  <2> DEFINE obs == ObsOf(in)
             target == TargetOf(in)
  <2>1. /\ IsInput(in) /\ obs # <<>> /\ obs \in Seq(Outbounds) /\ Len(obs) \in Nat \ {0}
        /\ DOMAIN obs = 1..Len(obs)
    BY <1>2, ParsedAnswer
  <2>2. PICK strategy : Consists(doc, in, strategy)
    BY <1>2, ParsedAnswer
  <2>3. /\ doc.outbounds = TagsOf(obs) \o <<Direct, Block>>
        /\ doc.balancer = IF Len(obs) > 1 THEN BalancerOf(obs, strategy) ELSE NoBalancer
        /\ WellRouted(doc.rules, in, target)
    BY <2>2 DEF Consists
  <2>4. /\ \A k \in DOMAIN obs : Holds(doc.outbounds, obs[k].tag)
        /\ Holds(doc.outbounds, Direct) /\ Holds(doc.outbounds, Block)
    BY <2>1, <2>3, HeldTags
  <2>5. /\ BalancerOf(obs, strategy).selector \in Seq(ProxyTags)
        /\ BalancerOf(obs, strategy).selector # <<>> /\ BalancerOf(obs, strategy) # NoBalancer
    BY <2>1, BalancerFacts
  <2>6. /\ \A j \in 1..Len(BalancerOf(obs, strategy).selector) :
             \E k \in DOMAIN obs : BalancerOf(obs, strategy).selector[j] = obs[k].tag
        /\ \E k \in DOMAIN obs : BalancerOf(obs, strategy).fallbackTag = obs[k].tag
    <3> DEFINE b == BalancerOf(obs, strategy)
               U == IF XHTTPOf(obs) # {} THEN XHTTPOf(obs) ELSE DOMAIN obs
    <3>1. U \subseteq DOMAIN obs
      BY DEF XHTTPOf
    <3>2. /\ \E f : Numbers(f, Len(b.selector), U) /\ \A j \in 1..Len(b.selector) : b.selector[j] = obs[f[j]].tag
          /\ \E k \in DOMAIN obs : b.fallbackTag = obs[k].tag
      BY <2>1, BalancerFacts, SMTT(60)
    <3> HIDE DEF b, U
    <3>3. PICK f : Numbers(f, Len(b.selector), U) /\ \A j \in 1..Len(b.selector) : b.selector[j] = obs[f[j]].tag
      BY <3>2
    <3>4. \A j \in 1..Len(b.selector) : f[j] \in DOMAIN obs
      BY <3>1, <3>3 DEF Numbers
    <3> QED BY <3>2, <3>3, <3>4 DEF b
  <2>7. ASSUME NEW k \in DOMAIN doc.rules
        PROVE  \/ Resolves(doc.rules[k].to)
               \/ \E l \in {in.user, in.global} : \E m \in DOMAIN l :
                    l[m].out \in {"Direct", "Block"} /\ doc.rules[k].to = <<l[m].out, 0>>
    <3> DEFINE to == doc.rules[k].to
    <3>1. LeadsWell(in, target, to)
      BY <2>3 DEF WellRouted
    <3>2. CASE \E l \in {in.user, in.global} : \E m \in DOMAIN l :
                 to = <<l[m].out, 0>> /\ l[m].out \in {"Direct", "Block"}
      BY <3>2, Zenon
    <3>3. CASE to \in {target, Direct, Block}
      <4>1. CASE Len(obs) > 1
        BY <2>3, <2>4, <2>5, <3>3, <4>1 DEF TargetOf, Resolves
      <4>2. CASE ~(Len(obs) > 1)
        <5>1. target = obs[1].tag /\ 1 \in DOMAIN obs
          BY <2>1, <4>2 DEF TargetOf
        <5> QED BY <2>4, <3>3, <5>1 DEF Resolves
      <4> QED BY <4>1, <4>2
    <3> HIDE DEF to
    <3> QED BY <3>1, <3>2, <3>3 DEF LeadsWell, Direct, Block
  <2>8. ASSUME doc.balancer # NoBalancer
        PROVE  /\ Holds(doc.outbounds, doc.balancer.fallbackTag)
               /\ doc.balancer.selector # <<>>
               /\ \A k \in DOMAIN doc.balancer.selector : Holds(doc.outbounds, doc.balancer.selector[k])
    <3>1. doc.balancer = BalancerOf(obs, strategy)
      BY <2>3, <2>8
    <3>2. DOMAIN doc.balancer.selector = 1..Len(doc.balancer.selector)
      BY <2>5, <3>1, LenProperties
    <3> QED BY <2>4, <2>5, <2>6, <3>1, <3>2
  <2> QED BY <2>7, <2>8 DEF OnlySpellingDangles, BalancerResolves
<1> QED BY <1>1, <1>2

LEMMA AnswerInPriority ==
    ASSUME AnswerInv
    PROVE  RulesInPriority
<1> SUFFICES ASSUME doc # NoDocument PROVE RulesInPriority
  BY DEF RulesInPriority
<1> DEFINE obs == ObsOf(in)
           target == TargetOf(in)
           rs == doc.rules
<1>1. /\ IsInput(in) /\ obs # <<>> /\ obs \in Seq(Outbounds) /\ Len(obs) \in Nat \ {0}
      /\ DOMAIN obs = 1..Len(obs)
  BY ParsedAnswer
<1>2. PICK strategy : Consists(doc, in, strategy)
  BY ParsedAnswer
<1>3. /\ WellRouted(rs, in, target)
      /\ ~in.mobile => \A l \in {in.user, in.global} : \A k \in Effective(l) :
           \E j \in DOMAIN rs : rs[j].from = l[k].from /\ rs[j].k = k
  BY <1>2 DEF Consists
<1>4. target \notin {<<"direct", 0>>, <<"block", 0>>}
  <2>1. CASE Len(obs) > 1
    BY <2>1 DEF TargetOf, ProxyBalance
  <2>2. CASE ~(Len(obs) > 1)
    <3>1. target = obs[1].tag /\ obs[1] \in Outbounds
      BY <1>1, <2>2, ElementOfSeq DEF TargetOf
    <3>2. target[2] # 0
      BY <3>1 DEF Outbounds
    <3> QED BY <3>2
  <2> QED BY <2>1, <2>2
<1> HIDE DEF target, rs
<1>5. Last(rs).from = "all" /\ Last(rs).to \notin {<<"direct", 0>>, <<"block", 0>>}
  BY <1>3, <1>4 DEF WellRouted, Last
<1>6. ASSUME NEW j \in DOMAIN rs, NEW k \in DOMAIN rs, j < k
      PROVE  \/ Rank(rs[j]) < Rank(rs[k])
             \/ rs[j].from = rs[k].from /\ rs[j].k < rs[k].k
  BY <1>3, <1>6 DEF WellRouted, InOrder, Precedes
<1>7. ASSUME ~in.mobile, NEW l \in {in.user, in.global}, NEW k \in DOMAIN l,
             l[k].sel # {}, IsAllowedOutboundTag(l[k].out)
      PROVE  \E j \in DOMAIN rs : rs[j].from = l[k].from /\ rs[j].k = k
  <2>1. k \in Effective(l)
    BY <1>7 DEF Effective
  <2> QED BY <1>3, <1>7, <2>1
<1> QED BY <1>5, <1>6, <1>7 DEF RulesInPriority, rs

(* Tags of a sequence that numbers endpoints are counted by the endpoints. *)
CountIn(s, t) == Cardinality({k \in DOMAIN s : s[k][1] = t /\ s[k][2] # 0})
CountOf(ends, K, t) == Cardinality({i \in K : ends[i].tag = t})
Carries(s, n, ends, f) ==
    /\ \A j \in 1..n : j \in DOMAIN s /\ s[j][1] = ends[f[j]].tag /\ s[j][2] # 0
    /\ \A j \in DOMAIN s : j \notin 1..n => s[j][2] = 0

LEMMA CountTags ==
    ASSUME NEW n \in Nat, NEW K, NEW f, Numbers(f, n, K), NEW ends, NEW s,
           Carries(s, n, ends, f), NEW t
    PROVE  CountIn(s, t) = CountOf(ends, K, t)
<1> USE DEF Carries
<1> DEFINE D == DOMAIN s
           A == {k \in D : s[k][1] = t /\ s[k][2] # 0}
           B == {i \in K : ends[i].tag = t}
<1>1. A \in SUBSET (1..n) /\ B \in SUBSET K
  OBVIOUS
<1>2. \A j \in 1..n : f[j] \in K
  BY DEF Numbers
<1>3. \A j \in 1..n : j \in A <=> f[j] \in B
  BY <1>2
<1> HIDE DEF A, B
<1>4. Cardinality(A) = Cardinality(B)
  BY <1>1, <1>3, NumbersCount
<1> QED BY <1>4 DEF A, B, CountIn, CountOf

LEMMA AnswerXHTTP ==
    ASSUME AnswerInv
    PROVE  XHTTPPrimary
<1> SUFFICES ASSUME doc # NoDocument PROVE XHTTPPrimary
  BY DEF XHTTPPrimary
<1> DEFINE ends == EndsOf(in)
           obs == ObsOf(in)
           n == Len(obs)
           X == XHTTPOf(obs)
           good == {i \in DOMAIN ends : ends[i].ok}
           fast == {i \in good : ends[i].xhttp}
           U == IF X # {} THEN X ELSE DOMAIN obs
           V == IF fast = {} THEN good ELSE fast
<1>1. /\ IsInput(in) /\ obs # <<>> /\ obs \in Seq(Outbounds) /\ n \in Nat \ {0}
      /\ DOMAIN obs = 1..n /\ ends \in Seq(Clients)
  BY ParsedAnswer
<1>2. PICK strategy : Consists(doc, in, strategy)
  BY ParsedAnswer
<1> DEFINE b == BalancerOf(obs, strategy)
<1>3. /\ doc.outbounds = TagsOf(obs) \o <<Direct, Block>>
      /\ doc.balancer = IF n > 1 THEN b ELSE NoBalancer
      /\ doc.observed = IF doc.balancer.strategy \in Measured THEN doc.balancer.selector ELSE <<>>
  BY <1>2 DEF Consists
<1>4. PICK p : /\ Numbers(p, n, good)
               /\ \A j \in 1..n : obs[j].client = ends[p[j]] /\ obs[j].tag[1] = ends[p[j]].tag
  <2> HIDE DEF ends
  <2>1. \E p : /\ Numbers(p, n, good)
               /\ \A j \in 1..n : obs[j].client = ends[p[j]] /\ obs[j].tag[1] = ends[p[j]].tag
    BY <1>1, OutboundsFacts DEF ObsOf, ends
  <2> QED BY <2>1
<1>5. \A j, k \in DOMAIN ends : ends[j].tag = ends[k].tag => ends[j].xhttp = ends[k].xhttp
  BY <1>1, EndpointsFacts DEF EndsOf
<1>6. /\ b.selector \in Seq(ProxyTags) /\ b # NoBalancer
      /\ \E g : Numbers(g, Len(b.selector), U) /\ \A j \in 1..Len(b.selector) : b.selector[j] = obs[g[j]].tag
      /\ \E k \in DOMAIN obs : b.fallbackTag = obs[k].tag /\ (X # DOMAIN obs => k \notin X)
  <2>1. obs \in Seq(Outbounds) /\ obs # <<>>
    BY <1>1
  <2> HIDE DEF ends, obs
  <2> QED BY <2>1, BalancerFacts
<1>7. \A k \in DOMAIN obs : k \in X <=> obs[k].client.xhttp
  BY DEF XHTTPOf
<1>8. X \subseteq DOMAIN obs
  BY DEF XHTTPOf
<1>9. /\ DOMAIN doc.outbounds = 1..(n + 2)
      /\ \A k \in 1..n : doc.outbounds[k] = obs[k].tag /\ obs[k].tag \in ProxyTags
      /\ doc.outbounds[n + 1] = Direct /\ doc.outbounds[n + 2] = Block
  BY <1>1, <1>3, HeldTags
<1> HIDE DEF ends, obs, n, b, X
<1>10. \A t \in Tags : CountIn(doc.outbounds, t) = CountOf(ends, good, t)
  <2> DEFINE s == doc.outbounds
  <2>1. \A j \in 1..n : j \in DOMAIN s /\ s[j][1] = ends[p[j]].tag /\ s[j][2] # 0
    <3> TAKE j \in 1..n
    <3>1. j \in DOMAIN s /\ s[j] = obs[j].tag
      BY <1>1, <1>9
    <3>2. obs[j].tag[2] # 0
      BY <1>9 DEF ProxyTags
    <3> QED BY <1>4, <3>1, <3>2
  <2>2. \A j \in DOMAIN s : j \notin 1..n => j = n + 1 \/ j = n + 2
    BY <1>1, <1>9
  <2>3. \A j \in DOMAIN s : j \notin 1..n => s[j][2] = 0
    BY <2>2, <1>9 DEF Direct, Block
  <2> HIDE DEF s, good
  <2>4. Carries(s, n, ends, p)
    BY <2>1, <2>3 DEF Carries
  <2>5. Numbers(p, n, good) /\ n \in Nat
    BY <1>1, <1>4
  <2>6. \A t : CountIn(s, t) = CountOf(ends, good, t)
    BY <2>4, <2>5, CountTags
  <2> QED BY <2>6 DEF s
<1>11. Cardinality(good) = n
  <2>1. \A j \in 1..n : j \in 1..n <=> p[j] \in good
    BY <1>4 DEF Numbers
  <2> HIDE DEF good
  <2>2. Cardinality(1..n) = Cardinality(good)
    BY <1>1, <1>4, <2>1, NumbersCount
  <2>3. Cardinality(1..n) = n
    BY <1>1, FS_Interval
  <2> QED BY <2>2, <2>3
<1>12. (doc.balancer = NoBalancer) = (Cardinality(good) = 1)
  <2> HIDE DEF good
  <2> QED BY <1>1, <1>3, <1>6, <1>11
<1>13. \A j \in 1..n : p[j] \in good /\ (p[j] \in fast <=> j \in X)
  <2>1. \A j \in 1..n : p[j] \in good
    BY <1>4 DEF Numbers
  <2> QED BY <1>1, <1>4, <1>7, <2>1
<1>14. \A i \in good : \E j \in 1..n : p[j] = i
  BY <1>4 DEF Numbers
<1>15. fast \subseteq good
  OBVIOUS
<1>16. fast = {} <=> X = {}
  <2> HIDE DEF good, fast
  <2> QED BY <1>1, <1>8, <1>13, <1>14, <1>15
<1>17. \A t \in Tags : CountIn(b.selector, t) = CountOf(ends, V, t)
  <2> DEFINE s == b.selector
             m == Len(b.selector)
  <2>1. PICK g : Numbers(g, m, U) /\ \A j \in 1..m : s[j] = obs[g[j]].tag
    BY <1>6
  <2>2. m \in Nat /\ DOMAIN s = 1..m /\ \A j \in 1..m : s[j] \in ProxyTags
    BY <1>6, LenProperties, ElementOfSeq
  <2> DEFINE e == [j \in 1..m |-> p[g[j]]]
  <2>3. /\ U \subseteq 1..n /\ \A j \in U : p[j] \in V
        /\ \A i \in V : \E j \in U : p[j] = i
    <3> HIDE DEF good, fast
    <3>1. CASE X = {}
      BY <1>1, <1>13, <1>14, <1>16, <3>1
    <3>2. CASE X # {}
      BY <1>1, <1>8, <1>13, <1>14, <1>15, <1>16, <3>2
    <3> QED BY <3>1, <3>2
  <2> HIDE DEF s, m, U, V, good, fast
  <2>4. \A j \in 1..m : g[j] \in U
    BY <2>1 DEF Numbers
  <2>5. e \in [1..m -> V] /\ \A j \in 1..m : e[j] = p[g[j]]
    BY <2>3, <2>4
  <2> HIDE DEF e
  <2>6. OneToOne(p, U) /\ Reaches(p, U, V)
    BY <1>4, <2>3 DEF Numbers, OneToOne, Reaches
  <2>7. Numbers(e, m, V)
    <3>1. m \in Nat /\ Numbers(g, m, U)
      BY <2>1, <2>2
    <3> QED BY <2>5, <2>6, <3>1, NumbersCompose
  <2>8. ASSUME NEW j \in 1..m
        PROVE  j \in DOMAIN s /\ s[j][1] = ends[e[j]].tag /\ s[j][2] # 0
    <3>1. s[j] = obs[g[j]].tag /\ g[j] \in 1..n /\ e[j] = p[g[j]]
      BY <2>1, <2>3, <2>4, <2>5
    <3>2. obs[g[j]].tag[1] = ends[p[g[j]]].tag
      BY <1>4, <3>1
    <3>3. s[j][2] # 0
      BY <2>2 DEF ProxyTags
    <3> QED BY <2>2, <3>1, <3>2, <3>3
  <2>9. Carries(s, m, ends, e)
    BY <2>2, <2>8 DEF Carries
  <2>10. \A t : CountIn(s, t) = CountOf(ends, V, t)
    BY <2>2, <2>7, <2>9, CountTags
  <2> QED BY <2>10 DEF s
<1>18. ASSUME fast # {}, fast # good, NEW i \in fast
       PROVE  ends[i].tag # b.fallbackTag[1]
  <2>1. X # DOMAIN obs
    <3> HIDE DEF good, fast
    <3> QED BY <1>1, <1>13, <1>14, <1>15, <1>18
  <2>2. PICK k \in DOMAIN obs : b.fallbackTag = obs[k].tag /\ k \notin X
    BY <1>6, <2>1
  <2>3. p[k] \in good /\ p[k] \notin fast /\ obs[k].tag[1] = ends[p[k]].tag
    BY <1>1, <1>4, <1>13, <2>2
  <2>4. ends[i].xhttp /\ ~ends[p[k]].xhttp /\ i \in DOMAIN ends /\ p[k] \in DOMAIN ends
    BY <2>3
  <2> QED BY <1>5, <2>2, <2>3, <2>4
<1>19. doc.balancer # NoBalancer => doc.balancer = b
  BY <1>3
<1>20. /\ \A t \in Tags : CountIn(doc.outbounds, t) = CountOf(ends, good, t)
       /\ (doc.balancer = NoBalancer) = (Cardinality(good) = 1)
       /\ doc.balancer # NoBalancer =>
            /\ \A t \in Tags : CountIn(doc.balancer.selector, t) = CountOf(ends, V, t)
            /\ fast # {} /\ fast # good => \A i \in fast : ends[i].tag # doc.balancer.fallbackTag[1]
            /\ doc.observed = IF doc.balancer.strategy \in Measured THEN doc.balancer.selector ELSE <<>>
  <2> HIDE DEF good, fast, V
  <2>1. fast # {} /\ fast # good => \A i \in fast : ends[i].tag # b.fallbackTag[1]
    BY <1>18, Zenon
  <2> QED BY <1>3, <1>10, <1>12, <1>17, <1>19, <2>1
<1> QED BY <1>20, Zenon DEF XHTTPPrimary, ends, EndsOf, CountIn, CountOf

-----------------------------------------------------------------------------
(* The stored lists.                                                       *)

RuleLists == {l \in Seq(Nat) : Len(l) <= MaxLen}
ListOps == {"get", "add", "set", "clear"}
NamingOps == {"updateAt", "deleteAt", "updateByID", "deleteByID"}
Requests == [pc : {"idle", "read", "assign", "edit", "replace"}, op : ListOps \cup NamingOps,
             id : Nat, index : Nat, list : RuleLists]

(* What a request has read and will edit has ids, and of a global list     *)
(* they differ; a global list is edited by adding to it only.              *)
RequestOf(q, sc) ==
    /\ q \in Requests
    /\ q.pc \in {"assign", "edit"} =>
         /\ Identified(q.list) /\ q.op \notin {"set", "clear"}
         /\ sc = "global" => ValidateUserRoutes(q.list)
    /\ q.pc = "read" => q.op \notin {"set", "clear"}
    /\ sc = "global" => q.op \in ListOps

RoutesInv ==
    /\ scope \in {"user", "global"}
    /\ routes \in RuleLists
    /\ h \in [Handlers -> Requests] /\ \A p \in Handlers : RequestOf(h[p], scope)
    /\ RulesIdentified
    /\ GlobalIdsUnique

(* What generateRouteID returns.                                           *)
LEMMA NewIdsFacts ==
    ASSUME IdsLeft
    PROVE  /\ \A k \in 1..MaxLen : GenerateRouteID(k) \in Nat \ {0} /\ GenerateRouteID(k) \notin Used
           /\ \A j, k \in 1..MaxLen : GenerateRouteID(j) = GenerateRouteID(k) => j = k
<1> DEFINE f == CHOOSE g \in NewIds : TRUE
<1>1. f \in NewIds
  BY DEF IdsLeft
<1>2. \A k : GenerateRouteID(k) = f[k]
  BY DEF GenerateRouteID
<1> HIDE DEF f
<1>3. /\ f \in [1..MaxLen -> (1..MaxId) \ Used]
      /\ \A j, k \in 1..MaxLen : f[j] = f[k] => j = k
  BY <1>1 DEF NewIds, Injection, IsInjective
<1>4. \A k \in 1..MaxLen : f[k] \in Nat \ {0} /\ f[k] \notin Used
  BY <1>3, BoundsAssumption
<1> QED BY <1>2, <1>3, <1>4

(* Lists as functions.                                                     *)
LEMMA ListFacts ==
    ASSUME NEW l \in RuleLists
    PROVE  /\ Len(l) \in Nat /\ Len(l) <= MaxLen /\ DOMAIN l = 1..Len(l)
           /\ \A k \in 1..Len(l) : l[k] \in Nat /\ k \in 1..MaxLen
           /\ l \in [1..Len(l) -> Nat]
<1>1. Len(l) \in Nat /\ DOMAIN l = 1..Len(l) /\ l \in [1..Len(l) -> Nat] /\ Len(l) <= MaxLen
  BY LenProperties DEF RuleLists
<1> QED BY <1>1, BoundsAssumption

(* A function on an initial segment is a list.                             *)
LEMMA MadeList ==
    ASSUME NEW n \in Nat, n <= MaxLen, NEW l \in [1..n -> Nat]
    PROVE  l \in RuleLists /\ Len(l) = n /\ DOMAIN l = 1..n
<1>1. l \in Seq(Nat)
  BY SeqDef
<1>2. Len(l) \in Nat /\ DOMAIN l = 1..Len(l)
  BY <1>1, LenProperties
<1>3. DOMAIN l = 1..n
  OBVIOUS
<1>4. Len(l) = n
  BY <1>2, <1>3
<1> QED BY <1>1, <1>3, <1>4 DEF RuleLists

(* assignRouteIDs gives every rule an id and makes no two of them equal.   *)
LEMMA AssignFacts ==
    ASSUME IdsLeft, NEW l \in RuleLists, Range(l) \subseteq Used
    PROVE  /\ AssignRouteIDs(l) \in RuleLists /\ Identified(AssignRouteIDs(l))
           /\ ValidateUserRoutes(l) => ValidateUserRoutes(AssignRouteIDs(l))
<1> DEFINE a == AssignRouteIDs(l)
           n == Len(l)
<1>1. n \in Nat /\ n <= MaxLen /\ DOMAIN l = 1..n /\ \A k \in 1..n : l[k] \in Nat /\ k \in 1..MaxLen
  BY ListFacts
<1> HIDE DEF n
<1>2. /\ DOMAIN a = 1..n /\ \A k \in 1..n : a[k] = IF l[k] = 0 THEN GenerateRouteID(k) ELSE l[k]
      /\ a = [k \in 1..n |-> a[k]]
  BY <1>1 DEF AssignRouteIDs
<1> HIDE DEF a
<1>3. \A k \in 1..n : a[k] \in Nat \ {0}
  BY <1>1, <1>2, NewIdsFacts
<1>4. a \in [1..n -> Nat]
  BY <1>2, <1>3
<1>5. a \in RuleLists /\ Identified(a)
  BY <1>1, <1>2, <1>3, <1>4, MadeList DEF Identified
<1>6. ASSUME ValidateUserRoutes(l) PROVE ValidateUserRoutes(a)
  <2>1. \A k \in 1..n : l[k] \in Used
    BY <1>1 DEF Range
  <2>2. ASSUME NEW j \in 1..n, NEW k \in 1..n, a[j] = a[k] PROVE j = k
    <3>1. CASE l[j] = 0 /\ l[k] = 0
      BY <1>1, <1>2, <2>2, <3>1, NewIdsFacts
    <3>2. CASE l[j] = 0 /\ l[k] # 0
      BY <1>1, <1>2, <2>1, <2>2, <3>2, NewIdsFacts
    <3>3. CASE l[j] # 0 /\ l[k] = 0
      BY <1>1, <1>2, <2>1, <2>2, <3>3, NewIdsFacts
    <3>4. CASE l[j] # 0 /\ l[k] # 0
      BY <1>1, <1>2, <1>6, <2>2, <3>4 DEF ValidateUserRoutes
    <3> QED BY <3>1, <3>2, <3>3, <3>4
  <2> QED BY <1>2, <2>2 DEF ValidateUserRoutes
<1> QED BY <1>5, <1>6 DEF a

(* findRouteIndexByID and the index of a request name a rule of the list.  *)
LEMMA TargetFacts ==
    ASSUME NEW q \in Requests, Target(q) # 0
    PROVE  /\ Target(q) \in 1..Len(q.list)
           /\ IF q.op \in {"updateAt", "deleteAt"} THEN Target(q) = q.index
              ELSE q.list[Target(q)] = q.id
<1>1. q.list \in RuleLists
  BY DEF Requests
<1>2. DOMAIN q.list = 1..Len(q.list) /\ Len(q.list) \in Nat
  BY <1>1, ListFacts
<1>3. CASE q.op \in {"updateAt", "deleteAt"}
  BY <1>2, <1>3 DEF Target
<1>4. CASE q.op \notin {"updateAt", "deleteAt"}
  <2> DEFINE K == {k \in DOMAIN q.list : q.list[k] = q.id}
  <2>1. Target(q) = FindRouteIndexByID(q.list, q.id)
    BY <1>4 DEF Target
  <2>2. K # {} /\ K \in SUBSET Nat
    BY <1>2, <2>1 DEF FindRouteIndexByID
  <2>3. PICK k \in K : \A j \in K : k <= j
    BY <2>2, FirstIndex
  <2>4. \A j \in 1..(k - 1) : q.list[j] # q.id
    <3> SUFFICES ASSUME NEW j \in 1..(k - 1) PROVE q.list[j] # q.id
      OBVIOUS
    <3>1. k \in 1..Len(q.list) /\ Len(q.list) \in Nat
      BY <1>2
    <3>2. j \in DOMAIN q.list /\ ~(k <= j)
      BY <1>2, <3>1
    <3> QED BY <2>3, <3>2
  <2>5. /\ FindRouteIndexByID(q.list, q.id) \in DOMAIN q.list
        /\ q.list[FindRouteIndexByID(q.list, q.id)] = q.id
    BY <2>3, <2>4 DEF FindRouteIndexByID
  <2> QED BY <1>2, <1>4, <2>1, <2>5
<1> QED BY <1>3, <1>4

(* Without one of its rules a list is shorter and still has ids.           *)
LEMMA RemovedFacts ==
    ASSUME NEW l \in RuleLists, Identified(l), NEW i \in 1..Len(l)
    PROVE  RemoveAt(l, i) \in RuleLists /\ Identified(RemoveAt(l, i))
<1> DEFINE n == Len(l)
           a == SubSeq(l, 1, i - 1)
           b == SubSeq(l, i + 1, n)
           P == Nat \ {0}
<1>1. n \in Nat /\ n <= MaxLen /\ DOMAIN l = 1..n /\ \A k \in 1..n : l[k] \in P
  BY ListFacts DEF Identified
<1>2. i \in 1..n
  OBVIOUS
<1> HIDE DEF n, P
<1>3. (\A k \in 1..(i - 1) : l[k] \in P) /\ \A k \in (i + 1)..n : l[k] \in P
  BY <1>1, <1>2
<1>4. a \in Seq(P) /\ Len(a) = i - 1
  <2>1. /\ SubSeq(l, 1, i - 1) \in Seq(P)
        /\ Len(SubSeq(l, 1, i - 1)) = IF 1 <= i - 1 THEN (i - 1) - 1 + 1 ELSE 0
    <3>1. 1 \in Int /\ i - 1 \in Int
      BY <1>1, <1>2
    <3> QED BY <1>3, <3>1, SubSeqProperties
  <2> QED BY <1>1, <1>2, <2>1
<1>5. b \in Seq(P) /\ Len(b) = n - i
  <2>1. SubSeq(l, i + 1, n) \in Seq(P) /\ Len(SubSeq(l, i + 1, n)) = IF i + 1 <= n THEN n - (i + 1) + 1 ELSE 0
    <3>1. i + 1 \in Int /\ n \in Int
      BY <1>1, <1>2
    <3> QED BY <1>3, <3>1, SubSeqProperties
  <2> QED BY <1>1, <1>2, <2>1
<1> HIDE DEF a, b
<1>6. a \o b \in Seq(P) /\ Len(a \o b) = n - 1
  <2>1. a \o b \in Seq(P) /\ Len(a \o b) = Len(a) + Len(b)
    BY <1>4, <1>5, ConcatProperties
  <2> QED BY <1>1, <1>2, <1>4, <1>5, <2>1
<1>7. RemoveAt(l, i) = a \o b
  BY DEF RemoveAt, a, b, n
<1> DEFINE r == a \o b
<1>8. r \in Seq(P) /\ Len(r) = n - 1
  BY <1>6
<1> HIDE DEF r
<1>9. r \in Seq(Nat) /\ DOMAIN r = 1..Len(r) /\ \A k \in 1..Len(r) : r[k] \in P
  BY <1>8, LenProperties, SeqMonotonic, ElementOfSeq DEF P
<1>10. Len(r) <= MaxLen
  BY <1>1, <1>8, BoundsAssumption
<1>11. r \in RuleLists /\ Identified(r)
  BY <1>9, <1>10 DEF RuleLists, Identified, P
<1> QED BY <1>7, <1>11 DEF r

(* addUserRoute and addGlobalRoute.                                        *)
LEMMA AddedFacts ==
    ASSUME IdsLeft, NEW q \in Requests, Identified(q.list), Len(Added(q)) <= MaxLen
    PROVE  Added(q) \in RuleLists /\ Identified(Added(q))
<1> DEFINE l == q.list
           n == Len(l)
           P == Nat \ {0}
           i == IF q.id = 0 THEN GenerateRouteID(1) ELSE q.id
<1>1. l \in RuleLists /\ q.id \in Nat
  BY DEF Requests
<1>2. l \in Seq(Nat) /\ n \in Nat /\ DOMAIN l = 1..n /\ \A k \in 1..n : l[k] \in P
  BY <1>1, ListFacts DEF Identified, RuleLists
<1>3. Added(q) = Append(l, i)
  BY DEF Added
<1> HIDE DEF l, i
<1>4. Len(Append(l, i)) = n + 1 /\ n + 1 <= MaxLen
  BY <1>2, <1>3
<1>5. i \in P
  <2>1. 1 \in 1..MaxLen
    BY <1>2, <1>4, BoundsAssumption
  <2> QED BY <1>1, <2>1, NewIdsFacts DEF i
<1> DEFINE r == Append(l, i)
<1>6. r \in Seq(Nat) /\ Len(r) = n + 1 /\ DOMAIN r = 1..(n + 1) /\ \A k \in 1..(n + 1) : r[k] \in P
  BY <1>2, <1>4, <1>5
<1> HIDE DEF r
<1>7. r \in RuleLists /\ Identified(r)
  BY <1>4, <1>6 DEF RuleLists, Identified
<1> QED BY <1>3, <1>7 DEF r

(* updateUserRoute.                                                        *)
LEMMA UpdatedFacts ==
    ASSUME NEW q \in Requests, Identified(q.list), q.index \in 1..Len(q.list)
    PROVE  UpdatedAt(q) \in RuleLists /\ Identified(UpdatedAt(q))
<1> DEFINE l == q.list
           n == Len(l)
           P == Nat \ {0}
           r == UpdatedAt(q)
<1>1. l \in RuleLists /\ q.id \in Nat
  BY DEF Requests
<1>2. l \in [1..n -> Nat] /\ n \in Nat /\ n <= MaxLen /\ DOMAIN l = 1..n /\ \A k \in 1..n : l[k] \in P
  BY <1>1, ListFacts DEF Identified
<1>3. r = [l EXCEPT ![q.index] = IF q.id = 0 THEN l[q.index] ELSE q.id]
  BY DEF UpdatedAt
<1> HIDE DEF l, n, r
<1>4. q.index \in 1..n
  BY DEF l, n
<1>5. r \in [1..n -> Nat] /\ \A k \in 1..n : r[k] \in P
  BY <1>1, <1>2, <1>3, <1>4
<1>6. r \in RuleLists /\ DOMAIN r = 1..n
  BY <1>2, <1>5, MadeList
<1>7. Identified(r)
  BY <1>5, <1>6 DEF Identified
<1> QED BY <1>6, <1>7 DEF r

(* Whatever a request stores at the end of its edit has ids, and of the    *)
(* global rules they differ.                                               *)
LEMMA EditedFacts ==
    ASSUME IdsLeft, NEW q, RequestOf(q, scope), q.pc = "edit", NEW l \in Edited(q), Len(l) <= MaxLen
    PROVE  /\ l \in RuleLists /\ Identified(l)
           /\ scope = "global" => ValidateUserRoutes(l)
<1>1. /\ q \in Requests /\ q.list \in RuleLists /\ Identified(q.list) /\ q.op \notin {"set", "clear"}
      /\ scope = "global" => q.op \in ListOps
  BY DEF RequestOf, Requests
<1>2. q.op # "get"
  BY DEF Edited
<1>3. CASE q.op = "add"
  <2>1. l = Added(q) /\ Accepted(q, l)
    BY <1>3 DEF Edited
  <2> QED BY <1>1, <2>1, AddedFacts DEF Accepted
<1>4. CASE q.op # "add"
  <2>1. q.op \in NamingOps /\ scope # "global"
    BY <1>1, <1>2, <1>4 DEF Requests, ListOps, NamingOps
  <2>2. Target(q) # 0 /\ Target(q) \in 1..Len(q.list)
    <3>1. Target(q) # 0
      BY <1>2, <1>4 DEF Edited
    <3> QED BY <1>1, <3>1, TargetFacts
  <2>3. CASE q.op = "updateAt"
    <3>1. l = UpdatedAt(q) /\ Target(q) = q.index
      BY <2>2, <2>3 DEF Edited, Target
    <3> QED BY <1>1, <2>1, <2>2, <3>1, UpdatedFacts
  <2>4. CASE q.op = "updateByID"
    <3>1. l = q.list
      BY <2>2, <2>4 DEF Edited
    <3> QED BY <1>1, <2>1, <3>1
  <2>5. CASE q.op \in {"deleteAt", "deleteByID"}
    <3>1. l = RemoveAt(q.list, Target(q))
      BY <2>2, <2>5 DEF Edited
    <3> QED BY <1>1, <2>1, <2>2, <3>1, RemovedFacts
  <2> QED BY <2>1, <2>3, <2>4, <2>5 DEF NamingOps
<1> QED BY <1>3, <1>4

(* A step of one request, which becomes q; the list it stores, if it does. *)
LEMMA OneRequest ==
    ASSUME RoutesInv, NEW p \in Handlers, NEW q, RequestOf(q, scope), h' = [h EXCEPT ![p] = q],
           UNCHANGED scope,
           \/ UNCHANGED routes
           \/ /\ routes' \in RuleLists /\ Identified(routes')
              /\ scope = "global" => ValidateUserRoutes(routes')
    PROVE  RoutesInv'
<1>1. q \in Requests /\ h \in [Handlers -> Requests] /\ \A r \in Handlers : RequestOf(h[r], scope)
  BY DEF RoutesInv, RequestOf
<1>2. h' \in [Handlers -> Requests] /\ \A r \in Handlers : RequestOf(h'[r], scope)
  BY <1>1
<1>3. routes' \in RuleLists /\ RulesIdentified' /\ GlobalIdsUnique'
  BY DEF RoutesInv, RulesIdentified, GlobalIdsUnique, Identified, ValidateUserRoutes
<1>4. (\A r \in Handlers : RequestOf(h[r], scope))'
  BY <1>2 DEF RequestOf
<1> QED BY <1>2, <1>3, <1>4 DEF RoutesInv

(* A request that is done or has failed.                                   *)
LEMMA IdleRequest == RequestOf(Idle, scope)
<1>1. <<>> \in RuleLists
  BY BoundsAssumption DEF RuleLists
<1>2. Idle \in Requests /\ Idle.pc = "idle" /\ Idle.op = "get"
  BY <1>1 DEF Idle, Requests, ListOps
<1> QED BY <1>2 DEF RequestOf, ListOps

(* A request arrives.                                                      *)
LEMMA RequestInv ==
    ASSUME RoutesInv, NEW p \in Handlers, NEW op \in ListOps \cup NamingOps, NEW id \in Nat,
           NEW index \in Nat, NEW list \in RuleLists, scope = "global" => op \in ListOps,
           Request(p, op, id, index, list)
    PROVE  RoutesInv'
<1> DEFINE pc == IF op \in {"set", "clear"} THEN "replace" ELSE "read"
           q == [pc |-> pc, op |-> op, id |-> id, index |-> index, list |-> list]
<1>1. h' = [h EXCEPT ![p] = q] /\ UNCHANGED <<scope, routes>>
  BY DEF Request, Goto
<1>2. pc \in {"replace", "read"} /\ (pc = "read" => op \notin {"set", "clear"})
  OBVIOUS
<1> HIDE DEF pc
<1>3. q \in Requests /\ q.pc = pc /\ q.op = op
  BY <1>2 DEF Requests
<1> HIDE DEF q
<1>4. RequestOf(q, scope)
  BY <1>2, <1>3 DEF RequestOf
<1> QED BY <1>1, <1>4, OneRequest

(* The steps of a request.                                                 *)
LEMMA ServeInv ==
    ASSUME RoutesInv, NEW p \in Handlers, Replace(p) \/ Read(p) \/ SaveIds(p) \/ Edit(p) \/ Fail(p)
    PROVE  RoutesInv'
<1>t. /\ RequestOf(h[p], scope) /\ h[p] \in Requests /\ h[p].list \in RuleLists
      /\ routes \in RuleLists /\ GlobalIdsUnique
  BY DEF RoutesInv, RequestOf, Requests
<1>u. Range(routes) \subseteq Used /\ Range(h[p].list) \subseteq Used
  BY DEF Used
<1>1. ASSUME Replace(p) PROVE RoutesInv'
  <2>1. /\ IdsLeft /\ h' = [h EXCEPT ![p] = Idle] /\ UNCHANGED scope
        /\ \/ UNCHANGED routes
           \/ ValidateUserRoutes(h[p].list) /\ routes' = AssignRouteIDs(h[p].list)
    BY <1>1 DEF Replace, Finish, Goto, Save, Leave
  <2> QED BY <1>t, <1>u, <2>1, AssignFacts, IdleRequest, OneRequest
<1>2. ASSUME Read(p) PROVE RoutesInv'
  <2> DEFINE l == AssignRouteIDs(routes)
             pc == IF Identified(routes) THEN "edit" ELSE "assign"
             q == [h[p] EXCEPT !.list = l, !.pc = pc]
  <2>1. h[p].pc = "read" /\ IdsLeft /\ h' = [h EXCEPT ![p] = q] /\ UNCHANGED <<scope, routes>>
    BY <1>2 DEF Read, Goto
  <2>2. l \in RuleLists /\ Identified(l) /\ (scope = "global" => ValidateUserRoutes(l))
    <3>1. scope = "global" => ValidateUserRoutes(routes)
      BY <1>t DEF GlobalIdsUnique, ValidateUserRoutes
    <3> QED BY <1>t, <1>u, <2>1, <3>1, AssignFacts
  <2>3. pc \in {"edit", "assign"}
    OBVIOUS
  <2> HIDE DEF l, pc
  <2>4. q \in Requests /\ q.pc = pc /\ q.list = l /\ q.op = h[p].op
    BY <1>t, <2>2, <2>3 DEF Requests
  <2> HIDE DEF q
  <2>5. RequestOf(q, scope)
    BY <1>t, <2>1, <2>2, <2>3, <2>4 DEF RequestOf
  <2> QED BY <2>1, <2>5, OneRequest
<1>3. ASSUME SaveIds(p) PROVE RoutesInv'
  <2> DEFINE q == [h[p] EXCEPT !.pc = "edit"]
  <2>1. h[p].pc = "assign" /\ h' = [h EXCEPT ![p] = q] /\ UNCHANGED scope /\ routes' = h[p].list
    BY <1>3 DEF SaveIds, Goto, Save
  <2>2. q \in Requests /\ q.pc = "edit" /\ q.list = h[p].list /\ q.op = h[p].op
    BY <1>t DEF Requests
  <2> HIDE DEF q
  <2>3. RequestOf(q, scope)
    BY <1>t, <2>1, <2>2 DEF RequestOf
  <2>4. Identified(h[p].list) /\ (scope = "global" => ValidateUserRoutes(h[p].list))
    BY <1>t, <2>1 DEF RequestOf
  <2> QED BY <1>t, <2>1, <2>3, <2>4, OneRequest
<1>4. ASSUME Edit(p) PROVE RoutesInv'
  <2>1. /\ h[p].pc = "edit" /\ IdsLeft /\ h' = [h EXCEPT ![p] = Idle] /\ UNCHANGED scope
        /\ UNCHANGED routes \/ \E l \in Edited(h[p]) : Len(l) <= MaxLen /\ routes' = l
    BY <1>4 DEF Edit, Finish, Goto, Save, Leave
  <2> QED BY <1>t, <2>1, EditedFacts, IdleRequest, OneRequest
<1>5. ASSUME Fail(p) PROVE RoutesInv'
  BY <1>5, IdleRequest, OneRequest DEF Fail, Finish, Goto, Leave
<1> QED BY <1>1, <1>2, <1>3, <1>4, <1>5

(* Every step preserves the invariant.                                     *)
LEMMA NextRoutes ==
    ASSUME RoutesInv, [Next]_vars
    PROVE  RoutesInv'
<1>l. <<>> \in RuleLists /\ Lists \subseteq RuleLists
  <2>1. <<>> \in RuleLists
    BY BoundsAssumption DEF RuleLists
  <2>2. ASSUME NEW l \in Lists PROVE l \in RuleLists
    <3>1. l \in Seq(Given \cup {0}) /\ Given \cup {0} \subseteq Nat
      BY ListsAssumption, GivenAssumption
    <3>2. l \in Seq(Nat)
      BY <3>1, SeqMonotonic
    <3> QED BY <3>2, BoundsAssumption DEF RuleLists
  <2> QED BY <2>1, <2>2
<1>g. Given \cup {0} \subseteq Nat /\ Given \cup (Range(routes) \ {0}) \subseteq Nat
  <2>1. routes \in RuleLists
    BY DEF RoutesInv
  <2>2. Range(routes) \subseteq Nat
    BY <2>1, ListFacts DEF Range
  <2>3. Given \subseteq Nat /\ {0} \subseteq Nat
    BY GivenAssumption
  <2> QED BY <2>2, <2>3, Zenon
<1>k. 1..(MaxLen + 1) \subseteq Nat /\ 1 \in Nat /\ 0 \in Nat
  BY BoundsAssumption
<1>o. /\ "add" \in ListOps /\ "set" \in ListOps /\ "get" \in ListOps /\ "clear" \in ListOps
      /\ "updateAt" \in NamingOps /\ "deleteAt" \in NamingOps
      /\ "updateByID" \in NamingOps /\ "deleteByID" \in NamingOps
  BY DEF ListOps, NamingOps
<1>1. ASSUME NEW p \in Handlers,
             \/ \E id \in Given \cup {0} : Request(p, "add", id, 1, <<>>)
             \/ \E s \in Lists : Request(p, "set", 0, 1, s)
             \/ Request(p, "get", 0, 1, <<>>) \/ Request(p, "clear", 0, 1, <<>>)
      PROVE  RoutesInv'
  BY <1>1, <1>g, <1>k, <1>l, <1>o, RequestInv
<1>2. ASSUME NEW p \in Handlers, scope = "user",
             \/ \E k \in 1..(MaxLen + 1) : \/ \E id \in Given \cup {0} : Request(p, "updateAt", id, k, <<>>)
                                           \/ Request(p, "deleteAt", 0, k, <<>>)
             \/ \E id \in Given \cup (Range(routes) \ {0}) : \/ Request(p, "updateByID", id, 1, <<>>)
                                                             \/ Request(p, "deleteByID", id, 1, <<>>)
      PROVE  RoutesInv'
  BY <1>2, <1>g, <1>k, <1>l, <1>o, RequestInv
<1>3. CASE UNCHANGED vars
  <2>1. UNCHANGED <<scope, routes, h>>
    BY <1>3 DEF vars
  <2> QED BY <2>1, Zenon DEF RoutesInv, RequestOf, Identified, ValidateUserRoutes, RulesIdentified, GlobalIdsUnique
<1> QED BY <1>1, <1>2, <1>3, ServeInv, Zenon DEF Next

(* The inductive invariant of the stored lists.                            *)
THEOREM RoutesInvariant == Spec => []RoutesInv
<1>1. ASSUME Init PROVE RoutesInv
  <2>1. routes \in RuleLists /\ (routes = Legacy \/ routes = <<>>) /\ \A k \in DOMAIN routes : routes[k] = 0
    <3>1. Legacy \in Seq(Nat) /\ <<>> \in Seq(Nat)
      BY ListsAssumption, SeqMonotonic
    <3>2. DOMAIN Legacy = 1..Len(Legacy) /\ \A k \in 1..Len(Legacy) : Legacy[k] = 0
      BY ListsAssumption, LenProperties, ElementOfSeq
    <3>3. Legacy \in RuleLists /\ <<>> \in RuleLists
      BY <3>1, BoundsAssumption DEF RuleLists
    <3>4. CASE routes = Legacy
      BY <3>2, <3>3, <3>4
    <3>5. CASE routes = <<>>
      BY <3>3, <3>5
    <3> QED BY <1>1, <3>4, <3>5 DEF Init
  <2>2. RulesIdentified /\ GlobalIdsUnique
    <3>1. \A k \in DOMAIN <<>> : FALSE
      OBVIOUS
    <3> QED BY <2>1, <3>1 DEF RulesIdentified, GlobalIdsUnique
  <2>3. h \in [Handlers -> Requests] /\ \A p \in Handlers : RequestOf(h[p], scope)
    BY <1>1, IdleRequest DEF Init, RequestOf
  <2> QED BY <1>1, <2>1, <2>2, <2>3 DEF Init, RoutesInv
<1>2. RoutesInv /\ [Next]_vars => RoutesInv'
  BY NextRoutes
<1> QED BY <1>1, <1>2, PTL DEF Spec

-----------------------------------------------------------------------------
(* No rule is lost but by a request that another one has overtaken.        *)

(* l has the rules of s, in their places.                                  *)
Keeps(s, l) == DOMAIN l = DOMAIN s /\ \A k \in DOMAIN s : s[k] # 0 => l[k] = s[k]

(* What a request holds is what is stored, but for ids that were made up,  *)
(* unless it has been overtaken.                                           *)
HoldsStored(q) == q.pc \in {"assign", "edit"} => Keeps(routes, q.list)

KeepInv ==
    /\ RoutesInv
    /\ \A p \in Handlers : h[p].pc = "replace" => h[p].op \in {"set", "clear"}
    /\ \A p \in Handlers : p \in overtaken \/ HoldsStored(h[p])

(* The action of RulesKept.                                                *)
KeptStep ==
    \A k \in DOMAIN routes :
      \/ routes[k] = 0
      \/ \E j \in DOMAIN routes' : routes'[j] = routes[k]
      \/ \E p \in Handlers : h'[p] # h[p] /\
           \/ p \in overtaken
           \/ h[p].op \in {"set", "clear"}
           \/ h[p].op \in {"updateAt", "deleteAt"} /\ h[p].index = k
           \/ h[p].op = "deleteByID" /\ h[p].id = routes[k]

(* The other rules of a list are still there when one of them is removed.  *)
LEMMA RemovedKeeps ==
    ASSUME NEW l \in RuleLists, NEW i \in 1..Len(l), NEW k \in 1..Len(l), k # i
    PROVE  \E j \in DOMAIN RemoveAt(l, i) : RemoveAt(l, i)[j] = l[k]
<1> DEFINE n == Len(l)
           a == SubSeq(l, 1, i - 1)
           b == SubSeq(l, i + 1, n)
           r == a \o b
<1>1. n \in Nat /\ \A m \in 1..n : l[m] \in Nat
  BY ListFacts
<1>2. i \in 1..n /\ k \in 1..n
  OBVIOUS
<1>3. RemoveAt(l, i) = r
  BY DEF RemoveAt
<1> HIDE DEF n
<1>4. a \in Seq(Nat) /\ Len(a) = i - 1 /\ \A j \in 1..(i - 1) : a[j] = l[j]
  <2>1. 1 \in Int /\ i - 1 \in Int /\ \A m \in 1..(i - 1) : l[m] \in Nat
    BY <1>1, <1>2
  <2>2. /\ a \in Seq(Nat) /\ Len(a) = IF 1 <= i - 1 THEN (i - 1) - 1 + 1 ELSE 0
        /\ \A j \in 1..((i - 1) - 1 + 1) : a[j] = l[1 + j - 1]
    BY <2>1, SubSeqProperties
  <2> HIDE DEF a
  <2>3. (i - 1) - 1 + 1 = i - 1 /\ \A j \in 1..(i - 1) : 1 + j - 1 = j
    BY <1>1, <1>2
  <2> QED BY <1>1, <1>2, <2>2, <2>3
<1>5. b \in Seq(Nat) /\ Len(b) = n - i /\ \A j \in 1..(n - i) : b[j] = l[i + j]
  <2>1. i + 1 \in Int /\ n \in Int /\ \A m \in (i + 1)..n : l[m] \in Nat
    BY <1>1, <1>2
  <2>2. /\ b \in Seq(Nat) /\ Len(b) = IF i + 1 <= n THEN n - (i + 1) + 1 ELSE 0
        /\ \A j \in 1..(n - (i + 1) + 1) : b[j] = l[(i + 1) + j - 1]
    BY <2>1, SubSeqProperties
  <2> HIDE DEF b
  <2>3. n - (i + 1) + 1 = n - i /\ \A j \in 1..(n - i) : (i + 1) + j - 1 = i + j
    BY <1>1, <1>2
  <2> QED BY <1>1, <1>2, <2>2, <2>3
<1> HIDE DEF a, b
<1>6. /\ r \in Seq(Nat) /\ Len(r) = Len(a) + Len(b)
      /\ \A j \in 1..(Len(a) + Len(b)) : r[j] = IF j <= Len(a) THEN a[j] ELSE b[j - Len(a)]
  BY <1>4, <1>5, ConcatProperties, ZenonT(60)
<1> HIDE DEF r
<1>7. Len(a) + Len(b) = n - 1 /\ DOMAIN r = 1..(n - 1)
  BY <1>1, <1>2, <1>4, <1>5, <1>6, LenProperties
<1>8. CASE k < i
  <2>1. k \in 1..(i - 1) /\ k \in 1..(n - 1) /\ k <= Len(a)
    BY <1>1, <1>2, <1>4, <1>8
  <2>2. r[k] = l[k]
    BY <1>4, <1>6, <1>7, <2>1
  <2> QED BY <1>3, <1>7, <2>1, <2>2
<1>9. CASE k > i
  <2>1. k - 1 \in 1..(n - 1) /\ ~(k - 1 <= Len(a)) /\ k - i \in 1..(n - i) /\ (k - 1) - Len(a) = k - i /\ i + (k - i) = k
    BY <1>1, <1>2, <1>4, <1>9
  <2>2. r[k - 1] = l[k]
    BY <1>5, <1>6, <1>7, <2>1
  <2> QED BY <1>3, <1>7, <2>1, <2>2
<1> QED BY <1>1, <1>2, <1>8, <1>9

(* What an edit stores has every rule of the list but the one it names.    *)
LEMMA EditKeeps ==
    ASSUME NEW q, RequestOf(q, scope), q.pc = "edit", NEW l \in Edited(q), NEW k \in DOMAIN q.list
    PROVE  \/ \E j \in DOMAIN l : l[j] = q.list[k]
           \/ q.op \in {"updateAt", "deleteAt"} /\ q.index = k
           \/ q.op = "deleteByID" /\ q.id = q.list[k]
<1>1. q \in Requests /\ q.list \in RuleLists /\ q.op \notin {"set", "clear"}
  BY DEF RequestOf, Requests
<1>2. q.list \in Seq(Nat) /\ Len(q.list) \in Nat /\ DOMAIN q.list = 1..Len(q.list)
  BY <1>1, ListFacts DEF RuleLists
<1>3. q.op # "get"
  BY DEF Edited
<1>4. CASE q.op = "add"
  <2> DEFINE e == IF q.id = 0 THEN GenerateRouteID(1) ELSE q.id
  <2>1. l = Append(q.list, e)
    BY <1>4 DEF Edited, Added
  <2> HIDE DEF e
  <2>2. k \in DOMAIN l /\ l[k] = q.list[k]
    BY <1>2, <2>1
  <2> QED BY <2>2
<1>5. CASE q.op # "add"
  <2>1. Target(q) # 0
    BY <1>3, <1>5 DEF Edited
  <2>2. /\ Target(q) \in 1..Len(q.list)
        /\ IF q.op \in {"updateAt", "deleteAt"} THEN Target(q) = q.index
           ELSE q.list[Target(q)] = q.id
    BY <1>1, <2>1, TargetFacts
  <2>3. q.op \in NamingOps
    BY <1>1, <1>3, <1>5 DEF Requests, ListOps
  <2>4. CASE q.op = "updateAt"
    <3>1. l = UpdatedAt(q)
      BY <2>1, <2>4 DEF Edited
    <3>2. k # q.index => k \in DOMAIN l /\ l[k] = q.list[k]
      BY <3>1 DEF UpdatedAt
    <3> QED BY <2>4, <3>2
  <2>5. CASE q.op = "updateByID"
    <3>1. l = q.list
      BY <2>1, <2>5 DEF Edited
    <3> QED BY <3>1
  <2>6. CASE q.op \in {"deleteAt", "deleteByID"}
    <3>1. l = RemoveAt(q.list, Target(q))
      BY <2>1, <2>6 DEF Edited
    <3>2. CASE k = Target(q)
      BY <2>2, <2>6, <3>2
    <3>3. CASE k # Target(q)
      <4>1. k \in 1..Len(q.list)
        BY <1>2
      <4> QED BY <1>1, <2>2, <3>1, <3>3, <4>1, RemovedKeeps
    <3> QED BY <3>2, <3>3
  <2> QED BY <2>3, <2>4, <2>5, <2>6 DEF NamingOps
<1> QED BY <1>4, <1>5

(* A step of a handler, which becomes q: what the others hold is still     *)
(* what is stored, or they are overtaken.                                  *)
LEMMA OneKeeps ==
    ASSUME KeepInv, RoutesInv', NEW p \in Handlers, NEW q, h' = [h EXCEPT ![p] = q],
           q.pc = "replace" => q.op \in {"set", "clear"},
           p \in overtaken' \/ (q.pc \in {"assign", "edit"} => Keeps(routes', q.list)),
           \/ UNCHANGED routes /\ overtaken \ {p} \subseteq overtaken'
           \/ overtaken' = {r \in Handlers \ {p} : h[r].pc \in {"assign", "edit"}}
    PROVE  KeepInv'
<1>1. h \in [Handlers -> Requests]
  BY DEF KeepInv, RoutesInv
<1>2. h'[p] = q /\ \A r \in Handlers \ {p} : h'[r] = h[r]
  BY <1>1
<1>3. \A r \in Handlers : h'[r].pc = "replace" => h'[r].op \in {"set", "clear"}
  BY <1>2 DEF KeepInv
<1>4. ASSUME NEW r \in Handlers, r # p
      PROVE  r \in overtaken' \/ (h'[r].pc \in {"assign", "edit"} => Keeps(routes', h'[r].list))
  <2>1. h'[r] = h[r] /\ (r \in overtaken \/ (h[r].pc \in {"assign", "edit"} => Keeps(routes, h[r].list)))
    BY <1>2, <1>4 DEF KeepInv, HoldsStored
  <2>2. CASE UNCHANGED routes /\ overtaken \ {p} \subseteq overtaken'
    BY <1>4, <2>1, <2>2
  <2>3. CASE overtaken' = {s \in Handlers \ {p} : h[s].pc \in {"assign", "edit"}}
    BY <1>4, <2>1, <2>3
  <2> QED BY <2>2, <2>3
<1>5. \A r \in Handlers : r \in overtaken' \/ (h'[r].pc \in {"assign", "edit"} => Keeps(routes', h'[r].list))
  BY <1>2, <1>4
<1> QED BY <1>3, <1>5, Zenon DEF KeepInv, HoldsStored, Keeps

LEMMA NextKeeps ==
    ASSUME KeepInv, [Next]_vars
    PROVE  KeepInv' /\ [KeptStep]_vars
<1>0. RoutesInv /\ RoutesInv' /\ h \in [Handlers -> Requests]
  BY NextRoutes DEF KeepInv, RoutesInv
<1>s. UNCHANGED routes => KeptStep
  BY DEF KeptStep
<1>1. ASSUME NEW p \in Handlers, NEW op, NEW id, NEW index, NEW list, Request(p, op, id, index, list)
      PROVE  KeepInv' /\ KeptStep
  <2> DEFINE q == [pc |-> IF op \in {"set", "clear"} THEN "replace" ELSE "read",
                   op |-> op, id |-> id, index |-> index, list |-> list]
  <2>1. h' = [h EXCEPT ![p] = q] /\ UNCHANGED <<routes, overtaken>>
    BY <1>1 DEF Request, Goto
  <2>2. (q.pc = "replace" => q.op \in {"set", "clear"}) /\ q.pc \notin {"assign", "edit"}
    OBVIOUS
  <2> HIDE DEF q
  <2> QED BY <1>0, <1>s, <2>1, <2>2, OneKeeps
<1>2. ASSUME NEW p \in Handlers, Replace(p) \/ Read(p) \/ SaveIds(p) \/ Edit(p) \/ Fail(p)
      PROVE  KeepInv' /\ KeptStep
  <2>t. /\ RequestOf(h[p], scope) /\ h[p] \in Requests /\ routes \in RuleLists
        /\ p \in overtaken \/ HoldsStored(h[p])
        /\ h[p].pc = "replace" => h[p].op \in {"set", "clear"}
    BY DEF KeepInv, RoutesInv, RequestOf
  <2>i. Idle.pc = "idle"
    BY DEF Idle
  <2>o. ASSUME NEW q, h' = [h EXCEPT ![p] = q], q.pc # h[p].pc PROVE h'[p] # h[p]
    BY <1>0, <2>o
  <2>1. CASE Replace(p)
    <3>1. /\ h[p].pc = "replace" /\ h' = [h EXCEPT ![p] = Idle]
          /\ \/ UNCHANGED routes /\ overtaken' = overtaken \ {p}
             \/ overtaken' = {r \in Handlers \ {p} : h[r].pc \in {"assign", "edit"}}
      BY <2>1 DEF Replace, Finish, Goto, Save, Leave
    <3>2. h[p].op \in {"set", "clear"} /\ h'[p] # h[p]
      BY <2>i, <2>o, <2>t, <3>1
    <3>3. KeptStep
      BY <3>2, Zenon DEF KeptStep
    <3> QED BY <1>0, <2>i, <3>1, <3>3, OneKeeps
  <2>2. CASE Read(p)
    <3> DEFINE l == AssignRouteIDs(routes)
               q == [h[p] EXCEPT !.list = l, !.pc = IF Identified(routes) THEN "edit" ELSE "assign"]
    <3>1. h' = [h EXCEPT ![p] = q] /\ UNCHANGED <<routes, overtaken>>
      BY <2>2 DEF Read, Goto
    <3>2. Keeps(routes, l)
      BY DEF Keeps, AssignRouteIDs
    <3> HIDE DEF l
    <3>3. q.list = l /\ q.pc # "replace"
      BY <2>t DEF Requests
    <3> HIDE DEF q
    <3>4. Keeps(routes', q.list)
      BY <3>1, <3>2, <3>3
    <3> QED BY <1>0, <1>s, <3>1, <3>3, <3>4, OneKeeps
  <2>3. CASE SaveIds(p)
    <3> DEFINE q == [h[p] EXCEPT !.pc = "edit"]
    <3>1. /\ h[p].pc = "assign" /\ h' = [h EXCEPT ![p] = q] /\ routes' = h[p].list
          /\ overtaken' = {r \in Handlers \ {p} : h[r].pc \in {"assign", "edit"}}
      BY <2>3 DEF SaveIds, Goto, Save
    <3>2. q.pc = "edit" /\ q.list = routes'
      BY <2>t, <3>1 DEF Requests
    <3> HIDE DEF q
    <3>3. h'[p] # h[p]
      BY <2>o, <3>1, <3>2
    <3>4. p \in overtaken \/ Keeps(routes, routes')
      BY <2>t, <3>1 DEF HoldsStored
    <3>5. KeptStep
      BY <3>3, <3>4 DEF Keeps, KeptStep
    <3>6. Keeps(routes', q.list)
      BY <3>2 DEF Keeps
    <3> QED BY <1>0, <3>1, <3>2, <3>5, <3>6, OneKeeps
  <2>4. CASE Edit(p)
    <3>1. /\ h[p].pc = "edit" /\ h' = [h EXCEPT ![p] = Idle]
          /\ \/ UNCHANGED routes /\ overtaken' = overtaken \ {p}
             \/ /\ \E l \in Edited(h[p]) : routes' = l
                /\ overtaken' = {r \in Handlers \ {p} : h[r].pc \in {"assign", "edit"}}
      BY <2>4 DEF Edit, Finish, Goto, Save, Leave
    <3>2. h'[p] # h[p]
      BY <2>i, <2>o, <3>1
    <3>3. ASSUME p \notin overtaken, NEW l \in Edited(h[p]), routes' = l,
                 NEW k \in DOMAIN routes, routes[k] # 0
          PROVE  \/ \E j \in DOMAIN routes' : routes'[j] = routes[k]
                 \/ h[p].op \in {"updateAt", "deleteAt"} /\ h[p].index = k
                 \/ h[p].op = "deleteByID" /\ h[p].id = routes[k]
      <4>1. k \in DOMAIN h[p].list /\ h[p].list[k] = routes[k]
        BY <2>t, <3>1, <3>3 DEF HoldsStored, Keeps
      <4> QED BY <2>t, <3>1, <3>3, <4>1, EditKeeps
    <3>4. KeptStep
      BY <1>s, <3>1, <3>2, <3>3 DEF KeptStep
    <3> QED BY <1>0, <2>i, <3>1, <3>4, OneKeeps
  <2>5. CASE Fail(p)
    <3>1. h' = [h EXCEPT ![p] = Idle] /\ UNCHANGED routes /\ overtaken' = overtaken \ {p}
      BY <2>5 DEF Fail, Finish, Goto, Leave
    <3> QED BY <1>0, <1>s, <2>i, <3>1, OneKeeps
  <2> QED BY <1>2, <2>1, <2>2, <2>3, <2>4, <2>5
<1>3. CASE UNCHANGED vars
  <2>1. UNCHANGED <<routes, h, overtaken>>
    BY <1>3 DEF vars
  <2>2. KeepInv'
    BY <1>0, <2>1 DEF KeepInv, HoldsStored, Keeps
  <2> QED BY <1>3, <2>2
<1> QED BY <1>1, <1>2, <1>3, Zenon DEF Next

(* However many requests overlap, a rule goes only when a request names it *)
(* or replaces the list, or is lost to one that another has overtaken:     *)
(* adding, updating and reading rules, failing saves and lists whose ids   *)
(* are made up on the way included, loses none that the request has read.  *)
THEOREM RoutesKept == Spec => RulesKept
<1>1. ASSUME Init, RoutesInv PROVE KeepInv
  <2>1. \A p \in Handlers : h[p] = Idle
    BY <1>1 DEF Init
  <2>2. Idle.pc = "idle"
    BY DEF Idle
  <2> QED BY <1>1, <2>1, <2>2 DEF KeepInv, HoldsStored
<1>2. KeepInv /\ [Next]_vars => KeepInv' /\ [KeptStep]_vars
  BY NextKeeps
<1> QED BY <1>1, <1>2, RoutesInvariant, PTL DEF Spec, RulesKept, KeptStep

-----------------------------------------------------------------------------
(* Documents of a specification.                                           *)

LEMMA FirstAnswer == AllInit => AnswerInv
<1>1. (CHOOSE i \in Inputs : TRUE) \in Inputs
  BY InputsAssumption
<1> QED BY <1>1 DEF AllInit, DocInit, AnswerInv

(* Every step preserves the invariant.                                     *)
LEMMA NextAnswer ==
    ASSUME AnswerInv, [AllNext]_allVars
    PROVE  AnswerInv'
<1>1. CASE UNCHANGED <<in, doc>>
  BY <1>1 DEF AnswerInv
<1>2. CASE Fetch
  <2>1. doc' = Answer(in, GetEffectiveBalancerConfig) /\ in' = in
    BY <1>2 DEF Fetch, Document, Answer, Full, EndsOf
  <2>2. in' \in Inputs
    BY <2>1 DEF AnswerInv
  <2>3. doc' = Answer(in', GetEffectiveBalancerConfig)
    BY <2>1
  <2> QED BY <2>2, <2>3 DEF AnswerInv
<1>3. UNCHANGED <<in, doc>> \/ Fetch
  BY DEF AllNext, DocNext, SetBalancerConfig, ResetBalancerConfig, allVars, docVars
<1> QED BY <1>1, <1>2, <1>3

(* The last answer is always the document of what is asked, under some     *)
(* strategy.                                                               *)
THEOREM DocumentsInvariant == AllSpec => []AnswerInv
<1>1. AnswerInv /\ [AllNext]_allVars => AnswerInv'
  BY NextAnswer
<1> QED BY <1>1, FirstAnswer, PTL DEF AllSpec

(* Whatever the clients of a user, their placement and the rules stored,   *)
(* generateClientConfig refers to outbounds and to a balancer that it      *)
(* emits, in the mobile profile too, but for the stored rules that say     *)
(* "Direct" or "Block".                                                    *)
THEOREM DocumentsResolve == AllSpec => []OnlySpellingDangles
<1>1. AnswerInv => OnlySpellingDangles
  BY AnswerResolves
<1> QED BY <1>1, DocumentsInvariant, PTL

(* For stored lists of any length: applyUserRoutes puts a user's rules     *)
(* before the global ones and those before the defaults, each list in its  *)
(* order and with every rule Xray would take, and the catch-all rule comes *)
(* last and leads to the proxies, geo selectors stripped or not.           *)
THEOREM DocumentsInPriority == AllSpec => []RulesInPriority
<1>1. AnswerInv => RulesInPriority
  BY AnswerInPriority
<1> QED BY <1>1, DocumentsInvariant, PTL

(* For any number of clients and nodes: every endpoint that buildOutbound  *)
(* accepts has one outbound, and buildBalancer spreads traffic over the    *)
(* XHTTP ones only, with another transport as the fallback, as soon as     *)
(* there are both.                                                         *)
THEOREM DocumentsXHTTP == AllSpec => []XHTTPPrimary
<1>1. AnswerInv => XHTTPPrimary
  BY AnswerXHTTP
<1> QED BY <1>1, DocumentsInvariant, PTL

(* Requests for documents leave the stored lists alone, so that what is    *)
(* proved of the lists holds of both levels.                               *)
THEOREM ListsApart == AllSpec => Spec
<1>1. AllInit => Init
  BY DEF AllInit
<1>2. [AllNext]_allVars => [Next]_vars
  BY DEF AllNext, allVars
<1> QED BY <1>1, <1>2, PTL DEF AllSpec, Spec

(* However many requests read, edit and write back the list over each      *)
(* other, no stored rule lacks an id that the by-id requests can name,     *)
(* unless the list is still the one an older version left.                 *)
THEOREM RoutesIdentified == AllSpec => []RulesIdentified
<1>1. RoutesInv => RulesIdentified
  BY DEF RoutesInv
<1> QED BY <1>1, ListsApart, RoutesInvariant, PTL

(* However many requests on the global rules overlap, no two stored global *)
(* rules have the same id: addGlobalRoute and setGlobalRoutes validate the *)
(* list that they store, and getGlobalRoutes makes up new ids only.        *)
THEOREM RoutesUnique == AllSpec => []GlobalIdsUnique
<1>1. RoutesInv => GlobalIdsUnique
  BY DEF RoutesInv
<1> QED BY <1>1, ListsApart, RoutesInvariant, PTL
=============================================================================
