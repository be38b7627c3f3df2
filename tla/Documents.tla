----------------------------- MODULE Documents ------------------------------
(***************************************************************************)
(* Routing rules at two levels that share no variable: the stored lists,   *)
(* on the ids of their rules (Routes), and the documents that the          *)
(* generator makes of stored lists, of the clients of a user and of the    *)
(* balancer settings (Generator).  A behaviour is about one of them.       *)
(***************************************************************************)
EXTENDS Routes, Generator

CONSTANTS BalancerStrategy,     \* balancer_strategy of the configuration
          Tags,                 \* tags of inbounds
          Inputs                \* what subscriptions are asked for

(* A stored rule knows its list and its place there; of a user's clients   *)
(* no two are of one inbound, and tags of inbounds are unique (the UNIQUE  *)
(* constraints of user_clients and inbounds).                              *)
StoredRules(from) ==
    [from : {from}, k : Nat, out : STRING, sel : SUBSET {"geo", "plain", "field"}]
Clients == [tag : Tags, xhttp : BOOLEAN, ok : BOOLEAN, node : Nat]
IsInput(i) ==
    /\ i.user \in Seq(StoredRules("user")) /\ i.global \in Seq(StoredRules("global"))
    /\ \A l \in {i.user, i.global} : \A k \in DOMAIN l : l[k].k = k
    /\ i.clients \in Seq(Clients)
    /\ \A j, k \in DOMAIN i.clients : i.clients[j].tag = i.clients[k].tag => j = k
    /\ i.nodes.placed \in BOOLEAN /\ i.nodes.at \in [Tags -> Seq(Nat)]
    /\ i.mobile \in BOOLEAN

ASSUME InputsAssumption == Inputs # {} /\ \A i \in Inputs : IsInput(i)

VARIABLES level,        \* "lists" or "documents"
          override,     \* app_settings: the strategy admins set, "" without one
          in,           \* what a subscription is asked for
          doc           \* the last answer

docVars == <<override, in, doc>>
allVars == <<vars, level, docVars>>

-----------------------------------------------------------------------------
(* Requests.                                                               *)

(* setBalancerConfig: a strategy that is unknown is answered 400.          *)
SetBalancerConfig(v) ==
    /\ NormalizeBalancerStrategy(v) = v
    /\ override' = v
    /\ UNCHANGED <<in, doc>>

ResetBalancerConfig == override' = "" /\ UNCHANGED <<in, doc>>

GetEffectiveBalancerConfig == IF override # "" THEN override ELSE BalancerStrategy

(* The document of a subscription request, in the full and in the mobile   *)
(* profile; a user without clients, without endpoints or without a valid   *)
(* outbound gets none.                                                     *)
Document(i) ==
    GenerateClientConfig(i.user, i.global, ExpandClientsForNodes(i.clients, i.nodes),
                         GetEffectiveBalancerConfig)

Fetch ==
    /\ in.clients # <<>>
    /\ doc' = IF in.mobile THEN ApplyMobileRoutingProfile(Document(in)) ELSE Document(in)
    /\ UNCHANGED <<override, in>>

DocNext ==
    \/ \E v \in Strategies \cup {"fastest"} : SetBalancerConfig(v)
    \/ ResetBalancerConfig
    \/ Fetch

DocInit ==
    /\ override = ""
    /\ doc = NoDocument
    /\ \/ level = "documents" /\ in \in Inputs
       \/ level = "lists" /\ in = CHOOSE i \in Inputs : TRUE

-----------------------------------------------------------------------------
AllInit ==
    /\ Init
    /\ level \in {"lists", "documents"}
    /\ level = "documents" => scope = "user" /\ routes = <<>>
    /\ DocInit

AllNext ==
    \/ level = "lists" /\ Next /\ UNCHANGED <<level, docVars>>
    \/ level = "documents" /\ DocNext /\ UNCHANGED <<level, vars>>

AllSpec == AllInit /\ [][AllNext]_allVars

-----------------------------------------------------------------------------
(* Properties.                                                             *)

Holds(s, x) == \E k \in DOMAIN s : s[k] = x

Resolves(to) ==
    Holds(doc.outbounds, to) \/ (to = ProxyBalance /\ doc.balancer # NoBalancer)

BalancerResolves ==
    doc.balancer # NoBalancer =>
      /\ Holds(doc.outbounds, doc.balancer.fallbackTag)
      /\ doc.balancer.selector # <<>>
      /\ \A k \in DOMAIN doc.balancer.selector : Holds(doc.outbounds, doc.balancer.selector[k])

(* What a document refers to is in it: every rule leads to one outbound of *)
(* the document or to its balancer, and the balancer to proxies of it.     *)
(* "outboundTag must be one of: direct, proxy, block", which are the       *)
(* outbounds of a document; the handlers take "Direct" and "Block" too.    *)
ReferencesResolve == BalancerResolves /\ \A k \in DOMAIN doc.rules : Resolves(doc.rules[k].to)

(* Whichever clients fail to build, wherever they are placed and whichever *)
(* profile is asked for, that is the only way to get a reference that      *)
(* dangles: a stored rule that says "Direct" or "Block", which             *)
(* applyUserRoutes copies as it is spelled.  "Proxy" is recognised in any  *)
(* spelling, and the balancer's own references always resolve.             *)
OnlySpellingDangles ==
    /\ BalancerResolves
    /\ \A k \in DOMAIN doc.rules :
         \/ Resolves(doc.rules[k].to)
         \/ \E l \in {in.user, in.global} : \E m \in DOMAIN l :
              l[m].out \in {"Direct", "Block"} /\ doc.rules[k].to = <<l[m].out, 0>>

Rank(r) == CASE r.from = "user" -> 1 [] r.from = "global" -> 2
             [] r.from = "default" -> 3 [] r.from = "all" -> 4

(* "Priority: user rules > global rules > defaults": rules come in this    *)
(* order, those of a list in the order of the list, no rule that Xray      *)
(* would take is missing from a full document, and what no rule matches    *)
(* goes through the proxies in both profiles.                              *)
RulesInPriority ==
    doc # NoDocument =>
      /\ \A j, k \in DOMAIN doc.rules : j < k =>
           \/ Rank(doc.rules[j]) < Rank(doc.rules[k])
           \/ doc.rules[j].from = doc.rules[k].from /\ doc.rules[j].k < doc.rules[k].k
      /\ Last(doc.rules).from = "all" /\ Last(doc.rules).to \notin {<<"direct", 0>>, <<"block", 0>>}
      /\ ~in.mobile => \A l \in {in.user, in.global} : \A k \in DOMAIN l :
           l[k].sel # {} /\ IsAllowedOutboundTag(l[k].out) =>
             \E j \in DOMAIN doc.rules : doc.rules[j].from = l[k].from /\ doc.rules[j].k = k

(* "we balance across XHTTP outbounds and demote non-XHTTP to the          *)
(* FallbackTag": every endpoint that can be built has one outbound; with   *)
(* several, traffic is spread over all XHTTP ones and no others as long as *)
(* there are any, another transport is the fallback as soon as there is    *)
(* one, and a strategy that measures has its observatory on just these.    *)
XHTTPPrimary ==
    LET ends == ExpandClientsForNodes(in.clients, in.nodes)
        good == {i \in DOMAIN ends : ends[i].ok}
        fast == {i \in good : ends[i].xhttp}
        b == doc.balancer
        count(s, t) == Cardinality({k \in DOMAIN s : s[k][1] = t /\ s[k][2] # 0})
        ofTag(S, t) == Cardinality({i \in S : ends[i].tag = t})
    IN  doc # NoDocument =>
          /\ \A t \in Tags : count(doc.outbounds, t) = ofTag(good, t)
          /\ (b = NoBalancer) = (Cardinality(good) = 1)
          /\ b # NoBalancer =>
               /\ \A t \in Tags :
                    count(b.selector, t) = ofTag(IF fast = {} THEN good ELSE fast, t)
               /\ fast # {} /\ fast # good => \A i \in fast : ends[i].tag # b.fallbackTag[1]
               /\ doc.observed = IF b.strategy \in Measured THEN b.selector ELSE <<>>

(* "Also accept generated outbound-like tag": the tag of an outbound of    *)
(* the unfiltered document selects the client it was made of.              *)
FilterFindsOutbound ==
    doc # NoDocument => \A k \in 1..(Len(doc.outbounds) - 2) :
      \E i \in DOMAIN in.clients :
        /\ in.clients[i].tag = doc.outbounds[k][1]
        /\ MatchesInboundTagFilter(in.clients[i], i, doc.outbounds[k])

(* "geosite: and geoip: selectors are stripped, keeping only explicit      *)
(* domain and IP rules": no rule is left to match more than it did, as one *)
(* does that had a geo selector and a port.                                *)
MobileNarrows ==
    in.mobile => \A j \in DOMAIN doc.rules :
      \A k \in DOMAIN Document(in).rules :
        LET full == Document(in).rules[k]
        IN  full.from = doc.rules[j].from /\ full.k = doc.rules[j].k =>
              ("geo" \in full.sel => "plain" \in full.sel)
=============================================================================
