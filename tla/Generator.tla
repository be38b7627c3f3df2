----------------------------- MODULE Generator ------------------------------
(***************************************************************************)
(* The client document, as operators: expandClientsForNodes (nodes.go),    *)
(* GenerateClientConfig (generator.go), applyMobileRoutingProfile and      *)
(* matchesInboundTagFilter (server.go, sub_links.go).                      *)
(*                                                                         *)
(* A client is its inbound tag, whether its transport is XHTTP, whether an *)
(* outbound can be built from what is stored of it, and its node.  A rule  *)
(* is where it comes from, its outboundTag and the kinds of selectors it   *)
(* has: "geo" (geosite: and geoip:), "plain" (other domains and IPs) and   *)
(* "field" (network, port, protocol, inboundTag).  What an outbound says   *)
(* about its transport is left out.                                        *)
(***************************************************************************)
EXTENDS Naturals, SequencesExt

NoNode == 0

(* What a loop that appends some elements of s leaves: those at the places *)
(* in K, in their order.                                                   *)
ElementsAt(s, K) ==
    LET upTo[n \in 0..Len(s)] ==
          IF n = 0 THEN <<>>
          ELSE IF n \in K THEN Append(upTo[n - 1], s[n]) ELSE upTo[n - 1]
    IN  upTo[Len(s)]

-----------------------------------------------------------------------------
(* Clients.                                                                *)

(* A client for every enabled node the user is placed on that serves its   *)
(* inbound, at the node's address; who is placed nowhere, and everybody    *)
(* where no nodes are configured, has the single endpoint.                 *)
ExpandClientsForNodes(cs, nodes) ==
    IF ~nodes.placed THEN cs
    ELSE FlattenSeq([i \in DOMAIN cs |->
           [k \in DOMAIN nodes.at[cs[i].tag] |-> [cs[i] EXCEPT !.node = nodes.at[cs[i].tag][k]]]])

SortClientsXHTTPFirst(cs) ==
    LET xhttp == {i \in DOMAIN cs : cs[i].xhttp}
    IN  ElementsAt(cs, xhttp) \o ElementsAt(cs, DOMAIN cs \ xhttp)

(* buildOutbound, for each client in turn: the tag counts the position,    *)
(* and a client that fails is left out.                                    *)
BuildOutbounds(cs) ==
    LET all == [i \in DOMAIN cs |-> [tag |-> <<cs[i].tag, i>>, client |-> cs[i]]]
    IN  ElementsAt(all, {i \in DOMAIN cs : cs[i].ok})

(* ?inbound_tag= names an inbound, or an inbound and its place in the list.*)
MatchesInboundTagFilter(c, i, filter) == filter \in {<<c.tag, 0>>, <<c.tag, i>>}

-----------------------------------------------------------------------------
(* Rules.                                                                  *)

Lower(out) ==
    CASE out = "Direct" -> "direct"
      [] out = "Proxy" -> "proxy"
      [] out = "Block" -> "block"
      [] OTHER -> out

IsAllowedOutboundTag(out) == Lower(out) \in {"direct", "proxy", "block"}

DefaultRouting ==
    LET rule(k, out, sel) == [from |-> "default", k |-> k, out |-> out, sel |-> {sel}]
    IN  <<rule(1, "direct", "field"), rule(2, "block", "geo"),
          rule(3, "direct", "geo"), rule(4, "direct", "geo"),
          rule(5, "proxy", "geo"), rule(6, "proxy", "geo"),
          rule(7, "direct", "geo"), rule(8, "direct", "geo")>>

(* The places of the rules of a stored list that Xray would take.          *)
Effective(stored) ==
    {k \in DOMAIN stored : IsAllowedOutboundTag(stored[k].out) /\ stored[k].sel # {}}

(* Mutant: the stored rules go behind the others.                          *)
AppendUserRoutes(rules, stored) == rules \o ElementsAt(stored, Effective(stored))

(* The rules of a stored list that Xray would take go before the others.   *)
ApplyUserRoutes(rules, stored) == ElementsAt(stored, Effective(stored)) \o rules

(* Mutant: "Proxy", which validateUserRoutes accepts, is not recognised.    *)
ResolveAsSpelled(rules, target) ==
    [k \in DOMAIN rules |->
       [from |-> rules[k].from, k |-> rules[k].k, sel |-> rules[k].sel,
        to |-> IF rules[k].out = "proxy" THEN target ELSE <<rules[k].out, 0>>]]

(* resolveProxyRouteTargets: "proxy" stands for the balancer or the only   *)
(* outbound, target.                                                       *)
ResolveProxyRouteTargets(rules, target) ==
    [k \in DOMAIN rules |->
       [from |-> rules[k].from, k |-> rules[k].k, sel |-> rules[k].sel,
        to |-> IF Lower(rules[k].out) = "proxy" THEN target ELSE <<rules[k].out, 0>>]]

-----------------------------------------------------------------------------
(* The document.                                                           *)

Strategies == {"random", "roundRobin", "leastPing", "leastLoad"}
NormalizeBalancerStrategy(v) == IF v \in Strategies THEN v ELSE "leastPing"
Measured == {"leastPing", "leastLoad"}

ProxyBalance == <<"proxy-balance", 0>>
NoBalancer == [selector |-> <<>>, fallbackTag |-> <<>>, strategy |-> "none"]
NoDocument == [outbounds |-> <<>>, rules |-> <<>>, balancer |-> NoBalancer, observed |-> <<>>]

TagsOf(obs) == [i \in DOMAIN obs |-> obs[i].tag]
XHTTPOf(obs) == {i \in DOMAIN obs : obs[i].client.xhttp}

(* Mutant: the first outbound is the fallback, whatever its transport.     *)
FallbackToFirst(obs, strategy) ==
    LET xhttp == TagsOf(ElementsAt(obs, XHTTPOf(obs)))
    IN  [selector |-> IF xhttp # <<>> THEN xhttp ELSE TagsOf(obs),
         fallbackTag |-> obs[1].tag,
         strategy |-> NormalizeBalancerStrategy(strategy)]

(* With several outbounds: the XHTTP ones share the traffic and the first  *)
(* other one is the fallback, if there are any.                            *)
BalancerOf(obs, strategy) ==
    LET xhttp == TagsOf(ElementsAt(obs, XHTTPOf(obs)))
        others == TagsOf(ElementsAt(obs, DOMAIN obs \ XHTTPOf(obs)))
    IN  [selector |-> IF xhttp # <<>> THEN xhttp ELSE others,
         fallbackTag |-> IF others # <<>> THEN others[1] ELSE xhttp[1],
         strategy |-> NormalizeBalancerStrategy(strategy)]

GenerateClientConfig(user, global, clients, strategy) ==
    LET rules == ApplyUserRoutes(ApplyUserRoutes(DefaultRouting, global), user)
        obs == BuildOutbounds(SortClientsXHTTPFirst(clients))
        several == Len(obs) > 1
        target == IF several THEN ProxyBalance ELSE obs[1].tag
        balancer == IF several THEN BalancerOf(obs, strategy) ELSE NoBalancer
    IN  IF obs = <<>> THEN NoDocument
        ELSE [outbounds |-> TagsOf(obs) \o <<<<"direct", 0>>, <<"block", 0>>>>,
              rules |-> Append(ResolveProxyRouteTargets(rules, target),
                               [from |-> "all", k |-> 1, sel |-> {"field"}, to |-> target]),
              balancer |-> balancer,
              observed |-> IF balancer.strategy \in Measured THEN balancer.selector ELSE <<>>]

(* Geo selectors go, and with them the rules that have no others.          *)
ApplyMobileRoutingProfile(doc) ==
    LET stripped == [k \in DOMAIN doc.rules |-> [doc.rules[k] EXCEPT !.sel = @ \ {"geo"}]]
    IN  [doc EXCEPT !.rules = ElementsAt(stripped, {k \in DOMAIN stripped : stripped[k].sel # {}})]
=============================================================================
