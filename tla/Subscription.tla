---------------------------- MODULE Subscription ----------------------------
(***************************************************************************)
(* Serving one account's subscription while admins work: handleSubscription *)
(* (the JSON document) and generateConfigForSubscriptionRequestWith-        *)
(* ForcedProtocol (the link lists), beside the requests of Emergency and    *)
(* the statements that switch the account and its clients on and off.       *)
(*                                                                         *)
(* A client is its inbound tag.  A request reads the database in several   *)
(* statements, between which anything else may happen.  What a query       *)
(* selects is a fixed set of tags: a filter ?inbound_tag=<tag>-<i>, which  *)
(* counts positions, is left to Documents.                                 *)
(***************************************************************************)
EXTENDS Emergency

CONSTANTS Readers,              \* concurrent subscription requests
          Paths,                \* the documents asked for
          ExcludeInboundTags, FallbackInboundTags,
          Filters,              \* what ?protocol= and ?inbound_tag= select
          Switched              \* the clients admins switch on and off

ASSUME PathsAssumption == Paths \subseteq {"json", "links"}
ASSUME TagsAssumption ==
    /\ ExcludeInboundTags \subseteq Tags
    /\ FallbackInboundTags \subseteq Tags
    /\ Filters \subseteq SUBSET Tags
    /\ Switched \subseteq Tags

VARIABLES
    enabled,    \* users.enabled
    clients,    \* inbound tags of the account's enabled user_clients
    r,          \* the request each reader serves
    past        \* history: what each request could have seen since it began

subVars == <<enabled, clients, r, past>>
allVars == <<vars, subVars>>

NoRequest == [pc |-> "idle", path |-> "json", fallback |-> FALSE, filter |-> {},
              got |-> {}, id |-> 0, out |-> {}, blind |-> FALSE]

-----------------------------------------------------------------------------
(* The filters.                                                            *)

(* filterExcludedInbounds, then the symmetric split: the fallback path     *)
(* serves the fallback tags alone, the primary path all others.  The JSON  *)
(* handler has it, ...                                                     *)
VisibleDocument(cs, fallback) ==
    LET kept == cs \ ExcludeInboundTags
    IN  IF FallbackInboundTags = {} THEN kept
        ELSE IF fallback THEN kept \cap FallbackInboundTags
        ELSE kept \ FallbackInboundTags

(* A copy in which the primary path forgets to leave the fallback tags out.*)
VisibleWhitelist(cs, fallback) ==
    LET kept == cs \ ExcludeInboundTags
    IN  IF fallback /\ FallbackInboundTags # {} THEN kept \cap FallbackInboundTags ELSE kept

(* ... and the link lists have a copy of it.                               *)
VisibleLinks(cs, fallback) ==
    LET kept == cs \ ExcludeInboundTags
    IN  CASE FallbackInboundTags = {} -> kept
          [] FallbackInboundTags # {} /\ fallback -> kept \cap FallbackInboundTags
          [] FallbackInboundTags # {} /\ ~fallback -> kept \ FallbackInboundTags

(* The emergency profile: no tags, or none the user has, and the document  *)
(* is the usual one.                                                       *)
Restrict(cs, tags) ==
    IF tags = {} \/ cs \cap tags = {} THEN cs ELSE cs \cap tags

-----------------------------------------------------------------------------
(* History, for the time since a request began: was there a moment without *)
(* a profile in force, which profiles were in force, which tags these have *)
(* had since, and which clients were enabled.                              *)

InForce == active /\ pid # 0 /\ Exists(pid)

Now == LET ids == IF InForce THEN {pid} ELSE {}
       IN  [calm |-> ~InForce, ids |-> ids, tags |-> {profiles[n] : n \in ids}, on |-> clients]

NoPast == [calm |-> TRUE, ids |-> {}, tags |-> {}, on |-> {}]

Track ==
    past' = [s \in Readers |-> IF r[s].pc \in {"idle", "served"} THEN past[s] ELSE
               [calm |-> past[s].calm \/ Now'.calm,
                ids |-> past[s].ids \cup Now'.ids,
                tags |-> past[s].tags \cup Now'.tags
                           \cup {profiles'[n] : n \in past[s].ids \cap DOMAIN profiles'},
                on |-> past[s].on \cup Now'.on]]

-----------------------------------------------------------------------------
(* A subscription request.                                                 *)

Step(s, req) == r' = [r EXCEPT ![s] = req] /\ UNCHANGED past
Rejected(s) == r' = [r EXCEPT ![s] = NoRequest] /\ past' = [past EXCEPT ![s] = NoPast]

(* What goes to the config generator is what the query's filter leaves of  *)
(* the clients; 404 when that is nothing, or when the user's nodes have no *)
(* endpoint for it.  The global routes and the balancer settings are read  *)
(* on the way and the generator may give up: 500.  A request is blind when *)
(* it could not read the profile in force.                                 *)
Serve(s, cs, blind) ==
    \/ Rejected(s)
    \/ /\ cs \cap r[s].filter # {}
       /\ Step(s, [r[s] EXCEPT !.pc = "served", !.out = cs \cap r[s].filter, !.blind = blind])

(* GetUserByToken has found the account; a disabled one is 403.            *)
Ask(s, path, fallback, filter) ==
    /\ r[s].pc = "idle"
    /\ enabled
    /\ r' = [r EXCEPT ![s] = [NoRequest EXCEPT !.pc = "clients", !.path = path,
                                               !.fallback = fallback, !.filter = filter]]
    /\ past' = [past EXCEPT ![s] = Now]
    /\ UNCHANGED <<vars, enabled, clients>>

(* GetUserClients.  The link lists look no further.                        *)
ReadClients(s) ==
    /\ r[s].pc = "clients"
    /\ \/ r[s].path = "links" /\ Serve(s, VisibleLinks(clients, r[s].fallback), FALSE)
       \/ r[s].path = "json" /\ Step(s, [r[s] EXCEPT !.pc = "active",
                                       !.got = VisibleDocument(clients, r[s].fallback)])
       \/ Faults /\ Rejected(s)
    /\ UNCHANGED <<vars, enabled, clients>>

(* GetEmergencyStatus; an error counts as inactive.                        *)
ReadActive(s) ==
    /\ r[s].pc = "active"
    /\ \/ active /\ Step(s, [r[s] EXCEPT !.pc = "id"])
       \/ ~active /\ Serve(s, r[s].got, FALSE)
       \/ Faults /\ Serve(s, r[s].got, TRUE)
    /\ UNCHANGED <<vars, enabled, clients>>

ReadProfileId(s) ==
    /\ r[s].pc = "id"
    /\ \/ pid # 0 /\ Step(s, [r[s] EXCEPT !.pc = "profile", !.id = pid])
       \/ pid = 0 /\ Serve(s, r[s].got, FALSE)
       \/ Faults /\ Serve(s, r[s].got, TRUE)
    /\ UNCHANGED <<vars, enabled, clients>>

(* The query's filter first, the emergency profile second.                 *)
FilterThenRestrict(s) ==
    /\ r[s].pc = "profile"
    /\ \/ /\ Exists(r[s].id)
          /\ Serve(s, Restrict(r[s].got \cap r[s].filter, profiles[r[s].id]), FALSE)
       \/ (Faults \/ ~Exists(r[s].id)) /\ Serve(s, r[s].got, TRUE)
    /\ UNCHANGED <<vars, enabled, clients>>

(* GetEmergencyProfile, by the id read before; without a row there is no   *)
(* profile.                                                                *)
ReadProfile(s) ==
    /\ r[s].pc = "profile"
    /\ \/ Exists(r[s].id) /\ Serve(s, Restrict(r[s].got, profiles[r[s].id]), FALSE)
       \/ (Faults \/ ~Exists(r[s].id)) /\ Serve(s, r[s].got, TRUE)
    /\ UNCHANGED <<vars, enabled, clients>>

(* The response is out.                                                    *)
Close(s) ==
    /\ r[s].pc = "served"
    /\ Rejected(s)
    /\ UNCHANGED <<vars, enabled, clients>>

Reader(s) ==
    \/ \E path \in Paths, fallback \in BOOLEAN, filter \in Filters : Ask(s, path, fallback, filter)
    \/ ReadClients(s) \/ ReadActive(s) \/ ReadProfileId(s) \/ ReadProfile(s) \/ Close(s)

-----------------------------------------------------------------------------
(* The rest of the server.                                                 *)

(* SetUserEnabled and SetUserClientEnabled.                                *)
SetUserEnabled ==
    /\ enabled' = ~enabled
    /\ UNCHANGED <<vars, clients, r, past>>

SetUserClientEnabled(t) ==
    /\ clients' = IF t \in clients THEN clients \ {t} ELSE clients \cup {t}
    /\ UNCHANGED <<vars, enabled, r>>
    /\ Track

EmergencyStep ==
    /\ \E a \in Admins : Admin(a)
    /\ UNCHANGED <<enabled, clients, r>>
    /\ Track

(* The requests of a server that dies are never answered.                  *)
ServerCrash ==
    /\ Crash
    /\ r' = [s \in Readers |-> NoRequest]
    /\ past' = [s \in Readers |-> NoPast]
    /\ UNCHANGED <<enabled, clients>>

SubInit ==
    /\ Init
    /\ enabled = TRUE
    /\ clients = Tags
    /\ r = [s \in Readers |-> NoRequest]
    /\ past = [s \in Readers |-> NoPast]

SubNext ==
    \/ EmergencyStep \/ ServerCrash \/ SetUserEnabled
    \/ \E t \in Switched : SetUserClientEnabled(t)
    \/ \E s \in Readers : Reader(s)

SubSpec == SubInit /\ [][SubNext]_allVars

-----------------------------------------------------------------------------
(* Properties.                                                             *)

Served(s) == r[s].pc = "served"

(* "fallback inbounds must NEVER appear in primary subscription", an       *)
(* excluded inbound appears nowhere, and no document lists a client that   *)
(* was disabled all the while, whatever the emergency profiles name.       *)
ServedIsolation ==
    \A s \in Readers : Served(s) =>
      /\ r[s].out \cap ExcludeInboundTags = {}
      /\ FallbackInboundTags # {} =>
           IF r[s].fallback THEN r[s].out \subseteq FallbackInboundTags
                            ELSE r[s].out \cap FallbackInboundTags = {}
      /\ r[s].out \subseteq past[s].on

(* "Emergency mode: when active, restrict clients to the emergency         *)
(* profile's inbound tags": when some profile was in force all through a   *)
(* request, its document is what their tags leave of the user's clients,   *)
(* although the switch, the id and the row are read in three statements.   *)
(* The exceptions are a query among the three that fails and a profile    *)
(* that is replaced and then deleted between the last two reads: no row,   *)
(* no restriction.                                                         *)
EmergencyRestricts ==
    \A s \in Readers :
      Served(s) /\ r[s].path = "json" /\ ~past[s].calm /\ ~r[s].blind =>
      \E tags \in past[s].tags : r[s].out = Restrict(r[s].got, tags) \cap r[s].filter

(* "switches all subscriptions to the specified emergency profile": the    *)
(* link lists as well.                                                     *)
EmergencySwitchesLinks ==
    \A s \in Readers : Served(s) /\ r[s].path = "links" /\ ~past[s].calm =>
      \E tags \in past[s].tags :
        r[s].out \subseteq Restrict(VisibleLinks(past[s].on, r[s].fallback), tags)
=============================================================================
