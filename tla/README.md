# Raven-subscribe: a TLA+ verification project

Raven-subscribe keeps VPN accounts in SQLite, provisions them into Xray (over
gRPC, or by rewriting the inbound files of `config.d`), and serves each account
a client configuration. What is hard about it is not any single handler but
that one fact (an account's client on an inbound) lives in three places that
nothing keeps together, and that HTTP handlers, spawned goroutines, tickers and
Xray itself change those places without a common lock or transaction.

The modules here model that control flow statement by statement, TLC checks
them on small instances, and TLAPS proves the central invariants for instances
of every size. `PROJECT.json` lists components, runs, mutants, the map from
definitions to source lines, findings, hazards and theorems.

## 1. Inventory

| Component | State | Operations | Hard about it |
|---|---|---|---|
| Fallback killswitch (`api/fallback.go`) | `fallback_enabled`, the fallback inbounds of the running Xray, `killSwitchMu` | enable, disable, startup and periodic reconcile | toggles against the loop, Xray restarts, failing RPCs, crash between flag and RPC |
| Provisioning (`api/server.go`, `xray/configwriter.go`, `xray/apiclient.go`) | `users`, `user_clients`, `config.d`, Xray's runtime | create/delete/enable/disable of accounts, add/enable/disable of clients | three copies, no lock, stale row ids, unlocked file rewriting |
| Syncer (`syncer/syncer.go`, `xray/restore.go`) | none of its own | file → database → file passes, restore on startup, watcher, ticker, `go Sync()` | overlaps every handler and itself |
| Emergency mode (`api/emergency.go`) | three `app_settings` keys, `emergency_profiles` | activate, deactivate, create/update/delete profile | three upserts without a transaction, check-then-delete |
| Subscription serving (`api/server.go`, `api/sub_links.go`) | none | JSON document, link lists | four separate reads per document; two implementations of the filters |
| Multi-node (`xray/fanout.go`, `api/nodes.go`) | `nodes`, `user_nodes`, each node's runtime | fan-out of add/remove, placement, backfill, reconcile loop | nodes down, nodes restarting, partial fan-out |
| Client routes (`api/server.go`) | `users.client_routes`, global routes | get/set/add/update/delete by index and by id | unlocked read-modify-write, GET writes too |
| Config parser and inbound rows (`xray/parser.go`, `syncer/syncer.go`) | `inbounds`, `user_clients` | parse the directory, delete and upsert rows, write clients back, record a status | parses older than the rows, files that come in map order, move, break or vanish, two Syncs |
| Config file writing (`xray/configwriter.go`) | the bytes of a file, `.raven.tmp` beside it | temporary file and rename; readers at any time | crashes and full disks half-way, a shared temporary name, no lock |
| Tokens, fallback gate, Hysteria reserve (`api/fallback.go`, `api/server.go`, `api/sub_links.go`) | `users.token`, `fallback_token`, `hy2_enabled`, `fallback_enabled` | regenerate, switch, look up | gate and handler check in separate statements |
| Client config generator, balancer settings (`xray/generator.go`, `api/server.go`) | `app_settings` overrides | one pure pipeline per document; set and reset the strategy | clients that cannot be built, one or several outbounds, order of rules |
| Others | rate limiter, error ring, fetch metrics, configuration, TLS and HTTP | | see section 8 |

Interaction: `main` migrates the database, reconciles nodes, runs one Sync,
restores clients over gRPC, reconciles the killswitch, and only then starts the
listener, the Sync ticker and watcher, and the two reconcile loops. Handlers
call the admin interface (gRPC, file or fan-out) directly and start Syncs as
goroutines. SQLite runs on one connection, so each statement is atomic and
nothing more is.

What makes each correct: the runtime follows the flag (killswitch); the three
copies agree at rest, stale copies never reach another identity, disabled stays
disabled, enabled clients are persisted (provisioning, Sync); the profile in
force exists (emergency); fallback and excluded inbounds stay isolated and the
emergency profile restricts (subscriptions); endpoints in a subscription are
served, removed users are gone, placements are respected (nodes); ids of rules
identify them and no request loses a rule (routes); rows follow the files and a good row survives a bad
parse (inbound rows); a file is always one whole document (file writing); what
was revoked before a request is not served by it (access); everything a
document refers to is in it, in the promised order (generator).

## 2. Modules

| Module | Models | Composes |
|---|---|---|
| `FallbackSwitch` | what the killswitch promises (abstract) | – |
| `KillSwitch` | handlers, mutex, loop, startup, RPCs | `INSTANCE FallbackSwitch` |
| `Provision` | handlers of accounts and clients, Sync, restore | – |
| `Emergency` | emergency requests | – |
| `Subscription` | serving while emergency mode and clients change | `EXTENDS Emergency` |
| `Access` | tokens, the fallback gate and the Hysteria reserve in front of serving | `EXTENDS Subscription` |
| `Nodes` | fan-out, placement, reconcile loop | – |
| `AtomicFile` | what replacing a file promises (abstract) | – |
| `ConfigFile` | `writeConfigFile` and the readers, on inodes and blocks | `INSTANCE AtomicFile` |
| `Inbounds` | inbound rows, Syncs over several files, write-back, status | – |
| `ConfigDir` | both levels of `config.d`, and their liveness | `EXTENDS ConfigFile, Inbounds` |
| `Routes` | stored routing rules | – |
| `Generator` | the client document, as operators | – |
| `Documents` | both levels of rules: stored lists, and documents | `EXTENDS Routes, Generator` |
| `*Proofs` | theorems about the module of that name (`CredentialProofs` and `AgreementProofs`: `Provision`; `AccessProofs`: `Emergency` and `Subscription` too; `ConfigDirProofs`: `ConfigFile` and `Inbounds` too; `DocumentsProofs`: `Routes` and `Generator` too) | |
| `MC*` | model values, symmetry, input sets | |

An action is one SQL statement, one RPC, one file read or one file rename. Each
handler is a program counter plus what the Go function holds in local
variables between two such points (`h[p].id` is the row id from `getByID`,
`h[p].buf` the file content that `addClientToFile` has read, `y[s].snap` the
parse of `config.d`, `y[s].want` the result of `ListUserClientsByInboundTag`).
Requests that are answered 4xx before anything is read are no step.

Correspondence, by module:

- **KillSwitch.** `Lock`, `SetFallbackEnabled`, `ReadFlag`, `ApplyTag`/
  `ApplyTagFailed` and `Unlock` are the points of `enableFallback`,
  `disableFallback` and `reconcileKillSwitchLocked`; `Leave` also covers the
  startup order (nobody can toggle before the first reconcile). `stale` is a
  history variable: tags whose last RPC failed or that Xray reloaded since.
- **Provision.** A credential is a number, `owner[c]` the identity it was made
  for. The variable `grpc`, one of `Modes`, says whether the server runs with
  `grpcAdmin` or `fileAdmin`. Removal over gRPC also rewrites
  the file, whatever the RPC returned. `Overlap` lets requests and Syncs
  overlap; `Faults` lets RPCs and writes fail. `pending` counts spawned
  goroutines that have not begun. Every inbound has its row and a file of its
  own (`Inbounds` is about rows and files that come and go). A request names a
  set of inbounds: a body with one tag twice is left out.
- **Emergency / Subscription.** `active`, `pid`, `stamped` are the three keys;
  a subscription request reads clients, switch, id and profile in that order.
  The code has the filters twice, and so has the module: `VisibleDocument` is
  that of `handleSubscription`, `VisibleLinks` that of the link lists. A filter
  of the query selects a set of tags; that `?inbound_tag=` also counts
  positions is in `Documents`. `blind` marks a request one of whose reads of
  the emergency status failed, which the code takes for no emergency.
  `past` is a history variable: the profiles in force, their tags and the
  enabled clients at some moment of a request.
- **Nodes.** One inbound, one client per account; each RPC of a fan-out is a
  step. `ServerRestart` is `main`'s `reconcileNodes` with another configuration,
  which has each node enabled, disabled or not at all; a disabled one has a row
  that says so.
  `Enrolled` accounts exist and are placed before the behaviour begins.
- **Access.** A token is the number of times it has been issued, and a request
  may present any that was. `Knock`, `GateFlag`, `GateToken`, `LookUp`,
  `Append` are the statements of `withFallbackAuth`, of the handler and of
  `hysteriaMainSubExtra`; between them stand the reads of `Subscription`.
  `seen` is a history variable: what was granted since the request began.
- **ConfigFile.** A name leads to an inode, an open file keeps its inode. A
  document is a sequence of blocks marked with its writer, so that a torn or
  mixed file is not a document. `alone` records that no two calls overlapped.
- **Inbounds.** A file is the tags in it and those that name the account;
  `Unread` is a file that is gone or does not parse, which the parser treats
  alike. `snap` is the Go map of parsed files, visited in any order and left out
  of it then.
  `UpsertInbound` stores a row, `SyncClient` its clients; an inbound that is
  deleted and stored again in between has a new id, and then the clients of the
  first one fail on the foreign key. A write-back is `Idents` (who is in the
  inbound), `Find` (its file), `ReadCopy` and `WriteBack`, each a step, since
  files may change between any two. For a removal the search for the file and
  the read of it are one step. History:
  `doubt` holds the Syncs that have still to bring rows up to date and ran while
  an inbound was not where its row says,
  `quiet` the Syncs since whose listing nobody else changed anything,
  `status.fresh` that this held when the last status was recorded.
- **ConfigDir, Documents.** The variable `level` picks which of the two levels
  a behaviour is about; the levels share no variable. They are in one module
  because they are about the same thing and fit one configuration.
- **Routes.** A rule is its id (0 when it has none); a behaviour is about one
  list, a user's or the global one. `overtaken` is a history variable: the
  requests that have read the list and not saved it when another one saves.
- **Generator.** A rule is where it comes from, its place there, its
  `outboundTag` as spelled and which kinds of selectors it has; an outbound is
  a tag with its place in the list, as the code names it. The comment before
  the sort (`generator.go:50`) still says that the first outbound becomes the
  balancer's fallback; the module follows `buildBalancer`, its test and the
  changelog, where the fallback is another transport.

## 3. Runs

| Run | Checks | Shows |
|---|---|---|
| `KillSwitch_switch` | `IInv`, `SwitchApplied`, `ImplementsSwitch`, `OffTearsDown` | the mutex makes flag and inbounds one switch, over two toggles, the loop and three events; an off switch wins over every Xray restart and outage |
| `Provision_serial` | `RestAgreement`, `FileAgreement` | six requests in any order, one at a time, two users, two inbounds: over gRPC database, file and runtime agree at rest, in file mode database and file do |
| `Provision_races` | `HeldIdsSafe`, `CredentialsOwned`, `IInv`, `DisabledStaysDisabled` | two handlers and a Sync in both modes, with failing RPCs and writes, crashes, Xray restarts and an operator's edit: stale ids and stale file copies touch nobody else, only a request re-enables |
| `Provision_persist` | `Persisted` | lost file updates are made up for by later Syncs |
| `Subscription_isolation` | `ServedIsolation`, `RevokedNotServed`, `EmergencyRestricts` | nothing an emergency profile names, no failing query and no switch of a client leaks a fallback or excluded inbound, in either copy of the filters; no token, switch or reserve that was revoked before a request began is honoured by it; reads torn by activation, deactivation, updates and crashes still restrict |
| `Nodes_recover` | `NodesInv`, `EndpointsServed` | two admins, the loop, outages and restarts that switch a node on or off: only existing accounts are placed, on nodes that have a row; the loop brings users back after node restarts |
| `Routes_races` | `RulesIdentified`, `GlobalIdsUnique`, `RulesKept`, `OnlySpellingDangles`, `RulesInPriority`, `XHTTPPrimary` | two unlocked requests keep ids and lose rules only when one overtakes the other; documents are closed, but for rules spelt "Direct" or "Block", and in order for every small input |
| `ConfigDir_sync` | `FileInv`, `ImplementsAtomicFile`, `RowsTypeOK`, `InPlaceKept`, `StatusHonest`, `RowsFollow`, `ClientsPersist` | a file is one document through crashes and full disks; two Syncs, an admin and an operator leave rows and files in step, never drop a row over a bad parse, and an ok status is true |

Four runs expect a violation. Each states a sentence of the repository and finds
a behaviour of the code against it (the quotations are under `findings`):

| Run | Property | Behaviour |
|---|---|---|
| `Provision_delete` | `OnlyAdminCreates` | the Sync that `removeUserFromXray` starts lists the row before `deleteUser` deletes it and appends the entry to `config.d` again; the next Sync re-creates the account from the file |
| `Nodes_removal` | `RemovalReconciled` | reconcile only adds, so a node that was down during a removal keeps the user |
| `Nodes_backfill` | `NewNodeBackfilled` | backfill skips users that have a placement, so a node that the configuration gains never gets the existing users |
| `Routes_spelling` | `ReferencesResolve` | the spellings "Direct" and "Block" pass `validateUserRoutes` and are copied as they are, but the outbounds are named in lower case |

Every property of a passing run has a mutant of the model, one plausible slip
in the code (no mutex, no `AUTOINCREMENT`, an upsert that enables, a filter in
the wrong order, ...), under which TLC finds it violated.

Some properties are stated in the modules without a run of their own; each is a
variation of a configuration above. Not kept by the code:

| Property | Instance | Behaviour against it |
|---|---|---|
| `KillSwitch!OnBringsUp` | one toggle, two events, `FairSpec` | an `AddInbound` that fails during enable is never retried: the loop acts only while the switch is off |
| `Provision!DisabledAccountOut` | one handler, three requests, no overlap | enabling one client of a disabled account puts it back into Xray |
| nobody is twice in a file (`restore.go:55`: "writes users from DB to config file if they are not already present") | two overlapping Syncs, or an operator's edit during a Sync | both append the same client |
| the same | two handlers, one Sync, four requests | of two overlapping removals one writes an old copy back after the Sync has looked who is missing, and the Sync appends the client again |
| `Emergency!ActiveProfileExists` (`README.md:902`: "You cannot delete a profile while it is the active emergency profile") | two admins | an activation between the check and the `DELETE` |
| `Subscription!EmergencyRestricts` without its exceptions | one admin, all requests | the profile a request is about to read is replaced and deleted, or the read fails: the document is unrestricted |
| `Subscription!EmergencySwitchesLinks` | path `links` | link lists ignore emergency mode |
| `Nodes!SameCredential` | two nodes, one `createUser` | each node gets a credential of its own; the subscription holds one |
| `Nodes!DisabledOut` with a configuration that changes | one user, no overlap, no outages | a node that leaves the configuration keeps whom it has and is told of no removal, so it comes back with a disabled user |
| `Routes!RulesKept` without `overtaken` | two handlers | a request saves the list it read over a rule that another one has added meanwhile |
| `Routes!UserIdsUnique` | one handler | `addUserRoute` validates the new rule alone |
| `Documents!FilterFindsOutbound` | `Routes_races` | `?inbound_tag=` counts places before the generator sorts XHTTP first (`sub_links.go:231`) |
| `Documents!MobileNarrows` | `Routes_races` | a rule with a geo selector and a port keeps only the port in the mobile profile, and matches more (`server.go:1797`, `README.md:430`) |
| `ConfigFile!TurnsInv` without `alone` | `ConfigDir_sync` | two overlapping writers share `.raven.tmp`: one publishes what the other is writing |
| `Inbounds!InPlaceKept` for a tag that moves | `ConfigDir_sync` | when the old file is visited first the row and its disabled clients go with it (`syncer.go:186`) |
| `Inbounds!StatusHonest` with failing list queries | `ConfigDir_sync` | a failing `ListInbounds` counts as an empty list and the Sync reports ok (`syncer.go:230`) |

Met while modelling, and stated by no property: `handleHysteriaAuth` does not
look at `hy2_enabled`, so switching a user's reserve off takes the link away
and not the access (`README.md:1109` calls the switch "Toggle a user's reserve
access"); a primary token that rotates between the two look-ups of the fallback
gate costs a valid fallback request a 404; the index of links under
`/sub/{token}/links` also lists fallback inbounds; the enrolment on the first
subscription request that `INSTALL.md:308` describes is not in the code.

Kept, but checked by none of the runs: `Nodes!DisabledOut` (no overlap, no
outages, one configuration), `Emergency!EmergencyInv` (one admin, no failing
query) and `Nodes!PlacementKept`, which says that nobody who is placed is moved
but by a request: it is why `NewNodeBackfilled` fails, and what the comment of
`BackfillUserNodesToEnabled` wants. They are theorems (section 6).

## 4. Bounds

Two of whatever can race (handlers, toggle requests, Syncs, admins) and one or
two of whatever is only a key (users, inbounds, nodes, tags): the hazards are
all about two actors and one datum. `MaxReqs` (0–6), `MaxEvents` (0–3),
`MaxProfiles` and `MaxCrashes` cap counters; three requests are the least that
create, disable and then race, six cover a create–disable–enable–re-add cycle.
`MaxId` in `Routes` is larger than the number of ids ever in use, `MaxLen`
bounds lists. `MaxTokens` 2 gives an old and a current token of each kind.
`ConfigFile` has two writers, three calls and one crash (a crash, a call over
what it left, and another), documents of two lengths so that a longer leftover
shows, and inodes enough for every name and open file at once. `Inbounds` has one
tag, which may be in either of two files, two Syncs and `MaxEvents` 2: an edit
and a failure, two edits, or a request and an edit. `MCInputs` has every
combination of two user rules and one global rule over a dozen kinds, and of up
to three clients with their transports, failures and placements; the kinds
include spellings in upper case and a tag that `applyUserRoutes` skips.
Symmetry is
used over handlers only, and only where no temporal
property other than an action property is checked.

Two users are needed for `HeldIdsSafe` and `CredentialsOwned` (the other
identity), two inbounds in `Provision_serial` for requests that walk several
clients, five tags for subscriptions (one in the emergency profile and in the
query's filter, one in either, one excluded, one fallback). The subscription run
has one admin and one reader, of whom each statement can come between any two of
the other; a second admin is covered by the theorems.

## 5. Fairness

- `KillSwitch!Fairness`: the ticker fires again and again, a goroutine inside
  its critical section keeps going, `sync.Mutex` hands itself to a starving
  waiter (strong fairness of `Lock`), and reads of the flag do not fail for
  ever. No request is ever required, nor that an API outage ends.
- `Provision!Fairness`: handlers and Syncs that run go on; the ticker starts
  some Sync again and again, not any given one.
- `ConfigDir!DirFairness`: the ticker starts some Sync again and again, a Sync or
  a request that has begun goes on, and a request that waits for its Sync gets
  one. Failures are bounded events, so none is for ever.
- `Nodes!Fairness`: requests run to their end, passes keep starting, an
  unreachable node comes back some day. Liveness is conditional
  (`<>[]P => <>[]Q`), so it says nothing while requests keep changing `P`.

## 6. Proofs

| Theorem | Statement |
|---|---|
| `KillSwitchProofs!KillSwitchInvariant` | `Spec => []IInv` |
| `KillSwitchProofs!KillSwitchApplied` | `Spec => []SwitchApplied` |
| `KillSwitchProofs!KillSwitchRefines` | `Spec => ImplementsSwitch` |
| `ProvisionProofs!ProvisionRows` | `Spec => []RowInv` |
| `ProvisionProofs!ProvisionHeldIds` | `Spec => []HeldIdsSafe` |
| `CredentialProofs!ProvisionInvariant` | `Spec => []IInv` |
| `CredentialProofs!ProvisionCredentials` | `Spec => []CredentialsOwned` |
| `CredentialProofs!ProvisionDisabled` | `Spec => DisabledStaysDisabled` |
| `AgreementProofs!ProvisionAgreement` | `Serial`: `Spec => []RestAgreement` |
| `AgreementProofs!ProvisionFileAgreement` | `FileSerial`: `Spec => []FileAgreement` |
| `AccessProofs!EmergencyInvariant` | one admin, no failing query: `Spec => []EmergencyInv` |
| `AccessProofs!SubscriptionIsolation` | `SubSpec => []ServedIsolation` |
| `AccessProofs!SubscriptionRestricts` | `SubSpec => []EmergencyRestricts` |
| `AccessProofs!AccessRefines` | `AccessSpec => SubSpec` |
| `AccessProofs!AccessIsolation` | `AccessSpec => []ServedIsolation` |
| `AccessProofs!AccessRestricts` | `AccessSpec => []EmergencyRestricts` |
| `AccessProofs!AccessRevoked` | `AccessSpec => []RevokedNotServed` |
| `NodesProofs!NodesInvariant` | `Spec => []NodesInv` |
| `NodesProofs!RequestsOwnAccount` | `Spec => []OwnAccount` |
| `NodesProofs!NodesPlacement` | `Spec => PlacementKept` |
| `NodesProofs!NodesDisabledOut` | `Steady`: `Spec => []DisabledOut` |
| `ConfigDirProofs!FileInvariant` | `Spec => []FileInv` |
| `ConfigDirProofs!FileRefines` | `Spec => ImplementsAtomicFile` |
| `ConfigDirProofs!RowsInvariant` | `RowsSpec => []Inv` |
| `ConfigDirProofs!RowsTypes` | `RowsSpec => []RowsTypeOK` |
| `ConfigDirProofs!RowsStatus` | `RowsSpec => []StatusHonest` |
| `ConfigDirProofs!RowsInPlace` | `RowsSpec => InPlaceKept` |
| `ConfigDirProofs!DirSafe` | `DirSpec =>` the properties of both levels |
| `DocumentsProofs!RoutesKept` | `Spec => RulesKept` (of `Routes`) |
| `DocumentsProofs!ListsApart` | `AllSpec => Spec` (of `Routes`) |
| `DocumentsProofs!RoutesIdentified` | `AllSpec => []RulesIdentified` |
| `DocumentsProofs!RoutesUnique` | `AllSpec => []GlobalIdsUnique` |
| `DocumentsProofs!DocumentsResolve` | `AllSpec => []OnlySpellingDangles` |
| `DocumentsProofs!DocumentsInPriority` | `AllSpec => []RulesInPriority` |
| `DocumentsProofs!DocumentsXHTTP` | `AllSpec => []XHTTPPrimary` |

Every theorem holds for all values of the constants that satisfy the `ASSUME`s of
its module; further hypotheses are in the table. `Spec` is that
of the module the theorem is about.

*Killswitch.* `SwitchApplied` speaks of moments when the mutex is free, so it
is not inductive. `IInv` adds that a process is in its critical section exactly
while it holds the mutex (`MutexInv`), that the walk's target is the flag
(`TargetInv`, which is what the mutex buys), and that tags neither stale nor
still to be visited agree with the flag (`AgreeInv`). The refinement needs
`TargetInv`: an RPC moves an inbound towards the *current* flag. The only
assumption is that the process names differ.

*Provisioning.* `HeldIdsSafe` (a row id held across other requests can only hit
the account it was looked up for) needs that ids are handed out once
(`RowsInv`), that a held id was given out (`HeldIdsGiven`: otherwise a future
`INSERT` could get it) and that a Sync past its lookup still has its entry
(`EntryInv`). The theorem holds for any number of users, inbounds, handlers and
Syncs, with faults, crashes and overlap; it assumes only that there is some
user and some inbound.

*Credentials.* `CredentialsOwned` speaks of what is stored, and a step stores
what a handler or a Sync took along earlier: rows it read, a file it parsed, a
credential it generated. `CarriedOwned` says the same of all of that, and that a
credential which is about to be written exists at every program counter that
writes one (the invariant was not inductive before `reappend`, the write after
Xray answered, was among them). A row id alone does not tell whose client a Sync
updates, so the proof rests on `HeldIdsSafe`. `OpInv` names the
requests that reach a statement which sets a flag; with it
`DisabledStaysDisabled` follows from single steps.

*Agreement.* `RestAgreement` speaks of moments when nobody is at work. Under
`Serial` (a request arrives only at rest, no faults, no crash, restart or
edit, no `deleteUser`) and with gRPC any number of handlers and Syncs may exist, and
`AloneInv` says that at most one of them is at work. `SerialInv` then follows
every client through the request for its account: `CellOf` says which part of
the agreement is still missing at each program counter (`Adding`: Xray has a
credential that no row knows; `Starting`: the flags are on, the RPC is still to
come; `Stopping`: the row is off, Xray and the file follow) and that nothing
else is; clients of other accounts agree all the time. A Sync finds only what
the rows already say (`PassOf`), so importing a file changes no row and appending
never adds a client that is off. None of the hypotheses can be dropped: TLC
finds the agreement broken once an RPC may fail, the process may restart, a Sync
may overlap a request, or `deleteUser` (with its own Sync) is served; in file
mode the runtime has no part in it.

*Agreement in file mode.* Without `xray_api_addr` the file is what Xray will
load, and `FileAgreement` is the counterpart of `RestAgreement`. Of the enabled
clients of a disabled account neither says anything: `addUserClient` and
`setClientEnabled` do not look at the account's flag. Under
`FileSerial` (no overlap, faults or events) `FiledInv` again follows each client
of the account a request is about: `Entering` (the file has a credential no row
knows yet), `Restoring` (the flags are on, the entry is still to be appended),
`Leaving` (the row is off, the entry still there) and `Gone`. `deleteUser` is
included here, although its Sync overlaps its last statement: in file mode a
Sync only imports, and what it has read of the account's inbounds (`ImportOf`:
nobody whom the file lacks) is nothing, since the entries were erased before the
Sync was asked for. With gRPC the Sync also appends the rows it has listed, which
is why `Serial` excludes deletions. The invariant was checked with TLC for two
users, inbounds, handlers and Syncs and five requests before it was proved.

*Emergency.* `EmergencyInv` says what a crash between the three upserts of an
activation can leave behind: a profile id is set only while emergency mode is on
and its row exists, the request about to name a profile has found
it, and the request about to delete one has found another in force
(`ProfileInv`). It needs one admin and queries that do not fail; what two admins
do to a profile in force is in section 3.

*Subscriptions.* `ServedIsolation` needs `IsolationInv`: what a request holds
after each of its reads is already clean, and was enabled since it began.
`EmergencyRestricts` needs that the history of a request knows the profile in
force and the tags of every profile that was, that the id a request has read is
one of these, and that profile ids are never given out twice (`IdsGiven`), so
that a row read late is the row of that profile or of none. It holds for any
number of admins, with failing queries and crashes; the property itself excepts
a request one of whose own reads failed, which counts as no restriction. The
gate is a refinement: each step of `Access` is a step of `Subscription` or
leaves its variables alone, so isolation and restriction hold behind the gate
without another proof. `RevokedNotServed` needs `GateInv`: which
of the grants each program counter of the gate has seen since the request began,
and that the handler behind the gate runs only for a request that has passed it.

*Nodes.* A request holds a row id, a credential and names of nodes. `Inv` adds
to `NodesInv` that no two accounts share an id, that an id or credential held by
a request or the loop was given out (otherwise a later `INSERT` could get it),
that the nodes a request names have a row, and that the account of a held id, if
it is still there, is the one the request was sent for (`OwnAccount`).
`PlacementKept` then follows step by step.

`DisabledOut` says that, at rest, no node has a disabled or deleted user. Under
`Steady` (no overlap, no outages, one configuration; nodes restart at any time,
the server between requests) `OutInv` says more: whoever a node has is enabled and has a stored
credential, except for the account of the request in progress, of which
`RequestOf` tells what remains to be done (a removal still has every node before
it that has the user; a fan-out adds only under a flag that is on), and whom
the loop has listed as missing is still enabled when it adds it. Each hypothesis
is needed: a pass that overlaps a removal adds the user again, a node that is
down or out of the configuration is told of no removal.

*Config file.* That the file is the document of the last successful call is not
inductive: a later rename could publish anything. `TurnsInv` adds that, while
calls take turns, the writer's inode is the temporary file and is neither the
published one nor one a reader has open, and that it holds the whole document
before the rename. In the refinement a reader has read as soon as it has opened
the file (its inode cannot change any more), so `OpenFile` is the abstract
read, `Rename` the abstract write and a second call the abstract overlap, after
which nothing is promised. The theorems hold for any writers, readers, lengths,
failures and crashes; assumed are positive lengths, numbered inodes and an
operator who is none of the writers.

*Inbound rows.* `InPlaceKept` forbids a deletion that was decided many steps
earlier, from files read earlier still. `PlaceOf` follows a Sync that is not in
doubt about an inbound: if it has read the row's file, it found the inbound in
it, and so it never puts the inbound on its list of stale rows. `StatusHonest`
speaks of the record at the end of a Sync; `QuietOf` says of a Sync since whose
listing nobody else changed anything that each enabled client is still before
it, or under its hands with an unchanged copy of the file, or already in a file.
That the first file of the directory that has a tag exists is a lemma from the
well-foundedness of the natural numbers. Nothing is assumed of the operator but
that what is saved is a file.

*Routes.* A stored list is the copy of some request. `RequestOf` says that a
request past its read holds a list in which every rule has an id, all different
if the list is the global one, and that a global list is only ever added to;
`assignRouteIDs` keeps both as its ids are new (`NewIds` is a set of injections
into unused ids, which the proof needs to be non-empty: `IdsLeft` guards the
steps that draw ids and never stops one in the run). Assumed is that an older
version stored rules without ids.

`RulesKept` compares the stored list before and after a save, many steps after
the list was read. `KeepInv` says that what a request holds that is not
`overtaken` is what is stored, but for ids made up for rules without one, until
the step that applies the request's change and saves; so its save loses only
rules the request names. An overtaken one saves over whatever the other has
stored, which is the lost update of the unlocked read-modify-write and the only
exception.

*Documents.* A step puts a whole document in place, so the invariant is short
(`AnswerInv`: the last answer is the document of what is asked, under some
strategy) and the work is in what the generator computes for lists of any
length. Everything it filters goes through `ElementsAt`, a recursive function;
`ElementsAtFacts` says that the result names its elements by an increasing
function onto the chosen places (`Picks`), by induction on the length of the
list. The library's induction rules take a predicate as a parameter, which the
provers cannot instantiate; `Inductive` is the same rule for a *set* of numbers,
from the well-foundedness of the naturals. The rest composes such numberings:

- an outbound stands for one endpoint that can be built, through the sort, the
  build and the balancer (`NumbersCompose`), so counts by tag agree
  (`NumbersCount`), which is `XHTTPPrimary`; that the fallback's tag belongs to
  no XHTTP endpoint needs that endpoints of one tag have one transport
  (`EndpointsFacts`, from the `UNIQUE` constraints in `IsInput`);
- lists in order, put before lists of a higher rank, are in order
  (`InOrderConcat`), and stripping geo selectors keeps the order and the last
  rule (`StrippedFacts`);
- every rule leads to the target, to `direct` or `block`, or to what its stored
  rule says when that is spelt "Direct" or "Block" (`LeadsWell`); the last case
  is the exception that `OnlySpellingDangles` makes from `ReferencesResolve`,
  and `Routes_spelling` shows that it is met.

`InputsAssumption` is what the database guarantees of one user's clients and
rules: positions in a list, one client per inbound, tags that are unique.

Only model-checked: liveness (`OffTearsDown`, `Persisted`, `EndpointsServed`,
`RowsFollow`, `ClientsPersist`), since fairness is beyond the prover used here.
Every invariant and every other action property of a passing run is a theorem.

## 7. What the results mean

The locked component (killswitch) is sound, and its one gap is a retry that the
comment promises and the loop does not make. The unlocked ones are sound as
long as requests do not overlap, and under overlap they keep identities and
credentials apart (row ids are never reused, entries are addressed by
identity) and converge on persistence; what they lose is atomicity: a delete can
be undone by its own Sync, entries can be doubled, and a check can be stale.
Inbound rows and persisted clients converge although two Syncs and the handlers
replace whole files from old copies, because every Sync starts from the files
again; a single file is replaced atomically only as long as its writers happen
to take turns.

## 8. Not modelled, and the plan

Left out, with the reason:

- rate limiter: library token buckets behind one mutex;
- subscription fetch metrics: they feed no decision;
- the error ring of the status page: numbers for display (`Inbounds` has the
  status that a Sync records, not the ring of earlier errors);
- configuration loading: its result is the constants;
- TLS, HTTP, graceful shutdown: I/O;
- transport fields of outbounds and the text of share links: data;
- `/hysteria/auth` and the Hysteria document: one look-up per request;
- fan-out of the killswitch's inbounds to several nodes, and a second inbound in
  `Nodes`;
- link indexes and single-link routes: they select among the same clients.

Not covered by a property: a credential that stays on a node when the server
dies inside `createUser`; a disabled client written back into `config.d` by a
Sync that listed it before; a client appended twice by overlapping Syncs. Rules
that overlapping route requests lose are the exception of `RulesKept`.

Next, in this order:

1. `Access` composed with `KillSwitch`: one flag for the gate and the inbounds.
2. The error ring.
