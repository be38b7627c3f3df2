----------------------------- MODULE KillSwitch -----------------------------
(***************************************************************************)
(* The global fallback killswitch (internal/api/fallback.go).              *)
(*                                                                         *)
(* The persisted flag is set by two admin handlers, enableFallback and     *)
(* disableFallback; both then walk the killswitch tags and add or remove   *)
(* each inbound of the running Xray over gRPC.  A background loop re-reads *)
(* the flag and removes the inbounds again while the switch is off.  All   *)
(* of them hold killSwitchMu from the flag access to the last RPC.  Xray   *)
(* may restart (reloading every inbound of config.d), its API may become   *)
(* unreachable, and the server may crash between any two steps.            *)
(*                                                                         *)
(* The module assumes xray_api_addr is set and KillSwitchTags() is not     *)
(* empty; otherwise the code returns before it touches the runtime.        *)
(***************************************************************************)
EXTENDS Naturals

CONSTANTS Tags,        \* KillSwitchTags()
          Rows,        \* the tags whose row of the inbounds table can be read
          Togglers,    \* concurrent requests to POST /api/fallback/{enable,disable}
          Loop,        \* the goroutine of ReconcileKillSwitchLoop (and its startup call)
          NoOne,       \* killSwitchMu is free
          MaxEvents    \* bound on Xray restarts, API outages and server crashes

ASSUME ProcAssumption == Loop \notin Togglers /\ NoOne \notin Togglers \cup {Loop}
ASSUME RowsAssumption == Rows \subseteq Tags
ASSUME BoundAssumption == MaxEvents \in Nat

VARIABLES
    flag,     \* app_settings.fallback_enabled (absent row = TRUE)
    live,     \* killswitch inbounds the running Xray listens on
    up,       \* the Xray API answers
    lock,     \* holder of killSwitchMu, or NoOne
    pc,       \* where each process stands
    target,   \* the state a toggle request asks for
    todo,     \* tags its apply loop has still to visit
    booted,   \* the startup reconcile is over: HTTP listener and loops run
    stale,    \* history: tags whose last RPC failed or that Xray reloaded since
    events    \* environment events so far

vars == <<flag, live, up, lock, pc, target, todo, booted, stale, events>>

Procs == Togglers \cup {Loop}

Init ==
    /\ flag = TRUE
    /\ live = Tags
    /\ up = TRUE
    /\ lock = NoOne
    /\ pc = [p \in Procs |-> IF p = Loop THEN "want" ELSE "idle"]
    /\ target = [p \in Procs |-> FALSE]
    /\ todo = [p \in Procs |-> {}]
    /\ booted = FALSE
    /\ stale = {}
    /\ events = 0

-----------------------------------------------------------------------------
(* The mutex.                                                              *)

(* killSwitchMu.Lock() left out.                                           *)
LockWithoutMutex(p) ==
    /\ pc[p] = "want"
    /\ lock' = p
    /\ pc' = [pc EXCEPT ![p] = IF p = Loop THEN "read" ELSE "set"]
    /\ UNCHANGED <<flag, live, up, target, todo, booted, stale, events>>

Lock(p) ==
    /\ pc[p] = "want"
    /\ lock = NoOne
    /\ lock' = p
    /\ pc' = [pc EXCEPT ![p] = IF p = Loop THEN "read" ELSE "set"]
    /\ UNCHANGED <<flag, live, up, target, todo, booted, stale, events>>

(* The process is done with its critical section.  The first reconcile is  *)
(* ReconcileKillSwitchOnStartup: only after it does main start the         *)
(* listener and the loops.                                                 *)
Leave(p) ==
    /\ lock' = NoOne
    /\ pc' = [pc EXCEPT ![p] = "idle"]
    /\ booted' = (booted \/ p = Loop)

-----------------------------------------------------------------------------
(* enableFallback and disableFallback.                                     *)

Request(p, b) ==
    /\ booted
    /\ pc[p] = "idle"
    /\ pc' = [pc EXCEPT ![p] = "want"]
    /\ target' = [target EXCEPT ![p] = b]
    /\ UNCHANGED <<flag, live, up, lock, todo, booted, stale, events>>

(* The handler unlocks between the flag and the walk over the tags.        *)
SetFallbackEnabledThenUnlock(p) ==
    /\ pc[p] = "set"
    /\ flag' = target[p]
    /\ pc' = [pc EXCEPT ![p] = "apply"]
    /\ todo' = [todo EXCEPT ![p] = Tags]
    /\ lock' = NoOne
    /\ UNCHANGED <<live, up, target, booted, stale, events>>

SetFallbackEnabled(p) ==
    /\ pc[p] = "set"
    /\ flag' = target[p]
    /\ pc' = [pc EXCEPT ![p] = "apply"]
    /\ todo' = [todo EXCEPT ![p] = Tags]
    /\ UNCHANGED <<live, up, lock, target, booted, stale, events>>

(* The UPDATE fails: 500, nothing is applied.                              *)
SetFallbackFailed(p) ==
    /\ pc[p] = "set"
    /\ Leave(p)
    /\ UNCHANGED <<flag, live, up, target, todo, stale, events>>

-----------------------------------------------------------------------------
(* reconcileKillSwitchLocked: nothing to do while the flag is on.          *)

Tick ==
    /\ booted
    /\ pc[Loop] = "idle"
    /\ pc' = [pc EXCEPT ![Loop] = "want"]
    /\ UNCHANGED <<flag, live, up, lock, target, todo, booted, stale, events>>

(* The loop trusts the runtime and never re-applies an off switch.         *)
ReadFlagNoReapply ==
    /\ pc[Loop] = "read"
    /\ Leave(Loop)
    /\ UNCHANGED <<flag, live, up, target, todo, stale, events>>

ReadFlag ==
    /\ pc[Loop] = "read"
    /\ \/ /\ flag
          /\ Leave(Loop)
          /\ UNCHANGED <<target, todo>>
       \/ /\ ~flag
          /\ pc' = [pc EXCEPT ![Loop] = "apply"]
          /\ target' = [target EXCEPT ![Loop] = FALSE]
          /\ todo' = [todo EXCEPT ![Loop] = Tags]
          /\ UNCHANGED <<lock, booted>>
    /\ UNCHANGED <<flag, live, up, stale, events>>

ReadFlagFailed ==
    /\ pc[Loop] = "read"
    /\ Leave(Loop)
    /\ UNCHANGED <<flag, live, up, target, todo, stale, events>>

-----------------------------------------------------------------------------
(* applyKillSwitchInboundsLocked: one tag per step.                        *)

(* Where an AddInbound or RemoveInbound RPC for t leaves the runtime; both *)
(* are no-ops, reported as benign, when t is already there (external).     *)
Applied(p, t) == IF target[p] THEN live \cup {t} ELSE live \ {t}

ApplyTag(p, t) ==
    /\ pc[p] = "apply"
    /\ t \in todo[p]
    /\ target[p] => t \in Rows
    /\ up
    /\ live' = Applied(p, t)
    /\ stale' = stale \ {t}
    /\ todo' = [todo EXCEPT ![p] = @ \ {t}]
    /\ UNCHANGED <<flag, up, lock, pc, target, booted, events>>

(* An error is logged and the loop goes on: the API is unreachable (the    *)
(* request may still have taken effect), or enable finds no inbound row.   *)
ApplyTagFailed(p, t) ==
    /\ pc[p] = "apply"
    /\ t \in todo[p]
    /\ \/ ~up /\ (target[p] => t \in Rows) /\ live' \in {live, Applied(p, t)}
       \/ target[p] /\ t \notin Rows /\ UNCHANGED live
    /\ stale' = stale \cup {t}
    /\ todo' = [todo EXCEPT ![p] = @ \ {t}]
    /\ UNCHANGED <<flag, up, lock, pc, target, booted, events>>

Unlock(p) ==
    /\ pc[p] = "apply"
    /\ todo[p] = {}
    /\ Leave(p)
    /\ UNCHANGED <<flag, live, up, target, todo, stale, events>>

-----------------------------------------------------------------------------
(* The environment.                                                        *)

Happens == events < MaxEvents /\ events' = events + 1

(* Xray restarts and loads the fallback inbounds from config.d.            *)
XrayRestart ==
    /\ Happens
    /\ live' = Tags
    /\ stale' = Tags
    /\ UNCHANGED <<flag, up, lock, pc, target, todo, booted>>

ApiDown ==
    /\ Happens
    /\ up
    /\ up' = FALSE
    /\ UNCHANGED <<flag, live, lock, pc, target, todo, booted, stale>>

ApiUp ==
    /\ ~up
    /\ up' = TRUE
    /\ UNCHANGED <<flag, live, lock, pc, target, todo, booted, stale, events>>

(* The server dies and main runs again: the mutex and the requests are     *)
(* gone, the flag is in the database, and startup reconciles first.        *)
Crash ==
    /\ Happens
    /\ lock' = NoOne
    /\ pc' = [p \in Procs |-> IF p = Loop THEN "want" ELSE "idle"]
    /\ todo' = [p \in Procs |-> {}]
    /\ booted' = FALSE
    /\ stale' = stale \cup {t \in Tags : \E p \in Procs : t \in todo[p]}
    /\ UNCHANGED <<flag, live, up, target>>

-----------------------------------------------------------------------------
Toggler(p) ==
    \/ \E b \in BOOLEAN : Request(p, b)
    \/ SetFallbackEnabled(p)
    \/ SetFallbackFailed(p)

Critical(p) ==
    \/ Lock(p)
    \/ \E t \in Tags : ApplyTag(p, t) \/ ApplyTagFailed(p, t)
    \/ Unlock(p)

Next ==
    \/ \E p \in Togglers : Toggler(p)
    \/ \E p \in Procs : Critical(p)
    \/ Tick \/ ReadFlag \/ ReadFlagFailed
    \/ XrayRestart \/ ApiDown \/ ApiUp \/ Crash

Spec == Init /\ [][Next]_vars

(* The ticker keeps firing, a goroutine that holds the mutex keeps going,  *)
(* Go's mutex does not starve a waiter, and reads of the flag do not fail  *)
(* for ever.  Nobody has to send a request, and the API need not come back.*)
Fairness ==
    /\ WF_vars(Tick)
    /\ SF_vars(ReadFlag)
    /\ \A p \in Procs :
         /\ SF_vars(Lock(p))
         /\ WF_vars(\E t \in Tags : ApplyTag(p, t) \/ ApplyTagFailed(p, t))
         /\ WF_vars(Unlock(p))
    /\ \A p \in Togglers : WF_vars(SetFallbackEnabled(p) \/ SetFallbackFailed(p))

FairSpec == Spec /\ Fairness

-----------------------------------------------------------------------------
(* Properties.                                                             *)

(* Every variable keeps its type; in particular only the loop reads, only  *)
(* a toggle handler sets the flag, and todo holds killswitch tags.         *)
TypeOK ==
    /\ flag \in BOOLEAN
    /\ live \subseteq Tags
    /\ up \in BOOLEAN
    /\ lock \in Procs \cup {NoOne}
    /\ pc \in [Procs -> {"idle", "want", "set", "read", "apply"}]
    /\ \A p \in Togglers : pc[p] # "read"
    /\ pc[Loop] # "set"
    /\ target \in [Procs -> BOOLEAN]
    /\ todo \in [Procs -> SUBSET Tags]
    /\ booted \in BOOLEAN
    /\ stale \subseteq Tags
    /\ events \in Nat

(* A process is inside its critical section exactly while it holds         *)
(* killSwitchMu.                                                           *)
MutexInv == \A p \in Procs : pc[p] \in {"set", "read", "apply"} <=> lock = p

(* The walk over the tags works towards the flag as persisted now: nobody  *)
(* can flip it between SetFallbackEnabled (or the read) and the last RPC.  *)
TargetInv == \A p \in Procs :
    /\ pc[p] = "apply" => target[p] = flag
    /\ pc[p] # "apply" => todo[p] = {}

(* Outside the tags a walk still has to visit and those the environment    *)
(* disturbed, the runtime agrees with the flag.                            *)
AgreeInv == \A t \in Tags :
    (t \notin stale /\ \A p \in Procs : t \notin todo[p]) => (t \in live <=> flag)

(* The inductive invariant of the killswitch.                              *)
IInv == TypeOK /\ MutexInv /\ TargetInv /\ AgreeInv

(* Whenever killSwitchMu is free, an inbound whose last RPC went through   *)
(* and that Xray has not reloaded since listens exactly if the persisted   *)
(* flag is on, whatever toggles, ticks and crashes were interleaved.       *)
SwitchApplied ==
    lock = NoOne => \A t \in Tags \ stale : t \in live <=> flag

(* The killswitch implements the abstract switch: apart from Xray's own    *)
(* restarts an inbound is added only while the flag is on and removed only *)
(* while it is off, so no listener is torn down behind an enabled flag.    *)
Switch == INSTANCE FallbackSwitch WITH Tags <- Tags, flag <- flag, live <- live
ImplementsSwitch == Switch!Spec

(* If the switch stays off and the API stays reachable, the fallback       *)
(* inbounds end up torn down for good, also when an Xray restart or an API *)
(* outage brought them back after disableFallback had answered.            *)
OffTearsDown == <>[](~flag /\ up) => <>[](live = {})

(* What the comment of applyKillSwitchInboundsLocked says of a failed RPC: *)
(* the drift "will reconcile on next toggle, periodic loop tick, or        *)
(* process restart".  For enable: with the flag on and the API reachable   *)
(* for good, the inbounds come back.                                       *)
OnBringsUp == <>[](flag /\ up) => <>[](live = Tags)
=============================================================================
