--------------------------- MODULE FallbackSwitch ---------------------------
(***************************************************************************)
(* What the fallback killswitch promises, without its mutex, its handlers  *)
(* and its reconcile loop: a persisted flag, and a set of listening        *)
(* fallback inbounds that only ever moves towards the flag, one inbound at *)
(* a time, unless Xray itself restarts and reloads config.d.               *)
(***************************************************************************)
CONSTANT Tags     \* the killswitch-controlled inbound tags

VARIABLES flag,   \* app_settings.fallback_enabled
          live    \* inbounds the running Xray listens on

vars == <<flag, live>>

Init == flag = TRUE /\ live = Tags

(* An operator turns the switch; no listener moves in that step.           *)
Flip == flag' \in BOOLEAN /\ UNCHANGED live

(* One inbound is brought to where the flag wants it.                      *)
Settle(t) ==
    /\ live' = IF flag THEN live \cup {t} ELSE live \ {t}
    /\ UNCHANGED flag

(* Xray restarts and loads every inbound of config.d.                      *)
Reload == live' = Tags /\ UNCHANGED flag

Next == Flip \/ Reload \/ \E t \in Tags : Settle(t)

Spec == Init /\ [][Next]_vars
=============================================================================
