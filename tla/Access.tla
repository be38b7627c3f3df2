------------------------------- MODULE Access -------------------------------
(***************************************************************************)
(* Who is let in to a subscription: the primary token, the fallback token  *)
(* with its switch (withFallbackAuth), and the per-user Hysteria2 reserve  *)
(* that rides in the link lists, while admins rotate tokens and turn these *)
(* switches.  The requests of Subscription begin behind this gate.         *)
(*                                                                         *)
(* A token is the number of times it has been issued; a request presents   *)
(* one that was issued before.  The gate and the handler behind it read    *)
(* the account in statements of their own.                                 *)
(***************************************************************************)
EXTENDS Subscription

CONSTANT MaxTokens              \* bound: tokens issued of each kind

ASSUME MaxTokensAssumption == MaxTokens \in Nat \ {0}

VARIABLES
    token, ftoken,  \* users.token, users.fallback_token
    flag,           \* app_settings.fallback_enabled
    hy2,            \* users.hy2_enabled
    g,              \* the gate of each request
    seen            \* history: what was granted since each request began

accountVars == <<token, ftoken, flag, hy2>>
accessVars == <<allVars, accountVars, g, seen>>

(* key is the primary token the handler behind the gate looks up.          *)
NoGate == [pc |-> "idle", fallback |-> FALSE, shown |-> 0, key |-> 0, uri |-> FALSE]
NoneSeen == [token |-> FALSE, flag |-> FALSE, hy2 |-> FALSE]

-----------------------------------------------------------------------------
(* The gate.                                                               *)

Pass(s, gate) == g' = [g EXCEPT ![s] = gate]
Refuse(s) == Pass(s, NoGate)

(* A request arrives at /sub/{token} or at /sub/fallback/{token}.          *)
Knock(s, fallback, t) ==
    /\ g[s].pc = "idle"
    /\ Pass(s, [NoGate EXCEPT !.pc = IF fallback THEN "flag" ELSE "user",
                              !.fallback = fallback, !.shown = t, !.key = t])
    /\ UNCHANGED <<allVars, accountVars>>

(* The gate lets every holder of a fallback token through.                 *)
GateOpen(s) ==
    /\ g[s].pc = "flag"
    /\ Pass(s, [g[s] EXCEPT !.pc = "fallback"])
    /\ UNCHANGED <<allVars, accountVars>>

(* GetFallbackEnabled: 403 when the switch is off, 500 on an error.        *)
GateFlag(s) ==
    /\ g[s].pc = "flag"
    /\ \/ flag /\ Pass(s, [g[s] EXCEPT !.pc = "fallback"])
       \/ (Faults \/ ~flag) /\ Refuse(s)
    /\ UNCHANGED <<allVars, accountVars>>

(* GetUserByFallbackToken: the handler goes on with the primary token of   *)
(* the row.                                                                *)
GateToken(s) ==
    /\ g[s].pc = "fallback"
    /\ LET found == g[s].shown = ftoken /\ enabled
       IN  \/ found /\ Pass(s, [g[s] EXCEPT !.pc = "user", !.key = token])
           \/ (Faults \/ ~found) /\ Refuse(s)
    /\ UNCHANGED <<allVars, accountVars>>

(* GetUserByToken, by the handler: 404 for a token that is not current,    *)
(* 403 for a disabled account.                                             *)
LookUp(s) ==
    /\ g[s].pc = "user"
    /\ \/ /\ g[s].key = token
          /\ \E path \in Paths, filter \in Filters : Ask(s, path, g[s].fallback, filter)
          /\ Pass(s, [g[s] EXCEPT !.pc = "in"])
       \/ /\ Faults \/ g[s].key # token \/ ~enabled
          /\ Refuse(s)
          /\ UNCHANGED allVars
    /\ UNCHANGED accountVars

(* The handler's own reads; a refusal there ends the request.              *)
Inside(s) ==
    /\ g[s].pc = "in"
    /\ ReadClients(s) \/ ReadActive(s) \/ ReadProfileId(s) \/ ReadProfile(s)
    /\ IF r'[s].pc = "idle" THEN Refuse(s) ELSE UNCHANGED g
    /\ UNCHANGED accountVars

(* hysteriaMainSubExtra reads the account again, by the token, before the  *)
(* URI goes into a link list; JSON has no place for it.                    *)
Append(s) ==
    /\ g[s].pc = "in" /\ Served(s)
    /\ LET reserve == g[s].key = token /\ enabled /\ hy2
       IN  \/ reserve /\ Pass(s, [g[s] EXCEPT !.pc = "out", !.uri = TRUE])
           \/ Pass(s, [g[s] EXCEPT !.pc = "out"])
    /\ UNCHANGED <<allVars, accountVars>>

Leave(s) ==
    /\ g[s].pc = "out"
    /\ Close(s)
    /\ Refuse(s)
    /\ UNCHANGED accountVars

Visitor(s) ==
    \/ \E t \in 1..token : Knock(s, FALSE, t)
    \/ \E t \in 1..ftoken : Knock(s, TRUE, t)
    \/ GateFlag(s) \/ GateToken(s) \/ LookUp(s) \/ Inside(s) \/ Append(s) \/ Leave(s)

-----------------------------------------------------------------------------
(* The admin's side.                                                       *)

RegenerateToken ==
    /\ token < MaxTokens
    /\ token' = token + 1
    /\ UNCHANGED <<allVars, ftoken, flag, hy2, g>>

RegenerateFallbackToken ==
    /\ ftoken < MaxTokens
    /\ ftoken' = ftoken + 1
    /\ UNCHANGED <<allVars, token, flag, hy2, g>>

(* enableFallback, disableFallback: the flag, as the gate reads it.        *)
SetFallbackEnabled ==
    /\ flag' = ~flag
    /\ UNCHANGED <<allVars, token, ftoken, hy2, g>>

SetUserHy2 ==
    /\ hy2' = ~hy2
    /\ UNCHANGED <<allVars, token, ftoken, flag, g>>

(* The steps of Subscription's admins, and a crash of the server.          *)
Behind ==
    /\ \/ EmergencyStep \/ SetUserEnabled \/ \E t \in Switched : SetUserClientEnabled(t)
    /\ UNCHANGED <<accountVars, g>>

Restart ==
    /\ ServerCrash
    /\ g' = [s \in Readers |-> NoGate]
    /\ UNCHANGED accountVars

-----------------------------------------------------------------------------
(* History: was the token shown ever current, with the account enabled,    *)
(* since the request began; was the switch ever on; was the reserve ever   *)
(* granted.                                                                *)
Granted(s) ==
    [token |-> enabled /\ g[s].shown = IF g[s].fallback THEN ftoken ELSE token,
     flag |-> flag,
     hy2 |-> enabled /\ hy2]

Record ==
    seen' = [s \in Readers |-> IF g'[s].pc = "idle" THEN NoneSeen ELSE
               [token |-> seen[s].token \/ Granted(s)'.token,
                flag |-> seen[s].flag \/ Granted(s)'.flag,
                hy2 |-> seen[s].hy2 \/ Granted(s)'.hy2]]

AccessInit ==
    /\ SubInit
    /\ token = 1 /\ ftoken = 1
    /\ flag = TRUE
    /\ hy2 = TRUE
    /\ g = [s \in Readers |-> NoGate]
    /\ seen = [s \in Readers |-> NoneSeen]

AccessNext ==
    /\ \/ RegenerateToken \/ RegenerateFallbackToken \/ SetFallbackEnabled \/ SetUserHy2
       \/ Behind \/ Restart
       \/ \E s \in Readers : Visitor(s)
    /\ Record

AccessSpec == AccessInit /\ [][AccessNext]_accessVars

-----------------------------------------------------------------------------
(* Properties.                                                             *)

(* What an admin took away before a request began, it does not get: what   *)
(* is served was asked for with a token that was current, for an enabled   *)
(* account, at some moment of the request; through the fallback, the       *)
(* switch was on at some moment of it; and a Hysteria2 URI goes only to a  *)
(* user whose reserve was on.  The gate and the handler behind it check    *)
(* these in four statements.                                               *)
RevokedNotServed ==
    \A s \in Readers : Served(s) =>
      /\ seen[s].token
      /\ g[s].fallback => seen[s].flag
      /\ g[s].uri => seen[s].hy2
=============================================================================
