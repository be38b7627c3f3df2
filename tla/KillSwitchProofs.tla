-------------------------- MODULE KillSwitchProofs --------------------------
(***************************************************************************)
(* The killswitch keeps its inductive invariant, and therefore applies the *)
(* flag and implements the abstract switch, for any set of tags, any       *)
(* number of concurrent toggle requests and any number of faults.          *)
(***************************************************************************)
EXTENDS KillSwitch, TLAPS

(* Leaving the critical section keeps the control part of the types.       *)
LEMMA LeaveTypes ==
    ASSUME TypeOK, NEW p \in Procs, Leave(p)
    PROVE  /\ lock' = NoOne
           /\ pc' \in [Procs -> {"idle", "want", "set", "read", "apply"}]
           /\ \A q \in Procs : pc'[q] = IF q = p THEN "idle" ELSE pc[q]
           /\ booted' \in BOOLEAN
BY DEF TypeOK, Leave

(* Every initial state of the server satisfies the invariant.              *)
LEMMA InitIInv == Init => IInv
<1> SUFFICES ASSUME Init PROVE IInv
  OBVIOUS
<1>1. flag \in BOOLEAN /\ up \in BOOLEAN /\ booted \in BOOLEAN /\ flag
  BY Zenon DEF Init
<1>2. TypeOK
  BY <1>1, ProcAssumption DEF Init, TypeOK, Procs
<1>3. MutexInv /\ TargetInv
  BY ProcAssumption DEF Init, MutexInv, TargetInv, Procs
<1>4. AgreeInv
  BY <1>1 DEF Init, AgreeInv
<1> QED BY <1>2, <1>3, <1>4 DEF IInv

(* Every step of a handler, of the loop or of the environment keeps types. *)
LEMMA NextTypeOK == TypeOK /\ [Next]_vars => TypeOK'
<1> SUFFICES ASSUME TypeOK, [Next]_vars PROVE TypeOK'
  OBVIOUS
<1> USE ProcAssumption, BoundAssumption DEF TypeOK, Procs
<1>1. ASSUME NEW p \in Togglers, Toggler(p) PROVE TypeOK'
  <2>1. ASSUME NEW b \in BOOLEAN, Request(p, b) PROVE TypeOK'
    BY <2>1 DEF Request
  <2>2. CASE SetFallbackEnabled(p)
    BY <2>2 DEF SetFallbackEnabled
  <2>3. CASE SetFallbackFailed(p)
    BY <2>3, LeaveTypes DEF SetFallbackFailed
  <2> QED BY <1>1, <2>1, <2>2, <2>3 DEF Toggler
<1>2. ASSUME NEW p \in Procs, Critical(p) PROVE TypeOK'
  <2>1. CASE Lock(p)
    BY <2>1 DEF Lock
  <2>2. ASSUME NEW t \in Tags, ApplyTag(p, t) PROVE TypeOK'
    BY <2>2 DEF ApplyTag, Applied
  <2>3. ASSUME NEW t \in Tags, ApplyTagFailed(p, t) PROVE TypeOK'
    BY <2>3 DEF ApplyTagFailed, Applied
  <2>4. CASE Unlock(p)
    BY <2>4, LeaveTypes DEF Unlock
  <2> QED BY <1>2, <2>1, <2>2, <2>3, <2>4 DEF Critical
<1>3. CASE Tick
  BY <1>3 DEF Tick
<1>4. CASE ReadFlag
  BY <1>4, LeaveTypes, ZenonT(60) DEF ReadFlag
<1>5. CASE ReadFlagFailed
  BY <1>5, LeaveTypes DEF ReadFlagFailed
<1>6. CASE XrayRestart
  BY <1>6 DEF XrayRestart, Happens
<1>7. CASE ApiDown
  <2>1. up' \in BOOLEAN
    BY <1>7, Zenon DEF ApiDown
  <2>2. events' \in Nat /\ UNCHANGED <<flag, live, lock, pc, target, todo, booted, stale>>
    BY <1>7 DEF ApiDown, Happens
  <2> QED BY <2>1, <2>2
<1>8. CASE ApiUp
  BY <1>8 DEF ApiUp
<1>9. CASE Crash
  <2>1. booted' \in BOOLEAN
    BY <1>9, Zenon DEF Crash
  <2>2. events' \in Nat /\ stale' \subseteq Tags /\ UNCHANGED <<flag, live, up, target>>
    BY <1>9 DEF Crash, Happens
  <2>3. /\ lock' \in Procs \cup {NoOne}
        /\ pc' \in [Procs -> {"idle", "want", "set", "read", "apply"}]
        /\ \A p \in Togglers : pc'[p] # "read"
        /\ pc'[Loop] # "set"
        /\ todo' \in [Procs -> SUBSET Tags]
    BY <1>9 DEF Crash
  <2> QED BY <2>1, <2>2, <2>3
<1>10. CASE UNCHANGED vars
  BY <1>10 DEF vars
<1> QED BY <1>1, <1>2, <1>3, <1>4, <1>5, <1>6, <1>7, <1>8, <1>9, <1>10 DEF Next

(* Every step keeps mutual exclusion, the target of a running walk and the *)
(* agreement of the runtime with the flag.                                 *)
LEMMA NextIInv == IInv /\ [Next]_vars => IInv'
<1> SUFFICES ASSUME IInv, [Next]_vars PROVE IInv'
  OBVIOUS
<1>t. TypeOK /\ TypeOK'
  BY NextTypeOK DEF IInv
<1> SUFFICES MutexInv' /\ TargetInv' /\ AgreeInv'
  BY <1>t DEF IInv
<1> USE ProcAssumption, <1>t DEF IInv, MutexInv, TargetInv, AgreeInv, TypeOK
<1>1. ASSUME NEW p \in Togglers, Toggler(p) PROVE MutexInv' /\ TargetInv' /\ AgreeInv'
  <2>0. p \in Procs /\ p # Loop
    BY DEF Procs
  <2>1. ASSUME NEW b \in BOOLEAN, Request(p, b) PROVE MutexInv' /\ TargetInv' /\ AgreeInv'
    BY <2>0, <2>1 DEF Request
  <2>2. CASE SetFallbackEnabled(p)
    BY <2>0, <2>2 DEF SetFallbackEnabled
  <2>3. CASE SetFallbackFailed(p)
    BY <2>0, <2>3, LeaveTypes DEF SetFallbackFailed, Procs
  <2> QED BY <1>1, <2>1, <2>2, <2>3 DEF Toggler
<1>2. ASSUME NEW p \in Procs, Critical(p) PROVE MutexInv' /\ TargetInv' /\ AgreeInv'
  <2>1. CASE Lock(p)
    BY <2>1 DEF Lock, Procs
  <2>2. ASSUME NEW t \in Tags, ApplyTag(p, t) PROVE MutexInv' /\ TargetInv' /\ AgreeInv'
    BY <2>2 DEF ApplyTag, Applied
  <2>3. ASSUME NEW t \in Tags, ApplyTagFailed(p, t) PROVE MutexInv' /\ TargetInv' /\ AgreeInv'
    BY <2>3 DEF ApplyTagFailed, Applied
  <2>4. CASE Unlock(p)
    BY <2>4, LeaveTypes DEF Unlock, Procs
  <2> QED BY <1>2, <2>1, <2>2, <2>3, <2>4 DEF Critical
<1>3. CASE Tick
  BY <1>3 DEF Tick, Procs
<1>4. CASE ReadFlag
  BY <1>4, LeaveTypes DEF ReadFlag, Procs
<1>5. CASE ReadFlagFailed
  BY <1>5, LeaveTypes DEF ReadFlagFailed, Procs
<1>6. CASE XrayRestart
  BY <1>6 DEF XrayRestart
<1>7. CASE ApiDown
  BY <1>7 DEF ApiDown
<1>8. CASE ApiUp
  BY <1>8 DEF ApiUp
<1>9. CASE Crash
  BY <1>9 DEF Crash, Procs
<1>10. CASE UNCHANGED vars
  BY <1>10 DEF vars
<1> QED BY <1>1, <1>2, <1>3, <1>4, <1>5, <1>6, <1>7, <1>8, <1>9, <1>10 DEF Next

(* Mutual exclusion, the target of a walk and the agreement of runtime and *)
(* flag hold in every state of fallback.go's killswitch.                   *)
THEOREM KillSwitchInvariant == Spec => []IInv
BY InitIInv, NextIInv, PTL DEF Spec

(* With killSwitchMu free, every tag whose last RPC went through listens   *)
(* exactly if the persisted flag is on.                                    *)
THEOREM KillSwitchApplied == Spec => []SwitchApplied
<1>1. IInv => SwitchApplied
  <2> SUFFICES ASSUME IInv, lock = NoOne, NEW t \in Tags \ stale PROVE t \in live <=> flag
    BY DEF SwitchApplied
  <2>1. \A p \in Procs : todo[p] = {}
    BY ProcAssumption DEF IInv, MutexInv, TargetInv, Procs
  <2> QED BY <2>1 DEF IInv, AgreeInv
<1> QED BY <1>1, KillSwitchInvariant, PTL

(* Handlers, loop, crashes and outages together only ever do what the      *)
(* abstract switch allows: listeners move towards the persisted flag.      *)
THEOREM KillSwitchRefines == Spec => ImplementsSwitch
<1>1. Init => Switch!Init
  BY DEF Init, Switch!Init
<1>2. IInv /\ [Next]_vars => [Switch!Next]_(Switch!vars)
  <2> SUFFICES ASSUME IInv, [Next]_vars PROVE [Switch!Next]_(Switch!vars)
    OBVIOUS
  <2> USE DEF IInv, TypeOK, TargetInv, Switch!Next, Switch!vars
  <2>1. ASSUME NEW p \in Togglers, Toggler(p) PROVE [Switch!Next]_(Switch!vars)
    BY <2>1 DEF Toggler, Request, SetFallbackEnabled, SetFallbackFailed, Procs, Switch!Flip
  <2>2. ASSUME NEW p \in Procs, Critical(p) PROVE [Switch!Next]_(Switch!vars)
    BY <2>2 DEF Critical, Lock, ApplyTag, ApplyTagFailed, Applied, Unlock, Switch!Settle
  <2>3. CASE XrayRestart
    BY <2>3 DEF XrayRestart, Switch!Reload
  <2>4. CASE Tick \/ ReadFlag \/ ReadFlagFailed \/ ApiDown \/ ApiUp \/ Crash
    BY <2>4 DEF Tick, ReadFlag, ReadFlagFailed, ApiDown, ApiUp, Crash
  <2>5. CASE UNCHANGED vars
    BY <2>5 DEF vars
  <2> QED BY <2>1, <2>2, <2>3, <2>4, <2>5 DEF Next
<1> QED BY <1>1, <1>2, KillSwitchInvariant, PTL DEF Spec, ImplementsSwitch, Switch!Spec
=============================================================================
