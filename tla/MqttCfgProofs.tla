---------------------------- MODULE MqttCfgProofs ----------------------------
(***************************************************************************)
(* The safety of the verified connect for every number of generations and  *)
(* every timeout: types, the connect gate against the barrier, and the     *)
(* values behind a release.                                                *)
(*                                                                         *)
(* GateClosedIsDark is not inductive: while a call or a callback is under  *)
(* way the gate may be closed and the lamp still enabled.  Gate names      *)
(* exactly who then owes the fail-off, and Locked says that the answer of  *)
(* the re-check cannot go stale before the release, which is what the      *)
(* failure callback's use of the module lock is for.  Consumed ties what   *)
(* the running client has read to the configuration as it is now, and      *)
(* Counted says where generation 0 can still be the current one.           *)
(***************************************************************************)
EXTENDS MqttCfg, TLAPS

\* A closed gate with an enabled lamp: some step under way still owes the fail-off.
Gate ==
  ~verified /\ ~barrier =>
    pc \in {"darken", "stop", "set", "refuse"} \/ cb = "darken"

\* The lock keeps the latch as the re-check found it.
Locked == pc = "decide" /\ seen.usable => verified

\* While the configuration matches, a running client holds no value that differs
\* from it other than one that was put back since.
Consumed == transport \in {"connecting", "connected"} /\ matches => read # "mutated"

\* What is being replaced is used by nobody.
Replaced == pc = "set" => transport = "stopped"

\* The poll loop has not accepted a session with other values.
Accepted == pc = "decide" /\ seen.connected /\ seen.usable => seen.read # "mutated"

\* Once a document was applied the current generation is not 0.
Counted ==
  /\ apply_gen = 0 => ~verified /\ ~waiting /\ pc \in {"idle", "refuse"} /\ cb # "load"
  /\ cb = "publish" => loaded # 0

Safe == Gate /\ Locked /\ Consumed /\ Replaced /\ Accepted /\ Counted

IInv == TypeOK /\ Safe
-----------------------------------------------------------------------------
(***************************************************************************)
(* The next generation, as mqtt_cfg_apply() computes it, is in range and   *)
(* never 0.                                                                *)
(***************************************************************************)
LEMMA NextGeneration ==
  ASSUME NEW g \in 0..MaxGen
  PROVE  (g % MaxGen) + 1 \in 0..MaxGen /\ (g % MaxGen) + 1 # 0
  BY GenAssumption

(***************************************************************************)
(* The poll loop starts each round from an empty view.                     *)
(***************************************************************************)
LEMMA NothingIsView == Nothing \in View
  BY DEF Nothing, View

(***************************************************************************)
(* The application starts in a state of the invariant.                     *)
(***************************************************************************)
LEMMA InitSafe == Init => IInv
<1> SUFFICES ASSUME Init PROVE IInv
  OBVIOUS
<1>1. TypeOK
  <2>1. seen \in View
    BY NothingIsView DEF Init
  <2>2. 0 \in 0..MaxGen /\ 0 \in 0..MaxPolls
    BY GenAssumption, PollsAssumption
  <2> QED
    BY <2>1, <2>2 DEF Init, TypeOK, Results, Reasons
<1>2. Safe
  BY DEF Init, Safe, Gate, Locked, Consumed, Replaced, Accepted, Counted, matches
<1> QED
  BY <1>1, <1>2 DEF IInv
-----------------------------------------------------------------------------
(***************************************************************************)
(* Every step of both threads, of the client and of the other users of     *)
(* mqtt_config preserves the types.                                        *)
(***************************************************************************)
LEMMA TypeStep == TypeOK /\ [Next]_vars /\ Counted' => TypeOK'
<1> SUFFICES ASSUME TypeOK, [Next]_vars, Counted' PROVE TypeOK'
  OBVIOUS
<1> USE DEF latch, flags, client, task, thread
<1>0. /\ 0 \in 0..MaxGen /\ 0 \in 0..MaxPolls
      /\ (pc \in {"start", "poll", "check", "decide"} => apply_gen # 0)'
      /\ (cb = "publish" => loaded # 0)'
  BY GenAssumption, PollsAssumption DEF Counted
<1>1. CASE mqtt_cfg_load_fails
  BY <1>1, <1>0 DEF mqtt_cfg_load_fails, TypeOK, Results, Return
<1>2. CASE mqtt_cfg_apply
  BY <1>2, <1>0, NextGeneration DEF mqtt_cfg_apply, TypeOK
<1>3. CASE \E polls \in 0..MaxPolls : mqtt_cfg_connect(polls)
  BY <1>3, <1>0 DEF mqtt_cfg_connect, TypeOK
<1>4. CASE ApplyDarkens
  BY <1>4, <1>0 DEF ApplyDarkens, TypeOK
<1>5. CASE ApplyStops
  BY <1>5, <1>0 DEF ApplyStops, TypeOK, mqtt_app_deinit
<1>6. CASE ApplyRejected
  BY <1>6, <1>0, ZenonT(60) DEF ApplyRejected, TypeOK, Results, Return
<1>7. CASE ApplyAccepted
  BY <1>7, <1>0 DEF ApplyAccepted, TypeOK, Results, Return
<1>8. CASE ConnectStarts
  BY <1>8, <1>0 DEF ConnectStarts, TypeOK, Values
<1>9. CASE PollReads
  <2>1. seen' \in View
    BY <1>9, NothingIsView DEF PollReads, TypeOK, View, Nothing
  <2> QED
    BY <1>9, <1>0, <2>1 DEF PollReads, TypeOK
<1>10. CASE PollChecks
  <2>1. seen' \in View
    BY <1>10 DEF PollChecks, TypeOK, View
  <2> QED
    BY <1>10, <1>0, <2>1 DEF PollChecks, TypeOK
<1>11. CASE ConnectSucceeds
  BY <1>11, <1>0, NothingIsView, ZenonT(60) DEF ConnectSucceeds, TypeOK, Results, Return
<1>12. CASE ConnectMutated
  BY <1>12, <1>0, NothingIsView, ZenonT(60) DEF ConnectMutated, TypeOK
<1>13. CASE ConnectFailed
  BY <1>13, <1>0, NothingIsView DEF ConnectFailed, TypeOK, Results, Return
<1>14. CASE ConnectTimesOut
  BY <1>14, <1>0, NothingIsView, ZenonT(60) DEF ConnectTimesOut, TypeOK, Results, Return
<1>15. CASE ConnectWaits
  <2>1. remaining' \in 0..MaxPolls
    BY <1>15, PollsAssumption DEF ConnectWaits, TypeOK
  <2> QED
    BY <1>15, <1>0, <2>1, NothingIsView DEF ConnectWaits, TypeOK
<1>16. CASE ConnectRefused
  BY <1>16, <1>0 DEF ConnectRefused, TypeOK, Results, mqtt_app_deinit, Return
<1>17. CASE mqtt_cfg_on_connect
  BY <1>17, <1>0 DEF mqtt_cfg_on_connect, TypeOK
<1>18. CASE OnConnectLoads
  BY <1>18, <1>0 DEF OnConnectLoads, TypeOK
<1>19. CASE OnConnectPublishes
  BY <1>19, <1>0 DEF OnConnectPublishes, TypeOK
<1>20. CASE mqtt_cfg_on_disconnect
  BY <1>20, <1>0, ZenonT(60) DEF mqtt_cfg_on_disconnect, TypeOK
<1>21. CASE mqtt_cfg_on_connect_failure
  BY <1>21, <1>0, ZenonT(60) DEF mqtt_cfg_on_connect_failure, TypeOK
<1>22. CASE OnFailureReason
  BY <1>22, <1>0 DEF OnFailureReason, TypeOK
<1>23. CASE OnFailureClosesGate
  BY <1>23, <1>0, ZenonT(60) DEF OnFailureClosesGate, TypeOK
<1>24. CASE CallbackDarkens
  BY <1>24, <1>0 DEF CallbackDarkens, TypeOK
<1>25. CASE Connects
  BY <1>25, <1>0 DEF Connects, TypeOK
<1>26. CASE Drops
  BY <1>26, <1>0 DEF Drops, TypeOK, Values
<1>27. CASE Mutates
  BY <1>27, <1>0 DEF Mutates, TypeOK
<1>28. CASE \E why \in Reasons : Fails(why)
  BY <1>28, <1>0 DEF Fails, TypeOK, Reasons
<1>29. CASE UNCHANGED vars
  BY <1>29, <1>0 DEF TypeOK, vars
<1>30. CASE ClientReads
  BY <1>30, <1>0 DEF ClientReads, Values, TypeOK
<1>31. CASE Restores
  BY <1>31, <1>0 DEF Restores, TypeOK
<1> QED
  BY <1>1, <1>2, <1>3, <1>4, <1>5, <1>6, <1>7, <1>8, <1>9, <1>10, <1>11, <1>12,
     <1>13, <1>14, <1>15, <1>16, <1>17, <1>18, <1>19, <1>20, <1>21, <1>22, <1>23,
     <1>24, <1>25, <1>26, <1>27, <1>28, <1>29, <1>30, <1>31
     DEF Next, Calls, Task, Callbacks, Environment

(***************************************************************************)
(* Every step preserves what the gate, the lock, the client's values and   *)
(* the accepted session owe each other.                                    *)
(***************************************************************************)
LEMMA SafeStep == IInv /\ [Next]_vars => Safe'
<1> SUFFICES ASSUME TypeOK, Safe, [Next]_vars PROVE Safe'
  BY DEF IInv
<1> USE DEF latch, flags, client, task, thread, Safe, Gate, Locked, Consumed, Replaced,
            Accepted, Counted, matches, TypeOK
<1>1. CASE mqtt_cfg_load_fails
  BY <1>1 DEF mqtt_cfg_load_fails, Return
<1>2. CASE mqtt_cfg_apply
  BY <1>2, NextGeneration DEF mqtt_cfg_apply
<1>3. CASE \E polls \in 0..MaxPolls : mqtt_cfg_connect(polls)
  <2>1. /\ verified' = (verified /\ matches) /\ waiting' = (waiting /\ verified')
        /\ UNCHANGED <<config, apply_gen, barrier, transport, read, cb, loaded, seen>>
    BY <1>3 DEF mqtt_cfg_connect
  <2>2. pc' \in {"start", "refuse"} /\ (~verified' => pc' = "refuse")
    BY <1>3 DEF mqtt_cfg_connect
  <2> QED
    BY <2>1, <2>2
<1>4. CASE ApplyDarkens
  BY <1>4 DEF ApplyDarkens
<1>5. CASE ApplyStops
  BY <1>5 DEF ApplyStops, mqtt_app_deinit
<1>6. CASE ApplyRejected
  BY <1>6 DEF ApplyRejected, Return
<1>7. CASE ApplyAccepted
  BY <1>7 DEF ApplyAccepted, Return
<1>8. CASE ConnectStarts
  BY <1>8 DEF ConnectStarts, Values
<1>9. CASE PollReads
  BY <1>9 DEF PollReads, TypeOK, View, Nothing
<1>10. CASE PollChecks
  BY <1>10 DEF PollChecks, TypeOK, View
<1>11. CASE ConnectSucceeds
  BY <1>11 DEF ConnectSucceeds, Return
<1>12. CASE ConnectMutated
  BY <1>12 DEF ConnectMutated
<1>13. CASE ConnectFailed
  BY <1>13 DEF ConnectFailed, Return
<1>14. CASE ConnectTimesOut
  BY <1>14 DEF ConnectTimesOut, Return
<1>15. CASE ConnectWaits
  BY <1>15 DEF ConnectWaits
<1>16. CASE ConnectRefused
  BY <1>16 DEF ConnectRefused, Return, mqtt_app_deinit
<1>17. CASE mqtt_cfg_on_connect
  BY <1>17 DEF mqtt_cfg_on_connect
<1>18. CASE OnConnectLoads
  BY <1>18 DEF OnConnectLoads
<1>19. CASE OnConnectPublishes
  BY <1>19 DEF OnConnectPublishes
<1>20. CASE mqtt_cfg_on_disconnect
  BY <1>20 DEF mqtt_cfg_on_disconnect
<1>21. CASE mqtt_cfg_on_connect_failure
  BY <1>21 DEF mqtt_cfg_on_connect_failure
<1>22. CASE OnFailureReason
  BY <1>22 DEF OnFailureReason
<1>23. CASE OnFailureClosesGate
  BY <1>23 DEF OnFailureClosesGate, lock_held
<1>24. CASE CallbackDarkens
  BY <1>24 DEF CallbackDarkens
<1>25. CASE Connects
  BY <1>25 DEF Connects
<1>26. CASE Drops
  BY <1>26 DEF Drops, Values
<1>27. CASE Mutates
  BY <1>27 DEF Mutates
<1>28. CASE \E why \in Reasons : Fails(why)
  BY <1>28 DEF Fails
<1>29. CASE UNCHANGED vars
  BY <1>29 DEF vars
<1>30. CASE ClientReads
  BY <1>30 DEF ClientReads, Values
<1>31. CASE Restores
  BY <1>31 DEF Restores
<1> QED
  BY <1>1, <1>2, <1>3, <1>4, <1>5, <1>6, <1>7, <1>8, <1>9, <1>10, <1>11, <1>12,
     <1>13, <1>14, <1>15, <1>16, <1>17, <1>18, <1>19, <1>20, <1>21, <1>22, <1>23,
     <1>24, <1>25, <1>26, <1>27, <1>28, <1>29, <1>30, <1>31
     DEF Next, Calls, Task, Callbacks, Environment
-----------------------------------------------------------------------------
(***************************************************************************)
(* The invariant holds in every reachable state.                           *)
(***************************************************************************)
THEOREM Invariance == Spec => []IInv
<1>1. IInv /\ [Next]_vars => IInv'
  BY TypeStep, SafeStep DEF IInv, Safe
<1> QED
  BY InitSafe, <1>1, PTL DEF Spec

(***************************************************************************)
(* The state of the module stays well typed; in particular the generation  *)
(* counter wraps inside its range, and neither a connect nor a connect     *)
(* event takes generation 0, which stands for "not connected".             *)
(***************************************************************************)
THEOREM TypeCorrect == Spec => []TypeOK
<1>1. IInv => TypeOK
  BY DEF IInv
<1> QED
  BY Invariance, <1>1, PTL

(***************************************************************************)
(* Between calls and callbacks a closed connect gate means a latched       *)
(* barrier, for every timeout and every order of the two threads.          *)
(***************************************************************************)
THEOREM GateIsSafe == Spec => []GateClosedIsDark
<1>1. IInv => GateClosedIsDark
  BY DEF IInv, Safe, Gate, GateClosedIsDark
<1> QED
  BY Invariance, <1>1, PTL

(***************************************************************************)
(* Under the verified latch only, and never on values that the re-check    *)
(* still finds changed, is the barrier released: wherever mqtt_config is   *)
(* mutated, and wherever it is put back.                                   *)
(***************************************************************************)
THEOREM ReleaseIsSafe == Spec => ReleaseIsVerified
<1>1. IInv /\ [Next]_vars => [barrier /\ ~barrier' => verified /\ seen.read # "mutated"]_vars
  <2> SUFFICES ASSUME IInv, [Next]_vars, barrier, ~barrier'
               PROVE  verified /\ seen.read # "mutated"
    OBVIOUS
  <2>1. ConnectSucceeds
    \* No other action lowers the barrier.
    BY DEF Next, Calls, Task, Callbacks, Environment, vars, latch, flags, client, task,
           thread, IInv, TypeOK,
           mqtt_cfg_load_fails, mqtt_cfg_apply, mqtt_cfg_connect,
           ApplyDarkens, ApplyStops, ApplyRejected, ApplyAccepted,
           ConnectStarts, PollReads, PollChecks, ConnectSucceeds,
           ConnectMutated, ConnectFailed, ConnectTimesOut, ConnectWaits,
           ConnectRefused, mqtt_cfg_on_connect, OnConnectLoads,
           OnConnectPublishes, mqtt_cfg_on_disconnect,
           mqtt_cfg_on_connect_failure, OnFailureReason,
           OnFailureClosesGate, CallbackDarkens, Connects, Drops,
           Mutates, Restores, ClientReads, Fails
  <2> QED
    BY <2>1 DEF ConnectSucceeds, IInv, Safe, Locked, Accepted
<1> QED
  BY Invariance, <1>1, PTL DEF Spec, ReleaseIsVerified
=============================================================================
