-------------------------- MODULE TbApplicationProofs --------------------------
(***************************************************************************)
(* The fail-off contract of the ThingsBoard application for every set of   *)
(* levels and every retry budget.                                          *)
(*                                                                         *)
(* UnsyncedIsDark and OfflineIsDark are not inductive: an RPC in progress  *)
(* may be about to light the lamp of a session that has just failed.       *)
(* Guarded says why it cannot: such a session has a latched barrier,       *)
(* unless nothing is subscribed, and Subscribed that an RPC or an update   *)
(* in progress keeps the connection it came over.  Ended excludes that the *)
(* supervisor resumes a session whose disconnect was already handled.      *)
(***************************************************************************)
EXTENDS TbApplication, TLAPS

\* The flags, and the rest of the state.
Flags ==
  /\ wifi \in BOOLEAN /\ client \in BOOLEAN /\ pending \in BOOLEAN
  /\ connected \in BOOLEAN /\ suspended \in BOOLEAN
  /\ armed \in BOOLEAN /\ sync_suspended \in BOOLEAN
  /\ lit \in BOOLEAN /\ barrier \in BOOLEAN

Data ==
  /\ applied \in States \cup {NoState}
  /\ lock \in Threads \cup {"none"} /\ busy \in Threads \cup {"none"}
  /\ session \in {"INACTIVE", "SYNCING", "BACKOFF", "PARKED", "SYNCED"}
  /\ attempts \in 0..MaxRetries
  /\ recorded \in States
  /\ request \in States
  /\ pc \in [Threads -> Steps]
  /\ desired \in [Threads -> States]
  /\ method \in Methods \cup {"none"}

\* A thread is inside the engine exactly while it is in an apply_state callback.
Occupied == \A t \in Threads : busy = t <=> pc[t] \in {"release", "apply", "record"}

\* Messages and RPCs reach T only over a subscribed connection, which T ends itself;
\* while the supervisor accepts a new one, nothing is subscribed.
Subscribed ==
  /\ armed => client
  /\ pc["S"] = "seen" => ~armed
  /\ pc["T"] \in {"release", "apply", "record", "rpc", "rpcRecord"} => armed
  /\ pc["T"] = "offline" => ~client

\* Once T has handled a disconnect, no session and no callback is left to light up.
Ended == ~client /\ pc["T"] = "idle" => session # "SYNCED" /\ busy = "none"

\* A latched barrier means darkness, whoever latched it.
Latched == barrier => ~lit

\* Without a session the barrier is latched, unless nothing can reach T anyway.
Guarded ==
  Undisturbed /\ session \in {"INACTIVE", "BACKOFF", "PARKED"} /\ armed => barrier

\* The engine suspends after the module and resumes after it, so between two calls
\* of the supervisor its suspension covers the module's.
Owned ==
  /\ suspended /\ pc["S"] # "suspend" => sync_suspended
  /\ pc["S"] = "resume" => ~suspended /\ sync_suspended

Safe ==
  /\ Occupied /\ Subscribed /\ Ended /\ Latched /\ Guarded /\ Owned
  /\ UnsyncedIsDark /\ OfflineIsDark

IInv == TypeOK /\ Safe
-----------------------------------------------------------------------------
(***************************************************************************)
(* Off is a state, so is what the OTA indicator shows.                     *)
(***************************************************************************)
LEMMA OffIsState == Off \in States
  BY LevelAssumption DEF Off, States

LEMMA IndicatorIsState ==
  ASSUME NEW on \in BOOLEAN
  PROVE  [power |-> on, level |-> IndicatorLevel] \in States
  BY LevelAssumption DEF States

(***************************************************************************)
(* The type invariant, split into the flags and everything else.           *)
(***************************************************************************)
LEMMA Split == TypeOK <=> Flags /\ Data
  BY Zenon DEF TypeOK, Flags, Data

(***************************************************************************)
(* The budget counter stays in its range.                                  *)
(***************************************************************************)
LEMMA AttemptsInRange ==
  ASSUME TypeOK, AttemptFailed
  PROVE  attempts' \in 0..MaxRetries /\ session' \in {"BACKOFF", "PARKED"}
  BY RetryAssumption DEF TypeOK, AttemptFailed

(***************************************************************************)
(* The application starts in a state of the invariant.                     *)
(***************************************************************************)
LEMMA InitSafe == Init => IInv
<1> SUFFICES ASSUME Init PROVE IInv
  OBVIOUS
<1>1. TypeOK
  <2>1. Flags
    BY Zenon DEF Init, Flags
  <2>2. Data
    BY OffIsState, RetryAssumption DEF Init, Data, Threads, Steps
  <2> QED
    BY <2>1, <2>2, Split
<1>2. Safe
  BY DEF Init, Safe, Occupied, Subscribed, Ended, Latched, Guarded, Owned,
         Undisturbed, UnsyncedIsDark, OfflineIsDark, Threads
<1> QED
  BY <1>1, <1>2 DEF IInv
-----------------------------------------------------------------------------
(***************************************************************************)
(* Every step of the threads preserves the types.                          *)
(***************************************************************************)
LEMMA TypeStep == TypeOK /\ [Next]_vars => TypeOK'
<1> SUFFICES ASSUME TypeOK, [Next]_vars PROVE TypeOK'
  OBVIOUS
<1> USE DEF net, app, engine, lamp
<1>a. Flags /\ Data
  BY Split
<1>b. Flags' /\ Data' => TypeOK'
  BY DEF TypeOK, Flags, Data
<1>1. CASE \E t \in Threads : ApplyReleases(t)
  <2>1. Flags'
    BY Zenon, <1>1, <1>a DEF ApplyReleases, Moves, Goto, Flags
  <2>2. Data'
    BY <1>1, <1>a DEF ApplyReleases, Moves, Goto, Data, Threads, Steps
  <2> QED
    BY <2>1, <2>2, <1>b
<1>2. CASE \E t \in Threads : ApplySucceeds(t)
  <2>1. Flags'
    BY Zenon, <1>2, <1>a DEF ApplySucceeds, Moves, Goto, LampApplies, Lights, Flags
  <2>2. Data'
    BY <1>2, <1>a DEF ApplySucceeds, Moves, Goto, LampApplies, Data, Threads, Steps
  <2> QED
    BY <2>1, <2>2, <1>b
<1>3. CASE \E t \in Threads : ApplyFails(t)
  <2>1. Flags'
    BY Zenon, <1>3, <1>a DEF ApplyFails, lamp_control_force_inactive, Ends, Moves,
         Goto, Flags
  <2>2. Data'
    BY <1>3, OffIsState, AttemptsInRange, <1>a DEF ApplyFails,
         lamp_control_force_inactive, Ends, Moves, Goto, Data, Threads, Steps
  <2> QED
    BY <2>1, <2>2, <1>b
<1>4. CASE \E t \in Threads : ApplyRecords(t)
  <2>1. Flags'
    BY Zenon, <1>4, <1>a DEF ApplyRecords, Ends, Moves, Goto, Flags
  <2>2. Data'
    BY <1>4, OffIsState, RetryAssumption, <1>a DEF ApplyRecords, Ends, Moves, Goto,
         Data, Threads, Steps
  <2> QED
    BY <2>1, <2>2, <1>b
<1>5. CASE \E r \in BOOLEAN, s \in States : ValidState(r, s)
  BY <1>5 DEF ValidState, Delivered, BeginApply, Goto, TypeOK, Threads, Steps
<1>6. CASE \E r \in BOOLEAN : InvalidState(r)
  <2>1. Flags'
    BY Zenon, <1>6, <1>a DEF InvalidState, lamp_control_force_inactive, Delivered,
         Flags
  <2>2. Data'
    BY <1>6, AttemptsInRange, <1>a DEF InvalidState, lamp_control_force_inactive,
         Delivered, Data, Threads, Steps
  <2> QED
    BY <2>1, <2>2, <1>b
<1>7. CASE RpcBegins
  BY <1>7 DEF RpcBegins, Goto, TypeOK, Threads, Steps
<1>8. CASE RpcStores
  <2>1. Flags'
    BY Zenon, <1>8, <1>a DEF RpcStores, Moves, Goto, Flags
  <2>2. Data'
    BY <1>8, <1>a DEF RpcStores, Moves, Goto, Data, Threads, Steps
  <2> QED
    BY <2>1, <2>2, <1>b
<1>9. CASE RpcApplies
  <2>1. Flags'
    BY Zenon, <1>9, <1>a DEF RpcApplies, Moves, Goto, LampApplies, Lights, Flags
  <2>2. Data'
    BY <1>9, <1>a DEF RpcApplies, Moves, Goto, LampApplies, Data, Threads, Steps
  <2> QED
    BY <2>1, <2>2, <1>b
<1>10. CASE RpcFails
  <2>1. Flags'
    BY Zenon, <1>10, <1>a DEF RpcFails, Ends, Moves, Goto, LampRefuses, Flags
  <2>2. Data'
    BY <1>10, OffIsState, <1>a DEF RpcFails, Ends, Moves, Goto, LampRefuses, Data,
         Threads, Steps
  <2> QED
    BY <2>1, <2>2, <1>b
<1>11. CASE RpcRecords
  <2>1. Flags'
    BY Zenon, <1>11, <1>a DEF RpcRecords, Ends, Moves, Goto, Flags
  <2>2. Data'
    BY <1>11, OffIsState, <1>a DEF RpcRecords, Ends, Moves, Goto, Data, Threads,
         Steps
  <2> QED
    BY <2>1, <2>2, <1>b
<1>12. CASE ClientConnects
  <2>1. Flags'
    BY Zenon, <1>12, <1>a DEF ClientConnects, Flags
  <2>2. Data'
    BY <1>12, <1>a DEF ClientConnects, Data, Threads, Steps
  <2> QED
    BY <2>1, <2>2, <1>b
<1>13. CASE ConnectionSeen
  <2>1. Flags'
    BY Zenon, <1>13, <1>a DEF ConnectionSeen, Moves, Goto, Flags
  <2>2. Data'
    BY <1>13, <1>a DEF ConnectionSeen, Moves, Goto, Data, Threads, Steps
  <2> QED
    BY <2>1, <2>2, <1>b
<1>14. CASE on_connected
  <2>1. Flags'
    BY Zenon, <1>14, <1>a DEF on_connected, Moves, Goto, Flags
  <2>2. Data'
    BY <1>14, <1>a DEF on_connected, Moves, Goto, Data, Threads, Steps
  <2> QED
    BY <2>1, <2>2, <1>b
<1>15. CASE ConnectionGone
  <2>1. Flags'
    BY Zenon, <1>15, <1>a DEF ConnectionGone, Moves, Goto, Flags
  <2>2. Data'
    BY <1>15, <1>a DEF ConnectionGone, Moves, Goto, Data, Threads, Steps
  <2> QED
    BY <2>1, <2>2, <1>b
<1>16. CASE SyncStarts
  <2>1. Flags'
    BY Zenon, <1>16, <1>a DEF SyncStarts, lamp_control_force_inactive, Moves, Goto,
         Flags
  <2>2. Data'
    BY <1>16, RetryAssumption, <1>a DEF SyncStarts, lamp_control_force_inactive,
         Moves, Goto, Data, Threads, Steps
  <2> QED
    BY <2>1, <2>2, <1>b
<1>17. CASE on_disconnected
  <2>1. Flags'
    BY Zenon, <1>17, <1>a DEF on_disconnected, Moves, Goto, Flags
  <2>2. Data'
    BY <1>17, <1>a DEF on_disconnected, Moves, Goto, Data, Threads, Steps
  <2> QED
    BY <2>1, <2>2, <1>b
<1>18. CASE SyncEnds
  <2>1. Flags'
    BY Zenon, <1>18, <1>a DEF SyncEnds, lamp_control_force_inactive, Moves, Goto,
         Flags
  <2>2. Data'
    BY <1>18, <1>a DEF SyncEnds, lamp_control_force_inactive, Moves, Goto, Data,
         Threads, Steps
  <2> QED
    BY <2>1, <2>2, <1>b
<1>19. CASE before_disconnected
  <2>1. Flags'
    BY Zenon, <1>19, <1>a DEF before_disconnected, lamp_control_force_inactive,
         Flags
  <2>2. Data'
    BY <1>19, <1>a DEF before_disconnected, lamp_control_force_inactive, Data,
         Threads, Steps
  <2> QED
    BY <2>1, <2>2, <1>b
<1>20. CASE WifiConnects
  BY <1>20 DEF WifiConnects, TypeOK, Threads, Steps
<1>21. CASE SyncTimesOut
  <2>1. Flags'
    BY Zenon, <1>21, <1>a DEF SyncTimesOut, lamp_control_force_inactive, Flags
  <2>2. Data'
    BY <1>21, AttemptsInRange, <1>a DEF SyncTimesOut, lamp_control_force_inactive,
         Data, Threads, Steps
  <2> QED
    BY <2>1, <2>2, <1>b
<1>22. CASE SyncRetries
  BY <1>22 DEF SyncRetries, TypeOK, Threads, Steps
<1>23. CASE app_state_safe
  <2>1. Flags'
    BY Zenon, <1>23, <1>a DEF app_state_safe, lamp_control_force_inactive, Flags
  <2>2. Data'
    BY <1>23, <1>a DEF app_state_safe, lamp_control_force_inactive, Data, Threads,
         Steps
  <2> QED
    BY <2>1, <2>2, <1>b
<1>24. CASE OtaStarts
  <2>1. Flags'
    BY Zenon, <1>24, <1>a DEF OtaStarts, Moves, Goto, Flags
  <2>2. Data'
    BY <1>24, <1>a DEF OtaStarts, Moves, Goto, Data, Threads, Steps
  <2> QED
    BY <2>1, <2>2, <1>b
<1>25. CASE SyncSuspends
  <2>1. Flags'
    BY Zenon, <1>25, <1>a DEF SyncSuspends, Moves, Goto, Flags
  <2>2. Data'
    BY <1>25, <1>a DEF SyncSuspends, Moves, Goto, Data, Threads, Steps
  <2> QED
    BY <2>1, <2>2, <1>b
<1>26. CASE OtaEntered
  <2>1. Flags'
    BY Zenon, <1>26, <1>a DEF OtaEntered, lamp_control_force_inactive, Moves, Goto,
         Flags
  <2>2. Data'
    BY <1>26, <1>a DEF OtaEntered, lamp_control_force_inactive, Moves, Goto, Data,
         Threads, Steps
  <2> QED
    BY <2>1, <2>2, <1>b
<1>27. CASE \E on \in BOOLEAN : ota_on_indicator(on)
  <2>1. Flags'
    BY Zenon, <1>27, <1>a DEF ota_on_indicator, Flags
  <2>2. Data'
    BY <1>27, IndicatorIsState, <1>a DEF ota_on_indicator, Data, Threads, Steps
  <2> QED
    BY <2>1, <2>2, <1>b
<1>28. CASE OtaFails
  <2>1. Flags'
    BY Zenon, <1>28, <1>a DEF OtaFails, Moves, Goto, Flags
  <2>2. Data'
    BY <1>28, <1>a DEF OtaFails, Moves, Goto, Data, Threads, Steps
  <2> QED
    BY <2>1, <2>2, <1>b
<1>29. CASE ResumeUnsynchronized
  <2>1. Flags'
    BY Zenon, <1>29, <1>a DEF ResumeUnsynchronized, lamp_control_force_inactive,
         Moves, Goto, Flags
  <2>2. Data'
    BY <1>29, <1>a DEF ResumeUnsynchronized, lamp_control_force_inactive, Moves,
         Goto, Data, Threads, Steps
  <2> QED
    BY <2>1, <2>2, <1>b
<1>30. CASE ResumeSynchronized
  <2>1. Flags'
    BY Zenon, <1>30, <1>a DEF ResumeSynchronized, Moves, Goto, Flags
  <2>2. Data'
    BY <1>30, <1>a DEF ResumeSynchronized, Moves, Goto, Data, Threads, Steps
  <2> QED
    BY <2>1, <2>2, <1>b
<1>31. CASE OutputReleased
  <2>1. Flags'
    BY Zenon, <1>31, <1>a DEF OutputReleased, Moves, Goto, Flags
  <2>2. Data'
    BY <1>31, <1>a DEF OutputReleased, Moves, Goto, Data, Threads, Steps
  <2> QED
    BY <2>1, <2>2, <1>b
<1>32. CASE ConnectServiced
  <2>1. Flags'
    BY Zenon, <1>32, <1>a DEF ConnectServiced, Moves, Goto, Flags
  <2>2. Data'
    BY <1>32, <1>a DEF ConnectServiced, Moves, Goto, Data, Threads, Steps
  <2> QED
    BY <2>1, <2>2, <1>b
<1>33. CASE UNCHANGED vars
  BY <1>33 DEF vars, TypeOK
<1> QED
  BY <1>1, <1>2, <1>3, <1>4, <1>5, <1>6, <1>7, <1>8, <1>9, <1>10, <1>11, <1>12,
       <1>13, <1>14, <1>15, <1>16, <1>17, <1>18, <1>19, <1>20, <1>21, <1>22, <1>23,
       <1>24, <1>25, <1>26, <1>27, <1>28, <1>29, <1>30, <1>31, <1>32, <1>33
       DEF Next, Callbacks, Connection, Supervision, tb_app_apply_state,
           tb_app_on_server_rpc, mqtt_cfg_connect, service_thingsboard_connection

(***************************************************************************)
(* Every step of the threads preserves what they owe each other.           *)
(***************************************************************************)
LEMMA SafeStep == IInv /\ [Next]_vars => Safe'
<1> SUFFICES ASSUME TypeOK, Safe, [Next]_vars PROVE Safe'
  BY DEF IInv
<1> USE DEF net, app, engine, lamp, Safe, Occupied, Subscribed, Ended, Latched, Guarded,
            Owned, Undisturbed, UnsyncedIsDark, OfflineIsDark, Threads, TypeOK
<1>1. CASE \E t \in Threads : ApplyReleases(t)
  BY <1>1 DEF ApplyReleases, Moves, Goto
<1>2. CASE \E t \in Threads : ApplySucceeds(t)
  BY <1>2 DEF ApplySucceeds, Moves, Goto, LampApplies
<1>3. CASE \E t \in Threads : ApplyFails(t)
  BY <1>3, AttemptsInRange DEF ApplyFails, lamp_control_force_inactive, Ends, Moves,
       Goto
<1>4. CASE \E t \in Threads : ApplyRecords(t)
  BY <1>4 DEF ApplyRecords, Ends, Moves, Goto
<1>5. CASE \E r \in BOOLEAN, s \in States : ValidState(r, s)
  BY <1>5 DEF ValidState, Delivered, BeginApply, Goto
<1>6. CASE \E r \in BOOLEAN : InvalidState(r)
  BY <1>6, AttemptsInRange DEF InvalidState, lamp_control_force_inactive, Delivered
<1>7. CASE RpcBegins
  BY <1>7 DEF RpcBegins, Goto
<1>8. CASE RpcStores
  BY <1>8 DEF RpcStores, Moves, Goto
<1>9. CASE RpcApplies
  BY <1>9 DEF RpcApplies, Moves, Goto, LampApplies
<1>10. CASE RpcFails
  BY <1>10 DEF RpcFails, Ends, Moves, Goto, LampRefuses
<1>11. CASE RpcRecords
  BY <1>11 DEF RpcRecords, Ends, Moves, Goto
<1>12. CASE ClientConnects
  BY <1>12 DEF ClientConnects
<1>13. CASE ConnectionSeen
  BY <1>13 DEF ConnectionSeen, Moves, Goto
<1>14. CASE on_connected
  BY <1>14 DEF on_connected, Moves, Goto
<1>15. CASE ConnectionGone
  BY <1>15 DEF ConnectionGone, Moves, Goto
<1>16. CASE SyncStarts
  BY <1>16 DEF SyncStarts, lamp_control_force_inactive, Moves, Goto
<1>17. CASE on_disconnected
  BY <1>17 DEF on_disconnected, Moves, Goto
<1>18. CASE SyncEnds
  BY <1>18 DEF SyncEnds, lamp_control_force_inactive, Moves, Goto
<1>19. CASE before_disconnected
  BY <1>19 DEF before_disconnected, lamp_control_force_inactive
<1>20. CASE WifiConnects
  BY <1>20 DEF WifiConnects
<1>21. CASE SyncTimesOut
  BY <1>21, AttemptsInRange DEF SyncTimesOut, lamp_control_force_inactive
<1>22. CASE SyncRetries
  BY <1>22 DEF SyncRetries
<1>23. CASE app_state_safe
  BY <1>23 DEF app_state_safe, lamp_control_force_inactive
<1>24. CASE OtaStarts
  BY <1>24 DEF OtaStarts, Moves, Goto
<1>25. CASE SyncSuspends
  BY <1>25 DEF SyncSuspends, Moves, Goto
<1>26. CASE OtaEntered
  BY <1>26 DEF OtaEntered, lamp_control_force_inactive, Moves, Goto
<1>27. CASE \E on \in BOOLEAN : ota_on_indicator(on)
  BY <1>27 DEF ota_on_indicator
<1>28. CASE OtaFails
  BY <1>28 DEF OtaFails, Moves, Goto
<1>29. CASE ResumeUnsynchronized
  BY <1>29 DEF ResumeUnsynchronized, lamp_control_force_inactive, Moves, Goto
<1>30. CASE ResumeSynchronized
  BY <1>30 DEF ResumeSynchronized, Moves, Goto
<1>31. CASE OutputReleased
  BY <1>31 DEF OutputReleased, Moves, Goto
<1>32. CASE ConnectServiced
  BY <1>32 DEF ConnectServiced, Goto
<1>33. CASE UNCHANGED vars
  BY <1>33 DEF vars
<1> QED
  BY <1>1, <1>2, <1>3, <1>4, <1>5, <1>6, <1>7, <1>8, <1>9, <1>10, <1>11, <1>12,
       <1>13, <1>14, <1>15, <1>16, <1>17, <1>18, <1>19, <1>20, <1>21, <1>22, <1>23,
       <1>24, <1>25, <1>26, <1>27, <1>28, <1>29, <1>30, <1>31, <1>32, <1>33
       DEF Next, Callbacks, Connection, Supervision, tb_app_apply_state,
           tb_app_on_server_rpc, mqtt_cfg_connect, service_thingsboard_connection
-----------------------------------------------------------------------------
(***************************************************************************)
(* The invariant holds in every reachable state.                           *)
(***************************************************************************)
THEOREM Invariance == Spec => []IInv
<1>1. IInv /\ [Next]_vars => IInv'
  BY TypeStep, SafeStep DEF IInv
<1> QED
  BY InitSafe, <1>1, PTL DEF Spec

(***************************************************************************)
(* The state of the module and of its two neighbours stays well typed; in  *)
(* particular the retry counter never passes its budget.                   *)
(***************************************************************************)
THEOREM TypeCorrect == Spec => []TypeOK
<1>1. IInv => TypeOK
  BY DEF IInv
<1> QED
  BY Invariance, <1>1, PTL

(***************************************************************************)
(* A failed, parked or absent session means a dark lamp, for every budget  *)
(* and whatever RPC, apply or resume was in progress.                      *)
(***************************************************************************)
THEOREM UnsyncedIsSafe == Spec => []UnsyncedIsDark
<1>1. IInv => UnsyncedIsDark
  BY DEF IInv, Safe
<1> QED
  BY Invariance, <1>1, PTL

(***************************************************************************)
(* Once a disconnect is handled the lamp stays dark until the client is    *)
(* connected again.                                                        *)
(***************************************************************************)
THEOREM OfflineIsSafe == Spec => []OfflineIsDark
<1>1. IInv => OfflineIsDark
  BY DEF IInv, Safe
<1> QED
  BY Invariance, <1>1, PTL
=============================================================================
