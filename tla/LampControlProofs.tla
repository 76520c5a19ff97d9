-------------------------- MODULE LampControlProofs --------------------------
(***************************************************************************)
(* What lamp_control.c guarantees for every set of pins and every input,   *)
(* proved with TLAPS.  The inductive invariant is IInv; the theorems are   *)
(* its consequences and the refinement of the fail-off contract.           *)
(***************************************************************************)
EXTENDS LampControl, TLAPS

IInv ==
  /\ TypeOK
  /\ LitIsTracked
  /\ ChannelsConsistent
  /\ BarrierMeansDark
-----------------------------------------------------------------------------
(* The helpers *)

(***************************************************************************)
(* Forcing channels inactive gives an output level per pin.                *)
(***************************************************************************)
LEMMA InactiveType ==
  ASSUME NEW d \in [Pins -> Nat], NEW S
  PROVE  /\ Inactive(d, S) \in [Pins -> Nat]
         /\ \A p \in Pins : Inactive(d, S)[p] = IF p \in S THEN 0 ELSE d[p]
BY DEF Inactive

(***************************************************************************)
(* The inputs of an apply are non-negative.                                *)
(***************************************************************************)
LEMMA RequestType ==
  ASSUME NEW req \in Requests, NEW i \in Index
  PROVE  /\ req.power \in BOOLEAN
         /\ req.brightness \in Brightness /\ req.brightness \in 0..255
         /\ req.rgb \in [Index -> 0..255] /\ req.rgb[i] \in Nat
<1>1. /\ req.power \in BOOLEAN
      /\ req.brightness \in Brightness
      /\ req.rgb \in [Index -> Colours]
  BY DEF Requests
<1>2. /\ \A b \in Brightness : b \in 0..255
      /\ \A c \in Colours : c \in 0..255
  BY InputAssumption
<1>3. req.rgb \in [Index -> 0..255]
  BY <1>1, <1>2
<1>4. QED BY <1>1, <1>2, <1>3

(***************************************************************************)
(* The duty computed for a channel is never negative.                      *)
(***************************************************************************)
LEMMA ChannelDutyType ==
  ASSUME NEW req \in Requests, NEW i \in Index
  PROVE  ChannelDuty(req, i) \in Nat
<1>1. req.brightness \in Nat /\ req.rgb[i] \in Nat
  BY RequestType
<1>2. req.brightness * DutyScale \in Nat
  BY <1>1 DEF DutyScale
<1>3. ASSUME NEW a \in Nat, NEW b \in Nat
      PROVE  (a * b + 127) \div 255 \in Nat
  <2>1. a * b \in Nat
    OBVIOUS
  <2>2. ASSUME NEW c \in Nat PROVE (c + 127) \div 255 \in Nat
    OBVIOUS
  <2>3. QED BY <2>1, <2>2
<1>4. QED
  BY <1>1, <1>2, <1>3 DEF ChannelDuty

(***************************************************************************)
(* Setting the duty of the first k channels changes tracked pins only.     *)
(***************************************************************************)
LEMMA DrivenType ==
  ASSUME TypeOK, NEW req \in Requests, NEW k \in 0..channel_count
  PROVE  /\ Driven(req, k) \in [Pins -> Nat]
         /\ \A p \in Pins \ Tracked : Driven(req, k)[p] = duty[p]
<1>1. 1..k \subseteq Index /\ 1..k \subseteq 1..channel_count
  BY DEF TypeOK, Index, MaxChannels
<1>2. ASSUME NEW p \in Pins, \E i \in 1..k : pins[i] = p
      PROVE  ChannelDuty(req, CHOOSE i \in 1..k : pins[i] = p) \in Nat
  <2>1. (CHOOSE i \in 1..k : pins[i] = p) \in 1..k
    BY <1>2
  <2>2. QED BY <2>1, <1>1, ChannelDutyType
<1>3. Driven(req, k) \in [Pins -> Nat]
  BY <1>2 DEF Driven, TypeOK
<1>4. ASSUME NEW p \in Pins \ Tracked PROVE Driven(req, k)[p] = duty[p]
  BY <1>1, <1>4 DEF Driven, Tracked
<1>5. QED BY <1>3, <1>4

(***************************************************************************)
(* A request that the module records as not active drives no channel.      *)
(***************************************************************************)
LEMMA InactiveRequestIsDark ==
  ASSUME TypeOK, NEW req \in Requests, NEW i \in Index,
         \/ ~req.power
         \/ req.brightness = 0
         \/ channel_count # 1 /\ \A j \in Index : req.rgb[j] = 0
  PROVE  ChannelDuty(req, i) = 0
<1>1. req.brightness \in Nat /\ req.rgb[i] \in Nat
  BY RequestType
<1>2. CASE ~req.power
  BY <1>2 DEF ChannelDuty
<1>3. CASE req.brightness = 0
  BY <1>1, <1>3 DEF ChannelDuty, DutyScale
<1>4. CASE channel_count # 1 /\ \A j \in Index : req.rgb[j] = 0
  BY <1>1, <1>4 DEF ChannelDuty, DutyScale
<1>5. QED BY <1>2, <1>3, <1>4

(***************************************************************************)
(* Compacting keeps a well-formed pin array whose first n entries are      *)
(* distinct pins of the ones kept.                                         *)
(***************************************************************************)
LEMMA CompactedType ==
  ASSUME NEW m \in 0..MaxChannels, NEW n \in 0..m,
         NEW p \in [Index -> Pins \cup {NoPin}],
         NEW at \in Compactions(n, m)
  PROVE  /\ Compacted(p, n, at) \in [Index -> Pins \cup {NoPin}]
         /\ {Compacted(p, n, at)[i] : i \in 1..n} = Kept(p, n, at)
         /\ Kept(p, n, at) \subseteq {p[i] : i \in 1..m}
         /\ (\A i, j \in 1..m : i # j => p[i] # p[j])
              => \A i, j \in 1..n :
                   i # j => Compacted(p, n, at)[i] # Compacted(p, n, at)[j]
<1>1. 1..n \subseteq Index /\ 1..m \subseteq Index
  BY DEF Index, MaxChannels
<1>2. at \in [1..n -> 1..m]
  BY DEF Compactions
<1>3. \A i \in 1..n : at[i] \in Index /\ Compacted(p, n, at)[i] = p[at[i]]
  BY <1>1, <1>2 DEF Compacted
<1>4. Compacted(p, n, at) \in [Index -> Pins \cup {NoPin}]
  BY <1>3 DEF Compacted
<1>5. ASSUME NEW i \in 1..n, NEW j \in 1..n, i # j
      PROVE  at[i] # at[j]
  <2>1. i < j \/ j < i
    BY <1>5
  <2>2. QED BY <2>1, <1>2 DEF Compactions
<1>6. QED
  BY <1>2, <1>3, <1>4, <1>5 DEF Kept
-----------------------------------------------------------------------------
(* The inductive invariant *)

(***************************************************************************)
(* The applied state of a fresh lamp is one.                               *)
(***************************************************************************)
LEMMA AppliedOffType == AppliedOff \in AppliedStates
<1>1. [i \in Index |-> 0] \in [Index -> 0..255]
  OBVIOUS
<1>2. QED BY <1>1 DEF AppliedOff, AppliedStates, MaxBrightness

(***************************************************************************)
(* Before the first call.                                                  *)
(***************************************************************************)
LEMMA InitEstablishesIInv == Init => IInv
<1> SUFFICES ASSUME Init PROVE IInv
  OBVIOUS
<1>1. TypeOK
  <2>1. pins \in [Index -> Pins \cup {NoPin}] /\ duty \in [Pins -> Nat]
    BY DEF Init
  <2>2. applied \in AppliedStates
    BY AppliedOffType DEF Init
  <2>3. initialized \in BOOLEAN /\ fail_off_barrier \in BOOLEAN /\ claimed \in SUBSET Pins
    BY DEF Init
  <2>4. channel_count \in 0..MaxChannels /\ ret \in Statuses
    BY DEF Init, MaxChannels, Statuses
  <2>5. QED BY <2>1, <2>2, <2>3, <2>4 DEF TypeOK
<1>2. Lit = {} /\ Tracked = {}
  BY DEF Init, Lit, Tracked
<1>3. QED
  BY <1>1, <1>2 DEF Init, IInv, LitIsTracked, ChannelsConsistent,
                    BarrierMeansDark

(***************************************************************************)
(* A best-effort fail-off of the tracked channels, from output levels that *)
(* differ from the current ones on tracked channels only.                  *)
(***************************************************************************)
LEMMA FailOffEffect ==
  ASSUME IInv, NEW d \in [Pins -> Nat], NEW stuck \in SUBSET Tracked,
         \A p \in Pins \ Tracked : d[p] = duty[p],
         FailOff(d, stuck)
  PROVE  /\ duty' \in [Pins -> Nat]
         /\ applied' \in AppliedStates
         /\ {p \in Pins : duty'[p] > 0} \subseteq stuck
<1>1. /\ duty' \in [Pins -> Nat]
      /\ \A p \in Pins : duty'[p] = IF p \in Tracked \ stuck THEN 0 ELSE d[p]
  BY InactiveType DEF FailOff
<1>2. applied' \in AppliedStates
  BY DEF FailOff, IInv, TypeOK, AppliedStates
<1>3. ASSUME NEW p \in Pins \ Tracked PROVE duty[p] = 0
  <2>1. p \notin Lit
    BY DEF IInv, LitIsTracked
  <2>2. duty[p] \in Nat
    BY DEF IInv, TypeOK
  <2>3. QED BY <2>1, <2>2 DEF Lit
<1>4. QED BY <1>1, <1>2, <1>3

(***************************************************************************)
(* Steps that only force tracked channels off keep the invariant.          *)
(***************************************************************************)
LEMMA FailOffPreservesIInv ==
  ASSUME IInv, initialized, NEW d \in [Pins -> Nat], NEW stuck \in SUBSET Tracked,
         \A p \in Pins \ Tracked : d[p] = duty[p],
         FailOff(d, stuck),
         NEW status \in Statuses, ret' = FailOffStatus(stuck, status),
         fail_off_barrier' \in BOOLEAN,
         fail_off_barrier' => stuck = {} \/ (fail_off_barrier /\ d = duty),
         UNCHANGED <<initialized, pins, channel_count, claimed>>
  PROVE  IInv'
<1>1. /\ duty' \in [Pins -> Nat]
      /\ applied' \in AppliedStates
      /\ Lit' \subseteq stuck
  BY FailOffEffect DEF Lit
<1>2. Tracked' = Tracked
  BY DEF Tracked
<1>3. TypeOK'
  BY <1>1 DEF IInv, TypeOK, FailOffStatus, Statuses
<1>4. LitIsTracked' /\ ChannelsConsistent'
  BY <1>1, <1>2 DEF IInv, LitIsTracked, ChannelsConsistent
<1>5. BarrierMeansDark'
  <2>1. CASE stuck = {}
    BY <1>1, <2>1 DEF BarrierMeansDark
  <2>2. CASE fail_off_barrier /\ d = duty
    <3>1. Lit = {}
      BY <2>2 DEF IInv, BarrierMeansDark
    <3>2. \A p \in Pins : duty'[p] = 0
      BY <3>1, <2>2, InactiveType DEF FailOff, Lit, IInv, TypeOK
    <3>3. QED BY <3>2 DEF BarrierMeansDark, Lit
  <2>3. QED BY <2>1, <2>2 DEF BarrierMeansDark
<1>6. QED BY <1>3, <1>4, <1>5 DEF IInv

(***************************************************************************)
(* lamp_control_apply_state, with every choice of failing HAL calls.       *)
(***************************************************************************)
LEMMA ApplyPreservesIInv ==
  ASSUME IInv, NEW req \in Requests, lamp_control_apply_state(req)
  PROVE  IInv'
<1> USE DEF IInv
<1>0. duty \in [Pins -> Nat] /\ ret \in Statuses /\ fail_off_barrier \in BOOLEAN
  BY DEF TypeOK
<1>1. CASE ApplyUninitialized
  BY <1>1 DEF ApplyUninitialized, lamp, hal, TypeOK, Statuses, LitIsTracked,
              ChannelsConsistent, BarrierMeansDark, Lit, Tracked
<1>2. ASSUME NEW stuck \in SUBSET Tracked, ApplyBlocked(stuck)
      PROVE  IInv'
  BY <1>0, <1>2, FailOffPreservesIInv DEF ApplyBlocked, Statuses
<1>3. ASSUME NEW stuck \in SUBSET Tracked, NEW status \in Statuses,
             ApplyInvalid(status, stuck)
      PROVE  IInv'
  BY <1>0, <1>3, FailOffPreservesIInv DEF ApplyInvalid
<1>4. ASSUME NEW stuck \in SUBSET Tracked, NEW k \in 0..(MaxChannels - 1),
             ApplyHalFails(req, k, stuck)
      PROVE  IInv'
  <2>1. k \in 0..channel_count
    BY <1>4 DEF ApplyHalFails, TypeOK, MaxChannels
  <2>2. /\ Driven(req, k) \in [Pins -> Nat]
        /\ \A p \in Pins \ Tracked : Driven(req, k)[p] = duty[p]
    BY <2>1, DrivenType
  <2>3. QED
    BY <1>0, <1>4, <2>2, FailOffPreservesIInv DEF ApplyHalFails, Statuses
<1>5. ASSUME req.brightness <= MaxBrightness, ApplySucceeds(req)
      PROVE  IInv'
  <2> USE <1>5 DEF ApplySucceeds
  <2>1. channel_count \in 0..channel_count
    BY DEF TypeOK
  <2>2. /\ duty' \in [Pins -> Nat]
        /\ \A p \in Pins \ Tracked : duty'[p] = duty[p]
    BY <2>1, DrivenType
  <2>3. applied' \in AppliedStates
    <3>1. /\ req.power \in BOOLEAN
          /\ req.brightness \in 0..MaxBrightness
          /\ req.rgb \in [Index -> 0..255]
      BY RequestType DEF Index, MaxChannels, MaxBrightness
    <3>2. QED BY <3>1 DEF AppliedStates
  <2>4. Tracked' = Tracked
    BY DEF Tracked
  <2>5. \A p \in Lit' : p \in Tracked
    BY <2>2 DEF Lit, LitIsTracked
  <2>6. TypeOK'
    BY <2>2, <2>3 DEF TypeOK, Statuses
  <2>7. LitIsTracked' /\ ChannelsConsistent'
    BY <2>4, <2>5 DEF LitIsTracked, ChannelsConsistent
  <2>8. BarrierMeansDark'
    BY DEF BarrierMeansDark
  <2>9. QED BY <2>6, <2>7, <2>8
<1>6. QED
  BY <1>1, <1>2, <1>3, <1>4, <1>5 DEF lamp_control_apply_state, Statuses

(***************************************************************************)
(* lamp_control_force_inactive and lamp_control_release_fail_off.          *)
(***************************************************************************)
LEMMA ForceInactivePreservesIInv ==
  ASSUME IInv, NEW stuck \in SUBSET Tracked, lamp_control_force_inactive(stuck)
  PROVE  IInv'
<1> USE DEF IInv
<1>0. duty \in [Pins -> Nat] /\ fail_off_barrier \in BOOLEAN
  BY DEF TypeOK
<1>1. CASE initialized
  BY <1>0, <1>1, FailOffPreservesIInv DEF lamp_control_force_inactive, Statuses
<1>2. CASE ~initialized
  BY <1>2 DEF lamp_control_force_inactive, TypeOK, Statuses, LitIsTracked,
              ChannelsConsistent, BarrierMeansDark, Lit, Tracked
<1>3. QED BY <1>1, <1>2

LEMMA ReleaseFailOffPreservesIInv ==
  ASSUME IInv, lamp_control_release_fail_off
  PROVE  IInv'
BY DEF IInv, lamp_control_release_fail_off, hal, TypeOK, Statuses, LitIsTracked,
       ChannelsConsistent, BarrierMeansDark, Lit, Tracked

(***************************************************************************)
(* lamp_control_deinit: nothing stays lit on a channel that was released,  *)
(* and the kept channels are exactly the tracked ones.                     *)
(***************************************************************************)
LEMMA DeinitPreservesIInv ==
  ASSUME IInv, lamp_control_deinit
  PROVE  IInv'
<1> USE DEF IInv
<1>0. /\ duty \in [Pins -> Nat]
      /\ \A p \in Pins \ Tracked : ~(duty[p] > 0)
  BY DEF TypeOK, LitIsTracked, Lit
<1>1. CASE ~initialized /\ ret' = "NOT_INITIALIZED" /\ UNCHANGED <<lamp, hal>>
  BY <1>1 DEF lamp, hal, TypeOK, Statuses, LitIsTracked, ChannelsConsistent,
              BarrierMeansDark, Lit, Tracked
<1>2. CASE DeinitSucceeds
  <2> USE <1>2 DEF DeinitSucceeds
  <2>1. Lit' = {}
    BY <1>0, InactiveType DEF Lit
  <2>2. pins' \in [Index -> Pins \cup {NoPin}] /\ duty' \in [Pins -> Nat]
    BY <1>0, InactiveType
  <2>3. applied' \in AppliedStates
    BY AppliedOffType
  <2>4. TypeOK'
    <3>1. channel_count' \in 0..MaxChannels /\ ret' \in Statuses
      BY DEF Statuses, MaxChannels
    <3>2. claimed' \in SUBSET Pins
      BY DEF TypeOK
    <3>3. initialized' \in BOOLEAN /\ fail_off_barrier' \in BOOLEAN
      BY DEF TypeOK
    <3>4. QED BY ONLY <2>2, <2>3, <3>1, <3>2, <3>3 DEF TypeOK
  <2>5. Tracked' = {}
    BY DEF Tracked
  <2>6. QED
    BY <2>1, <2>4, <2>5 DEF LitIsTracked, ChannelsConsistent, BarrierMeansDark
<1>3. ASSUME NEW kept \in 1..channel_count, NEW at \in Compactions(kept, channel_count),
             NEW stuck \in SUBSET Kept(pins, kept, at), DeinitPartly(kept, at, stuck)
      PROVE  IInv'
  <2> USE <1>3 DEF DeinitPartly
  <2>1. /\ pins' \in [Index -> Pins \cup {NoPin}]
        /\ Tracked' = Kept(pins, kept, at)
        /\ Kept(pins, kept, at) \subseteq Tracked
        /\ \A i, j \in 1..kept : i # j => pins'[i] # pins'[j]
    <3>1. channel_count \in 0..MaxChannels /\ kept \in 0..channel_count
      BY DEF TypeOK, MaxChannels
    <3>2. \A i, j \in 1..channel_count : i # j => pins[i] # pins[j]
      BY DEF ChannelsConsistent
    <3>3. pins \in [Index -> Pins \cup {NoPin}]
      BY DEF TypeOK
    <3>4. QED BY <3>1, <3>2, <3>3, CompactedType DEF Tracked
  <2>2. /\ duty' \in [Pins -> Nat]
        /\ \A p \in Pins : p \notin stuck => ~(duty'[p] > 0)
    BY <1>0, InactiveType
  <2>3. Lit' \subseteq stuck
    BY <2>2 DEF Lit
  <2>4. fail_off_barrier => Lit' = {}
    <3>1. \A p \in Pins : ~(duty[p] > 0) => ~(duty'[p] > 0)
      BY <1>0, InactiveType
    <3>2. QED BY <3>1 DEF BarrierMeansDark, Lit
  <2>5. TypeOK'
    <3>1. applied' \in AppliedStates
      BY DEF TypeOK, AppliedStates
    <3>2. channel_count' \in 0..MaxChannels /\ ret' \in Statuses
      BY DEF TypeOK, MaxChannels, FailOffStatus, Statuses
    <3>3. claimed' \in SUBSET Pins
      BY DEF TypeOK
    <3>4. initialized' \in BOOLEAN /\ fail_off_barrier' \in BOOLEAN
      BY DEF TypeOK
    <3>5. pins' \in [Index -> Pins \cup {NoPin}] /\ duty' \in [Pins -> Nat]
      BY <2>1, <2>2
    <3>6. QED BY ONLY <3>1, <3>2, <3>3, <3>4, <3>5 DEF TypeOK
  <2>6. LitIsTracked' /\ ChannelsConsistent'
    <3>1. channel_count' > 0 /\ initialized'
      BY DEF TypeOK, MaxChannels
    <3>2. Tracked' \subseteq claimed'
      BY <2>1 DEF ChannelsConsistent
    <3>3. QED BY <2>1, <2>3, <3>1, <3>2 DEF LitIsTracked, ChannelsConsistent
  <2>7. BarrierMeansDark'
    BY <2>3, <2>4 DEF BarrierMeansDark
  <2>8. QED BY <2>5, <2>6, <2>7
<1>4. QED
  BY <1>1, <1>2, <1>3 DEF lamp_control_deinit

(***************************************************************************)
(* lamp_control_init: rejections, a missing pin, a HAL failure with its    *)
(* rollback, success, and a failed hold whose release fails in part.       *)
(***************************************************************************)
LEMMA InitCallPreservesIInv ==
  ASSUME IInv, lamp_control_init
  PROVE  IInv'
<1> USE DEF IInv
<1>0. /\ duty \in [Pins -> Nat]
      /\ \A p \in Pins \ Tracked : ~(duty[p] > 0)
      /\ pins \in [Index -> Pins \cup {NoPin}]
      /\ claimed \in SUBSET Pins
  BY DEF TypeOK, LitIsTracked, Lit
<1>1. CASE InitRejected
  BY <1>1 DEF InitRejected, lamp, hal, TypeOK, Statuses, LitIsTracked,
              ChannelsConsistent, BarrierMeansDark, Lit, Tracked
<1>2. ASSUME ~initialized
      PROVE  /\ Lit = {} /\ channel_count = 0 /\ Tracked = {}
             /\ \A S : \A p \in Pins : Inactive(duty, S)[p] = 0
  <2>1. Lit = {}
    BY <1>2 DEF LitIsTracked
  <2>2. channel_count = 0
    BY <1>2 DEF ChannelsConsistent, TypeOK, MaxChannels
  <2>3. Tracked = {}
    BY <2>2 DEF Tracked
  <2>4. ASSUME NEW p \in Pins PROVE duty[p] = 0
    <3>1. ~(duty[p] > 0)
      BY <2>1 DEF Lit
    <3>2. duty[p] \in Nat
      BY <1>0
    <3>3. QED BY <3>1, <3>2
  <2>5. QED BY <2>1, <2>2, <2>3, <2>4, <1>0, InactiveType
<1>3. ASSUME ~initialized, NEW S, duty' = Inactive(duty, S)
      PROVE  duty' \in [Pins -> Nat] /\ Lit' = {}
  BY <1>0, <1>2, <1>3, InactiveType DEF Lit
<1>4. ASSUME ~initialized, NEW S, duty' = Inactive(duty, S),
             pins' \in [Index -> Pins \cup {NoPin}], claimed' \in SUBSET Pins,
             ret' \in Statuses,
             UNCHANGED <<initialized, channel_count, applied, fail_off_barrier>>
      PROVE  IInv'
  <2>1. channel_count' = 0 /\ Tracked' = {}
    BY <1>2, <1>4 DEF Tracked
  <2>2. duty' \in [Pins -> Nat] /\ Lit' = {}
    BY <1>3, <1>4
  <2>3. TypeOK'
    BY <1>4, <2>2 DEF TypeOK
  <2>4. QED
    BY <1>4, <2>1, <2>2, <2>3 DEF LitIsTracked, ChannelsConsistent,
                                  BarrierMeansDark
<1>5. ASSUME NEW cfg \in Configs, NEW k \in 2..MaxChannels, InitNoPin(cfg, k)
      PROVE  IInv'
  <2>1. pins' \in [Index -> Pins \cup {NoPin}]
    BY <1>0, <1>5 DEF InitNoPin, Configs
  <2>2. claimed' \in SUBSET Pins
    BY <1>0, <1>5 DEF InitNoPin, Claimable, FirstPins
  <2>3. QED BY <1>4, <1>5, <2>1, <2>2 DEF InitNoPin, Statuses
<1>6. ASSUME NEW cfg \in Configs, NEW k \in 1..MaxChannels,
             NEW leaked \in SUBSET FirstPins(cfg, k - 1), InitHalFails(cfg, k, leaked)
      PROVE  IInv'
  <2>1. pins' \in [Index -> Pins \cup {NoPin}]
    BY <1>0, <1>6 DEF InitHalFails
  <2>2. claimed' \in SUBSET Pins
    BY <1>0, <1>6 DEF InitHalFails, Claimable, FirstPins
  <2>3. QED BY <1>4, <1>6, <2>1, <2>2 DEF InitHalFails, Statuses
<1>7. ASSUME NEW cfg \in Configs, ~initialized, Claimable(cfg, cfg.channel_count)
      PROVE  /\ cfg.channel_count \in 1..MaxChannels
             /\ cfg.pins \in [Index -> Pins \cup {NoPin}]
             /\ FirstPins(cfg, cfg.channel_count) \subseteq Pins
             /\ \A i, j \in 1..cfg.channel_count : i # j => cfg.pins[i] # cfg.pins[j]
  <2>1. cfg.channel_count \in 1..MaxChannels /\ cfg.pins \in [Index -> Pins \cup {NoPin}]
    BY DEF Configs, MaxChannels
  <2>2. ASSUME NEW i \in 1..cfg.channel_count, NEW j \in 1..cfg.channel_count, i # j
        PROVE  cfg.pins[i] # cfg.pins[j]
    <3>1. j \in 1..(i - 1) \/ i \in 1..(j - 1)
      BY <2>1, <2>2 DEF MaxChannels
    <3>2. QED BY <3>1, <1>7 DEF Claimable
  <2>3. QED BY <2>1, <2>2, <1>7 DEF Claimable, FirstPins
<1>8. ASSUME NEW cfg \in Configs, InitSucceeds(cfg)
      PROVE  IInv'
  <2> DEFINE n == cfg.channel_count
  <2>1. /\ ~initialized /\ Claimable(cfg, n)
        /\ initialized' = TRUE /\ channel_count' = n
        /\ pins' = [i \in Index |-> IF i <= n THEN cfg.pins[i] ELSE pins[i]]
        /\ claimed' = claimed \cup FirstPins(cfg, n)
        /\ duty' = Inactive(duty, FirstPins(cfg, n))
        /\ applied' = AppliedOff /\ fail_off_barrier' = FALSE /\ ret' = "OK"
    BY <1>8 DEF InitSucceeds
  <2>2. /\ n \in 1..MaxChannels
        /\ cfg.pins \in [Index -> Pins \cup {NoPin}]
        /\ FirstPins(cfg, n) \subseteq Pins
        /\ \A i, j \in 1..n : i # j => cfg.pins[i] # cfg.pins[j]
    BY <1>7, <2>1
  <2> HIDE DEF n
  <2>3. duty' \in [Pins -> Nat] /\ Lit' = {}
    BY <1>3, <2>1
  <2>4. /\ pins' \in [Index -> Pins \cup {NoPin}]
        /\ \A i \in 1..n : pins'[i] = cfg.pins[i]
    BY <2>1, <2>2, <1>0 DEF Index, MaxChannels
  <2>5. Tracked' = FirstPins(cfg, n)
    BY <2>1, <2>4 DEF Tracked, FirstPins
  <2>6. TypeOK'
    <3>1. applied' \in AppliedStates
      BY <2>1, AppliedOffType
    <3>2. channel_count' \in 0..MaxChannels /\ ret' \in Statuses
      BY <2>1, <2>2 DEF MaxChannels, Statuses
    <3>3. claimed' \in SUBSET Pins
      BY <2>1, <2>2, <1>0
    <3>4. initialized' \in BOOLEAN /\ fail_off_barrier' \in BOOLEAN
      BY <2>1
    <3>5. QED BY ONLY <2>3, <2>4, <3>1, <3>2, <3>3, <3>4 DEF TypeOK
  <2>7. ChannelsConsistent'
    <3>1. channel_count' > 0
      BY <2>1, <2>2 DEF MaxChannels
    <3>2. QED BY <2>1, <2>2, <2>4, <2>5, <3>1 DEF ChannelsConsistent
  <2>8. LitIsTracked' /\ BarrierMeansDark'
    BY <2>3 DEF LitIsTracked, BarrierMeansDark
  <2>9. QED BY <2>6, <2>7, <2>8
<1>9. ASSUME NEW cfg \in Configs, NEW kept \in 0..cfg.channel_count,
             NEW at \in Compactions(kept, cfg.channel_count),
             InitHoldFails(cfg, kept, at)
      PROVE  IInv'
  <2> DEFINE n == cfg.channel_count
  <2>1. /\ ~initialized /\ Claimable(cfg, n)
        /\ initialized' = (kept > 0) /\ channel_count' = kept
        /\ pins' = Compacted(cfg.pins, kept, at)
        /\ claimed' = claimed \cup Kept(cfg.pins, kept, at)
        /\ duty' = Inactive(duty, FirstPins(cfg, n))
        /\ applied' = AppliedOff /\ fail_off_barrier' = FALSE /\ ret' = "HAL_ERROR"
    BY <1>9 DEF InitHoldFails
  <2>2. /\ n \in 1..MaxChannels
        /\ cfg.pins \in [Index -> Pins \cup {NoPin}]
        /\ FirstPins(cfg, n) \subseteq Pins
        /\ \A i, j \in 1..n : i # j => cfg.pins[i] # cfg.pins[j]
    BY <1>7, <2>1
  <2>3. duty' \in [Pins -> Nat] /\ Lit' = {}
    BY <1>3, <2>1
  <2>4. /\ pins' \in [Index -> Pins \cup {NoPin}]
        /\ Tracked' = Kept(cfg.pins, kept, at)
        /\ Kept(cfg.pins, kept, at) \subseteq FirstPins(cfg, n)
        /\ \A i, j \in 1..kept : i # j => pins'[i] # pins'[j]
    <3>1. n \in 0..MaxChannels /\ kept \in 0..n
      BY <2>2 DEF MaxChannels
    <3>2. QED BY <2>1, <2>2, <3>1, CompactedType DEF Tracked, FirstPins
  <2>5. TypeOK'
    <3>1. applied' \in AppliedStates
      BY <2>1, AppliedOffType
    <3>2. channel_count' \in 0..MaxChannels /\ ret' \in Statuses
      BY <2>1, <2>2 DEF MaxChannels, Statuses
    <3>3. claimed' \in SUBSET Pins
      BY <2>1, <2>2, <2>4, <1>0
    <3>4. initialized' \in BOOLEAN /\ fail_off_barrier' \in BOOLEAN
      <4>1. (kept > 0) \in BOOLEAN
        OBVIOUS
      <4>2. QED BY ONLY <2>1, <4>1
    <3>5. QED BY ONLY <2>3, <2>4, <3>1, <3>2, <3>3, <3>4 DEF TypeOK
  <2>6. ChannelsConsistent'
    BY <2>1, <2>4 DEF ChannelsConsistent
  <2>7. LitIsTracked' /\ BarrierMeansDark'
    BY <2>3 DEF LitIsTracked, BarrierMeansDark
  <2>8. QED BY <2>5, <2>6, <2>7
<1>10. QED
  BY <1>1, <1>5, <1>6, <1>8, <1>9 DEF lamp_control_init
-----------------------------------------------------------------------------
(* The theorems *)

LEMMA NextPreservesIInv == IInv /\ [Next]_vars => IInv'
<1> SUFFICES ASSUME IInv, [Next]_vars PROVE IInv'
  OBVIOUS
<1>1. CASE lamp_control_init
  BY <1>1, InitCallPreservesIInv
<1>2. ASSUME NEW req \in Requests, lamp_control_apply_state(req) PROVE IInv'
  BY <1>2, ApplyPreservesIInv
<1>3. ASSUME NEW stuck \in SUBSET Tracked, lamp_control_force_inactive(stuck)
      PROVE  IInv'
  BY <1>3, ForceInactivePreservesIInv
<1>4. CASE lamp_control_release_fail_off
  BY <1>4, ReleaseFailOffPreservesIInv
<1>5. CASE lamp_control_deinit
  BY <1>5, DeinitPreservesIInv
<1>6. CASE UNCHANGED vars
  BY <1>6 DEF vars, lamp, hal, IInv, TypeOK, LitIsTracked, ChannelsConsistent,
              BarrierMeansDark, Lit, Tracked
<1>7. QED BY <1>1, <1>2, <1>3, <1>4, <1>5, <1>6 DEF Next

(***************************************************************************)
(* The state of the module is well typed, whatever the callers pass and    *)
(* whichever HAL calls fail.                                               *)
(***************************************************************************)
THEOREM TypeCorrect == Spec => []TypeOK
<1>1. IInv => TypeOK
  BY DEF IInv
<1>2. QED BY <1>1, InitEstablishesIInv, NextPreservesIInv, PTL DEF Spec

(***************************************************************************)
(* A lit channel is always one the module still tracks and has claimed.    *)
(***************************************************************************)
THEOREM NoLostLitChannel == Spec => [](LitIsTracked /\ ChannelsConsistent)
<1>1. IInv => LitIsTracked /\ ChannelsConsistent
  BY DEF IInv
<1>2. QED BY <1>1, InitEstablishesIInv, NextPreservesIInv, PTL DEF Spec

(***************************************************************************)
(* Each pin is driven from one channel only and is claimed, and there is a *)
(* channel exactly when the module is initialized.                         *)
(***************************************************************************)
THEOREM ArrayIsConsistent == Spec => []ChannelsConsistent
<1>1. LitIsTracked /\ ChannelsConsistent => ChannelsConsistent
  OBVIOUS
<1>2. QED BY <1>1, NoLostLitChannel, PTL

(***************************************************************************)
(* While the fail-off barrier is latched every channel is dark.            *)
(***************************************************************************)
THEOREM BarrierIsSafe == Spec => []BarrierMeansDark
<1>1. IInv => BarrierMeansDark
  BY DEF IInv
<1>2. QED BY <1>1, InitEstablishesIInv, NextPreservesIInv, PTL DEF Spec

-----------------------------------------------------------------------------
(* The calls that fail *)

(***************************************************************************)
(* A fail-off whose status is anything but LAMP_ERR_FAIL_OFF met no stuck  *)
(* channel, and left the lamp dark.                                        *)
(***************************************************************************)
LEMMA ConfirmedFailOffIsDark ==
  ASSUME IInv, NEW d \in [Pins -> Nat], NEW stuck \in SUBSET Tracked,
         \A p \in Pins \ Tracked : d[p] = duty[p],
         FailOff(d, stuck), NEW status, ret' = FailOffStatus(stuck, status),
         ret' # "FAIL_OFF"
  PROVE  Lit' = {}
<1>1. stuck = {}
  BY DEF FailOffStatus
<1>2. QED BY <1>1, FailOffEffect DEF Lit

(***************************************************************************)
(* Each call of FailSafeCall that fails otherwise leaves the lamp dark.    *)
(***************************************************************************)
LEMMA FailureStep ==
  ASSUME IInv, FailSafeCall, ret' \notin {"OK", "FAIL_OFF"}
  PROVE  Lit' = {}
<1>0. /\ duty \in [Pins -> Nat]
      /\ Lit = {} \/ initialized
      /\ \A p \in Pins : p \notin Tracked => ~(duty[p] > 0)
  BY DEF IInv, TypeOK, LitIsTracked, Lit
<1>1. ASSUME NEW req \in Requests, lamp_control_apply_state(req)
      PROVE  Lit' = {}
  <2>1. CASE ApplyUninitialized
    BY <1>0, <2>1 DEF ApplyUninitialized, lamp, hal, Lit
  <2>2. ASSUME NEW stuck \in SUBSET Tracked, NEW status,
               ApplyBlocked(stuck) \/ ApplyInvalid(status, stuck)
        PROVE  Lit' = {}
    BY <1>0, <2>2, ConfirmedFailOffIsDark DEF ApplyBlocked, ApplyInvalid
  <2>3. ASSUME NEW stuck \in SUBSET Tracked, NEW k \in 0..(MaxChannels - 1),
               ApplyHalFails(req, k, stuck)
        PROVE  Lit' = {}
    <3>1. k \in 0..channel_count
      BY <2>3 DEF ApplyHalFails, IInv, TypeOK, MaxChannels
    <3>2. /\ Driven(req, k) \in [Pins -> Nat]
          /\ \A p \in Pins \ Tracked : Driven(req, k)[p] = duty[p]
      BY <3>1, DrivenType DEF IInv
    <3>3. QED BY <2>3, <3>2, ConfirmedFailOffIsDark DEF ApplyHalFails
  <2>4. ~ApplySucceeds(req)
    BY DEF ApplySucceeds
  <2>5. QED BY <1>1, <2>1, <2>2, <2>3, <2>4 DEF lamp_control_apply_state
<1>2. ASSUME NEW stuck \in SUBSET Tracked, lamp_control_force_inactive(stuck)
      PROVE  Lit' = {}
  <2>1. CASE initialized
    BY <1>0, <1>2, <2>1, ConfirmedFailOffIsDark DEF lamp_control_force_inactive
  <2>2. CASE ~initialized
    BY <1>0, <1>2, <2>2 DEF lamp_control_force_inactive, Lit
  <2>3. QED BY <2>1, <2>2
<1>3. CASE lamp_control_deinit
  <2>1. CASE ~initialized /\ UNCHANGED <<lamp, hal>>
    BY <1>0, <2>1 DEF lamp, hal, Lit
  <2>2. ~DeinitSucceeds
    BY DEF DeinitSucceeds
  <2>3. ASSUME NEW kept \in 1..channel_count, NEW at \in Compactions(kept, channel_count),
               NEW stuck \in SUBSET Kept(pins, kept, at), DeinitPartly(kept, at, stuck)
        PROVE  Lit' = {}
    <3>1. stuck = {}
      BY <2>3 DEF DeinitPartly, FailOffStatus
    <3>2. QED BY <1>0, <2>3, <3>1, InactiveType DEF DeinitPartly, Lit
  <2>4. QED BY <1>3, <2>1, <2>2, <2>3 DEF lamp_control_deinit
<1>4. CASE ~initialized /\ lamp_control_init
  <2>1. ASSUME NEW S, duty' = Inactive(duty, S) PROVE Lit' = {}
    BY <1>0, <1>4, <2>1, InactiveType DEF Lit
  <2>2. CASE InitRejected
    BY <1>0, <1>4, <2>2 DEF InitRejected, hal, Lit
  <2>3. CASE ~InitRejected
    BY <1>4, <2>1, <2>3 DEF lamp_control_init, InitNoPin, InitHalFails, InitSucceeds,
                            InitHoldFails
  <2>4. QED BY <2>2, <2>3
<1>5. QED BY <1>1, <1>2, <1>3, <1>4 DEF FailSafeCall

(***************************************************************************)
(* Every failing apply, force-inactive and deinit, and every failing       *)
(* initialization of an uninitialized lamp, leaves the lamp dark unless it *)
(* returns LAMP_ERR_FAIL_OFF.                                              *)
(***************************************************************************)
THEOREM FailureIsSafe == Spec => FailureMeansDark
<1>1. IInv /\ [Next]_vars
        => [ret' \notin {"OK", "FAIL_OFF"} /\ Lit' # {} => ~FailSafeCall]_vars
  BY FailureStep
<1>2. QED
  BY <1>1, InitEstablishesIInv, NextPreservesIInv, PTL DEF Spec, FailureMeansDark
-----------------------------------------------------------------------------
(* The electrical flag *)

(***************************************************************************)
(* A fail-off that clears the flag has confirmed every channel off.        *)
(***************************************************************************)
LEMMA FailOffClearsFlagOnlyWhenDark ==
  ASSUME IInv, NEW d \in [Pins -> Nat], NEW stuck \in SUBSET Tracked,
         \A p \in Pins \ Tracked : d[p] = duty[p],
         FailOff(d, stuck), applied.output_active, ~applied'.output_active
  PROVE  Lit' = {}
<1>1. Lit' \subseteq stuck
  BY FailOffEffect DEF Lit
<1>2. stuck = {}
  <2>1. applied'.output_active = (applied.output_active /\ stuck # {})
    BY DEF FailOff, IInv, TypeOK, AppliedStates
  <2>2. QED BY <2>1
<1>3. QED BY <1>1, <1>2

LEMMA FlagStep ==
  ASSUME IInv, Next, applied.output_active, ~applied'.output_active
  PROVE  Lit' = {}
<1>0. duty \in [Pins -> Nat] /\ (Lit = {} \/ initialized)
  BY DEF IInv, TypeOK, LitIsTracked
<1>1. CASE lamp_control_init
  <2>1. CASE InitRejected
    BY <2>1 DEF InitRejected, lamp
  <2>2. ASSUME ~initialized, NEW S, duty' = Inactive(duty, S) PROVE Lit' = {}
    BY <1>0, <2>2, InactiveType DEF Lit
  <2>3. CASE ~InitRejected
    BY <1>1, <2>2, <2>3 DEF lamp_control_init, InitNoPin, InitHalFails, InitSucceeds,
                            InitHoldFails
  <2>4. QED BY <2>1, <2>3
<1>2. ASSUME NEW req \in Requests, lamp_control_apply_state(req)
      PROVE  Lit' = {}
  <2>1. CASE ApplyUninitialized
    BY <2>1 DEF ApplyUninitialized, lamp
  <2>2. ASSUME NEW stuck \in SUBSET Tracked, NEW status,
               ApplyBlocked(stuck) \/ ApplyInvalid(status, stuck)
        PROVE  Lit' = {}
    BY <1>0, <2>2, FailOffClearsFlagOnlyWhenDark DEF ApplyBlocked, ApplyInvalid
  <2>3. ASSUME NEW stuck \in SUBSET Tracked, NEW k \in 0..(MaxChannels - 1),
               ApplyHalFails(req, k, stuck)
        PROVE  Lit' = {}
    <3>1. k \in 0..channel_count
      BY <2>3 DEF ApplyHalFails, IInv, TypeOK, MaxChannels
    <3>2. /\ Driven(req, k) \in [Pins -> Nat]
          /\ \A p \in Pins \ Tracked : Driven(req, k)[p] = duty[p]
      BY <3>1, DrivenType DEF IInv
    <3>3. QED BY <2>3, <3>2, FailOffClearsFlagOnlyWhenDark DEF ApplyHalFails
  <2>4. CASE ApplySucceeds(req)
    <3>1. \/ ~req.power
          \/ req.brightness = 0
          \/ channel_count # 1 /\ \A j \in Index : req.rgb[j] = 0
      <4>1. req.brightness \in Nat
        <5>1. 1 \in Index
          BY DEF Index, MaxChannels
        <5>2. QED BY <5>1, RequestType
      <4>2. ~(req.power /\ req.brightness > 0
              /\ (channel_count = 1 \/ \E i \in Index : req.rgb[i] # 0))
        BY <2>4 DEF ApplySucceeds
      <4>3. QED BY <4>1, <4>2
    <3>2. \A i \in Index : ChannelDuty(req, i) = 0
      BY <3>1, InactiveRequestIsDark DEF IInv
    <3>3. 1..channel_count \subseteq Index
      BY DEF IInv, TypeOK, Index, MaxChannels
    <3>4. ASSUME NEW p \in Pins PROVE duty'[p] = 0
      <4>1. CASE \E i \in 1..channel_count : pins[i] = p
        <5>1. (CHOOSE i \in 1..channel_count : pins[i] = p) \in Index
          BY <4>1, <3>3
        <5>2. duty'[p] = ChannelDuty(req, CHOOSE i \in 1..channel_count : pins[i] = p)
          BY <2>4, <4>1 DEF ApplySucceeds, Driven
        <5>3. QED BY <5>1, <5>2, <3>2
      <4>2. CASE ~ \E i \in 1..channel_count : pins[i] = p
        <5>1. p \notin Lit
          BY <4>2 DEF IInv, LitIsTracked, Tracked
        <5>2. duty'[p] = duty[p] /\ duty[p] \in Nat
          BY <1>0, <2>4, <4>2 DEF ApplySucceeds, Driven
        <5>3. QED BY <5>1, <5>2 DEF Lit
      <4>3. QED BY <4>1, <4>2
    <3>5. QED BY <3>4 DEF Lit
  <2>5. QED BY <1>2, <2>1, <2>2, <2>3, <2>4 DEF lamp_control_apply_state
<1>3. ASSUME NEW stuck \in SUBSET Tracked, lamp_control_force_inactive(stuck)
      PROVE  Lit' = {}
  <2>1. CASE initialized
    BY <1>0, <1>3, <2>1, FailOffClearsFlagOnlyWhenDark DEF lamp_control_force_inactive
  <2>2. CASE ~initialized
    BY <1>3, <2>2 DEF lamp_control_force_inactive
  <2>3. QED BY <2>1, <2>2
<1>4. CASE lamp_control_release_fail_off
  BY <1>4 DEF lamp_control_release_fail_off
<1>5. CASE lamp_control_deinit
  <2>0. \A p \in Pins : p \notin Tracked => ~(duty[p] > 0)
    BY DEF IInv, LitIsTracked, Lit
  <2>1. CASE DeinitSucceeds
    BY <1>0, <2>0, <2>1, InactiveType DEF DeinitSucceeds, Lit
  <2>2. ASSUME NEW kept \in 1..channel_count, NEW at \in Compactions(kept, channel_count),
               NEW stuck \in SUBSET Kept(pins, kept, at), DeinitPartly(kept, at, stuck)
        PROVE  Lit' = {}
    <3>1. stuck = {}
      <4>1. applied'.output_active = (applied.output_active /\ stuck # {})
        BY <2>2 DEF DeinitPartly, IInv, TypeOK, AppliedStates
      <4>2. QED BY <4>1
    <3>2. QED BY <1>0, <2>0, <2>2, <3>1, InactiveType DEF DeinitPartly, Lit
  <2>3. CASE UNCHANGED <<lamp, hal>>
    BY <2>3 DEF lamp
  <2>4. QED BY <1>5, <2>1, <2>2, <2>3 DEF lamp_control_deinit
<1>6. QED BY <1>1, <1>2, <1>3, <1>4, <1>5 DEF Next

(***************************************************************************)
(* The flag never drops while a channel may still be on.                   *)
(***************************************************************************)
THEOREM FlagIsHonest == Spec => FlagDropsOnlyWhenDark
<1>1. IInv /\ [Next]_vars
        => [applied.output_active /\ ~applied'.output_active => Lit' = {}]_vars
  BY FlagStep
<1>2. QED
  BY <1>1, InitEstablishesIInv, NextPreservesIInv, PTL DEF Spec, FlagDropsOnlyWhenDark
-----------------------------------------------------------------------------
(* The refinement *)

LEMMA StepImplementsContract ==
  ASSUME IInv, [Next]_vars
  PROVE  [Contract!Next]_(Contract!vars)
<1> USE DEF Contract!Next, Contract!vars
<1>0. /\ duty \in [Pins -> Nat]
      /\ Lit = {} \/ initialized
      /\ Lit' \in SUBSET Pins
  BY DEF IInv, TypeOK, LitIsTracked, Lit
<1>1. ASSUME NEW S, duty' = Inactive(duty, S) PROVE Lit' \in SUBSET Lit
  BY <1>0, <1>1, InactiveType DEF Lit
<1>2. ASSUME duty' = duty PROVE Lit' = Lit
  BY <1>2 DEF Lit
<1>3. ASSUME Lit' \in SUBSET Lit, UNCHANGED fail_off_barrier PROVE Contract!Quench
  BY <1>3 DEF Contract!Quench
<1>4. CASE lamp_control_init
  <2>1. CASE InitRejected
    BY <1>2, <2>1 DEF InitRejected, lamp, hal
  <2>2. ASSUME NEW cfg, NEW k, NEW leaked,
               InitNoPin(cfg, k) \/ InitHalFails(cfg, k, leaked)
        PROVE  Contract!Quench
    BY <1>1, <1>3, <2>2 DEF InitNoPin, InitHalFails
  <2>3. ASSUME NEW cfg, NEW kept, NEW at,
               InitSucceeds(cfg) \/ InitHoldFails(cfg, kept, at)
        PROVE  Contract!Reenable
    BY <1>1, <2>3 DEF InitSucceeds, InitHoldFails, Contract!Reenable
  <2>4. QED BY <1>4, <2>1, <2>2, <2>3 DEF lamp_control_init
<1>5. ASSUME NEW req \in Requests, lamp_control_apply_state(req)
      PROVE  [Contract!Next]_(Contract!vars)
  <2>1. CASE ApplyUninitialized
    BY <1>2, <2>1 DEF ApplyUninitialized, lamp, hal
  <2>2. ASSUME NEW stuck, NEW status, ApplyBlocked(stuck) \/ ApplyInvalid(status, stuck)
        PROVE  Contract!Quench
    BY <1>1, <1>3, <2>2 DEF ApplyBlocked, ApplyInvalid, FailOff
  <2>3. ASSUME NEW k, NEW stuck, ApplyHalFails(req, k, stuck) \/ ApplySucceeds(req)
        PROVE  Contract!Energize
    BY <1>0, <2>3 DEF ApplyHalFails, ApplySucceeds, Contract!Energize
  <2>4. QED BY <1>5, <2>1, <2>2, <2>3 DEF lamp_control_apply_state
<1>6. ASSUME NEW stuck \in SUBSET Tracked, lamp_control_force_inactive(stuck)
      PROVE  [Contract!Next]_(Contract!vars)
  <2>1. CASE initialized /\ stuck = {}
    <3>1. \A p \in Pins : p \notin Tracked => ~(duty[p] > 0)
      BY DEF IInv, LitIsTracked, Lit
    <3>2. Lit' = {}
      BY <1>0, <1>6, <2>1, <3>1, InactiveType DEF lamp_control_force_inactive, FailOff, Lit
    <3>3. fail_off_barrier' = TRUE
      BY <1>6, <2>1 DEF lamp_control_force_inactive
    <3>4. QED BY <3>2, <3>3 DEF Contract!Latch
  <2>2. CASE initialized /\ stuck # {}
    <3>1. fail_off_barrier' = fail_off_barrier
      BY <1>6, <2>2 DEF lamp_control_force_inactive, IInv, TypeOK
    <3>2. Lit' \in SUBSET Lit
      BY <1>1, <1>6, <2>2 DEF lamp_control_force_inactive, FailOff
    <3>3. QED BY <1>3, <3>1, <3>2
  <2>3. CASE ~initialized
    BY <1>2, <1>6, <2>3 DEF lamp_control_force_inactive
  <2>4. QED BY <2>1, <2>2, <2>3
<1>7. CASE lamp_control_release_fail_off
  <2>1. Lit' = Lit /\ fail_off_barrier' = FALSE
    BY <1>2, <1>7 DEF lamp_control_release_fail_off, hal
  <2>2. QED BY <2>1 DEF Contract!Reenable
<1>8. CASE lamp_control_deinit
  <2>1. CASE UNCHANGED <<lamp, hal>>
    BY <1>2, <2>1 DEF lamp, hal
  <2>2. CASE DeinitSucceeds
    BY <1>1, <1>3, <2>2 DEF DeinitSucceeds
  <2>3. ASSUME NEW kept, NEW at, NEW stuck, DeinitPartly(kept, at, stuck)
        PROVE  Contract!Quench
    BY <1>1, <1>3, <2>3 DEF DeinitPartly
  <2>4. QED BY <1>8, <2>1, <2>2, <2>3 DEF lamp_control_deinit
<1>9. CASE UNCHANGED vars
  BY <1>2, <1>9 DEF vars, lamp, hal
<1>10. QED BY <1>4, <1>5, <1>6, <1>7, <1>8, <1>9 DEF Next

(***************************************************************************)
(* lamp_control.c implements the fail-off contract of module FailOff.      *)
(***************************************************************************)
THEOREM Implements == Spec => ImplementsFailOff
<1>1. Init => Contract!Init
  BY DEF Init, Contract!Init, Lit
<1>2. IInv /\ [Next]_vars => [Contract!Next]_(Contract!vars)
  BY StepImplementsContract
<1>3. QED
  BY <1>1, <1>2, InitEstablishesIInv, NextPreservesIInv, PTL
  DEF Spec, ImplementsFailOff, Contract!Spec
=============================================================================
