----------------------------- MODULE LampControl -----------------------------
(***************************************************************************)
(* components/lamp_control/lamp_control.c: the lamp policy that drives one *)
(* or three PWM channels through the portable HAL.                         *)
(*                                                                         *)
(* Every public function runs under one spin lock from its first read to   *)
(* its last write, so each is one action.  A HAL call may fail at any      *)
(* time: the parameters of an action say which calls of that operation     *)
(* fail.  hal_pwm_* itself is external; it is modelled by what             *)
(* lamp_control.c and its test double require of it: a failed call has no  *)
(* electrical effect, a claimed pin cannot be claimed again, and a pin     *)
(* starts, and is released, at the inactive level.                         *)
(***************************************************************************)
EXTENDS Integers

CONSTANTS
  Pins,        \* the PWM-capable pins of the board
  NoPin,       \* HAL_PIN_NONE
  Brightness,  \* the brightness_percent values callers pass (a uint8_t)
  Colours      \* the red, green and blue values callers pass (a uint8_t)

MaxChannels   == 3
MaxBrightness == 100
DutyScale     == 100

ASSUME PinAssumption   == NoPin \notin Pins
ASSUME InputAssumption == Brightness \subseteq 0..255 /\ Colours \subseteq 0..255

VARIABLES
  initialized,       \* s_lamp.initialized
  pins,              \* s_lamp.pins, NoPin where unset
  channel_count,     \* s_lamp.channel_count
  applied,           \* s_lamp.applied
  fail_off_barrier,  \* s_lamp.fail_off_barrier
  claimed,           \* HAL: the pins with an initialized PWM output
  duty,              \* HAL: the duty each pin outputs, in 1/100 %
  ret                \* the status the last call returned

lamp == <<initialized, pins, channel_count, applied, fail_off_barrier>>
hal  == <<claimed, duty>>
vars == <<lamp, hal, ret>>

Index == 1..MaxChannels

Requests == [power : BOOLEAN, brightness : Brightness, rgb : [Index -> Colours]]

Configs == [channel_count : {1, MaxChannels}, pins : [Index -> Pins \cup {NoPin}]]

AppliedStates == [power : BOOLEAN, brightness : 0..MaxBrightness,
                  rgb : [Index -> 0..255], output_active : BOOLEAN]

AppliedOff == [power |-> FALSE, brightness |-> 0,
               rgb |-> [i \in Index |-> 0], output_active |-> FALSE]

Statuses == {"OK", "INVALID_ARGUMENT", "OUT_OF_RANGE", "NOT_INITIALIZED",
             "ALREADY_INITIALIZED", "HAL_ERROR", "FAIL_OFF", "BLOCKED_BY_FAIL_OFF"}

\* The channels the module knows of, and so the only ones it can switch off.
Tracked == {pins[i] : i \in 1..channel_count}

\* The channels that are electrically on.
Lit == {p \in Pins : duty[p] > 0}

TypeOK ==
  /\ initialized \in BOOLEAN
  /\ pins \in [Index -> Pins \cup {NoPin}]
  /\ channel_count \in 0..MaxChannels
  /\ applied \in AppliedStates
  /\ fail_off_barrier \in BOOLEAN
  /\ claimed \in SUBSET Pins
  /\ duty \in [Pins -> Nat]
  /\ ret \in Statuses

Init ==
  /\ initialized = FALSE
  /\ pins = [i \in Index |-> NoPin]
  /\ channel_count = 0
  /\ applied = AppliedOff
  /\ fail_off_barrier = FALSE
  /\ claimed = {}
  /\ duty = [p \in Pins |-> 0]
  /\ ret = "OK"
-----------------------------------------------------------------------------
(* Helpers *)

\* The output levels d with the pins of S at the inactive level.
Inactive(d, S) == [p \in Pins |-> IF p \in S THEN 0 ELSE d[p]]

\* Mutant of FailOff: the flag drops although a channel could not be confirmed off.
FailOffClaimsSuccess(d, stuck) ==
  /\ duty' = Inactive(d, Tracked \ stuck)
  /\ applied' = [applied EXCEPT !.output_active = FALSE]

\* lamp_fail_off() from the output levels d: each channel gets a force-inactive,
\* a retry and a 0 % duty; on the channels of stuck all three fail.  The flag
\* drops only when every channel is confirmed off.
FailOff(d, stuck) ==
  /\ duty' = Inactive(d, Tracked \ stuck)
  /\ applied' = [applied EXCEPT !.output_active = @ /\ stuck # {}]

\* Its result, seen by a caller that would otherwise return status.
FailOffStatus(stuck, status) == IF stuck # {} THEN "FAIL_OFF" ELSE status

\* The ways n of m channels stay behind when the others are released: the
\* positions they had, in order.
Compactions(n, m) ==
  {at \in [1..n -> 1..m] : \A i, j \in 1..n : i < j => at[i] < at[j]}

\* Mutant of Compacted: the kept pins are not moved to the front.
NotCompacted(p, n, at) == [i \in Index |-> IF i \in 1..n THEN p[i] ELSE NoPin]

\* The pin array when only the channels at the positions at[1], at[2].. of p
\* could not be released.
Compacted(p, n, at) == [i \in Index |-> IF i \in 1..n THEN p[at[i]] ELSE NoPin]

\* The pins at those positions.
Kept(p, n, at) == {p[at[i]] : i \in 1..n}

\* The duty of channel i for a validated request: one channel is a plain dimmer,
\* of several each is scaled by its colour, rounded to nearest.
ChannelDuty(req, i) ==
  LET scaled == req.brightness * DutyScale
  IN  IF ~req.power          THEN 0
      ELSE IF channel_count = 1 THEN scaled
      ELSE (scaled * req.rgb[i] + 127) \div 255

\* The output levels after hal_pwm_set_duty() succeeded for the first k channels.
Driven(req, k) ==
  [p \in Pins |->
     IF \E i \in 1..k : pins[i] = p
     THEN ChannelDuty(req, CHOOSE i \in 1..k : pins[i] = p)
     ELSE duty[p]]

\* hal_pwm_init() can succeed for the first k channels of cfg.
Claimable(cfg, k) ==
  \A i \in 1..k : /\ cfg.pins[i] \in Pins \ claimed
                  /\ \A j \in 1..(i - 1) : cfg.pins[j] # cfg.pins[i]

FirstPins(cfg, k) == {cfg.pins[i] : i \in 1..k}
-----------------------------------------------------------------------------
(* lamp_control_init *)

\* Rejected before the hardware is touched: no configuration, one that is invalid
\* (frequency, polarity, the only pin missing), or a lamp already initialized.
InitRejected ==
  /\ \/ ret' = "INVALID_ARGUMENT"
     \/ initialized /\ ret' = "ALREADY_INITIALIZED"
  /\ UNCHANGED <<lamp, hal>>

\* Channel k has no pin: the call returns at once, and channels 1..k-1 stay
\* claimed at the HAL.
InitNoPin(cfg, k) ==
  /\ ~initialized
  /\ cfg.channel_count = MaxChannels
  /\ Claimable(cfg, k - 1)
  /\ cfg.pins[k] = NoPin
  /\ claimed' = claimed \cup FirstPins(cfg, k - 1)
  /\ duty' = Inactive(duty, FirstPins(cfg, k - 1))
  /\ pins' = [i \in Index |-> IF i < k THEN cfg.pins[i] ELSE pins[i]]
  /\ ret' = "INVALID_ARGUMENT"
  /\ UNCHANGED <<initialized, channel_count, applied, fail_off_barrier>>

\* hal_pwm_init() fails for channel k: channels 1..k-1 are released again, the
\* result of each release ignored (it fails for the pins of leaked).
InitHalFails(cfg, k, leaked) ==
  /\ ~initialized
  /\ k <= cfg.channel_count
  /\ Claimable(cfg, k - 1)
  /\ cfg.pins[k] # NoPin
  /\ leaked \subseteq FirstPins(cfg, k - 1)
  /\ claimed' = claimed \cup leaked
  /\ duty' = Inactive(duty, FirstPins(cfg, k - 1))
  /\ pins' = [i \in Index |-> IF i < k THEN NoPin ELSE pins[i]]
  /\ ret' = "HAL_ERROR"
  /\ UNCHANGED <<initialized, channel_count, applied, fail_off_barrier>>

\* Every channel is claimed and held inactive.
InitSucceeds(cfg) ==
  LET n == cfg.channel_count IN
  /\ ~initialized
  /\ Claimable(cfg, n)
  /\ initialized' = TRUE
  /\ channel_count' = n
  /\ pins' = [i \in Index |-> IF i <= n THEN cfg.pins[i] ELSE pins[i]]
  /\ claimed' = claimed \cup FirstPins(cfg, n)
  /\ duty' = Inactive(duty, FirstPins(cfg, n))
  /\ applied' = AppliedOff
  /\ fail_off_barrier' = FALSE
  /\ ret' = "OK"

\* The hold after the claim fails: a best-effort fail-off, then every channel is
\* released; the kept ones stay tracked and the lamp stays initialized.
InitHoldFails(cfg, kept, at) ==
  LET n == cfg.channel_count
      still == Kept(cfg.pins, kept, at)
  IN
  /\ ~initialized
  /\ Claimable(cfg, n)
  /\ initialized' = (kept > 0)
  /\ channel_count' = kept
  /\ pins' = Compacted(cfg.pins, kept, at)
  /\ claimed' = claimed \cup still
  /\ duty' = Inactive(duty, FirstPins(cfg, n))
  /\ applied' = AppliedOff
  /\ fail_off_barrier' = FALSE
  /\ ret' = "HAL_ERROR"

lamp_control_init ==
  \/ InitRejected
  \/ \E cfg \in Configs :
       \/ \E k \in 2..MaxChannels : InitNoPin(cfg, k)
       \/ \E k \in 1..MaxChannels : \E leaked \in SUBSET FirstPins(cfg, k - 1) :
            InitHalFails(cfg, k, leaked)
       \/ InitSucceeds(cfg)
       \/ \E kept \in 0..cfg.channel_count :
            \E at \in Compactions(kept, cfg.channel_count) : InitHoldFails(cfg, kept, at)
-----------------------------------------------------------------------------
(* lamp_control_apply_state *)

ApplyUninitialized ==
  /\ ~initialized
  /\ ret' = "NOT_INITIALIZED"
  /\ UNCHANGED <<lamp, hal>>

\* The barrier is latched: the output is forced inactive again.
ApplyBlocked(stuck) ==
  /\ initialized
  /\ fail_off_barrier
  /\ FailOff(duty, stuck)
  /\ ret' = FailOffStatus(stuck, "BLOCKED_BY_FAIL_OFF")
  /\ UNCHANGED <<initialized, pins, channel_count, fail_off_barrier, claimed>>

\* A NULL request, or a brightness out of range.
ApplyInvalid(status, stuck) ==
  /\ initialized
  /\ ~fail_off_barrier
  /\ FailOff(duty, stuck)
  /\ ret' = FailOffStatus(stuck, status)
  /\ UNCHANGED <<initialized, pins, channel_count, fail_off_barrier, claimed>>

\* Mutant of ApplyHalFails: the error is returned without a fail-off.
ApplyHalFailsLit(req, k, stuck) ==
  /\ initialized
  /\ ~fail_off_barrier
  /\ k < channel_count
  /\ duty' = Driven(req, k)
  /\ ret' = "HAL_ERROR"
  /\ UNCHANGED <<lamp, claimed>>

\* hal_pwm_set_duty() fails after the first k channels took their new duty.
ApplyHalFails(req, k, stuck) ==
  /\ initialized
  /\ ~fail_off_barrier
  /\ k < channel_count
  /\ FailOff(Driven(req, k), stuck)
  /\ ret' = FailOffStatus(stuck, "HAL_ERROR")
  /\ UNCHANGED <<initialized, pins, channel_count, fail_off_barrier, claimed>>

\* Mutant of ApplySucceeds: the barrier is not consulted.
ApplyIgnoresBarrier(req) ==
  /\ initialized
  /\ duty' = Driven(req, channel_count)
  /\ applied' = [applied EXCEPT !.output_active = TRUE]
  /\ ret' = "OK"
  /\ UNCHANGED <<initialized, pins, channel_count, fail_off_barrier, claimed>>

ApplySucceeds(req) ==
  /\ initialized
  /\ ~fail_off_barrier
  /\ duty' = Driven(req, channel_count)
  /\ applied' = [power         |-> req.power,
                 brightness    |-> req.brightness,
                 rgb           |-> req.rgb,
                 output_active |-> /\ req.power
                                   /\ req.brightness > 0
                                   /\ \/ channel_count = 1
                                      \/ \E i \in Index : req.rgb[i] # 0]
  /\ ret' = "OK"
  /\ UNCHANGED <<initialized, pins, channel_count, fail_off_barrier, claimed>>

\* Mutant of lamp_control_apply_state: the range of the brightness is not checked.
ApplyUnchecked(req) == ApplySucceeds(req)

lamp_control_apply_state(req) ==
  \/ ApplyUninitialized
  \/ \E stuck \in SUBSET Tracked :
       \/ ApplyBlocked(stuck)
       \/ ApplyInvalid("INVALID_ARGUMENT", stuck)
       \/ req.brightness > MaxBrightness /\ ApplyInvalid("OUT_OF_RANGE", stuck)
       \/ /\ req.brightness <= MaxBrightness
          /\ \E k \in 0..(MaxChannels - 1) : ApplyHalFails(req, k, stuck)
  \/ req.brightness <= MaxBrightness /\ ApplySucceeds(req)
-----------------------------------------------------------------------------
(* lamp_control_force_inactive, _release_fail_off, _deinit *)

\* Mutant of lamp_control_force_inactive: the barrier is latched before the fail-off
\* is known to have worked.
ForceInactiveLatchesFirst(stuck) ==
  /\ initialized
  /\ FailOff(duty, stuck)
  /\ ret' = FailOffStatus(stuck, "OK")
  /\ fail_off_barrier' = TRUE
  /\ UNCHANGED <<initialized, pins, channel_count, claimed>>

\* The barrier is latched only by a fail-off the hardware confirmed.
lamp_control_force_inactive(stuck) ==
  /\ IF initialized
     THEN /\ FailOff(duty, stuck)
          /\ ret' = FailOffStatus(stuck, "OK")
          /\ fail_off_barrier' = (fail_off_barrier \/ stuck = {})
     ELSE /\ ret' = "NOT_INITIALIZED"
          /\ UNCHANGED <<duty, applied, fail_off_barrier>>
  /\ UNCHANGED <<initialized, pins, channel_count, claimed>>

lamp_control_release_fail_off ==
  /\ fail_off_barrier' = FALSE
  /\ ret' = "OK"
  /\ UNCHANGED <<initialized, pins, channel_count, applied, hal>>

\* Mutant of DeinitPartly: the lamp counts as released although channels were kept.
DeinitForgetsKept(kept, at, stuck) ==
  LET still == Kept(pins, kept, at) IN
  /\ initialized
  /\ initialized' = FALSE
  /\ channel_count' = 0
  /\ pins' = [i \in Index |-> NoPin]
  /\ claimed' = claimed \ (Tracked \ still)
  /\ duty' = Inactive(duty, Tracked \ stuck)
  /\ applied' = AppliedOff
  /\ ret' = "HAL_ERROR"
  /\ UNCHANGED fail_off_barrier

\* Every channel is released; the kept ones (at their old positions at[..]) move
\* to the front of the array, are forced inactive and wait for a retry.
DeinitPartly(kept, at, stuck) ==
  LET still == Kept(pins, kept, at) IN
  /\ initialized
  /\ stuck \subseteq still
  /\ channel_count' = kept
  /\ pins' = Compacted(pins, kept, at)
  /\ claimed' = claimed \ (Tracked \ still)
  /\ duty' = Inactive(duty, Tracked \ stuck)
  /\ applied' = [applied EXCEPT !.output_active = @ /\ stuck # {}]
  /\ ret' = FailOffStatus(stuck, "HAL_ERROR")
  /\ UNCHANGED <<initialized, fail_off_barrier>>

DeinitSucceeds ==
  /\ initialized
  /\ initialized' = FALSE
  /\ channel_count' = 0
  /\ pins' = [i \in Index |-> NoPin]
  /\ claimed' = claimed \ Tracked
  /\ duty' = Inactive(duty, Tracked)
  /\ applied' = AppliedOff
  /\ ret' = "OK"
  /\ UNCHANGED fail_off_barrier

lamp_control_deinit ==
  \/ ~initialized /\ ret' = "NOT_INITIALIZED" /\ UNCHANGED <<lamp, hal>>
  \/ DeinitSucceeds
  \/ \E kept \in 1..channel_count : \E at \in Compactions(kept, channel_count) :
       \E stuck \in SUBSET Kept(pins, kept, at) : DeinitPartly(kept, at, stuck)
-----------------------------------------------------------------------------
Next ==
  \/ lamp_control_init
  \/ \E req \in Requests : lamp_control_apply_state(req)
  \/ \E stuck \in SUBSET Tracked : lamp_control_force_inactive(stuck)
  \/ lamp_control_release_fail_off
  \/ lamp_control_deinit

Spec == Init /\ [][Next]_vars
-----------------------------------------------------------------------------
(* Properties *)

(***************************************************************************)
(* No channel emits light that the module cannot reach: whatever failed    *)
(* releases, rollbacks and compactions of the pin array went before, a lit *)
(* channel is claimed at the HAL and still among the tracked ones, so a    *)
(* retry of the fail-off can switch it off.                                *)
(***************************************************************************)
LitIsTracked == \A p \in Lit : initialized /\ p \in Tracked /\ p \in claimed

(***************************************************************************)
(* After any sequence of partial releases the module drives each pin from  *)
(* one channel only, has claimed each pin it drives, and has a channel     *)
(* exactly when it is initialized.                                         *)
(***************************************************************************)
ChannelsConsistent ==
  /\ initialized <=> channel_count > 0
  /\ Tracked \subseteq claimed
  /\ \A i, j \in 1..channel_count : i # j => pins[i] # pins[j]

(***************************************************************************)
(* While the fail-off barrier is latched every channel is dark, also after *)
(* applies that were waiting for the lock, and after deinit and its        *)
(* partial failures.                                                       *)
(***************************************************************************)
BarrierMeansDark == fail_off_barrier => Lit = {}

\* The calls that may not fail with the light on.
FailSafeCall ==
  \/ \E req \in Requests : lamp_control_apply_state(req)
  \/ \E stuck \in SUBSET Tracked : lamp_control_force_inactive(stuck)
  \/ lamp_control_deinit
  \/ ~initialized /\ lamp_control_init

(***************************************************************************)
(* An apply (with a request or with NULL), a force-inactive or a deinit    *)
(* that returns anything but LAMP_OK or LAMP_ERR_FAIL_OFF has left no      *)
(* channel on: "a failed safety action is never reported as a successful   *)
(* shutdown".  The same holds of an initialization of an uninitialized     *)
(* lamp.  One of an initialized lamp is excluded: it is refused before it  *)
(* touches the hardware, and the light stays as it was.                    *)
(***************************************************************************)
FailureMeansDark ==
  [][ret' \notin {"OK", "FAIL_OFF"} /\ Lit' # {} => ~FailSafeCall]_vars

(***************************************************************************)
(* The electrical flag drops only in a step after which every channel is   *)
(* dark: a fail-off is recorded once the HAL has confirmed it on all       *)
(* channels, never on some of them.                                        *)
(***************************************************************************)
FlagDropsOnlyWhenDark ==
  [][applied.output_active /\ ~applied'.output_active => Lit' = {}]_vars

\* The contract the rest of the firmware builds on.
Contract == INSTANCE FailOff WITH Channels <- Pins, lit <- Lit,
                                  barrier <- fail_off_barrier

(***************************************************************************)
(* Every operation of the module, with every pattern of HAL failures,      *)
(* respects the fail-off contract: light appears only while the barrier is *)
(* down, and no re-enable, release or initialization lights a channel.     *)
(***************************************************************************)
ImplementsFailOff == Contract!Spec
=============================================================================
