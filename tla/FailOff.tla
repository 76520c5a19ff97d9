------------------------------- MODULE FailOff -------------------------------
(***************************************************************************)
(* What the lamp-control component promises to the rest of the firmware,   *)
(* without its hardware details: a set of channels that emit light, and    *)
(* the fail-off barrier that an explicit force-inactive latches.  While    *)
(* the barrier is latched nothing lights up; only the re-enable transition *)
(* lifts it, and that transition lights nothing by itself.                 *)
(***************************************************************************)
CONSTANT Channels  \* the PWM outputs of the board

VARIABLES
  lit,             \* the channels that are electrically on
  barrier          \* the fail-off barrier

vars == <<lit, barrier>>

TypeOK ==
  /\ lit \in SUBSET Channels
  /\ barrier \in BOOLEAN

Init ==
  /\ lit = {}
  /\ barrier = FALSE

\* An apply that reaches the hardware, completely or in part.
Energize ==
  /\ ~barrier
  /\ lit' \in SUBSET Channels
  /\ UNCHANGED barrier

\* A best-effort fail-off, or a release of the outputs.
Quench ==
  /\ lit' \in SUBSET lit
  /\ UNCHANGED barrier

\* A fail-off the hardware confirmed, requested explicitly.
Latch ==
  /\ lit' = {}
  /\ barrier' = TRUE

\* The re-enable transition, or a fresh initialization.
Reenable ==
  /\ lit' \in SUBSET lit
  /\ barrier' = FALSE

Next == Energize \/ Quench \/ Latch \/ Reenable

Spec == Init /\ [][Next]_vars

(***************************************************************************)
(* While the fail-off barrier is latched no channel is on: the endpoint of *)
(* every disconnect is "output off and no later apply may re-enable it".   *)
(***************************************************************************)
BarrierMeansDark == barrier => lit = {}
=============================================================================
