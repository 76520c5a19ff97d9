---------------------------- MODULE MCLampControl ----------------------------
(* A board with three PWM pins, and requests at the boundaries of the range. *)
(* Brightness 1 with colour 1 is the pair that rounds to a duty of 0. *)
EXTENDS LampControl, TLC

MCBrightness == {0, 1, 101}
MCColours    == {0, 1, 255}

\* The pins are interchangeable: no definition tells them apart.
PinSymmetry == Permutations(Pins)
=============================================================================
