--------------------------- MODULE MCTbApplication ---------------------------
(* The level of the indicator and one that is dark: every distinction the   *)
(* lamp makes.  Two attempts reach both the backoff and the parked session. *)
EXTENDS TbApplication

MCLevels         == {0, 30}
MCIndicatorLevel == 30
MCMaxRetries     == 2
=============================================================================
