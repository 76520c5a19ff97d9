---------------------------- MODULE MCSupervisor ----------------------------
(* The budgets of the product: five retries, three rejections, two failed *)
(* connects.  The adapter stores up to eight events; at most two ever queue up. *)
EXTENDS Supervisor

MCMaxRetries       == 5
MCAuthThreshold    == 3
MCFallbackAttempts == 2
MCMaxFifo          == 8
=============================================================================
