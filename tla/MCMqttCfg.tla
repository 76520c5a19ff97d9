------------------------------ MODULE MCMqttCfg ------------------------------
(* Two generations already wrap; three poll steps let an attempt fail, be   *)
(* retried by the client and answer before the timeout. *)
EXTENDS MqttCfg

MCMaxGen   == 2
MCMaxPolls == 3
=============================================================================
