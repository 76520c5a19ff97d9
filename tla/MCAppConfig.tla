------------------------------ MODULE MCAppConfig ------------------------------
(* The configuration store for TLC: two documents in place, two more commits. *)
EXTENDS AppConfig
================================================================================
