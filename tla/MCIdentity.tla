------------------------------ MODULE MCIdentity ------------------------------
(* The identity for TLC. *)
EXTENDS Identity
================================================================================
