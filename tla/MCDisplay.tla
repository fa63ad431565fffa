----------------------------- MODULE MCDisplay ------------------------------
(* DisplayHandshake for TLC. *)
EXTENDS DisplayHandshake
=============================================================================
