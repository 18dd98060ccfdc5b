---------------------------- MODULE MCNodeHandler ----------------------------
(* Values of the constants of NodeHandler for TLC. *)
EXTENDS NodeHandler

CONSTANTS a, b

DosNodos == <<a, b>>
=============================================================================
