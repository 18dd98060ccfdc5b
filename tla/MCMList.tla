------------------------------ MODULE MCMList ------------------------------
(* Values of the constants of MList for TLC. *)
EXTENDS MList, TLC

CONSTANTS hilo1, hilo2

(* The order in which nodes are created is not that of their elements. *)
Claves == <<2, 4, 1, 3>>

(* The two threads run the same operations. *)
Iguales == Permutations(Hilos)
=============================================================================
