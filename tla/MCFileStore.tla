----------------------------- MODULE MCFileStore -----------------------------
(* Values of the constants of FileStore for TLC. *)
EXTENDS FileStore

CONSTANTS n1, n2

DosNodos  == <<n1, n2>>
Desparejos == [n \in Nodos |-> IF n = n1 THEN 1 ELSE 2]
Tamanios  == [n \in Nodos |-> IF n = n1 THEN 2 ELSE 3]
=============================================================================
