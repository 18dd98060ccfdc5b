--------------------------- MODULE MCYamaPlanner ---------------------------
(* Values of the constants of YamaPlanner for TLC. *)
EXTENDS YamaPlanner

CONSTANTS a, b, c

Copia == {<<a, b>>, <<b, c>>, <<a, SinNodo>>, <<SinNodo, c>>}

(* Every list shape that matters: one node, two in both orders, a change of *)
(* node at equal length, and all three.                                     *)
ListasMC == {<<a>>, <<a, b>>, <<b, a>>, <<a, c>>, <<a, b, c>>, <<c, a, b>>}

(* The last one is a file that two nodes hold whole: the clock goes past    *)
(* two refills of their availability.                                       *)
ArchivosMC == [1 .. 2 -> Copia] \cup [1 .. 3 -> {<<a, b>>, <<SinNodo, c>>}]
                \cup {[i \in 1 .. 5 |-> <<a, b>>]}

Fun(x, y, z) == [n \in Nodos |-> IF n = a THEN x ELSE IF n = b THEN y ELSE z]

CargasMC == {<<Fun(0, 0, 0), Fun(0, 0, 0)>>, <<Fun(1, -1, 2), Fun(2, 0, 2)>>}
=============================================================================
