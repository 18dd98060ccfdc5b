---------------------------- MODULE MCFilePartition ----------------------------
(* Values of the constants of FilePartition for TLC. *)
EXTENDS FilePartition, TLC

CONSTANTS MaxLinea, MaxLineas, MaxBytes

(* Bytes are numbered along the file, so that each has a place of its own. *)
Linea(k, largo) == [j \in 1 .. largo |-> 100 * k + j]
ConCero(linea, p) == [linea EXCEPT ![p] = NUL]

Textos ==
  {[tipo |-> "texto", lineas |-> [k \in 1 .. n |-> Linea(k, largos[k])]] :
     <<n, largos>> \in UNION {{n} \X [1 .. n -> 1 .. MaxLinea] : n \in 1 .. MaxLineas}}
(* The first 64 bytes of a text have no 0 (path_istext). *)
TextosConCero ==
  {[tipo |-> "texto", lineas |-> <<Linea(1, 2), ConCero(Linea(2, largo), p), Linea(3, 3)>>] :
     <<largo, p>> \in {x \in (1 .. MaxLinea) \X (1 .. MaxLinea) : x[2] <= x[1]}}
Binarios == {[tipo |-> "binario", lineas |-> <<Linea(1, n)>>] : n \in 1 .. MaxBytes}

Vacio == [tipo |-> "binario", lineas |-> <<>>]

Todos == Textos \cup TextosConCero \cup Binarios \cup {Vacio}
OtrosArchivos == SUBSET {0, 1}
=============================================================================
