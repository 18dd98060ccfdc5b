----------------------------- MODULE MCYamaJobs -----------------------------
(* Values of the constants of YamaJobs for TLC. *)
EXTENDS YamaJobs

CONSTANTS a, b, c

C(n, k) == [nodo |-> n, blk |-> k]

(* Both blocks on both nodes. *)
ArchivoDos == <<<<C(a, 0), C(b, 0)>>, <<C(b, 1), C(a, 2)>>>>

(* One block on both nodes. *)
ArchivoUno == <<<<C(a, 0), C(b, 0)>>>>

VariasDos   == {<<a, b>>, <<b>>, <<>>}

(* And a node that holds no block. *)
VariasTres  == VariasDos \cup {<<c>>}
=============================================================================
