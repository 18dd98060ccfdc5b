------------------------------- MODULE MCWorker -------------------------------
(* Values of the constants of Worker for TLC: a job on two nodes, the first *)
(* of them with two blocks and in charge of the global reduction.           *)
EXTENDS Worker, TLC

CONSTANTS n1, n2, ta, tb, tc, la, lc, gr, af

ElNodo  == ta :> n1 @@ tb :> n1 @@ tc :> n2 @@ la :> n1 @@ lc :> n2 @@ gr :> n1 @@ af :> n1
LaEtapa == ta :> "T" @@ tb :> "T" @@ tc :> "T" @@ la :> "RL" @@ lc :> "RL" @@ gr :> "RG" @@ af :> "AF"
LoTras  == ta :> {} @@ tb :> {} @@ tc :> {} @@ la :> {ta, tb} @@ lc :> {tc} @@ gr :> {la, lc} @@ af :> {gr}

Texto(s) == [k \in DOMAIN s |-> <<s[k], 1>>]
Bloques(a, b, c) == ta :> Texto(a) @@ tb :> Texto(b) @@ tc :> Texto(c)
De(bloques, fallan, l1, pide, segundos, forks) ==
  [bloque |-> bloques, fallan |-> fallan, rompen |-> {}, limite |-> (n1 :> l1 @@ n2 :> 9), pide |-> pide,
   caen |-> {}, segundos |-> segundos, forks |-> forks]

Todos == Pedidos
EnUno == Pedidos \ {tc, lc}
UnBloque == Pedidos \ {tb}
(* Blocks that share words; one whose words are all dropped; a result of a  *)
(* page; scripts that fail; commands that fail; workers that are stopped;   *)
(* forks that fail; a parent with few descriptors; one node only, and time  *)
(* that passes.                                                             *)
LosMundos ==
  {De(Bloques(<<2, 1, 3>>, <<2, 0>>, <<3>>), f, 9, EnUno, 1, 0) : f \in {{ta}, {la}, {gr}}}
  \cup {[De(Bloques(<<2, 1>>, <<2, 0>>, <<3>>), {}, 9, EnUno, 1, 0) EXCEPT !.rompen = {p}] : p \in {ta, la, gr}}
  \cup {[De(Bloques(<<3>>, <<>>, <<2>>), {}, 9, UnBloque, 1, 0) EXCEPT !.caen = s] : s \in {{n1}, {n2}}}
  \cup {De(Bloques(<<1>>, <<1>>, <<0>>), {}, 9, Todos, 1, 0),
        De(Bloques(<<3, 1>>, <<>>, <<2, 1>>), {}, 9, UnBloque, 1, 0)}
  \cup {De(Bloques(<<1>>, <<2>>, <<1>>), {}, l, EnUno, 1, 1) : l \in {2, 4}}
  \cup {De(Bloques(<<3, 1>>, <<0, 3>>, <<1>>), {}, 9, EnUno \ {af}, 2, 0)}
=============================================================================
