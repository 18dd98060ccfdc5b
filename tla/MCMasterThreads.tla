-------------------------- MODULE MCMasterThreads --------------------------
(* Values of the constants of MasterThreads for TLC. *)
EXTENDS MasterThreads, TLC

CONSTANTS ta, tb, tc, td, rl, rg, af, n1, n2

(* Two transformations on n1 and one on n2, whose local reduction may run   *)
(* beside them; if n1 fails its blocks go to n2; then the last two stages.  *)
EtapaMC == (ta :> "T") @@ (tb :> "T") @@ (tc :> "T") @@ (td :> "T")
           @@ (rl :> "RL") @@ (rg :> "RG") @@ (af :> "AF")
NodoMC  == (ta :> n1) @@ (tb :> n1) @@ (tc :> n2) @@ (td :> n2)
           @@ (rl :> n2) @@ (rg :> n2) @@ (af :> n2)

Orden(hs, tras, caidos) == [hilos |-> hs, tras |-> tras, caidos |-> caidos]

PaquetesMC == <<Orden(<<ta, tb, tc>>, {{}}, {}),
                Orden(<<td>>, {{}}, {n1}),
                Orden(<<rl>>, {{tc}}, {}),
                Orden(<<rg>>, {{ta, tb, tc, rl}, {tc, td, rl}}, {}),
                Orden(<<af>>, {{ta, tb, tc, rl, rg}, {tc, td, rl, rg}}, {})>>
=============================================================================
