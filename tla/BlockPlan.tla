------------------------------ MODULE BlockPlan ------------------------------
(***************************************************************************)
(* What planning a job promises, without saying how it is done.  A request *)
(* names, for each block of a file, the active nodes that hold a copy of   *)
(* it; the plan grows by giving one block still without a node to one of   *)
(* its holders, and is delivered when every block has its node.            *)
(*                                                                         *)
(* YamaPlanner, the clock of YAMA/src/funcionesYAMA.c, implements it.      *)
(***************************************************************************)
EXTENDS Naturals

CONSTANT Nodos            \* the names of the data nodes

VARIABLES abierto,        \* a request is being planned
          duenos,         \* block index -> active nodes with a copy of it
          plan            \* set of <<block, node>> decided so far

vars == <<abierto, duenos, plan>>

Bloques == DOMAIN duenos

Asignado(b) == \E n \in Nodos : <<b, n>> \in plan

Init == /\ abierto = FALSE
        /\ plan = {}

(* A master asks for a job over a file.  A block of it may have no holder  *)
(* among the active nodes: that plan is never delivered.                   *)
Pedir == /\ ~abierto
         /\ abierto' = TRUE
         /\ plan' = {}
         /\ \A b \in DOMAIN duenos' : duenos'[b] \subseteq Nodos

(* One block is given to one of the active nodes that hold it. *)
Asignar(b, n) == /\ abierto
                 /\ b \in Bloques
                 /\ n \in duenos[b]
                 /\ ~Asignado(b)
                 /\ plan' = plan \cup {<<b, n>>}
                 /\ UNCHANGED <<abierto, duenos>>

(* The complete plan is sent to the master. *)
Entregar == /\ abierto
            /\ \A b \in Bloques : Asignado(b)
            /\ abierto' = FALSE
            /\ UNCHANGED <<duenos, plan>>

Next == \/ Pedir
        \/ \E b \in Bloques, n \in Nodos : Asignar(b, n)
        \/ Entregar

Spec == Init /\ [][Next]_vars
=============================================================================
