----------------------------- MODULE YamaPlanner -----------------------------
(***************************************************************************)
(* The planning of one job after another by YAMA: the clock of             *)
(* YAMA/src/funcionesYAMA.c (planificar, llenarArrayPlanificador,          *)
(* verificarCondicion, avanzoPosicion, asignoBloque), the part of          *)
(* YAMA/src/server.c that calls it for OP_INIT_JOB, and the SIGUSR1        *)
(* handler of YAMA/src/YAMA.c that may interrupt it at any point to        *)
(* reload the balancing algorithm.                                         *)
(*                                                                         *)
(* Positions of the clock and block numbers are counted from 0, as in the  *)
(* code; sequences start at 1, hence the "+ 1" when one is indexed.        *)
(***************************************************************************)
EXTENDS Integers, Sequences, FiniteSets

CONSTANTS
  Nodos,          \* names of data nodes
  SinNodo,        \* the NULL name of a missing copy
  DispBase,       \* DISP_BASE of the configuration
  Algoritmos,     \* values of ALGORITMO_BALANCEO the operator may write
  ListasActivas,  \* the lists of active nodes the file system may answer
  Archivos,       \* the files, each a sequence of pairs of copies, by block
  MaxGiro,        \* bound on the counters of a search that cannot end
  CargaTope,      \* bound on the load of a node, an int that YamaJobs shows may go below 0
  Cargas          \* the loads a planning may find: pairs of functions
                  \* <<cargaActual, cargaHistorica>> over Nodos

ASSUME PlannerAssumption ==
  /\ IsFiniteSet(Nodos) /\ SinNodo \notin Nodos
  /\ DispBase \in Nat \ {0}
  /\ "CLOCK" \in Algoritmos
  /\ ListasActivas \subseteq Seq(Nodos) \ {<<>>}
  /\ \A act \in ListasActivas : \A i, j \in 1 .. Len(act) : act[i] = act[j] => i = j
  /\ Archivos \subseteq Seq((Nodos \cup {SinNodo}) \X (Nodos \cup {SinNodo})) \ {<<>>}
  /\ MaxGiro \in Nat /\ CargaTope \in Nat
  /\ Cargas \subseteq [Nodos -> -CargaTope .. CargaTope] \X [Nodos -> Nat]

VARIABLES
  fase,              \* where YAMA's only thread is in the handling of the job
  activos,           \* listaNodosActivos
  copias,            \* copies of each block of the requested file
  conocidos,         \* nodes with an entry in listaCargaPorNodo
  carga, historica,  \* cargaActual and cargaHistorica of those entries
  disp,              \* planificador[i].disponibilidad
  listas,            \* planificador[i].bloque
  pos, bloque,       \* locals of planificar
  contador,          \* contadorBloquesSeguidosNoAsignados, a static
  asignoTodo,        \* asigneBloquesDeArchivo, a static
  algoritmo,         \* algoritmoBalanceo
  archivoAlg,        \* ALGORITMO_BALANCEO as the configuration file has it
  entreAPlanificar, recibiSenial,
  perdida            \* history: a signal came between the reload and the clearing
                     \* of recibiSenial, and no reload has happened since

pedido == <<activos, copias, conocidos, carga, historica>>
reloj  == <<disp, listas, pos, bloque, contador, asignoTodo>>
senal  == <<algoritmo, archivoAlg, entreAPlanificar, recibiSenial, perdida>>
vars   == <<fase, pedido, reloj, senal>>

Fases == {"libre", "llenar", "plan", "senal", "borrar", "cerrar", "caido"}

NumNodos   == Len(activos)
Posiciones == 0 .. NumNodos - 1
NumBloques == Len(copias)

Init ==
  /\ fase = "libre"
  /\ activos = <<>> /\ copias = <<>> /\ conocidos = {}
  /\ carga = [n \in Nodos |-> 0] /\ historica = [n \in Nodos |-> 0]
  /\ disp = [p \in Posiciones |-> 0] /\ listas = [p \in Posiciones |-> <<>>]
  /\ pos = 0 /\ bloque = 0 /\ contador = 0 /\ asignoTodo = FALSE
  /\ algoritmo = "CLOCK" /\ archivoAlg = "CLOCK"
  /\ entreAPlanificar = FALSE /\ recibiSenial = FALSE /\ perdida = FALSE

-----------------------------------------------------------------------------
(* The request.  The answer of the file system replaces listaNodosActivos; *)
(* completarPrimeraVez enters nodes in the load table only the first time  *)
(* and when there are more active nodes than entries.  Since the previous  *)
(* planning other jobs ended and were replanned, so the loads are any.     *)
(* The file system answers with every file it has: nothing makes sure that *)
(* each block has a copy on one of the active nodes of that answer.        *)

(* Mutant of CompletarPrimeraVez: nodes are entered the first time only. *)
CompletarPrimeraVezMutado(act) ==
  IF conocidos = {} THEN {act[i] : i \in 1 .. Len(act)} ELSE conocidos

CompletarPrimeraVez(act) ==
  LET nuevos == {act[i] : i \in 1 .. Len(act)}
  IN IF conocidos = {} \/ Len(act) > Cardinality(conocidos)
     THEN conocidos \cup nuevos ELSE conocidos

RecibirPedido ==
  /\ fase = "libre"
  /\ \E act \in ListasActivas, arch \in Archivos, c \in Cargas :
       /\ activos' = act
       /\ copias' = arch
       /\ conocidos' = CompletarPrimeraVez(act)
       /\ carga' = c[1]
       /\ historica' = c[2]
       /\ disp' = [p \in 0 .. Len(act) - 1 |-> 0]
       /\ listas' = [p \in 0 .. Len(act) - 1 |-> <<>>]
  /\ pos' = 0
  /\ bloque' = 0
  /\ entreAPlanificar' = TRUE
  /\ fase' = "llenar"
  /\ UNCHANGED <<contador, asignoTodo, algoritmo, archivoAlg, recibiSenial, perdida>>

-----------------------------------------------------------------------------
(* llenarArrayPlanificador: the availability of every active node, and the *)
(* position the clock starts from.  A node without an entry in the load    *)
(* table makes cargaActual or obtenerHistorico read through NULL.          *)

CargaMaxima == CHOOSE m \in {carga[n] : n \in conocidos} : \A n \in conocidos : carga[n] <= m

Disponibilidad(n) ==
  IF algoritmo = "CLOCK" THEN DispBase ELSE DispBase + (CargaMaxima - carga[n])

(* The greatest availability; among those, the smallest history; among     *)
(* those, the first.                                                       *)
EsPosicionInicial(p) ==
  \A q \in Posiciones :
    LET hp == historica[activos[p + 1]]
        hq == historica[activos[q + 1]]
    IN \/ disp'[q] < disp'[p]
       \/ disp'[q] = disp'[p] /\ (hp < hq \/ (hp = hq /\ p <= q))

LlenarArray ==
  /\ fase = "llenar"
  /\ \A p \in Posiciones : activos[p + 1] \in conocidos
  /\ disp' = [p \in Posiciones |-> Disponibilidad(activos[p + 1])]
  /\ \E p \in Posiciones : EsPosicionInicial(p) /\ pos' = p
  /\ fase' = "plan"
  /\ UNCHANGED <<pedido, listas, bloque, contador, asignoTodo, senal>>

NodoSinCarga ==
  /\ fase = "llenar"
  /\ \E p \in Posiciones : activos[p + 1] \notin conocidos
  /\ fase' = "caido"
  /\ UNCHANGED <<pedido, reloj, senal>>

-----------------------------------------------------------------------------
(* One turn of the loop of planificar: the hand goes back to 0 at the end  *)
(* of the array and verificarCondicion takes one of three branches.        *)

Mano == IF pos = NumNodos THEN 0 ELSE pos

TieneCopia(b, n) == n \in {copias[b + 1][1], copias[b + 1][2]}

EnPlan == fase = "plan" /\ ~asignoTodo

Hospedado(b) == \E p \in Posiciones : TieneCopia(b, activos[p + 1])

(* For a block that no active node holds the loop has no end, and either   *)
(* the counter or the availabilities grow in it without limit: MaxGiro     *)
(* stops them there, and only there.                                       *)
GiroAcotado == Hospedado(bloque) \/ (contador < MaxGiro /\ \A p \in Posiciones : disp[p] < MaxGiro)

(* Mutants of RecargoDisponibilidad: the node gets nothing back; nor does  *)
(* the hand move on.                                                       *)
RecargoDisponibilidadMutadoNada ==
  /\ EnPlan /\ GiroAcotado
  /\ disp[Mano] = 0
  /\ pos' = Mano + 1
  /\ contador' = contador + 1
  /\ UNCHANGED <<fase, pedido, disp, listas, bloque, asignoTodo, senal>>

RecargoDisponibilidadMutadoQuieto ==
  /\ EnPlan /\ GiroAcotado
  /\ disp[Mano] = 0
  /\ pos' = Mano
  /\ UNCHANGED <<fase, pedido, disp, listas, bloque, contador, asignoTodo, senal>>

(* The node under the hand has no availability left: it gets the base back *)
(* and is passed over.                                                     *)
RecargoDisponibilidad ==
  /\ EnPlan /\ GiroAcotado
  /\ disp[Mano] = 0
  /\ disp' = [disp EXCEPT ![Mano] = DispBase]
  /\ pos' = Mano + 1
  /\ contador' = contador + 1
  /\ UNCHANGED <<fase, pedido, listas, bloque, asignoTodo, senal>>

(* Mutants of AsignoBloque: the end of the file comes one block early; the *)
(* copy is not looked at.                                                  *)
AsignoBloqueMutadoFin ==
  /\ EnPlan
  /\ disp[Mano] # 0
  /\ TieneCopia(bloque, activos[Mano + 1])
  /\ disp' = [disp EXCEPT ![Mano] = @ - 1]
  /\ listas' = [listas EXCEPT ![Mano] = Append(@, bloque)]
  /\ bloque' = bloque + 1
  /\ asignoTodo' = (bloque + 2 = NumBloques)
  /\ pos' = Mano + 1
  /\ contador' = 0
  /\ UNCHANGED <<fase, pedido, senal>>

AsignoBloqueMutadoSinCopia ==
  /\ EnPlan
  /\ disp[Mano] # 0
  /\ disp' = [disp EXCEPT ![Mano] = @ - 1]
  /\ listas' = [listas EXCEPT ![Mano] = Append(@, bloque)]
  /\ bloque' = bloque + 1
  /\ asignoTodo' = (bloque + 1 = NumBloques)
  /\ pos' = Mano + 1
  /\ contador' = 0
  /\ UNCHANGED <<fase, pedido, senal>>

AsignoBloque ==
  /\ EnPlan
  /\ disp[Mano] # 0
  /\ TieneCopia(bloque, activos[Mano + 1])
  /\ disp' = [disp EXCEPT ![Mano] = @ - 1]
  /\ listas' = [listas EXCEPT ![Mano] = Append(@, bloque)]
  /\ bloque' = bloque + 1
  /\ asignoTodo' = (bloque + 1 = NumBloques)
  /\ pos' = Mano + 1
  /\ contador' = 0
  /\ UNCHANGED <<fase, pedido, senal>>

(* Passed over for want of a copy: after a whole turn of nodes passed over *)
(* everybody's availability grows.  The test is an equality.               *)
AvanzoPosicion ==
  /\ EnPlan /\ GiroAcotado
  /\ disp[Mano] # 0
  /\ ~TieneCopia(bloque, activos[Mano + 1])
  /\ pos' = Mano + 1
  /\ IF contador + 1 = NumNodos
     THEN /\ disp' = [p \in Posiciones |-> disp[p] + DispBase]
          /\ contador' = 0
     ELSE /\ contador' = contador + 1
          /\ UNCHANGED disp
  /\ UNCHANGED <<fase, pedido, listas, bloque, asignoTodo, senal>>

VerificarCondicion == RecargoDisponibilidad \/ AsignoBloque \/ AvanzoPosicion

(* planificar leaves its loop and clears the flag for the next file. *)
TerminarPlan ==
  /\ fase = "plan" /\ asignoTodo
  /\ asignoTodo' = FALSE
  /\ fase' = "senal"
  /\ UNCHANGED <<pedido, disp, listas, pos, bloque, contador, senal>>

-----------------------------------------------------------------------------
(* After the plan: a reload asked for meanwhile is done in two steps, and  *)
(* a signal may arrive between them.                                       *)

RecargarConfig ==
  /\ fase = "senal"
  /\ IF recibiSenial
     THEN /\ algoritmo' = archivoAlg
          /\ perdida' = FALSE
          /\ fase' = "borrar"
     ELSE /\ fase' = "cerrar"
          /\ UNCHANGED <<algoritmo, perdida>>
  /\ UNCHANGED <<pedido, reloj, archivoAlg, entreAPlanificar, recibiSenial>>

BorrarSenial ==
  /\ fase = "borrar"
  /\ recibiSenial' = FALSE
  /\ fase' = "cerrar"
  /\ UNCHANGED <<pedido, reloj, algoritmo, archivoAlg, entreAPlanificar, perdida>>

(* entreAPlanificar goes down and the stages are sent to the master. *)
CerrarPlan ==
  /\ fase = "cerrar"
  /\ entreAPlanificar' = FALSE
  /\ fase' = "libre"
  /\ UNCHANGED <<pedido, reloj, algoritmo, archivoAlg, recibiSenial, perdida>>

(* Mutant of Trapper: the signal is dropped during a plan. *)
TrapperMutadoSordo(a) ==
  /\ fase # "caido"
  /\ archivoAlg' = a
  /\ IF entreAPlanificar
     THEN /\ perdida' = (perdida \/ fase = "borrar")
          /\ UNCHANGED <<algoritmo, recibiSenial>>
     ELSE /\ algoritmo' = a
          /\ recibiSenial' = FALSE
          /\ perdida' = FALSE
  /\ UNCHANGED <<fase, pedido, reloj, entreAPlanificar>>

(* SIGUSR1, after the operator wrote a in the configuration file: trapper  *)
(* leaves the reload for later while a plan is being made.                 *)
Trapper(a) ==
  /\ fase # "caido"
  /\ archivoAlg' = a
  /\ IF entreAPlanificar
     THEN /\ recibiSenial' = TRUE
          /\ perdida' = (perdida \/ fase = "borrar")
          /\ UNCHANGED algoritmo
     ELSE /\ algoritmo' = a
          /\ recibiSenial' = FALSE
          /\ perdida' = FALSE
  /\ UNCHANGED <<fase, pedido, reloj, entreAPlanificar>>

Planificar == \/ LlenarArray \/ NodoSinCarga
              \/ VerificarCondicion \/ TerminarPlan
              \/ RecargarConfig \/ BorrarSenial \/ CerrarPlan

Next == \/ RecibirPedido
        \/ Planificar
        \/ \E a \in Algoritmos : Trapper(a)

(* The thread that runs the plan keeps running; requests and signals come  *)
(* when they come.                                                         *)
Spec == Init /\ [][Next]_vars /\ WF_vars(Planificar)

-----------------------------------------------------------------------------
(* The variables stay in their domains: availability never goes below      *)
(* zero, the hand is in the array or just past its end.                    *)
TypeOK ==
  /\ fase \in Fases
  /\ activos \in {<<>>} \cup ListasActivas
  /\ copias \in {<<>>} \cup Archivos
  /\ conocidos \subseteq Nodos
  /\ carga \in [Nodos -> -CargaTope .. CargaTope] /\ historica \in [Nodos -> Nat]
  /\ disp \in [Posiciones -> Nat]
  /\ listas \in [Posiciones -> Seq(Nat)]
  /\ pos \in 0 .. NumNodos
  /\ bloque \in 0 .. NumBloques
  /\ contador \in Nat
  /\ asignoTodo \in BOOLEAN
  /\ algoritmo \in Algoritmos /\ archivoAlg \in Algoritmos
  /\ entreAPlanificar \in BOOLEAN /\ recibiSenial \in BOOLEAN /\ perdida \in BOOLEAN

(* Block b is on the list of the node at position p. *)
EnLista(b, p) == \E k \in 1 .. Len(listas[p]) : listas[p][k] = b

(* A block is planned only on a node that holds a copy of it. *)
PlanLocal ==
  \A p \in Posiciones : \A k \in 1 .. Len(listas[p]) :
    listas[p][k] \in 0 .. bloque - 1 /\ TieneCopia(listas[p][k], activos[p + 1])

(* No block is planned twice, on two nodes or on the same one. *)
PlanSinRepetir ==
  \A p, q \in Posiciones : \A k \in 1 .. Len(listas[p]), l \in 1 .. Len(listas[q]) :
    listas[p][k] = listas[q][l] => p = q /\ k = l

(* Every block the clock has passed is on some list; when planificar       *)
(* returns these are all the blocks of the file.                           *)
PlanCompleto ==
  /\ \A b \in 0 .. bloque - 1 : \E p \in Posiciones : EnLista(b, p)
  /\ fase \in {"senal", "borrar", "cerrar"} => bloque = NumBloques

PlanCorrecto == PlanLocal /\ PlanSinRepetir /\ PlanCompleto

(* The statics that survive from one planning to the next are clean when a *)
(* planning starts: otherwise the clock would count the nodes the previous *)
(* file passed over, or leave its loop before the first block.             *)
EstaticasLimpias == fase \notin {"plan", "caido"} => contador = 0 /\ ~asignoTodo

(* The variables keep their types, a plan being made is correct and the    *)
(* statics start clean.                                                    *)
PlanSano == TypeOK /\ PlanCorrecto /\ EstaticasLimpias

(* A block that has a holder is found before the hand goes round twice.    *)
(* The counter may step over NumNodos, because only avanzoPosicion looks.  *)
BusquedaAcotada == EnPlan /\ Hospedado(bloque) => contador < 2 * NumNodos

(* When every active node holds every block, the clock is fair: a node     *)
(* that started with no more availability than another never gets ahead of *)
(* it by more than one block.                                              *)
EquilibrioReloj ==
  (fase \in {"plan", "senal"} /\ \A b \in 0 .. NumBloques - 1, p \in Posiciones :
                                   TieneCopia(b, activos[p + 1]))
  => \A p, q \in Posiciones :
       Disponibilidad(activos[p + 1]) <= Disponibilidad(activos[q + 1])
       => Len(listas[p]) <= Len(listas[q]) + 1

(* The search is bounded and shares the work out: whatever the counter     *)
(* steps over, no node waits for blocks that another one is given.         *)
RelojJusto == BusquedaAcotada /\ EquilibrioReloj

(* YAMA reads through NULL only when the active nodes changed without      *)
(* outnumbering the table, which completarPrimeraVez then leaves as it is. *)
CaidaSoloPorTablaVieja ==
  fase = "caido" => /\ \E p \in Posiciones : activos[p + 1] \notin conocidos
                    /\ NumNodos <= Cardinality(conocidos)

(* A change of algorithm the operator signalled is in force, or pending,   *)
(* or it fell in the window between the reload and the clearing of the     *)
(* flag: no other order of signal and planning loses it.                   *)
ConfigVigente == algoritmo # archivoAlg => recibiSenial \/ perdida

(* The algorithm does not change under a plan in the making. *)
AlgoritmoEstable == [][(fase \in {"llenar", "plan"}) => algoritmo' = algoritmo]_vars

(* The hand has come to a block without a copy on an active node. *)
Huerfano == EnPlan /\ ~Hospedado(bloque)

(* Planning ends, or YAMA's only thread goes round for ever looking for a  *)
(* block that no active node holds: nothing else keeps it in the loop.     *)
PlanTermina == (fase = "llenar") ~> (fase \in {"libre", "caido"} \/ []Huerfano)

-----------------------------------------------------------------------------
(* The clock implements the abstract planning. *)
Abstracto == INSTANCE BlockPlan WITH
  abierto <- fase \in {"llenar", "plan", "caido"},
  duenos  <- [b \in 0 .. NumBloques - 1 |->
                {n \in Nodos : /\ TieneCopia(b, n)
                               /\ \E p \in Posiciones : activos[p + 1] = n}],
  plan    <- {bn \in (0 .. bloque - 1) \X Nodos :
                \E p \in Posiciones : activos[p + 1] = bn[2] /\ EnLista(bn[1], p)}

ImplementaBlockPlan == Abstracto!Spec
=============================================================================
