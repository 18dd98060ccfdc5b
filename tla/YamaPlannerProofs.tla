------------------------- MODULE YamaPlannerProofs -------------------------
(***************************************************************************)
(* Theorems about YamaPlanner, for every value of its constants.           *)
(***************************************************************************)
EXTENDS YamaPlanner, WellFoundedInduction, FiniteSetTheorems, TLAPS

-----------------------------------------------------------------------------
(* A non-empty set of integers that stays below a bound has a greatest     *)
(* element: the one nearest to the bound, by the well-foundedness of Nat.  *)
LEMMA HayMaximo ==
  ASSUME NEW S \in SUBSET Int, NEW t \in Int, S # {}, \A x \in S : x <= t
  PROVE  \E m \in S : \A x \in S : x <= m
<1> DEFINE D == {t - x : x \in S}
<1>1. D \subseteq Nat /\ D # {}
  <2>1. \A x \in S : t - x \in Nat
    OBVIOUS
  <2>2. PICK x \in S : TRUE
    OBVIOUS
  <2>3. t - x \in D
    OBVIOUS
  <2> QED
    BY <2>1, <2>3
<1>2. PICK d \in D : \A e \in D : ~ (<<e, d>> \in OpToRel(<, Nat))
  <2> HIDE DEF D
  <2> QED
    BY <1>1, NatLessThanWellFounded, WFMin
<1>3. PICK m \in S : d = t - m
  BY <1>2
<1>4. ASSUME NEW x \in S PROVE x <= m
  <2>1. t - x \in D /\ t - x \in Nat /\ d \in Nat
    BY <1>1, <1>2
  <2>2. ~ (<<t - x, d>> \in OpToRel(<, Nat))
    BY <1>2, <2>1
  <2>3. ~ (t - x < d)
    BY <2>1, <2>2 DEF OpToRel
  <2> QED
    BY <1>3, <2>3
<1> QED
  BY <1>4

(* obtenerCargaMaxima is at least the load of every known node, so WCLOCK  *)
(* never makes the availability of one smaller than the base.              *)
LEMMA DisponibilidadNatural ==
  ASSUME TypeOK, NEW n \in conocidos
  PROVE  Disponibilidad(n) \in Nat
<1> DEFINE S == {carga[k] : k \in conocidos}
<1>1. /\ S \subseteq Int /\ carga[n] \in S
      /\ \A x \in S : x <= CargaTope
      /\ CargaTope \in Nat /\ DispBase \in Nat
  BY PlannerAssumption DEF TypeOK
<1>2. PICK m \in S : \A x \in S : x <= m
  <2>1. S \in SUBSET Int /\ S # {} /\ CargaTope \in Int /\ \A x \in S : x <= CargaTope
    BY <1>1
  <2> HIDE DEF S
  <2> QED
    BY <2>1, HayMaximo
<1>3. CargaMaxima \in S /\ \A k \in conocidos : carga[k] <= CargaMaxima
  BY <1>2 DEF CargaMaxima
<1>4. CargaMaxima \in Int /\ carga[n] \in Int /\ carga[n] <= CargaMaxima
  BY <1>1, <1>3
<1>5. CASE algoritmo = "CLOCK"
  BY <1>1, <1>5 DEF Disponibilidad
<1>6. CASE algoritmo # "CLOCK"
  <2> DEFINE M == CargaMaxima
  <2>1. DispBase + (M - carga[n]) \in Nat
    <3> HIDE DEF M
    <3> QED BY <1>1, <1>4 DEF M
  <2> QED
    BY <1>6, <2>1 DEF Disponibilidad
<1> QED
  BY <1>5, <1>6

-----------------------------------------------------------------------------
(* The inductive invariant.  Beyond the property itself it says in which   *)
(* phases there is a request, that a plan starts with nothing planned, and *)
(* what the statics of the clock are between plans and when a plan is full.*)

EnCurso == fase # "libre" => activos \in ListasActivas /\ copias \in Archivos

Centinelas ==
  /\ fase = "llenar" => bloque = 0
  /\ fase = "plan" => (asignoTodo <=> bloque = NumBloques)
  /\ fase \in {"senal", "borrar", "cerrar"} => bloque = NumBloques
  /\ fase # "plan" => ~asignoTodo
  /\ (fase # "plan" \/ asignoTodo) => contador = 0

Planificados == \A b \in 0 .. bloque - 1 : \E p \in Posiciones : EnLista(b, p)

IInv == /\ TypeOK /\ EnCurso /\ Centinelas
        /\ PlanLocal /\ PlanSinRepetir /\ Planificados

(* A request names at least one node and has at least one block. *)
LEMMA HayNodosYBloques ==
  ASSUME activos \in ListasActivas, copias \in Archivos
  PROVE  NumNodos \in Nat \ {0} /\ NumBloques \in Nat \ {0}
BY PlannerAssumption DEF NumNodos, NumBloques

LEMMA InvInicial == Init => IInv
<1> SUFFICES ASSUME Init PROVE IInv
  OBVIOUS
<1> USE DEF Init
<1>1. Posiciones = {} /\ NumNodos = 0 /\ NumBloques = 0
  BY DEF Posiciones, NumNodos, NumBloques
<1>2. TypeOK
  <2>1. carga \in [Nodos -> -CargaTope .. CargaTope] /\ historica \in [Nodos -> Nat]
    BY PlannerAssumption
  <2>2. disp \in [Posiciones -> Nat] /\ listas \in [Posiciones -> Seq(Nat)]
    BY <1>1
  <2>3. pos \in 0 .. NumNodos /\ bloque \in 0 .. NumBloques
    BY <1>1
  <2> QED
    BY <2>1, <2>2, <2>3, PlannerAssumption DEF TypeOK, Fases
<1>3. EnCurso /\ Centinelas
  BY DEF EnCurso, Centinelas
<1>4. PlanLocal /\ PlanSinRepetir /\ Planificados
  BY <1>1 DEF PlanLocal, PlanSinRepetir, Planificados
<1> QED
  BY <1>2, <1>3, <1>4 DEF IInv

(* A request that arrives brings an empty plan. *)
LEMMA InvRecibirPedido == IInv /\ RecibirPedido => IInv'
<1> SUFFICES ASSUME IInv, RecibirPedido PROVE IInv'
  OBVIOUS
<1>1. /\ activos' \in ListasActivas /\ copias' \in Archivos
      /\ disp' = [p \in Posiciones' |-> 0] /\ listas' = [p \in Posiciones' |-> <<>>]
      /\ pos' = 0 /\ bloque' = 0 /\ fase' = "llenar"
      /\ carga' \in [Nodos -> -CargaTope .. CargaTope] /\ historica' \in [Nodos -> Nat]
  BY PlannerAssumption DEF RecibirPedido, Posiciones, NumNodos
<1>2. conocidos' \subseteq Nodos
  <2>1. PICK act \in ListasActivas : conocidos' = CompletarPrimeraVez(act)
    BY DEF RecibirPedido
  <2>2. {act[i] : i \in 1 .. Len(act)} \subseteq Nodos
    BY PlannerAssumption
  <2>3. conocidos \subseteq Nodos
    BY DEF IInv, TypeOK
  <2> QED
    BY <2>1, <2>2, <2>3 DEF CompletarPrimeraVez
<1>3. NumNodos' \in Nat \ {0} /\ NumBloques' \in Nat \ {0}
  BY <1>1, PlannerAssumption DEF NumNodos, NumBloques
<1>4. TypeOK'
  BY <1>1, <1>2, <1>3 DEF RecibirPedido, IInv, TypeOK, Fases
<1>5. EnCurso' /\ Centinelas'
  BY <1>1, <1>3 DEF RecibirPedido, IInv, EnCurso, Centinelas
<1>6. PlanLocal' /\ PlanSinRepetir' /\ Planificados'
  BY <1>1 DEF PlanLocal, PlanSinRepetir, Planificados
<1> QED
  BY <1>4, <1>5, <1>6 DEF IInv

(* What the plan says depends only on the request, the lists and the block *)
(* the clock is at.                                                        *)
LEMMA PlanIgual ==
  ASSUME PlanLocal, PlanSinRepetir, Planificados, UNCHANGED <<activos, copias, listas, bloque>>
  PROVE  PlanLocal' /\ PlanSinRepetir' /\ Planificados'
<1>1. Posiciones' = Posiciones
  BY DEF Posiciones, NumNodos
<1>2. PlanLocal'
  BY <1>1 DEF PlanLocal, TieneCopia
<1>3. PlanSinRepetir'
  BY <1>1 DEF PlanSinRepetir
<1>4. Planificados'
  BY <1>1 DEF Planificados, EnLista
<1> QED
  BY <1>2, <1>3, <1>4

LEMMA InvLlenarArray == IInv /\ LlenarArray => IInv'
<1> SUFFICES ASSUME IInv, LlenarArray PROVE IInv'
  OBVIOUS
<1>1. /\ UNCHANGED <<activos, copias, conocidos, carga, historica, listas, bloque, contador, asignoTodo>>
      /\ UNCHANGED <<algoritmo, archivoAlg, entreAPlanificar, recibiSenial, perdida>>
      /\ fase = "llenar" /\ fase' = "plan" /\ pos' \in Posiciones
  BY DEF LlenarArray, pedido, senal
<1>2. NumNodos' = NumNodos /\ NumBloques' = NumBloques /\ Posiciones' = Posiciones
  BY <1>1 DEF NumNodos, NumBloques, Posiciones
<1>3. NumNodos \in Nat \ {0} /\ NumBloques \in Nat \ {0}
  BY <1>1, HayNodosYBloques DEF IInv, EnCurso
<1>4. disp' \in [Posiciones -> Nat]
  BY DisponibilidadNatural DEF LlenarArray, IInv
<1>5. TypeOK'
  BY <1>1, <1>2, <1>3, <1>4 DEF IInv, TypeOK, Fases, Posiciones
<1>6. EnCurso' /\ Centinelas'
  BY <1>1, <1>2, <1>3 DEF IInv, EnCurso, Centinelas
<1>7. PlanLocal' /\ PlanSinRepetir' /\ Planificados'
  BY <1>1, PlanIgual DEF IInv
<1> QED
  BY <1>5, <1>6, <1>7 DEF IInv

(* The hand always points at a node. *)
LEMMA ManoEnElArreglo ==
  ASSUME IInv, EnPlan
  PROVE  /\ Mano \in Posiciones /\ Mano + 1 \in 0 .. NumNodos
         /\ NumNodos \in Nat \ {0} /\ bloque \in 0 .. NumBloques - 1
         /\ NumBloques \in Nat
<1>1. NumNodos \in Nat \ {0} /\ NumBloques \in Nat \ {0}
  BY HayNodosYBloques DEF IInv, EnCurso, EnPlan
<1>2. pos \in 0 .. NumNodos /\ bloque \in 0 .. NumBloques /\ bloque # NumBloques
  BY DEF IInv, TypeOK, EnPlan, Centinelas
<1> QED
  BY <1>1, <1>2 DEF Mano, Posiciones

(* The two turns that only move the hand and change availabilities. *)
LEMMA InvPasarDeLargo ==
  ASSUME IInv, RecargoDisponibilidad \/ AvanzoPosicion
  PROVE  IInv'
<1>1. EnPlan /\ fase = "plan" /\ ~asignoTodo
  BY DEF RecargoDisponibilidad, AvanzoPosicion, EnPlan
<1>2. /\ UNCHANGED <<fase, activos, copias, conocidos, carga, historica, listas, bloque, asignoTodo>>
      /\ UNCHANGED <<algoritmo, archivoAlg, entreAPlanificar, recibiSenial, perdida>>
      /\ pos' = Mano + 1
  BY DEF RecargoDisponibilidad, AvanzoPosicion, pedido, senal
<1>3. NumNodos' = NumNodos /\ NumBloques' = NumBloques /\ Posiciones' = Posiciones
  BY <1>2 DEF NumNodos, NumBloques, Posiciones
<1>4. contador' \in Nat
  BY DEF RecargoDisponibilidad, AvanzoPosicion, IInv, TypeOK
<1>5. disp' \in [Posiciones -> Nat]
  <2>1. DispBase \in Nat /\ disp \in [Posiciones -> Nat]
    BY PlannerAssumption DEF IInv, TypeOK
  <2>2. CASE RecargoDisponibilidad
    BY <2>1, <2>2 DEF RecargoDisponibilidad
  <2>3. CASE AvanzoPosicion
    BY <2>1, <2>3 DEF AvanzoPosicion
  <2> QED
    BY <2>2, <2>3
<1>6. TypeOK'
  BY <1>1, <1>2, <1>3, <1>4, <1>5, ManoEnElArreglo DEF IInv, TypeOK
<1>7. EnCurso' /\ Centinelas'
  BY <1>1, <1>2, <1>3 DEF IInv, EnCurso, Centinelas
<1>8. PlanLocal' /\ PlanSinRepetir' /\ Planificados'
  BY <1>2, PlanIgual DEF IInv
<1> QED
  BY <1>6, <1>7, <1>8 DEF IInv

(* After a block is given out, a place of a list is an old one or the new  *)
(* one, at the end of the list under the hand.                             *)
LEMMA LugaresTrasAsignar ==
  ASSUME IInv, AsignoBloque
  PROVE  /\ listas' \in [Posiciones -> Seq(Nat)]
         /\ \A p \in Posiciones : \A k \in 1 .. Len(listas[p]) :
              k \in 1 .. Len(listas'[p]) /\ listas'[p][k] = listas[p][k]
         /\ Len(listas[Mano]) + 1 \in 1 .. Len(listas'[Mano])
         /\ listas'[Mano][Len(listas[Mano]) + 1] = bloque
         /\ \A p \in Posiciones : \A k \in 1 .. Len(listas'[p]) :
              \/ k \in 1 .. Len(listas[p])
              \/ p = Mano /\ k = Len(listas[Mano]) + 1
<1>1. Mano \in Posiciones /\ bloque \in Nat
  BY ManoEnElArreglo DEF AsignoBloque
<1>2. listas \in [Posiciones -> Seq(Nat)]
  BY DEF IInv, TypeOK
<1>3. listas' = [listas EXCEPT ![Mano] = Append(@, bloque)]
  BY DEF AsignoBloque
<1>4. \A p \in Posiciones : listas[p] \in Seq(Nat) /\ (p # Mano => listas'[p] = listas[p])
  BY <1>2, <1>3
<1>5. listas'[Mano] = Append(listas[Mano], bloque)
  BY <1>1, <1>2, <1>3
<1>6. /\ Len(listas'[Mano]) = Len(listas[Mano]) + 1 /\ Len(listas[Mano]) \in Nat
      /\ listas'[Mano][Len(listas[Mano]) + 1] = bloque
      /\ \A k \in 1 .. Len(listas[Mano]) : listas'[Mano][k] = listas[Mano][k]
  BY <1>1, <1>4, <1>5
<1>7. listas' \in [Posiciones -> Seq(Nat)]
  BY <1>1, <1>2, <1>3
<1>8. ASSUME NEW p \in Posiciones, NEW k \in 1 .. Len(listas[p])
      PROVE  k \in 1 .. Len(listas'[p]) /\ listas'[p][k] = listas[p][k]
  BY <1>4, <1>6
<1>9. Len(listas[Mano]) + 1 \in 1 .. Len(listas'[Mano])
  BY <1>6
<1>10. ASSUME NEW p \in Posiciones, NEW k \in 1 .. Len(listas'[p])
       PROVE  k \in 1 .. Len(listas[p]) \/ (p = Mano /\ k = Len(listas[Mano]) + 1)
  BY <1>4, <1>6
<1> QED
  BY <1>6, <1>7, <1>8, <1>9, <1>10

LEMMA InvAsignoBloque == IInv /\ AsignoBloque => IInv'
<1> SUFFICES ASSUME IInv, AsignoBloque PROVE IInv'
  OBVIOUS
<1> DEFINE m == Mano
           fin == Len(listas[m]) + 1
<1>1. /\ UNCHANGED <<fase, activos, copias, conocidos, carga, historica>>
      /\ UNCHANGED <<algoritmo, archivoAlg, entreAPlanificar, recibiSenial, perdida>>
      /\ fase = "plan" /\ contador' = 0 /\ pos' = m + 1 /\ bloque' = bloque + 1
      /\ asignoTodo' = (bloque + 1 = NumBloques) /\ disp[m] # 0
      /\ disp' = [disp EXCEPT ![m] = @ - 1] /\ TieneCopia(bloque, activos[m + 1])
  BY DEF AsignoBloque, EnPlan, pedido, senal
<1>2. NumNodos' = NumNodos /\ NumBloques' = NumBloques /\ Posiciones' = Posiciones
  BY <1>1 DEF NumNodos, NumBloques, Posiciones
<1>3. m \in Posiciones /\ m + 1 \in 0 .. NumNodos /\ bloque \in 0 .. NumBloques - 1 /\ NumBloques \in Nat
  BY ManoEnElArreglo DEF AsignoBloque
<1>4. disp' \in [Posiciones -> Nat]
  BY <1>1, <1>3 DEF IInv, TypeOK
<1>5. TypeOK'
  <2>1. listas' \in [Posiciones' -> Seq(Nat)]
    BY <1>2, LugaresTrasAsignar
  <2>2. bloque' \in 0 .. NumBloques' /\ pos' \in 0 .. NumNodos'
    BY <1>1, <1>2, <1>3
  <2> QED
    BY <1>1, <1>2, <1>4, <2>1, <2>2 DEF IInv, TypeOK
<1>6. EnCurso' /\ Centinelas'
  BY <1>1, <1>2 DEF IInv, EnCurso, Centinelas
<1>7. \A p \in Posiciones : \A k \in 1 .. Len(listas'[p]) :
        \/ /\ k \in 1 .. Len(listas[p]) /\ listas'[p][k] = listas[p][k]
           /\ listas[p][k] \in 0 .. bloque - 1
        \/ p = m /\ k = fin /\ listas'[p][k] = bloque
  BY LugaresTrasAsignar DEF IInv, PlanLocal
<1>8. PlanLocal'
  <2> SUFFICES ASSUME NEW p \in Posiciones, NEW k \in 1 .. Len(listas'[p])
               PROVE  /\ listas'[p][k] \in 0 .. bloque
                      /\ TieneCopia(listas'[p][k], activos[p + 1])
    BY <1>1, <1>2, <1>3 DEF PlanLocal, TieneCopia
  <2>1. CASE k \in 1 .. Len(listas[p]) /\ listas'[p][k] = listas[p][k]
    BY <2>1, <1>3 DEF IInv, PlanLocal
  <2>2. CASE p = m /\ listas'[p][k] = bloque
    BY <2>2, <1>1, <1>3
  <2> QED
    BY <1>7, <2>1, <2>2
<1>9. PlanSinRepetir'
  <2> SUFFICES ASSUME NEW p \in Posiciones, NEW q \in Posiciones,
                      NEW k \in 1 .. Len(listas'[p]), NEW l \in 1 .. Len(listas'[q]),
                      listas'[p][k] = listas'[q][l]
               PROVE  p = q /\ k = l
    BY <1>2 DEF PlanSinRepetir
  <2>1. CASE listas'[p][k] = bloque
    <3>1. /\ ~ (listas'[p][k] \in 0 .. bloque - 1)
          /\ ~ (listas'[q][l] \in 0 .. bloque - 1)
      BY <1>3, <2>1
    <3>2. p = m /\ k = fin /\ q = m /\ l = fin
      BY <1>7, <3>1
    <3> QED
      BY <3>2
  <2>2. CASE listas'[p][k] # bloque
    BY <1>7, <2>2 DEF IInv, PlanSinRepetir
  <2> QED
    BY <2>1, <2>2
<1>10. Planificados'
  <2> SUFFICES ASSUME NEW b \in 0 .. bloque
               PROVE  \E p \in Posiciones : \E k \in 1 .. Len(listas'[p]) : listas'[p][k] = b
    BY <1>1, <1>2, <1>3, SMTT(30) DEF Planificados, EnLista
  <2>1. CASE b = bloque
    BY <1>3, <2>1, LugaresTrasAsignar
  <2>2. CASE b # bloque
    <3>1. b \in 0 .. bloque - 1
      BY <1>3, <2>2
    <3>2. PICK p \in Posiciones : \E k \in 1 .. Len(listas[p]) : listas[p][k] = b
      BY <3>1 DEF IInv, Planificados, EnLista
    <3> QED
      BY <3>2, LugaresTrasAsignar
  <2> QED
    BY <2>1, <2>2
<1> QED
  BY <1>5, <1>6, <1>8, <1>9, <1>10 DEF IInv

LEMMA InvTerminarPlan == IInv /\ TerminarPlan => IInv'
<1> SUFFICES ASSUME IInv, TerminarPlan PROVE IInv'
  OBVIOUS
<1>1. /\ UNCHANGED <<activos, copias, conocidos, carga, historica, disp, listas, pos, bloque, contador>>
      /\ UNCHANGED <<algoritmo, archivoAlg, entreAPlanificar, recibiSenial, perdida>>
      /\ fase = "plan" /\ asignoTodo /\ asignoTodo' = FALSE /\ fase' = "senal"
  BY DEF TerminarPlan, pedido, senal
<1>2. NumNodos' = NumNodos /\ NumBloques' = NumBloques /\ Posiciones' = Posiciones
  BY <1>1 DEF NumNodos, NumBloques, Posiciones
<1>3. TypeOK'
  BY <1>1, <1>2 DEF IInv, TypeOK, Fases
<1>4. EnCurso' /\ Centinelas'
  BY <1>1, <1>2 DEF IInv, EnCurso, Centinelas
<1>5. PlanLocal' /\ PlanSinRepetir' /\ Planificados'
  BY <1>1, PlanIgual DEF IInv
<1> QED
  BY <1>3, <1>4, <1>5 DEF IInv

(* The steps that leave both the request and the clock alone: those of the *)
(* signal, the end of the handling and the read through NULL.              *)
LEMMA InvFueraDelReloj ==
  ASSUME IInv, UNCHANGED <<pedido, reloj>>,
         \/ NodoSinCarga \/ RecargarConfig \/ BorrarSenial \/ CerrarPlan
         \/ \E a \in Algoritmos : Trapper(a)
  PROVE  IInv'
<1>1. /\ UNCHANGED <<activos, copias, conocidos, carga, historica>>
      /\ UNCHANGED <<disp, listas, pos, bloque, contador, asignoTodo>>
  BY DEF pedido, reloj
<1>2. NumNodos' = NumNodos /\ NumBloques' = NumBloques /\ Posiciones' = Posiciones
  BY <1>1 DEF NumNodos, NumBloques, Posiciones
<1>3. /\ fase' \in Fases
      /\ algoritmo' \in Algoritmos /\ archivoAlg' \in Algoritmos
      /\ entreAPlanificar' \in BOOLEAN /\ recibiSenial' \in BOOLEAN /\ perdida' \in BOOLEAN
  BY DEF NodoSinCarga, RecargarConfig, BorrarSenial, CerrarPlan, Trapper, senal, IInv, TypeOK, Fases
<1>4. TypeOK'
  BY <1>1, <1>2, <1>3 DEF IInv, TypeOK
<1>5. EnCurso' /\ Centinelas'
  BY <1>1, <1>2 DEF NodoSinCarga, RecargarConfig, BorrarSenial, CerrarPlan, Trapper,
                    IInv, EnCurso, Centinelas
<1>6. PlanLocal' /\ PlanSinRepetir' /\ Planificados'
  BY <1>1, PlanIgual DEF IInv
<1> QED
  BY <1>4, <1>5, <1>6 DEF IInv

LEMMA InvQuieto == IInv /\ UNCHANGED vars => IInv'
<1> SUFFICES ASSUME IInv, UNCHANGED vars PROVE IInv'
  OBVIOUS
<1>1. /\ UNCHANGED <<fase, activos, copias, conocidos, carga, historica>>
      /\ UNCHANGED <<disp, listas, pos, bloque, contador, asignoTodo>>
      /\ UNCHANGED <<algoritmo, archivoAlg, entreAPlanificar, recibiSenial, perdida>>
  BY DEF vars, pedido, reloj, senal
<1>2. NumNodos' = NumNodos /\ NumBloques' = NumBloques /\ Posiciones' = Posiciones
  BY <1>1 DEF NumNodos, NumBloques, Posiciones
<1>3. TypeOK' /\ EnCurso' /\ Centinelas'
  BY <1>1, <1>2 DEF IInv, TypeOK, EnCurso, Centinelas
<1>4. PlanLocal' /\ PlanSinRepetir' /\ Planificados'
  BY <1>1, PlanIgual DEF IInv
<1> QED
  BY <1>3, <1>4 DEF IInv

(* Every step keeps the inductive invariant. *)
LEMMA InvPaso == IInv /\ [Next]_vars => IInv'
<1> SUFFICES ASSUME IInv, [Next]_vars PROVE IInv'
  OBVIOUS
<1>1. CASE RecibirPedido
  BY <1>1, InvRecibirPedido
<1>2. CASE LlenarArray
  BY <1>2, InvLlenarArray
<1>3. CASE VerificarCondicion
  BY <1>3, InvPasarDeLargo, InvAsignoBloque DEF VerificarCondicion
<1>4. CASE TerminarPlan
  BY <1>4, InvTerminarPlan
<1>5. CASE NodoSinCarga \/ RecargarConfig \/ BorrarSenial \/ CerrarPlan
  BY <1>5, InvFueraDelReloj DEF NodoSinCarga, RecargarConfig, BorrarSenial, CerrarPlan
<1>6. CASE \E a \in Algoritmos : Trapper(a)
  BY <1>6, InvFueraDelReloj DEF Trapper
<1>7. CASE UNCHANGED vars
  BY <1>7, InvQuieto
<1> QED
  BY <1>1, <1>2, <1>3, <1>4, <1>5, <1>6, <1>7 DEF Next, Planificar

THEOREM Invariante == Spec => []IInv
<1>1. Init => IInv
  BY InvInicial
<1>2. IInv /\ [Next]_vars => IInv'
  BY InvPaso
<1> QED
  BY <1>1, <1>2, PTL DEF Spec

(* planificar and what surrounds it keep every variable in its domain:     *)
(* availability, an unsigned of the code, never goes below zero.           *)
THEOREM TipoCorrecto == Spec => []TypeOK
<1>1. IInv => TypeOK
  BY DEF IInv
<1> QED
  BY <1>1, Invariante, PTL

(* The plan planificar makes is local, without repetitions, and complete   *)
(* when it returns, for any number of nodes, blocks, copies and loads.     *)
THEOREM PlanSiempreCorrecto == Spec => []PlanCorrecto
<1>1. IInv => PlanCorrecto
  BY DEF IInv, Centinelas, Planificados, PlanCorrecto, PlanCompleto
<1> QED
  BY <1>1, Invariante, PTL

(* The statics of the clock are clean whenever no plan is being made.      *)
THEOREM EstaticasSiempreLimpias == Spec => []EstaticasLimpias
<1>1. IInv => EstaticasLimpias
  BY DEF IInv, Centinelas, EstaticasLimpias
<1> QED
  BY <1>1, Invariante, PTL

(* The three together, which the run of the planner checks at once.        *)
THEOREM PlanSiempreSano == Spec => []PlanSano
<1>1. TypeOK /\ PlanCorrecto /\ EstaticasLimpias => PlanSano
  BY DEF PlanSano
<1> QED
  BY <1>1, TipoCorrecto, PlanSiempreCorrecto, EstaticasSiempreLimpias, PTL

-----------------------------------------------------------------------------
(* The reload of the configuration.  While a plan is being made            *)
(* entreAPlanificar is up, so the handler leaves the algorithm alone; the  *)
(* only order that loses a change is the one recorded in perdida.          *)

Ocupada == fase \in {"llenar", "plan", "senal", "borrar", "cerrar"}

SInv == /\ Ocupada => entreAPlanificar
        /\ ConfigVigente
        /\ fase = "borrar" => (algoritmo = archivoAlg \/ perdida)

LEMMA SInvInicial == Init => SInv
BY DEF Init, SInv, Ocupada, ConfigVigente

LEMMA SInvPaso == SInv /\ [Next]_vars => SInv'
<1> SUFFICES ASSUME SInv, [Next]_vars PROVE SInv'
  OBVIOUS
<1> USE DEF SInv, Ocupada, ConfigVigente
<1>1. CASE RecibirPedido
  BY <1>1 DEF RecibirPedido
<1>2. CASE LlenarArray \/ NodoSinCarga
  BY <1>2 DEF LlenarArray, NodoSinCarga, senal
<1>3. CASE VerificarCondicion \/ TerminarPlan
  BY <1>3 DEF VerificarCondicion, RecargoDisponibilidad, AsignoBloque, AvanzoPosicion,
              TerminarPlan, EnPlan, senal
<1>4. CASE RecargarConfig
  BY <1>4 DEF RecargarConfig
<1>5. CASE BorrarSenial
  BY <1>5 DEF BorrarSenial
<1>6. CASE CerrarPlan
  BY <1>6 DEF CerrarPlan
<1>7. CASE \E a \in Algoritmos : Trapper(a)
  <2>1. PICK a \in Algoritmos : Trapper(a)
    BY <1>7
  <2>2. CASE entreAPlanificar
    <3>1. recibiSenial' /\ fase' = fase /\ entreAPlanificar' /\ algoritmo' = algoritmo
      BY <2>1, <2>2 DEF Trapper
    <3>2. fase = "borrar" => perdida'
      BY <2>1, <2>2 DEF Trapper
    <3> QED
      BY <3>1, <3>2
  <2>3. CASE ~ entreAPlanificar
    BY <2>1, <2>3 DEF Trapper
  <2> QED
    BY <2>2, <2>3
<1>8. CASE UNCHANGED vars
  BY <1>8 DEF vars, senal
<1> QED
  BY <1>1, <1>2, <1>3, <1>4, <1>5, <1>6, <1>7, <1>8 DEF Next, Planificar

(* A change of algorithm that was signalled is in force, pending, or fell  *)
(* between the reload and the clearing of recibiSenial.                    *)
THEOREM ConfigNoSePierde == Spec => []ConfigVigente
<1>1. SInv => ConfigVigente
  BY DEF SInv
<1> QED
  BY <1>1, SInvInicial, SInvPaso, PTL DEF Spec

(* No step changes the algorithm under a plan in the making. *)
THEOREM AlgoritmoNoCambia == Spec => AlgoritmoEstable
<1>1. SInv /\ [Next]_vars => [(fase \in {"llenar", "plan"}) => algoritmo' = algoritmo]_vars
  <2> SUFFICES ASSUME SInv, Next, fase \in {"llenar", "plan"} PROVE algoritmo' = algoritmo
    BY DEF vars
  <2>1. entreAPlanificar
    BY DEF SInv, Ocupada
  <2> QED
    BY <2>1 DEF Next, Planificar, RecibirPedido, LlenarArray, NodoSinCarga, VerificarCondicion,
                RecargoDisponibilidad, AsignoBloque, AvanzoPosicion, TerminarPlan, RecargarConfig,
                BorrarSenial, CerrarPlan, Trapper, senal
<1> QED
  BY <1>1, SInvInicial, SInvPaso, PTL DEF Spec, AlgoritmoEstable

-----------------------------------------------------------------------------
(* The NULL read of llenarArrayPlanificador.                               *)

TInv == /\ fase = "llenar" => \/ \A p \in Posiciones : activos[p + 1] \in conocidos
                              \/ NumNodos <= Cardinality(conocidos)
        /\ CaidaSoloPorTablaVieja

LEMMA TInvRecibirPedido == TypeOK /\ RecibirPedido => TInv'
<1> SUFFICES ASSUME TypeOK, RecibirPedido PROVE TInv'
  OBVIOUS
<1>1. PICK act \in ListasActivas :
        activos' = act /\ conocidos' = CompletarPrimeraVez(act) /\ fase' = "llenar"
  BY DEF RecibirPedido
<1>2. CASE conocidos = {} \/ Len(act) > Cardinality(conocidos)
  <2>1. conocidos' = conocidos \cup {act[i] : i \in 1 .. Len(act)}
    BY <1>1, <1>2 DEF CompletarPrimeraVez
  <2>2. Len(act) \in Nat
    BY PlannerAssumption
  <2>3. \A p \in Posiciones' : activos'[p + 1] \in conocidos'
    BY <1>1, <2>1, <2>2 DEF Posiciones, NumNodos
  <2> QED
    BY <1>1, <2>3 DEF TInv, CaidaSoloPorTablaVieja
<1>3. CASE ~ (conocidos = {} \/ Len(act) > Cardinality(conocidos))
  <2>1. conocidos' = conocidos
    BY <1>1, <1>3 DEF CompletarPrimeraVez
  <2>2. Cardinality(conocidos) \in Nat /\ Len(act) \in Nat
    BY PlannerAssumption, FS_Subset, FS_CardinalityType DEF TypeOK
  <2>3. NumNodos' <= Cardinality(conocidos')
    BY <1>1, <1>3, <2>1, <2>2 DEF NumNodos
  <2> QED
    BY <1>1, <2>3 DEF TInv, CaidaSoloPorTablaVieja, NumNodos
<1> QED
  BY <1>2, <1>3

LEMMA TInvPaso == TypeOK /\ TInv /\ [Next]_vars => TInv'
<1> SUFFICES ASSUME TypeOK, TInv, [Next]_vars PROVE TInv'
  OBVIOUS
<1> USE DEF TInv, CaidaSoloPorTablaVieja
<1>1. CASE RecibirPedido
  BY <1>1, TInvRecibirPedido
<1>2. CASE LlenarArray
  BY <1>2 DEF LlenarArray
<1>3. CASE NodoSinCarga
  <2>1. Posiciones' = Posiciones /\ NumNodos' = NumNodos /\ activos' = activos /\ conocidos' = conocidos
    BY <1>3 DEF NodoSinCarga, pedido, Posiciones, NumNodos
  <2>2. fase = "llenar" /\ fase' = "caido" /\ \E p \in Posiciones : activos[p + 1] \notin conocidos
    BY <1>3 DEF NodoSinCarga
  <2> QED
    BY <2>1, <2>2
<1>4. CASE VerificarCondicion \/ TerminarPlan
  BY <1>4 DEF VerificarCondicion, RecargoDisponibilidad, AsignoBloque, AvanzoPosicion,
              TerminarPlan, EnPlan
<1>5. CASE RecargarConfig \/ BorrarSenial \/ CerrarPlan
  BY <1>5 DEF RecargarConfig, BorrarSenial, CerrarPlan
<1>6. CASE (\E a \in Algoritmos : Trapper(a)) \/ UNCHANGED vars
  <2>1. fase' = fase /\ activos' = activos /\ conocidos' = conocidos
    BY <1>6 DEF Trapper, vars, pedido
  <2>2. Posiciones' = Posiciones /\ NumNodos' = NumNodos
    BY <2>1 DEF Posiciones, NumNodos
  <2> QED
    BY <2>1, <2>2
<1> QED
  BY <1>1, <1>2, <1>3, <1>4, <1>5, <1>6 DEF Next, Planificar

(* YAMA reads through NULL only after the active nodes changed without     *)
(* outnumbering the load table.                                            *)
THEOREM CaidaConTablaVieja == Spec => []CaidaSoloPorTablaVieja
<1>1. Init => TInv
  BY DEF Init, TInv, CaidaSoloPorTablaVieja
<1>2. TInv => CaidaSoloPorTablaVieja
  BY DEF TInv
<1> QED
  BY <1>1, <1>2, TInvPaso, TipoCorrecto, PTL DEF Spec

-----------------------------------------------------------------------------
(* The clock implements BlockPlan.                                         *)

PlanA   == {bn \in (0 .. bloque - 1) \X Nodos :
              \E p \in Posiciones : activos[p + 1] = bn[2] /\ EnLista(bn[1], p)}
DuenosA == [b \in 0 .. NumBloques - 1 |->
              {n \in Nodos : TieneCopia(b, n) /\ \E p \in Posiciones : activos[p + 1] = n}]
AbiertoA == fase \in {"llenar", "plan", "caido"}

(* Every position of the clock has the name of a node. *)
LEMMA NombresDeNodos ==
  ASSUME TypeOK, NEW p \in Posiciones
  PROVE  activos[p + 1] \in Nodos
<1>1. activos \in Seq(Nodos) /\ p + 1 \in 1 .. Len(activos)
  BY PlannerAssumption DEF TypeOK, Posiciones, NumNodos
<1> QED
  BY <1>1

LEMMA AbstractoQuieto ==
  ASSUME UNCHANGED <<activos, copias, listas, bloque>>
  PROVE  PlanA' = PlanA /\ DuenosA' = DuenosA
<1>1. Posiciones' = Posiciones /\ NumBloques' = NumBloques
  BY DEF Posiciones, NumNodos, NumBloques
<1> QED
  BY <1>1 DEF PlanA, DuenosA, TieneCopia, EnLista

(* Giving out a block adds that block, on the node under the hand, to the  *)
(* abstract plan.                                                          *)
LEMMA AsignaAbstracto ==
  ASSUME IInv, AsignoBloque
  PROVE  /\ DuenosA' = DuenosA
         /\ PlanA' = PlanA \cup {<<bloque, activos[Mano + 1]>>}
         /\ activos[Mano + 1] \in DuenosA[bloque] /\ bloque \in 0 .. NumBloques - 1
         /\ \A n \in Nodos : <<bloque, n>> \notin PlanA
<1>1. UNCHANGED <<activos, copias>> /\ bloque' = bloque + 1 /\ TieneCopia(bloque, activos[Mano + 1])
  BY DEF AsignoBloque, pedido
<1>2. Posiciones' = Posiciones /\ NumBloques' = NumBloques
  BY <1>1 DEF Posiciones, NumNodos, NumBloques
<1>3. Mano \in Posiciones /\ bloque \in 0 .. NumBloques - 1 /\ NumBloques \in Nat
  BY ManoEnElArreglo DEF AsignoBloque
<1>4. activos[Mano + 1] \in Nodos
  BY <1>3, NombresDeNodos DEF IInv
<1>5. DuenosA' = DuenosA
  BY <1>1, <1>2 DEF DuenosA, TieneCopia
<1>6. activos[Mano + 1] \in DuenosA[bloque]
  BY <1>1, <1>3, <1>4 DEF DuenosA
<1>7. \A n \in Nodos : <<bloque, n>> \notin PlanA
  BY <1>3 DEF PlanA
<1>8. ASSUME NEW p \in Posiciones, NEW b \in 0 .. bloque - 1
      PROVE  EnLista(b, p)' <=> EnLista(b, p)
  <2>1. ASSUME EnLista(b, p) PROVE \E k \in 1 .. Len(listas'[p]) : listas'[p][k] = b
    BY <2>1, LugaresTrasAsignar DEF EnLista
  <2>2. ASSUME NEW k \in 1 .. Len(listas'[p]), listas'[p][k] = b PROVE EnLista(b, p)
    <3>1. k \in 1 .. Len(listas[p]) \/ listas'[p][k] = bloque
      BY LugaresTrasAsignar
    <3>2. k \in 1 .. Len(listas[p])
      BY <1>3, <2>2, <3>1
    <3> QED
      BY <2>2, <3>2, LugaresTrasAsignar DEF EnLista
  <2> QED
    BY <2>1, <2>2 DEF EnLista
<1>9. ASSUME NEW p \in Posiciones
      PROVE  (\E k \in 1 .. Len(listas'[p]) : listas'[p][k] = bloque) <=> p = Mano
  <2>1. ASSUME NEW k \in 1 .. Len(listas'[p]), listas'[p][k] = bloque, p # Mano PROVE FALSE
    <3>2. k \in 1 .. Len(listas[p]) /\ listas[p][k] = bloque
      BY <2>1, LugaresTrasAsignar
    <3>3. listas[p][k] \in 0 .. bloque - 1
      BY <3>2 DEF IInv, PlanLocal
    <3> QED
      BY <1>3, <3>2, <3>3
  <2>2. \E k \in 1 .. Len(listas'[Mano]) : listas'[Mano][k] = bloque
    BY LugaresTrasAsignar
  <2> QED
    BY <2>1, <2>2
<1>10. DOMAIN listas = Posiciones
  BY DEF IInv, TypeOK
<1> DEFINE n0 == activos[Mano + 1]
<1>11. ASSUME NEW b \in 0 .. bloque - 1, NEW n \in Nodos
       PROVE  <<b, n>> \in PlanA' <=> <<b, n>> \in PlanA
  <2>1. <<b, n>> \in PlanA <=> \E p \in Posiciones : activos[p + 1] = n /\ EnLista(b, p)
    BY DEF PlanA
  <2>2. b \in 0 .. bloque' - 1
    BY <1>1, <1>3
  <2>3. <<b, n>> \in PlanA' <=> \E p \in Posiciones : activos[p + 1] = n /\ EnLista(b, p)'
    BY <1>1, <1>2, <2>2 DEF PlanA
  <2> QED
    BY <1>8, <2>1, <2>3
<1>12. ASSUME NEW n \in Nodos
       PROVE  <<bloque, n>> \in PlanA' <=> n = n0
  <2>1. bloque \in 0 .. bloque' - 1
    BY <1>1, <1>3
  <2>2. <<bloque, n>> \in PlanA' <=>
          \E p \in Posiciones : /\ activos[p + 1] = n
                                /\ \E k \in 1 .. Len(listas'[p]) : listas'[p][k] = bloque
    BY <1>1, <1>2, <2>1 DEF PlanA, EnLista
  <2> QED
    BY <1>3, <1>9, <2>2
<1>13. PlanA \subseteq (0 .. bloque - 1) \X Nodos /\ PlanA' \subseteq (0 .. bloque) \X Nodos
  <2>1. bloque' - 1 = bloque
    BY <1>1, <1>3
  <2> QED
    BY <2>1 DEF PlanA
<1>14. PlanA' = PlanA \cup {<<bloque, n0>>}
  <2>1. ASSUME NEW x \in PlanA' PROVE x \in PlanA \cup {<<bloque, n0>>}
    <3>1. PICK b \in 0 .. bloque, n \in Nodos : x = <<b, n>>
      BY <1>13, <2>1
    <3>2. b \in 0 .. bloque - 1 \/ b = bloque
      BY <1>3, <3>1
    <3> QED
      BY <1>11, <1>12, <2>1, <3>1, <3>2
  <2>2. ASSUME NEW x \in PlanA PROVE x \in PlanA'
    <3>1. PICK b \in 0 .. bloque - 1, n \in Nodos : x = <<b, n>>
      BY <1>13, <2>2
    <3> QED
      BY <1>11, <2>2, <3>1
  <2>3. <<bloque, n0>> \in PlanA'
    BY <1>4, <1>12
  <2> QED
    BY <2>1, <2>2, <2>3
<1> QED
  BY <1>3, <1>5, <1>6, <1>7, <1>14

(* A request is a request of the abstract specification. *)
LEMMA PideAbstracto ==
  ASSUME RecibirPedido
  PROVE  /\ PlanA' = {}
         /\ \A b \in DOMAIN DuenosA' : DuenosA'[b] \subseteq Nodos
<1>1. PICK act \in ListasActivas, arch \in Archivos :
        activos' = act /\ copias' = arch /\ bloque' = 0
  BY DEF RecibirPedido
<1>2. PlanA' = {}
  BY <1>1 DEF PlanA
<1>4. Posiciones' = 0 .. Len(act) - 1 /\ NumBloques' = Len(arch)
  BY <1>1 DEF Posiciones, NumNodos, NumBloques
<1>6. DuenosA' = [b \in 0 .. Len(arch) - 1 |->
                    {n \in Nodos : /\ n \in {arch[b + 1][1], arch[b + 1][2]}
                                   /\ \E p \in 0 .. Len(act) - 1 : act[p + 1] = n}]
  BY <1>1, <1>4 DEF DuenosA, TieneCopia
<1> QED
  BY <1>2, <1>6

(* A finished clock has a node for every block. *)
LEMMA EntregaAbstracto ==
  ASSUME IInv, TerminarPlan
  PROVE  \A b \in DOMAIN DuenosA : \E n \in Nodos : <<b, n>> \in PlanA
<1>1. bloque = NumBloques /\ DOMAIN DuenosA = 0 .. NumBloques - 1
  BY DEF IInv, TerminarPlan, Centinelas, DuenosA
<1> SUFFICES ASSUME NEW b \in 0 .. bloque - 1 PROVE \E n \in Nodos : <<b, n>> \in PlanA
  BY <1>1
<1>2. PICK p \in Posiciones : EnLista(b, p)
  BY DEF IInv, Planificados
<1>3. activos[p + 1] \in Nodos
  BY NombresDeNodos DEF IInv
<1> QED
  BY <1>2, <1>3 DEF PlanA

(* Every step of the clock is a step of BlockPlan or changes nothing it    *)
(* sees.                                                                   *)
LEMMA PasoAbstracto == IInv /\ [Next]_vars => [Abstracto!Next]_Abstracto!vars
<1> SUFFICES ASSUME IInv, [Next]_vars PROVE [Abstracto!Next]_Abstracto!vars
  OBVIOUS
<1>1. Abstracto!vars = <<AbiertoA, DuenosA, PlanA>> /\ Abstracto!vars' = <<AbiertoA', DuenosA', PlanA'>>
  BY DEF Abstracto!vars, AbiertoA, DuenosA, PlanA
<1>2. CASE RecibirPedido
  <2>1. ~AbiertoA /\ AbiertoA' = TRUE
    BY <1>2 DEF RecibirPedido, AbiertoA
  <2>2. Abstracto!Pedir
    BY <1>2, <2>1, PideAbstracto DEF Abstracto!Pedir, AbiertoA, DuenosA, PlanA
  <2> QED
    BY <2>2 DEF Abstracto!Next
<1>3. CASE AsignoBloque
  <2>1. AbiertoA /\ UNCHANGED AbiertoA
    BY <1>3 DEF AsignoBloque, EnPlan, AbiertoA
  <2>2. activos[Mano + 1] \in Nodos /\ bloque \in DOMAIN DuenosA
    <3>1. activos[Mano + 1] \in DuenosA[bloque] /\ bloque \in 0 .. NumBloques - 1
      BY <1>3, AsignaAbstracto
    <3> QED
      BY <3>1 DEF DuenosA
  <2>3. PICK b, n : b = bloque /\ n = activos[Mano + 1]
    OBVIOUS
  <2>4. PlanA' = PlanA \cup {<<b, n>>} /\ DuenosA' = DuenosA
    BY <1>3, <2>3, AsignaAbstracto
  <2>5. b \in DOMAIN DuenosA /\ n \in DuenosA[b] /\ n \in Nodos
    BY <1>3, <2>2, <2>3, AsignaAbstracto
  <2>6. \A m \in Nodos : <<b, m>> \notin PlanA
    BY <1>3, <2>3, AsignaAbstracto
  <2>7. Abstracto!Asignar(b, n)
    BY <2>1, <2>4, <2>5, <2>6
    DEF Abstracto!Asignar, Abstracto!Bloques, Abstracto!Asignado, AbiertoA, DuenosA, PlanA
  <2>8. b \in Abstracto!Bloques
    BY <2>5 DEF Abstracto!Bloques, DuenosA
  <2> QED
    BY <2>5, <2>7, <2>8 DEF Abstracto!Next
<1>4. CASE TerminarPlan
  <2>1. AbiertoA /\ AbiertoA' = FALSE
    BY <1>4 DEF TerminarPlan, AbiertoA
  <2>2. UNCHANGED <<activos, copias, listas, bloque>>
    BY <1>4 DEF TerminarPlan, pedido
  <2>3. DuenosA' = DuenosA /\ PlanA' = PlanA
    BY <2>2, AbstractoQuieto
  <2>4. Abstracto!Entregar
    BY <1>4, <2>1, <2>3, EntregaAbstracto
    DEF Abstracto!Entregar, Abstracto!Bloques, Abstracto!Asignado, AbiertoA, DuenosA, PlanA
  <2> QED
    BY <2>4 DEF Abstracto!Next
<1>5. CASE UNCHANGED <<activos, copias, listas, bloque>> /\ UNCHANGED AbiertoA
  BY <1>1, <1>5, AbstractoQuieto
<1>6. CASE LlenarArray \/ NodoSinCarga \/ RecargoDisponibilidad \/ AvanzoPosicion
  <2>1. UNCHANGED <<activos, copias, listas, bloque>>
    BY <1>6 DEF LlenarArray, NodoSinCarga, RecargoDisponibilidad, AvanzoPosicion, pedido, reloj
  <2>2. UNCHANGED AbiertoA
    BY <1>6 DEF LlenarArray, NodoSinCarga, RecargoDisponibilidad, AvanzoPosicion, EnPlan, AbiertoA
  <2> QED
    BY <2>1, <2>2, <1>5
<1>7. CASE RecargarConfig \/ BorrarSenial \/ CerrarPlan
  BY <1>5, <1>7 DEF RecargarConfig, BorrarSenial, CerrarPlan, pedido, reloj, AbiertoA
<1>8. CASE (\E a \in Algoritmos : Trapper(a)) \/ UNCHANGED vars
  BY <1>5, <1>8 DEF Trapper, vars, pedido, reloj, AbiertoA
<1> QED
  BY <1>2, <1>3, <1>4, <1>6, <1>7, <1>8 DEF Next, Planificar, VerificarCondicion

(* The clock of YAMA plans as BlockPlan promises: block by block, each one *)
(* once and on an active node that holds it, and never half a file.        *)
THEOREM Refinamiento == Spec => ImplementaBlockPlan
<1>1. Init => Abstracto!Init
  BY DEF Init, Abstracto!Init
<1> QED
  BY <1>1, PasoAbstracto, Invariante, PTL DEF Spec, ImplementaBlockPlan, Abstracto!Spec

-----------------------------------------------------------------------------
(* The clock is bounded and fair: what its counter may reach while it looks *)
(* for a node, and how it shares out a file that every active node holds.   *)
(* What follows is the inductive invariant of that.                         *)

(* Turns until the hand is at position p. *)
Distancia(p) == IF p >= Mano THEN p - Mano ELSE p - Mano + NumNodos

(* A block held at some position is held at one that the hand reaches, with *)
(* availability left, before it has gone round twice since it was put down.*)
Alcanza(p) ==
  /\ TieneCopia(bloque, activos[p + 1])
  /\ disp[p] = 0 => contador + Distancia(p) < NumNodos
  /\ contador + Distancia(p) < 2 * NumNodos

Busqueda == EnPlan /\ Hospedado(bloque) => \E p \in Posiciones : Alcanza(p)

TodosTienen ==
  \A b \in 0 .. NumBloques - 1, p \in Posiciones : TieneCopia(b, activos[p + 1])

(* If s says how often each position got the base back, then each turn     *)
(* gave a block out or the base back; the positions still to be passed     *)
(* this time round have had one turn less than those behind the hand.      *)
Turnos(s, p) == Len(listas[p]) + s[p]

Recuperado(s, p) ==
  /\ Disponibilidad(activos[p + 1]) \in Nat
  /\ Len(listas[p]) + disp[p] = Disponibilidad(activos[p + 1]) + s[p] * DispBase
  /\ s[p] > 0 => disp[p] <= DispBase

Reparto(s) ==
  /\ \A p \in Posiciones : Recuperado(s, p)
  /\ \A p, q \in Posiciones :
       /\ Turnos(s, p) <= Turnos(s, q) + 1
       /\ Distancia(p) <= Distancia(q) => Turnos(s, p) <= Turnos(s, q)

Equilibrio ==
  fase \in {"plan", "senal"} /\ TodosTienen => \E s \in [Posiciones -> Nat] : Reparto(s)

RInv == Busqueda /\ Equilibrio

-----------------------------------------------------------------------------
(* The hand. *)

(* In a turn the hand passes to the next position: the one it leaves is     *)
(* now the farthest, and every other one is a turn nearer.                 *)
LEMMA PasaLaMano ==
  ASSUME IInv, EnPlan, pos' = Mano + 1, NumNodos' = NumNodos, NEW m, m = Mano
  PROVE  /\ NumNodos \in Nat \ {0} /\ m \in Posiciones
         /\ \A p \in Posiciones : Distancia(p) \in 0 .. NumNodos - 1
         /\ \A p \in Posiciones : Distancia(p) = 0 <=> p = m
         /\ Distancia(m)' = NumNodos - 1
         /\ \A p \in Posiciones : p # m => Distancia(p)' = Distancia(p) - 1
<1>1. m \in Posiciones /\ NumNodos \in Nat \ {0} /\ Posiciones = 0 .. NumNodos - 1
  BY ManoEnElArreglo DEF Posiciones
<1>2. Mano' = IF Mano + 1 = NumNodos THEN 0 ELSE Mano + 1
  BY DEF Mano
<1>a. PICK k : k = Mano'
  OBVIOUS
<1>3. /\ \A p \in Posiciones : Distancia(p) = IF p >= m THEN p - m ELSE p - m + NumNodos
      /\ \A p \in Posiciones : Distancia(p)' = IF p >= k THEN p - k ELSE p - k + NumNodos
  BY <1>a DEF Distancia
<1>4. m \in 0 .. NumNodos - 1 /\ k = IF m + 1 = NumNodos THEN 0 ELSE m + 1
  BY <1>1, <1>2, <1>a
<1>5. \A p \in Posiciones : Distancia(p) \in 0 .. NumNodos - 1 /\ (Distancia(p) = 0 <=> p = m)
  BY <1>1, <1>3, <1>4, SMTT(30)
<1>6. Distancia(m)' = NumNodos - 1
  <2>1. Distancia(m)' = IF m >= k THEN m - k ELSE m - k + NumNodos
    BY <1>1, <1>3
  <2> QED
    BY <1>1, <1>4, <2>1
<1>7. ASSUME NEW p \in Posiciones, p # m
      PROVE  Distancia(p)' = Distancia(p) - 1
  <2>1. /\ Distancia(p) = IF p >= m THEN p - m ELSE p - m + NumNodos
        /\ Distancia(p)' = IF p >= k THEN p - k ELSE p - k + NumNodos
    BY <1>3
  <2>2. p \in 0 .. NumNodos - 1
    BY <1>1
  <2>3. CASE m + 1 = NumNodos
    BY <1>1, <1>4, <1>7, <2>1, <2>2, <2>3
  <2>4. CASE m + 1 # NumNodos
    <3>1. k = m + 1
      BY <1>4, <2>4
    <3> QED
      BY <1>1, <1>4, <1>7, <2>1, <2>2, <3>1
  <2> QED
    BY <2>3, <2>4
<1> QED
  BY <1>1, <1>5, <1>6, <1>7

-----------------------------------------------------------------------------
(* The search for a block. *)

(* With the counter at zero the hand has a whole turn before it.           *)
LEMMA BusquedaDesdeCero == IInv /\ contador = 0 => Busqueda
<1> SUFFICES ASSUME IInv, contador = 0, EnPlan, Hospedado(bloque)
             PROVE  \E p \in Posiciones : Alcanza(p)
  BY DEF Busqueda
<1>1. PICK p \in Posiciones : TieneCopia(bloque, activos[p + 1])
  BY DEF Hospedado
<1>2. Mano \in 0 .. NumNodos - 1 /\ NumNodos \in Nat \ {0} /\ p \in 0 .. NumNodos - 1
  BY ManoEnElArreglo DEF Posiciones
<1>3. Distancia(p) \in 0 .. NumNodos - 1
  BY <1>2 DEF Distancia
<1>4. contador + Distancia(p) < NumNodos /\ contador + Distancia(p) < 2 * NumNodos
  BY <1>2, <1>3
<1> QED
  BY <1>1, <1>4 DEF Alcanza

(* A turn that passes the block over brings its holder nearer, or, if it    *)
(* was the holder's turn, leaves it a whole round away with availability.  *)
LEMMA BusquedaTrasPasar ==
  ASSUME IInv, IInv', Busqueda, RecargoDisponibilidad \/ AvanzoPosicion, Hospedado(bloque)'
  PROVE  Busqueda'
<1>1. /\ EnPlan /\ pos' = Mano + 1 /\ UNCHANGED <<fase, activos, copias, bloque>>
      /\ disp \in [Posiciones -> Nat] /\ contador \in Nat /\ DispBase \in Nat \ {0}
  BY PlannerAssumption DEF RecargoDisponibilidad, AvanzoPosicion, pedido, IInv, TypeOK
<1>2. NumNodos' = NumNodos /\ Posiciones' = Posiciones
  BY <1>1 DEF NumNodos, Posiciones
<1>3. PICK m : m = Mano
  OBVIOUS
<1>4. PICK p \in Posiciones : Alcanza(p)
  BY <1>1, <1>2 DEF Busqueda, Hospedado, TieneCopia
<1>5. /\ NumNodos \in Nat \ {0} /\ m \in Posiciones
      /\ Distancia(p) \in 0 .. NumNodos - 1 /\ Distancia(m) = 0
      /\ Distancia(m)' = NumNodos - 1
      /\ p # m => Distancia(p)' = Distancia(p) - 1
  BY <1>1, <1>2, <1>3, PasaLaMano
<1>6. /\ TieneCopia(bloque, activos[p + 1])
      /\ disp[p] = 0 => contador + Distancia(p) < NumNodos
      /\ contador + Distancia(p) < 2 * NumNodos
  BY <1>4 DEF Alcanza
<1>7. TieneCopia(bloque, activos[p + 1])'
  BY <1>1, <1>6 DEF TieneCopia
<1>8. SUFFICES contador' = 0
               \/ /\ disp'[p] = 0 => contador' + Distancia(p)' < NumNodos
                  /\ contador' + Distancia(p)' < 2 * NumNodos
  <2>1. CASE contador' = 0
    <3>1. IInv' /\ (contador = 0)' => Busqueda'
      BY BusquedaDesdeCero, PTL
    <3> QED
      BY <2>1, <3>1
  <2>2. CASE /\ disp'[p] = 0 => contador' + Distancia(p)' < NumNodos
             /\ contador' + Distancia(p)' < 2 * NumNodos
    <3>1. Alcanza(p)'
      BY <1>2, <1>7, <2>2 DEF Alcanza
    <3> QED
      BY <1>2, <3>1 DEF Busqueda
  <2> QED
    BY <1>8, <2>1, <2>2
<1>9. CASE RecargoDisponibilidad
  <2>1. contador' = contador + 1 /\ disp[m] = 0 /\ disp' = [disp EXCEPT ![m] = DispBase]
    BY <1>3, <1>9 DEF RecargoDisponibilidad
  <2>2. CASE p = m
    <3>1. disp'[p] # 0 /\ contador < NumNodos
      BY <1>1, <1>5, <1>6, <2>1, <2>2
    <3> QED
      BY <1>1, <1>5, <2>1, <2>2, <3>1
  <2>3. CASE p # m
    <3>1. disp'[p] = disp[p]
      BY <1>1, <2>1, <2>3
    <3>2. contador' + Distancia(p)' = contador + Distancia(p)
      BY <1>1, <1>5, <2>1, <2>3
    <3> QED
      BY <1>6, <3>1, <3>2
  <2> QED
    BY <2>2, <2>3
<1>10. CASE AvanzoPosicion
  <2>1. p # m
    BY <1>3, <1>6, <1>10 DEF AvanzoPosicion
  <2>2. CASE contador + 1 = NumNodos
    BY <1>10, <2>2 DEF AvanzoPosicion
  <2>3. CASE contador + 1 # NumNodos
    <3>1. contador' = contador + 1 /\ disp' = disp
      BY <1>10, <2>3 DEF AvanzoPosicion
    <3>2. contador' + Distancia(p)' = contador + Distancia(p)
      BY <1>1, <1>5, <2>1, <3>1
    <3> QED
      BY <1>6, <3>1, <3>2
  <2> QED
    BY <2>2, <2>3
<1> QED
  BY <1>9, <1>10

-----------------------------------------------------------------------------
(* The shares. *)

(* Once more is one base more. *)
LEMMA UnaVezMas ==
  ASSUME NEW k \in Nat, NEW r, r = k + 1, NEW base \in Nat
  PROVE  r * base = k * base + base /\ k * base \in Nat
OBVIOUS

(* A turn that gives the node under the hand one more block or the base    *)
(* back, once more, keeps the shares even.                                 *)
LEMMA TurnoDado ==
  ASSUME IInv, EnPlan, pos' = Mano + 1,
         UNCHANGED <<activos, conocidos, carga, algoritmo>>,
         NEW m, m = Mano,
         NEW s \in [Posiciones -> Nat], NEW r \in [Posiciones -> Nat], Reparto(s),
         listas' \in [Posiciones -> Seq(Nat)], disp' \in [Posiciones -> Nat],
         \A p \in Posiciones : p # m =>
           listas'[p] = listas[p] /\ disp'[p] = disp[p] /\ r[p] = s[p],
         Len(listas'[m]) + r[m] = Len(listas[m]) + s[m] + 1,
         Len(listas'[m]) + disp'[m] = Disponibilidad(activos[m + 1]) + r[m] * DispBase,
         r[m] > 0 => disp'[m] <= DispBase
  PROVE  Reparto(r)'
<1>1. NumNodos' = NumNodos /\ Posiciones' = Posiciones
  BY DEF NumNodos, Posiciones
<1>2. /\ NumNodos \in Nat \ {0} /\ m \in Posiciones
      /\ \A p \in Posiciones : Distancia(p) \in 0 .. NumNodos - 1
      /\ Distancia(m) = 0 /\ Distancia(m)' = NumNodos - 1
      /\ \A p \in Posiciones : p # m => Distancia(p)' = Distancia(p) - 1
  BY <1>1, PasaLaMano
<1>3. \A p \in Posiciones : /\ Len(listas[p]) \in Nat /\ Len(listas'[p]) \in Nat
                            /\ s[p] \in Nat /\ r[p] \in Nat
  <2>1. listas \in [Posiciones -> Seq(Nat)]
    BY DEF IInv, TypeOK
  <2>2. \A p \in Posiciones : listas[p] \in Seq(Nat) /\ listas'[p] \in Seq(Nat)
    BY <2>1
  <2> QED
    BY <2>2, SMTT(30)
<1>4. \A p \in Posiciones : Recuperado(r, p)'
  <2> SUFFICES ASSUME NEW p \in Posiciones PROVE Recuperado(r, p)'
    OBVIOUS
  <2>1. Recuperado(s, p)
    BY DEF Reparto
  <2>2. Disponibilidad(activos[p + 1])' = Disponibilidad(activos[p + 1])
    BY DEF Disponibilidad, CargaMaxima
  <2>3. CASE p = m
    BY <2>1, <2>2, <2>3 DEF Recuperado
  <2>4. CASE p # m
    BY <2>1, <2>2, <2>4 DEF Recuperado
  <2> QED
    BY <2>3, <2>4
<1>5. /\ \A p \in Posiciones : Turnos(s, p) \in Nat /\ Turnos(r, p)' \in Nat
      /\ \A p \in Posiciones : p # m => Turnos(r, p)' = Turnos(s, p)
      /\ Turnos(r, m)' = Turnos(s, m) + 1
  <2>1. \A p \in Posiciones : /\ Turnos(s, p) = Len(listas[p]) + s[p]
                              /\ Turnos(r, p)' = Len(listas'[p]) + r[p]
    BY DEF Turnos
  <2>2. ASSUME NEW p \in Posiciones
        PROVE  Turnos(s, p) \in Nat /\ Turnos(r, p)' \in Nat
    <3>1. Turnos(s, p) = Len(listas[p]) + s[p] /\ Turnos(r, p)' = Len(listas'[p]) + r[p]
      BY <2>1
    <3>2. /\ Len(listas[p]) \in Nat /\ Len(listas'[p]) \in Nat
          /\ s[p] \in Nat /\ r[p] \in Nat
      BY <1>3
    <3> QED
      BY ONLY <3>1, <3>2
  <2>3. \A p \in Posiciones : p # m => Turnos(r, p)' = Turnos(s, p)
    BY <2>1
  <2>4. Turnos(r, m)' = Turnos(s, m) + 1
    BY <1>2, <1>3, <2>1
  <2> QED
    BY <2>2, <2>3, <2>4
<1>6. \A p, q \in Posiciones :
        /\ Turnos(s, p) <= Turnos(s, q) + 1
        /\ Distancia(p) <= Distancia(q) => Turnos(s, p) <= Turnos(s, q)
  BY DEF Reparto
<1>7. ASSUME NEW p \in Posiciones, NEW q \in Posiciones
      PROVE  /\ Turnos(r, p)' <= Turnos(r, q)' + 1
             /\ Distancia(p)' <= Distancia(q)' => Turnos(r, p)' <= Turnos(r, q)'
  <2>1. CASE p = m /\ q = m
    BY <1>5, <2>1
  <2>2. CASE p = m /\ q # m
    <3>1. Turnos(s, m) <= Turnos(s, q)
      BY <1>2, <1>6
    <3>2. ~ (Distancia(p)' <= Distancia(q)')
      BY <1>2, <2>2
    <3> QED
      BY <1>2, <1>5, <2>2, <3>1, <3>2
  <2>3. CASE p # m /\ q = m
    <3>1. Turnos(s, p) <= Turnos(s, m) + 1
      BY <1>2, <1>6
    <3> QED
      BY <1>2, <1>5, <2>3, <3>1
  <2>4. CASE p # m /\ q # m
    <3>1. Distancia(p)' <= Distancia(q)' => Distancia(p) <= Distancia(q)
      BY <1>2, <2>4
    <3> QED
      BY <1>5, <1>6, <2>4, <3>1
  <2> QED
    BY <2>1, <2>2, <2>3, <2>4
<1> QED
  BY <1>1, <1>4, <1>7 DEF Reparto

(* A plan starts with the lists empty, the availabilities as computed and  *)
(* the base given back to nobody.                                          *)
LEMMA RepartoInicial ==
  ASSUME IInv, LlenarArray, NEW s, s = [p \in Posiciones |-> 0]
  PROVE  Reparto(s)'
<1>1. /\ UNCHANGED <<activos, conocidos, carga, listas, algoritmo>>
      /\ disp' = [p \in Posiciones |-> Disponibilidad(activos[p + 1])]
      /\ pos' \in Posiciones /\ bloque = 0 /\ activos \in ListasActivas
      /\ \A p \in Posiciones : activos[p + 1] \in conocidos
  BY DEF LlenarArray, pedido, senal, IInv, Centinelas, EnCurso
<1>2. NumNodos' = NumNodos /\ Posiciones' = Posiciones
  BY <1>1 DEF NumNodos, Posiciones
<1>3. ASSUME NEW p \in Posiciones
      PROVE  listas'[p] = listas[p] /\ Len(listas[p]) = 0 /\ s[p] = 0
  <2>1. listas[p] \in Seq(Nat)
    BY DEF IInv, TypeOK
  <2>2. \A k \in 1 .. Len(listas[p]) : listas[p][k] \in 0 .. 0 - 1
    BY <1>1 DEF IInv, PlanLocal
  <2> QED
    BY <1>1, <2>1, <2>2
<1>4. ASSUME NEW p \in Posiciones PROVE Recuperado(s, p)'
  <2>1. Disponibilidad(activos[p + 1])' = Disponibilidad(activos[p + 1])
    BY <1>1 DEF Disponibilidad, CargaMaxima
  <2>2. disp'[p] = Disponibilidad(activos[p + 1])
    BY <1>1
  <2>3. disp'[p] \in Nat
    <3>1. activos[p + 1] \in conocidos
      BY <1>1
    <3> QED
      BY <2>2, <3>1, DisponibilidadNatural DEF IInv
  <2>4. s[p] * DispBase = 0 /\ DispBase \in Nat
    BY <1>3, PlannerAssumption
  <2> QED
    BY <1>3, <2>1, <2>2, <2>3, <2>4 DEF Recuperado
<1>5. \A p \in Posiciones : Turnos(s, p)' = 0
  BY <1>3 DEF Turnos
<1> QED
  BY <1>2, <1>4, <1>5 DEF Reparto

(* What a turn leaves alone, if it does not give back the base to all. *)
LEMMA EquilibrioTrasTurno ==
  ASSUME IInv, IInv', Equilibrio, VerificarCondicion
  PROVE  Equilibrio'
<1>1. /\ EnPlan /\ fase = "plan" /\ pos' = Mano + 1
      /\ UNCHANGED <<fase, activos, copias, conocidos, carga, algoritmo>>
  BY DEF VerificarCondicion, RecargoDisponibilidad, AsignoBloque, AvanzoPosicion, EnPlan,
         pedido, senal
<1>2. NumNodos' = NumNodos /\ Posiciones' = Posiciones /\ NumBloques' = NumBloques
  BY <1>1 DEF NumNodos, Posiciones, NumBloques
<1>3. PICK m : m = Mano
  OBVIOUS
<1>4. m \in Posiciones /\ bloque \in 0 .. NumBloques - 1
  BY <1>1, <1>3, ManoEnElArreglo
<1> SUFFICES ASSUME TodosTienen PROVE \E r \in [Posiciones -> Nat] : Reparto(r)'
  BY <1>1, <1>2 DEF Equilibrio, TodosTienen, TieneCopia
<1>5. PICK s \in [Posiciones -> Nat] : Reparto(s)
  BY <1>1 DEF Equilibrio
<1>6. /\ DispBase \in Nat \ {0} /\ s[m] \in Nat
      /\ disp \in [Posiciones -> Nat] /\ listas \in [Posiciones -> Seq(Nat)]
      /\ disp' \in [Posiciones -> Nat] /\ listas' \in [Posiciones -> Seq(Nat)]
  BY <1>2, <1>4, PlannerAssumption DEF IInv, TypeOK
<1>7. /\ Disponibilidad(activos[m + 1]) \in Nat
      /\ Len(listas[m]) + disp[m] = Disponibilidad(activos[m + 1]) + s[m] * DispBase
      /\ s[m] > 0 => disp[m] <= DispBase
  BY <1>4, <1>5 DEF Reparto, Recuperado
<1>8. CASE RecargoDisponibilidad
  <2>1. disp[m] = 0 /\ disp' = [disp EXCEPT ![m] = DispBase] /\ listas' = listas
    BY <1>3, <1>8 DEF RecargoDisponibilidad
  <2>2. PICK r : r = [s EXCEPT ![m] = @ + 1]
    OBVIOUS
  <2>3. r \in [Posiciones -> Nat] /\ r[m] = s[m] + 1
    BY <1>4, <2>2
  <2>4. disp'[m] = DispBase
    BY <1>4, <1>6, <2>1
  <2>5. r[m] * DispBase = s[m] * DispBase + DispBase /\ s[m] * DispBase \in Nat
    BY <1>6, <2>3, UnaVezMas
  <2>6. Len(listas'[m]) + disp'[m] = Disponibilidad(activos[m + 1]) + r[m] * DispBase
    <3>1. Len(listas[m]) \in Nat
      BY <1>4, <1>6
    <3>2. PICK l, d, a, b : /\ l = Len(listas[m]) /\ d = Disponibilidad(activos[m + 1])
                            /\ a = s[m] * DispBase /\ b = r[m] * DispBase
      OBVIOUS
    <3>3. l + 0 = d + a /\ b = a + DispBase /\ a \in Nat
      BY <1>7, <2>1, <2>5, <3>2
    <3>4. l \in Nat /\ d \in Nat /\ DispBase \in Nat
      BY <1>6, <1>7, <3>1, <3>2
    <3>5. l + DispBase = d + b
      BY ONLY <3>3, <3>4
    <3> QED
      BY <2>1, <2>4, <3>2, <3>5
  <2>7. Len(listas'[m]) + r[m] = Len(listas[m]) + s[m] + 1
    <3>1. Len(listas[m]) \in Nat
      BY <1>4, <1>6
    <3> QED
      BY <1>6, <2>1, <2>3, <3>1
  <2>8. \A p \in Posiciones : p # m => listas'[p] = listas[p] /\ disp'[p] = disp[p] /\ r[p] = s[p]
    BY <1>6, <2>1, <2>2
  <2>9. disp'[m] <= DispBase
    BY <1>6, <2>4
  <2>10. Reparto(r)'
    BY <1>1, <1>3, <1>5, <1>6, <2>3, <2>6, <2>7, <2>8, <2>9, TurnoDado, ZenonT(60)
  <2> QED
    BY <2>3, <2>10
<1>9. CASE AsignoBloque
  <2>1. disp[m] # 0 /\ disp' = [disp EXCEPT ![m] = @ - 1]
        /\ listas' = [listas EXCEPT ![m] = Append(@, bloque)]
    BY <1>3, <1>9 DEF AsignoBloque
  <2>2. disp'[m] = disp[m] - 1 /\ listas'[m] = Append(listas[m], bloque)
    BY <1>4, <1>6, <2>1
  <2>3. Len(listas'[m]) = Len(listas[m]) + 1 /\ Len(listas[m]) \in Nat /\ disp[m] \in Nat
    BY <1>4, <1>6, <2>2
  <2>4. Len(listas'[m]) + disp'[m] = Disponibilidad(activos[m + 1]) + s[m] * DispBase
    BY <1>7, <2>2, <2>3
  <2>5. Len(listas'[m]) + s[m] = Len(listas[m]) + s[m] + 1
    BY <1>6, <2>3
  <2>6. \A p \in Posiciones : p # m => listas'[p] = listas[p] /\ disp'[p] = disp[p] /\ s[p] = s[p]
    BY <1>6, <2>1
  <2>7. s[m] > 0 => disp'[m] <= DispBase
    BY <1>6, <1>7, <2>2, <2>3
  <2>8. Reparto(s)'
    BY <1>1, <1>3, <1>5, <1>6, <2>4, <2>5, <2>6, <2>7, TurnoDado
  <2> QED
    BY <2>8
<1>10. CASE AvanzoPosicion
  BY <1>3, <1>4, <1>10 DEF AvanzoPosicion, TodosTienen
<1> QED
  BY <1>8, <1>9, <1>10 DEF VerificarCondicion

-----------------------------------------------------------------------------
(* Every step keeps the invariant.  A signal cannot change the algorithm,  *)
(* and with it the availabilities, under a plan: that is SInv.             *)

LEMMA RInvInicial == Init => RInv
BY DEF Init, RInv, Busqueda, EnPlan, Equilibrio

LEMMA BusquedaPaso ==
  ASSUME IInv, IInv', Busqueda, [Next]_vars
  PROVE  Busqueda'
<1>1. IInv' /\ (contador = 0)' => Busqueda'
  BY BusquedaDesdeCero, PTL
<1>2. CASE LlenarArray
  <2>1. contador' = 0
    BY <1>2 DEF LlenarArray, IInv, Centinelas
  <2> QED
    BY <1>1, <2>1
<1>3. CASE AsignoBloque
  BY <1>1, <1>3 DEF AsignoBloque
<1>4. CASE RecargoDisponibilidad \/ AvanzoPosicion
  <2>1. CASE Hospedado(bloque)'
    BY <1>4, <2>1, BusquedaTrasPasar
  <2>2. CASE ~Hospedado(bloque)'
    BY <2>2 DEF Busqueda
  <2> QED
    BY <2>1, <2>2
<1>5. CASE RecibirPedido \/ NodoSinCarga \/ TerminarPlan \/ RecargarConfig \/ BorrarSenial \/ CerrarPlan
  <2>1. fase' # "plan"
    BY <1>5 DEF RecibirPedido, NodoSinCarga, TerminarPlan, RecargarConfig, BorrarSenial, CerrarPlan
  <2> QED
    BY <2>1 DEF Busqueda, EnPlan
<1>6. CASE (\E a \in Algoritmos : Trapper(a)) \/ UNCHANGED vars
  <2>1. UNCHANGED <<fase, asignoTodo, activos, copias, bloque, disp, contador, pos>>
    BY <1>6 DEF Trapper, vars, pedido, reloj
  <2>2. NumNodos' = NumNodos /\ Posiciones' = Posiciones /\ Mano' = Mano /\ (EnPlan' <=> EnPlan)
                                /\ (Hospedado(bloque)' <=> Hospedado(bloque))
    BY <2>1 DEF NumNodos, Posiciones, Mano, EnPlan, Hospedado, TieneCopia
  <2>3. \A p \in Posiciones : Alcanza(p)' <=> Alcanza(p)
    BY <2>1, <2>2 DEF Alcanza, TieneCopia, Distancia
  <2> QED
    BY <2>2, <2>3 DEF Busqueda
<1> QED
  BY <1>2, <1>3, <1>4, <1>5, <1>6 DEF Next, Planificar, VerificarCondicion

LEMMA EquilibrioIgual ==
  ASSUME fase' \in {"plan", "senal"}, fase \in {"plan", "senal"},
         UNCHANGED <<activos, copias, conocidos, carga, disp, listas, pos, algoritmo>>,
         Equilibrio
  PROVE  Equilibrio'
<1>1. /\ NumNodos' = NumNodos /\ Posiciones' = Posiciones /\ NumBloques' = NumBloques
      /\ Mano' = Mano
  BY DEF NumNodos, Posiciones, NumBloques, Mano
<1>2. TodosTienen' <=> TodosTienen
  BY <1>1 DEF TodosTienen, TieneCopia
<1>3. ASSUME NEW s PROVE Reparto(s)' <=> Reparto(s)
  <2>1. \A p \in Posiciones : /\ Distancia(p)' = Distancia(p)
                              /\ Turnos(s, p)' = Turnos(s, p)
    BY <1>1 DEF Distancia, Turnos
  <2>2. ASSUME NEW p \in Posiciones PROVE Recuperado(s, p)' <=> Recuperado(s, p)
    <3>1. Disponibilidad(activos[p + 1])' = Disponibilidad(activos[p + 1])
      BY DEF Disponibilidad, CargaMaxima
    <3> QED
      BY <3>1 DEF Recuperado
  <2> QED
    BY <1>1, <2>1, <2>2 DEF Reparto
<1> QED
  BY <1>1, <1>2, <1>3 DEF Equilibrio

LEMMA EquilibrioPaso ==
  ASSUME IInv, IInv', SInv, Equilibrio, [Next]_vars
  PROVE  Equilibrio'
<1>1. CASE LlenarArray
  <2>1. PICK s : s = [p \in Posiciones |-> 0]
    OBVIOUS
  <2>2. Reparto(s)' /\ Posiciones' = Posiciones
    BY <1>1, <2>1, RepartoInicial DEF LlenarArray, pedido, NumNodos, Posiciones
  <2> QED
    BY <2>1, <2>2 DEF Equilibrio
<1>2. CASE VerificarCondicion
  BY <1>2, EquilibrioTrasTurno
<1>3. CASE TerminarPlan
  BY <1>3, EquilibrioIgual DEF TerminarPlan, pedido, senal
<1>4. CASE RecibirPedido \/ NodoSinCarga \/ RecargarConfig \/ BorrarSenial \/ CerrarPlan
  <2>1. fase' \notin {"plan", "senal"}
    BY <1>4 DEF RecibirPedido, NodoSinCarga, RecargarConfig, BorrarSenial, CerrarPlan
  <2> QED
    BY <2>1 DEF Equilibrio
<1>5. CASE (\E a \in Algoritmos : Trapper(a)) \/ UNCHANGED vars
  <2>1. UNCHANGED <<fase, activos, copias, conocidos, carga, disp, listas, pos>>
    BY <1>5 DEF Trapper, vars, pedido, reloj
  <2>2. CASE fase \in {"plan", "senal"}
    <3>1. entreAPlanificar
      BY <2>2 DEF SInv, Ocupada
    <3>2. algoritmo' = algoritmo
      BY <1>5, <3>1 DEF Trapper, vars, senal
    <3> QED
      BY <2>1, <2>2, <3>2, EquilibrioIgual
  <2>3. CASE fase \notin {"plan", "senal"}
    BY <2>1, <2>3 DEF Equilibrio
  <2> QED
    BY <2>2, <2>3
<1> QED
  BY <1>1, <1>2, <1>3, <1>4, <1>5 DEF Next, Planificar

-----------------------------------------------------------------------------
(* What the invariant says of the clock. *)

LEMMA DeLaBusqueda ==
  ASSUME IInv, Busqueda
  PROVE  BusquedaAcotada
<1>1. contador \in Nat /\ NumNodos \in Nat
  <2>1. activos \in Seq(Nodos)
    <3>1. activos \in {<<>>} \cup ListasActivas
      BY DEF IInv, TypeOK
    <3>2. <<>> \in Seq(Nodos) /\ ListasActivas \subseteq Seq(Nodos)
      BY PlannerAssumption
    <3> QED
      BY <3>1, <3>2
  <2> QED
    BY <2>1 DEF IInv, TypeOK, NumNodos
<1>2. SUFFICES ASSUME EnPlan, Hospedado(bloque)
               PROVE  contador < 2 * NumNodos
  BY DEF BusquedaAcotada
<1>3. PICK p \in Posiciones : Alcanza(p)
  BY <1>2 DEF Busqueda
<1>4. Mano \in 0 .. NumNodos - 1 /\ p \in 0 .. NumNodos - 1
  BY <1>2, ManoEnElArreglo DEF Posiciones
<1>5. Distancia(p) \in Nat
  BY <1>1, <1>4 DEF Distancia
<1> QED
  BY <1>1, <1>3, <1>5 DEF Alcanza

(* Who is two blocks ahead has had the base back less often, so that the    *)
(* other has at most the base left: it started with less.                  *)
LEMMA DelEquilibrio ==
  ASSUME IInv, Equilibrio
  PROVE  EquilibrioReloj
<1> SUFFICES ASSUME fase \in {"plan", "senal"}, TodosTienen,
                    NEW p \in Posiciones, NEW q \in Posiciones,
                    Disponibilidad(activos[p + 1]) <= Disponibilidad(activos[q + 1]),
                    ~ (Len(listas[p]) <= Len(listas[q]) + 1)
             PROVE  FALSE
  BY DEF EquilibrioReloj, TodosTienen
<1>1. PICK s \in [Posiciones -> Nat] : Reparto(s)
  BY DEF Equilibrio
<1>2. PICK lp, lq, dp, dq, sp, sq, Dp, Dq :
        /\ lp = Len(listas[p]) /\ lq = Len(listas[q])
        /\ dp = disp[p] /\ dq = disp[q] /\ sp = s[p] /\ sq = s[q]
        /\ Dp = Disponibilidad(activos[p + 1]) /\ Dq = Disponibilidad(activos[q + 1])
  OBVIOUS
<1>3. lp \in Nat /\ lq \in Nat /\ dp \in Nat /\ dq \in Nat /\ sp \in Nat /\ sq \in Nat
  <2>1. disp \in [Posiciones -> Nat] /\ listas \in [Posiciones -> Seq(Nat)]
    BY DEF IInv, TypeOK
  <2>2. listas[p] \in Seq(Nat) /\ listas[q] \in Seq(Nat)
    BY <2>1
  <2> QED
    BY <1>2, <2>1, <2>2
<1>4. /\ Dp \in Nat /\ Dq \in Nat /\ Dp <= Dq /\ ~ (lp <= lq + 1)
      /\ lp + dp = Dp + sp * DispBase /\ lq + dq = Dq + sq * DispBase
      /\ sq > 0 => dq <= DispBase
  BY <1>1, <1>2 DEF Reparto, Recuperado
<1>5. lp + sp <= lq + sq + 1
  <2>1. Turnos(s, p) <= Turnos(s, q) + 1
    BY <1>1 DEF Reparto
  <2> QED
    BY <1>2, <1>3, <2>1 DEF Turnos
<1>6. sq >= sp + 1
  BY <1>3, <1>4, <1>5
<1>7. DispBase \in Nat
  BY PlannerAssumption
<1>8. sq * DispBase >= sp * DispBase + DispBase /\ sp * DispBase \in Nat /\ sq * DispBase \in Nat
  <2>1. PICK k \in Nat : sq = sp + 1 + k
    <3>1. sq - (sp + 1) \in Nat /\ sq = sp + 1 + (sq - (sp + 1))
      BY <1>3, <1>6
    <3> QED
      BY <3>1
  <2>2. sq * DispBase = sp * DispBase + DispBase + k * DispBase
    BY <1>3, <1>7, <2>1
  <2>3. sp * DispBase \in Nat /\ k * DispBase \in Nat
    BY <1>3, <1>7
  <2> QED
    BY <1>7, <2>2, <2>3
<1>9. PICK a, b : a = sp * DispBase /\ b = sq * DispBase
  OBVIOUS
<1>10. /\ a \in Nat /\ b \in Nat /\ b >= a + DispBase
       /\ lp + dp = Dp + a /\ lq + dq = Dq + b /\ dq <= DispBase
  BY <1>3, <1>4, <1>6, <1>8, <1>9
<1>11. lq >= Dq + a
  BY ONLY <1>3, <1>4, <1>7, <1>10
<1>12. lp <= Dp + a
  BY ONLY <1>3, <1>4, <1>7, <1>10
<1> QED
  BY ONLY <1>3, <1>4, <1>10, <1>11, <1>12

(* However large the availabilities and whatever copies the file has, a    *)
(* block with an active holder is found before the hand has gone round twice, and when every     *)
(* node holds every block the one that started with no more availability   *)
(* never gets two blocks ahead: planificar shares the work out.            *)
THEOREM RelojSiempreJusto == Spec => []RelojJusto
<1>1. Init => RInv /\ SInv
  BY RInvInicial, SInvInicial
<1>2. IInv /\ IInv' /\ SInv /\ RInv /\ [Next]_vars => RInv' /\ SInv'
  BY BusquedaPaso, EquilibrioPaso, SInvPaso DEF RInv
<1>3. IInv /\ RInv => RelojJusto
  BY DeLaBusqueda, DelEquilibrio DEF RInv, RelojJusto
<1> QED
  BY <1>1, <1>2, <1>3, Invariante, PTL DEF Spec
=============================================================================
