------------------------- MODULE NodeHandlerProofs -------------------------
(***************************************************************************)
(* Theorems about NodeHandler, for every value of its constants.           *)
(***************************************************************************)
EXTENDS NodeHandler, FiniteSetTheorems, TLAPS

-----------------------------------------------------------------------------
(* The inductive invariant. *)

(* A thread that is not idle has a request; only node_listener asks before *)
(* it accepts a node, and then it is the last thing it asks.               *)
Tareas ==
  \A r \in Pedidores :
    /\ pedidor[r].pc = "libre" <=> pedidor[r].tarea = <<>>
    /\ \A i \in DOMAIN pedidor[r].tarea : pedidor[r].tarea[i].tipo = "alta" =>
         /\ r = Escucha /\ i = Len(pedidor[r].tarea)
         /\ conexion[pedidor[r].tarea[i].nodo] = "alta"

(* A thread sends to, and waits for, a handler of the node it asks about. *)
DireccionDe(r) ==
  /\ pedidor[r].pc = "envia" => pedidor[r].dest # Nadie
  /\ pedidor[r].pc \in {"envia", "recibe"} /\ pedidor[r].dest # Nadie =>
       pedidor[r].dest[1] = EnCurso(r).nodo
  /\ pedidor[r].pc = "recibe" => EnCurso(r).tipo \in ConRespuesta

Direcciones ==
  /\ \A n \in Nodos : manejador[n] # Nadie => manejador[n][1] = n
  /\ \A r \in Pedidores : DireccionDe(r)

(* The sender of a mailbox is that of the message in it, and a handler at  *)
(* work has somebody to answer to.                                         *)
Remitentes ==
  \A h \in Manejadores :
    /\ buzon[h] # <<>> => remitente[h] = buzon[h][1].de
    /\ manej[h].pc \in {"atiende", "manda"} => remitente[h] # Nadie
    /\ manej[h].pc = "atiende" => manej[h].op \in Mensaje
    /\ manej[h].pc = "manda" => manej[h].dest # Nadie /\ manej[h].dato # "nada"

EsperaA(r, h, tipo) ==
  /\ pedidor[r].pc = "recibe" /\ pedidor[r].dest = h /\ buzon[r] = <<>>
  /\ tipo = "bloque" <=> EnCurso(r).tipo = "bloque"

(* As long as no two threads crossed, whoever a handler owes an answer     *)
(* waits for it, once, and an answer that arrived is that of the request.  *)
Deuda(h) ==
  /\ buzon[h] # <<>> /\ buzon[h][1].tipo # "graba" =>
       /\ EsperaA(buzon[h][1].de, h, buzon[h][1].tipo)
       /\ manej[h].pc = "manda" => manej[h].dest # buzon[h][1].de
  /\ manej[h].pc = "atiende" /\ manej[h].op.tipo # "graba" =>
       /\ EsperaA(manej[h].op.de, h, manej[h].op.tipo)
       /\ buzon[h] = <<>> /\ remitente[h] = manej[h].op.de
  /\ manej[h].pc = "manda" => EsperaA(manej[h].dest, h, manej[h].dato)

Llegada(r) ==
  buzon[r] # <<>> =>
    /\ pedidor[r].pc = "recibe" /\ pedidor[r].dest # Nadie
    /\ buzon[r][1].nodo = pedidor[r].dest[1]
    /\ buzon[r][1].dato = "bloque" <=> EnCurso(r).tipo = "bloque"

SinCruce == (\A h \in Manejadores : Deuda(h)) /\ (\A r \in Pedidores : Llegada(r))

EnElBucle(n) == {h \in Manejadores : h[1] = n /\ manej[h].pc \in EnBucle}

(* Node_listener is about to learn that the node is not active. *)
Desmentido(n) ==
  \E r \in Pedidores :
    buzon[r] # <<>> /\ buzon[r][1].dato = "no" /\ EnCurso(r) = Pedir("alta", n)

(* The handlers of a node whose pointer nobody cleared late. *)
VigenciaDe(n) ==
  /\ EnElBucle(n) \subseteq {manejador[n]}
  /\ conexion[n] = "abierta" => manejador[n] \in EnElBucle(n)
  /\ \A h \in Manejadores : h[1] = n =>
       /\ Cerrando(h) => conexion[n] # "abierta"
       /\ manej[h].pc = "cierra" => EnElBucle(n) = {}
  /\ Desmentido(n) => EnElBucle(n) = {}

Vigencia == \A n \in Nodos \ pisado : VigenciaDe(n)

(* A handler is installed for a connection that was lost: there are enough. *)
Repuestos == {h \in Manejadores : h[2] # 1 /\ manej[h].pc # "nuevo"}
Perdidas  == {n \in Nodos : conexion[n] # "abierta"}

Cuenta ==
  /\ Cardinality(Repuestos) + Cardinality(Perdidas) = caidas
  /\ \A h \in Manejadores : h[2] = 1 => manej[h].pc # "nuevo"

IInv == /\ TypeOK /\ Tareas /\ Direcciones /\ Remitentes /\ Cuenta
        /\ ~cruce => SinCruce /\ Vigencia

-----------------------------------------------------------------------------
(* The constants. *)

(* There are finitely many nodes, and finitely many threads to serve them. *)
LEMMA Finitos == IsFiniteSet(Nodos) /\ IsFiniteSet(Manejadores)
<1> DEFINE D == 1 .. Len(OrdenNodos)
           f == [i \in D |-> OrdenNodos[i]]
<1>1. OrdenNodos \in Seq(Nodos) /\ MaxCaidas \in Nat
  BY HandlerAssumption
<1>2. DOMAIN OrdenNodos = D /\ Len(OrdenNodos) \in Nat /\ f \in [D -> Nodos]
  BY <1>1
<1>3. \A n \in Nodos : \E i \in D : f[i] = n
  BY <1>2 DEF Nodos
<1>4. f \in Surjection(D, Nodos)
  BY <1>2, <1>3 DEF Surjection
<1>5. IsFiniteSet(D)
  BY <1>2, FS_Interval
<1>6. IsFiniteSet(Nodos)
  <2> HIDE DEF D, f
  <2> QED
    BY <1>4, <1>5, FS_Surjection
<1>7. IsFiniteSet(1 .. MaxCaidas + 1)
  BY <1>1, FS_Interval
<1> QED
  BY <1>6, <1>7, FS_Product DEF Manejadores

(* A handler thread is of one node, and none of those that ask. *)
LEMMA Constantes ==
  /\ \A h \in Manejadores : h[1] \in Nodos /\ h[2] \in 1 .. MaxCaidas + 1 /\ h # Nadie
  /\ Escucha \in Pedidores /\ Consola \in Pedidores /\ Nadie \notin Pedidores
  /\ Pedidores \cap Manejadores = {} /\ MaxCaidas \in Nat
  /\ Nadie \notin Manejadores
<1>1. Nadie \notin Manejadores
  BY HandlerAssumption DEF Hilos
<1>2. \A h \in Manejadores : h[1] \in Nodos /\ h[2] \in 1 .. MaxCaidas + 1
  BY DEF Manejadores
<1> QED
  BY <1>1, <1>2, HandlerAssumption DEF Hilos

(* The first request of a task and the rest of it. *)
LEMMA RestoDeTarea ==
  ASSUME NEW c \in Seq(Peticion), c # <<>>
  PROVE  /\ Head(c) = c[1] /\ Head(c) \in Peticion /\ 1 \in DOMAIN c
         /\ Tail(c) \in Seq(Peticion)
         /\ Len(Tail(c)) = Len(c) - 1
         /\ Tail(c) # <<>> => 1 \in DOMAIN Tail(c) /\ Len(c) # 1
         /\ \A i \in DOMAIN Tail(c) : i + 1 \in DOMAIN c /\ i + 1 # 1 /\ Tail(c)[i] = c[i + 1]
<1>1. Len(c) \in Nat \ {0} /\ DOMAIN c = 1 .. Len(c)
  OBVIOUS
<1>2. Tail(c) \in Seq(Peticion) /\ Len(Tail(c)) = Len(c) - 1 /\ DOMAIN Tail(c) = 1 .. Len(c) - 1
  BY <1>1
<1>3. Tail(c) # <<>> => Len(Tail(c)) > 0
  <2> DEFINE r == Tail(c)
  <2>1. r \in Seq(Peticion)
    BY <1>2
  <2> HIDE DEF r
  <2>2. r # <<>> => Len(r) > 0
    BY <2>1
  <2> QED
    BY <2>2 DEF r
<1>4. Head(c) = c[1] /\ Head(c) \in Peticion /\ 1 \in DOMAIN c
  BY <1>1
<1>5. \A i \in DOMAIN Tail(c) : i + 1 \in DOMAIN c /\ i + 1 # 1 /\ Tail(c)[i] = c[i + 1]
  BY <1>1, <1>2
<1> QED
  BY <1>1, <1>2, <1>3, <1>4, <1>5

(* The tasks that the threads start are sequences of requests; none of them *)
(* is empty, and only the last request of a task accepts a node.            *)
LEMMA TareasNuevas ==
  /\ Recorrida \in Seq(Peticion) /\ Recorrida # <<>>
  /\ \A i \in DOMAIN Recorrida : Recorrida[i].tipo = "ping"
<1>1. OrdenNodos \in Seq(Nodos) /\ OrdenNodos # <<>>
  BY HandlerAssumption
<1>2. DOMAIN OrdenNodos = 1 .. Len(OrdenNodos) /\ Len(OrdenNodos) \in Nat \ {0}
  BY <1>1
<1>3. \A i \in DOMAIN OrdenNodos : Pedir("ping", OrdenNodos[i]) \in Peticion
  BY <1>1, <1>2 DEF Pedir, Peticion
<1>4. Recorrida \in Seq(Peticion) /\ DOMAIN Recorrida = 1 .. Len(OrdenNodos)
  BY <1>2, <1>3 DEF Recorrida
<1>5. Recorrida # <<>>
  BY <1>2, <1>4
<1>6. \A i \in DOMAIN Recorrida : Recorrida[i].tipo = "ping"
  BY <1>2 DEF Recorrida, Pedir
<1> QED
  BY <1>4, <1>5, <1>6

-----------------------------------------------------------------------------
(* The effect of the operators of the actions. *)

(* A node whose connection is not open has an unused handler thread: each   *)
(* one in use, after the first, was installed for a connection that was     *)
(* lost, and this one has no handler yet.                                   *)
LEMMA HayRepuesto ==
  ASSUME TypeOK, Cuenta, NEW n \in Nodos, conexion[n] # "abierta"
  PROVE  /\ NuevoManejador(n) \in Manejadores /\ NuevoManejador(n)[1] = n
         /\ manej[NuevoManejador(n)].pc = "nuevo" /\ NuevoManejador(n)[2] # 1
<1>1. \E h \in Manejadores : h[1] = n /\ manej[h].pc = "nuevo"
  <2> SUFFICES ASSUME \A h \in Manejadores : h[1] = n => manej[h].pc # "nuevo"
               PROVE  FALSE
    OBVIOUS
  <2> DEFINE H == {n} \X (2 .. MaxCaidas + 1)
  <2>1. MaxCaidas \in Nat /\ caidas \in 0 .. MaxCaidas
    BY Constantes DEF TypeOK
  <2>2. H \subseteq Repuestos
    <3> SUFFICES ASSUME NEW h \in H PROVE h \in Repuestos
      OBVIOUS
    <3>1. h \in Manejadores /\ h[1] = n /\ h[2] # 1
      BY <2>1 DEF Manejadores
    <3> QED
      BY <3>1 DEF Repuestos
  <2>3. IsFiniteSet({n}) /\ Cardinality({n}) = 1
    BY FS_Singleton
  <2>4. IsFiniteSet(2 .. MaxCaidas + 1) /\ Cardinality(2 .. MaxCaidas + 1) = MaxCaidas
    BY <2>1, FS_Interval
  <2>5. IsFiniteSet(H) /\ Cardinality(H) = 1 * MaxCaidas
    BY <2>3, <2>4, FS_Product, ZenonT(60)
  <2>6. IsFiniteSet(Repuestos) /\ IsFiniteSet(Perdidas)
    BY Finitos, FS_Subset DEF Repuestos, Perdidas
  <2>7. Cardinality(H) <= Cardinality(Repuestos)
    BY <2>2, <2>6, FS_Subset
  <2>8. n \in Perdidas
    BY DEF Perdidas
  <2>9. Cardinality(Perdidas) # 0 /\ Cardinality(Perdidas) \in Nat
    BY <2>6, <2>8, FS_EmptySet, FS_CardinalityType
  <2>10. Cardinality(Repuestos) \in Nat /\ Cardinality(Repuestos) >= MaxCaidas
    BY <2>1, <2>5, <2>6, <2>7, FS_CardinalityType
  <2> QED
    BY <2>1, <2>9, <2>10 DEF Cuenta
<1>2. /\ NuevoManejador(n) \in Manejadores /\ NuevoManejador(n)[1] = n
      /\ manej[NuevoManejador(n)].pc = "nuevo"
  BY <1>1 DEF NuevoManejador
<1> QED
  BY <1>2 DEF Cuenta

(* The thread goes on with the rest of its task, and sends to nobody yet. *)
Sigue(r) ==
  /\ pedidor' \in [Pedidores -> TipoPedidor]
  /\ \A q \in Pedidores : q # r => pedidor'[q] = pedidor[q]
  /\ pedidor'[r].pc \in {"libre", "mira", "lee"} /\ pedidor'[r].dest = Nadie
  /\ pedidor'[r].pc = "libre" <=> pedidor'[r].tarea = <<>>
  /\ pedidor'[r].tarea \in {<<>>, Tail(pedidor[r].tarea)}

LEMMA AvanzaEs ==
  ASSUME NEW r \in Pedidores, NEW resp \in Respuestas \cup {"nada"},
         pedidor \in [Pedidores -> TipoPedidor], pedidor[r].tarea # <<>>, Avanza(r, resp)
  PROVE  Sigue(r)
<1> DEFINE c == Resto(r, resp)
<1>1. pedidor[r].tarea \in Seq(Peticion)
  BY DEF TipoPedidor
<1>2. c \in {<<>>, Tail(pedidor[r].tarea)} /\ c \in Seq(Peticion)
  BY <1>1, RestoDeTarea DEF Resto
<1>3. pedidor' = [pedidor EXCEPT ![r] =
        IF c = <<>> THEN Ocioso
        ELSE [pc |-> IF c[1].tipo \in Pings THEN "mira" ELSE "lee",
              tarea |-> c, dest |-> Nadie, leido |-> resp]]
  BY DEF Avanza
<1> HIDE DEF c
<1>4. CASE c = <<>>
  BY <1>2, <1>3, <1>4 DEF Sigue, Ocioso, TipoPedidor
<1>5. CASE c # <<>>
  <2>1. pedidor' = [pedidor EXCEPT ![r] =
          [pc |-> IF c[1].tipo \in Pings THEN "mira" ELSE "lee",
           tarea |-> c, dest |-> Nadie, leido |-> resp]]
    BY <1>3, <1>5
  <2>2. pedidor'[r] = [pc |-> IF c[1].tipo \in Pings THEN "mira" ELSE "lee",
                       tarea |-> c, dest |-> Nadie, leido |-> resp]
    BY <2>1
  <2>3. pedidor'[r].pc \in {"mira", "lee"} /\ pedidor'[r].tarea = c /\ pedidor'[r].dest = Nadie
    BY <2>2
  <2>4. pedidor'[r] \in TipoPedidor
    BY <1>2, <2>2 DEF TipoPedidor
  <2> QED
    BY <1>2, <1>5, <2>1, <2>3, <2>4 DEF Sigue
<1> QED
  BY <1>4, <1>5

(* A thread at work has a request in hand. *)
LEMMA EnCursoEs ==
  ASSUME TypeOK, Tareas, NEW r \in Pedidores, pedidor[r].pc # "libre"
  PROVE  /\ pedidor[r].tarea # <<>> /\ pedidor[r].tarea \in Seq(Peticion)
         /\ EnCurso(r) \in Peticion /\ EnCurso(r) = pedidor[r].tarea[1]
         /\ EnCurso(r).nodo \in Nodos /\ EnCurso(r).tipo \in {"ping", "alta", "bloque", "graba"}
         /\ EnCurso(r).tipo = "alta" =>
              /\ r = Escucha /\ conexion[EnCurso(r).nodo] = "alta"
              /\ Len(pedidor[r].tarea) = 1
<1>1. pedidor[r] \in TipoPedidor
  BY DEF TypeOK
<1>2. pedidor[r].tarea \in Seq(Peticion) /\ pedidor[r].tarea # <<>>
  BY <1>1 DEF TipoPedidor, Tareas
<1>3. EnCurso(r) \in Peticion /\ EnCurso(r) = pedidor[r].tarea[1] /\ 1 \in DOMAIN pedidor[r].tarea
  BY <1>2, RestoDeTarea DEF EnCurso
<1>4. EnCurso(r).tipo = "alta" =>
        r = Escucha /\ conexion[EnCurso(r).nodo] = "alta" /\ Len(pedidor[r].tarea) = 1
  BY <1>3 DEF Tareas
<1> QED
  BY <1>2, <1>3, <1>4 DEF Peticion

(* The thread waits for an answer of h. *)
Aguarda(r, h) ==
  /\ pedidor' \in [Pedidores -> TipoPedidor]
  /\ \A q \in Pedidores : q # r => pedidor'[q] = pedidor[q]
  /\ pedidor'[r].pc = "recibe" /\ pedidor'[r].dest = h
  /\ pedidor'[r].tarea = pedidor[r].tarea /\ EnCurso(r)' = EnCurso(r)

LEMMA EnvioEs ==
  ASSUME NEW r \in Pedidores, NEW h \in Manejadores \cup {Nadie},
         pedidor \in [Pedidores -> TipoPedidor], pedidor[r].tarea # <<>>, Envio(r, h)
  PROVE  IF EnCurso(r).tipo \in ConRespuesta THEN Aguarda(r, h) ELSE Sigue(r)
<1>1. CASE EnCurso(r).tipo \in ConRespuesta
  <2>1. pedidor' = [pedidor EXCEPT ![r].pc = "recibe", ![r].dest = h]
    BY <1>1 DEF Envio, Espera
  <2>2. pedidor[r] \in TipoPedidor
    OBVIOUS
  <2>3. pedidor'[r] = [pedidor[r] EXCEPT !.pc = "recibe", !.dest = h]
    BY <2>1, <2>2 DEF TipoPedidor
  <2>4. pedidor'[r] \in TipoPedidor /\ pedidor'[r].pc = "recibe" /\ pedidor'[r].dest = h
        /\ pedidor'[r].tarea = pedidor[r].tarea
    BY <2>2, <2>3 DEF TipoPedidor
  <2>5. pedidor' \in [Pedidores -> TipoPedidor]
        /\ \A q \in Pedidores : q # r => pedidor'[q] = pedidor[q]
    <3> HIDE DEF TipoPedidor
    <3> QED
      BY <2>1, <2>4
  <2> QED
    BY <1>1, <2>4, <2>5 DEF Aguarda, EnCurso
<1>2. CASE EnCurso(r).tipo \notin ConRespuesta
  BY <1>2, AvanzaEs DEF Envio
<1> QED
  BY <1>1, <1>2

(* Node_listener gives the node a thread that was not in use. *)
Instala(n, h) ==
  /\ h \in Manejadores /\ h[1] = n /\ h[2] # 1 /\ manej[h].pc = "nuevo"
  /\ conexion' = [conexion EXCEPT ![n] = "abierta"]
  /\ manejador' = [manejador EXCEPT ![n] = h]
  /\ manej' \in [Manejadores -> TipoManej] /\ manej'[h].pc = "espera"
  /\ \A g \in Manejadores : g # h => manej'[g] = manej[g]
  /\ pisado' = IF \E g \in Manejadores : g[1] = n /\ Cerrando(g) THEN pisado \cup {n} ELSE pisado

LEMMA InstalarEs ==
  ASSUME TypeOK, Cuenta, NEW n \in Nodos, conexion[n] # "abierta", Instalar(n)
  PROVE  \E h \in Manejadores : Instala(n, h)
<1> DEFINE h == NuevoManejador(n)
<1>1. h \in Manejadores /\ h[1] = n /\ manej[h].pc = "nuevo" /\ h[2] # 1
  BY HayRepuesto
<1>2. manej \in [Manejadores -> TipoManej]
  BY DEF TypeOK
<1>3. /\ manej' = [manej EXCEPT ![h].pc = "espera"]
      /\ conexion' = [conexion EXCEPT ![n] = "abierta"]
      /\ manejador' = [manejador EXCEPT ![n] = h]
      /\ pisado' = IF \E g \in Manejadores : g[1] = n /\ Cerrando(g)
                   THEN pisado \cup {n} ELSE pisado
  BY DEF Instalar
<1> HIDE DEF h
<1>4. manej'[h] = [manej[h] EXCEPT !.pc = "espera"] /\ manej[h] \in TipoManej
  BY <1>1, <1>2, <1>3
<1>5. manej'[h] \in TipoManej /\ manej'[h].pc = "espera"
  BY <1>4 DEF TipoManej, EnBucle
<1>6. manej' \in [Manejadores -> TipoManej] /\ \A g \in Manejadores : g # h => manej'[g] = manej[g]
  BY <1>1, <1>2, <1>3, <1>5
<1> QED
  BY <1>1, <1>3, <1>5, <1>6 DEF Instala

(* What the thread does with an answer: goes on, installs a handler for the *)
(* node that asked to be accepted, or ends the process.                     *)
Continua(r) ==
  Sigue(r) /\ EnCurso(r).tipo # "alta" /\ UNCHANGED <<fs, conexion, manejador, manej, pisado>>

Acepta(r, n, h) ==
  /\ Instala(n, h) /\ Sigue(r) /\ pedidor'[r].tarea = <<>> /\ UNCHANGED fs
  /\ EnCurso(r) = Pedir("alta", n) /\ r = Escucha /\ conexion[n] = "alta"

LEMMA ConcluirEs ==
  ASSUME TypeOK, Tareas, Cuenta, NEW r \in Pedidores, pedidor[r].pc # "libre",
         NEW resp \in Respuestas, Concluir(r, resp)
  PROVE  \/ Continua(r)
         \/ resp = "no" /\ \E n \in Nodos, h \in Manejadores : Acepta(r, n, h)
         \/ fs' = "caido" /\ UNCHANGED <<pedidor, conexion, manejador, manej, pisado>>
<1>1. pedidor \in [Pedidores -> TipoPedidor] /\ pedidor[r].tarea # <<>>
  BY EnCursoEs DEF TypeOK
<1>2. CASE EnCurso(r).tipo # "alta"
  <2>1. Avanza(r, resp) /\ UNCHANGED <<fs, conexion, manejador, manej, pisado>>
    BY <1>2 DEF Concluir
  <2> QED
    BY <1>1, <1>2, <2>1, AvanzaEs DEF Continua
<1>3. CASE EnCurso(r).tipo = "alta" /\ resp = "no"
  <2> DEFINE n == EnCurso(r).nodo
  <2>1. /\ n \in Nodos /\ r = Escucha /\ conexion[n] = "alta" /\ Len(pedidor[r].tarea) = 1
        /\ pedidor[r].tarea \in Seq(Peticion) /\ EnCurso(r) \in Peticion
    BY <1>3, EnCursoEs
  <2>2. EnCurso(r) = Pedir("alta", n)
    BY <1>3, <2>1 DEF Pedir, Peticion
  <2>3. Instalar(n) /\ Avanza(r, resp) /\ UNCHANGED fs
    BY <1>3 DEF Concluir
  <2>4. Sigue(r)
    BY <1>1, <2>3, AvanzaEs
  <2>5. Tail(pedidor[r].tarea) = <<>>
    BY <1>1, <2>1, RestoDeTarea
  <2>6. pedidor'[r].tarea = <<>>
    BY <2>4, <2>5 DEF Sigue
  <2>7. \E h \in Manejadores : Instala(n, h)
    BY <2>1, <2>3, InstalarEs
  <2> QED
    BY <1>3, <2>1, <2>2, <2>3, <2>4, <2>6, <2>7 DEF Acepta
<1>4. CASE EnCurso(r).tipo = "alta" /\ resp # "no"
  BY <1>4 DEF Concluir
<1> QED
  BY <1>2, <1>3, <1>4

-----------------------------------------------------------------------------
(* What a step of one thread leaves as it was. *)

(* The tasks, when one thread moves. *)
LEMMA MarcoTareas ==
  ASSUME Tareas, NEW r \in Pedidores,
         \A q \in Pedidores : q # r => pedidor'[q] = pedidor[q],
         pedidor'[r].pc = "libre" <=> pedidor'[r].tarea = <<>>,
         \A i \in DOMAIN pedidor'[r].tarea : pedidor'[r].tarea[i].tipo = "alta" =>
           /\ r = Escucha /\ i = Len(pedidor'[r].tarea)
           /\ conexion'[pedidor'[r].tarea[i].nodo] = "alta",
         r = Escucha \/ conexion' = conexion
  PROVE  Tareas'
<1> SUFFICES ASSUME NEW q \in Pedidores
             PROVE  /\ pedidor'[q].pc = "libre" <=> pedidor'[q].tarea = <<>>
                    /\ \A i \in DOMAIN pedidor'[q].tarea : pedidor'[q].tarea[i].tipo = "alta" =>
                         /\ q = Escucha /\ i = Len(pedidor'[q].tarea)
                         /\ conexion'[pedidor'[q].tarea[i].nodo] = "alta"
  BY DEF Tareas
<1>1. CASE q = r
  BY <1>1
<1>2. CASE q # r
  <2>1. pedidor'[q] = pedidor[q]
    BY <1>2
  <2>2. q = Escucha => conexion' = conexion
    BY <1>2
  <2> QED
    BY <2>1, <2>2 DEF Tareas
<1> QED
  BY <1>1, <1>2

LEMMA SigueTareas ==
  ASSUME TypeOK, Tareas, NEW r \in Pedidores, pedidor[r].pc # "libre", Sigue(r),
         conexion' = conexion \/ (r = Escucha /\ pedidor'[r].tarea = <<>>)
  PROVE  Tareas'
<1> DEFINE c == pedidor[r].tarea
<1>1. c \in Seq(Peticion) /\ c # <<>>
  BY EnCursoEs
<1>2. \A i \in DOMAIN c : c[i].tipo = "alta" =>
        r = Escucha /\ i = Len(c) /\ conexion[c[i].nodo] = "alta"
  BY DEF Tareas
<1>3. \A i \in DOMAIN Tail(c) : i + 1 \in DOMAIN c /\ Tail(c)[i] = c[i + 1] /\ i \in Nat
        /\ Len(Tail(c)) = Len(c) - 1 /\ Len(c) \in Nat
  <2>1. DOMAIN Tail(c) \subseteq Nat
    BY <1>1, RestoDeTarea
  <2> QED
    BY <1>1, <2>1, RestoDeTarea
<1>4. \A i \in DOMAIN pedidor'[r].tarea : pedidor'[r].tarea[i].tipo = "alta" =>
        /\ r = Escucha /\ i = Len(pedidor'[r].tarea)
        /\ conexion'[pedidor'[r].tarea[i].nodo] = "alta"
  <2>1. CASE pedidor'[r].tarea = <<>>
    BY <2>1
  <2>2. CASE pedidor'[r].tarea # <<>>
    <3>1. pedidor'[r].tarea = Tail(c) /\ conexion' = conexion
      BY <2>2 DEF Sigue
    <3> HIDE DEF c
    <3>2. SUFFICES ASSUME NEW i \in DOMAIN Tail(c), Tail(c)[i].tipo = "alta"
                   PROVE  r = Escucha /\ i = Len(Tail(c)) /\ conexion[Tail(c)[i].nodo] = "alta"
      BY <3>1
    <3>3. /\ i + 1 \in DOMAIN c /\ Tail(c)[i] = c[i + 1] /\ i \in Nat
          /\ Len(Tail(c)) = Len(c) - 1 /\ Len(c) \in Nat
      BY <1>3
    <3>4. r = Escucha /\ i + 1 = Len(c) /\ conexion[c[i + 1].nodo] = "alta"
      BY <1>2, <3>2, <3>3
    <3> QED
      BY <3>3, <3>4
  <2> QED
    BY <2>1, <2>2
<1> QED
  BY <1>4, MarcoTareas DEF Sigue

(* The same task, further on. *)
LEMMA MismaTarea ==
  ASSUME Tareas, NEW r \in Pedidores, conexion' = conexion,
         \A q \in Pedidores : q # r => pedidor'[q] = pedidor[q],
         pedidor[r].pc # "libre", pedidor'[r].pc # "libre", pedidor'[r].tarea = pedidor[r].tarea
  PROVE  Tareas'
BY MarcoTareas DEF Tareas

(* Who waits for whom depends on the thread that waits only. *)
LEMMA MismaEspera ==
  ASSUME NEW q, pedidor'[q] = pedidor[q], buzon'[q] = buzon[q]
  PROVE  \A h, t : EsperaA(q, h, t) => EsperaA(q, h, t)'
BY DEF EsperaA, EnCurso

(* The addresses, when one thread moves and its own is right. *)
LEMMA MarcoDirecciones ==
  ASSUME Direcciones, NEW r \in Pedidores, manejador' = manejador,
         \A q \in Pedidores : q # r => pedidor'[q] = pedidor[q], DireccionDe(r)'
  PROVE  Direcciones'
<1>1. ASSUME NEW q \in Pedidores PROVE DireccionDe(q)'
  <2>1. CASE q = r
    BY <2>1
  <2>2. CASE q # r
    BY <2>2 DEF Direcciones, DireccionDe, EnCurso
  <2> QED
    BY <2>1, <2>2
<1> QED
  BY <1>1 DEF Direcciones

LEMMA SigueDireccion == ASSUME NEW r, Sigue(r) PROVE DireccionDe(r)'
BY DEF Sigue, DireccionDe

(* The count, when no handler starts and no connection is lost. *)
LEMMA MarcoCuenta ==
  ASSUME Cuenta, caidas' = caidas,
         \A n \in Nodos : conexion'[n] # "abierta" <=> conexion[n] # "abierta",
         \A h \in Manejadores : manej'[h].pc = "nuevo" <=> manej[h].pc = "nuevo"
  PROVE  Cuenta'
<1>1. Repuestos' = Repuestos /\ Perdidas' = Perdidas
  BY DEF Repuestos, Perdidas
<1> QED
  BY <1>1 DEF Cuenta

(* Those a handler owes an answer are threads that ask. *)
LEMMA Acreedores ==
  ASSUME TypeOK, Remitentes, NEW h \in Manejadores
  PROVE  /\ manej[h].pc = "manda" => manej[h].dest \in Pedidores /\ manej[h].dato \in Respuestas
         /\ buzon[h] # <<>> => buzon[h][1] \in Mensaje /\ buzon[h][1].de \in Pedidores
         /\ manej[h].pc = "atiende" => manej[h].op \in Mensaje /\ manej[h].op.de \in Pedidores
<1>1. manej[h] \in TipoManej /\ buzon[h] \in Ranura(Mensaje)
  BY DEF TypeOK
<1>2. buzon[h] # <<>> => buzon[h][1] \in Mensaje
  BY <1>1 DEF Ranura
<1>3. \A m \in Mensaje : m.de \in Pedidores
  BY DEF Mensaje
<1>4. manej[h].pc = "atiende" => manej[h].op \in Mensaje
  BY DEF Remitentes
<1>5. manej[h].pc = "manda" => manej[h].dest \in Pedidores /\ manej[h].dato \in Respuestas
  BY <1>1 DEF Remitentes, TipoManej
<1> QED
  BY <1>2, <1>3, <1>4, <1>5

(* The debts, when the only thread that moves had nothing to wait for, or   *)
(* takes its answer, and no handler moves but one that starts.              *)
LEMMA MarcoCruce ==
  ASSUME TypeOK, Remitentes, SinCruce, NEW r \in Pedidores, remitente' = remitente,
         \A q \in Hilos : q # r => buzon'[q] = buzon[q],
         \/ pedidor[r].pc # "recibe" /\ buzon'[r] = buzon[r]
         \/ buzon[r] # <<>> /\ buzon'[r] = <<>>,
         \A q \in Pedidores : q # r => pedidor'[q] = pedidor[q],
         \A h \in Manejadores : manej'[h] = manej[h] \/ manej'[h].pc = "espera"
  PROVE  SinCruce'
<1>0. Pedidores \subseteq Hilos /\ Manejadores \subseteq Hilos /\ r \notin Manejadores
  BY Constantes DEF Hilos
<1>1. \A q, h, t : q \in Pedidores /\ EsperaA(q, h, t) => EsperaA(q, h, t)'
  <2> SUFFICES ASSUME NEW q \in Pedidores, NEW h, NEW t, EsperaA(q, h, t)
               PROVE  EsperaA(q, h, t)'
    OBVIOUS
  <2>1. q # r
    BY DEF EsperaA
  <2> QED
    BY <1>0, <2>1, MismaEspera
<1>2. buzon'[r] = <<>>
  BY DEF SinCruce, Llegada
<1>3. ASSUME NEW q \in Pedidores PROVE Llegada(q)'
  BY <1>0, <1>2 DEF SinCruce, Llegada, EnCurso
<1>4. ASSUME NEW h \in Manejadores PROVE Deuda(h)'
  <2>1. Deuda(h)
    BY DEF SinCruce
  <2>2. /\ manej[h].pc = "manda" => manej[h].dest \in Pedidores
        /\ buzon[h] # <<>> => buzon[h][1].de \in Pedidores
        /\ manej[h].pc = "atiende" => manej[h].op.de \in Pedidores
    BY Acreedores
  <2>3. buzon'[h] = buzon[h]
    BY <1>0
  <2> QED
    BY <1>1, <2>1, <2>2, <2>3 DEF Deuda
<1> QED
  BY <1>3, <1>4 DEF SinCruce

(* The handlers of the nodes, when no thread enters or leaves a loop. *)
LEMMA MarcoVigencia ==
  ASSUME Vigencia, manejador' = manejador, pisado' = pisado,
         \A n \in Nodos : conexion'[n] = "abierta" => conexion[n] = "abierta",
         \A h \in Manejadores : manej'[h].pc \in EnBucle <=> manej[h].pc \in EnBucle,
         \A h \in Manejadores : Cerrando(h)' => Cerrando(h) \/ conexion'[h[1]] # "abierta",
         \A h \in Manejadores : manej'[h].pc = "cierra" => manej[h].pc = "cierra",
         \A n \in Nodos : Desmentido(n)' => Desmentido(n)
  PROVE  Vigencia'
<1> SUFFICES ASSUME NEW n \in Nodos \ pisado PROVE VigenciaDe(n)'
  BY DEF Vigencia
<1>1. EnElBucle(n)' = EnElBucle(n)
  BY DEF EnElBucle
<1>2. VigenciaDe(n)
  BY DEF Vigencia
<1>3. EnElBucle(n)' \subseteq {manejador'[n]}
  BY <1>1, <1>2 DEF VigenciaDe
<1>4. conexion'[n] = "abierta" => manejador'[n] \in EnElBucle(n)'
  BY <1>1, <1>2 DEF VigenciaDe
<1>5. ASSUME NEW h \in Manejadores, h[1] = n
      PROVE  /\ Cerrando(h)' => conexion'[n] # "abierta"
             /\ manej'[h].pc = "cierra" => EnElBucle(n)' = {}
  <2>1. manej'[h].pc = "cierra" => EnElBucle(n)' = {}
    BY <1>1, <1>2, <1>5 DEF VigenciaDe
  <2>2. Cerrando(h) => conexion[n] # "abierta"
    BY <1>2, <1>5 DEF VigenciaDe
  <2>3. Cerrando(h)' => Cerrando(h) \/ conexion'[n] # "abierta"
    BY <1>5
  <2> QED
    BY <2>1, <2>2, <2>3
<1>6. Desmentido(n)' => EnElBucle(n)' = {}
  BY <1>1, <1>2 DEF VigenciaDe
<1> QED
  BY <1>3, <1>4, <1>5, <1>6 DEF VigenciaDe

(* Nobody learns anything about a node when no message arrives. *)
LEMMA MarcoDesmentido ==
  ASSUME \A q \in Pedidores :
           buzon'[q] = <<>> \/ (buzon'[q] = buzon[q] /\ pedidor'[q] = pedidor[q])
  PROVE  \A n : Desmentido(n)' => Desmentido(n)
BY DEF Desmentido, EnCurso, Pedir

(* A handler is installed for a node that has nobody in the loop. *)
LEMMA InstalaVigencia ==
  ASSUME TypeOK, Vigencia, NEW n \in Nodos, NEW h \in Manejadores, Instala(n, h),
         n \notin pisado' => EnElBucle(n) = {}, ~Desmentido(n)',
         \A m \in Nodos : Desmentido(m)' => Desmentido(m)
  PROVE  Vigencia'
<1>0. conexion \in [Nodos -> {"abierta", "cerrada", "llega", "alta"}]
      /\ manejador \in [Nodos -> Manejadores \cup {Nadie}]
  BY DEF TypeOK
<1>1. /\ h[1] = n /\ manej'[h].pc = "espera" /\ manejador'[n] = h
      /\ conexion'[n] = "abierta"
      /\ \A g \in Manejadores : g # h => manej'[g] = manej[g]
      /\ \A m \in Nodos : m # n => conexion'[m] = conexion[m] /\ manejador'[m] = manejador[m]
  BY <1>0 DEF Instala
<1>2. \A g \in Manejadores : g # h => (Cerrando(g)' <=> Cerrando(g))
  BY <1>1 DEF Cerrando
<1>3. ~Cerrando(h)' /\ manej'[h].pc # "cierra" /\ manej'[h].pc \in EnBucle
  BY <1>1 DEF Cerrando, EnBucle
<1>4. pisado \subseteq pisado'
  BY DEF Instala
<1>5. ASSUME n \notin pisado' PROVE VigenciaDe(n)'
  <2>1. EnElBucle(n)' = {h}
    BY <1>1, <1>3, <1>5 DEF EnElBucle
  <2>2. \A g \in Manejadores : g[1] = n => ~Cerrando(g)
    BY <1>5 DEF Instala
  <2>3. \A g \in Manejadores : g[1] = n => ~Cerrando(g)'
    BY <1>2, <1>3, <2>2
  <2>4. \A g \in Manejadores : g[1] = n => manej'[g].pc # "cierra"
    BY <2>3 DEF Cerrando
  <2> QED
    BY <1>1, <2>1, <2>3, <2>4 DEF VigenciaDe
<1>6. ASSUME NEW m \in Nodos \ pisado', m # n PROVE VigenciaDe(m)'
  <2>1. EnElBucle(m)' = EnElBucle(m)
    BY <1>1, <1>6 DEF EnElBucle
  <2>2. VigenciaDe(m)
    BY <1>4, <1>6 DEF Vigencia
  <2>3. EnElBucle(m)' \subseteq {manejador'[m]}
    BY <1>1, <1>6, <2>1, <2>2 DEF VigenciaDe
  <2>4. conexion'[m] = "abierta" => manejador'[m] \in EnElBucle(m)'
    BY <1>1, <1>6, <2>1, <2>2 DEF VigenciaDe
  <2>5. ASSUME NEW g \in Manejadores, g[1] = m
        PROVE  /\ Cerrando(g)' => conexion'[m] # "abierta"
               /\ manej'[g].pc = "cierra" => EnElBucle(m)' = {}
    <3>1. g # h
      BY <1>1, <1>6, <2>5
    <3>2. manej'[g] = manej[g] /\ (Cerrando(g)' <=> Cerrando(g)) /\ conexion'[m] = conexion[m]
      BY <1>1, <1>2, <1>6, <3>1
    <3> QED
      BY <2>1, <2>2, <2>5, <3>2 DEF VigenciaDe
  <2>6. Desmentido(m)' => EnElBucle(m)' = {}
    BY <2>1, <2>2 DEF VigenciaDe
  <2> QED
    BY <2>3, <2>4, <2>5, <2>6 DEF VigenciaDe
<1> QED
  BY <1>5, <1>6 DEF Vigencia

-----------------------------------------------------------------------------
(* Every step preserves the invariant. *)

(* A thread that waits for nothing moves on, and nothing else changes. *)
LEMMA InvMueve ==
  ASSUME IInv, NEW r \in Pedidores, pedidor[r].pc # "recibe",
         pedidor' \in [Pedidores -> TipoPedidor],
         \A q \in Pedidores : q # r => pedidor'[q] = pedidor[q],
         Tareas', DireccionDe(r)', fs' \in {"vivo", "caido"},
         conexion' \in [Nodos -> {"abierta", "cerrada", "llega", "alta"}],
         \A n \in Nodos : conexion'[n] # "abierta" <=> conexion[n] # "abierta",
         UNCHANGED <<manejador, manej, buzon, remitente, caidas, cruce, pisado>>
  PROVE  IInv'
<1>0. TypeOK /\ Direcciones /\ Remitentes /\ Cuenta /\ (~cruce => SinCruce /\ Vigencia)
  BY DEF IInv
<1>1. TypeOK'
  BY <1>0 DEF TypeOK
<1>2. Direcciones'
  BY <1>0, MarcoDirecciones
<1>3. Remitentes'
  BY <1>0 DEF Remitentes
<1>4. Cuenta'
  BY <1>0, MarcoCuenta
<1>5. ASSUME ~cruce PROVE SinCruce' /\ Vigencia'
  <2>1. SinCruce /\ Vigencia
    BY <1>0, <1>5
  <2>2. SinCruce'
    BY <1>0, <2>1, MarcoCruce
  <2>3. buzon[r] = <<>>
    BY <2>1 DEF SinCruce, Llegada
  <2>4. \A n : Desmentido(n)' => Desmentido(n)
    BY <2>3, MarcoDesmentido
  <2>5. \A h \in Manejadores : Cerrando(h)' => Cerrando(h)
    BY DEF Cerrando
  <2>6. Vigencia'
    BY <2>1, <2>4, <2>5, MarcoVigencia
  <2> QED
    BY <2>2, <2>6
<1> QED
  BY <1>1, <1>2, <1>3, <1>4, <1>5 DEF IInv

LEMMA InvEmpieza ==
  ASSUME IInv, NEW r \in Pedidores, NEW t \in Seq(Peticion), t # <<>>, Empieza(r, t),
         conexion' \in [Nodos -> {"abierta", "cerrada", "llega", "alta"}],
         \A n \in Nodos : conexion'[n] # "abierta" <=> conexion[n] # "abierta",
         \A i \in DOMAIN t : t[i].tipo = "alta" =>
           r = Escucha /\ i = Len(t) /\ conexion'[t[i].nodo] = "alta",
         r = Escucha \/ conexion' = conexion
  PROVE  IInv'
<1>0. TypeOK /\ Tareas
  BY DEF IInv
<1>1. pedidor \in [Pedidores -> TipoPedidor] /\ pedidor[r] \in TipoPedidor
  BY <1>0 DEF TypeOK
<1>2. pedidor' = [pedidor EXCEPT ![r].pc = "mira", ![r].tarea = t] /\ pedidor[r].pc = "libre"
      /\ UNCHANGED <<fs, manejador, manej, buzon, remitente, caidas, cruce, pisado>>
  BY DEF Empieza
<1>3. pedidor'[r] = [pedidor[r] EXCEPT !.pc = "mira", !.tarea = t]
  BY <1>1, <1>2
<1>4. pedidor'[r] \in TipoPedidor /\ pedidor'[r].pc = "mira" /\ pedidor'[r].tarea = t
  BY <1>1, <1>3 DEF TipoPedidor
<1>5. pedidor' \in [Pedidores -> TipoPedidor]
      /\ \A q \in Pedidores : q # r => pedidor'[q] = pedidor[q]
  BY <1>1, <1>2, <1>4
<1>6. pedidor'[r].pc = "libre" <=> pedidor'[r].tarea = <<>>
  BY <1>4
<1>7. \A i \in DOMAIN pedidor'[r].tarea : pedidor'[r].tarea[i].tipo = "alta" =>
        /\ r = Escucha /\ i = Len(pedidor'[r].tarea)
        /\ conexion'[pedidor'[r].tarea[i].nodo] = "alta"
  BY <1>4
<1>8. Tareas'
  BY <1>0, <1>5, <1>6, <1>7, MarcoTareas
<1>9. DireccionDe(r)'
  BY <1>4 DEF DireccionDe
<1>10. fs' \in {"vivo", "caido"}
  BY <1>0, <1>2 DEF TypeOK
<1> QED
  BY <1>2, <1>5, <1>8, <1>9, <1>10, InvMueve

LEMMA InvRecorrida == ASSUME IInv, NEW r \in Pedidores, EmpezarRecorrida(r) PROVE IInv'
<1>1. Empieza(r, Recorrida) /\ conexion' = conexion
  BY DEF EmpezarRecorrida
<1>2. conexion \in [Nodos -> {"abierta", "cerrada", "llega", "alta"}]
  BY DEF IInv, TypeOK
<1> QED
  BY <1>1, <1>2, TareasNuevas, InvEmpieza

LEMMA InvCopia ==
  ASSUME IInv, NEW origen \in Nodos, NEW destino \in Nodos, EmpezarCopia(origen, destino)
  PROVE  IInv'
<1> DEFINE t == <<Pedir("ping", destino), Pedir("bloque", origen), Pedir("graba", destino)>>
<1>1. Empieza(Consola, t) /\ conexion' = conexion
  BY DEF EmpezarCopia
<1>2. conexion \in [Nodos -> {"abierta", "cerrada", "llega", "alta"}]
  BY DEF IInv, TypeOK
<1>3. \A i \in 1 .. 3 : t[i] \in Peticion /\ t[i].tipo # "alta"
  BY DEF Pedir, Peticion
<1>4. t \in Seq(Peticion) /\ t # <<>> /\ DOMAIN t = 1 .. 3
  BY <1>3
<1> HIDE DEF t
<1> QED
  BY <1>1, <1>2, <1>3, <1>4, Constantes, InvEmpieza

LEMMA InvAceptar == ASSUME IInv, NEW n \in Nodos, Aceptar(n) PROVE IInv'
<1> DEFINE t == Append(Recorrida, Pedir("alta", n))
<1>1. Empieza(Escucha, t) /\ conexion[n] = "llega" /\ conexion' = [conexion EXCEPT ![n] = "alta"]
  BY DEF Aceptar
<1>2. conexion \in [Nodos -> {"abierta", "cerrada", "llega", "alta"}]
  BY DEF IInv, TypeOK
<1>3. conexion' \in [Nodos -> {"abierta", "cerrada", "llega", "alta"}] /\ conexion'[n] = "alta"
      /\ \A m \in Nodos : conexion'[m] # "abierta" <=> conexion[m] # "abierta"
  BY <1>1, <1>2
<1>4. Pedir("alta", n) \in Peticion /\ Pedir("alta", n).nodo = n
  BY DEF Pedir, Peticion
<1>5. /\ t \in Seq(Peticion) /\ Len(t) = Len(Recorrida) + 1 /\ Len(Recorrida) \in Nat
      /\ t[Len(t)] = Pedir("alta", n)
      /\ \A i \in DOMAIN t : i # Len(t) => i \in DOMAIN Recorrida /\ t[i] = Recorrida[i]
  BY <1>4, TareasNuevas
<1> HIDE DEF t
<1>6. t # <<>>
  BY <1>5
<1>7. \A i \in DOMAIN t : t[i].tipo = "alta" => i = Len(t) /\ conexion'[t[i].nodo] = "alta"
  BY <1>3, <1>4, <1>5, TareasNuevas
<1> QED
  BY <1>1, <1>3, <1>5, <1>6, <1>7, Constantes, InvEmpieza

(* A thread that goes on with its task, or waits for nobody. *)
LEMMA InvSigue ==
  ASSUME IInv, NEW r \in Pedidores, pedidor[r].pc \in {"mira", "lee", "envia"}, Sigue(r),
         UNCHANGED <<fs, conexion, manejador, manej, buzon, remitente, caidas, cruce, pisado>>
  PROVE  IInv'
<1>0. TypeOK /\ Tareas
  BY DEF IInv
<1>1. Tareas'
  BY <1>0, SigueTareas
<1>2. DireccionDe(r)'
  BY SigueDireccion
<1>3. fs' \in {"vivo", "caido"} /\ conexion' \in [Nodos -> {"abierta", "cerrada", "llega", "alta"}]
  BY <1>0 DEF TypeOK
<1> QED
  BY <1>1, <1>2, <1>3, InvMueve DEF Sigue

LEMMA InvAguarda ==
  ASSUME IInv, NEW r \in Pedidores, pedidor[r].pc \in {"lee", "envia"},
         NEW h \in Manejadores \cup {Nadie}, h # Nadie => h[1] = EnCurso(r).nodo,
         EnCurso(r).tipo \in ConRespuesta, Aguarda(r, h),
         UNCHANGED <<fs, conexion, manejador, manej, buzon, remitente, caidas, cruce, pisado>>
  PROVE  IInv'
<1>0. TypeOK /\ Tareas
  BY DEF IInv
<1>1. Tareas'
  BY <1>0, MismaTarea DEF Aguarda
<1>2. DireccionDe(r)'
  BY DEF Aguarda, DireccionDe
<1>3. fs' \in {"vivo", "caido"} /\ conexion' \in [Nodos -> {"abierta", "cerrada", "llega", "alta"}]
  BY <1>0 DEF TypeOK
<1> QED
  BY <1>1, <1>2, <1>3, InvMueve DEF Aguarda

LEMMA InvEnvio ==
  ASSUME IInv, NEW r \in Pedidores, pedidor[r].pc \in {"lee", "envia"},
         NEW h \in Manejadores \cup {Nadie}, h # Nadie => h[1] = EnCurso(r).nodo, Envio(r, h),
         UNCHANGED <<fs, conexion, manejador, manej, buzon, remitente, caidas, cruce, pisado>>
  PROVE  IInv'
<1>1. pedidor \in [Pedidores -> TipoPedidor] /\ pedidor[r].tarea # <<>>
  BY EnCursoEs DEF IInv, TypeOK
<1>2. CASE EnCurso(r).tipo \in ConRespuesta
  BY <1>1, <1>2, EnvioEs, InvAguarda
<1>3. CASE EnCurso(r).tipo \notin ConRespuesta
  BY <1>1, <1>3, EnvioEs, InvSigue
<1> QED
  BY <1>2, <1>3

(* The process ended: nothing but `fs` and, maybe, a mailbox changed. *)
LEMMA InvCaido ==
  ASSUME IInv, fs' = "caido", NEW r \in Pedidores,
         buzon' = buzon \/ buzon' = [buzon EXCEPT ![r] = <<>>],
         UNCHANGED <<conexion, manejador, manej, pedidor, remitente, caidas, cruce, pisado>>
  PROVE  IInv'
<1>0. TypeOK /\ Tareas /\ Direcciones /\ Remitentes /\ Cuenta /\ (~cruce => SinCruce /\ Vigencia)
  BY DEF IInv
<1>1. buzon \in [Hilos -> Ranura(Mensaje \cup Contestacion)] /\ r \in Hilos /\ r \notin Manejadores
      /\ (\A h \in Manejadores : buzon[h] \in Ranura(Mensaje))
      /\ (\A q \in Pedidores : buzon[q] \in Ranura(Contestacion))
  BY <1>0, Constantes DEF TypeOK, Hilos
<1>2. buzon'[r] = <<>> \/ buzon'[r] = buzon[r]
  BY <1>1
<1>3. \A q \in Hilos : q # r => buzon'[q] = buzon[q]
  BY <1>1
<1>4. <<>> \in Ranura(Mensaje \cup Contestacion) /\ <<>> \in Ranura(Contestacion)
  BY DEF Ranura
<1>5. buzon' \in [Hilos -> Ranura(Mensaje \cup Contestacion)]
  BY <1>1, <1>4
<1>6. TypeOK'
  BY <1>0, <1>1, <1>2, <1>3, <1>4, <1>5 DEF TypeOK, Hilos
<1>7. Tareas' /\ Direcciones'
  BY <1>0 DEF Tareas, Direcciones, DireccionDe, EnCurso
<1>8. Remitentes'
  BY <1>0, <1>1, <1>3 DEF Remitentes, Hilos
<1>9. Cuenta'
  BY <1>0, MarcoCuenta
<1>10. ASSUME ~cruce PROVE SinCruce' /\ Vigencia'
  <2>1. SinCruce /\ Vigencia
    BY <1>0, <1>10
  <2>2. (pedidor[r].pc # "recibe" /\ buzon'[r] = buzon[r]) \/ (buzon[r] # <<>> /\ buzon'[r] = <<>>)
        \/ buzon' = buzon
    <3>1. CASE buzon' = buzon
      BY <3>1
    <3>2. CASE buzon[r] = <<>> /\ buzon' = [buzon EXCEPT ![r] = <<>>]
      BY <1>1, <3>2
    <3>3. CASE buzon[r] # <<>> /\ buzon' = [buzon EXCEPT ![r] = <<>>]
      BY <1>1, <3>3
    <3> QED
      BY <3>1, <3>2, <3>3
  <2>3. SinCruce'
    <3>1. CASE buzon' = buzon
      BY <2>1, <3>1 DEF SinCruce, Deuda, Llegada, EsperaA, EnCurso
    <3>2. CASE buzon' # buzon
      BY <1>0, <1>3, <2>1, <2>2, <3>2, MarcoCruce
    <3> QED
      BY <3>1, <3>2
  <2>4. \A n : Desmentido(n)' => Desmentido(n)
    BY <1>2, <1>3, MarcoDesmentido DEF Hilos
  <2>5. \A h \in Manejadores : Cerrando(h)' => Cerrando(h)
    BY DEF Cerrando
  <2>6. Vigencia'
    BY <2>1, <2>4, <2>5, MarcoVigencia
  <2> QED
    BY <2>3, <2>6
<1> QED
  BY <1>6, <1>7, <1>8, <1>9, <1>10 DEF IInv

(* A thread takes the message of its mailbox, or leaves it. *)
Recoge(r) ==
  \/ pedidor[r].pc # "recibe" /\ buzon' = buzon
  \/ buzon[r] # <<>> /\ buzon' = [buzon EXCEPT ![r] = <<>>]

LEMMA RecogeEs ==
  ASSUME TypeOK, NEW r \in Pedidores, Recoge(r)
  PROVE  /\ buzon' \in [Hilos -> Ranura(Mensaje \cup Contestacion)]
         /\ \A h \in Manejadores : buzon'[h] = buzon[h] /\ buzon'[h] \in Ranura(Mensaje)
         /\ \A q \in Pedidores : buzon'[q] \in Ranura(Contestacion)
         /\ \A q \in Hilos : q # r => buzon'[q] = buzon[q]
         /\ \/ pedidor[r].pc # "recibe" /\ buzon'[r] = buzon[r]
            \/ buzon[r] # <<>> /\ buzon'[r] = <<>>
<1>1. buzon \in [Hilos -> Ranura(Mensaje \cup Contestacion)] /\ r \in Hilos
      /\ (\A h \in Manejadores : buzon[h] \in Ranura(Mensaje))
      /\ (\A q \in Pedidores : buzon[q] \in Ranura(Contestacion))
  BY DEF TypeOK, Hilos
<1>2. <<>> \in Ranura(Mensaje \cup Contestacion) /\ <<>> \in Ranura(Contestacion)
  BY DEF Ranura
<1>3. r \notin Manejadores /\ Pedidores \subseteq Hilos /\ Manejadores \subseteq Hilos
  BY Constantes DEF Hilos
<1>4. CASE buzon' = buzon /\ pedidor[r].pc # "recibe"
  BY <1>1, <1>3, <1>4
<1>5. CASE buzon[r] # <<>> /\ buzon' = [buzon EXCEPT ![r] = <<>>]
  BY <1>1, <1>2, <1>3, <1>5
<1> QED
  BY <1>4, <1>5 DEF Recoge

LEMMA InvContinua ==
  ASSUME IInv, NEW r \in Pedidores, pedidor[r].pc # "libre", Continua(r), Recoge(r),
         UNCHANGED <<remitente, caidas, cruce>>
  PROVE  IInv'
<1>0. TypeOK /\ Tareas /\ Direcciones /\ Remitentes /\ Cuenta /\ (~cruce => SinCruce /\ Vigencia)
  BY DEF IInv
<1>1. Sigue(r) /\ UNCHANGED <<fs, conexion, manejador, manej, pisado>>
  BY DEF Continua
<1>2. \A h \in Manejadores : buzon'[h] = buzon[h]
  BY <1>0, RecogeEs
<1>3. TypeOK'
  <2>1. pedidor' \in [Pedidores -> TipoPedidor]
    BY <1>1 DEF Sigue
  <2>2. buzon' \in [Hilos -> Ranura(Mensaje \cup Contestacion)]
        /\ (\A h \in Manejadores : buzon'[h] \in Ranura(Mensaje))
        /\ (\A q \in Pedidores : buzon'[q] \in Ranura(Contestacion))
    BY <1>0, RecogeEs
  <2> QED
    BY <1>0, <1>1, <2>1, <2>2 DEF TypeOK
<1>4. Tareas'
  BY <1>0, <1>1, SigueTareas
<1>5. Direcciones'
  BY <1>0, <1>1, SigueDireccion, MarcoDirecciones DEF Sigue
<1>6. Remitentes'
  BY <1>0, <1>1, <1>2 DEF Remitentes
<1>7. Cuenta'
  BY <1>0, <1>1, MarcoCuenta
<1>8. ASSUME ~cruce PROVE SinCruce' /\ Vigencia'
  <2>1. SinCruce /\ Vigencia
    BY <1>0, <1>8
  <2>2. \A q \in Pedidores : q # r => pedidor'[q] = pedidor[q]
    BY <1>1 DEF Sigue
  <2>3. SinCruce'
    BY <1>0, <1>1, <2>1, <2>2, RecogeEs, MarcoCruce
  <2>4. \A q \in Pedidores : buzon'[q] = <<>> \/ (buzon'[q] = buzon[q] /\ pedidor'[q] = pedidor[q])
    <3>1. buzon'[r] = <<>>
      BY <1>0, <2>1, RecogeEs DEF SinCruce, Llegada
    <3>2. \A q \in Pedidores : q # r => buzon'[q] = buzon[q]
      BY <1>0, RecogeEs DEF Hilos
    <3> QED
      BY <2>2, <3>1, <3>2
  <2>5. \A h \in Manejadores : Cerrando(h)' => Cerrando(h)
    BY <1>1 DEF Cerrando
  <2>6. Vigencia'
    BY <1>1, <2>1, <2>4, <2>5, MarcoDesmentido, MarcoVigencia
  <2> QED
    BY <2>3, <2>6
<1> QED
  BY <1>3, <1>4, <1>5, <1>6, <1>7, <1>8 DEF IInv

LEMMA InvAcepta ==
  ASSUME IInv, NEW r \in Pedidores, pedidor[r].pc # "libre", NEW n \in Nodos,
         NEW h \in Manejadores, Acepta(r, n, h), Recoge(r), UNCHANGED <<remitente, caidas, cruce>>,
         ~cruce /\ n \notin pisado' => EnElBucle(n) = {}
  PROVE  IInv'
<1>0. TypeOK /\ Tareas /\ Direcciones /\ Remitentes /\ Cuenta /\ (~cruce => SinCruce /\ Vigencia)
  BY DEF IInv
<1>1. Sigue(r) /\ Instala(n, h) /\ r = Escucha /\ fs' = fs /\ pedidor'[r].tarea = <<>>
      /\ EnCurso(r) = Pedir("alta", n) /\ conexion[n] = "alta"
  BY DEF Acepta
<1>2. conexion \in [Nodos -> {"abierta", "cerrada", "llega", "alta"}]
      /\ manejador \in [Nodos -> Manejadores \cup {Nadie}]
  BY <1>0 DEF TypeOK
<1>3. /\ h[1] = n /\ h[2] # 1 /\ manej[h].pc = "nuevo" /\ manej'[h].pc = "espera"
      /\ conexion' \in [Nodos -> {"abierta", "cerrada", "llega", "alta"}]
      /\ manejador' \in [Nodos -> Manejadores \cup {Nadie}]
      /\ conexion'[n] = "abierta" /\ manejador'[n] = h
      /\ \A m \in Nodos : m # n => conexion'[m] = conexion[m] /\ manejador'[m] = manejador[m]
  BY <1>1, <1>2 DEF Instala
<1>4. \A g \in Manejadores : g # h => manej'[g] = manej[g]
  BY <1>1 DEF Instala
<1>5. \A g \in Manejadores : buzon'[g] = buzon[g]
  BY <1>0, RecogeEs
<1>6. TypeOK'
  <2>1. pedidor' \in [Pedidores -> TipoPedidor] /\ manej' \in [Manejadores -> TipoManej]
    BY <1>1 DEF Sigue, Instala
  <2>2. buzon' \in [Hilos -> Ranura(Mensaje \cup Contestacion)]
        /\ (\A g \in Manejadores : buzon'[g] \in Ranura(Mensaje))
        /\ (\A q \in Pedidores : buzon'[q] \in Ranura(Contestacion))
    BY <1>0, RecogeEs
  <2>3. pisado' \subseteq Nodos
    BY <1>0, <1>1 DEF Instala, TypeOK
  <2>4. fs' \in {"vivo", "caido"} /\ caidas' \in 0 .. MaxCaidas /\ cruce' \in BOOLEAN
        /\ remitente' \in [Manejadores -> Pedidores \cup {Nadie}]
    BY <1>0, <1>1 DEF TypeOK
  <2> QED
    BY <1>3, <2>1, <2>2, <2>3, <2>4 DEF TypeOK
<1>7. Tareas'
  BY <1>0, <1>1, SigueTareas
<1>8. Direcciones'
  <2>1. \A m \in Nodos : manejador'[m] # Nadie => manejador'[m][1] = m
    BY <1>0, <1>3 DEF Direcciones
  <2>2. ASSUME NEW q \in Pedidores PROVE DireccionDe(q)'
    <3>1. CASE q = r
      BY <1>1, <3>1, SigueDireccion
    <3>2. CASE q # r
      <4>1. pedidor'[q] = pedidor[q]
        BY <1>1, <3>2 DEF Sigue
      <4> QED
        BY <1>0, <4>1 DEF Direcciones, DireccionDe, EnCurso
    <3> QED
      BY <3>1, <3>2
  <2> QED
    BY <2>1, <2>2 DEF Direcciones
<1>9. Remitentes'
  <2>1. ASSUME NEW g \in Manejadores
        PROVE  /\ buzon'[g] # <<>> => remitente'[g] = buzon'[g][1].de
               /\ manej'[g].pc \in {"atiende", "manda"} => remitente'[g] # Nadie
               /\ manej'[g].pc = "atiende" => manej'[g].op \in Mensaje
               /\ manej'[g].pc = "manda" => manej'[g].dest # Nadie /\ manej'[g].dato # "nada"
    BY <1>0, <1>3, <1>4, <1>5 DEF Remitentes
  <2> QED
    BY <2>1 DEF Remitentes
<1>10. Cuenta'
  <2>1. IsFiniteSet(Repuestos) /\ IsFiniteSet(Perdidas)
    BY Finitos, FS_Subset DEF Repuestos, Perdidas
  <2>2. Repuestos' = Repuestos \cup {h} /\ h \notin Repuestos
    BY <1>3, <1>4 DEF Repuestos
  <2>3. Perdidas' = Perdidas \ {n} /\ n \in Perdidas
    BY <1>1, <1>3 DEF Perdidas
  <2>4. Cardinality(Repuestos') = Cardinality(Repuestos) + 1
    BY <2>1, <2>2, FS_AddElement
  <2>5. Cardinality(Perdidas') = Cardinality(Perdidas) - 1
    BY <2>1, <2>3, FS_RemoveElement
  <2>6. Cardinality(Repuestos) \in Nat /\ Cardinality(Perdidas) \in Nat
    BY <2>1, FS_CardinalityType
  <2>7. \A g \in Manejadores : g[2] = 1 => manej'[g].pc # "nuevo"
    BY <1>0, <1>3, <1>4 DEF Cuenta
  <2>8. Cardinality(Repuestos)' + Cardinality(Perdidas)' = caidas'
    BY <1>0, <2>4, <2>5, <2>6 DEF Cuenta
  <2> QED
    BY <2>7, <2>8 DEF Cuenta
<1>11. ASSUME ~cruce PROVE SinCruce' /\ Vigencia'
  <2>1. SinCruce /\ Vigencia
    BY <1>0, <1>11
  <2>2. \A q \in Pedidores : q # r => pedidor'[q] = pedidor[q]
    BY <1>1 DEF Sigue
  <2>3. \A g \in Manejadores : manej'[g] = manej[g] \/ manej'[g].pc = "espera"
    BY <1>3, <1>4
  <2>4. SinCruce'
    BY <1>0, <2>1, <2>2, <2>3, RecogeEs, MarcoCruce
  <2>5. buzon'[r] = <<>>
    BY <1>0, <2>1, RecogeEs DEF SinCruce, Llegada
  <2>6. \A q \in Pedidores : buzon'[q] = <<>> \/ (buzon'[q] = buzon[q] /\ pedidor'[q] = pedidor[q])
    BY <1>0, <2>2, <2>5, RecogeEs DEF Hilos
  <2>7. ~Desmentido(n)'
    <3> SUFFICES ASSUME NEW q \in Pedidores, buzon'[q] # <<>>, EnCurso(q)' = Pedir("alta", n)
                 PROVE  FALSE
      BY DEF Desmentido
    <3>1. q # r /\ pedidor'[q] = pedidor[q]
      BY <2>2, <2>5
    <3>2. pedidor[q].pc # "libre"
      <4>1. buzon[q] # <<>>
        BY <1>0, <3>1, RecogeEs DEF Hilos
      <4> QED
        BY <2>1, <4>1 DEF SinCruce, Llegada
    <3>3. EnCurso(q) = Pedir("alta", n)
      BY <3>1 DEF EnCurso
    <3>4. EnCurso(q).tipo = "alta"
      BY <3>3 DEF Pedir
    <3> QED
      BY <1>0, <1>1, <3>1, <3>2, <3>4, EnCursoEs
  <2>8. \A m \in Nodos : Desmentido(m)' => Desmentido(m)
    BY <2>6, MarcoDesmentido
  <2>9. Vigencia'
    BY <1>0, <1>1, <1>11, <2>1, <2>7, <2>8, InstalaVigencia
  <2> QED
    BY <2>4, <2>9
<1> QED
  BY <1>6, <1>7, <1>8, <1>9, <1>10, <1>11 DEF IInv

LEMMA InvConcluir ==
  ASSUME IInv, NEW r \in Pedidores, pedidor[r].pc # "libre", NEW resp \in Respuestas,
         Concluir(r, resp), Recoge(r), UNCHANGED <<remitente, caidas, cruce>>,
         \A n \in Nodos \ pisado' :
           ~cruce /\ resp = "no" /\ EnCurso(r) = Pedir("alta", n) => EnElBucle(n) = {}
  PROVE  IInv'
<1>0. TypeOK /\ Tareas /\ Cuenta
  BY DEF IInv
<1>1. CASE Continua(r)
  BY <1>1, InvContinua
<1>2. ASSUME resp = "no", NEW n \in Nodos, NEW h \in Manejadores, Acepta(r, n, h) PROVE IInv'
  <2>1. EnCurso(r) = Pedir("alta", n)
    BY <1>2 DEF Acepta
  <2> QED
    BY <1>2, <2>1, InvAcepta
<1>3. CASE fs' = "caido" /\ UNCHANGED <<pedidor, conexion, manejador, manej, pisado>>
  <2>1. buzon' = buzon \/ buzon' = [buzon EXCEPT ![r] = <<>>]
    BY DEF Recoge
  <2> QED
    BY <1>3, <2>1, InvCaido
<1> QED
  BY <1>0, <1>1, <1>2, <1>3, ConcluirEs

LEMMA InvMirar == ASSUME IInv, NEW r \in Pedidores, Mirar(r) PROVE IInv'
<1>0. TypeOK /\ Tareas /\ (~cruce => SinCruce /\ Vigencia)
  BY DEF IInv
<1>1. pedidor[r].pc = "mira" /\ UNCHANGED <<buzon, remitente, caidas, cruce>>
  BY DEF Mirar
<1>2. CASE manejador[EnCurso(r).nodo] = Nadie
  <2>1. Concluir(r, "no") /\ Recoge(r)
    BY <1>1, <1>2 DEF Mirar, Recoge
  <2>2. ASSUME NEW n \in Nodos \ pisado', ~cruce, EnCurso(r) = Pedir("alta", n)
        PROVE  EnElBucle(n) = {}
    <3>1. manejador[n] = Nadie
      BY <1>2, <2>2 DEF Pedir
    <3>2. pisado \subseteq pisado'
      BY <2>1 DEF Concluir, Instalar
    <3>3. EnElBucle(n) \subseteq {Nadie}
      BY <1>0, <2>2, <3>1, <3>2 DEF Vigencia, VigenciaDe
    <3> QED
      BY <3>3, Constantes DEF EnElBucle
  <2>3. "no" \in Respuestas
    BY DEF Respuestas
  <2> QED
    BY <1>1, <2>1, <2>2, <2>3, InvConcluir
<1>3. CASE manejador[EnCurso(r).nodo] # Nadie
  <2>1. /\ pedidor' = [pedidor EXCEPT ![r].pc = "lee"]
        /\ UNCHANGED <<fs, conexion, manejador, manej, pisado>>
    BY <1>3 DEF Mirar
  <2>2. pedidor \in [Pedidores -> TipoPedidor] /\ pedidor[r] \in TipoPedidor
    BY <1>0 DEF TypeOK
  <2>3. pedidor'[r] = [pedidor[r] EXCEPT !.pc = "lee"]
    BY <2>1, <2>2
  <2>4. pedidor'[r] \in TipoPedidor /\ pedidor'[r].pc = "lee" /\ pedidor'[r].tarea = pedidor[r].tarea
    BY <2>2, <2>3 DEF TipoPedidor
  <2>5. pedidor' \in [Pedidores -> TipoPedidor]
        /\ \A q \in Pedidores : q # r => pedidor'[q] = pedidor[q]
    BY <2>1, <2>2, <2>4
  <2>6. Tareas'
    BY <1>0, <1>1, <2>1, <2>4, <2>5, MismaTarea
  <2>7. DireccionDe(r)'
    BY <2>4 DEF DireccionDe
  <2>8. fs' \in {"vivo", "caido"} /\ conexion' \in [Nodos -> {"abierta", "cerrada", "llega", "alta"}]
    BY <1>0, <2>1 DEF TypeOK
  <2> QED
    BY <1>1, <2>1, <2>5, <2>6, <2>7, <2>8, InvMueve
<1> QED
  BY <1>2, <1>3

LEMMA InvLeer == ASSUME IInv, NEW r \in Pedidores, Leer(r) PROVE IInv'
<1> DEFINE h == manejador[EnCurso(r).nodo]
<1>0. TypeOK /\ Tareas /\ Direcciones
  BY DEF IInv
<1>1. pedidor[r].pc = "lee"
      /\ UNCHANGED <<fs, conexion, manejador, manej, buzon, remitente, caidas, cruce, pisado>>
  BY DEF Leer
<1>2. EnCurso(r).nodo \in Nodos
  BY <1>0, <1>1, EnCursoEs
<1>3. h \in Manejadores \cup {Nadie} /\ (h # Nadie => h[1] = EnCurso(r).nodo)
  BY <1>0, <1>2 DEF TypeOK, Direcciones
<1>4. CASE h = Nadie
  <2>1. Envio(r, Nadie)
    BY <1>4 DEF Leer
  <2> QED
    BY <1>1, <2>1, InvEnvio
<1>5. CASE h # Nadie
  <2>1. pedidor' = [pedidor EXCEPT ![r].pc = "envia", ![r].dest = h]
    BY <1>5 DEF Leer
  <2> HIDE DEF h
  <2>2. pedidor \in [Pedidores -> TipoPedidor] /\ pedidor[r] \in TipoPedidor
    BY <1>0 DEF TypeOK
  <2>3. pedidor'[r] = [pedidor[r] EXCEPT !.pc = "envia", !.dest = h]
    BY <2>1, <2>2
  <2>4. pedidor'[r] \in TipoPedidor /\ pedidor'[r].pc = "envia" /\ pedidor'[r].dest = h
        /\ pedidor'[r].tarea = pedidor[r].tarea
    BY <1>3, <2>2, <2>3 DEF TipoPedidor
  <2>5. pedidor' \in [Pedidores -> TipoPedidor]
        /\ \A q \in Pedidores : q # r => pedidor'[q] = pedidor[q]
    BY <2>1, <2>2, <2>4
  <2>6. Tareas'
    BY <1>0, <1>1, <2>4, <2>5, MismaTarea
  <2>7. DireccionDe(r)'
    BY <1>3, <1>5, <2>4 DEF DireccionDe, EnCurso
  <2>8. fs' \in {"vivo", "caido"} /\ conexion' \in [Nodos -> {"abierta", "cerrada", "llega", "alta"}]
    BY <1>0, <1>1 DEF TypeOK
  <2> QED
    BY <1>1, <2>5, <2>6, <2>7, <2>8, InvMueve
<1> QED
  BY <1>4, <1>5

LEMMA InvRecibir == ASSUME IInv, NEW r \in Pedidores, Recibir(r) PROVE IInv'
<1> DEFINE resp == buzon[r][1].dato
<1>0. TypeOK /\ (~cruce => SinCruce /\ Vigencia)
  BY DEF IInv
<1>1. /\ pedidor[r].pc = "recibe" /\ buzon[r] # <<>> /\ Concluir(r, resp)
      /\ UNCHANGED <<remitente, caidas, cruce>> /\ Recoge(r)
  BY DEF Recibir, Recoge
<1>2. resp \in Respuestas
  BY <1>0, <1>1 DEF TypeOK, Ranura, Contestacion
<1>3. pisado \subseteq pisado'
  BY <1>1 DEF Concluir, Instalar
<1>4. ASSUME NEW n \in Nodos \ pisado', ~cruce, resp = "no", EnCurso(r) = Pedir("alta", n)
      PROVE  EnElBucle(n) = {}
  <2>1. Desmentido(n)
    BY <1>1, <1>4 DEF Desmentido
  <2> QED
    BY <1>0, <1>3, <1>4, <2>1 DEF Vigencia, VigenciaDe
<1> HIDE DEF resp
<1> QED
  BY <1>1, <1>2, <1>4, InvConcluir

LEMMA InvLiberado == ASSUME IInv, NEW r \in Pedidores, EnviarALiberado(r) PROVE IInv'
<1>0. TypeOK /\ Direcciones
  BY DEF IInv
<1>1. pedidor[r].pc = "envia"
      /\ UNCHANGED <<conexion, manejador, manej, buzon, remitente, caidas, cruce, pisado>>
  BY DEF EnviarALiberado
<1>2. CASE Envio(r, pedidor[r].dest) /\ UNCHANGED fs
  <2>1. pedidor[r].dest \in Manejadores \cup {Nadie}
    BY <1>0 DEF TypeOK, TipoPedidor
  <2>2. pedidor[r].dest # Nadie => pedidor[r].dest[1] = EnCurso(r).nodo
    BY <1>0, <1>1 DEF Direcciones, DireccionDe
  <2> QED
    BY <1>1, <1>2, <2>1, <2>2, InvEnvio
<1>3. CASE fs' = "caido" /\ UNCHANGED pedidor
  BY <1>1, <1>3, InvCaido
<1> QED
  BY <1>2, <1>3 DEF EnviarALiberado

(* A request arrives in the mailbox of a handler. *)
LEMMA InvEnviar == ASSUME IInv, NEW r \in Pedidores, Enviar(r) PROVE IInv'
<1>a. PICK h : h = pedidor[r].dest
  OBVIOUS
<1>b. PICK op : op = OpDe(r)
  OBVIOUS
<1>0. TypeOK /\ Tareas /\ Direcciones /\ Remitentes /\ Cuenta /\ (~cruce => SinCruce /\ Vigencia)
  BY DEF IInv
<1>1. /\ pedidor[r].pc = "envia" /\ buzon[h] = <<>>
      /\ buzon' = [buzon EXCEPT ![h] = <<op>>] /\ remitente' = [remitente EXCEPT ![h] = r]
      /\ cruce' = (cruce \/ (manej[h].pc = "atiende" /\ manej[h].op.tipo # "graba"))
      /\ Envio(r, h) /\ UNCHANGED <<fs, conexion, manejador, manej, caidas, pisado>>
  BY <1>a, <1>b DEF Enviar
<1>2. pedidor \in [Pedidores -> TipoPedidor] /\ pedidor[r].tarea # <<>>
  BY <1>0, <1>1, EnCursoEs DEF TypeOK
<1>3. h \in Manejadores /\ h # Nadie /\ h[1] = EnCurso(r).nodo
  BY <1>0, <1>1, <1>2, <1>a DEF TipoPedidor, Direcciones, DireccionDe
<1>4. /\ EnCurso(r).tipo \in {"ping", "alta", "bloque", "graba"} /\ op.de = r
      /\ op.tipo = "bloque" <=> EnCurso(r).tipo = "bloque"
      /\ op.tipo # "graba" => EnCurso(r).tipo \in ConRespuesta
      /\ op \in Mensaje
  <2>1. EnCurso(r).tipo \in {"ping", "alta", "bloque", "graba"}
    BY <1>0, <1>1, EnCursoEs
  <2>2. pedidor[r].leido \in Respuestas \cup {"nada"}
    BY <1>2 DEF TipoPedidor
  <2> QED
    BY <1>b, <2>1, <2>2 DEF OpDe, Mensaje, Pings, ConRespuesta
<1>5. IF EnCurso(r).tipo \in ConRespuesta THEN Aguarda(r, h) ELSE Sigue(r)
  BY <1>1, <1>2, <1>3, EnvioEs
<1>6. pedidor' \in [Pedidores -> TipoPedidor]
      /\ \A q \in Pedidores : q # r => pedidor'[q] = pedidor[q]
  BY <1>5 DEF Aguarda, Sigue
<1>7. Manejadores \subseteq Hilos /\ Pedidores \subseteq Hilos /\ Pedidores \cap Manejadores = {}
  BY Constantes DEF Hilos
<1>8. /\ buzon' \in [Hilos -> Ranura(Mensaje \cup Contestacion)] /\ buzon'[h] = <<op>>
      /\ \A q \in Hilos : q # h => buzon'[q] = buzon[q]
      /\ buzon'[h] \in Ranura(Mensaje)
  <2>1. <<op>> \in Ranura(Mensaje \cup Contestacion) /\ <<op>> \in Ranura(Mensaje)
    BY <1>4 DEF Ranura
  <2>2. buzon \in [Hilos -> Ranura(Mensaje \cup Contestacion)]
    BY <1>0 DEF TypeOK
  <2> QED
    BY <1>1, <1>3, <1>7, <2>1, <2>2
<1>9. /\ remitente' \in [Manejadores -> Pedidores \cup {Nadie}] /\ remitente'[h] = r
      /\ \A g \in Manejadores : g # h => remitente'[g] = remitente[g]
  BY <1>0, <1>1, <1>3 DEF TypeOK
<1>10. TypeOK'
  <2>1. (\A g \in Manejadores : buzon'[g] \in Ranura(Mensaje))
        /\ (\A q \in Pedidores : buzon'[q] \in Ranura(Contestacion))
    <3>1. (\A g \in Manejadores : buzon[g] \in Ranura(Mensaje))
          /\ (\A q \in Pedidores : buzon[q] \in Ranura(Contestacion))
      BY <1>0 DEF TypeOK
    <3> QED
      BY <1>3, <1>7, <1>8, <3>1
  <2>2. cruce' \in BOOLEAN
    BY <1>1
  <2> QED
    BY <1>0, <1>1, <1>6, <1>8, <1>9, <2>1, <2>2 DEF TypeOK
<1>11. Tareas'
  BY <1>0, <1>1, <1>5, <1>6, SigueTareas, MismaTarea DEF Aguarda
<1>12. DireccionDe(r)'
  BY <1>3, <1>5, SigueDireccion DEF Aguarda, DireccionDe
<1>13. Direcciones'
  BY <1>0, <1>1, <1>6, <1>12, MarcoDirecciones
<1>14. Remitentes'
  <2>1. ASSUME NEW g \in Manejadores
        PROVE  /\ buzon'[g] # <<>> => remitente'[g] = buzon'[g][1].de
               /\ manej'[g].pc \in {"atiende", "manda"} => remitente'[g] # Nadie
    <3>1. CASE g = h
      BY <1>4, <1>8, <1>9, <3>1, Constantes
    <3>2. CASE g # h
      BY <1>0, <1>1, <1>7, <1>8, <1>9, <3>2 DEF Remitentes
    <3> QED
      BY <3>1, <3>2
  <2>2. ASSUME NEW g \in Manejadores
        PROVE  /\ manej'[g].pc = "atiende" => manej'[g].op \in Mensaje
               /\ manej'[g].pc = "manda" => manej'[g].dest # Nadie /\ manej'[g].dato # "nada"
    BY <1>0, <1>1 DEF Remitentes
  <2> QED
    BY <2>1, <2>2 DEF Remitentes
<1>15. Cuenta'
  BY <1>0, <1>1, MarcoCuenta
<1>16. ASSUME ~cruce' PROVE SinCruce' /\ Vigencia'
  <2>1. SinCruce /\ Vigencia /\ ~(manej[h].pc = "atiende" /\ manej[h].op.tipo # "graba")
    BY <1>0, <1>1, <1>16
  <2>2. buzon[r] = <<>> /\ buzon'[r] = <<>>
    BY <1>1, <1>3, <1>7, <1>8, <2>1 DEF SinCruce, Llegada
  <2>3. ASSUME NEW q \in Pedidores, q # r PROVE buzon'[q] = buzon[q] /\ pedidor'[q] = pedidor[q]
    BY <1>3, <1>6, <1>7, <1>8, <2>3
  <2>4. ASSUME NEW q \in Pedidores, NEW g, NEW t, EsperaA(q, g, t)
        PROVE  EsperaA(q, g, t)' /\ q # r
    <3>1. q # r
      BY <1>1, <2>4 DEF EsperaA
    <3> QED
      BY <2>3, <2>4, <3>1, MismaEspera
  <2>5. ASSUME NEW q \in Pedidores PROVE Llegada(q)'
    <3>1. CASE q = r
      BY <2>2, <3>1 DEF Llegada
    <3>2. CASE q # r
      BY <2>1, <2>3, <3>2 DEF SinCruce, Llegada, EnCurso
    <3> QED
      BY <3>1, <3>2
  <2>6. ASSUME NEW g \in Manejadores PROVE Deuda(g)'
    <3>1. Deuda(g)
      BY <2>1 DEF SinCruce
    <3>2. /\ manej[g].pc = "manda" => manej[g].dest \in Pedidores
          /\ buzon[g] # <<>> => buzon[g][1].de \in Pedidores
          /\ manej[g].pc = "atiende" => manej[g].op.de \in Pedidores
      BY <1>0, Acreedores
    <3>3. manej'[g] = manej[g]
      BY <1>1
    <3>4. manej[g].pc = "manda" => EsperaA(manej[g].dest, g, manej[g].dato)' /\ manej[g].dest # r
      BY <2>4, <3>1, <3>2, <3>3 DEF Deuda
    <3>5. CASE g = h
      <4>1. op.tipo # "graba" => EsperaA(r, h, op.tipo)'
        <5> SUFFICES ASSUME op.tipo # "graba" PROVE EsperaA(r, h, op.tipo)'
          OBVIOUS
        <5>1. Aguarda(r, h)
          BY <1>4, <1>5
        <5>2. op.tipo = "bloque" <=> EnCurso(r)'.tipo = "bloque"
          BY <1>4, <5>1 DEF Aguarda
        <5>3. pedidor'[r].pc = "recibe" /\ pedidor'[r].dest = h
          BY <5>1 DEF Aguarda
        <5> QED
          BY <2>2, <5>2, <5>3 DEF EsperaA
      <4> QED
        BY <1>4, <1>8, <2>1, <3>3, <3>4, <3>5, <4>1 DEF Deuda
    <3>6. CASE g # h
      <4>1. buzon'[g] = buzon[g] /\ remitente'[g] = remitente[g]
        BY <1>7, <1>8, <1>9, <3>6
      <4> QED
        BY <2>4, <3>1, <3>2, <3>3, <4>1 DEF Deuda
    <3> QED
      BY <3>5, <3>6
  <2>7. \A n : Desmentido(n)' => Desmentido(n)
    BY <2>2, <2>3, MarcoDesmentido
  <2>8. \A g \in Manejadores : Cerrando(g)' => Cerrando(g)
    BY <1>1 DEF Cerrando
  <2>9. Vigencia'
    BY <1>1, <2>1, <2>7, <2>8, MarcoVigencia
  <2> QED
    BY <2>5, <2>6, <2>9 DEF SinCruce
<1> QED
  BY <1>10, <1>11, <1>13, <1>14, <1>15, <1>16 DEF IInv

(* A handler takes the request of its mailbox. *)
LEMMA InvTomar == ASSUME IInv, NEW h \in Manejadores, Tomar(h) PROVE IInv'
<1>0. TypeOK /\ Tareas /\ Direcciones /\ Remitentes /\ Cuenta /\ (~cruce => SinCruce /\ Vigencia)
  BY DEF IInv
<1>a. PICK op : op = buzon[h][1]
  OBVIOUS
<1>1. /\ manej[h].pc = "espera" /\ buzon[h] # <<>>
      /\ manej' = [manej EXCEPT ![h].pc = "atiende", ![h].op = op]
      /\ buzon' = [buzon EXCEPT ![h] = <<>>]
      /\ UNCHANGED <<fs, conexion, manejador, pedidor, remitente, caidas, cruce, pisado>>
  BY <1>a DEF Tomar
<1>2. Manejadores \subseteq Hilos /\ Pedidores \subseteq Hilos /\ Pedidores \cap Manejadores = {}
  BY Constantes DEF Hilos
<1>3. op \in Mensaje /\ op.de \in Pedidores /\ remitente[h] = op.de
  BY <1>0, <1>1, <1>a, Acreedores DEF Remitentes
<1>4. manej \in [Manejadores -> TipoManej] /\ manej[h] \in TipoManej
  BY <1>0 DEF TypeOK
<1>5. manej'[h] = [manej[h] EXCEPT !.pc = "atiende", !.op = op]
  BY <1>1, <1>4
<1>6. manej'[h] \in TipoManej /\ manej'[h].pc = "atiende" /\ manej'[h].op = op
  BY <1>3, <1>4, <1>5 DEF TipoManej, EnBucle
<1>7. manej' \in [Manejadores -> TipoManej] /\ \A g \in Manejadores : g # h => manej'[g] = manej[g]
  BY <1>1, <1>4, <1>6
<1>8. /\ buzon' \in [Hilos -> Ranura(Mensaje \cup Contestacion)] /\ buzon'[h] = <<>>
      /\ \A q \in Hilos : q # h => buzon'[q] = buzon[q]
      /\ buzon'[h] \in Ranura(Mensaje)
  <2>1. <<>> \in Ranura(Mensaje \cup Contestacion) /\ <<>> \in Ranura(Mensaje)
    BY DEF Ranura
  <2>2. buzon \in [Hilos -> Ranura(Mensaje \cup Contestacion)]
    BY <1>0 DEF TypeOK
  <2> QED
    BY <1>1, <1>2, <2>1, <2>2
<1>9. TypeOK'
  <2>1. (\A g \in Manejadores : buzon'[g] \in Ranura(Mensaje))
        /\ (\A q \in Pedidores : buzon'[q] \in Ranura(Contestacion))
    <3>1. (\A g \in Manejadores : buzon[g] \in Ranura(Mensaje))
          /\ (\A q \in Pedidores : buzon[q] \in Ranura(Contestacion))
      BY <1>0 DEF TypeOK
    <3> QED
      BY <1>2, <1>8, <3>1
  <2> QED
    BY <1>0, <1>1, <1>7, <1>8, <2>1 DEF TypeOK
<1>10. Tareas' /\ Direcciones'
  BY <1>0, <1>1 DEF Tareas, Direcciones, DireccionDe, EnCurso
<1>11. Remitentes'
  <2>1. ASSUME NEW g \in Manejadores
        PROVE  /\ buzon'[g] # <<>> => remitente'[g] = buzon'[g][1].de
               /\ manej'[g].pc \in {"atiende", "manda"} => remitente'[g] # Nadie
               /\ manej'[g].pc = "atiende" => manej'[g].op \in Mensaje
               /\ manej'[g].pc = "manda" => manej'[g].dest # Nadie /\ manej'[g].dato # "nada"
    <3>1. CASE g = h
      BY <1>1, <1>3, <1>6, <1>8, <3>1, Constantes
    <3>2. CASE g # h
      BY <1>0, <1>1, <1>2, <1>7, <1>8, <3>2 DEF Remitentes
    <3> QED
      BY <3>1, <3>2
  <2> QED
    BY <2>1 DEF Remitentes
<1>12. Cuenta'
  BY <1>0, <1>1, <1>6, <1>7, MarcoCuenta
<1>13. ASSUME ~cruce PROVE SinCruce' /\ Vigencia'
  <2>1. SinCruce /\ Vigencia
    BY <1>0, <1>13
  <2>2. \A q \in Pedidores : buzon'[q] = buzon[q] /\ pedidor'[q] = pedidor[q]
    BY <1>1, <1>2, <1>8
  <2>3. \A q, g, t : q \in Pedidores /\ EsperaA(q, g, t) => EsperaA(q, g, t)'
    BY <2>2, MismaEspera
  <2>4. \A q \in Pedidores : Llegada(q)'
    BY <2>1, <2>2 DEF SinCruce, Llegada, EnCurso
  <2>5. ASSUME NEW g \in Manejadores PROVE Deuda(g)'
    <3>1. Deuda(g)
      BY <2>1 DEF SinCruce
    <3>2. CASE g = h
      <4>1. op.tipo # "graba" => EsperaA(op.de, h, op.tipo)'
        BY <1>1, <1>3, <1>a, <2>3, <3>1, <3>2 DEF Deuda
      <4>2. remitente'[h] = op.de
        BY <1>1, <1>3
      <4> QED
        BY <1>6, <1>8, <3>2, <4>1, <4>2 DEF Deuda
    <3>3. CASE g # h
      <4>1. buzon'[g] = buzon[g] /\ remitente'[g] = remitente[g] /\ manej'[g] = manej[g]
        BY <1>1, <1>2, <1>7, <1>8, <3>3
      <4>2. /\ manej[g].pc = "manda" => manej[g].dest \in Pedidores
            /\ buzon[g] # <<>> => buzon[g][1].de \in Pedidores
            /\ manej[g].pc = "atiende" => manej[g].op.de \in Pedidores
        BY <1>0, Acreedores
      <4> QED
        BY <2>3, <3>1, <4>1, <4>2 DEF Deuda
    <3> QED
      BY <3>2, <3>3
  <2>6. \A n : Desmentido(n)' => Desmentido(n)
    BY <2>2, MarcoDesmentido
  <2>7. \A g \in Manejadores : /\ Cerrando(g)' => Cerrando(g)
                               /\ manej'[g].pc \in EnBucle <=> manej[g].pc \in EnBucle
                               /\ manej'[g].pc = "cierra" => manej[g].pc = "cierra"
    BY <1>1, <1>6, <1>7 DEF Cerrando, EnBucle
  <2>8. Vigencia'
    BY <1>1, <2>1, <2>6, <2>7, MarcoVigencia
  <2> QED
    BY <2>4, <2>5, <2>8 DEF SinCruce
<1> QED
  BY <1>1, <1>9, <1>10, <1>11, <1>12, <1>13 DEF IInv

(* A handler that served a request addresses its answer, or has none. *)
Servido(h) ==
  \/ manej'[h].pc = "espera"
  \/ /\ manej'[h].pc = "manda" /\ manej'[h].dest = remitente[h] /\ manej[h].op.tipo # "graba"
     /\ manej'[h].dato \in Respuestas
     /\ manej'[h].dato = "bloque" <=> manej[h].op.tipo = "bloque"
     /\ manej'[h].dato = "no" => conexion[h[1]] # "abierta"

LEMMA InvServido ==
  ASSUME IInv, NEW h \in Manejadores, manej[h].pc = "atiende",
         manej' \in [Manejadores -> TipoManej], Servido(h),
         \A g \in Manejadores : g # h => manej'[g] = manej[g],
         UNCHANGED <<fs, conexion, manejador, pedidor, buzon, remitente, caidas, cruce, pisado>>
  PROVE  IInv'
<1>0. TypeOK /\ Tareas /\ Direcciones /\ Remitentes /\ Cuenta /\ (~cruce => SinCruce /\ Vigencia)
  BY DEF IInv
<1>1. TypeOK'
  BY <1>0 DEF TypeOK
<1>2. Tareas' /\ Direcciones'
  BY <1>0 DEF Tareas, Direcciones, DireccionDe, EnCurso
<1>3. Remitentes'
  <2>1. ASSUME NEW g \in Manejadores
        PROVE  /\ buzon'[g] # <<>> => remitente'[g] = buzon'[g][1].de
               /\ manej'[g].pc \in {"atiende", "manda"} => remitente'[g] # Nadie
               /\ manej'[g].pc = "atiende" => manej'[g].op \in Mensaje
               /\ manej'[g].pc = "manda" => manej'[g].dest # Nadie /\ manej'[g].dato # "nada"
    BY <1>0 DEF Remitentes, Servido, Respuestas
  <2> QED
    BY <2>1 DEF Remitentes
<1>4. Cuenta'
  <2>1. \A g \in Manejadores : manej'[g].pc = "nuevo" <=> manej[g].pc = "nuevo"
    BY DEF Servido
  <2> QED
    BY <1>0, <2>1, MarcoCuenta
<1>5. ASSUME ~cruce PROVE SinCruce' /\ Vigencia'
  <2>1. SinCruce /\ Vigencia
    BY <1>0, <1>5
  <2>2. \A q, g, t : q \in Pedidores /\ EsperaA(q, g, t) => EsperaA(q, g, t)'
    BY MismaEspera
  <2>3. \A q \in Pedidores : Llegada(q)'
    BY <2>1 DEF SinCruce, Llegada, EnCurso
  <2>4. ASSUME NEW g \in Manejadores PROVE Deuda(g)'
    <3>1. Deuda(g)
      BY <2>1 DEF SinCruce
    <3>2. /\ manej[g].pc = "manda" => manej[g].dest \in Pedidores
          /\ buzon[g] # <<>> => buzon[g][1].de \in Pedidores
          /\ manej[g].pc = "atiende" => manej[g].op.de \in Pedidores
      BY <1>0, Acreedores
    <3>3. CASE g = h
      <4>1. CASE manej'[h].pc = "espera"
        BY <2>2, <3>1, <3>2, <3>3, <4>1 DEF Deuda
      <4>2. CASE manej'[h].pc = "manda" /\ manej[h].op.tipo # "graba"
                 /\ manej'[h].dest = remitente[h]
                 /\ (manej'[h].dato = "bloque" <=> manej[h].op.tipo = "bloque")
        <5>1. EsperaA(manej[h].op.de, h, manej[h].op.tipo) /\ buzon[h] = <<>>
              /\ remitente[h] = manej[h].op.de
          BY <3>1, <3>3, <4>2 DEF Deuda
        <5>2. EsperaA(remitente[h], h, manej'[h].dato)
          BY <4>2, <5>1 DEF EsperaA
        <5>3. remitente[h] \in Pedidores
          BY <3>2, <3>3, <5>1
        <5>4. ASSUME NEW q, NEW t, q = remitente[h], EsperaA(q, h, t) PROVE EsperaA(q, h, t)'
          BY <2>2, <5>3, <5>4
        <5>5. EsperaA(manej[h].dest, h, manej[h].dato)'
          BY <4>2, <5>2, <5>4 DEF EsperaA, EnCurso
        <5> QED
          BY <3>3, <4>2, <5>1, <5>5 DEF Deuda
      <4> QED
        BY <4>1, <4>2 DEF Servido
    <3>4. CASE g # h
      BY <2>2, <3>1, <3>2, <3>4 DEF Deuda
    <3> QED
      BY <3>3, <3>4
  <2>5. \A n : Desmentido(n)' => Desmentido(n)
    BY MarcoDesmentido
  <2>6. \A g \in Manejadores : /\ Cerrando(g)' => Cerrando(g) \/ conexion'[g[1]] # "abierta"
                               /\ manej'[g].pc \in EnBucle <=> manej[g].pc \in EnBucle
                               /\ manej'[g].pc = "cierra" => manej[g].pc = "cierra"
    BY DEF Cerrando, EnBucle, Servido
  <2>7. Vigencia'
    BY <2>1, <2>5, <2>6, MarcoVigencia
  <2> QED
    BY <2>3, <2>4, <2>7 DEF SinCruce
<1> QED
  BY <1>1, <1>2, <1>3, <1>4, <1>5 DEF IInv

LEMMA InvAtender == ASSUME IInv, NEW h \in Manejadores, Atender(h) PROVE IInv'
<1>0. TypeOK /\ Remitentes
  BY DEF IInv
<1>1. /\ manej[h].pc = "atiende"
      /\ UNCHANGED <<conexion, manejador, pedidor, buzon, remitente, caidas, cruce, pisado>>
      /\ AtenderPing(h) \/ AtenderBloque(h) \/ AtenderGraba(h)
  BY DEF Atender
<1>2. manej \in [Manejadores -> TipoManej] /\ manej[h] \in TipoManej
      /\ remitente[h] \in Pedidores \cup {Nadie}
  BY <1>0 DEF TypeOK
<1>3. ASSUME Vuelve(h), UNCHANGED fs PROVE IInv'
  <2>1. manej' = [manej EXCEPT ![h].pc = "espera", ![h].op = NadaQueHacer]
    BY <1>3 DEF Vuelve
  <2>2. manej'[h] = [manej[h] EXCEPT !.pc = "espera", !.op = NadaQueHacer]
    BY <1>2, <2>1
  <2>3. manej'[h] \in TipoManej /\ manej'[h].pc = "espera"
    BY <1>2, <2>2 DEF TipoManej, EnBucle
  <2>4. manej' \in [Manejadores -> TipoManej]
        /\ \A g \in Manejadores : g # h => manej'[g] = manej[g]
    BY <1>2, <2>1, <2>3
  <2>5. Servido(h)
    BY <2>3 DEF Servido
  <2> QED
    BY <1>1, <1>3, <2>4, <2>5, InvServido
<1>4. ASSUME NEW d \in Respuestas, Dirigir(h, d), UNCHANGED fs, manej[h].op.tipo # "graba",
             d = "bloque" <=> manej[h].op.tipo = "bloque",
             d = "no" => conexion[h[1]] # "abierta"
      PROVE  IInv'
  <2>1. manej' = [manej EXCEPT ![h].pc = "manda", ![h].dest = remitente[h], ![h].dato = d]
    BY <1>4 DEF Dirigir
  <2>2. manej'[h] = [manej[h] EXCEPT !.pc = "manda", !.dest = remitente[h], !.dato = d]
    BY <1>2, <2>1
  <2>3. manej'[h] \in TipoManej /\ manej'[h].pc = "manda" /\ manej'[h].dest = remitente[h]
        /\ manej'[h].dato = d
    BY <1>2, <2>2 DEF TipoManej, EnBucle
  <2>4. manej' \in [Manejadores -> TipoManej]
        /\ \A g \in Manejadores : g # h => manej'[g] = manej[g]
    BY <1>2, <2>1, <2>3
  <2>5. Servido(h)
    BY <1>4, <2>3 DEF Servido
  <2> QED
    BY <1>1, <1>4, <2>4, <2>5, InvServido
<1>5. ASSUME fs' = "caido", UNCHANGED manej PROVE IInv'
  BY <1>1, <1>5, Constantes, InvCaido
<1>6. CASE AtenderPing(h)
  BY <1>3, <1>4, <1>5, <1>6 DEF AtenderPing, Vivo, Respuestas
<1>7. CASE AtenderBloque(h)
  BY <1>3, <1>4, <1>7 DEF AtenderBloque, Respuestas
<1>8. CASE AtenderGraba(h)
  BY <1>3, <1>5, <1>8 DEF AtenderGraba
<1> QED
  BY <1>1, <1>6, <1>7, <1>8

(* An answer arrives in the mailbox of the thread that asked. *)
LEMMA InvMandar == ASSUME IInv, NEW h \in Manejadores, Mandar(h) PROVE IInv'
<1>0. TypeOK /\ Tareas /\ Direcciones /\ Remitentes /\ Cuenta /\ (~cruce => SinCruce /\ Vigencia)
  BY DEF IInv
<1>a. PICK r : r = manej[h].dest
  OBVIOUS
<1>b. PICK d : d = manej[h].dato
  OBVIOUS
<1>1. /\ manej[h].pc = "manda" /\ buzon[r] = <<>>
      /\ buzon' = [buzon EXCEPT ![r] = <<[nodo |-> h[1], dato |-> d]>>]
      /\ manej' = [manej EXCEPT ![h] = [pc |-> IF d = "no" THEN "cierra" ELSE "espera",
                                        op |-> NadaQueHacer, dest |-> Nadie, dato |-> "nada"]]
      /\ UNCHANGED <<fs, conexion, manejador, pedidor, remitente, caidas, cruce, pisado>>
  BY <1>a, <1>b DEF Mandar
<1>2. Manejadores \subseteq Hilos /\ Pedidores \subseteq Hilos /\ Pedidores \cap Manejadores = {}
      /\ h[1] \in Nodos
  BY Constantes DEF Hilos
<1>3. r \in Pedidores /\ d \in Respuestas
  BY <1>0, <1>1, <1>a, <1>b, Acreedores
<1>4. manej \in [Manejadores -> TipoManej]
  BY <1>0 DEF TypeOK
<1>5. manej'[h] = [pc |-> IF d = "no" THEN "cierra" ELSE "espera",
                   op |-> NadaQueHacer, dest |-> Nadie, dato |-> "nada"]
  BY <1>1, <1>4
<1>6. /\ manej'[h] \in TipoManej
      /\ d = "no" => manej'[h].pc = "cierra"
      /\ d # "no" => manej'[h].pc = "espera"
  BY <1>5 DEF TipoManej, EnBucle
<1>7. manej' \in [Manejadores -> TipoManej] /\ \A g \in Manejadores : g # h => manej'[g] = manej[g]
  BY <1>1, <1>4, <1>6
<1>8. /\ buzon' \in [Hilos -> Ranura(Mensaje \cup Contestacion)]
      /\ buzon'[r] = <<[nodo |-> h[1], dato |-> d]>>
      /\ \A q \in Hilos : q # r => buzon'[q] = buzon[q]
      /\ buzon'[r] \in Ranura(Contestacion)
  <2>1. [nodo |-> h[1], dato |-> d] \in Contestacion
    BY <1>2, <1>3 DEF Contestacion
  <2>2. <<[nodo |-> h[1], dato |-> d]>> \in Ranura(Mensaje \cup Contestacion)
        /\ <<[nodo |-> h[1], dato |-> d]>> \in Ranura(Contestacion)
    BY <2>1 DEF Ranura
  <2>3. buzon \in [Hilos -> Ranura(Mensaje \cup Contestacion)]
    BY <1>0 DEF TypeOK
  <2> QED
    BY <1>1, <1>2, <1>3, <2>2, <2>3
<1>9. TypeOK'
  <2>1. (\A g \in Manejadores : buzon'[g] \in Ranura(Mensaje))
        /\ (\A q \in Pedidores : buzon'[q] \in Ranura(Contestacion))
    <3>1. (\A g \in Manejadores : buzon[g] \in Ranura(Mensaje))
          /\ (\A q \in Pedidores : buzon[q] \in Ranura(Contestacion))
      BY <1>0 DEF TypeOK
    <3> QED
      BY <1>2, <1>3, <1>8, <3>1
  <2> QED
    BY <1>0, <1>1, <1>7, <1>8, <2>1 DEF TypeOK
<1>10. Tareas' /\ Direcciones'
  BY <1>0, <1>1 DEF Tareas, Direcciones, DireccionDe, EnCurso
<1>11. \A g \in Manejadores : buzon'[g] = buzon[g]
  BY <1>2, <1>3, <1>8
<1>12. Remitentes'
  <2>1. ASSUME NEW g \in Manejadores
        PROVE  /\ buzon'[g] # <<>> => remitente'[g] = buzon'[g][1].de
               /\ manej'[g].pc \in {"atiende", "manda"} => remitente'[g] # Nadie
               /\ manej'[g].pc = "atiende" => manej'[g].op \in Mensaje
               /\ manej'[g].pc = "manda" => manej'[g].dest # Nadie /\ manej'[g].dato # "nada"
    <3>1. CASE g = h
      BY <1>0, <1>1, <1>6, <1>11, <3>1 DEF Remitentes
    <3>2. CASE g # h
      BY <1>0, <1>1, <1>7, <1>11, <3>2 DEF Remitentes
    <3> QED
      BY <3>1, <3>2
  <2> QED
    BY <2>1 DEF Remitentes
<1>13. Cuenta'
  <2>1. \A g \in Manejadores : manej'[g].pc = "nuevo" <=> manej[g].pc = "nuevo"
    BY <1>1, <1>6, <1>7
  <2> QED
    BY <1>0, <1>1, <2>1, MarcoCuenta
<1>14. ASSUME ~cruce PROVE SinCruce' /\ Vigencia'
  <2>1. SinCruce /\ Vigencia
    BY <1>0, <1>14
  <2>2. EsperaA(r, h, d)
    BY <1>1, <1>a, <1>b, <2>1 DEF SinCruce, Deuda
  <2>3. pedidor' = pedidor /\ \A q \in Pedidores : q # r => buzon'[q] = buzon[q]
    BY <1>1, <1>2, <1>8
  <2>4. \A q, g, t : q \in Pedidores /\ q # r /\ EsperaA(q, g, t) => EsperaA(q, g, t)'
    BY <2>3, MismaEspera
  <2>5. ASSUME NEW q \in Pedidores PROVE Llegada(q)'
    <3>1. CASE q = r
      <4>1. pedidor[r].pc = "recibe" /\ pedidor[r].dest = h
            /\ (d = "bloque" <=> EnCurso(r).tipo = "bloque")
        BY <2>2 DEF EsperaA
      <4>2. buzon'[r][1].nodo = h[1] /\ buzon'[r][1].dato = d
        BY <1>8
      <4>3. EnCurso(r)' = EnCurso(r)
        BY <2>3 DEF EnCurso
      <4> QED
        BY <2>3, <3>1, <4>1, <4>2, <4>3, Constantes DEF Llegada
    <3>2. CASE q # r
      BY <2>1, <2>3, <3>2 DEF SinCruce, Llegada, EnCurso
    <3> QED
      BY <3>1, <3>2
  <2>6. ASSUME NEW g \in Manejadores PROVE Deuda(g)'
    <3>1. Deuda(g) /\ buzon'[g] = buzon[g] /\ remitente'[g] = remitente[g]
      BY <1>1, <1>11, <2>1 DEF SinCruce
    <3>2. /\ manej[g].pc = "manda" => manej[g].dest \in Pedidores
          /\ buzon[g] # <<>> => buzon[g][1].de \in Pedidores
          /\ manej[g].pc = "atiende" => manej[g].op.de \in Pedidores
      BY <1>0, Acreedores
    <3>3. CASE g = h
      <4>1. manej'[g].pc \notin {"atiende", "manda"}
        BY <1>6, <3>3
      <4>2. buzon[g] # <<>> /\ buzon[g][1].tipo # "graba" =>
              EsperaA(buzon[g][1].de, g, buzon[g][1].tipo) /\ buzon[g][1].de # r
        BY <1>1, <1>a, <3>1, <3>3 DEF Deuda
      <4> QED
        BY <2>4, <3>1, <3>2, <4>1, <4>2 DEF Deuda
    <3>4. CASE g # h
      <4>1. \A t : ~EsperaA(r, g, t)
        BY <2>2, <3>4 DEF EsperaA
      <4>2. \A q, t : q \in Pedidores /\ EsperaA(q, g, t) => EsperaA(q, g, t)'
        BY <2>4, <4>1
      <4>3. manej'[g] = manej[g]
        BY <1>7, <3>4
      <4> QED
        BY <3>1, <3>2, <4>2, <4>3 DEF Deuda
    <3> QED
      BY <3>3, <3>4
  <2>7. h \in EnElBucle(h[1]) /\ EnElBucle(h[1])' \subseteq EnElBucle(h[1])
        /\ (d = "no" => h \notin EnElBucle(h[1])')
    BY <1>1, <1>6, <1>7 DEF EnElBucle, EnBucle
  <2>8. ASSUME NEW n \in Nodos, n # h[1] PROVE Desmentido(n)' => Desmentido(n)
    <3>1. EnCurso(r).nodo = h[1] /\ \A q : EnCurso(q)' = EnCurso(q)
      BY <1>0, <1>3, <2>2, <2>3, Constantes DEF EsperaA, Direcciones, DireccionDe, EnCurso
    <3>2. EnCurso(r) # Pedir("alta", n)
      BY <2>8, <3>1 DEF Pedir
    <3> QED
      BY <2>3, <3>1, <3>2 DEF Desmentido, Pedir
  <2>9. CASE d # "no"
    <3>1. \A g \in Manejadores : /\ Cerrando(g)' => Cerrando(g)
                                 /\ manej'[g].pc \in EnBucle <=> manej[g].pc \in EnBucle
                                 /\ manej'[g].pc = "cierra" => manej[g].pc = "cierra"
      BY <1>1, <1>6, <1>7, <2>9 DEF Cerrando, EnBucle
    <3>2. \A n \in Nodos : Desmentido(n)' => Desmentido(n)
      <4>1. buzon'[r][1].dato # "no"
        BY <1>8, <2>9
      <4>2. \A q : EnCurso(q)' = EnCurso(q)
        BY <2>3 DEF EnCurso
      <4> QED
        BY <2>3, <4>1, <4>2 DEF Desmentido, Pedir
    <3>3. Vigencia'
      BY <1>1, <2>1, <3>1, <3>2, MarcoVigencia
    <3> QED
      BY <2>5, <2>6, <3>3 DEF SinCruce
  <2>10. CASE d = "no"
    <3>1. \A g \in Manejadores : g # h => (Cerrando(g)' <=> Cerrando(g))
      BY <1>7 DEF Cerrando
    <3>2. Cerrando(h) /\ manej'[h].pc = "cierra"
      BY <1>1, <1>6, <1>b, <2>10 DEF Cerrando
    <3>3. ASSUME h[1] \notin pisado PROVE VigenciaDe(h[1])'
      <4>1. VigenciaDe(h[1])
        BY <1>2, <2>1, <3>3 DEF Vigencia
      <4>2. EnElBucle(h[1])' = {}
        BY <2>7, <2>10, <4>1 DEF VigenciaDe
      <4>3. conexion'[h[1]] # "abierta"
        BY <1>1, <3>2, <4>1 DEF VigenciaDe
      <4> QED
        BY <4>2, <4>3 DEF VigenciaDe
    <3>4. ASSUME NEW n \in Nodos \ pisado, n # h[1] PROVE VigenciaDe(n)'
      <4>1. VigenciaDe(n)
        BY <2>1 DEF Vigencia
      <4>2. EnElBucle(n)' = EnElBucle(n)
        BY <1>7, <3>4 DEF EnElBucle
      <4>3. conexion'[n] = conexion[n] /\ manejador'[n] = manejador[n]
        BY <1>1
      <4>4. ASSUME NEW g \in Manejadores, g[1] = n
            PROVE  /\ Cerrando(g)' => conexion'[n] # "abierta"
                   /\ manej'[g].pc = "cierra" => EnElBucle(n)' = {}
        <5>1. g # h /\ manej'[g] = manej[g]
          BY <1>7, <3>4, <4>4
        <5> QED
          BY <3>1, <4>1, <4>2, <4>3, <4>4, <5>1 DEF VigenciaDe
      <4>5. Desmentido(n)' => EnElBucle(n)' = {}
        BY <2>8, <3>4, <4>1, <4>2 DEF VigenciaDe
      <4>6. EnElBucle(n)' \subseteq {manejador'[n]}
            /\ (conexion'[n] = "abierta" => manejador'[n] \in EnElBucle(n)')
        BY <4>1, <4>2, <4>3 DEF VigenciaDe
      <4> QED
        BY <4>4, <4>5, <4>6 DEF VigenciaDe
    <3>5. Vigencia'
      <4>1. pisado' = pisado
        BY <1>1
      <4> QED
        BY <3>3, <3>4, <4>1 DEF Vigencia
    <3> QED
      BY <2>5, <2>6, <3>5 DEF SinCruce
  <2> QED
    BY <2>9, <2>10
<1> QED
  BY <1>1, <1>9, <1>10, <1>12, <1>13, <1>14 DEF IInv

(* A handler ends, and clears node->handler. *)
LEMMA InvCerrar == ASSUME IInv, NEW h \in Manejadores, Cerrar(h) PROVE IInv'
<1>0. TypeOK /\ Tareas /\ Direcciones /\ Remitentes /\ Cuenta /\ (~cruce => SinCruce /\ Vigencia)
  BY DEF IInv
<1>1. /\ manej[h].pc = "cierra" /\ manejador' = [manejador EXCEPT ![h[1]] = Nadie]
      /\ manej' = [manej EXCEPT ![h].pc = "muerto"]
      /\ UNCHANGED <<fs, conexion, pedidor, buzon, remitente, caidas, cruce, pisado>>
  BY DEF Cerrar
<1>2. manej \in [Manejadores -> TipoManej] /\ manej[h] \in TipoManej /\ h[1] \in Nodos
      /\ manejador \in [Nodos -> Manejadores \cup {Nadie}]
  BY <1>0, Constantes DEF TypeOK
<1>3. manej'[h] = [manej[h] EXCEPT !.pc = "muerto"]
  BY <1>1, <1>2
<1>4. manej'[h] \in TipoManej /\ manej'[h].pc = "muerto"
  BY <1>2, <1>3 DEF TipoManej
<1>5. manej' \in [Manejadores -> TipoManej] /\ \A g \in Manejadores : g # h => manej'[g] = manej[g]
  BY <1>1, <1>2, <1>4
<1>6. /\ manejador' \in [Nodos -> Manejadores \cup {Nadie}] /\ manejador'[h[1]] = Nadie
      /\ \A n \in Nodos : n # h[1] => manejador'[n] = manejador[n]
  BY <1>1, <1>2
<1>7. TypeOK'
  BY <1>0, <1>1, <1>5, <1>6 DEF TypeOK
<1>8. Tareas' /\ Direcciones'
  BY <1>0, <1>1, <1>6 DEF Tareas, Direcciones, DireccionDe, EnCurso
<1>9. Remitentes'
  BY <1>0, <1>1, <1>4, <1>5 DEF Remitentes
<1>10. Cuenta'
  <2>1. \A g \in Manejadores : manej'[g].pc = "nuevo" <=> manej[g].pc = "nuevo"
    BY <1>1, <1>4, <1>5
  <2> QED
    BY <1>0, <1>1, <2>1, MarcoCuenta
<1>11. ASSUME ~cruce PROVE SinCruce' /\ Vigencia'
  <2>1. SinCruce /\ Vigencia
    BY <1>0, <1>11
  <2>2. \A q, g, t : q \in Pedidores /\ EsperaA(q, g, t) => EsperaA(q, g, t)'
    BY <1>1, MismaEspera
  <2>3. \A q \in Pedidores : Llegada(q)'
    BY <1>1, <2>1 DEF SinCruce, Llegada, EnCurso
  <2>4. ASSUME NEW g \in Manejadores PROVE Deuda(g)'
    <3>1. Deuda(g)
      BY <2>1 DEF SinCruce
    <3>2. /\ manej[g].pc = "manda" => manej[g].dest \in Pedidores
          /\ buzon[g] # <<>> => buzon[g][1].de \in Pedidores
          /\ manej[g].pc = "atiende" => manej[g].op.de \in Pedidores
      BY <1>0, Acreedores
    <3>3. manej'[g] = manej[g] \/ manej'[g].pc = "muerto"
      BY <1>4, <1>5
    <3> QED
      BY <1>1, <2>2, <3>1, <3>2, <3>3 DEF Deuda
  <2>5. \A n : Desmentido(n)' => Desmentido(n)
    BY <1>1, MarcoDesmentido
  <2>6. \A g \in Manejadores : /\ Cerrando(g)' => Cerrando(g)
                               /\ manej'[g].pc \in EnBucle <=> manej[g].pc \in EnBucle
                               /\ manej'[g].pc = "cierra" => manej[g].pc = "cierra"
    BY <1>1, <1>4, <1>5 DEF Cerrando, EnBucle
  <2>7. ASSUME NEW n \in Nodos \ pisado PROVE VigenciaDe(n)'
    <3>1. VigenciaDe(n) /\ EnElBucle(n)' = EnElBucle(n) /\ conexion'[n] = conexion[n]
      BY <1>1, <2>1, <2>6 DEF Vigencia, EnElBucle
    <3>2. n = h[1] => EnElBucle(n) = {} /\ conexion[n] # "abierta"
      BY <1>1, <3>1 DEF VigenciaDe, Cerrando
    <3>3. EnElBucle(n)' \subseteq {manejador'[n]}
          /\ (conexion'[n] = "abierta" => manejador'[n] \in EnElBucle(n)')
      BY <1>6, <3>1, <3>2 DEF VigenciaDe
    <3>4. ASSUME NEW g \in Manejadores, g[1] = n
          PROVE  /\ Cerrando(g)' => conexion'[n] # "abierta"
                 /\ manej'[g].pc = "cierra" => EnElBucle(n)' = {}
      BY <2>6, <3>1, <3>4 DEF VigenciaDe
    <3>5. Desmentido(n)' => EnElBucle(n)' = {}
      BY <2>5, <3>1 DEF VigenciaDe
    <3> QED
      BY <3>3, <3>4, <3>5 DEF VigenciaDe
  <2>8. Vigencia'
    <3>1. pisado' = pisado
      BY <1>1
    <3> QED
      BY <2>7, <3>1 DEF Vigencia
  <2> QED
    BY <2>3, <2>4, <2>8 DEF SinCruce
<1> QED
  BY <1>1, <1>7, <1>8, <1>9, <1>10, <1>11 DEF IInv

(* The connections: nothing of the threads changes. *)
LEMMA InvConexion ==
  ASSUME IInv, conexion' \in [Nodos -> {"abierta", "cerrada", "llega", "alta"}],
         caidas' \in 0 .. MaxCaidas, Cuenta',
         \A n \in Nodos : conexion[n] = "alta" => conexion'[n] = "alta",
         \A n \in Nodos : conexion'[n] = "abierta" => conexion[n] = "abierta",
         UNCHANGED <<fs, manejador, hilosVars, cruce, pisado>>
  PROVE  IInv'
<1>0. TypeOK /\ Tareas /\ Direcciones /\ Remitentes /\ (~cruce => SinCruce /\ Vigencia)
  BY DEF IInv
<1>1. UNCHANGED <<manej, pedidor, buzon, remitente>>
  BY DEF hilosVars
<1>2. TypeOK' /\ Direcciones' /\ Remitentes'
  BY <1>0, <1>1 DEF TypeOK, Direcciones, DireccionDe, Remitentes, EnCurso
<1>3. Tareas'
  <2> SUFFICES ASSUME NEW q \in Pedidores, NEW i \in DOMAIN pedidor[q].tarea,
                      pedidor[q].tarea[i].tipo = "alta"
               PROVE  conexion'[pedidor[q].tarea[i].nodo] = "alta"
    BY <1>0, <1>1 DEF Tareas
  <2>1. conexion[pedidor[q].tarea[i].nodo] = "alta"
    BY <1>0 DEF Tareas
  <2>2. pedidor[q].tarea[i] \in Peticion
    <3>1. pedidor[q].tarea \in Seq(Peticion)
      BY <1>0 DEF TypeOK, TipoPedidor
    <3> QED
      BY <3>1
  <2>3. pedidor[q].tarea[i].nodo \in Nodos
    BY <2>2 DEF Peticion
  <2> QED
    BY <2>1, <2>3
<1>4. ASSUME ~cruce PROVE SinCruce' /\ Vigencia'
  <2>1. SinCruce /\ Vigencia
    BY <1>0, <1>4
  <2>2. SinCruce'
    BY <1>1, <2>1 DEF SinCruce, Deuda, Llegada, EsperaA, EnCurso
  <2>3. \A n : Desmentido(n)' => Desmentido(n)
    BY <1>1, MarcoDesmentido
  <2>4. \A g \in Manejadores : Cerrando(g)' => Cerrando(g)
    BY <1>1 DEF Cerrando
  <2>5. Vigencia'
    BY <1>1, <2>1, <2>3, <2>4, MarcoVigencia
  <2> QED
    BY <2>2, <2>5
<1> QED
  BY <1>2, <1>3, <1>4 DEF IInv

LEMMA InvCae == ASSUME IInv, NEW n \in Nodos, Cae(n) PROVE IInv'
<1>0. TypeOK /\ Cuenta
  BY DEF IInv
<1>1. /\ conexion[n] = "abierta" /\ caidas < MaxCaidas
      /\ conexion' = [conexion EXCEPT ![n] = "cerrada"] /\ caidas' = caidas + 1
      /\ UNCHANGED <<fs, manejador, hilosVars, cruce, pisado>>
  BY DEF Cae
<1>2. conexion \in [Nodos -> {"abierta", "cerrada", "llega", "alta"}]
      /\ caidas \in 0 .. MaxCaidas /\ MaxCaidas \in Nat
  BY <1>0, Constantes DEF TypeOK
<1>3. conexion' \in [Nodos -> {"abierta", "cerrada", "llega", "alta"}] /\ conexion'[n] = "cerrada"
      /\ \A m \in Nodos : m # n => conexion'[m] = conexion[m]
  BY <1>1, <1>2
<1>4. IsFiniteSet(Perdidas) /\ IsFiniteSet(Repuestos)
  BY Finitos, FS_Subset DEF Perdidas, Repuestos
<1>5. Perdidas' = Perdidas \cup {n} /\ n \notin Perdidas
  BY <1>1, <1>3 DEF Perdidas
<1>6. manej' = manej
  BY <1>1 DEF hilosVars
<1>7. Repuestos' = Repuestos
  BY <1>6 DEF Repuestos
<1>8. Cardinality(Perdidas') = Cardinality(Perdidas) + 1
  BY <1>4, <1>5, FS_AddElement
<1>9. Cardinality(Perdidas) \in Nat /\ Cardinality(Repuestos) \in Nat
  BY <1>4, FS_CardinalityType
<1>10. Cardinality(Repuestos)' + Cardinality(Perdidas)' = caidas'
  BY <1>0, <1>1, <1>2, <1>7, <1>8, <1>9 DEF Cuenta
<1>11. \A h \in Manejadores : h[2] = 1 => manej'[h].pc # "nuevo"
  BY <1>0, <1>6 DEF Cuenta
<1>12. Cuenta'
  BY <1>10, <1>11 DEF Cuenta
<1>13. caidas' \in 0 .. MaxCaidas
  BY <1>1, <1>2
<1> QED
  BY <1>1, <1>3, <1>12, <1>13, InvConexion

LEMMA InvReconecta == ASSUME IInv, NEW n \in Nodos, Reconecta(n) PROVE IInv'
<1>0. TypeOK /\ Cuenta
  BY DEF IInv
<1>1. /\ conexion[n] = "cerrada" /\ conexion' = [conexion EXCEPT ![n] = "llega"]
      /\ UNCHANGED <<fs, manejador, hilosVars, caidas, cruce, pisado>>
  BY DEF Reconecta
<1>2. conexion \in [Nodos -> {"abierta", "cerrada", "llega", "alta"}] /\ caidas \in 0 .. MaxCaidas
  BY <1>0 DEF TypeOK
<1>3. conexion' \in [Nodos -> {"abierta", "cerrada", "llega", "alta"}] /\ conexion'[n] = "llega"
      /\ \A m \in Nodos : m # n => conexion'[m] = conexion[m]
  BY <1>1, <1>2
<1>4. Cuenta'
  BY <1>0, <1>1, <1>3, MarcoCuenta DEF hilosVars
<1> QED
  BY <1>1, <1>2, <1>3, <1>4, InvConexion

-----------------------------------------------------------------------------
(* At the start every node has its first handler, waiting, and nobody asks. *)
LEMMA InvInicial == Init => IInv
<1> SUFFICES ASSUME Init PROVE IInv
  OBVIOUS
<1>1. /\ fs = "vivo" /\ caidas = 0 /\ cruce = FALSE /\ pisado = {}
      /\ conexion = [n \in Nodos |-> "abierta"]
      /\ manejador = [n \in Nodos |-> <<n, 1>>]
      /\ buzon = [h \in Hilos |-> <<>>]
      /\ remitente = [h \in Manejadores |-> Nadie]
      /\ manej = [h \in Manejadores |->
                    [pc |-> IF h[2] = 1 THEN "espera" ELSE "nuevo",
                     op |-> NadaQueHacer, dest |-> Nadie, dato |-> "nada"]]
      /\ pedidor = [r \in Pedidores |-> Ocioso]
  BY DEF Init
<1>2. MaxCaidas \in Nat /\ Manejadores \subseteq Hilos /\ Pedidores \subseteq Hilos
  BY Constantes DEF Hilos
<1>3. \A h \in Manejadores :
        /\ manej[h] = [pc |-> IF h[2] = 1 THEN "espera" ELSE "nuevo",
                       op |-> NadaQueHacer, dest |-> Nadie, dato |-> "nada"]
        /\ h[2] = 1 => manej[h].pc = "espera"
        /\ h[2] # 1 => manej[h].pc = "nuevo"
        /\ buzon[h] = <<>>
  BY <1>1, <1>2
<1>4. \A r \in Pedidores : pedidor[r] = Ocioso /\ buzon[r] = <<>>
  BY <1>1, <1>2
<1>5. \A n \in Nodos : conexion[n] = "abierta" /\ manejador[n] = <<n, 1>> /\ <<n, 1>> \in Manejadores
  BY <1>1, <1>2 DEF Manejadores
<1>6. TypeOK
  <2>1. manej \in [Manejadores -> TipoManej]
    BY <1>1 DEF TipoManej, EnBucle
  <2>2. Ocioso \in TipoPedidor
    BY DEF Ocioso, TipoPedidor
  <2>3. pedidor \in [Pedidores -> TipoPedidor]
    BY <1>1, <2>2
  <2>4. <<>> \in Ranura(Mensaje) /\ <<>> \in Ranura(Contestacion)
        /\ <<>> \in Ranura(Mensaje \cup Contestacion)
    BY DEF Ranura
  <2>5. buzon \in [Hilos -> Ranura(Mensaje \cup Contestacion)]
        /\ (\A h \in Manejadores : buzon[h] \in Ranura(Mensaje))
        /\ (\A r \in Pedidores : buzon[r] \in Ranura(Contestacion))
    BY <1>1, <1>3, <1>4, <2>4
  <2>6. manejador \in [Nodos -> Manejadores \cup {Nadie}]
    BY <1>1, <1>5
  <2>7. remitente \in [Manejadores -> Pedidores \cup {Nadie}]
        /\ conexion \in [Nodos -> {"abierta", "cerrada", "llega", "alta"}]
    BY <1>1
  <2>8. fs \in {"vivo", "caido"} /\ caidas \in 0 .. MaxCaidas /\ cruce \in BOOLEAN
        /\ pisado \subseteq Nodos
    <3>1. fs = "vivo" /\ caidas = 0 /\ pisado = {}
      BY DEF Init
    <3>2. cruce \in BOOLEAN
      BY DEF Init
    <3>3. caidas \in 0 .. MaxCaidas
      BY <1>2, <3>1
    <3> QED
      BY <3>1, <3>2, <3>3
  <2> QED
    BY <2>1, <2>3, <2>5, <2>6, <2>7, <2>8 DEF TypeOK
<1>7. Tareas
  <2>1. \A r \in Pedidores : pedidor[r].pc = "libre" /\ pedidor[r].tarea = <<>>
    BY <1>4 DEF Ocioso
  <2>2. \A i \in DOMAIN <<>> : FALSE
    OBVIOUS
  <2> QED
    BY <2>1, <2>2 DEF Tareas
<1>8. Direcciones
  <2>1. \A n \in Nodos : manejador[n][1] = n
    <3>1. \A n : <<n, 1>>[1] = n
      OBVIOUS
    <3> QED
      BY <1>5, <3>1
  <2>2. \A r \in Pedidores : pedidor[r].pc = "libre"
    BY <1>4 DEF Ocioso
  <2> QED
    BY <2>1, <2>2 DEF Direcciones, DireccionDe
<1>9. Remitentes
  BY <1>3 DEF Remitentes
<1>10. Cuenta
  <2>1. Repuestos = {} /\ Perdidas = {}
    BY <1>3, <1>5 DEF Repuestos, Perdidas
  <2> QED
    BY <1>1, <1>3, <2>1, FS_EmptySet DEF Cuenta
<1>11. SinCruce
  BY <1>3, <1>4 DEF SinCruce, Deuda, Llegada
<1>12. Vigencia
  <2> SUFFICES ASSUME NEW n \in Nodos PROVE VigenciaDe(n)
    BY DEF Vigencia
  <2>1. EnElBucle(n) = {<<n, 1>>}
    <3>1. ASSUME NEW h \in Manejadores, h[1] = n, manej[h].pc \in EnBucle PROVE h = <<n, 1>>
      <4>1. h[2] = 1
        BY <1>3, <3>1 DEF EnBucle
      <4> QED
        BY <3>1, <4>1 DEF Manejadores
    <3>2. manej[<<n, 1>>].pc = "espera"
      BY <1>3, <1>5
    <3> QED
      BY <1>5, <3>1, <3>2 DEF EnElBucle, EnBucle
  <2>2. \A h \in Manejadores : ~Cerrando(h) /\ manej[h].pc # "cierra"
    BY <1>3 DEF Cerrando
  <2>3. ~Desmentido(n)
    BY <1>4 DEF Desmentido
  <2> QED
    BY <1>5, <2>1, <2>2, <2>3 DEF VigenciaDe
<1> QED
  BY <1>6, <1>7, <1>8, <1>9, <1>10, <1>11, <1>12 DEF IInv

LEMMA InvPaso == IInv /\ [Next]_vars => IInv'
<1> SUFFICES ASSUME IInv, [Next]_vars PROVE IInv'
  OBVIOUS
<1>1. ASSUME NEW r \in Pedidores, EmpezarRecorrida(r) \/ Pedidor(r) PROVE IInv'
  BY <1>1, InvRecorrida, InvMirar, InvLeer, InvEnviar, InvLiberado, InvRecibir DEF Pedidor
<1>2. ASSUME NEW origen \in Nodos, NEW destino \in Nodos, EmpezarCopia(origen, destino) PROVE IInv'
  BY <1>2, InvCopia
<1>3. ASSUME NEW n \in Nodos, Aceptar(n) \/ Cae(n) \/ Reconecta(n) PROVE IInv'
  BY <1>3, InvAceptar, InvCae, InvReconecta
<1>4. ASSUME NEW h \in Manejadores, Manejador(h) PROVE IInv'
  BY <1>4, InvTomar, InvAtender, InvMandar, InvCerrar DEF Manejador
<1>5. CASE UNCHANGED vars
  <2>0. UNCHANGED <<fs, conexion, manejador, manej, pedidor, buzon, remitente, caidas, cruce, pisado>>
    BY <1>5 DEF vars, hilosVars
  <2>1. TypeOK' /\ Tareas' /\ Direcciones' /\ Remitentes' /\ Cuenta'
    BY <2>0, MarcoCuenta DEF IInv, TypeOK, Tareas, Direcciones, DireccionDe, Remitentes, EnCurso
  <2>2. SinCruce => SinCruce'
    BY <2>0 DEF SinCruce, Deuda, Llegada, EsperaA, EnCurso
  <2>3. Vigencia => Vigencia'
    BY <2>0, MarcoVigencia, MarcoDesmentido DEF Cerrando
  <2> QED
    BY <2>0, <2>1, <2>2, <2>3 DEF IInv
<1> QED
  BY <1>1, <1>2, <1>3, <1>4, <1>5 DEF Next

-----------------------------------------------------------------------------
(* In every behaviour of the handlers and of those that ask them, whatever  *)
(* the nodes, the threads and the connections that are lost (server.c,      *)
(* nodelist.c, thread.c), the invariant above holds.                        *)
THEOREM Invariante == Spec => []IInv
BY InvInicial, InvPaso, PTL DEF Spec

(* While no two threads have crossed on a handler, an answer reaches the    *)
(* thread that asked, of the node it asked and of the kind it asked for     *)
(* (thread_respond answers to `sender`, thread.c).                          *)
THEOREM RespuestaPropiaSiempre == Spec => []RespuestaPropia
<1>1. ASSUME IInv PROVE RespuestaPropia
  <2>0. TypeOK /\ Direcciones /\ Remitentes /\ (~cruce => SinCruce)
    BY <1>1 DEF IInv
  <2>1. ASSUME ~cruce, NEW r \in Pedidores, buzon[r] # <<>>
        PROVE  /\ pedidor[r].pc = "recibe"
               /\ buzon[r][1].nodo = EnCurso(r).nodo
               /\ buzon[r][1].dato = "bloque" <=> EnCurso(r).tipo = "bloque"
    BY <2>0, <2>1 DEF SinCruce, Llegada, Direcciones, DireccionDe
  <2>2. ASSUME ~cruce, NEW h \in Manejadores, manej[h].pc = "manda"
        PROVE  buzon[manej[h].dest] = <<>> /\ pedidor[manej[h].dest].pc = "recibe"
    BY <2>0, <2>2 DEF SinCruce, Deuda, EsperaA
  <2> QED
    BY <2>0, <2>1, <2>2 DEF RespuestaPropia
<1> QED
  BY <1>1, Invariante, PTL

(* While no two threads have crossed, node->handler of a node with an open  *)
(* connection is the only thread in the loop of its handlers, unless its    *)
(* handler was replaced while it closed (server.c:281).                     *)
THEOREM ManejadorVigenteSiempre == Spec => []ManejadorVigente
<1>1. ASSUME IInv PROVE ManejadorVigente
  <2> SUFFICES ASSUME ~cruce, NEW n \in Nodos \ pisado, conexion[n] = "abierta"
               PROVE  {h \in Manejadores : h[1] = n /\ manej[h].pc \in EnBucle} = {manejador[n]}
    BY DEF ManejadorVigente
  <2>1. VigenciaDe(n)
    BY <1>1 DEF IInv, Vigencia
  <2> QED
    BY <2>1 DEF VigenciaDe, EnElBucle
<1> QED
  BY <1>1, Invariante, PTL
=============================================================================
