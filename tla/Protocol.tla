------------------------------ MODULE Protocol ------------------------------
(***************************************************************************)
(* Shared/protocol.c over the sends and receives of Shared/socket.c: a     *)
(* process connects to a server, they greet each other, it asks for        *)
(* something, and then several of its threads send on the same socket, as  *)
(* those of Master do with what they report to YAMA.  Each packet is two   *)
(* sends, header and content, and TCP is a stream of bytes that arrives    *)
(* in pieces.                                                              *)
(***************************************************************************)
EXTENDS Serial, FiniteSets

LOCAL INSTANCE SequencesExt
LOCAL INSTANCE FiniteSetsExt

CONSTANTS
  Hilos,       \* threads that send once the stages have arrived
  Principal,   \* the thread that connects
  Servidor,    \* the process connected to
  Guiones,     \* what each side has to say
  Formatos,    \* the formats of the operations that carry content
  Procesos,    \* values of t_process that the other end may have
  Esperado,    \* the process the server expects
  Cap,         \* bytes that fit in a socket
  MaxSize      \* MAXSIZE of socket.c

ASSUME ProtocolAssumption ==
  /\ Esperado \in Procesos /\ Procesos \subseteq Int
  /\ Cap \in Nat \ {0} /\ MaxSize \in Nat

OP_UNDEFINED == 0
OP_HANDSHAKE == 2
OP_RESPONSE  == 3

VARIABLES
  guion,     \* what this run says
  proceso,   \* the process that connects
  canal,     \* bytes on their way in each direction
  abierto,   \* whether each end is open
  envio,     \* what each thread is sending, if anything
  recep,     \* the recvall each end is in
  fase,      \* where each end is
  dicho,     \* packets each thread has sent after the greeting
  enviados,  \* history: packets begun in each direction
  recibidos, \* history: packets handled in each direction
  codigo,    \* what protocol_receive_response gave the process that connects
  matados,   \* threads killed while they sent
  corto,     \* history: whether a recvall stopped before its length
  causas     \* history: what else happened that the properties do not survive

vars == <<guion, proceso, canal, abierto, envio, recep, fase, dicho, enviados, recibidos,
          codigo, matados, corto, causas>>

Sentidos == {"ida", "vuelta"}
Puntas   == {"cliente", "servidor"}
Emisores == Hilos \cup {Principal, Servidor}
Punta(a)   == IF a = Servidor THEN "servidor" ELSE "cliente"
Sentido(p) == IF p = "servidor" THEN "vuelta" ELSE "ida"     \* in which p sends
Llegada(p) == IF p = "servidor" THEN "ida" ELSE "vuelta"     \* in which p receives
Otra(p)    == CHOOSE q \in Puntas : q # p

HEADER_SIZE == 3 * Ancho("i")
Callado == [est |-> "no", resta |-> <<>>, parcial |-> FALSE, cont |-> <<>>]
Oyendo  == [est |-> "cabecera", buf |-> <<>>, falta |-> HEADER_SIZE, op |-> OP_UNDEFINED, sender |-> 0]
Vivo    == "caida" \notin causas

Contenido(m) == IF m.op \in DOMAIN Formatos THEN Empaquetar(Formatos[m.op], m) ELSE <<>>
Saludo == [op |-> OP_HANDSHAKE, vals |-> <<>>, filas |-> <<>>]

Init ==
  /\ guion \in Guiones /\ proceso \in Procesos
  /\ canal = [d \in Sentidos |-> <<>>] /\ abierto = [p \in Puntas |-> TRUE]
  /\ envio = [a \in Emisores |-> Callado] /\ recep = [p \in Puntas |-> Oyendo]
  /\ fase = [p \in Puntas |-> IF p = "servidor" THEN "saludo" ELSE "conecta"]
  /\ dicho = [t \in Hilos |-> 0]
  /\ enviados = [d \in Sentidos |-> <<>>] /\ recibidos = [d \in Sentidos |-> <<>>]
  /\ codigo = Nulo /\ matados = {} /\ corto = FALSE /\ causas = {}

-----------------------------------------------------------------------------
(* protocol_send_packet: the header goes first, the content after it, in a  *)
(* send of its own, and nothing keeps other threads out.                    *)

Ocupa(a, d) == envio[a].est # "no" /\ Sentido(Punta(a)) = d
CabeceraMutada(a, m) ==
  Agregar(<<"i", "i", "i">>,
          <<IF a = Servidor THEN 0 ELSE proceso, m.op, HEADER_SIZE + Len(Contenido(m))>>)
Cabecera(a, m) ==
  Agregar(<<"i", "i", "i">>,
          <<IF a = Servidor THEN 0 ELSE proceso, m.op, Len(Contenido(m))>>)

Paquete(a, m) ==
  LET d == Sentido(Punta(a))
  IN  /\ envio' = [envio EXCEPT ![a] = [est |-> "cabecera", resta |-> Cabecera(a, m),
                                        parcial |-> FALSE, cont |-> Contenido(m)]]
      /\ enviados' = [enviados EXCEPT ![d] = Append(@, m)]
      /\ causas' = causas \cup (IF \E b \in Emisores : Ocupa(b, d) THEN {"cruce"} ELSE {})

(* sendall; when a send does not fit it puts what fits and waits, and goes on *)
(* when the socket is empty again.                                            *)
Enviar(a) ==
  LET e == envio[a]  d == Sentido(Punta(a))
      n == Min({Len(e.resta), Cap - Len(canal[d])})
      r == SubSeq(e.resta, n + 1, Len(e.resta))
  IN  /\ Vivo /\ e.est # "no" /\ abierto[Punta(a)] /\ abierto[Otra(Punta(a))]
      /\ n > 0 /\ (e.parcial => canal[d] = <<>>)
      /\ canal' = [canal EXCEPT ![d] = @ \o SubSeq(e.resta, 1, n)]
      /\ envio' = [envio EXCEPT ![a] =
           IF r # <<>> THEN [e EXCEPT !.resta = r, !.parcial = TRUE]
           ELSE IF e.est = "cabecera" /\ e.cont # <<>>
           THEN [e EXCEPT !.est = "contenido", !.resta = e.cont, !.parcial = FALSE]
           ELSE Callado]
      /\ UNCHANGED <<guion, proceso, abierto, recep, fase, dicho, enviados, recibidos,
                     codigo, matados, corto, causas>>

Cerrar(p) == /\ abierto' = [abierto EXCEPT ![p] = FALSE]
             /\ fase' = [fase EXCEPT ![p] = "fin"]

(* The other end is gone: EPIPE ends the send; ECONNRESET, the process. *)
EnviarRoto(a) ==
  /\ Vivo /\ envio[a].est # "no" /\ ~(abierto[Punta(a)] /\ abierto[Otra(Punta(a))])
  /\ envio' = [envio EXCEPT ![a] = Callado]
  /\ \/ UNCHANGED <<abierto, fase, causas>>
     \/ Cerrar(Punta(a)) /\ causas' = causas \cup {"corte"}
  /\ UNCHANGED <<guion, proceso, canal, recep, dicho, enviados, recibidos, codigo, matados, corto>>

(* thread_kill while send waits: with nothing of it sent it fails with EINTR *)
(* and, as the thread is not active any more, check_descriptor ends the      *)
(* process; with something sent it returns that, and the rest goes on.       *)
Matar(t) ==
  /\ Vivo /\ t \in Hilos \ matados /\ envio[t].est # "no" /\ Len(canal["ida"]) = Cap
  /\ abierto["cliente"] /\ abierto["servidor"]
  /\ matados' = matados \cup {t}
  /\ IF envio[t].parcial
     THEN envio' = [envio EXCEPT ![t].parcial = FALSE] /\ UNCHANGED <<abierto, fase, causas>>
     ELSE Cerrar("cliente") /\ causas' = causas \cup {"corte"} /\ UNCHANGED envio
  /\ UNCHANGED <<guion, proceso, canal, recep, dicho, enviados, recibidos, codigo, corto>>

(* An end dies, or the network fails; the bound is one failure, of either kind. *)
Cortar(p) ==
  /\ causas = {} /\ abierto[p] /\ Cerrar(p) /\ causas' = causas \cup {"corte"}
  /\ UNCHANGED <<guion, proceso, canal, envio, recep, dicho, enviados, recibidos, codigo, matados, corto>>

-----------------------------------------------------------------------------
(* What each end does with a packet.                                        *)

Envia(m) == m # Nulo
Responde(a, m) ==
  IF Envia(m) THEN Paquete(a, m) ELSE UNCHANGED <<envio, enviados, causas>>

(* A packet of an operation with content is unpacked; more than there is in  *)
(* it cannot be taken out.                                                   *)
Visto(op, datos) ==
  {[op |-> op, vals |-> x.vals, filas |-> x.filas, cae |-> x.cae] :
     x \in {IF op \in DOMAIN Formatos THEN Desempaquetar(Formatos[op], datos)
            ELSE [vals |-> <<>>, filas |-> <<>>, cae |-> FALSE]}}
Atender(p, x) ==
  IF x.cae
  THEN causas' = causas \cup {"caida"} /\ Cerrar(p) /\ UNCHANGED <<envio, enviados, recibidos>>
  ELSE /\ recibidos' = [recibidos EXCEPT ![Llegada(p)] = Append(@, x)]
       /\ IF p = "servidor"
          THEN /\ Responde(Servidor, IF x.op \in DOMAIN guion.respuesta
                                     THEN guion.respuesta[x.op] ELSE Nulo)
               /\ UNCHANGED fase
          ELSE fase' = [fase EXCEPT ![p] = "trabajan"] /\ UNCHANGED <<envio, enviados, causas>>
       /\ UNCHANGED abierto

(* protocol_receive_handshake, and the answer to it. *)
RecibidoMutado(sender, op) == op = OP_HANDSHAKE
Recibido(sender, op) == op = OP_HANDSHAKE /\ sender = Esperado
Saludar(sender, op) ==
  /\ IF Recibido(sender, op)
     THEN /\ fase' = [fase EXCEPT !["servidor"] = "atiende"] /\ Paquete(Servidor, guion.saludo)
          /\ UNCHANGED abierto
     ELSE Cerrar("servidor") /\ UNCHANGED <<envio, enviados, causas>>
  /\ UNCHANGED recibidos

(* protocol_receive_response: -1 unless it is a response with something in it. *)
Respuesta(x, datos) == IF x.op = OP_RESPONSE /\ datos # <<>> THEN x.vals[1] ELSE -1

Saludado(x, c) ==
  /\ codigo' = IF guion.saludo.op = OP_RESPONSE THEN c ELSE codigo
  /\ IF x.op = OP_UNDEFINED \/ (guion.saludo.op = OP_RESPONSE /\ c = -1)
     THEN Cerrar("cliente") /\ UNCHANGED <<envio, enviados, causas>>
     ELSE /\ Paquete(Principal, guion.pedido)
          /\ fase' = [fase EXCEPT !["cliente"] = "espera"] /\ UNCHANGED abierto
  /\ recibidos' = IF x.op \in DOMAIN Formatos
                  THEN [recibidos EXCEPT !["vuelta"] = Append(@, x)] ELSE recibidos

Manejar(p, sender, x, datos) ==
  CASE fase[p] = "saludo"    -> Saludar(sender, x.op) /\ UNCHANGED codigo
    [] fase[p] = "saludado"  -> Saludado(x, Respuesta(x, datos))
    [] fase[p] \in {"atiende", "espera"} ->
         /\ IF x.op = OP_UNDEFINED
            THEN Cerrar(p) /\ UNCHANGED <<envio, enviados, recibidos, causas>>
            ELSE Atender(p, x)
         /\ UNCHANGED codigo

Escucha(p) == /\ Vivo /\ abierto[p] /\ fase[p] \in {"saludo", "saludado", "atiende", "espera"}
              /\ envio[IF p = "servidor" THEN Servidor ELSE Principal].est = "no"

(* protocol_receive_packet, when recvall returns b: what is missing of the  *)
(* buffer is what was in memory, taken to be one byte over and over.        *)
Completo(b, n, g) == b \o [k \in 1..n - Len(b) |-> g]
Cabeza(c) == [sender |-> c[1], op |-> c[2], falta |-> c[3], datos |-> <<>>]
Leida(r, b, lleno) ==
  IF r.est = "contenido" THEN [sender |-> r.sender, op |-> r.op, falta |-> 0, datos |-> lleno]
  ELSE IF b = <<>> THEN Cabeza(<<0, OP_UNDEFINED, 0>>)
  ELSE Cabeza(Quitar(<<"i", "i", "i">>, lleno).vals)
Devuelve(p, b, g) ==
  \E lleno \in {Completo(b, recep[p].falta, g)} : \E q \in {Leida(recep[p], b, lleno)} :
      IF q.op # OP_UNDEFINED /\ q.falta > 0
      THEN /\ recep' = [recep EXCEPT ![p] = [est |-> "contenido", buf |-> <<>>, falta |-> q.falta,
                                             op |-> q.op, sender |-> q.sender]]
           /\ UNCHANGED <<envio, enviados, recibidos, causas, fase, abierto, codigo>>
      ELSE IF q.op \in DOMAIN Formatos /\ q.falta < 0          \* malloc gives NULL
      THEN /\ causas' = causas \cup {"caida"} /\ Cerrar(p)
           /\ UNCHANGED <<envio, enviados, recibidos, recep, codigo>>
      ELSE /\ recep' = [recep EXCEPT ![p] = Oyendo]
           /\ \E x \in Visto(q.op, q.datos) : Manejar(p, q.sender, x, q.datos)

(* recvall: a piece arrives; a buffer of MAXSIZE is taken for a string, which *)
(* ends when a piece does in 0.                                               *)
Alto(b, falta) == Len(b) = falta \/ (falta = MaxSize /\ b[Len(b)] = 0)
Recibir(p, de) ==
  LET d == Llegada(p)  r == recep[p]
      n == Min({de, Len(canal[d]), r.falta - Len(r.buf)})
  IN  \E b \in {r.buf \o SubSeq(canal[d], 1, n)} :
      /\ Escucha(p) /\ n > 0
      /\ canal' = [canal EXCEPT ![d] = SubSeq(@, n + 1, Len(@))]
      /\ IF ~Alto(b, r.falta)
         THEN /\ recep' = [recep EXCEPT ![p].buf = b]
              /\ UNCHANGED <<envio, enviados, recibidos, causas, fase, abierto, codigo>>
         ELSE Devuelve(p, b, 0)
      /\ corto' = (corto \/ (Alto(b, r.falta) /\ Len(b) < r.falta))
      /\ UNCHANGED <<guion, proceso, dicho, matados>>

(* The other end closed (what came is returned) or reset the connection     *)
(* (nothing is); the length is not looked at.                               *)
RecibirFin(p, g, b) ==
  /\ Escucha(p) /\ canal[Llegada(p)] = <<>> /\ ~abierto[Otra(p)]
  /\ b \in {recep[p].buf, <<>>} /\ Devuelve(p, b, g)
  /\ UNCHANGED <<guion, proceso, canal, dicho, matados, corto>>

-----------------------------------------------------------------------------
Conectar ==
  /\ Vivo /\ abierto["cliente"] /\ fase["cliente"] = "conecta"
  /\ fase' = [fase EXCEPT !["cliente"] = "saludado"]
  /\ envio' = [envio EXCEPT ![Principal] =
       [est |-> "cabecera", resta |-> Cabecera(Principal, Saludo), parcial |-> FALSE, cont |-> <<>>]]
  /\ UNCHANGED <<guion, proceso, canal, abierto, recep, dicho, enviados, recibidos,
                 codigo, matados, corto, causas>>

Trabajar(t) ==
  /\ Vivo /\ abierto["cliente"] /\ fase["cliente"] = "trabajan"
  /\ envio[t].est = "no" /\ t \notin matados /\ dicho[t] < Len(guion.trabajos[t])
  /\ dicho' = [dicho EXCEPT ![t] = @ + 1]
  /\ Paquete(t, guion.trabajos[t][dicho[t] + 1])
  /\ UNCHANGED <<guion, proceso, canal, abierto, recep, fase, recibidos, codigo, matados, corto>>

Desconectar ==
  /\ Vivo /\ abierto["cliente"] /\ fase["cliente"] = "trabajan"
  /\ \A t \in Hilos : envio[t].est = "no" /\ (t \in matados \/ dicho[t] = Len(guion.trabajos[t]))
  /\ Cerrar("cliente")
  /\ UNCHANGED <<guion, proceso, canal, envio, recep, dicho, enviados, recibidos,
                 codigo, matados, corto, causas>>

(* Any cut into pieces is made of single bytes and of all that has come. *)
Pieza(p) == \E de \in {1, Cap} : Recibir(p, de)
Fin(p)   == \E g \in {0, Base - 1}, b \in {recep[p].buf, <<>>} : RecibirFin(p, g, b)

(* Threads run and TCP delivers what was sent on an open connection. *)
Avanza ==
  \/ Conectar \/ Desconectar \/ \E t \in Hilos : Trabajar(t)
  \/ \E a \in Emisores : Enviar(a) \/ EnviarRoto(a)
  \/ \E p \in Puntas : Pieza(p) \/ Fin(p)

Next == Avanza \/ (\E t \in Hilos : Matar(t)) \/ (\E p \in Puntas : Cortar(p))

Spec == Init /\ [][Next]_vars /\ WF_vars(Avanza)
-----------------------------------------------------------------------------
(* Properties. *)

TypeOK ==
  /\ guion \in Guiones /\ proceso \in Procesos /\ abierto \in [Puntas -> BOOLEAN]
  /\ \A d \in Sentidos : Len(canal[d]) <= Cap /\ Range(canal[d]) \subseteq Bytes
  /\ \A a \in Emisores : envio[a].est \in {"no", "cabecera", "contenido"}
  /\ \A p \in Puntas :
       /\ recep[p].est \in {"cabecera", "contenido"} /\ Len(recep[p].buf) < recep[p].falta
       /\ fase[p] \in {"conecta", "saludo", "saludado", "atiende", "espera", "trabajan", "fin"}
  /\ matados \subseteq Hilos /\ corto \in BOOLEAN /\ causas \subseteq {"corte", "cruce", "caida"}

Igual(m, n) == m.op = n.op /\ m.vals = n.vals /\ m.filas = n.filas
Primeros(s, t) == Len(s) <= Len(t) /\ \A k \in DOMAIN s : Igual(s[k], t[k])

(* However the stream is cut in pieces, each end handles the packets that   *)
(* the other sent, in order, with the values that were packed, and the      *)
(* answer to the greeting is the one given; when the connection is cut, all *)
(* but the last, which may be made of whatever was in memory.  A process    *)
(* that is not the one expected is never attended.  Not once two threads    *)
(* sent at the same time, nor once a content of MAXSIZE bytes was taken for *)
(* a string.                                                                *)
TramaFiel ==
  /\ TypeOK
  /\ "cruce" \notin causas /\ ~corto =>
       /\ \A d \in Sentidos :
            Primeros(IF "corte" \in causas /\ recibidos[d] # <<>> THEN Front(recibidos[d])
                     ELSE recibidos[d], enviados[d])
       /\ "corte" \notin causas =>
            /\ "caida" \notin causas
            /\ proceso # Esperado => recibidos["ida"] = <<>>
            /\ codigo # Nulo /\ enviados["vuelta"] # <<>> => codigo = enviados["vuelta"][1].vals[1]

(* Nothing that was sent stays on its way: both ends finish with all of it *)
(* handled, unless one of those things happened or an end was cut.         *)
Llega ==
  <>(\/ causas # {} \/ corto
     \/ /\ \A p \in Puntas : fase[p] = "fin"
        /\ \A d \in Sentidos : Len(recibidos[d]) = Len(enviados[d]))
=============================================================================
