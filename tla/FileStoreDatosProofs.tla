------------------------ MODULE FileStoreDatosProofs ------------------------
(***************************************************************************)
(* Theorems about what the blocks of FileStore hold, for every value of    *)
(* its constants: the copies of stored files, what a download brings and   *)
(* what may end the process.                                               *)
(***************************************************************************)
EXTENDS FileStoreProofs

-----------------------------------------------------------------------------
(* The inductive invariant, beside the one of FileStoreProofs. *)

SinCarrera == EnRegla({"carrera"})
Estable    == EnRegla({"carrera", "desfase", "crece"})
Limpia     == EnRegla({"carrera", "desfase", "perdio", "indice"})

(* Block i of a file is what its upload numbered i. *)
Enteros(id, k) == [i \in 1 .. k |-> <<id, i>>]

(* Only a node with a handler has operations, and it is in the list. *)
ConManejador ==
  /\ manejador \subseteq lista
  /\ \A n \in Nodos \ manejador : cola[n] = <<>>

(* A download and an upload do not meet; each has its blocks in memory. *)
Memoria ==
  SinCarrera =>
    /\ orden.tipo = "baja" =>
         cpmut = Nadie /\ Len(mapas[orden.ino]) = Len(orden.bloques)
    /\ \A t \in Hilos : Mapeada(t) =>
         mapas[hilo[t].ino] = Enteros(hilo[t].id, Len(hilo[t].bloques))

(* What an upload is about to send is one of its copies. *)
EsEnvio(h, n, op) ==
  /\ op.tipo = "manda" /\ op.sub = h.id /\ op.idx \in DOMAIN h.bloques
  /\ \E c \in Par : h.bloques[op.idx][c] = [nodo |-> n, num |-> op.num]

Envios ==
  \A t \in Hilos : hilo[t].envio # SinEnvio => EsEnvio(hilo[t], hilo[t].envio.nodo, hilo[t].envio.op)

(* The operations that wait: those that write, those of an upload among    *)
(* them, and those that read.                                              *)
EnCola(n)  == {cola[n][i] : i \in DOMAIN cola[n]}
Escriben   == {op \in TipoOp : op.tipo = "manda"}
DeSubida   == {op \in Escriben : op.sub # 0}
Leen       == {op \in TipoOp : op.tipo = "recibe"}

(* Those of an upload are of the one in progress; if none is they are late,*)
(* and the last one has been sent.  None is of a stored file.              *)
Atrasada(op) ==
  /\ cpmut # Nadie => op.sub = hilo[cpmut].id /\ op.idx \in DOMAIN hilo[cpmut].bloques
  /\ SinCarrera => /\ cpmut = Nadie => bsent.current >= bsent.total
                   /\ \A f \in archivos : f.id # op.sub
  /\ Estable => cpmut # Nadie

Atrasos == \A n \in Nodos : \A op \in EnCola(n) \cap DeSubida : Atrasada(op)

(* What is to be written where a copy is, is the block of that copy; and   *)
(* nothing is to be written where cpblock will put its copy.               *)
EsDe(op, p) == IF op.sub = 0 THEN op.dato = <<p.id, p.b>> ELSE op.sub = p.id /\ op.idx = p.b
EsSitio(p, n, op) == p.en = [nodo |-> n, num |-> op.num]

Escrituras ==
  Limpia =>
    \A n \in Nodos : \A op \in EnCola(n) \cap Escriben :
      /\ \A p \in Puestas : EsSitio(p, n, op) => EsDe(op, p)
      /\ orden.tipo = "copia" /\ orden.nodo = n => op.num \in espacio[n].ocupados

(* A copy is on the disk of its node, or waits to be written. *)
EnDisco(p)  == disco[p.en.nodo][p.en.num] = <<p.id, p.b>>
EnEspera(p) == \E op \in EnCola(p.en.nodo) \cap Escriben : op.num = p.en.num
EnMano(p)   == \E t \in Hilos : /\ hilo[t].envio # SinEnvio /\ hilo[t].envio.nodo = p.en.nodo
                                /\ hilo[t].envio.op.num = p.en.num /\ hilo[t].id = p.id

Escritas == Limpia => \A p \in Puestas : EnDisco(p) \/ EnEspera(p) \/ EnMano(p)

(* cpblock has read the block that it was asked for. *)
Leida == Limpia => (orden.tipo = "copia" /\ orden.paso = 2 => orden.dato = <<orden.id, orden.b>>)

(* How many of a kind wait. *)
Una(s, i, S)  == IF i \in DOMAIN s /\ s[i] \in S THEN 1 ELSE 0
Cuantas(s, S) == Una(s, 1, S) + Una(s, 2, S)
PorNodo(S)    == [n \in Nodos |-> Cuantas(cola[n], S)]
Esperan(S)    == Suma(PorNodo(S), Nodos)

(* What was sent and what waits is not more than what was placed. *)
Enviados == IF bsent.current <= bsent.total THEN bsent.current ELSE bsent.total
PorMandar(t) == IF hilo[t].envio # SinEnvio THEN 1 ELSE 0

Recuento ==
  SinCarrera =>
    \A t \in Hilos : Mapeada(t) =>
      Enviados + Esperan(DeSubida) + PorMandar(t) <= hilo[t].guardados

(* Who is woken has all its blocks sent, or has received them all. *)
PorSubida(t) == cpmut = t /\ bsent.current >= bsent.total
PorBajada(t) == t = Consola /\ orden.tipo = "baja" /\ orden.current >= Len(orden.bloques)

Despierto ==
  SinCarrera => \A t \in Hilos : suenio[t] <= 1 /\ (suenio[t] = 1 => PorSubida(t) \/ PorBajada(t))

(* No upload places more than it waits for. *)
Holgura ==
  Estable =>
    \A t \in Hilos : Mapeada(t) =>
      \/ bsent.total = 2 * Len(hilo[t].bloques)
      \/ hilo[t].guardados + BloquesLibres <= bsent.total

(* A download is of a stored file.  What it asked for is a copy of one of  *)
(* the blocks asked for, and is on the disk; what was asked for and is not *)
(* there is still to come, or will never come.                             *)
EsPedido(n, op, b) == \E c \in Par : orden.bloques[b][c] = [nodo |-> n, num |-> op.num]
Recibido(b) ==
  \/ mapas[orden.ino][b] = <<orden.id, b>>
  \/ \E n \in Nodos : \E op \in EnCola(n) \cap Leen : EsPedido(n, op, b)
  \/ orden.current + Esperan(Leen) < orden.paso - 1

NadaPedido == \A n \in Nodos : EnCola(n) \cap Leen = {}

DeArchivo == \E f \in archivos : f.id = orden.id /\ f.bloques = orden.bloques

Pedidos ==
  /\ orden.current + Esperan(Leen) <= orden.paso - 1
  /\ \A n \in Nodos : \A op \in EnCola(n) \cap Leen : \E b \in DOMAIN orden.bloques : EsPedido(n, op, b)

EnSuSitio ==
  /\ \A n \in Nodos : \A op \in EnCola(n) \cap Leen : \A b \in DOMAIN orden.bloques :
       EsPedido(n, op, b) => disco[n][op.num] = <<orden.id, b>>
  /\ \A b \in 1 .. orden.paso - 1 : Recibido(b)

Bajada ==
  /\ SinCarrera /\ orden.tipo # "baja" => NadaPedido
  /\ orden.tipo = "baja" =>
       /\ DeArchivo /\ orden.paso <= Len(orden.bloques) + 1
       /\ SinCarrera => Pedidos
       /\ Limpia => EnSuSitio

Datos ==
  /\ ConManejador /\ Memoria /\ Envios /\ Atrasos /\ Escrituras /\ Escritas /\ Leida
  /\ Recuento /\ Despierto /\ Holgura /\ Bajada /\ CaidaExplicada

-----------------------------------------------------------------------------
(* The causes that each part leaves out. *)

LEMMA ReglasQuedan ==
  ASSUME hist \subseteq hist'
  PROVE  (SinCarrera' => SinCarrera) /\ (Estable' => Estable) /\ (Limpia' => Limpia)
BY DEF SinCarrera, Estable, Limpia, EnRegla

LEMMA ReglasEs ==
  /\ Limpia => SinCarrera /\ EnRegla({"carrera", "desfase"})
  /\ Estable => SinCarrera /\ EnRegla({"carrera", "desfase"}) /\ EnRegla({"crece"})
BY DEF SinCarrera, Estable, Limpia, EnRegla

(* The operations in a queue, and how many of a kind. *)

LEMMA EnColaEs ==
  ASSUME TypeOK, Operaciones, NEW n \in Nodos, NEW op \in EnCola(n)
  PROVE  op \in TipoOp /\ EsOp(op) /\ op.num \in Bits(n) \cup {-1} /\ cola[n] # <<>>
<1>1. cola[n] \in Seq(TipoOp) /\ \A i \in DOMAIN cola[n] : cola[n][i].num \in Bits(n) \cup {-1}
  BY DEF TypeOK, TipoColas, TipoCola
<1>2. PICK i \in DOMAIN cola[n] : op = cola[n][i]
  BY DEF EnCola
<1>3. EsOp(cola[n][i])
  BY DEF Operaciones
<1> QED
  BY <1>1, <1>2, <1>3

LEMMA EnColaVacia ==
  ASSUME NEW n, cola[n] = <<>>
  PROVE  EnCola(n) = {} /\ \A S : Cuantas(cola[n], S) = 0
BY DEF EnCola, Cuantas, Una

LEMMA UnaEs ==
  ASSUME NEW s, NEW S
  PROVE  Una(s, 1, S) \in {0, 1} /\ Una(s, 2, S) \in {0, 1} /\ Cuantas(s, S) \in Nat
<1>1. Una(s, 1, S) \in {0, 1} /\ Una(s, 2, S) \in {0, 1}
  BY DEF Una
<1> QED
  BY <1>1 DEF Cuantas

LEMMA CuantasCrece ==
  ASSUME NEW T, NEW s \in Seq(T), NEW op, Len(s) < 2, NEW S
  PROVE  Cuantas(Append(s, op), S) = Cuantas(s, S) + (IF op \in S THEN 1 ELSE 0)
<1>1. PICK z : z = Append(s, op)
  OBVIOUS
<1>2. Len(s) \in Nat /\ DOMAIN s = 1 .. Len(s)
  OBVIOUS
<1>3. DOMAIN z = 1 .. Len(s) + 1 /\ z[Len(s) + 1] = op /\ \A i \in 1 .. Len(s) : z[i] = s[i]
  BY <1>1, <1>2
<1>4. CASE Len(s) = 0
  <2>1. 1 \notin DOMAIN s /\ 2 \notin DOMAIN s /\ 1 \in DOMAIN z /\ 2 \notin DOMAIN z /\ z[1] = op
    BY <1>2, <1>3, <1>4
  <2> QED
    BY ONLY <1>1, <2>1 DEF Cuantas, Una
<1>5. CASE Len(s) = 1
  <2>1. 1 \in DOMAIN s /\ 2 \notin DOMAIN s /\ 1 \in DOMAIN z /\ 2 \in DOMAIN z /\ z[2] = op /\ z[1] = s[1]
    BY <1>2, <1>3, <1>5
  <2> QED
    BY ONLY <1>1, <2>1 DEF Cuantas, Una
<1> QED
  BY <1>2, <1>4, <1>5

LEMMA CuantasBaja ==
  ASSUME NEW T, NEW s \in Seq(T), s # <<>>, Len(s) <= 2, NEW S
  PROVE  Cuantas(Tail(s), S) = Cuantas(s, S) - (IF Head(s) \in S THEN 1 ELSE 0)
<1>1. PICK z : z = Tail(s)
  OBVIOUS
<1>2. Len(s) \in Nat \ {0} /\ DOMAIN s = 1 .. Len(s) /\ Head(s) = s[1]
  OBVIOUS
<1>3. DOMAIN z = 1 .. Len(s) - 1 /\ \A i \in 1 .. Len(s) - 1 : z[i] = s[i + 1]
  BY <1>1, <1>2
<1>4. CASE Len(s) = 1
  <2>1. 1 \in DOMAIN s /\ 2 \notin DOMAIN s /\ 1 \notin DOMAIN z /\ 2 \notin DOMAIN z
    BY <1>2, <1>3, <1>4
  <2> QED
    BY ONLY <1>1, <1>2, <2>1 DEF Cuantas, Una
<1>5. CASE Len(s) = 2
  <2>1. 1 \in DOMAIN s /\ 2 \in DOMAIN s /\ 1 \in DOMAIN z /\ 2 \notin DOMAIN z /\ z[1] = s[2]
    BY <1>2, <1>3, <1>5
  <2> QED
    BY ONLY <1>1, <1>2, <2>1 DEF Cuantas, Una
<1> QED
  BY <1>2, <1>4, <1>5

LEMMA EsperanEs ==
  ASSUME NEW S
  PROVE  /\ Esperan(S) \in Nat
         /\ \A n \in Nodos : EnCola(n) \cap S # {} /\ (\A m \in Nodos : Len(cola[m]) \in 0 .. 2 /\ DOMAIN cola[m] = 1 .. Len(cola[m]))
              => Esperan(S) >= 1
         /\ (\A n \in Nodos : cola[n] = <<>>) => Esperan(S) = 0
         /\ (\A n \in Nodos : EnCola(n) \cap S = {}) => Esperan(S) = 0
<1>1. PICK f : f = PorNodo(S)
  OBVIOUS
<1>2. \A n \in Nodos : f[n] = Cuantas(cola[n], S) /\ f[n] \in Nat /\ f[n] \in Int
  BY <1>1, UnaEs DEF PorNodo
<1>3. IsFiniteSet(Nodos)
  BY Constantes
<1>4. Esperan(S) = Suma(f, Nodos)
  BY <1>1 DEF Esperan
<1>5. Esperan(S) \in Nat
  BY <1>2, <1>3, <1>4, SumaNatural
<1>6. ASSUME NEW n \in Nodos, EnCola(n) \cap S # {}, Len(cola[n]) \in 0 .. 2, DOMAIN cola[n] = 1 .. Len(cola[n])
      PROVE  Esperan(S) >= 1
  <2>1. PICK i \in DOMAIN cola[n] : cola[n][i] \in S
    BY <1>6 DEF EnCola
  <2>2. i = 1 \/ i = 2
    BY <1>6, <2>1
  <2>3. Una(cola[n], 1, S) = 1 \/ Una(cola[n], 2, S) = 1
    BY <2>1, <2>2 DEF Una
  <2>4. PICK a, b : a = Una(cola[n], 1, S) /\ b = Una(cola[n], 2, S)
    OBVIOUS
  <2>5. a \in {0, 1} /\ b \in {0, 1} /\ f[n] = a + b /\ (a = 1 \/ b = 1)
    BY <1>2, <2>3, <2>4, UnaEs DEF Cuantas
  <2>6. PICK x, y : x = f[n] /\ y = Suma(f, Nodos \ {n})
    OBVIOUS
  <2>7. Suma(f, Nodos) = x + y /\ y \in Nat
    <3>1. Suma(f, Nodos) = f[n] + Suma(f, Nodos \ {n})
      BY <1>2, <1>3, SumaSin
    <3>2. Suma(f, Nodos \ {n}) \in Nat
      BY <1>2, <1>3, SumaNatural
    <3> QED
      BY <2>6, <3>1, <3>2
  <2>8. x \in Nat /\ x >= 1
    BY <2>5, <2>6
  <2> QED
    BY ONLY <1>4, <2>7, <2>8
<1>7. ASSUME \A n \in Nodos : cola[n] = <<>> PROVE Esperan(S) = 0
  <2>1. \A n \in Nodos : f[n] = 0
    BY <1>2, <1>7, EnColaVacia
  <2> QED
    BY <1>3, <1>4, <2>1, SumaNula
<1>8. ASSUME \A n \in Nodos : EnCola(n) \cap S = {} PROVE Esperan(S) = 0
  <2>1. \A n \in Nodos : Una(cola[n], 1, S) = 0 /\ Una(cola[n], 2, S) = 0
    BY <1>8 DEF Una, EnCola
  <2>2. \A n \in Nodos : f[n] = 0
    BY <1>2, <2>1 DEF Cuantas
  <2> QED
    BY <1>3, <1>4, <2>2, SumaNula
<1> QED
  BY <1>5, <1>6, <1>7, <1>8

(* One queue changes: what is in the queues, and how many. *)
LEMMA EsperanCambia ==
  ASSUME NEW S, NEW n \in Nodos, \A m \in Nodos \ {n} : cola'[m] = cola[m]
  PROVE  Esperan(S)' = Esperan(S) + (Cuantas(cola'[n], S) - Cuantas(cola[n], S))
<1>1. PICK f, g : f = PorNodo(S) /\ g = PorNodo(S)'
  OBVIOUS
<1>2. \A m \in Nodos : /\ f[m] = Cuantas(cola[m], S) /\ f[m] \in Int
                       /\ g[m] = Cuantas(cola'[m], S) /\ g[m] \in Int
  BY <1>1, UnaEs DEF PorNodo
<1>3. \A m \in Nodos : m # n => f[m] = g[m]
  BY <1>2
<1>4. IsFiniteSet(Nodos) /\ Esperan(S) = Suma(f, Nodos) /\ Esperan(S)' = Suma(g, Nodos)
  BY <1>1, Constantes DEF Esperan
<1>5. Suma(g, Nodos) = Suma(f, Nodos) + (g[n] - f[n])
  BY <1>2, <1>3, <1>4, SumaCambia
<1> QED
  BY <1>2, <1>4, <1>5

LEMMA ColaIgual ==
  ASSUME cola' = cola
  PROVE  /\ \A n : EnCola(n)' = EnCola(n)
         /\ \A S : Esperan(S)' = Esperan(S)
BY DEF EnCola, Esperan, PorNodo

LEMMA ColaAgrega ==
  ASSUME TypeOK, NEW n \in Nodos, NEW op, Len(cola[n]) < 2, cola' = [cola EXCEPT ![n] = Append(@, op)]
  PROVE  /\ EnCola(n)' = EnCola(n) \cup {op} /\ cola'[n] # <<>>
         /\ \A m \in Nodos \ {n} : EnCola(m)' = EnCola(m) /\ cola'[m] = cola[m]
         /\ \A S : Esperan(S)' = Esperan(S) + (IF op \in S THEN 1 ELSE 0)
<1>1. cola[n] \in Seq(TipoOp) /\ DOMAIN cola = Nodos
  BY DEF TypeOK, TipoColas, TipoCola
<1>2. cola'[n] = Append(cola[n], op) /\ \A m \in Nodos \ {n} : cola'[m] = cola[m]
  BY <1>1
<1>3. PICK s, z : s = cola[n] /\ z = Append(s, op)
  OBVIOUS
<1>4. s \in Seq(TipoOp) /\ Len(s) \in Nat /\ DOMAIN s = 1 .. Len(s)
  BY <1>1, <1>3
<1>5. DOMAIN z = 1 .. Len(s) + 1 /\ z[Len(s) + 1] = op /\ \A i \in 1 .. Len(s) : z[i] = s[i]
  BY <1>3, <1>4
<1>6. {z[i] : i \in DOMAIN z} = {s[i] : i \in DOMAIN s} \cup {op} /\ z # <<>>
  <2>1. 1 .. Len(s) + 1 = (1 .. Len(s)) \cup {Len(s) + 1}
    BY <1>4
  <2>2. Len(s) + 1 \in 1 .. Len(s) + 1
    BY <1>4
  <2> QED
    BY <1>4, <1>5, <2>1, <2>2
<1>7. EnCola(n)' = EnCola(n) \cup {op} /\ cola'[n] # <<>>
  BY <1>2, <1>3, <1>6 DEF EnCola
<1>8. ASSUME NEW S PROVE Esperan(S)' = Esperan(S) + (IF op \in S THEN 1 ELSE 0)
  <2>1. Cuantas(cola'[n], S) = Cuantas(cola[n], S) + (IF op \in S THEN 1 ELSE 0)
    BY <1>1, <1>2, CuantasCrece
  <2>2. Esperan(S)' = Esperan(S) + (Cuantas(cola'[n], S) - Cuantas(cola[n], S))
    BY <1>2, EsperanCambia
  <2>3. PICK a, b, c, e, d : /\ a = Cuantas(cola'[n], S) /\ b = Cuantas(cola[n], S) /\ c = Esperan(S)
                             /\ e = Esperan(S)' /\ d = (IF op \in S THEN 1 ELSE 0)
    OBVIOUS
  <2>4. a = b + d /\ e = c + (a - b) /\ b \in Nat /\ c \in Nat /\ d \in Nat
    BY <2>1, <2>2, <2>3, UnaEs, EsperanEs
  <2>5. e = c + d
    BY ONLY <2>4
  <2> QED
    BY <2>3, <2>5
<1> QED
  BY <1>2, <1>7, <1>8 DEF EnCola

LEMMA ColaSirve ==
  ASSUME TypeOK, NEW n \in Nodos, cola[n] # <<>>, cola' = [cola EXCEPT ![n] = Tail(@)],
         NEW op, op = Head(cola[n])
  PROVE  /\ EnCola(n)' \subseteq EnCola(n) /\ EnCola(n) \subseteq EnCola(n)' \cup {op} /\ op \in EnCola(n)
         /\ \A m \in Nodos \ {n} : EnCola(m)' = EnCola(m) /\ cola'[m] = cola[m]
         /\ \A S : Esperan(S)' = Esperan(S) - (IF op \in S THEN 1 ELSE 0)
<1>1. cola[n] \in Seq(TipoOp) /\ DOMAIN cola = Nodos /\ Len(cola[n]) <= 2
  BY DEF TypeOK, TipoColas, TipoCola
<1>2. cola'[n] = Tail(cola[n]) /\ \A m \in Nodos \ {n} : cola'[m] = cola[m]
  BY <1>1
<1>3. PICK s, z : s = cola[n] /\ z = Tail(s)
  OBVIOUS
<1>4. s \in Seq(TipoOp) /\ Len(s) \in Nat \ {0} /\ DOMAIN s = 1 .. Len(s) /\ op = s[1]
  BY <1>1, <1>3
<1>5. DOMAIN z = 1 .. Len(s) - 1 /\ \A i \in 1 .. Len(s) - 1 : z[i] = s[i + 1]
  BY <1>3, <1>4
<1>6. /\ \A i \in DOMAIN z : i + 1 \in DOMAIN s /\ z[i] = s[i + 1]
      /\ \A i \in DOMAIN s : i = 1 \/ (i - 1 \in DOMAIN z /\ z[i - 1] = s[i])
      /\ 1 \in DOMAIN s
  BY <1>4, <1>5
<1>7. /\ {z[i] : i \in DOMAIN z} \subseteq {s[i] : i \in DOMAIN s}
      /\ {s[i] : i \in DOMAIN s} \subseteq {z[i] : i \in DOMAIN z} \cup {op} /\ op \in {s[i] : i \in DOMAIN s}
  BY ONLY <1>6, <1>4
<1>8. EnCola(n)' \subseteq EnCola(n) /\ EnCola(n) \subseteq EnCola(n)' \cup {op} /\ op \in EnCola(n)
  <2>1. EnCola(n) = {s[i] : i \in DOMAIN s}
    BY <1>3 DEF EnCola
  <2>2. EnCola(n)' = {z[i] : i \in DOMAIN z}
    BY <1>2, <1>3 DEF EnCola
  <2> QED
    BY ONLY <1>7, <2>1, <2>2
<1>9. ASSUME NEW S PROVE Esperan(S)' = Esperan(S) - (IF op \in S THEN 1 ELSE 0)
  <2>1. Cuantas(cola'[n], S) = Cuantas(cola[n], S) - (IF op \in S THEN 1 ELSE 0)
    BY <1>1, <1>2, CuantasBaja
  <2>2. Esperan(S)' = Esperan(S) + (Cuantas(cola'[n], S) - Cuantas(cola[n], S))
    BY <1>2, EsperanCambia
  <2>3. PICK a, b, c, e, d : /\ a = Cuantas(cola'[n], S) /\ b = Cuantas(cola[n], S) /\ c = Esperan(S)
                             /\ e = Esperan(S)' /\ d = (IF op \in S THEN 1 ELSE 0)
    OBVIOUS
  <2>4. a = b - d /\ e = c + (a - b) /\ b \in Nat /\ c \in Nat /\ d \in Nat
    BY <2>1, <2>2, <2>3, UnaEs, EsperanEs
  <2>5. e = c - d
    BY ONLY <2>4
  <2> QED
    BY <2>3, <2>5
<1>10. \A m \in Nodos \ {n} : EnCola(m)' = EnCola(m)
  BY <1>2 DEF EnCola
<1> QED
  BY <1>2, <1>8, <1>9, <1>10

LEMMA AlgunaEspera ==
  ASSUME TypeOK, NEW S, NEW n \in Nodos, EnCola(n) \cap S # {}
  PROVE  Esperan(S) >= 1
<1>1. \A m \in Nodos : Len(cola[m]) \in 0 .. 2 /\ DOMAIN cola[m] = 1 .. Len(cola[m])
  <2>1. \A m \in Nodos : cola[m] \in Seq(TipoOp) /\ Len(cola[m]) <= 2
    BY DEF TypeOK, TipoColas, TipoCola
  <2>2. ASSUME NEW m \in Nodos PROVE Len(cola[m]) \in 0 .. 2 /\ DOMAIN cola[m] = 1 .. Len(cola[m])
    <3>1. PICK s : s = cola[m]
      OBVIOUS
    <3>2. s \in Seq(TipoOp) /\ Len(s) <= 2
      BY <2>1, <3>1
    <3>3. Len(s) \in Nat /\ DOMAIN s = 1 .. Len(s)
      BY <3>2
    <3>4. Len(s) <= 2
      BY <3>2
    <3>5. Len(s) \in 0 .. 2
      BY ONLY <3>3, <3>4
    <3> QED
      BY ONLY <3>1, <3>3, <3>5
  <2> QED
    BY <2>2
<1> QED
  BY <1>1, EsperanEs

-----------------------------------------------------------------------------
(* What a step leaves alone keeps its part of the invariant. *)

(* The upload of t is as it was. *)
MismaSubida(t) ==
  /\ Mapeada(t)' <=> Mapeada(t)
  /\ hilo'[t].envio = hilo[t].envio
  /\ Mapeada(t) => /\ hilo'[t].id = hilo[t].id /\ hilo'[t].bloques = hilo[t].bloques
                   /\ hilo'[t].ino = hilo[t].ino /\ hilo'[t].guardados = hilo[t].guardados

MismasSubidas == cpmut' = cpmut /\ \A t \in Hilos : MismaSubida(t)

LEMMA SubidasIguales ==
  ASSUME hilo' = hilo, cpmut' = cpmut
  PROVE  MismasSubidas
BY DEF MismasSubidas, MismaSubida, Mapeada

LEMMA ManejadorQueda ==
  ASSUME ConManejador, lista' = lista, cola' = cola, manejador' \subseteq manejador,
         \A n \in manejador \ manejador' : cola[n] = <<>>
  PROVE  ConManejador'
BY DEF ConManejador

LEMMA MemoriaQueda ==
  ASSUME Memoria, hist \subseteq hist', orden' = orden \/ orden'.tipo # "baja", mapas' = mapas, MismasSubidas
  PROVE  Memoria'
<1> SUFFICES ASSUME SinCarrera'
    PROVE  /\ orden'.tipo = "baja" => cpmut' = Nadie /\ Len(mapas'[orden'.ino]) = Len(orden'.bloques)
           /\ \A t \in Hilos : Mapeada(t)' =>
                mapas'[hilo'[t].ino] = Enteros(hilo'[t].id, Len(hilo'[t].bloques))
  BY DEF Memoria, Enteros
<1>1. SinCarrera
  BY ReglasQuedan
<1> QED
  BY <1>1 DEF Memoria, MismasSubidas, MismaSubida

(* What has an envelope is in the middle of an upload. *)
LEMMA ConEnvio ==
  ASSUME Exclusion, NEW t \in Hilos, hilo[t].envio # SinEnvio
  PROVE  Mapeada(t) /\ cpmut = t
BY DEF Exclusion, Excluye, Mapeada

LEMMA EnviosQuedan ==
  ASSUME Exclusion, Envios, MismasSubidas
  PROVE  Envios'
<1> SUFFICES ASSUME NEW t \in Hilos, hilo'[t].envio # SinEnvio
             PROVE  EsEnvio(hilo'[t], hilo'[t].envio.nodo, hilo'[t].envio.op)
  BY DEF Envios, EsEnvio
<1>1. hilo[t].envio # SinEnvio /\ hilo'[t].envio = hilo[t].envio
  BY DEF MismasSubidas, MismaSubida
<1>2. hilo'[t].id = hilo[t].id /\ hilo'[t].bloques = hilo[t].bloques
  BY <1>1, ConEnvio DEF MismasSubidas, MismaSubida
<1> QED
  BY <1>1, <1>2 DEF Envios, EsEnvio

LEMMA AtrasosQuedan ==
  ASSUME TypeOK, Exclusion, Atrasos, hist \subseteq hist', MismasSubidas,
         bsent.current >= bsent.total => bsent'.current >= bsent'.total,
         \A n \in Nodos : EnCola(n)' \cap DeSubida \subseteq EnCola(n),
         \A f \in archivos' : \E g \in archivos : g.id = f.id
  PROVE  Atrasos'
<1> SUFFICES ASSUME NEW n \in Nodos, NEW op \in EnCola(n)', op \in DeSubida
             PROVE  Atrasada(op)'
  BY DEF Atrasos, DeSubida, Escriben
<1>1. Atrasada(op)
  BY DEF Atrasos
<1>2. (SinCarrera' => SinCarrera) /\ (Estable' => Estable) /\ cpmut' = cpmut
  BY ReglasQuedan DEF MismasSubidas
<1>3. cpmut # Nadie => hilo'[cpmut].id = hilo[cpmut].id /\ hilo'[cpmut].bloques = hilo[cpmut].bloques
  <2>1. cpmut # Nadie => cpmut \in Hilos
    BY DEF TypeOK, TipoNodos
  <2> QED
    BY <2>1 DEF MismasSubidas, MismaSubida, Exclusion, Excluye
<1> QED
  BY <1>1, <1>2, <1>3 DEF Atrasada

LEMMA EscriturasQuedan ==
  ASSUME Escrituras, hist \subseteq hist', \A n \in Nodos : EnCola(n)' \cap Escriben \subseteq EnCola(n),
         Puestas' \subseteq Puestas,
         orden'.tipo = "copia" => orden'.nodo = orden.nodo /\ orden.tipo = "copia" /\ espacio' = espacio
  PROVE  Escrituras'
<1> SUFFICES ASSUME Limpia', NEW n \in Nodos, NEW op \in EnCola(n)' \cap Escriben
             PROVE  /\ \A p \in Puestas' : EsSitio(p, n, op) => EsDe(op, p)
                    /\ orden'.tipo = "copia" /\ orden'.nodo = n => op.num \in espacio'[n].ocupados
  BY DEF Escrituras, Escriben, EsSitio, EsDe
<1>1. Limpia /\ op \in EnCola(n)
  BY ReglasQuedan
<1> QED
  BY <1>1 DEF Escrituras

LEMMA EscritasQuedan ==
  ASSUME TypeOK, Exclusion, Nombres, Escritas, hist \subseteq hist', disco' = disco,
         \A n \in Nodos : EnCola(n) \cap Escriben \subseteq EnCola(n)', Puestas' \subseteq Puestas, MismasSubidas
  PROVE  Escritas'
<1> SUFFICES ASSUME Limpia', NEW p \in Puestas'
             PROVE  EnDisco(p)' \/ EnEspera(p)' \/ EnMano(p)'
  BY DEF Escritas
<1>1. Limpia /\ p \in Puestas
  BY ReglasQuedan
<1>2. EnDisco(p) => EnDisco(p)'
  BY DEF EnDisco
<1>3. EnEspera(p) => EnEspera(p)'
  <2>1. p.en.nodo \in Nodos
    BY <1>1, PuestaEs, TipoCopiaEs
  <2>2. EnCola(p.en.nodo) \cap Escriben \subseteq EnCola(p.en.nodo)'
    BY <2>1
  <2> QED
    BY <2>2 DEF EnEspera, Escriben
<1>4. ASSUME EnMano(p) PROVE EnMano(p)'
  <2>1. PICK t \in Hilos : /\ hilo[t].envio # SinEnvio /\ hilo[t].envio.nodo = p.en.nodo
                           /\ hilo[t].envio.op.num = p.en.num /\ hilo[t].id = p.id
    BY <1>4 DEF EnMano
  <2>2. hilo'[t].envio = hilo[t].envio /\ hilo'[t].id = hilo[t].id
    BY <2>1, ConEnvio DEF MismasSubidas, MismaSubida
  <2> QED
    BY <2>1, <2>2 DEF EnMano
<1> QED
  BY <1>1, <1>2, <1>3, <1>4 DEF Escritas

LEMMA LeidaQueda ==
  ASSUME Leida, hist \subseteq hist', orden' = orden \/ ~ (orden'.tipo = "copia" /\ orden'.paso = 2)
  PROVE  Leida'
BY ReglasQuedan DEF Leida

LEMMA RecuentoQueda ==
  ASSUME Recuento, hist \subseteq hist', bsent' = bsent, Esperan(DeSubida)' = Esperan(DeSubida), MismasSubidas
  PROVE  Recuento'
<1> SUFFICES ASSUME SinCarrera', NEW t \in Hilos, Mapeada(t)'
             PROVE  Enviados' + Esperan(DeSubida)' + PorMandar(t)' <= hilo'[t].guardados
  BY DEF Recuento
<1>1. SinCarrera /\ Mapeada(t)
  BY ReglasQuedan DEF MismasSubidas, MismaSubida
<1>2. Enviados' = Enviados /\ Esperan(DeSubida)' = Esperan(DeSubida) /\ PorMandar(t)' = PorMandar(t)
      /\ hilo'[t].guardados = hilo[t].guardados
  BY <1>1 DEF Enviados, PorMandar, MismasSubidas, MismaSubida
<1> QED
  BY <1>1, <1>2 DEF Recuento

LEMMA DespiertoQueda ==
  ASSUME Despierto, hist \subseteq hist', bsent' = bsent, cpmut' = cpmut, suenio' = suenio,
         orden' = orden \/ orden.tipo # "baja"
  PROVE  Despierto'
BY ReglasQuedan DEF Despierto, PorSubida, PorBajada

LEMMA HolguraQueda ==
  ASSUME Holgura, hist \subseteq hist', bsent'.total = bsent.total, TypeOK, Exclusion, MismasSubidas,
         Estable' => BloquesLibres' \in Int /\ BloquesLibres' <= BloquesLibres
  PROVE  Holgura'
<1> SUFFICES ASSUME Estable', NEW t \in Hilos, Mapeada(t)'
             PROVE  \/ bsent'.total = 2 * Len(hilo'[t].bloques)
                    \/ hilo'[t].guardados + BloquesLibres' <= bsent'.total
  BY DEF Holgura
<1>1. Estable /\ Mapeada(t)
  BY ReglasQuedan DEF MismasSubidas, MismaSubida
<1>2. hilo'[t].bloques = hilo[t].bloques /\ hilo'[t].guardados = hilo[t].guardados
  BY <1>1 DEF MismasSubidas, MismaSubida
<1>3. \/ bsent.total = 2 * Len(hilo[t].bloques)
      \/ hilo[t].guardados + BloquesLibres <= bsent.total
  BY <1>1 DEF Holgura
<1>4. hilo[t].guardados \in Nat /\ BloquesLibres \in Int /\ bsent.total \in Int
  BY TipoHiloEs, LibresEnteros DEF TypeOK, TipoSubida
<1>5. BloquesLibres' \in Int /\ BloquesLibres' <= BloquesLibres
  OBVIOUS
<1> QED
  BY <1>2, <1>3, <1>4, <1>5

LEMMA BajadaSigue ==
  ASSUME Bajada, hist \subseteq hist', orden' = orden, disco' = disco, mapas' = mapas,
         \A n \in Nodos : EnCola(n)' \cap Leen = EnCola(n) \cap Leen, Esperan(Leen)' = Esperan(Leen),
         orden.tipo = "baja" => archivos \subseteq archivos'
  PROVE  Bajada'
<1>1. (SinCarrera' => SinCarrera) /\ (Limpia' => Limpia)
  BY ReglasQuedan
<1>2. NadaPedido => NadaPedido'
  BY DEF NadaPedido, Leen
<1>3. orden.tipo = "baja" /\ DeArchivo => DeArchivo'
  BY DEF DeArchivo
<1>4. Pedidos => Pedidos'
  BY DEF Pedidos, EsPedido, Leen
<1>5. EnSuSitio => EnSuSitio'
  <2>1. \A n \in Nodos : \A op \in EnCola(n)' \cap Leen : op \in EnCola(n) \cap Leen
    OBVIOUS
  <2>2. \A n \in Nodos : \A op \in EnCola(n) \cap Leen : op \in EnCola(n)' \cap Leen
    OBVIOUS
  <2>3. \A n, op, b : EsPedido(n, op, b)' <=> EsPedido(n, op, b)
    BY DEF EsPedido
  <2>4. \A b : Recibido(b) => Recibido(b)'
    BY <2>2, <2>3 DEF Recibido, Leen
  <2>5. Leen' = Leen
    BY DEF Leen
  <2> QED
    BY <2>1, <2>3, <2>4, <2>5 DEF EnSuSitio
<1> QED
  BY <1>1, <1>2, <1>3, <1>4, <1>5 DEF Bajada

LEMMA BajadaQueda ==
  ASSUME Bajada, hist \subseteq hist', orden' = orden, cola' = cola, disco' = disco, mapas' = mapas,
         orden.tipo = "baja" => archivos \subseteq archivos'
  PROVE  Bajada'
<1>1. \A n \in Nodos : EnCola(n)' \cap Leen = EnCola(n) \cap Leen
  BY ColaIgual
<1>2. Esperan(Leen)' = Esperan(Leen)
  BY ColaIgual
<1> QED
  BY ONLY <1>1, <1>2, BajadaSigue, Bajada, hist \subseteq hist', orden' = orden, disco' = disco, mapas' = mapas,
         orden.tipo = "baja" => archivos \subseteq archivos'

LEMMA OtraOrden ==
  ASSUME Bajada, hist \subseteq hist', orden.tipo # "baja", orden'.tipo # "baja",
         \A n \in Nodos : EnCola(n)' \cap Leen \subseteq EnCola(n)
  PROVE  Bajada'
BY ReglasQuedan DEF Bajada, NadaPedido

LEMMA CaidaQueda ==
  ASSUME CaidaExplicada, hist \subseteq hist', fs' = fs \/ fs' = "vivo"
  PROVE  CaidaExplicada'
BY DEF CaidaExplicada

-----------------------------------------------------------------------------
(* The free blocks of the nodes that answer. *)

LEMMA SumaLibres == BloquesLibres = Suma(Libres, Activos)
BY DEF BloquesLibres, Suma

LEMMA SumaLibresTras == (BloquesLibres = Suma(Libres, Activos))'
BY SumaLibres, PTL

LEMMA BloquesLibresEs ==
  ASSUME TypeOK
  PROVE  /\ BloquesLibres = Suma(Libres, Activos) /\ BloquesLibres \in Int
         /\ IsFiniteSet(Activos) /\ Activos \subseteq Nodos
         /\ \A n \in Nodos : Libres[n] = espacio[n].libres /\ Libres[n] \in Int
<1>1. Activos \subseteq Nodos
  BY DEF TypeOK, TipoNodos, Activos
<1>2. IsFiniteSet(Activos)
  BY <1>1, Constantes, FS_Subset
<1>3. \A n \in Nodos : Libres[n] = espacio[n].libres /\ Libres[n] \in Int
  BY TipoEspacioEs DEF Libres
<1> QED
  BY <1>1, <1>2, <1>3, LibresEnteros, SumaLibres

LEMMA LibresNaturales ==
  ASSUME TypeOK, LibresCuadra, EnRegla({"carrera", "desfase"}), NEW n \in lista
  PROVE  espacio[n].libres \in Nat
<1>1. n \in Nodos
  BY DEF TypeOK, TipoNodos
<1>2. espacio[n].ocupados \subseteq Bits(n)
  BY <1>1, TipoEspacioEs
<1>3. PICK a : a = Cardinality(espacio[n].ocupados)
  OBVIOUS
<1>4. a \in Nat /\ a <= Total[n] /\ Total[n] \in Nat
  BY <1>1, <1>2, <1>3, BitsEs, FS_Subset, FS_CardinalityType
<1>5. espacio[n].libres = Total[n] - a
  BY <1>3 DEF LibresCuadra
<1> QED
  BY <1>4, <1>5

LEMMA LibresIguales ==
  ASSUME espacio' = espacio, Activos' = Activos
  PROVE  BloquesLibres' = BloquesLibres
<1>1. Libres' = Libres
  BY DEF Libres
<1> QED
  BY <1>1, SumaLibres, SumaLibresTras

LEMMA MenosActivos ==
  ASSUME TypeOK, LibresCuadra, ConManejador, Estable, espacio' = espacio,
         NEW n \in Nodos, Activos' = Activos \/ Activos' = Activos \ {n}
  PROVE  BloquesLibres' \in Int /\ BloquesLibres' <= BloquesLibres
<1>1. PICK f, A : f = Libres /\ A = Activos
  OBVIOUS
<1>2. /\ BloquesLibres = Suma(f, A) /\ BloquesLibres \in Int /\ IsFiniteSet(A) /\ A \subseteq Nodos
      /\ \A m \in Nodos : f[m] = espacio[m].libres /\ f[m] \in Int
  BY <1>1, BloquesLibresEs
<1>3. Libres' = f
  BY <1>1 DEF Libres
<1>4. BloquesLibres' = Suma(f, Activos')
  <2>1. BloquesLibres' = Suma(Libres', Activos')
    BY SumaLibresTras
  <2> QED
    BY <1>3, <2>1
<1>5. CASE Activos' = Activos \/ n \notin A
  <2>1. Activos' = A
    BY <1>1, <1>5
  <2> QED
    BY <1>2, <1>4, <2>1
<1>6. CASE Activos' = Activos \ {n} /\ n \in A
  <2>1. f[n] \in Nat
    <3>1. n \in lista
      BY <1>1, <1>6 DEF ConManejador, Activos
    <3> QED
      BY <1>2, <3>1, LibresNaturales, ReglasEs
  <2>2. PICK x, y : x = f[n] /\ y = Suma(f, A \ {n})
    OBVIOUS
  <2>3. Suma(f, A) = f[n] + Suma(f, A \ {n})
    BY <1>2, <1>6, SumaSin
  <2>4. Suma(f, A \ {n}) \in Int
    BY <1>2, SumaEntera
  <2>5. Activos' = A \ {n}
    BY <1>1, <1>6
  <2>6. x \in Nat /\ y \in Int /\ BloquesLibres = x + y /\ BloquesLibres' = y
    BY <1>2, <1>4, <2>1, <2>2, <2>3, <2>4, <2>5
  <2> QED
    BY ONLY <2>6
<1> QED
  BY <1>5, <1>6

LEMMA UnoMenos ==
  ASSUME TypeOK, TypeOK', Activos' = Activos, NEW n \in Nodos,
         espacio'[n].libres = espacio[n].libres - 1,
         \A m \in Nodos \ {n} : espacio'[m].libres = espacio[m].libres
  PROVE  /\ BloquesLibres' \in Int /\ BloquesLibres' <= BloquesLibres
         /\ n \in Activos => BloquesLibres' = BloquesLibres - 1
<1>1. PICK f, g, A : f = Libres /\ g = Libres' /\ A = Activos
  OBVIOUS
<1>2. /\ BloquesLibres = Suma(f, A) /\ BloquesLibres \in Int /\ IsFiniteSet(A) /\ A \subseteq Nodos
      /\ \A m \in Nodos : f[m] = espacio[m].libres /\ f[m] \in Int
  BY <1>1, BloquesLibresEs
<1>3. \A m \in Nodos : g[m] = espacio'[m].libres /\ g[m] \in Int
  <2>1. \A m \in Nodos : espacio'[m] \in TipoEspacio(m)
    BY DEF TypeOK, TipoEspacios
  <2>2. \A m \in Nodos : espacio'[m].libres \in Int
    BY <2>1 DEF TipoEspacio
  <2> QED
    BY <1>1, <2>2 DEF Libres
<1>4. BloquesLibres' = Suma(g, A)
  <2>1. BloquesLibres' = Suma(Libres', Activos')
    BY SumaLibresTras
  <2> QED
    BY <1>1, <2>1
<1>5. g[n] = f[n] - 1 /\ \A m \in Nodos : m # n => f[m] = g[m]
  BY <1>2, <1>3
<1>6. CASE n \in A
  <2>1. Suma(g, A) = Suma(f, A) + (g[n] - f[n])
    BY <1>2, <1>3, <1>5, <1>6, SumaCambia
  <2>2. PICK x, y, z, w : x = f[n] /\ y = g[n] /\ z = Suma(f, A) /\ w = Suma(g, A)
    OBVIOUS
  <2>3. x \in Int /\ y = x - 1 /\ z \in Int /\ w = z + (y - x) /\ BloquesLibres = z /\ BloquesLibres' = w
    BY <1>2, <1>4, <1>5, <2>1, <2>2
  <2> QED
    BY ONLY <2>3
<1>7. CASE n \notin A
  <2>1. \A m \in A : f[m] = g[m]
    BY <1>2, <1>5, <1>7
  <2>2. Suma(f, A) = Suma(g, A)
    BY <1>2, <2>1, SumaIgual
  <2> QED
    BY <1>1, <1>2, <1>4, <1>7, <2>2
<1> QED
  BY <1>6, <1>7

-----------------------------------------------------------------------------
(* Steps that leave the queues, the disks and the memory alone. *)

LEMMA PartesDe ==
  ASSUME IInv
  PROVE  /\ TypeOK /\ Exclusion /\ Nombres /\ Operaciones /\ EnCopia /\ Avance /\ Agotado
         /\ LibresCuadra /\ Reservas /\ TablaSana
BY DEF IInv

LEMMA DatosDe ==
  ASSUME Datos
  PROVE  /\ ConManejador /\ Memoria /\ Envios /\ Atrasos /\ Escrituras /\ Escritas /\ Leida
         /\ Recuento /\ Despierto /\ Holgura /\ Bajada /\ CaidaExplicada
BY DEF Datos

LEMMA Comunes ==
  ASSUME IInv, Datos, hist \subseteq hist', cola' = cola, disco' = disco, mapas' = mapas,
         bsent' = bsent, orden' = orden \/ orden'.tipo # "baja", MismasSubidas,
         Puestas' \subseteq Puestas, \A f \in archivos' : \E g \in archivos : g.id = f.id
  PROVE  Memoria' /\ Envios' /\ Atrasos' /\ Escritas' /\ Recuento'
<1>1. TypeOK /\ Exclusion
  BY PartesDe
<1>2. Memoria /\ Envios /\ Atrasos /\ Escritas /\ Recuento
  BY DatosDe
<1>3. (\A n \in Nodos : EnCola(n)' \cap DeSubida \subseteq EnCola(n)) /\ Esperan(DeSubida)' = Esperan(DeSubida)
  BY ColaIgual
<1>4. Memoria' /\ Recuento'
  BY <1>2, <1>3, MemoriaQueda, RecuentoQueda
<1>5. Envios'
  BY <1>1, <1>2, EnviosQuedan
<1>6. Atrasos'
  BY <1>1, <1>2, <1>3, AtrasosQuedan
<1>7. Escritas'
  <2>1. \A n \in Nodos : EnCola(n) \cap Escriben \subseteq EnCola(n)'
    BY ColaIgual
  <2>2. Nombres
    BY PartesDe
  <2> QED
    BY <1>1, <1>2, <2>1, <2>2, EscritasQuedan
<1> QED
  BY <1>4, <1>5, <1>6, <1>7

(* If something was freed, what was said of an upload is forgotten. *)
LEMMA HolguraCrece ==
  ASSUME TypeOK, Exclusion, MismasSubidas, SiCrece \subseteq hist'
  PROVE  Holgura'
<1>1. CASE cpmut = Nadie
  <2>1. \A t \in Hilos : ~ Mapeada(t)'
    BY <1>1, Constantes DEF Exclusion, Excluye, MismasSubidas, MismaSubida
  <2> QED
    BY <2>1 DEF Holgura
<1>2. CASE cpmut # Nadie
  <2>1. ~ Estable'
    BY <1>2 DEF SiCrece, Estable, EnRegla
  <2> QED
    BY <2>1 DEF Holgura
<1> QED
  BY <1>1, <1>2

LEMMA CaeDatos ==
  ASSUME IInv, Datos, NEW n \in Nodos, Cae(n)
  PROVE  Datos'
<1>1. /\ conexion' = conexion \ {n}
      /\ fs' = fs /\ lista' = lista /\ manejador' = manejador /\ espacio' = espacio /\ disco' = disco
      /\ archivos' = archivos /\ hilo' = hilo /\ orden' = orden /\ cpmut' = cpmut /\ bsent' = bsent
      /\ suenio' = suenio /\ cola' = cola /\ mapas' = mapas /\ hist' = hist
  BY DEF Cae, subidaVars, mapaVars
<1>2. MismasSubidas /\ Puestas' = Puestas
  BY <1>1, SubidasIguales, PuestasIguales
<1>3. Memoria' /\ Envios' /\ Atrasos' /\ Escritas' /\ Recuento'
  BY <1>1, <1>2, Comunes
<1>4. ConManejador' /\ Escrituras' /\ Leida' /\ Despierto' /\ CaidaExplicada'
  <2>1. \A m \in Nodos : EnCola(m)' \subseteq EnCola(m)
    BY <1>1, ColaIgual
  <2>2. ConManejador' /\ Leida' /\ Despierto' /\ CaidaExplicada'
    BY <1>1, DatosDe, ManejadorQueda, LeidaQueda, DespiertoQueda, CaidaQueda
  <2>3. Escrituras'
    BY <1>1, <1>2, <2>1, DatosDe, EscriturasQuedan
  <2> QED
    BY <2>2, <2>3
<1>5. Holgura'
  <2>1. Activos' = Activos \ {n}
    BY <1>1 DEF Activos
  <2>2. Estable' => Estable
    BY <1>1, ReglasQuedan
  <2>3. Estable' => BloquesLibres' \in Int /\ BloquesLibres' <= BloquesLibres
    BY <1>1, <2>1, <2>2, PartesDe, DatosDe, MenosActivos
  <2> QED
    BY <1>1, <1>2, <2>3, PartesDe, DatosDe, HolguraQueda
<1>6. Bajada'
  BY <1>1, DatosDe, BajadaQueda
<1> QED
  BY <1>3, <1>4, <1>5, <1>6 DEF Datos

LEMMA ConectarDatos ==
  ASSUME IInv, Datos, NEW n \in Nodos, Conectar(n)
  PROVE  Datos'
<1>1. /\ n \in lista /\ manejador' = (manejador \ (lista \ conexion)) \cup {n}
      /\ \A m \in lista \cap manejador : cola[m] = <<>>
      /\ hist' = hist \cup SiCrece
      /\ fs' = fs /\ lista' = lista /\ espacio' = espacio /\ disco' = disco
      /\ archivos' = archivos /\ hilo' = hilo /\ orden' = orden /\ cpmut' = cpmut /\ bsent' = bsent
      /\ suenio' = suenio /\ cola' = cola /\ mapas' = mapas
  BY DEF Conectar, subidaVars, mapaVars
<1>2. MismasSubidas /\ Puestas' = Puestas
  BY <1>1, SubidasIguales, PuestasIguales
<1>3. Memoria' /\ Envios' /\ Atrasos' /\ Escritas' /\ Recuento'
  BY <1>1, <1>2, Comunes
<1>4. Escrituras' /\ Leida' /\ Despierto' /\ CaidaExplicada'
  <2>1. \A m \in Nodos : EnCola(m)' \subseteq EnCola(m)
    BY <1>1, ColaIgual
  <2>2. Leida' /\ Despierto' /\ CaidaExplicada'
    BY <1>1, DatosDe, LeidaQueda, DespiertoQueda, CaidaQueda
  <2>3. Escrituras'
    BY <1>1, <1>2, <2>1, DatosDe, EscriturasQuedan
  <2> QED
    BY <2>2, <2>3
<1>5. ConManejador'
  <2>1. \A m \in Nodos : cola[m] = <<>>
    BY <1>1, DatosDe DEF ConManejador
  <2>2. manejador' \subseteq lista
    BY <1>1, DatosDe DEF ConManejador
  <2> QED
    BY <1>1, <2>1, <2>2 DEF ConManejador
<1>6. Holgura'
  BY <1>1, <1>2, PartesDe, HolguraCrece
<1>7. Bajada'
  BY <1>1, DatosDe, BajadaQueda
<1> QED
  BY <1>3, <1>4, <1>5, <1>6, <1>7 DEF Datos

LEMMA NadaDatos ==
  ASSUME IInv, Datos, UNCHANGED vars
  PROVE  Datos'
<1>1. /\ conexion' = conexion
      /\ fs' = fs /\ lista' = lista /\ manejador' = manejador /\ espacio' = espacio /\ disco' = disco
      /\ archivos' = archivos /\ hilo' = hilo /\ orden' = orden /\ cpmut' = cpmut /\ bsent' = bsent
      /\ suenio' = suenio /\ cola' = cola /\ mapas' = mapas /\ hist' = hist
  BY DEF vars, nodoVars, subidaVars, mapaVars
<1>2. MismasSubidas /\ Puestas' = Puestas
  BY <1>1, SubidasIguales, PuestasIguales
<1>3. Memoria' /\ Envios' /\ Atrasos' /\ Escritas' /\ Recuento'
  BY <1>1, <1>2, Comunes
<1>4. ConManejador' /\ Escrituras' /\ Leida' /\ Despierto' /\ CaidaExplicada'
  <2>1. \A m \in Nodos : EnCola(m)' \subseteq EnCola(m)
    BY <1>1, ColaIgual
  <2>2. ConManejador' /\ Leida' /\ Despierto' /\ CaidaExplicada'
    BY <1>1, DatosDe, ManejadorQueda, LeidaQueda, DespiertoQueda, CaidaQueda
  <2>3. Escrituras'
    BY <1>1, <1>2, <2>1, DatosDe, EscriturasQuedan
  <2> QED
    BY <2>2, <2>3
<1>5. Holgura'
  <2>1. BloquesLibres' = BloquesLibres /\ BloquesLibres \in Int
    BY <1>1, PartesDe, LibresIguales, LibresEnteros DEF Activos
  <2> QED
    BY <1>1, <1>2, <2>1, PartesDe, DatosDe, HolguraQueda
<1>6. Bajada'
  BY <1>1, DatosDe, BajadaQueda
<1> QED
  BY <1>3, <1>4, <1>5, <1>6 DEF Datos

(* A copy of a stored file, and one of an upload, among the copies. *)
LEMMA CopiaDeArchivo ==
  ASSUME NEW f \in archivos, NEW b \in DOMAIN f.bloques, NEW c \in Par, f.bloques[b][c] # SinCopia,
         NEW p, p = [id |-> f.id, b |-> b, c |-> c, en |-> f.bloques[b][c]]
  PROVE  /\ p \in Puestas /\ p.id = f.id /\ p.b = b /\ p.c = c /\ p.en = f.bloques[b][c]
         /\ EsCopia(f.bloques, f.id, p)
<1>1. p.id = f.id /\ p.b = b /\ p.c = c /\ p.en = f.bloques[b][c]
  OBVIOUS
<1>2. EsCopia(f.bloques, f.id, p)
  BY <1>1 DEF EsCopia
<1>3. p \in CopiasDe(f)
  BY <1>2, EsCopiaSii
<1> QED
  BY <1>1, <1>2, <1>3, PuestasEs DEF Puestas

LEMMA CopiaDeHilo ==
  ASSUME NEW t \in Hilos, NEW b \in DOMAIN hilo[t].bloques, NEW c \in Par, hilo[t].bloques[b][c] # SinCopia,
         NEW p, p = [id |-> hilo[t].id, b |-> b, c |-> c, en |-> hilo[t].bloques[b][c]]
  PROVE  /\ p \in Puestas /\ p.id = hilo[t].id /\ p.b = b /\ p.c = c /\ p.en = hilo[t].bloques[b][c]
         /\ EsCopia(hilo[t].bloques, hilo[t].id, p)
<1>1. p.id = hilo[t].id /\ p.b = b /\ p.c = c /\ p.en = hilo[t].bloques[b][c]
  OBVIOUS
<1>2. EsCopia(hilo[t].bloques, hilo[t].id, p)
  BY <1>1 DEF EsCopia
<1>3. p \in CopiasDe(hilo[t])
  BY <1>2, EsCopiaSii
<1> QED
  BY <1>1, <1>2, <1>3, PuestasEs DEF Puestas

LEMMA PuestasMenos ==
  ASSUME archivos' \subseteq archivos, hilo' = hilo
  PROVE  Puestas' \subseteq Puestas
<1> SUFFICES ASSUME NEW p \in Puestas' PROVE p \in Puestas
  OBVIOUS
<1>1. p \in PuestasEn(archivos', hilo)
  BY DEF Puestas
<1>2. (\E f \in archivos' : p \in CopiasDe(f)) \/ (\E t \in Hilos : p \in CopiasDe(hilo[t]))
  BY <1>1, PuestasEs
<1> QED
  BY <1>2, PuestasEs DEF Puestas

LEMMA PedirDatos ==
  ASSUME IInv, Datos, NEW t \in Hilos, NEW ruta \in Rutas, Pedir(t, ruta)
  PROVE  Datos'
<1>1. /\ hilo[t].pc = "libre"
      /\ hilo' = [hilo EXCEPT ![t].pc = "mutex", ![t].ruta = ruta, ![t].id = cuenta.subidas + 1]
      /\ fs' = fs /\ lista' = lista /\ conexion' = conexion /\ manejador' = manejador
      /\ espacio' = espacio /\ disco' = disco /\ archivos' = archivos /\ orden' = orden
      /\ cpmut' = cpmut /\ bsent' = bsent /\ suenio' = suenio /\ cola' = cola /\ mapas' = mapas
      /\ hist' = hist
  BY DEF Pedir, nodoVars, subidaVars, mapaVars
<1>2. hilo \in [Hilos -> TipoHilo]
  BY PartesDe DEF TypeOK, TipoHilos
<1>3. /\ hilo'[t].pc = "mutex" /\ hilo'[t].envio = hilo[t].envio /\ hilo'[t].bloques = hilo[t].bloques
      /\ \A u \in Hilos \ {t} : hilo'[u] = hilo[u]
  BY <1>1, <1>2 DEF TipoHilo
<1>4. MismasSubidas
  <2>1. MismaSubida(t)
    BY <1>1, <1>3 DEF MismaSubida, Mapeada
  <2>2. \A u \in Hilos \ {t} : MismaSubida(u)
    BY <1>3 DEF MismaSubida, Mapeada
  <2> QED
    BY <1>1, <2>1, <2>2 DEF MismasSubidas
<1>5. Puestas' = Puestas
  <2>1. hilo[t].bloques = <<>>
    BY <1>1, PartesDe DEF Exclusion, Excluye, Mapeada
  <2>2. CopiasDe(hilo[t]) = {} /\ CopiasDe(hilo'[t]) = {}
    BY <1>3, <2>1, SinCopias
  <2>3. \A u \in Hilos : CopiasDe(hilo'[u]) = CopiasDe(hilo[u])
    BY <1>3, <2>2
  <2> QED
    BY <1>1, <2>3, PuestasIguales
<1>6. Memoria' /\ Envios' /\ Atrasos' /\ Escritas' /\ Recuento'
  BY <1>1, <1>4, <1>5, Comunes
<1>7. ConManejador' /\ Escrituras' /\ Leida' /\ Despierto' /\ CaidaExplicada'
  <2>1. \A m \in Nodos : EnCola(m)' \subseteq EnCola(m)
    BY <1>1, ColaIgual
  <2>2. ConManejador' /\ Leida' /\ Despierto' /\ CaidaExplicada'
    BY <1>1, DatosDe, ManejadorQueda, LeidaQueda, DespiertoQueda, CaidaQueda
  <2>3. Escrituras'
    BY <1>1, <1>5, <2>1, DatosDe, EscriturasQuedan
  <2> QED
    BY <2>2, <2>3
<1>8. Holgura'
  <2>1. BloquesLibres' = BloquesLibres /\ BloquesLibres \in Int
    BY <1>1, PartesDe, LibresIguales, LibresEnteros DEF Activos
  <2> QED
    BY <1>1, <1>4, <2>1, PartesDe, DatosDe, HolguraQueda
<1>9. Bajada'
  BY <1>1, DatosDe, BajadaQueda
<1> QED
  BY <1>6, <1>7, <1>8, <1>9 DEF Datos

LEMMA BorrarDatos ==
  ASSUME IInv, Datos, NEW f \in archivos, Borrar(f)
  PROVE  Datos'
<1>1. /\ orden = SinOrden /\ archivos' = archivos \ {f} /\ hist' = hist \cup SiCrece
      /\ fs' = fs /\ lista' = lista /\ manejador' = manejador /\ disco' = disco
      /\ hilo' = hilo /\ orden' = orden /\ cpmut' = cpmut /\ bsent' = bsent
      /\ suenio' = suenio /\ cola' = cola /\ mapas' = mapas
  BY DEF Borrar, Ordenar, nodoVars, subidaVars, mapaVars
<1>2. MismasSubidas /\ Puestas' \subseteq Puestas /\ orden.tipo = "no"
  BY <1>1, SubidasIguales, PuestasMenos DEF SinOrden
<1>3. Memoria' /\ Envios' /\ Atrasos' /\ Escritas' /\ Recuento'
  BY <1>1, <1>2, Comunes
<1>4. ConManejador' /\ Escrituras' /\ Leida' /\ Despierto' /\ CaidaExplicada'
  <2>1. \A m \in Nodos : EnCola(m)' \subseteq EnCola(m)
    BY <1>1, ColaIgual
  <2>2. ConManejador' /\ Leida' /\ Despierto' /\ CaidaExplicada'
    BY <1>1, DatosDe, ManejadorQueda, LeidaQueda, DespiertoQueda, CaidaQueda
  <2>3. Escrituras'
    BY <1>1, <1>2, <2>1, DatosDe, EscriturasQuedan
  <2> QED
    BY <2>2, <2>3
<1>5. Holgura'
  BY <1>1, <1>2, PartesDe, HolguraCrece
<1>6. Bajada'
  BY <1>1, <1>2, DatosDe, BajadaQueda
<1> QED
  BY <1>3, <1>4, <1>5, <1>6 DEF Datos

LEMMA BorrarCopiaDatos ==
  ASSUME IInv, Datos, NEW f \in archivos, NEW b \in DOMAIN f.bloques, NEW c \in Par, BorrarCopia(f, b, c)
  PROVE  Datos'
<1>1. /\ orden = SinOrden /\ hist' = hist \cup SiCrece /\ SinCopia \notin {f.bloques[b][1], f.bloques[b][2]}
      /\ fs' = (IF f.bloques[b][c].nodo \in lista THEN fs ELSE "caido")
      /\ Cambia(f, [f.bloques EXCEPT ![b][c] = SinCopia])
      /\ lista' = lista /\ manejador' = manejador /\ disco' = disco
      /\ hilo' = hilo /\ orden' = orden /\ cpmut' = cpmut /\ bsent' = bsent
      /\ suenio' = suenio /\ cola' = cola /\ mapas' = mapas
  BY DEF BorrarCopia, Ordenar, nodoVars, subidaVars, mapaVars
<1>2. PICK bl, v, z, g : /\ bl = f.bloques /\ v = SinCopia /\ z = [bl EXCEPT ![b][c] = v]
                         /\ g = [f EXCEPT !.bloques = z]
  OBVIOUS
<1>3. bl \in TipoBloques /\ v \in TipoCopia /\ f \in TipoArchivo /\ b \in DOMAIN bl
  BY <1>2, PartesDe, TipoArchivoEs DEF TipoCopia
<1>4. z \in TipoBloques
  <2>1. z = [bl EXCEPT ![b][c] = v]
    BY <1>2
  <2> QED
    BY ONLY <1>3, c \in Par, <2>1, BloquesCambian
<1>5. g.id = f.id /\ g.bloques = z
  BY <1>2, <1>3, <1>4, ArchivoCambia
<1>6. archivos' = (archivos \ {f}) \cup {g}
  BY <1>1, <1>2 DEF Cambia
<1>7. CopiasDe(g) \subseteq CopiasDe(f)
  <2>1. f.bloques = bl /\ g.bloques = [bl EXCEPT ![b][c] = SinCopia] /\ f.id = g.id
    BY <1>2, <1>5
  <2>2. CopiasDe(g) = CopiasDe(f) \ {[id |-> f.id, b |-> b, c |-> c, en |-> bl[b][c]]}
    BY ONLY <1>3, c \in Par, <2>1, CopiaQuitada
  <2> QED
    BY <2>2
<1>8. MismasSubidas /\ orden.tipo = "no"
  BY <1>1, SubidasIguales DEF SinOrden
<1>9. Puestas' \subseteq Puestas
  <2>1. Puestas' = (Puestas \ CopiasDe(f)) \cup CopiasDe(g) /\ CopiasDe(f) \subseteq Puestas
    BY <1>1, <1>6, PartesDe, PuestasCambian
  <2> QED
    BY <1>7, <2>1
<1>10. \A y \in archivos' : \E x \in archivos : x.id = y.id
  BY <1>5, <1>6
<1>11. Memoria' /\ Envios' /\ Atrasos' /\ Escritas' /\ Recuento'
  BY <1>1, <1>8, <1>9, <1>10, Comunes
<1>12. ConManejador' /\ Escrituras' /\ Leida' /\ Despierto'
  <2>1. \A m \in Nodos : EnCola(m)' \subseteq EnCola(m)
    BY <1>1, ColaIgual
  <2>2. ConManejador' /\ Leida' /\ Despierto'
    BY <1>1, DatosDe, ManejadorQueda, LeidaQueda, DespiertoQueda
  <2>3. Escrituras'
    BY <1>1, <1>8, <1>9, <2>1, DatosDe, EscriturasQuedan
  <2> QED
    BY <2>2, <2>3
<1>13. CaidaExplicada'
  <2>1. CASE f.bloques[b][c].nodo \in lista
    BY <1>1, <2>1, DatosDe, CaidaQueda
  <2>2. CASE f.bloques[b][c].nodo \notin lista
    <3>1. f.bloques[b][c] # SinCopia
      BY <1>1 DEF Par
    <3>2. PICK p : p = [id |-> f.id, b |-> b, c |-> c, en |-> f.bloques[b][c]]
      OBVIOUS
    <3>3. p \in Puestas /\ p.en = f.bloques[b][c]
      BY <3>1, <3>2, CopiaDeArchivo
    <3>4. ~ Reservada(p)
      BY <2>2, <3>3 DEF Reservada
    <3>5. ~ EnRegla({"carrera", "desfase"})
      BY <3>3, <3>4, PartesDe DEF Reservas
    <3>6. hist \cap {"carrera", "desfase"} # {} /\ hist \subseteq hist'
      BY <1>1, <3>5 DEF EnRegla
    <3> QED
      BY <3>6 DEF CaidaExplicada
  <2> QED
    BY <2>1, <2>2
<1>14. Holgura'
  BY <1>1, <1>8, PartesDe, HolguraCrece
<1>15. Bajada'
  BY <1>1, <1>8, DatosDe, BajadaQueda
<1> QED
  BY <1>11, <1>12, <1>13, <1>14, <1>15 DEF Datos

LEMMA FormatearDatos ==
  ASSUME IInv, Datos, Formatear
  PROVE  Datos'
<1>1. /\ orden = SinOrden /\ Ping(lista) /\ archivos' = {} /\ lista' = lista \cap Activos
      /\ hist' = (IF cpmut # Nadie THEN hist \cup {"carrera", "crece"} ELSE hist)
      /\ fs' = fs /\ conexion' = conexion /\ disco' = disco
      /\ hilo' = hilo /\ orden' = orden /\ cpmut' = cpmut /\ bsent' = bsent
      /\ suenio' = suenio /\ cola' = cola /\ mapas' = mapas
  BY DEF Formatear, Ordenar, nodoVars, subidaVars, mapaVars
<1>2. hist \subseteq hist' /\ SiCrece \subseteq hist'
  BY <1>1 DEF SiCrece
<1>3. MismasSubidas /\ Puestas' \subseteq Puestas /\ orden.tipo = "no"
  BY <1>1, SubidasIguales, PuestasMenos DEF SinOrden
<1>4. Memoria' /\ Envios' /\ Atrasos' /\ Escritas' /\ Recuento'
  BY <1>1, <1>2, <1>3, Comunes
<1>5. Escrituras' /\ Leida' /\ Despierto' /\ CaidaExplicada'
  <2>1. \A m \in Nodos : EnCola(m)' \subseteq EnCola(m)
    BY <1>1, ColaIgual
  <2>2. Leida' /\ Despierto' /\ CaidaExplicada'
    BY <1>1, <1>2, DatosDe, LeidaQueda, DespiertoQueda, CaidaQueda
  <2>3. Escrituras'
    BY <1>1, <1>2, <1>3, <2>1, DatosDe, EscriturasQuedan
  <2> QED
    BY <2>2, <2>3
<1>6. ConManejador'
  <2>1. manejador \subseteq lista /\ \A n \in Nodos \ manejador : cola[n] = <<>>
    BY DatosDe DEF ConManejador
  <2>2. manejador' = manejador \ (lista \ conexion) /\ \A n \in lista \cap manejador : cola[n] = <<>>
    BY <1>1 DEF Ping
  <2>3. manejador' \subseteq lista \cap Activos
    BY <2>1, <2>2 DEF Activos
  <2>4. \A n \in Nodos : cola[n] = <<>>
    BY <2>1, <2>2
  <2> QED
    BY <1>1, <2>3, <2>4 DEF ConManejador
<1>7. Holgura'
  BY <1>1, <1>2, <1>3, PartesDe, HolguraCrece
<1>8. Bajada'
  BY <1>1, <1>2, <1>3, DatosDe, BajadaQueda
<1> QED
  BY <1>4, <1>5, <1>6, <1>7, <1>8 DEF Datos

(* A ping takes the handler of nodes with nothing to do. *)
LEMMA PingManejador ==
  ASSUME ConManejador, NEW ns, Ping(ns), lista' = lista, cola' = cola
  PROVE  ConManejador'
<1>1. manejador' \subseteq manejador /\ \A n \in manejador \ manejador' : cola[n] = <<>>
  BY DEF Ping
<1> QED
  BY <1>1, ManejadorQueda

LEMMA CopiarEligeDatos ==
  ASSUME IInv, Datos, NEW f \in archivos, NEW b \in DOMAIN f.bloques, NEW n \in Nodos, CopiarElige(f, b, n)
  PROVE  Datos'
<1>1. /\ orden = SinOrden /\ Ping({n})
      /\ orden' = IF n \notin Activos THEN SinOrden
                  ELSE [tipo |-> "copia", paso |-> 1, id |-> f.id, b |-> b, nodo |-> n,
                        num |-> PrimerCero(n), dato |-> Cero]
      /\ fs' = fs /\ lista' = lista /\ conexion' = conexion
      /\ espacio' = espacio /\ disco' = disco /\ archivos' = archivos /\ hilo' = hilo
      /\ cpmut' = cpmut /\ bsent' = bsent /\ suenio' = suenio /\ cola' = cola /\ mapas' = mapas
      /\ hist' = hist
  BY DEF CopiarElige, Ordenar, subidaVars, mapaVars
<1>2. orden.tipo = "no" /\ orden'.tipo \in {"no", "copia"} /\ (orden'.tipo = "copia" => orden'.nodo = n /\ orden'.paso = 1)
      /\ (orden'.tipo = "copia" => n \in Activos)
  BY <1>1 DEF SinOrden
<1>3. MismasSubidas /\ Puestas' = Puestas
  BY <1>1, SubidasIguales, PuestasIguales
<1>4. Memoria' /\ Envios' /\ Atrasos' /\ Escritas' /\ Recuento'
  BY <1>1, <1>2, <1>3, Comunes
<1>5. ConManejador' /\ Leida' /\ Despierto' /\ CaidaExplicada'
  BY <1>1, <1>2, DatosDe, PingManejador, LeidaQueda, DespiertoQueda, CaidaQueda
<1>6. Activos' = Activos /\ (n \in Activos => EnCola(n) = {})
  <2>1. Activos' = Activos /\ (n \in Activos => cola[n] = <<>>)
    BY <1>1, PingEs DEF Activos
  <2> QED
    BY <2>1, EnColaVacia
<1>7. Escrituras'
  <2> SUFFICES ASSUME Limpia', NEW m \in Nodos, NEW op \in EnCola(m)' \cap Escriben
               PROVE  /\ \A p \in Puestas' : EsSitio(p, m, op) => EsDe(op, p)
                      /\ orden'.tipo = "copia" /\ orden'.nodo = m => op.num \in espacio'[m].ocupados
    BY DEF Escrituras, Escriben, EsSitio, EsDe
  <2>1. Limpia /\ op \in EnCola(m)
    BY <1>1, ReglasQuedan, ColaIgual
  <2>2. ~ (orden'.tipo = "copia" /\ orden'.nodo = m)
    BY <1>2, <1>6, <2>1
  <2> QED
    BY <1>3, <2>1, <2>2, DatosDe DEF Escrituras
<1>8. Holgura'
  <2>1. BloquesLibres' = BloquesLibres /\ BloquesLibres \in Int
    BY <1>1, <1>6, PartesDe, LibresIguales, LibresEnteros
  <2> QED
    BY <1>1, <1>3, <2>1, PartesDe, DatosDe, HolguraQueda
<1>9. Bajada'
  <2>1. \A m \in Nodos : EnCola(m)' \cap Leen \subseteq EnCola(m)
    BY <1>1, ColaIgual
  <2> QED
    BY <1>1, <1>2, <2>1, DatosDe, OtraOrden
<1> QED
  BY <1>4, <1>5, <1>7, <1>8, <1>9 DEF Datos

(* A stored copy on a node with nothing to do is on its disk. *)
LEMMA EnSuDisco ==
  ASSUME IInv, Escritas, Limpia, NEW f \in archivos, NEW b \in DOMAIN f.bloques, NEW c \in Par,
         NEW k, k = f.bloques[b][c], k # SinCopia, cola[k.nodo] = <<>>
  PROVE  disco[k.nodo][k.num] = <<f.id, b>> /\ k.num \in Bits(k.nodo) /\ k.nodo \in lista
<1>1. PICK p : p = [id |-> f.id, b |-> b, c |-> c, en |-> f.bloques[b][c]]
  OBVIOUS
<1>2. p \in Puestas /\ p.id = f.id /\ p.b = b /\ p.en = k
  BY <1>1, CopiaDeArchivo
<1>3. Reservada(p)
  BY <1>2, PartesDe, ReglasEs DEF Reservas
<1>4. k.nodo \in lista /\ k.num \in Bits(k.nodo)
  <2>1. k.nodo \in lista /\ k.num \in espacio[k.nodo].ocupados
    BY <1>2, <1>3 DEF Reservada
  <2>2. k.nodo \in Nodos
    BY <2>1, PartesDe DEF TypeOK, TipoNodos
  <2> QED
    BY <2>1, <2>2, PartesDe, TipoEspacioEs
<1>5. EnDisco(p) \/ EnEspera(p) \/ EnMano(p)
  BY <1>2 DEF Escritas
<1>6. ~ EnEspera(p)
  BY <1>2, EnColaVacia DEF EnEspera
<1>7. ~ EnMano(p)
  <2> SUFFICES ASSUME NEW t \in Hilos, hilo[t].id = p.id PROVE FALSE
    BY DEF EnMano
  <2> QED
    BY <1>2, PartesDe DEF Nombres, Nombrado
<1>8. EnDisco(p)
  BY <1>5, <1>6, <1>7
<1> QED
  BY <1>2, <1>4, <1>8 DEF EnDisco

LEMMA ExistenteEs ==
  ASSUME IInv, orden.tipo = "copia"
  PROVE  /\ DeOrden \in archivos /\ DeOrden.id = orden.id /\ orden.b \in DOMAIN DeOrden.bloques
         /\ Existente # SinCopia
         /\ \E c \in Par : Existente = DeOrden.bloques[orden.b][c]
<1>1. /\ DeOrden \in archivos /\ DeOrden.id = orden.id /\ orden.b \in DOMAIN DeOrden.bloques
      /\ FaltaUna(DeOrden.bloques[orden.b], orden.nodo)
  BY PartesDe, DeOrdenEs
<1>2. PICK bl : bl = DeOrden.bloques
  OBVIOUS
<1>3. bl \in TipoBloques /\ orden.b \in DOMAIN bl /\ FaltaUna(bl[orden.b], orden.nodo)
  BY <1>1, <1>2, PartesDe, TipoArchivoEs
<1>4. bl[orden.b] \in TipoCopia \X TipoCopia
  BY <1>3, TipoParEs
<1>5. bl[orden.b][1] = SinCopia => bl[orden.b][2] # SinCopia
  BY <1>3, <1>4, FaltaUnaEs
<1>6. Existente = IF bl[orden.b][1] # SinCopia THEN bl[orden.b][1] ELSE bl[orden.b][2]
  BY <1>2 DEF Existente
<1>7. 1 \in Par /\ 2 \in Par
  BY DEF Par
<1> QED
  BY <1>1, <1>2, <1>5, <1>6, <1>7

LEMMA CopiarLeeDatos ==
  ASSUME IInv, Datos, CopiarLee
  PROVE  Datos'
<1>1. PICK k, i : k = Existente /\ i = orden.b - 1
  OBVIOUS
<1>2. /\ orden.tipo = "copia"
      /\ lista' = lista /\ manejador' = manejador /\ espacio' = espacio /\ disco' = disco
      /\ archivos' = archivos /\ hilo' = hilo /\ cpmut' = cpmut /\ bsent' = bsent
      /\ suenio' = suenio /\ cola' = cola /\ mapas' = mapas
      /\ IF k.nodo \notin lista THEN fs' = "caido" /\ conexion' = conexion /\ orden' = orden /\ hist' = hist
         ELSE /\ cola[k.nodo] = <<>> /\ conexion' \in TrasLeer(k.nodo, i) /\ fs' = fs
              /\ \E paso \in {2, 3} : orden' = [orden EXCEPT !.paso = paso, !.dato = Leido(k.nodo, i)]
              /\ hist' = IF k.num # i THEN hist \cup {"indice"} ELSE hist
  BY <1>1 DEF CopiarLee, subidaVars, mapaVars
<1>3. /\ DeOrden \in archivos /\ DeOrden.id = orden.id /\ orden.b \in DOMAIN DeOrden.bloques
      /\ k # SinCopia /\ orden \in TipoCopiar
  BY <1>1, <1>2, PartesDe, ExistenteEs, DeOrdenEs
<1>4. PICK f \in archivos : f = DeOrden
  BY <1>3
<1>5. PICK b \in DOMAIN f.bloques : b = orden.b
  BY <1>3, <1>4
<1>6. PICK c \in Par : k = f.bloques[b][c]
  BY <1>1, <1>2, <1>4, <1>5, ExistenteEs
<1>7. orden'.tipo = "copia" /\ orden'.nodo = orden.nodo /\ orden'.id = orden.id /\ orden'.b = orden.b
  <2>1. PICK d : d = Leido(k.nodo, i)
    OBVIOUS
  <2>2. orden' = orden \/ \E paso \in {2, 3} : orden' = [orden EXCEPT !.paso = paso, !.dato = d]
    BY <1>2, <2>1, Zenon
  <2> QED
    BY ONLY <1>2, <1>3, <2>2 DEF TipoCopiar
<1>8. hist \subseteq hist'
  BY <1>2
<1>9. MismasSubidas /\ Puestas' = Puestas
  BY <1>2, SubidasIguales, PuestasIguales
<1>10. Memoria' /\ Envios' /\ Atrasos' /\ Escritas' /\ Recuento'
  BY <1>2, <1>7, <1>8, <1>9, Comunes
<1>11. ConManejador' /\ Despierto' /\ Escrituras' /\ Bajada'
  <2>1. \A m \in Nodos : EnCola(m)' \subseteq EnCola(m) /\ EnCola(m)' \cap Leen \subseteq EnCola(m)
    BY <1>2, ColaIgual
  <2>2. ConManejador' /\ Despierto'
    BY <1>2, <1>8, DatosDe, ManejadorQueda, DespiertoQueda
  <2>3. Escrituras'
    BY <1>2, <1>7, <1>8, <1>9, <2>1, DatosDe, EscriturasQuedan
  <2>4. Bajada'
    BY <1>2, <1>7, <1>8, <2>1, DatosDe, OtraOrden
  <2> QED
    BY <2>2, <2>3, <2>4
<1>12. CASE k.nodo \notin lista
  <2>1. PICK p : p = [id |-> f.id, b |-> b, c |-> c, en |-> f.bloques[b][c]]
    OBVIOUS
  <2>2. p \in Puestas /\ p.en = k
    BY <1>3, <1>6, <2>1, CopiaDeArchivo
  <2>3. ~ EnRegla({"carrera", "desfase"})
    BY <1>12, <2>2, PartesDe DEF Reservas, Reservada
  <2>4. CaidaExplicada'
    <3>1. hist \cap {"carrera", "desfase"} # {}
      BY <2>3 DEF EnRegla
    <3> QED
      BY <1>8, <3>1 DEF CaidaExplicada
  <2>5. Holgura'
    <3>1. BloquesLibres' = BloquesLibres /\ BloquesLibres \in Int
      BY <1>2, <1>12, PartesDe, LibresIguales, LibresEnteros DEF Activos
    <3> QED
      BY <1>2, <1>8, <1>9, <3>1, PartesDe, DatosDe, HolguraQueda
  <2>6. Leida'
    BY <1>2, <1>8, <1>12, DatosDe, LeidaQueda
  <2> QED
    BY <1>10, <1>11, <2>4, <2>5, <2>6 DEF Datos
<1>13. CASE k.nodo \in lista
  <2>1. fs' = fs /\ cola[k.nodo] = <<>> /\ (conexion' = conexion \/ conexion' = conexion \ {k.nodo})
        /\ \E paso \in {2, 3} : orden' = [orden EXCEPT !.paso = paso, !.dato = Leido(k.nodo, i)]
        /\ hist' = IF k.num # i THEN hist \cup {"indice"} ELSE hist
    BY <1>2, <1>13 DEF TrasLeer
  <2>2. CaidaExplicada'
    BY <1>8, <2>1, DatosDe, CaidaQueda
  <2>3. Holgura'
    <3>1. k.nodo \in Nodos
      BY <1>13, PartesDe DEF TypeOK, TipoNodos
    <3>2. Activos' = Activos \/ Activos' = Activos \ {k.nodo}
      BY <1>2, <2>1 DEF Activos
    <3>3. Estable' => Estable
      BY <1>8, ReglasQuedan
    <3>4. Estable' => BloquesLibres' \in Int /\ BloquesLibres' <= BloquesLibres
      BY <1>2, <3>1, <3>2, <3>3, PartesDe, DatosDe, MenosActivos
    <3> QED
      BY <1>2, <1>8, <1>9, <3>4, PartesDe, DatosDe, HolguraQueda
  <2>4. Leida'
    <3> SUFFICES ASSUME Limpia' PROVE orden'.dato = <<orden'.id, orden'.b>>
      BY DEF Leida
    <3>1. k.num = i /\ Limpia
      <4>1. "indice" \notin hist'
        BY DEF Limpia, EnRegla
      <4> QED
        BY <1>8, <2>1, <4>1, ReglasQuedan
    <3>2. disco[k.nodo][k.num] = <<f.id, b>> /\ k.num \in Bits(k.nodo)
      <4>1. Escritas
        BY DatosDe
      <4>2. k # SinCopia /\ cola[k.nodo] = <<>> /\ Limpia
        BY <1>3, <2>1, <3>1
      <4> QED
        BY ONLY IInv, <4>1, <4>2, <1>6, EnSuDisco
    <3>3. orden'.dato = Leido(k.nodo, i)
      BY <1>3, <2>1 DEF TipoCopiar
    <3> QED
      BY <1>3, <1>4, <1>5, <1>7, <3>1, <3>2, <3>3 DEF Leido
  <2> QED
    BY <1>10, <1>11, <2>2, <2>3, <2>4 DEF Datos
<1> QED
  BY <1>12, <1>13

(* A download that was woken has received all that it asked for. *)
LEMMA BajadaCompleta ==
  ASSUME IInv, Datos, SinCarrera, BajadaLista
  PROVE  /\ NadaPedido /\ suenio[Consola] = 1 /\ orden.tipo = "baja"
         /\ orden.paso - 1 = Len(orden.bloques) /\ Len(orden.bloques) \in Nat
         /\ ~ (orden.current + Esperan(Leen) < orden.paso - 1)
<1>1. TypeOK /\ Memoria /\ Despierto /\ Bajada
  BY PartesDe, DatosDe
<1>2. orden.tipo = "baja" /\ orden.paso > Len(orden.bloques) /\ suenio[Consola] > 0
  BY DEF BajadaLista
<1>3. orden \in TipoBajar /\ suenio[Consola] \in Nat /\ Consola \in Hilos
  BY <1>1, <1>2, Constantes DEF TypeOK, TipoOrden, TipoSubida, TipoCopiar, SinOrden
<1>4. /\ orden.paso \in Nat \ {0} /\ orden.current \in Nat /\ orden.bloques \in TipoBloques
      /\ Len(orden.bloques) \in Nat
  BY <1>3 DEF TipoBajar, TipoBloques
<1>5. suenio[Consola] = 1
  BY <1>1, <1>2, <1>3 DEF Despierto
<1>6. orden.current >= Len(orden.bloques)
  <2>1. PorSubida(Consola) \/ PorBajada(Consola)
    BY <1>1, <1>3, <1>5 DEF Despierto
  <2>2. cpmut = Nadie
    BY <1>1, <1>2 DEF Memoria
  <2>3. ~ PorSubida(Consola)
    BY <2>2, <1>3, Constantes DEF PorSubida
  <2> QED
    BY <2>1, <2>3 DEF PorBajada
<1>7. orden.paso <= Len(orden.bloques) + 1 /\ orden.current + Esperan(Leen) <= orden.paso - 1
  BY <1>1, <1>2 DEF Bajada, Pedidos
<1>8. PICK e, p, l, k : e = Esperan(Leen) /\ p = orden.paso /\ l = Len(orden.bloques) /\ k = orden.current
  OBVIOUS
<1>9. e \in Nat /\ p \in Nat /\ l \in Nat /\ k \in Nat /\ p > l /\ p <= l + 1 /\ k >= l /\ k + e <= p - 1
  BY <1>2, <1>4, <1>6, <1>7, <1>8, EsperanEs
<1>10. e = 0 /\ p - 1 = l /\ ~ (k + e < p - 1)
  BY ONLY <1>9
<1>11. NadaPedido
  <2> SUFFICES ASSUME NEW n \in Nodos, EnCola(n) \cap Leen # {} PROVE FALSE
    BY DEF NadaPedido
  <2>1. e >= 1
    BY <1>1, <1>8, AlgunaEspera
  <2> QED
    BY <1>10, <2>1
<1> QED
  BY <1>2, <1>4, <1>5, <1>8, <1>10, <1>11

LEMMA BajarTerminaDatos ==
  ASSUME IInv, Datos, BajarTermina
  PROVE  Datos'
<1>1. /\ BajadaLista /\ orden' = SinOrden /\ suenio' = [suenio EXCEPT ![Consola] = @ - 1]
      /\ fs' = fs /\ lista' = lista /\ conexion' = conexion /\ manejador' = manejador
      /\ espacio' = espacio /\ disco' = disco /\ archivos' = archivos /\ hilo' = hilo
      /\ cpmut' = cpmut /\ bsent' = bsent /\ cola' = cola /\ mapas' = mapas /\ hist' = hist
  BY DEF BajarTermina, nodoVars
<1>2. orden'.tipo = "no"
  BY <1>1 DEF SinOrden
<1>3. MismasSubidas /\ Puestas' = Puestas /\ (SinCarrera' => SinCarrera)
  BY <1>1, SubidasIguales, PuestasIguales, ReglasQuedan
<1>4. Memoria' /\ Envios' /\ Atrasos' /\ Escritas' /\ Recuento'
  BY <1>1, <1>2, <1>3, Comunes
<1>5. ConManejador' /\ Escrituras' /\ Leida' /\ CaidaExplicada'
  <2>1. \A m \in Nodos : EnCola(m)' \subseteq EnCola(m)
    BY <1>1, ColaIgual
  <2>2. ConManejador' /\ Leida' /\ CaidaExplicada'
    BY <1>1, <1>2, DatosDe, ManejadorQueda, LeidaQueda, CaidaQueda
  <2>3. Escrituras'
    BY <1>1, <1>2, <1>3, <2>1, DatosDe, EscriturasQuedan
  <2> QED
    BY <2>2, <2>3
<1>6. Holgura'
  <2>1. BloquesLibres' = BloquesLibres /\ BloquesLibres \in Int
    BY <1>1, PartesDe, LibresIguales, LibresEnteros DEF Activos
  <2> QED
    BY <1>1, <1>3, <2>1, PartesDe, DatosDe, HolguraQueda
<1>7. Despierto'
  <2> SUFFICES ASSUME SinCarrera', NEW t \in Hilos
               PROVE  suenio'[t] <= 1 /\ (suenio'[t] = 1 => PorSubida(t)' \/ PorBajada(t)')
    BY DEF Despierto
  <2>1. suenio \in [Hilos -> Nat]
    BY PartesDe DEF TypeOK, TipoSubida
  <2>2. suenio[t] <= 1 /\ (suenio[t] = 1 => PorSubida(t) \/ PorBajada(t))
    BY <1>3, DatosDe DEF Despierto
  <2>3. CASE t = Consola
    <3>1. suenio[t] = 1
      BY <1>1, <1>3, <2>3, BajadaCompleta
    <3> QED
      BY <1>1, <2>1, <2>3, <3>1
  <2>4. CASE t # Consola
    <3>1. suenio'[t] = suenio[t] /\ ~ PorBajada(t)
      BY <1>1, <2>1, <2>4 DEF PorBajada
    <3>2. PorSubida(t)' <=> PorSubida(t)
      BY <1>1 DEF PorSubida
    <3> QED
      BY <2>2, <3>1, <3>2
  <2> QED
    BY <2>3, <2>4
<1>8. Bajada'
  <2>1. SinCarrera' => NadaPedido'
    <3>1. SinCarrera' => NadaPedido
      BY <1>1, <1>3, BajadaCompleta
    <3> QED
      BY <1>1, <3>1, ColaIgual DEF NadaPedido
  <2> QED
    BY <1>2, <2>1 DEF Bajada
<1> QED
  BY <1>4, <1>5, <1>6, <1>7, <1>8 DEF Datos

(* What thread_send leaves in the queues. *)
Agregado(n, op) ==
  /\ \A m \in Nodos : EnCola(m) \subseteq EnCola(m)' /\ EnCola(m)' \subseteq EnCola(m) \cup (IF m = n THEN {op} ELSE {})
  /\ n \in manejador => op \in EnCola(n)'
  /\ \A S : Esperan(S)' = Esperan(S) + (IF n \in manejador /\ op \in S THEN 1 ELSE 0)

LEMMA Encolado ==
  ASSUME TypeOK, NEW n \in Nodos, NEW op, Encolar(n, op)
  PROVE  Agregado(n, op)
<1>1. CASE n \in manejador
  <2>1. Len(cola[n]) < 2 /\ cola' = [cola EXCEPT ![n] = Append(@, op)]
    BY <1>1 DEF Encolar
  <2>2. /\ EnCola(n)' = EnCola(n) \cup {op}
        /\ \A m \in Nodos \ {n} : EnCola(m)' = EnCola(m)
        /\ \A S : Esperan(S)' = Esperan(S) + (IF op \in S THEN 1 ELSE 0)
    BY <2>1, ColaAgrega
  <2> QED
    BY <1>1, <2>2 DEF Agregado
<1>2. CASE n \notin manejador
  <2>1. cola' = cola
    BY <1>2 DEF Encolar
  <2>2. \A S : Esperan(S)' = Esperan(S) + 0
    BY <2>1, ColaIgual, EsperanEs
  <2> QED
    BY <1>2, <2>1, <2>2, ColaIgual DEF Agregado
<1> QED
  BY <1>1, <1>2

LEMMA EncoladoManejador ==
  ASSUME ConManejador, TypeOK, NEW n \in Nodos, NEW op, Encolar(n, op), lista' = lista, manejador' = manejador
  PROVE  ConManejador'
<1>1. \A m \in Nodos \ manejador : cola'[m] = cola[m]
  <2>1. DOMAIN cola = Nodos
    BY DEF TypeOK, TipoColas
  <2> QED
    BY <2>1 DEF Encolar
<1> QED
  BY <1>1 DEF ConManejador

LEMMA CopiarEscribeDatos ==
  ASSUME IInv, IInv', Datos, CopiarEscribe
  PROVE  Datos'
<1>1. PICK f, bl, b, c, n, num, v, z, g, op :
        /\ f = DeOrden /\ bl = f.bloques /\ b = orden.b /\ n = orden.nodo /\ num = orden.num
        /\ c = (IF bl[b][1] # SinCopia THEN 2 ELSE 1)
        /\ v = [nodo |-> n, num |-> num] /\ z = [bl EXCEPT ![b][c] = v]
        /\ g = [f EXCEPT !.bloques = z] /\ op = OpCopia(num, orden.dato)
  OBVIOUS
<1>2. /\ orden.tipo = "copia" /\ orden.paso = 2 /\ orden' = SinOrden
      /\ Encolar(n, op)
      /\ archivos' = (archivos \ {f}) \cup {g}
      /\ espacio' = [espacio EXCEPT ![n] = Fija(espacio[n], num)]
      /\ hist' = hist \cup SiPerdio(n) \cup (IF num \in espacio[n].ocupados THEN {"carrera"} ELSE {})
      /\ fs' = fs /\ lista' = lista /\ conexion' = conexion /\ manejador' = manejador /\ disco' = disco
      /\ hilo' = hilo /\ cpmut' = cpmut /\ bsent' = bsent /\ suenio' = suenio
      /\ mapas' = mapas
  BY <1>1 DEF CopiarEscribe, Cambia, nodoVars, subidaVars, mapaVars
<1>3. /\ f \in archivos /\ f.id = orden.id /\ orden \in TipoCopiar /\ n \in lista
      /\ b \in DOMAIN bl /\ FaltaUna(bl[b], n)
  BY <1>1, <1>2, PartesDe, DeOrdenEs
<1>4. n \in Nodos /\ num \in Bits(n) /\ num \in Bits(n) \cup {-1} /\ orden.dato \in Dato
  <2>1. num \in Bits(n)
    BY <1>1, <1>2, PartesDe DEF TypeOK, TipoOrden
  <2> QED
    BY <1>1, <1>3, <2>1 DEF TipoCopiar
<1>5. v \in TipoCopia /\ v # SinCopia /\ v.nodo = n /\ v.num = num
  BY <1>1, <1>4, SitioEs
<1>6. bl \in TipoBloques /\ f \in TipoArchivo
  BY <1>1, <1>3, PartesDe, TipoArchivoEs
<1>7. c \in Par /\ bl[b][c] = SinCopia
  <2>1. bl[b] \in TipoCopia \X TipoCopia
    BY <1>3, <1>6, TipoParEs
  <2>2. bl[b][1] # SinCopia => bl[b][2] = SinCopia
    BY <1>3, <2>1, FaltaUnaEs
  <2> QED
    BY <1>1, <2>2 DEF Par
<1>8. z \in TipoBloques
  <2>1. z = [bl EXCEPT ![b][c] = v]
    BY <1>1
  <2> QED
    BY ONLY <1>3, <1>5, <1>6, <1>7, <2>1, BloquesCambian
<1>9. g.id = f.id /\ g.bloques = z
  BY <1>1, <1>6, <1>8, ArchivoCambia
<1>10. PICK p : p = [id |-> f.id, b |-> b, c |-> c, en |-> v]
  OBVIOUS
<1>11. Puestas' \subseteq Puestas \cup {p}
  <2>1. f.bloques = bl /\ g.bloques = [bl EXCEPT ![b][c] = v] /\ f.id = g.id
    BY <1>1, <1>9
  <2>2. CopiasDe(g) = CopiasDe(f) \cup {[id |-> f.id, b |-> b, c |-> c, en |-> v]}
    BY ONLY <1>3, <1>5, <1>6, <1>7, <2>1, CopiaPuesta
  <2>3. Puestas' = (Puestas \ CopiasDe(f)) \cup CopiasDe(g) /\ CopiasDe(f) \subseteq Puestas
    BY <1>2, <1>3, PartesDe, PuestasCambian
  <2> QED
    BY <1>10, <2>2, <2>3
<1>12. p.id = orden.id /\ p.b = orden.b /\ p.en.nodo = n /\ p.en.num = num
  BY <1>1, <1>3, <1>5, <1>10
<1>13. op \in TipoOp /\ op.tipo = "manda" /\ op.num = num /\ op.sub = 0 /\ op.dato = orden.dato
  BY <1>1, <1>4, BitsEs DEF OpCopia, TipoOp
<1>14. op \in Escriben /\ op \notin DeSubida /\ op \notin Leen
  BY <1>13 DEF Escriben, DeSubida, Leen
<1>15. Agregado(n, op)
  BY <1>2, <1>4, PartesDe, Encolado
<1>16. /\ \A m \in Nodos : EnCola(m)' \cap DeSubida \subseteq EnCola(m) /\ EnCola(m)' \cap Leen \subseteq EnCola(m)
       /\ Esperan(DeSubida)' = Esperan(DeSubida)
  <2>1. Esperan(DeSubida)' = Esperan(DeSubida) + 0 /\ Esperan(DeSubida) \in Nat
    BY <1>14, <1>15, EsperanEs DEF Agregado
  <2> QED
    BY <1>14, <1>15, <2>1 DEF Agregado
<1>17. hist \subseteq hist' /\ (Limpia' => Limpia /\ num \notin espacio[n].ocupados /\ n \in manejador)
  <2>1. hist \subseteq hist'
    BY <1>2
  <2>2. Limpia' => "perdio" \notin hist' /\ "carrera" \notin hist'
    BY DEF Limpia, EnRegla
  <2> QED
    BY <1>2, <2>1, <2>2, ReglasQuedan DEF SiPerdio, Activos
<1>18. MismasSubidas /\ orden'.tipo = "no"
  BY <1>2, SubidasIguales DEF SinOrden
<1>19. \A y \in archivos' : \E x \in archivos : x.id = y.id
  BY <1>2, <1>3, <1>9
<1>20. ConManejador' /\ Memoria' /\ Envios' /\ Atrasos'
  <2>1. ConManejador'
    BY <1>2, <1>4, PartesDe, DatosDe, EncoladoManejador
  <2>2. Memoria' /\ Envios'
    BY <1>2, <1>17, <1>18, PartesDe, DatosDe, MemoriaQueda, EnviosQuedan
  <2>3. Atrasos'
    BY <1>2, <1>16, <1>17, <1>18, <1>19, PartesDe, DatosDe, AtrasosQuedan
  <2> QED
    BY <2>1, <2>2, <2>3
<1>21. Leida' /\ Recuento' /\ Despierto' /\ Bajada' /\ CaidaExplicada'
  <2>1. Leida' /\ CaidaExplicada'
    BY <1>2, <1>17, <1>18, DatosDe, LeidaQueda, CaidaQueda
  <2>2. Recuento'
    BY <1>2, <1>16, <1>17, <1>18, DatosDe, RecuentoQueda
  <2>3. Despierto'
    BY <1>2, <1>17, <1>18, DatosDe, DespiertoQueda
  <2>4. Bajada'
    BY <1>2, <1>16, <1>17, <1>18, DatosDe, OtraOrden
  <2> QED
    BY <2>1, <2>2, <2>3, <2>4
<1>22. Holgura'
  <2>1. PICK r : r = Fija(espacio[n], num)
    OBVIOUS
  <2>2. r.libres = espacio[n].libres - 1
    BY <1>4, <2>1, PartesDe, FijaEs
  <2>3. espacio' = [espacio EXCEPT ![n] = r] /\ DOMAIN espacio = Nodos
    BY <1>2, <2>1, PartesDe DEF TypeOK, TipoEspacios
  <2>4. espacio'[n].libres = espacio[n].libres - 1 /\ \A m \in Nodos \ {n} : espacio'[m].libres = espacio[m].libres
    BY <1>4, <2>2, <2>3
  <2>5. TypeOK' /\ Activos' = Activos
    BY <1>2 DEF IInv, Activos
  <2>6. BloquesLibres' \in Int /\ BloquesLibres' <= BloquesLibres
    BY <1>4, <2>4, <2>5, PartesDe, UnoMenos
  <2> QED
    BY <1>2, <1>17, <1>18, <2>6, PartesDe, DatosDe, HolguraQueda
<1>23. Escrituras'
  <2> SUFFICES ASSUME Limpia', NEW m \in Nodos, NEW o \in EnCola(m)' \cap Escriben, NEW q \in Puestas',
                      EsSitio(q, m, o)
               PROVE  EsDe(o, q)
    BY <1>18 DEF Escrituras, Escriben, EsSitio, EsDe
  <2>1. q.en = [nodo |-> m, num |-> o.num]
    BY DEF EsSitio
  <2>2. q.en.nodo = m /\ q.en.num = o.num
    BY <2>1
  <2>3. Limpia /\ num \notin espacio[n].ocupados
    BY <1>17
  <2>4. q \in Puestas => Reservada(q)
    BY <2>3, PartesDe, ReglasEs DEF Reservas
  <2>5. CASE o \in EnCola(m)
    <3>1. /\ \A x \in Puestas : EsSitio(x, m, o) => EsDe(o, x)
          /\ n = m => o.num \in espacio[m].ocupados
      BY <1>1, <1>2, <2>3, <2>5, DatosDe DEF Escrituras
    <3>2. q \in Puestas
      BY <1>11, <1>12, <2>2, <2>3, <3>1
    <3> QED
      BY <3>1, <3>2
  <2>6. CASE o = op /\ m = n
    <3>1. q \notin Puestas
      BY <1>13, <2>2, <2>3, <2>4, <2>6 DEF Reservada
    <3>2. q = p
      BY <1>11, <3>1
    <3>3. orden.dato = <<orden.id, orden.b>>
      BY <1>2, <2>3, DatosDe DEF Leida
    <3> QED
      BY <1>12, <1>13, <2>6, <3>2, <3>3 DEF EsDe
  <2>7. o \in EnCola(m) \/ (o = op /\ m = n)
    BY <1>15 DEF Agregado
  <2> QED
    BY <2>5, <2>6, <2>7
<1>24. Escritas'
  <2> SUFFICES ASSUME Limpia', NEW q \in Puestas'
               PROVE  EnDisco(q)' \/ EnEspera(q)' \/ EnMano(q)'
    BY DEF Escritas
  <2>1. Limpia /\ n \in manejador
    BY <1>17
  <2>2. CASE q \in Puestas
    <3>1. EnDisco(q) \/ EnEspera(q) \/ EnMano(q)
      BY <2>1, <2>2, DatosDe DEF Escritas
    <3>2. q.en.nodo \in Nodos
      <4>1. Reservada(q)
        BY <2>1, <2>2, PartesDe, ReglasEs DEF Reservas
      <4> QED
        BY <4>1, PartesDe DEF Reservada, TypeOK, TipoNodos
    <3>3. EnDisco(q) => EnDisco(q)'
      BY <1>2 DEF EnDisco
    <3>4. EnMano(q) => EnMano(q)'
      BY <1>2 DEF EnMano
    <3>5. EnEspera(q) => EnEspera(q)'
      <4>1. EnCola(q.en.nodo) \subseteq EnCola(q.en.nodo)'
        BY <1>15, <3>2 DEF Agregado
      <4> QED
        BY <4>1 DEF EnEspera, Escriben
    <3> QED
      BY <3>1, <3>3, <3>4, <3>5
  <2>3. CASE q = p
    <3>1. op \in EnCola(n)'
      BY <1>15, <2>1 DEF Agregado
    <3> QED
      BY <1>12, <1>13, <1>14, <2>3, <3>1 DEF EnEspera, Escriben
  <2> QED
    BY <1>11, <2>2, <2>3
<1> QED
  BY <1>20, <1>21, <1>22, <1>23, <1>24 DEF Datos

LEMMA BajarDatos ==
  ASSUME IInv, Datos, NEW f \in archivos, Bajar(f)
  PROVE  Datos'
<1>1. /\ Ordenar
      /\ mapas' = [mapas EXCEPT ![InodoDeBlocks] = Truncado(IF blocks = 0 THEN <<>> ELSE @, Len(f.bloques))]
      /\ orden' = [tipo |-> "baja", paso |-> 1, id |-> f.id, ino |-> InodoDeBlocks,
                   bloques |-> f.bloques, current |-> 0]
      /\ hist' = (IF cpmut # Nadie THEN hist \cup {"carrera"} ELSE hist)
      /\ fs' = fs /\ lista' = lista /\ conexion' = conexion /\ manejador' = manejador
      /\ espacio' = espacio /\ disco' = disco /\ archivos' = archivos /\ hilo' = hilo
      /\ cpmut' = cpmut /\ bsent' = bsent /\ suenio' = suenio /\ cola' = cola
  BY DEF Bajar, nodoVars, subidaVars
<1>2. TypeOK /\ Exclusion /\ Nombres
  BY PartesDe
<1>3. orden = SinOrden /\ orden.tipo = "no"
  BY <1>1, <1>2, OrdenarEs DEF SinOrden
<1>4. PICK ino \in Inodos : ino = InodoDeBlocks
  BY <1>2, <1>3, InodoEs
<1>5. f.id \in Nat /\ f.bloques \in TipoBloques /\ Len(f.bloques) \in Nat
  BY <1>2, TipoArchivoEs DEF TipoBloques
<1>6. /\ orden'.tipo = "baja" /\ orden'.paso = 1 /\ orden'.id = f.id /\ orden'.ino = ino
      /\ orden'.bloques = f.bloques /\ orden'.current = 0
  BY <1>1, <1>4
<1>7. hist \subseteq hist' /\ (SinCarrera' => SinCarrera /\ cpmut = Nadie) /\ (Limpia' => SinCarrera')
  <2>1. hist \subseteq hist'
    BY <1>1
  <2>2. SinCarrera' => "carrera" \notin hist'
    BY DEF SinCarrera, EnRegla
  <2>3. Limpia' => SinCarrera'
    BY DEF Limpia, SinCarrera, EnRegla
  <2> QED
    BY <1>1, <2>1, <2>2, <2>3, ReglasQuedan
<1>8. MismasSubidas /\ Puestas' = Puestas
  BY <1>1, SubidasIguales, PuestasIguales
<1>9. \A m \in Nodos : EnCola(m)' = EnCola(m) /\ \A S : Esperan(S)' = Esperan(S)
  BY <1>1, ColaIgual
<1>10. Len(mapas'[ino]) = Len(f.bloques)
  <2>1. mapas[ino] \in Seq(Dato) /\ mapas \in [Inodos -> Seq(Dato)]
    BY <1>2 DEF TypeOK, TipoMapas
  <2>2. PICK s \in Seq(Dato) : s = IF blocks = 0 THEN <<>> ELSE mapas[ino]
    <3>1. <<>> \in Seq(Dato)
      OBVIOUS
    <3>2. (IF blocks = 0 THEN <<>> ELSE mapas[ino]) \in Seq(Dato)
      BY <2>1, <3>1, Zenon
    <3> QED
      BY <3>2, Zenon
  <2>3. PICK z : z = Truncado(s, Len(f.bloques))
    OBVIOUS
  <2>4. Len(z) = Len(f.bloques)
    BY <1>5, <2>2, <2>3, TruncadoEs
  <2>5. mapas' = [mapas EXCEPT ![ino] = z]
    <3>1. mapas' = [mapas EXCEPT ![ino] = Truncado(IF blocks = 0 THEN <<>> ELSE mapas[ino], Len(f.bloques))]
      BY <1>1, <1>4, Zenon
    <3> QED
      BY <2>2, <2>3, <3>1, Zenon
  <2> QED
    BY <2>1, <2>4, <2>5
<1>11. Memoria'
  <2> SUFFICES ASSUME SinCarrera'
      PROVE  /\ cpmut' = Nadie /\ Len(mapas'[orden'.ino]) = Len(orden'.bloques)
             /\ \A t \in Hilos : ~ Mapeada(t)'
    BY DEF Memoria
  <2>1. cpmut = Nadie
    BY <1>7
  <2>2. \A t \in Hilos : ~ Mapeada(t)
    BY <1>2, <2>1, Constantes DEF Exclusion, Excluye
  <2> QED
    BY <1>1, <1>6, <1>8, <1>10, <2>1, <2>2 DEF MismasSubidas, MismaSubida
<1>12. Envios' /\ Atrasos' /\ Escritas' /\ Recuento' /\ ConManejador' /\ Escrituras' /\ Leida' /\ Despierto' /\ CaidaExplicada'
  <2>1. ConManejador' /\ Leida' /\ Despierto' /\ CaidaExplicada' /\ Envios'
    BY <1>1, <1>2, <1>3, <1>6, <1>7, <1>8, DatosDe, ManejadorQueda, LeidaQueda, DespiertoQueda, CaidaQueda, EnviosQuedan
  <2>2. Escrituras'
    BY <1>1, <1>6, <1>7, <1>8, <1>9, DatosDe, EscriturasQuedan
  <2>3. Escritas'
    BY <1>1, <1>2, <1>7, <1>8, <1>9, DatosDe, EscritasQuedan
  <2>4. Atrasos'
    BY <1>1, <1>2, <1>7, <1>8, <1>9, DatosDe, AtrasosQuedan
  <2>5. Recuento'
    <3>1. Esperan(DeSubida)' = Esperan(DeSubida)
      BY <1>1, ColaIgual
    <3> QED
      BY <1>1, <1>7, <1>8, <3>1, DatosDe, RecuentoQueda
  <2> QED
    BY <2>1, <2>2, <2>3, <2>4, <2>5
<1>13. Holgura'
  <2>1. BloquesLibres' = BloquesLibres /\ BloquesLibres \in Int
    BY <1>1, <1>2, LibresIguales, LibresEnteros DEF Activos
  <2> QED
    BY <1>1, <1>2, <1>7, <1>8, <2>1, DatosDe, HolguraQueda
<1>14. Bajada'
  <2>1. SinCarrera' => NadaPedido' /\ Esperan(Leen)' = 0
    <3>1. SinCarrera' => NadaPedido
      BY <1>3, <1>7, DatosDe DEF Bajada
    <3>2. SinCarrera' => Esperan(Leen) = 0
      BY <3>1, EsperanEs DEF NadaPedido
    <3>3. Esperan(Leen)' = Esperan(Leen)
      BY <1>1, ColaIgual
    <3>4. NadaPedido => NadaPedido'
      BY <1>9 DEF NadaPedido
    <3> QED
      BY <3>1, <3>2, <3>3, <3>4
  <2>2. DeArchivo'
    BY <1>1, <1>6 DEF DeArchivo
  <2>3. SinCarrera' => Pedidos'
    BY <1>6, <2>1 DEF Pedidos, NadaPedido
  <2>4. Limpia' => EnSuSitio'
    <3>1. \A b \in 1 .. orden'.paso - 1 : FALSE
      BY <1>6
    <3> QED
      BY <1>7, <2>1, <3>1 DEF EnSuSitio, NadaPedido
  <2>5. orden'.paso <= Len(orden'.bloques) + 1
    BY <1>5, <1>6
  <2> QED
    BY <1>6, <2>2, <2>3, <2>4, <2>5 DEF Bajada
<1> QED
  BY <1>11, <1>12, <1>13, <1>14 DEF Datos

(* What receive_block asks for: a copy of the block, on a node that answers *)
(* and has nothing to do.                                                   *)
LEMMA BajarPideEs ==
  ASSUME IInv, BajarPide
  PROVE  \E c \in Par, n \in Nodos, num \in Int :
           /\ orden.bloques[orden.paso][c] = [nodo |-> n, num |-> num] /\ num \in Bits(n) \cup {-1}
           /\ n \in manejador /\ n \in manejador' /\ cola[n] = <<>>
           /\ cola' = [cola EXCEPT ![n] = Append(@, OpRecibe(num))]
           /\ \E ns : Ping(ns)
<1>1. /\ orden.tipo = "baja" /\ orden.paso <= Len(orden.bloques) /\ conexion' = conexion
  BY DEF BajarPide
<1>2. PICK par : par = orden.bloques[orden.paso]
  OBVIOUS
<1>3. PICK c \in Par : /\ par[c].nodo \in Activos \cap lista
                       /\ Ping({par[d].nodo : d \in c .. 2} \cap lista)
                       /\ cola' = [cola EXCEPT ![par[c].nodo] = Append(@, OpRecibe(par[c].num))]
  <2> DEFINE bl == orden.bloques[orden.paso]
             activas == {d \in Par : bl[d].nodo \in Activos \cap lista}
             x == IF 2 \in activas THEN 2 ELSE 1
  <2>1. /\ activas # {}
        /\ Ping({bl[d].nodo : d \in x .. 2} \cap lista)
        /\ cola' = [cola EXCEPT ![bl[x].nodo] = Append(@, OpRecibe(bl[x].num))]
    BY Zenon DEF BajarPide
  <2>2. x = (IF 2 \in activas THEN 2 ELSE 1) /\ activas \subseteq Par
    OBVIOUS
  <2>3. activas # {}
    BY <2>1
  <2>4. \A d \in activas : d \in Par /\ bl[d].nodo \in Activos \cap lista
    OBVIOUS
  <2> HIDE DEF x, activas
  <2>5. x \in activas
    <3>1. CASE 2 \in activas
      BY <2>2, <3>1, Zenon
    <3>2. CASE 2 \notin activas
      <4>1. PICK d : d \in activas
        BY <2>3, Zenon
      <4>2. d = 1 \/ d = 2
        BY <2>4, <4>1 DEF Par
      <4>3. d = 1
        BY <3>2, <4>1, <4>2, Zenon
      <4> QED
        BY <2>2, <3>2, <4>1, <4>3, Zenon
    <3> QED
      BY <3>1, <3>2
  <2>6. x \in Par /\ bl[x].nodo \in Activos \cap lista
    BY <2>4, <2>5
  <2> QED
    BY <1>2, <2>1, <2>6, ZenonT(60)
<1>4. orden \in TipoBajar /\ orden.paso \in Nat \ {0} /\ orden.bloques \in TipoBloques
  BY <1>1, PartesDe DEF TypeOK, TipoOrden, TipoCopiar, TipoBajar, SinOrden
<1>5. par[c] \in TipoCopia
  <2>1. PICK bl \in TipoBloques : bl = orden.bloques
    BY <1>4
  <2>2. orden.paso \in DOMAIN bl
    BY <1>1, <1>4, <2>1 DEF TipoBloques
  <2> QED
    BY <1>2, <2>1, <2>2, TipoParEs
<1>6. PICK n \in Nodos, num \in Int : /\ n = par[c].nodo /\ num = par[c].num /\ num \in Bits(n) \cup {-1}
                                     /\ par[c] = [nodo |-> n, num |-> num] /\ n \in lista /\ n \in Activos
  <2>1. par[c].nodo \in Nodos
    BY <1>3, PartesDe DEF TypeOK, TipoNodos
  <2>2. par[c] # SinCopia
    BY <1>5, <2>1, TipoCopiaEs, Constantes
  <2>3. par[c].num \in Bits(par[c].nodo) \cup {-1} /\ par[c] = [nodo |-> par[c].nodo, num |-> par[c].num]
    BY <1>5, <2>2, TipoCopiaEs
  <2>4. par[c].num \in Int
    BY <2>1, <2>3, BitsEs
  <2> QED
    BY <1>3, <2>1, <2>3, <2>4
<1>7. PICK ns : ns = {par[d].nodo : d \in c .. 2} \cap lista
  OBVIOUS
<1>8. Ping(ns) /\ n \in ns /\ n \in manejador
  BY <1>3, <1>6, <1>7 DEF Par, Activos
<1>9. cola[n] = <<>> /\ n \in manejador'
  BY <1>1, <1>6, <1>8, PingEs DEF Activos
<1> QED
  BY <1>2, <1>3, <1>6, <1>8, <1>9

LEMMA BajarPideDatos ==
  ASSUME IInv, Datos, BajarPide
  PROVE  Datos'
<1>1. /\ orden.tipo = "baja" /\ orden.paso <= Len(orden.bloques)
      /\ orden' = [orden EXCEPT !.paso = @ + 1]
      /\ fs' = fs /\ lista' = lista /\ conexion' = conexion
      /\ espacio' = espacio /\ disco' = disco /\ archivos' = archivos /\ hilo' = hilo
      /\ cpmut' = cpmut /\ bsent' = bsent /\ suenio' = suenio /\ mapas' = mapas /\ hist' = hist
  BY DEF BajarPide, subidaVars, mapaVars
<1>2. PICK c \in Par, n \in Nodos, num \in Int :
           /\ orden.bloques[orden.paso][c] = [nodo |-> n, num |-> num] /\ num \in Bits(n) \cup {-1}
           /\ n \in manejador /\ n \in manejador' /\ cola[n] = <<>>
           /\ cola' = [cola EXCEPT ![n] = Append(@, OpRecibe(num))]
           /\ \E ns : Ping(ns)
  BY BajarPideEs
<1>3. PICK op : op = OpRecibe(num)
  OBVIOUS
<1>4. op \in TipoOp /\ op.tipo = "recibe" /\ op.num = num /\ op.sub = 0
  BY <1>3 DEF OpRecibe, TipoOp, Cero, Dato
<1>5. op \in Leen /\ op \notin Escriben /\ op \notin DeSubida
  BY <1>4 DEF Leen, Escriben, DeSubida
<1>6. Agregado(n, op)
  <2>1. Len(cola[n]) < 2
    BY <1>2
  <2>2. Encolar(n, op)
    BY <1>2, <1>3, <2>1 DEF Encolar
  <2> QED
    BY <2>2, PartesDe, Encolado
<1>7. /\ \A m \in Nodos : /\ EnCola(m)' \cap DeSubida \subseteq EnCola(m) /\ EnCola(m)' \cap Escriben \subseteq EnCola(m)
                          /\ EnCola(m) \cap Escriben \subseteq EnCola(m)'
      /\ \A m \in Nodos : \A o \in EnCola(m)' \cap Leen : o \in EnCola(m) \cap Leen \/ (m = n /\ o = op)
      /\ \A m \in Nodos : EnCola(m) \subseteq EnCola(m)'
      /\ op \in EnCola(n)'
  BY <1>2, <1>5, <1>6 DEF Agregado
<1>8. Esperan(DeSubida)' = Esperan(DeSubida) /\ Esperan(Leen)' = Esperan(Leen) + 1
  <2>1. Esperan(DeSubida)' = Esperan(DeSubida) + 0 /\ Esperan(Leen)' = Esperan(Leen) + 1
    BY <1>2, <1>5, <1>6 DEF Agregado
  <2> QED
    BY <2>1, EsperanEs
<1>9. /\ orden \in TipoBajar /\ orden.paso \in Nat \ {0} /\ orden.current \in Nat
      /\ orden.bloques \in TipoBloques /\ Len(orden.bloques) \in Nat
  BY <1>1, PartesDe DEF TypeOK, TipoOrden, TipoCopiar, TipoBajar, TipoBloques, SinOrden
<1>10. /\ orden'.tipo = "baja" /\ orden'.id = orden.id /\ orden'.ino = orden.ino
       /\ orden'.bloques = orden.bloques /\ orden'.current = orden.current /\ orden'.paso = orden.paso + 1
  <2>1. PICK paso : paso = orden.paso + 1
    OBVIOUS
  <2>2. orden' = [orden EXCEPT !.paso = paso]
    BY <1>1, <2>1
  <2>3. orden'.paso = paso
    BY <1>9, <2>2 DEF TipoBajar
  <2> QED
    BY <1>1, <1>9, <2>1, <2>2, <2>3 DEF TipoBajar
<1>11. MismasSubidas /\ Puestas' = Puestas /\ hist \subseteq hist' /\ (SinCarrera' => SinCarrera) /\ (Limpia' => Limpia)
  BY <1>1, SubidasIguales, PuestasIguales, ReglasQuedan
<1>12. Memoria'
  BY <1>1, <1>10, <1>11, DatosDe DEF Memoria, MismasSubidas, MismaSubida, Enteros
<1>13. ConManejador'
  <2>1. \A m \in Nodos \ {n} : cola'[m] = cola[m]
    BY <1>2, PartesDe DEF TypeOK, TipoColas
  <2>2. manejador' \subseteq manejador /\ \A m \in manejador \ manejador' : cola[m] = <<>>
    BY <1>2 DEF Ping
  <2> QED
    BY <1>1, <1>2, <2>1, <2>2, DatosDe DEF ConManejador
<1>14. Envios' /\ Leida' /\ CaidaExplicada' /\ Recuento'
  BY <1>1, <1>8, <1>10, <1>11, PartesDe, DatosDe, EnviosQuedan, LeidaQueda, CaidaQueda, RecuentoQueda
<1>15. Atrasos' /\ Escrituras' /\ Escritas'
  <2>1. Atrasos'
    BY <1>1, <1>7, <1>11, PartesDe, DatosDe, AtrasosQuedan
  <2>2. Escrituras'
    BY <1>7, <1>10, <1>11, DatosDe, EscriturasQuedan
  <2>3. Escritas'
    BY <1>1, <1>7, <1>11, PartesDe, DatosDe, EscritasQuedan
  <2> QED
    BY <2>1, <2>2, <2>3
<1>16. Despierto'
  <2>1. \A t \in Hilos : (PorSubida(t)' <=> PorSubida(t)) /\ (PorBajada(t)' <=> PorBajada(t))
    BY <1>1, <1>10 DEF PorSubida, PorBajada
  <2> QED
    BY <1>1, <1>11, <2>1, DatosDe DEF Despierto
<1>17. Holgura'
  <2>1. Activos' = Activos
    BY <1>1, <1>2, PingEs
  <2>2. BloquesLibres' = BloquesLibres /\ BloquesLibres \in Int
    BY <1>1, <2>1, PartesDe, LibresIguales, LibresEnteros
  <2> QED
    BY <1>1, <1>11, <2>2, PartesDe, DatosDe, HolguraQueda
<1>18. DeArchivo
  BY <1>1, DatosDe DEF Bajada
<1>19. EsPedido(n, op, orden.paso)
  BY <1>2, <1>4 DEF EsPedido
<1>20. \A m, o, b : EsPedido(m, o, b)' <=> EsPedido(m, o, b)
  BY <1>10 DEF EsPedido
<1>21. orden.paso \in DOMAIN orden.bloques
  <2>1. PICK bl \in TipoBloques : bl = orden.bloques
    BY <1>9
  <2>2. Len(bl) \in Nat /\ DOMAIN bl = 1 .. Len(bl)
    BY DEF TipoBloques
  <2> QED
    BY <1>1, <1>9, <2>1, <2>2
<1>22. SinCarrera' => Pedidos'
  <2> SUFFICES ASSUME SinCarrera' PROVE Pedidos'
    OBVIOUS
  <2>1. Pedidos
    BY <1>1, <1>11, DatosDe DEF Bajada
  <2>2. orden'.current + Esperan(Leen)' <= orden'.paso - 1
    <3>1. orden.current + Esperan(Leen) <= orden.paso - 1
      BY <2>1 DEF Pedidos
    <3> QED
      BY <1>8, <1>9, <1>10, <3>1, EsperanEs
  <2>3. ASSUME NEW m \in Nodos, NEW o \in EnCola(m)' \cap Leen
        PROVE  \E b \in DOMAIN orden'.bloques : EsPedido(m, o, b)'
    <3>1. CASE o \in EnCola(m) \cap Leen
      BY <1>10, <1>20, <2>1, <3>1 DEF Pedidos
    <3>2. CASE m = n /\ o = op
      BY <1>10, <1>19, <1>20, <1>21, <3>2
    <3> QED
      BY <1>7, <2>3, <3>1, <3>2
  <2> QED
    BY <2>2, <2>3 DEF Pedidos, Leen
<1>23. Limpia' => EnSuSitio'
  <2> SUFFICES ASSUME Limpia' PROVE EnSuSitio'
    OBVIOUS
  <2>1. Limpia /\ EnSuSitio
    BY <1>1, <1>11, DatosDe DEF Bajada
  <2>2. PICK f \in archivos : f.id = orden.id /\ f.bloques = orden.bloques
    BY <1>18 DEF DeArchivo
  <2>3. ASSUME NEW m \in Nodos, NEW o \in EnCola(m)' \cap Leen, NEW b \in DOMAIN orden'.bloques, EsPedido(m, o, b)'
        PROVE  disco'[m][o.num] = <<orden'.id, b>>
    <3>1. CASE o \in EnCola(m) \cap Leen
      BY <1>1, <1>10, <1>20, <2>1, <2>3, <3>1 DEF EnSuSitio
    <3>2. CASE m = n /\ o = op
      <4>1. PICK e \in Par : orden.bloques[b][e] = [nodo |-> n, num |-> num]
        BY <1>4, <1>20, <2>3, <3>2 DEF EsPedido
      <4>2. b \in DOMAIN f.bloques
        BY <1>10, <2>2
      <4>3. PICK k : k = f.bloques[b][e]
        OBVIOUS
      <4>4. k = [nodo |-> n, num |-> num]
        BY <2>2, <4>1, <4>3
      <4>5. k # SinCopia /\ k.nodo = n /\ k.num = num
        BY <1>2, <4>4, SitioEs
      <4>6. cola[k.nodo] = <<>> /\ Escritas
        BY <1>2, <4>5, DatosDe
      <4>7. disco[k.nodo][k.num] = <<f.id, b>>
        BY ONLY IInv, <2>1, <4>2, <4>3, <4>5, <4>6, EnSuDisco
      <4> QED
        BY <1>1, <1>4, <1>10, <2>2, <3>2, <4>5, <4>7
    <3> QED
      BY <1>7, <2>3, <3>1, <3>2
  <2>4. ASSUME NEW b \in 1 .. orden'.paso - 1 PROVE Recibido(b)'
    <3>1. CASE b = orden.paso
      BY <1>5, <1>7, <1>19, <1>20, <3>1 DEF Recibido, Leen
    <3>2. CASE b # orden.paso
      <4>1. b \in 1 .. orden.paso - 1
        BY <1>9, <1>10, <3>2
      <4>2. Recibido(b)
        BY <2>1, <4>1 DEF EnSuSitio
      <4>3. mapas[orden.ino][b] = <<orden.id, b>> => mapas'[orden'.ino][b] = <<orden'.id, b>>
        BY <1>1, <1>10
      <4>4. (\E m \in Nodos : \E o \in EnCola(m) \cap Leen : EsPedido(m, o, b))
            => (\E m \in Nodos : \E o \in EnCola(m)' \cap Leen : EsPedido(m, o, b)')
        BY <1>7, <1>20
      <4>5. orden.current + Esperan(Leen) < orden.paso - 1 => orden'.current + Esperan(Leen)' < orden'.paso - 1
        BY <1>8, <1>9, <1>10, EsperanEs
      <4> QED
        BY <4>2, <4>3, <4>4, <4>5 DEF Recibido, Leen
    <3> QED
      BY <3>1, <3>2
  <2> QED
    BY <2>3, <2>4 DEF EnSuSitio, Leen
<1>24. Bajada'
  <2>1. DeArchivo'
    BY <1>1, <1>10, <1>18 DEF DeArchivo
  <2>2. orden'.paso <= Len(orden'.bloques) + 1
    BY <1>1, <1>9, <1>10
  <2> QED
    BY <1>10, <1>22, <1>23, <2>1, <2>2 DEF Bajada
<1> QED
  BY <1>12, <1>13, <1>14, <1>15, <1>16, <1>17, <1>24 DEF Datos

LEMMA MandarDatos ==
  ASSUME IInv, Datos, NEW t \in Hilos, Mandar(t)
  PROVE  Datos'
<1>1. /\ hilo[t].pc = "manda" /\ hist' = hist \cup SiPerdio(hilo[t].envio.nodo)
      /\ Encolar(hilo[t].envio.nodo, hilo[t].envio.op)
      /\ hilo' = [hilo EXCEPT ![t].pc = "reparte", ![t].paso = @ + 1, ![t].envio = SinEnvio]
      /\ fs' = fs /\ lista' = lista /\ conexion' = conexion /\ manejador' = manejador
      /\ espacio' = espacio /\ disco' = disco /\ archivos' = archivos /\ orden' = orden
      /\ cpmut' = cpmut /\ bsent' = bsent /\ suenio' = suenio /\ mapas' = mapas
  BY DEF Mandar, nodoVars, subidaVars, mapaVars
<1>2. TypeOK /\ Exclusion /\ Nombres
  BY PartesDe
<1>3. PICK h : h = hilo[t]
  OBVIOUS
<1>4. h \in TipoHilo /\ h.envio # SinEnvio /\ hilo \in [Hilos -> TipoHilo] /\ Mapeada(t) /\ cpmut = t
  BY <1>1, <1>2, <1>3, TipoHiloEs DEF Exclusion, Excluye, TypeOK, TipoHilos, Mapeada
<1>5. h.envio \in [nodo : Nodos, op : TipoOp]
  BY <1>4 DEF TipoHilo, TipoEnvio
<1>6. PICK n \in Nodos, op \in TipoOp : n = h.envio.nodo /\ op = h.envio.op
  BY <1>5
<1>7. /\ hilo'[t].pc = "reparte" /\ hilo'[t].envio = SinEnvio /\ hilo'[t].id = h.id /\ hilo'[t].bloques = h.bloques
      /\ hilo'[t].ino = h.ino /\ hilo'[t].guardados = h.guardados /\ h.guardados \in Nat
      /\ \A u \in Hilos \ {t} : hilo'[u] = hilo[u]
  BY <1>1, <1>3, <1>4 DEF TipoHilo
<1>8. \A u \in Hilos : (Mapeada(u)' <=> Mapeada(u)) /\ (Mapeada(u) <=> u = t)
  BY <1>1, <1>2, <1>4, <1>7 DEF Mapeada, Exclusion, Excluye
<1>9. EsEnvio(h, n, op)
  BY <1>3, <1>4, <1>6, DatosDe DEF Envios
<1>10. PICK c \in Par : h.bloques[op.idx][c] = [nodo |-> n, num |-> op.num]
  BY <1>9 DEF EsEnvio
<1>11. op.tipo = "manda" /\ op.sub = h.id /\ op.idx \in DOMAIN h.bloques
  BY <1>9 DEF EsEnvio
<1>12. h.id # 0 /\ \A f \in archivos : f.id # h.id
  BY <1>1, <1>2, <1>3 DEF Nombres, Nombrado, EsLibre
<1>13. op \in Escriben /\ op \in DeSubida /\ op \notin Leen
  BY <1>11, <1>12 DEF Escriben, DeSubida, Leen
<1>14. Agregado(n, op)
  BY <1>1, <1>2, <1>3, <1>6, Encolado
<1>15. /\ \A m \in Nodos : /\ EnCola(m) \subseteq EnCola(m)' /\ EnCola(m)' \cap Leen = EnCola(m) \cap Leen
                           /\ \A o \in EnCola(m)' : o \in EnCola(m) \/ (m = n /\ o = op)
       /\ n \in manejador => op \in EnCola(n)'
       /\ Esperan(DeSubida)' = Esperan(DeSubida) \/ Esperan(DeSubida)' = Esperan(DeSubida) + 1
       /\ Esperan(Leen)' = Esperan(Leen)
  <2>1. Esperan(Leen)' = Esperan(Leen) + 0 /\ Esperan(DeSubida)' = Esperan(DeSubida) + (IF n \in manejador THEN 1 ELSE 0)
    BY <1>13, <1>14 DEF Agregado
  <2>2. Esperan(Leen) \in Nat /\ Esperan(DeSubida) \in Nat
    BY EsperanEs
  <2>3. \A m \in Nodos : EnCola(m)' \cap Leen = EnCola(m) \cap Leen
    BY <1>13, <1>14 DEF Agregado
  <2> QED
    BY <1>14, <2>1, <2>2, <2>3 DEF Agregado
<1>16. hist \subseteq hist' /\ (SinCarrera' => SinCarrera) /\ (Estable' => Estable) /\ (Limpia' => Limpia /\ n \in manejador)
  <2>1. Limpia' => "perdio" \notin hist'
    BY DEF Limpia, EnRegla
  <2> QED
    BY <1>1, <1>3, <1>6, <2>1, ReglasQuedan DEF SiPerdio, Activos
<1>17. Puestas' = Puestas
  <2>1. \A u \in Hilos : CopiasDe(hilo'[u]) = CopiasDe(hilo[u])
    BY <1>3, <1>7, CopiasIguales
  <2> QED
    BY <1>1, <2>1, PuestasIguales
<1>18. PICK x : x = [id |-> h.id, b |-> op.idx, c |-> c, en |-> h.bloques[op.idx][c]]
  OBVIOUS
<1>19. x \in Puestas /\ x.id = h.id /\ x.b = op.idx /\ x.en = [nodo |-> n, num |-> op.num]
  <2>1. PICK num \in Bits(n) \cup {-1} : num = op.num
    BY <1>2, <1>3, <1>4, <1>6 DEF TypeOK, TipoHilos
  <2>2. h.bloques[op.idx][c] # SinCopia
    BY <1>10, <2>1, SitioEs
  <2>3. PICK b \in DOMAIN hilo[t].bloques : b = op.idx
    BY <1>3, <1>11
  <2>4. x = [id |-> hilo[t].id, b |-> b, c |-> c, en |-> hilo[t].bloques[b][c]]
    BY <1>3, <1>18, <2>3
  <2>5. hilo[t].bloques[b][c] # SinCopia
    BY <1>3, <2>2, <2>3
  <2>6. x \in Puestas /\ x.id = hilo[t].id /\ x.b = b /\ x.en = hilo[t].bloques[b][c]
    BY ONLY <2>4, <2>5, CopiaDeHilo
  <2> QED
    BY <1>3, <1>10, <2>3, <2>6
<1>20. ConManejador' /\ Leida' /\ CaidaExplicada' /\ Despierto'
  <2>1. ConManejador'
    <3>1. Encolar(n, op)
      BY <1>1, <1>3, <1>6
    <3> QED
      BY <1>1, <1>2, <3>1, DatosDe, EncoladoManejador
  <2>2. Leida' /\ CaidaExplicada' /\ Despierto'
    BY <1>1, <1>16, DatosDe, LeidaQueda, CaidaQueda, DespiertoQueda
  <2> QED
    BY <2>1, <2>2
<1>21. Memoria'
  <2>1. Memoria
    BY DatosDe
  <2>2. \A u \in Hilos : Mapeada(u)' => hilo'[u].ino = hilo[u].ino /\ hilo'[u].id = hilo[u].id
                                       /\ hilo'[u].bloques = hilo[u].bloques
    BY <1>3, <1>7
  <2>3. SinCarrera' => SinCarrera
    BY <1>16
  <2> SUFFICES ASSUME SinCarrera'
      PROVE  /\ orden'.tipo = "baja" => cpmut' = Nadie /\ Len(mapas'[orden'.ino]) = Len(orden'.bloques)
             /\ \A u \in Hilos : Mapeada(u)' =>
                  mapas'[hilo'[u].ino] = Enteros(hilo'[u].id, Len(hilo'[u].bloques))
    BY DEF Memoria, Enteros
  <2> QED
    BY <1>1, <1>8, <2>1, <2>2, <2>3 DEF Memoria
<1>22. Envios'
  <2> SUFFICES ASSUME NEW u \in Hilos, hilo'[u].envio # SinEnvio
               PROVE  EsEnvio(hilo'[u], hilo'[u].envio.nodo, hilo'[u].envio.op)
    BY DEF Envios, EsEnvio
  <2>1. u # t /\ hilo'[u] = hilo[u]
    BY <1>7
  <2> QED
    BY <2>1, DatosDe DEF Envios
<1>23. Atrasos'
  <2> SUFFICES ASSUME NEW m \in Nodos, NEW o \in EnCola(m)', o \in DeSubida
               PROVE  Atrasada(o)'
    BY DEF Atrasos, DeSubida, Escriben
  <2>1. Atrasada(o) => Atrasada(o)'
    BY <1>1, <1>3, <1>4, <1>7, <1>16 DEF Atrasada
  <2>2. o \in EnCola(m) => Atrasada(o)
    BY DatosDe DEF Atrasos
  <2>3. Atrasada(op)'
    BY <1>1, <1>4, <1>7, <1>11, <1>12, Constantes DEF Atrasada
  <2> QED
    BY <1>15, <2>1, <2>2, <2>3
<1>24. Escrituras'
  <2> SUFFICES ASSUME Limpia', NEW m \in Nodos, NEW o \in EnCola(m)' \cap Escriben
               PROVE  /\ \A p \in Puestas' : EsSitio(p, m, o) => EsDe(o, p)
                      /\ orden'.tipo = "copia" /\ orden'.nodo = m => o.num \in espacio'[m].ocupados
    BY DEF Escrituras, Escriben, EsSitio, EsDe
  <2>1. Limpia
    BY <1>16
  <2>2. CASE o \in EnCola(m)
    BY <1>1, <1>17, <2>1, <2>2, DatosDe DEF Escrituras
  <2>3. CASE m = n /\ o = op
    <3>1. Reservada(x) /\ \A q \in Puestas : x.en = q.en => x = q
      BY <1>19, <2>1, PartesDe, ReglasEs DEF Reservas
    <3>2. op.num \in espacio[n].ocupados
      BY <1>19, <3>1 DEF Reservada
    <3>3. \A q \in Puestas : EsSitio(q, n, op) => q = x
      BY <1>19, <3>1 DEF EsSitio
    <3>4. EsDe(op, x)
      BY <1>11, <1>12, <1>19 DEF EsDe
    <3> QED
      BY <1>1, <1>17, <2>3, <3>2, <3>3, <3>4
  <2> QED
    BY <1>15, <2>2, <2>3
<1>25. Escritas'
  <2> SUFFICES ASSUME Limpia', NEW p \in Puestas'
               PROVE  EnDisco(p)' \/ EnEspera(p)' \/ EnMano(p)'
    BY DEF Escritas
  <2>1. Limpia /\ p \in Puestas /\ op \in EnCola(n)'
    BY <1>15, <1>16, <1>17
  <2>2. EnDisco(p) => EnDisco(p)'
    BY <1>1 DEF EnDisco
  <2>3. EnEspera(p) => EnEspera(p)'
    <3>1. p.en.nodo \in Nodos
      BY <1>2, <2>1, PuestaEs, TipoCopiaEs
    <3>2. EnCola(p.en.nodo) \subseteq EnCola(p.en.nodo)'
      BY <1>15, <3>1
    <3> QED
      BY <3>2 DEF EnEspera, Escriben
  <2>4. ASSUME EnMano(p) PROVE EnEspera(p)' \/ EnMano(p)'
    <3>1. PICK u \in Hilos : /\ hilo[u].envio # SinEnvio /\ hilo[u].envio.nodo = p.en.nodo
                             /\ hilo[u].envio.op.num = p.en.num /\ hilo[u].id = p.id
      BY <2>4 DEF EnMano
    <3>2. CASE u = t
      <4>1. p.en.nodo = n /\ p.en.num = op.num
        BY <1>3, <1>6, <3>1, <3>2
      <4> QED
        BY <1>13, <2>1, <4>1 DEF EnEspera, Escriben
    <3>3. CASE u # t
      <4>1. hilo'[u] = hilo[u]
        BY <1>7, <3>3
      <4> QED
        BY <3>1, <4>1 DEF EnMano
    <3> QED
      BY <3>2, <3>3
  <2> QED
    BY <2>1, <2>2, <2>3, <2>4, DatosDe DEF Escritas
<1>26. Recuento'
  <2> SUFFICES ASSUME SinCarrera', NEW u \in Hilos, Mapeada(u)'
               PROVE  Enviados' + Esperan(DeSubida)' + PorMandar(u)' <= hilo'[u].guardados
    BY DEF Recuento
  <2>1. u = t
    BY <1>8
  <2>2. Enviados + Esperan(DeSubida) + PorMandar(t) <= h.guardados
    BY <1>3, <1>4, <1>16, DatosDe DEF Recuento
  <2>3. PorMandar(t) = 1 /\ PorMandar(t)' = 0 /\ Enviados' = Enviados
    BY <1>1, <1>3, <1>4, <1>7 DEF PorMandar, Enviados
  <2>4. PICK a, e, g, k : a = Enviados /\ e = Esperan(DeSubida) /\ g = h.guardados /\ k = Esperan(DeSubida)'
    OBVIOUS
  <2>5. a \in Int /\ e \in Nat /\ g \in Nat /\ (k = e \/ k = e + 1) /\ a + e + 1 <= g
    BY <1>2, <1>7, <1>15, <2>2, <2>3, <2>4, EsperanEs DEF Enviados, TypeOK, TipoSubida
  <2>6. a + k + 0 <= g
    BY ONLY <2>5
  <2> QED
    BY <1>7, <2>1, <2>3, <2>4, <2>6
<1>27. Holgura'
  <2>1. BloquesLibres' = BloquesLibres
    BY <1>1, LibresIguales DEF Activos
  <2> QED
    BY <1>1, <1>3, <1>7, <1>8, <1>16, <2>1, DatosDe DEF Holgura
<1>28. Bajada'
  BY <1>1, <1>15, <1>16, DatosDe, BajadaSigue
<1> QED
  BY <1>20, <1>21, <1>22, <1>23, <1>24, <1>25, <1>26, <1>27, <1>28 DEF Datos

LEMMA SaltaDatos ==
  ASSUME IInv, Datos, NEW t \in Hilos, hilo[t].pc = "reparte", RepartirDeja, Activos' = Activos, ConManejador',
         NEW h, NEW L, NEW p, NEW b, EnUnPaso(t, h, L, p, b), Salta(t, h, b)
  PROVE  Datos'
<1>1. /\ hilo' = [hilo EXCEPT ![t].paso = @ + 1] /\ espacio' = espacio
      /\ fs' = fs /\ lista' = lista /\ disco' = disco /\ archivos' = archivos /\ orden' = orden /\ cpmut' = cpmut
      /\ bsent' = bsent /\ suenio' = suenio /\ cola' = cola /\ mapas' = mapas /\ hist' = hist
  BY DEF Salta, RepartirDeja
<1>2. hilo \in [Hilos -> TipoHilo]
  BY PartesDe DEF TypeOK, TipoHilos
<1>3. /\ hilo'[t].pc = hilo[t].pc /\ hilo'[t].envio = hilo[t].envio /\ hilo'[t].bloques = hilo[t].bloques
      /\ hilo'[t].id = hilo[t].id /\ hilo'[t].ino = hilo[t].ino /\ hilo'[t].guardados = hilo[t].guardados
      /\ \A u \in Hilos \ {t} : hilo'[u] = hilo[u]
  BY <1>1, <1>2 DEF TipoHilo
<1>4. MismasSubidas
  <2>1. MismaSubida(t)
    BY <1>3 DEF MismaSubida, Mapeada
  <2>2. \A u \in Hilos \ {t} : MismaSubida(u)
    BY <1>3 DEF MismaSubida, Mapeada
  <2> QED
    BY <1>1, <2>1, <2>2 DEF MismasSubidas
<1>5. Puestas' = Puestas
  <2>1. \A u \in Hilos : CopiasDe(hilo'[u]) = CopiasDe(hilo[u])
    BY <1>3, CopiasIguales
  <2> QED
    BY <1>1, <2>1, PuestasIguales
<1>6. Memoria' /\ Envios' /\ Atrasos' /\ Escritas' /\ Recuento'
  BY <1>1, <1>4, <1>5, Comunes
<1>7. Escrituras' /\ Leida' /\ Despierto' /\ CaidaExplicada'
  <2>1. \A m \in Nodos : EnCola(m)' \subseteq EnCola(m)
    BY <1>1, ColaIgual
  <2>2. Leida' /\ Despierto' /\ CaidaExplicada'
    BY <1>1, DatosDe, LeidaQueda, DespiertoQueda, CaidaQueda
  <2>3. Escrituras'
    BY <1>1, <1>5, <2>1, DatosDe, EscriturasQuedan
  <2> QED
    BY <2>2, <2>3
<1>8. Holgura'
  <2>1. BloquesLibres' = BloquesLibres /\ BloquesLibres \in Int
    BY <1>1, PartesDe, LibresIguales, LibresEnteros
  <2> QED
    BY <1>1, <1>4, <2>1, PartesDe, DatosDe, HolguraQueda
<1>9. Bajada'
  BY <1>1, DatosDe, BajadaQueda
<1> QED
  BY <1>6, <1>7, <1>8, <1>9 DEF Datos

LEMMA ColocaDatos ==
  ASSUME IInv, IInv', Datos, NEW t \in Hilos, hilo[t].pc = "reparte", RepartirDeja, Activos' = Activos, ConManejador',
         NEW h, NEW L, NEW p, NEW b, EnUnPaso(t, h, L, p, b),
         NEW n, NEW num, NEW v, NEW c, Coloca(t, h, b, n, num, v, c)
  PROVE  Datos'
<1>1. /\ n \in lista /\ n \in Activos /\ cola[n] = <<>> /\ espacio' = [espacio EXCEPT ![n] = Anota(Fija(@, num))]
      /\ fs' = fs /\ lista' = lista /\ disco' = disco /\ archivos' = archivos /\ orden' = orden /\ cpmut' = cpmut
      /\ bsent' = bsent /\ suenio' = suenio /\ cola' = cola /\ mapas' = mapas /\ hist' = hist
  BY DEF Coloca, RepartirDeja
<1>2. TypeOK /\ TypeOK' /\ Exclusion
  BY PartesDe DEF IInv
<1>3. h = hilo[t] /\ Mapeada(t) /\ h \in TipoHilo /\ h.guardados \in Nat /\ h.envio = SinEnvio /\ cpmut = t
  BY <1>2 DEF EnUnPaso, Exclusion, Excluye
<1>4. \E bl, z, op, e, pc, gu, k : Colocado(t, h, b, n, num, v, c, bl, z, op, e, pc, gu, k)
  <2>1. /\ num = PrimerCero(n) /\ v = [nodo |-> n, num |-> num]
        /\ c = (IF h.bloques[b][1].nodo = Nadie THEN 1 ELSE 2)
        /\ hilo' = [hilo EXCEPT ![t].pc = "manda", ![t].guardados = @ + 1, ![t].bloques[b][c] = v,
                                ![t].envio = [nodo |-> n, op |-> OpManda(h.id, b, num)]]
    BY Zenon DEF Coloca
  <2> QED
    BY <1>1, <2>1, ColocaEs, Zenon
<1>5. PICK bl, z, op, e, pc, gu, k : Colocado(t, h, b, n, num, v, c, bl, z, op, e, pc, gu, k)
  BY <1>4
<1>6. /\ bl = h.bloques /\ b \in DOMAIN bl /\ c \in Par /\ n \in Nodos /\ num \in Bits(n) \cup {-1}
      /\ v.nodo = n /\ v.num = num /\ CambiaSolo(z, bl, b, c, v) /\ op = OpManda(h.id, b, num) /\ op.num = num
      /\ e # SinEnvio /\ e.nodo = n /\ e.op = op
  BY <1>5 DEF Colocado
<1>7. /\ k.pc = "manda" /\ k.id = h.id /\ k.bloques = z /\ k.guardados = h.guardados + 1 /\ k.ino = h.ino
      /\ k.envio = e /\ hilo'[t] = k /\ \A u \in Hilos \ {t} : hilo'[u] = hilo[u]
  BY <1>5 DEF Colocado
<1>8. DOMAIN z = DOMAIN bl /\ Len(z) = Len(bl) /\ z[b][c] = v
  BY <1>6 DEF CambiaSolo
<1>9. \A u \in Hilos : /\ Mapeada(u)' <=> Mapeada(u)
                       /\ Mapeada(u) <=> u = t
                       /\ u # t => hilo[u].envio = SinEnvio
  BY <1>1, <1>2, <1>3, <1>7 DEF Mapeada, Exclusion, Excluye
<1>10. PICK q : q = [id |-> h.id, b |-> b, c |-> c, en |-> v]
  OBVIOUS
<1>11. Puestas' = Puestas \cup {q}
  BY <1>1, <1>3, <1>4, <1>10, ColocaPuesta, Zenon
<1>12. q.id = h.id /\ q.en.nodo = n /\ q.en.num = num
  BY <1>6, <1>10
<1>13. EnCola(n) = {} /\ (\A m : EnCola(m)' = EnCola(m)) /\ Esperan(DeSubida)' = Esperan(DeSubida)
  BY <1>1, ColaIgual, EnColaVacia
<1>14. (SinCarrera' <=> SinCarrera) /\ (Estable' <=> Estable) /\ (Limpia' <=> Limpia)
  BY <1>1 DEF SinCarrera, Estable, Limpia, EnRegla
<1>15. Leida' /\ CaidaExplicada' /\ Despierto' /\ Bajada'
  BY <1>1, DatosDe, LeidaQueda, CaidaQueda, DespiertoQueda, BajadaQueda
<1>16. Memoria'
  <2>1. Memoria
    BY DatosDe
  <2>2. hilo'[t].ino = hilo[t].ino /\ hilo'[t].id = hilo[t].id /\ Len(hilo'[t].bloques) = Len(hilo[t].bloques)
    BY <1>3, <1>6, <1>7, <1>8
  <2> SUFFICES ASSUME SinCarrera'
      PROVE  /\ orden'.tipo = "baja" => cpmut' = Nadie /\ Len(mapas'[orden'.ino]) = Len(orden'.bloques)
             /\ \A u \in Hilos : Mapeada(u)' =>
                  mapas'[hilo'[u].ino] = Enteros(hilo'[u].id, Len(hilo'[u].bloques))
    BY DEF Memoria, Enteros
  <2> QED
    BY <1>1, <1>9, <1>14, <2>1, <2>2 DEF Memoria
<1>17. Envios'
  <2> SUFFICES ASSUME NEW u \in Hilos, hilo'[u].envio # SinEnvio
               PROVE  EsEnvio(hilo'[u], hilo'[u].envio.nodo, hilo'[u].envio.op)
    BY DEF Envios, EsEnvio
  <2>1. hilo'[u] = k
    BY <1>7, <1>9
  <2>2. op.tipo = "manda" /\ op.sub = k.id /\ op.idx \in DOMAIN k.bloques /\ op.idx = b
    BY <1>6, <1>7, <1>8 DEF OpManda
  <2>3. v = [nodo |-> n, num |-> op.num]
    BY <1>6 DEF Coloca
  <2>4. EsEnvio(k, n, op)
    BY <1>6, <1>7, <1>8, <2>2, <2>3 DEF EsEnvio
  <2> QED
    BY <1>6, <1>7, <2>1, <2>4
<1>18. Atrasos'
  <2> SUFFICES ASSUME NEW m \in Nodos, NEW o \in EnCola(m)', o \in DeSubida
               PROVE  Atrasada(o)'
    BY DEF Atrasos, DeSubida, Escriben
  <2>1. Atrasada(o)
    BY <1>13, DatosDe DEF Atrasos
  <2>2. hilo'[t].id = hilo[t].id /\ DOMAIN hilo'[t].bloques = DOMAIN hilo[t].bloques
    BY <1>3, <1>6, <1>7, <1>8
  <2> QED
    BY <1>1, <1>3, <1>14, <2>1, <2>2 DEF Atrasada
<1>19. Escrituras'
  <2> SUFFICES ASSUME Limpia', NEW m \in Nodos, NEW o \in EnCola(m)' \cap Escriben
               PROVE  /\ \A x \in Puestas' : EsSitio(x, m, o) => EsDe(o, x)
                      /\ orden'.tipo = "copia" /\ orden'.nodo = m => o.num \in espacio'[m].ocupados
    BY DEF Escrituras, Escriben, EsSitio, EsDe
  <2>1. Limpia /\ o \in EnCola(m) /\ m # n
    BY <1>13, <1>14
  <2>2. /\ \A x \in Puestas : EsSitio(x, m, o) => EsDe(o, x)
        /\ orden.tipo = "copia" /\ orden.nodo = m => o.num \in espacio[m].ocupados
    BY <2>1, DatosDe DEF Escrituras
  <2>3. ~ EsSitio(q, m, o)
    BY <1>12, <2>1 DEF EsSitio
  <2>4. espacio'[m] = espacio[m]
    BY <1>1, <1>2, <2>1 DEF TypeOK, TipoEspacios
  <2> QED
    BY <1>1, <1>11, <2>2, <2>3, <2>4
<1>20. Escritas'
  <2> SUFFICES ASSUME Limpia', NEW x \in Puestas'
               PROVE  EnDisco(x)' \/ EnEspera(x)' \/ EnMano(x)'
    BY DEF Escritas
  <2>1. CASE x = q
    BY <1>6, <1>7, <1>12, <2>1 DEF EnMano
  <2>2. CASE x # q
    <3>1. EnDisco(x) \/ EnEspera(x) \/ EnMano(x)
      BY <1>11, <1>14, <2>2, DatosDe DEF Escritas
    <3>2. EnDisco(x) => EnDisco(x)'
      BY <1>1 DEF EnDisco
    <3>3. EnEspera(x) => EnEspera(x)'
      BY <1>13 DEF EnEspera, Escriben
    <3>4. EnMano(x) => EnMano(x)'
      BY <1>3, <1>7 DEF EnMano
    <3> QED
      BY <3>1, <3>2, <3>3, <3>4
  <2> QED
    BY <2>1, <2>2
<1>21. Recuento'
  <2> SUFFICES ASSUME SinCarrera', NEW u \in Hilos, Mapeada(u)'
               PROVE  Enviados' + Esperan(DeSubida)' + PorMandar(u)' <= hilo'[u].guardados
    BY DEF Recuento
  <2>1. u = t
    BY <1>9
  <2>2. Enviados + Esperan(DeSubida) + PorMandar(t) <= h.guardados
    BY <1>3, <1>14, DatosDe DEF Recuento
  <2>3. PorMandar(t) = 0 /\ PorMandar(t)' = 1 /\ Enviados' = Enviados
    BY <1>1, <1>3, <1>6, <1>7 DEF PorMandar, Enviados
  <2>4. PICK a, d, g : a = Enviados /\ d = Esperan(DeSubida) /\ g = h.guardados
    OBVIOUS
  <2>5. a \in Int /\ d \in Nat /\ g \in Nat /\ a + d + 0 <= g
    BY <1>2, <1>3, <2>2, <2>3, <2>4, EsperanEs DEF Enviados, TypeOK, TipoSubida
  <2>6. a + d + 1 <= g + 1
    BY ONLY <2>5
  <2> QED
    BY <1>7, <1>13, <2>1, <2>3, <2>4, <2>6
<1>22. Holgura'
  <2> SUFFICES ASSUME Estable', NEW u \in Hilos, Mapeada(u)'
               PROVE  \/ bsent'.total = 2 * Len(hilo'[u].bloques)
                      \/ hilo'[u].guardados + BloquesLibres' <= bsent'.total
    BY DEF Holgura
  <2>1. u = t
    BY <1>9
  <2>2. \/ bsent.total = 2 * Len(h.bloques)
        \/ h.guardados + BloquesLibres <= bsent.total
    BY <1>3, <1>14, DatosDe DEF Holgura
  <2>3. BloquesLibres' = BloquesLibres - 1
    <3>1. PICK r : r = Anota(Fija(espacio[n], num))
      OBVIOUS
    <3>2. r.libres = espacio[n].libres - 1
      BY <1>2, <1>6, <3>1, FijaEs
    <3>3. espacio'[n] = r /\ \A m \in Nodos \ {n} : espacio'[m] = espacio[m]
      BY <1>1, <1>2, <1>6, <3>1 DEF TypeOK, TipoEspacios
    <3> QED
      BY <1>1, <1>2, <1>6, <3>2, <3>3, UnoMenos
  <2>4. PICK g, f, s : g = h.guardados /\ f = BloquesLibres /\ s = bsent.total
    OBVIOUS
  <2>5. g \in Nat /\ f \in Int /\ s \in Int
    BY <1>2, <1>3, <2>4, LibresEnteros DEF TypeOK, TipoSubida
  <2>6. g + f <= s => (g + 1) + (f - 1) <= s
    BY ONLY <2>5
  <2> QED
    BY <1>1, <1>6, <1>7, <1>8, <2>1, <2>2, <2>3, <2>4, <2>6
<1> QED
  BY <1>15, <1>16, <1>17, <1>18, <1>19, <1>20, <1>21, <1>22 DEF Datos

LEMMA RepartirDatos ==
  ASSUME IInv, IInv', Datos, NEW t \in Hilos, Repartir(t)
  PROVE  Datos'
<1>1. hilo[t].pc = "reparte" /\ RepartirDeja /\ Activos' = Activos /\ UnPaso(t)
  BY RepartirEs
<1>2. ConManejador'
  <2>1. PICK ns : Ping(ns)
    BY RepartirEs
  <2> QED
    BY <1>1, <2>1, DatosDe, PingManejador DEF RepartirDeja
<1>3. PICK h, L, p, b : /\ EnUnPaso(t, h, L, p, b)
                        /\ Salta(t, h, b) \/ \E n, num, v, c : Coloca(t, h, b, n, num, v, c)
  BY <1>1, Zenon DEF UnPaso
<1>4. CASE Salta(t, h, b)
  BY <1>1, <1>2, <1>3, <1>4, SaltaDatos
<1>5. CASE \E n, num, v, c : Coloca(t, h, b, n, num, v, c)
  <2>1. PICK n, num, v, c : Coloca(t, h, b, n, num, v, c)
    BY <1>5
  <2> QED
    BY <1>1, <1>2, <1>3, <2>1, ColocaDatos
<1> QED
  BY <1>3, <1>4, <1>5

LEMMA MinDeDosEs ==
  ASSUME NEW a \in Int, NEW b \in Int
  PROVE  Min({a, b}) = a \/ Min({a, b}) = b
<1>1. \E x \in {a, b} : \A y \in {a, b} : x <= y
  BY SMT
<1> QED
  BY <1>1 DEF Min

(* An upload enters once every handler is through. *)
EntraLimpio ==
  /\ \A n : EnCola(n)' = EnCola(n)
  /\ \A n \in Nodos : EnCola(n) = {}
  /\ Esperan(DeSubida)' = 0
  /\ \A u \in Hilos : ~ Mapeada(u) /\ hilo[u].envio = SinEnvio /\ cpmut # u

LEMMA EntraLimpioEs ==
  ASSUME TypeOK, Exclusion, ConManejador, Ping(lista), cpmut = Nadie, cola' = cola
  PROVE  EntraLimpio
<1>1. \A n \in Nodos : cola[n] = <<>>
  BY DEF ConManejador, Ping
<1>2. \A n \in Nodos : EnCola(n) = {}
  BY <1>1, EnColaVacia
<1>3. Esperan(DeSubida)' = 0
  <2>1. Esperan(DeSubida) = 0
    BY <1>1, EsperanEs
  <2> QED
    BY <2>1, ColaIgual
<1>4. \A u \in Hilos : ~ Mapeada(u) /\ hilo[u].envio = SinEnvio /\ cpmut # u
  BY Constantes DEF Exclusion, Excluye, Mapeada
<1> QED
  BY <1>2, <1>3, <1>4, ColaIgual DEF EntraLimpio

LEMMA EntrarComun ==
  ASSUME IInv, Datos, NEW t \in Hilos, cpmut = Nadie, EntraLimpio, Puestas' = Puestas, hist \subseteq hist',
         orden' = orden, suenio' = suenio, disco' = disco, \A u \in Hilos : hilo'[u].envio = SinEnvio
  PROVE  Envios' /\ Atrasos' /\ Escrituras' /\ Escritas' /\ Leida' /\ Despierto'
<1>1. \A n \in Nodos : EnCola(n)' = {}
  BY DEF EntraLimpio
<1>2. Envios'
  BY DEF Envios
<1>3. Atrasos'
  <2> SUFFICES ASSUME NEW n \in Nodos, NEW o \in EnCola(n)', o \in DeSubida PROVE Atrasada(o)'
    BY DEF Atrasos, DeSubida, Escriben
  <2> QED
    BY <1>1
<1>4. Escrituras'
  <2> SUFFICES ASSUME Limpia', NEW m \in Nodos, NEW o \in EnCola(m)' \cap Escriben PROVE FALSE
    BY DEF Escrituras, Escriben, EsSitio, EsDe
  <2> QED
    BY <1>1
<1>5. Escritas'
  <2> SUFFICES ASSUME Limpia', NEW p \in Puestas' PROVE EnDisco(p)'
    BY DEF Escritas
  <2>1. Limpia /\ p \in Puestas
    BY ReglasQuedan
  <2>2. EnDisco(p) \/ EnEspera(p) \/ EnMano(p)
    BY <2>1, DatosDe DEF Escritas
  <2>3. p.en.nodo \in Nodos
    BY <2>1, PartesDe, PuestaEs, TipoCopiaEs
  <2>4. ~ EnEspera(p)
    BY <2>3 DEF EnEspera, EntraLimpio
  <2>5. ~ EnMano(p)
    BY DEF EnMano, EntraLimpio
  <2> QED
    BY <2>2, <2>4, <2>5 DEF EnDisco
<1>6. Leida'
  BY DatosDe, LeidaQueda
<1>7. Despierto'
  <2> SUFFICES ASSUME SinCarrera', NEW u \in Hilos
               PROVE  suenio'[u] <= 1 /\ (suenio'[u] = 1 => PorSubida(u)' \/ PorBajada(u)')
    BY DEF Despierto
  <2>1. SinCarrera
    BY ReglasQuedan
  <2>2. suenio[u] <= 1 /\ (suenio[u] = 1 => PorSubida(u) \/ PorBajada(u))
    BY <2>1, DatosDe DEF Despierto
  <2>3. ~ PorSubida(u)
    BY DEF PorSubida, EntraLimpio
  <2>4. PorBajada(u) => PorBajada(u)'
    BY DEF PorBajada
  <2> QED
    BY <2>2, <2>3, <2>4
<1> QED
  BY <1>2, <1>3, <1>4, <1>5, <1>6, <1>7

LEMMA NoEntraDatos ==
  ASSUME IInv, Datos, NEW t \in Hilos, cpmut = Nadie, EntraLimpio, Puestas' = Puestas, hist \subseteq hist',
         orden' = orden, suenio' = suenio, disco' = disco, cola' = cola, mapas' = mapas, archivos' = archivos,
         cpmut' = cpmut, ConManejador', CaidaExplicada',
         \A u \in Hilos : hilo'[u].envio = SinEnvio /\ ~ Mapeada(u)'
  PROVE  Datos'
<1>1. Envios' /\ Atrasos' /\ Escrituras' /\ Escritas' /\ Leida' /\ Despierto'
  BY EntrarComun
<1>2. Memoria'
  BY ReglasQuedan, DatosDe DEF Memoria
<1>3. Recuento'
  BY DEF Recuento
<1>4. Holgura'
  BY DEF Holgura
<1>5. Bajada'
  BY DatosDe, BajadaQueda
<1> QED
  BY <1>1, <1>2, <1>3, <1>4, <1>5 DEF Datos

LEMMA EntraDatos ==
  ASSUME IInv, Datos, NEW t \in Hilos, NEW k \in 0 .. MaxBloques, NEW h, NEW q, NEW ino, NEW bl,
         Entra(t, k, h, q, ino, bl), cpmut = Nadie, EntraLimpio, cpmut' = t,
         orden' = orden, suenio' = suenio, disco' = disco, cola' = cola, archivos' = archivos, espacio' = espacio,
         mapas' = [mapas EXCEPT ![ino] = [i \in 1 .. k |-> <<h.id, i>>]], Activos' = Activos,
         bsent' = [th |-> t, current |-> 0, total |-> Min({BloquesLibres, 2 * k})],
         hist' = (IF orden.tipo = "baja" THEN hist \cup {"carrera"} ELSE hist), fs' = fs, ConManejador'
  PROVE  Datos'
<1>1. /\ k \in Nat \ {0} /\ ino \in Inodos /\ bl \in TipoBloques /\ Len(bl) = k
      /\ \A b \in DOMAIN bl : \A c \in Par : bl[b][c] = SinCopia
      /\ h = hilo[t] /\ h.guardados = 0 /\ h.envio = SinEnvio
      /\ q.pc = "reparte" /\ q.ino = ino /\ q.bloques = bl /\ q.id = h.id /\ q.envio = h.envio /\ q.guardados = h.guardados
      /\ hilo'[t] = q /\ \A u \in Hilos \ {t} : hilo'[u] = hilo[u]
  BY DEF Entra
<1>2. hist \subseteq hist' /\ (SinCarrera' => orden.tipo # "baja")
  BY DEF SinCarrera, EnRegla
<1>3. \A u \in Hilos : hilo'[u].envio = SinEnvio /\ (Mapeada(u)' <=> u = t)
  BY <1>1 DEF EntraLimpio, Mapeada
<1>4. Puestas' = Puestas
  <2>1. CopiasDe(q) = {}
    BY <1>1, SinCopias
  <2>2. \A u \in Hilos : CopiasDe(hilo'[u]) = CopiasDe(hilo[u])
    BY <1>1, <2>1, PartesDe, NadaPuesto DEF EntraLimpio
  <2> QED
    BY <2>2, PuestasIguales
<1>5. Envios' /\ Atrasos' /\ Escrituras' /\ Escritas' /\ Leida' /\ Despierto'
  BY <1>2, <1>3, <1>4, EntrarComun
<1>6. CaidaExplicada'
  BY <1>2, DatosDe, CaidaQueda
<1>7. Memoria'
  <2> SUFFICES ASSUME SinCarrera'
      PROVE  /\ orden'.tipo = "baja" => cpmut' = Nadie /\ Len(mapas'[orden'.ino]) = Len(orden'.bloques)
             /\ \A u \in Hilos : Mapeada(u)' =>
                  mapas'[hilo'[u].ino] = Enteros(hilo'[u].id, Len(hilo'[u].bloques))
    BY DEF Memoria, Enteros
  <2>1. orden'.tipo # "baja"
    BY <1>2
  <2>2. PICK s : s = [i \in 1 .. k |-> <<h.id, i>>]
    OBVIOUS
  <2>3. mapas'[ino] = s
    BY <1>1, <2>2, PartesDe DEF TypeOK, TipoMapas
  <2>4. s = Enteros(q.id, Len(q.bloques))
    <3>1. s = [i \in 1 .. k |-> <<q.id, i>>] /\ Len(q.bloques) = k
      BY <1>1, <2>2
    <3> QED
      BY ONLY <3>1 DEF Enteros
  <2> QED
    BY <1>1, <1>3, <2>1, <2>3, <2>4
<1>8. Recuento'
  <2> SUFFICES ASSUME NEW u \in Hilos, Mapeada(u)'
               PROVE  Enviados' + Esperan(DeSubida)' + PorMandar(u)' <= hilo'[u].guardados
    BY DEF Recuento
  <2>1. PICK tot : tot = Min({BloquesLibres, 2 * k})
    OBVIOUS
  <2>2. tot \in Int
    BY <1>1, <2>1, PartesDe, LibresEnteros, MinDeDos
  <2>3. bsent'.current = 0 /\ bsent'.total = tot
    BY <2>1
  <2>4. Enviados' \in Int /\ Enviados' <= 0
    BY <2>2, <2>3 DEF Enviados
  <2>5. u = t /\ PorMandar(u)' = 0 /\ hilo'[u].guardados = 0 /\ Esperan(DeSubida)' = 0
    BY <1>1, <1>3 DEF PorMandar, EntraLimpio
  <2>6. PICK a : a = Enviados'
    OBVIOUS
  <2>7. a \in Int /\ a <= 0
    BY <2>4, <2>6
  <2>8. a + 0 + 0 <= 0
    BY ONLY <2>7
  <2> QED
    BY ONLY <2>5, <2>6, <2>8
<1>9. Holgura'
  <2> SUFFICES ASSUME NEW u \in Hilos, Mapeada(u)'
               PROVE  \/ bsent'.total = 2 * Len(hilo'[u].bloques)
                      \/ hilo'[u].guardados + BloquesLibres' <= bsent'.total
    BY DEF Holgura
  <2>1. PICK f, g, tot : f = BloquesLibres /\ g = 2 * k /\ tot = Min({f, g})
    OBVIOUS
  <2>2. f \in Int /\ g \in Int
    BY <1>1, <2>1, PartesDe, LibresEnteros
  <2>3. tot = f \/ tot = g
    BY ONLY <2>1, <2>2, MinDeDosEs
  <2>4. BloquesLibres' = f /\ bsent'.total = tot
    BY <2>1, LibresIguales
  <2>5. hilo'[u].guardados = 0 /\ Len(hilo'[u].bloques) = k
    BY <1>1, <1>3
  <2>6. 0 + f <= f
    BY ONLY <2>2
  <2> QED
    BY <2>1, <2>3, <2>4, <2>5, <2>6
<1>10. Bajada'
  <2>1. CASE orden.tipo = "baja"
    <3>1. ~ SinCarrera' /\ ~ Limpia' /\ orden'.tipo = "baja"
      BY <1>2, <2>1 DEF SinCarrera, Limpia, EnRegla
    <3>2. DeArchivo' /\ orden'.paso <= Len(orden'.bloques) + 1
      BY <2>1, DatosDe DEF Bajada, DeArchivo
    <3> QED
      BY <3>1, <3>2 DEF Bajada
  <2>2. CASE orden.tipo # "baja"
    <3>1. \A n \in Nodos : EnCola(n)' = {}
      BY DEF EntraLimpio
    <3>2. NadaPedido'
      BY <3>1 DEF NadaPedido
    <3> QED
      BY <2>2, <3>2 DEF Bajada
  <2> QED
    BY <2>1, <2>2
<1> QED
  BY <1>5, <1>6, <1>7, <1>8, <1>9, <1>10 DEF Datos

LEMMA EntrarDatos ==
  ASSUME IInv, Datos, NEW t \in Hilos, NEW k \in 0 .. MaxBloques, Entrar(t, k)
  PROVE  Datos'
<1>1. /\ hilo[t].pc = "mutex" /\ cpmut = Nadie /\ Ping(lista)
      /\ bsent' = [th |-> t, current |-> 0, total |-> Min({BloquesLibres, 2 * k})]
      /\ lista' = lista /\ conexion' = conexion /\ espacio' = espacio /\ disco' = disco
      /\ archivos' = archivos /\ orden' = orden /\ suenio' = suenio /\ cola' = cola
  BY DEF Entrar
<1>2. TypeOK /\ Exclusion /\ ConManejador
  BY PartesDe, DatosDe
<1>3. EntraLimpio /\ ConManejador' /\ Activos' = Activos
  BY <1>1, <1>2, EntraLimpioEs, PingManejador, PingEs
<1>4. CASE Despedir(t) /\ fs' = fs /\ cpmut' = cpmut /\ mapas' = mapas /\ hist' = hist
  <2>1. /\ \A u \in Hilos \ {t} : hilo'[u] = hilo[u]
        /\ hilo'[t].pc \in {"libre", "fin"} /\ hilo'[t].bloques = <<>> /\ hilo'[t].envio = SinEnvio
    BY <1>2, <1>4, DespedirEs
  <2>2. \A u \in Hilos : hilo'[u].envio = SinEnvio /\ ~ Mapeada(u)'
    BY <1>3, <2>1 DEF EntraLimpio, Mapeada
  <2>3. Puestas' = Puestas
    <3>1. CopiasDe(hilo'[t]) = {}
      BY <2>1, SinCopias
    <3>2. \A u \in Hilos : CopiasDe(hilo'[u]) = CopiasDe(hilo[u])
      BY <1>2, <1>3, <2>1, <3>1, NadaPuesto DEF EntraLimpio
    <3> QED
      BY <1>1, <3>2, PuestasIguales
  <2>4. CaidaExplicada'
    BY <1>4, DatosDe, CaidaQueda
  <2> QED
    BY <1>1, <1>3, <1>4, <2>2, <2>3, <2>4, NoEntraDatos
<1>5. CASE /\ fs' = "caido" /\ hist' = hist \cup {"vacio"} /\ cpmut' = cpmut /\ hilo' = hilo /\ mapas' = mapas
  <2>1. \A u \in Hilos : hilo'[u].envio = SinEnvio /\ ~ Mapeada(u)'
    BY <1>3, <1>5 DEF EntraLimpio, Mapeada
  <2>2. Puestas' = Puestas /\ hist \subseteq hist'
    BY <1>1, <1>5, PuestasIguales
  <2>3. CaidaExplicada'
    BY <1>5 DEF CaidaExplicada
  <2> QED
    BY <1>1, <1>3, <1>5, <2>1, <2>2, <2>3, NoEntraDatos
<1>6. CASE /\ k # 0 /\ cpmut' = t /\ fs' = fs
           /\ mapas' = [mapas EXCEPT ![InodoDeBlocks] = [i \in 1 .. k |-> <<hilo[t].id, i>>]]
           /\ hilo' = [hilo EXCEPT ![t].pc = "reparte", ![t].paso = 1, ![t].ino = InodoDeBlocks,
                                   ![t].bloques = [i \in 1 .. k |-> <<SinCopia, SinCopia>>]]
           /\ hist' = (IF orden.tipo = "baja" THEN hist \cup {"carrera"} ELSE hist)
  <2>1. PICK h, q, ino, bl : Entra(t, k, h, q, ino, bl)
    BY <1>1, <1>6, EntraEs
  <2>2. ino = InodoDeBlocks /\ h = hilo[t]
    BY <2>1 DEF Entra
  <2>3. mapas' = [mapas EXCEPT ![ino] = [i \in 1 .. k |-> <<h.id, i>>]]
    BY <1>6, <2>2
  <2> QED
    BY <1>1, <1>3, <1>6, <2>1, <2>3, EntraDatos
<1> QED
  <2>1. BloquesLibres < k \/ k = 0 \/ k # 0
    OBVIOUS
  <2> QED
    BY <1>4, <1>5, <1>6 DEF Entrar, mapaVars

-----------------------------------------------------------------------------
(* Uploads end. *)

(* The thread of an upload was woken because all its blocks were sent.      *)
LEMMA TodoEnviado ==
  ASSUME IInv, Datos, SinCarrera, NEW t \in Hilos, Esperando(t), suenio[t] > 0
  PROVE  /\ orden.tipo # "baja" /\ bsent.current >= bsent.total /\ suenio[t] = 1
         /\ \A u \in Hilos \ {t} : suenio[u] = 0
         /\ bsent.total + Esperan(DeSubida) <= hilo[t].guardados
<1>1. Mapeada(t) /\ cpmut = t /\ cpmut # Nadie /\ hilo[t].envio = SinEnvio
  BY PartesDe, Constantes DEF Esperando, Mapeada, Exclusion, Excluye
<1>2. orden.tipo # "baja"
  BY <1>1, DatosDe DEF Memoria
<1>3. \A u \in Hilos : suenio[u] \in Nat /\ suenio[u] <= 1 /\ (suenio[u] = 1 => PorSubida(u))
  BY <1>2, PartesDe, DatosDe DEF Despierto, PorBajada, TypeOK, TipoSubida
<1>4. suenio[t] = 1 /\ PorSubida(t)
  BY <1>3
<1>5. bsent.current >= bsent.total
  BY <1>4 DEF PorSubida
<1>6. \A u \in Hilos \ {t} : suenio[u] = 0
  <2> TAKE u \in Hilos \ {t}
  <2>1. suenio[u] # 1
    BY <1>1, <1>3 DEF PorSubida
  <2> QED
    BY <1>3, <2>1
<1>7. bsent.total + Esperan(DeSubida) <= hilo[t].guardados
  <2>1. PICK c, m, e, g : c = bsent.current /\ m = bsent.total /\ e = Esperan(DeSubida) /\ g = hilo[t].guardados
    OBVIOUS
  <2>2. c \in Nat /\ m \in Int /\ e \in Nat /\ g \in Nat /\ c >= m
    BY <1>5, <2>1, PartesDe, TipoHiloEs, EsperanEs DEF TypeOK, TipoSubida
  <2>3. Enviados = m
    <3>1. Enviados = IF c <= m THEN c ELSE m
      BY <2>1 DEF Enviados
    <3>2. (IF c <= m THEN c ELSE m) = m
      BY ONLY <2>2
    <3> QED
      BY ONLY <3>1, <3>2
  <2>4. PorMandar(t) = 0
    BY <1>1 DEF PorMandar
  <2>5. Enviados + Esperan(DeSubida) + PorMandar(t) <= hilo[t].guardados
    BY <1>1, DatosDe DEF Recuento
  <2>6. m + e + 0 <= g
    BY ONLY <2>1, <2>3, <2>4, <2>5
  <2>7. m + e <= g
    BY ONLY <2>2, <2>6
  <2> QED
    BY ONLY <2>1, <2>7
<1> QED
  BY <1>2, <1>4, <1>5, <1>6, <1>7

(* Unless space appeared, it placed no more than it waits for.              *)
LEMMA NoSobra ==
  ASSUME IInv, Datos, Estable, NEW t \in Hilos, Esperando(t)
  PROVE  hilo[t].guardados <= bsent.total
<1>1. Mapeada(t) /\ ConBloques(t) /\ hilo[t].pc = "reparte"
  BY PartesDe DEF Esperando, Mapeada, Exclusion, Excluye
<1>2. PICK g, m, s, len : g = hilo[t].guardados /\ m = bsent.total /\ s = hilo[t].paso /\ len = Len(hilo[t].bloques)
  OBVIOUS
<1>3. g \in Nat /\ m \in Int /\ s \in Nat /\ len \in Nat /\ s \in 1 .. 2 * len + 1
  <2>1. hilo[t].bloques \in TipoBloques
    BY PartesDe, TipoHiloEs
  <2>2. Len(hilo[t].bloques) \in Nat
    BY <2>1 DEF TipoBloques
  <2> QED
    BY <1>1, <1>2, <2>2, PartesDe, TipoHiloEs DEF TypeOK, TipoSubida, ConBloques
<1>4. g <= s - 1
  BY <1>1, <1>2, PartesDe DEF Avance, Hechos
<1>5. CASE m = 2 * len
  BY ONLY <1>2, <1>3, <1>4, <1>5
<1>6. CASE g + BloquesLibres <= m
  <2>1. PICK f, A : f = Libres /\ A = Activos
    OBVIOUS
  <2>2. /\ BloquesLibres = Suma(f, A) /\ IsFiniteSet(A) /\ A \subseteq Nodos
        /\ \A n \in Nodos : f[n] = espacio[n].libres
    BY <2>1, PartesDe, BloquesLibresEs
  <2>3. \A n \in A : f[n] \in Nat
    <3>1. A \subseteq lista
      BY <2>1, DatosDe DEF ConManejador, Activos
    <3> QED
      BY <2>2, <3>1, PartesDe, ReglasEs, LibresNaturales
  <2>4. BloquesLibres \in Nat
    BY <2>2, <2>3, SumaNatural
  <2>5. PICK z : z = BloquesLibres
    OBVIOUS
  <2>6. z \in Nat /\ g + z <= m
    BY <1>6, <2>4, <2>5
  <2>7. g <= m
    BY ONLY <1>3, <2>6
  <2> QED
    BY <1>2, <2>7
<1>7. m = 2 * len \/ g + BloquesLibres <= m
  BY <1>1, <1>2, DatosDe DEF Holgura
<1> QED
  BY <1>5, <1>6, <1>7

LEMMA TerminarDatos ==
  ASSUME IInv, Datos, NEW t \in Hilos, Terminar(t)
  PROVE  Datos'
<1>1. /\ Esperando(t) /\ suenio[t] > 0 /\ suenio' = [suenio EXCEPT ![t] = @ - 1]
      /\ cpmut' = Nadie /\ Despedir(t)
      /\ fs' = fs /\ lista' = lista /\ conexion' = conexion /\ manejador' = manejador
      /\ espacio' = espacio /\ disco' = disco /\ orden' = orden /\ bsent' = bsent /\ cola' = cola
      /\ mapas' = mapas /\ hist \subseteq hist' /\ hist' \subseteq hist \cup {"fuga"}
  BY DEF Terminar, nodoVars
<1>2. TypeOK /\ Exclusion
  BY PartesDe
<1>3. PICK h : h = hilo[t]
  OBVIOUS
<1>4. PICK f : f = [ruta |-> h.ruta, id |-> h.id, bloques |-> h.bloques]
  OBVIOUS
<1>5. f.id = h.id /\ f.bloques = h.bloques
  BY <1>4
<1>6. \/ h.guardados = bsent.total /\ archivos' = archivos \cup {f}
      \/ archivos' = archivos
  BY <1>3, <1>4 DEF Terminar, Exito
<1>7. Mapeada(t) /\ cpmut = t /\ h.envio = SinEnvio
  BY <1>1, <1>2, <1>3 DEF Esperando, Mapeada, Exclusion, Excluye
<1>8. /\ \A u \in Hilos \ {t} : hilo'[u] = hilo[u]
      /\ hilo'[t].pc \in {"libre", "fin"} /\ hilo'[t].bloques = <<>> /\ hilo'[t].envio = SinEnvio
  BY <1>1, <1>2, DespedirEs
<1>9. \A u \in Hilos : ~ Mapeada(u)' /\ hilo[u].envio = SinEnvio /\ hilo'[u].envio = SinEnvio
  <2>1. \A u \in Hilos \ {t} : ~ Mapeada(u) /\ hilo[u].envio = SinEnvio
    BY <1>2, <1>7 DEF Exclusion, Excluye, Mapeada
  <2> QED
    BY <1>3, <1>7, <1>8, <2>1 DEF Mapeada
<1>10. (SinCarrera' => SinCarrera) /\ (Estable' => Estable /\ SinCarrera) /\ (Limpia' => Limpia)
  BY <1>1, ReglasQuedan, ReglasEs
<1>11. Puestas' \subseteq Puestas
  <2>1. CopiasDe(hilo'[t]) = {} /\ CopiasDe(f) = CopiasDe(h)
    BY <1>5, <1>8, SinCopias, CopiasIguales
  <2> SUFFICES ASSUME NEW p \in Puestas' PROVE p \in Puestas
    OBVIOUS
  <2>2. p \in PuestasEn(archivos', hilo')
    BY DEF Puestas
  <2>3. (\E g \in archivos' : p \in CopiasDe(g)) \/ (\E u \in Hilos : p \in CopiasDe(hilo'[u]))
    BY <2>2, PuestasEs
  <2>4. (\E g \in archivos : p \in CopiasDe(g)) \/ (\E u \in Hilos : p \in CopiasDe(hilo[u]))
    BY <1>3, <1>6, <1>8, <2>1, <2>3
  <2> QED
    BY <2>4, PuestasEs DEF Puestas
<1>12. ConManejador' /\ Leida' /\ CaidaExplicada'
  BY <1>1, DatosDe, ManejadorQueda, LeidaQueda, CaidaQueda
<1>13. Escrituras'
  <2>1. \A m \in Nodos : EnCola(m)' \cap Escriben \subseteq EnCola(m)
    BY <1>1, ColaIgual
  <2> QED
    BY <1>1, <1>11, <2>1, DatosDe, EscriturasQuedan
<1>14. Bajada'
  <2>1. archivos \subseteq archivos'
    BY <1>6
  <2> QED
    BY <1>1, <2>1, DatosDe, BajadaQueda
<1>15. Recuento' /\ Holgura' /\ Envios'
  BY <1>9 DEF Recuento, Holgura, Envios
<1>16. Memoria'
  <2> SUFFICES ASSUME SinCarrera' PROVE orden'.tipo # "baja"
    BY <1>9 DEF Memoria
  <2> QED
    BY <1>1, <1>3, <1>10, TodoEnviado
<1>17. Escritas'
  <2> SUFFICES ASSUME Limpia', NEW p \in Puestas' PROVE EnDisco(p)' \/ EnEspera(p)'
    BY DEF Escritas
  <2>1. Limpia /\ p \in Puestas
    BY <1>10, <1>11
  <2>2. ~ EnMano(p)
    BY <1>9 DEF EnMano
  <2>3. EnDisco(p) \/ EnEspera(p)
    BY <2>1, <2>2, DatosDe DEF Escritas
  <2>4. (EnDisco(p) => EnDisco(p)') /\ (EnEspera(p) => EnEspera(p)')
    BY <1>1, ColaIgual DEF EnDisco, EnEspera, Escriben
  <2> QED
    BY <2>3, <2>4
<1>18. Despierto'
  <2> SUFFICES ASSUME SinCarrera', NEW u \in Hilos PROVE suenio'[u] = 0
    BY DEF Despierto
  <2>1. suenio[t] = 1 /\ \A v \in Hilos \ {t} : suenio[v] = 0
    BY <1>1, <1>10, TodoEnviado
  <2>2. suenio \in [Hilos -> Nat]
    BY <1>2 DEF TypeOK, TipoSubida
  <2> QED
    BY <1>1, <2>1, <2>2
<1>19. Atrasos'
  <2> SUFFICES ASSUME NEW n \in Nodos, NEW op \in EnCola(n)', op \in DeSubida
               PROVE  Atrasada(op)'
    BY DEF Atrasos, DeSubida, Escriben
  <2>1. op \in EnCola(n) \cap DeSubida
    BY <1>1, ColaIgual
  <2>2. Atrasada(op)
    BY <2>1, DatosDe DEF Atrasos
  <2>3. PICK e, m, g : e = Esperan(DeSubida) /\ m = bsent.total /\ g = hilo[t].guardados
    OBVIOUS
  <2>4. e \in Nat /\ e >= 1 /\ m \in Int /\ g \in Nat
    BY <1>2, <2>1, <2>3, AlgunaEspera, EsperanEs, TipoHiloEs DEF TypeOK, TipoSubida
  <2>5. SinCarrera => m + e <= g /\ bsent.current >= bsent.total
    BY <1>1, <2>3, TodoEnviado
  <2>6. SinCarrera => ~ (g <= m)
    <3>1. m + e <= g => ~ (g <= m)
      BY ONLY <2>4
    <3> QED
      BY <2>5, <3>1
  <2>7. ~ Estable'
    BY <1>1, <1>10, <2>3, <2>6, NoSobra
  <2>8. SinCarrera' => \A x \in archivos' : x.id # op.sub
    <3> SUFFICES ASSUME SinCarrera', NEW x \in archivos' PROVE x.id # op.sub
      OBVIOUS
    <3>1. g # m
      BY <1>10, <2>4, <2>6
    <3>2. x \in archivos
      BY <1>3, <1>6, <2>3, <3>1
    <3> QED
      BY <1>10, <2>2, <3>2 DEF Atrasada
  <2> QED
    BY <1>1, <1>10, <2>5, <2>7, <2>8 DEF Atrasada
<1> QED
  BY <1>12, <1>13, <1>14, <1>15, <1>16, <1>17, <1>18, <1>19 DEF Datos

-----------------------------------------------------------------------------
(* A handler and the operation that it takes. *)

Sirve(n, op) ==
  /\ fs = "vivo" /\ cola[n] # <<>> /\ op = Head(cola[n]) /\ cola' = [cola EXCEPT ![n] = Tail(@)]
  /\ op \in TipoOp /\ EsOp(op) /\ op.num \in Bits(n) \cup {-1}
  /\ lista' = lista /\ manejador' = manejador /\ espacio' = espacio /\ archivos' = archivos
  /\ hilo' = hilo /\ cpmut' = cpmut /\ hist \subseteq hist'

(* One operation less, whatever it is. *)
UnaMenos(n, op) ==
  /\ n \in manejador /\ op \in EnCola(n)
  /\ \A m \in Nodos : /\ EnCola(m)' \subseteq EnCola(m)
                      /\ \A o \in EnCola(m) : o \in EnCola(m)' \/ (m = n /\ o = op)
  /\ \A S : Esperan(S)' = Esperan(S) - (IF op \in S THEN 1 ELSE 0)

LEMMA SirveEs ==
  ASSUME IInv, Datos, NEW n \in Nodos, NEW op, Sirve(n, op)
  PROVE  UnaMenos(n, op) /\ ConManejador' /\ MismasSubidas /\ Puestas' = Puestas /\ Envios'
<1>1. TypeOK /\ Exclusion /\ ConManejador /\ Envios
  BY PartesDe, DatosDe
<1>2. cola[n] # <<>> /\ op = Head(cola[n]) /\ cola' = [cola EXCEPT ![n] = Tail(@)]
  BY DEF Sirve
<1>3. n \in manejador
  BY <1>1, <1>2 DEF ConManejador
<1>4. /\ EnCola(n)' \subseteq EnCola(n) /\ EnCola(n) \subseteq EnCola(n)' \cup {op} /\ op \in EnCola(n)
      /\ \A m \in Nodos \ {n} : EnCola(m)' = EnCola(m) /\ cola'[m] = cola[m]
      /\ \A S : Esperan(S)' = Esperan(S) - (IF op \in S THEN 1 ELSE 0)
  BY <1>1, <1>2, ColaSirve
<1>5. UnaMenos(n, op)
  BY <1>3, <1>4 DEF UnaMenos
<1>6. ConManejador'
  BY <1>1, <1>3, <1>4 DEF ConManejador, Sirve
<1>7. MismasSubidas /\ Puestas' = Puestas
  BY SubidasIguales, PuestasIguales DEF Sirve
<1> QED
  BY <1>1, <1>5, <1>6, <1>7, EnviosQuedan

(* The node of the operation may be gone: there is no more space.           *)
LEMMA SirveHolgura ==
  ASSUME IInv, Datos, NEW n \in Nodos, NEW op, Sirve(n, op), conexion' \in TrasBloque(n, op),
         bsent'.total = bsent.total
  PROVE  Holgura'
<1>1. MismasSubidas
  BY SirveEs
<1>2. hist \subseteq hist' /\ espacio' = espacio /\ manejador' = manejador
  BY DEF Sirve
<1>3. Activos' = Activos \/ Activos' = Activos \ {n}
  BY <1>2 DEF TrasBloque, Activos
<1>4. Estable' => Estable
  BY <1>2, ReglasQuedan
<1>5. Estable' => BloquesLibres' \in Int /\ BloquesLibres' <= BloquesLibres
  BY <1>2, <1>3, <1>4, PartesDe, DatosDe, MenosActivos
<1> QED
  BY <1>1, <1>2, <1>5, PartesDe, DatosDe, HolguraQueda

(* What waits and is of an upload in progress: its block is in memory.      *)
LEMMA Alcanza ==
  ASSUME IInv, Datos, SinCarrera, NEW n \in Nodos, NEW op \in EnCola(n), op \in DeSubida, cpmut # Nadie
  PROVE  /\ cpmut \in Hilos /\ Mapeada(cpmut) /\ hilo[cpmut].id = op.sub /\ bsent.th = cpmut
         /\ op.idx \in 1 .. Len(mapas[hilo[cpmut].ino])
         /\ mapas[hilo[cpmut].ino][op.idx] = <<op.sub, op.idx>>
<1>1. PICK t \in Hilos : t = cpmut
  BY PartesDe DEF TypeOK, TipoNodos
<1>2. Mapeada(t) /\ ConBloques(t)
  BY <1>1, PartesDe DEF Exclusion, Excluye
<1>3. op.sub = hilo[t].id /\ op.idx \in DOMAIN hilo[t].bloques
  BY <1>1, DatosDe DEF Atrasos, Atrasada
<1>4. mapas[hilo[t].ino] = Enteros(hilo[t].id, Len(hilo[t].bloques))
  BY <1>2, DatosDe DEF Memoria
<1>5. PICK s, id, len : s = mapas[hilo[t].ino] /\ id = hilo[t].id /\ len = Len(hilo[t].bloques)
  OBVIOUS
<1>6. len \in Nat /\ DOMAIN hilo[t].bloques = 1 .. len
  <2>1. hilo[t].bloques \in TipoBloques
    BY PartesDe, TipoHiloEs
  <2> QED
    BY <1>5, <2>1 DEF TipoBloques
<1>7. s = [i \in 1 .. len |-> <<id, i>>]
  BY <1>4, <1>5 DEF Enteros
<1>8. Len(s) = len
  BY <1>6, <1>7
<1>9. PICK i \in 1 .. len : i = op.idx
  BY <1>3, <1>6
<1>10. s[i] = <<id, i>>
  BY <1>7
<1> QED
  BY <1>1, <1>2, <1>3, <1>5, <1>8, <1>9, <1>10 DEF ConBloques

(* What waits and is of an upload that ended is no copy. *)
LEMMA SubidaViva ==
  ASSUME IInv, Datos, SinCarrera, NEW n \in Nodos, NEW op \in EnCola(n), op \in DeSubida,
         NEW p \in Puestas, p.id = op.sub
  PROVE  cpmut # Nadie
<1> SUFFICES ASSUME cpmut = Nadie PROVE FALSE
  OBVIOUS
<1>1. \A f \in archivos : f.id # op.sub
  BY DatosDe DEF Atrasos, Atrasada
<1>2. \A t \in Hilos : ~ Mapeada(t)
  BY PartesDe, Constantes DEF Exclusion, Excluye
<1>3. \A t \in Hilos : hilo[t].bloques = <<>>
  BY <1>2, PartesDe DEF Exclusion, Excluye
<1>4. (\E f \in archivos : EsCopia(f.bloques, f.id, p)) \/ (\E t \in Hilos : EsCopia(hilo[t].bloques, hilo[t].id, p))
  BY PartesDe, PuestaEs
<1> QED
  BY <1>1, <1>3, <1>4 DEF EsCopia

(* What the console asked for is a copy, and of one block only. *)
LEMMA CopiaPedida ==
  ASSUME IInv, DeArchivo, NEW n \in Nodos, NEW op, op.num \in Bits(n) \cup {-1},
         NEW b \in DOMAIN orden.bloques, EsPedido(n, op, b)
  PROVE  \E p \in Puestas : p.id = orden.id /\ p.b = b /\ p.en = [nodo |-> n, num |-> op.num]
<1>1. PICK f \in archivos : f.id = orden.id /\ f.bloques = orden.bloques
  BY DEF DeArchivo
<1>2. PICK c \in Par : orden.bloques[b][c] = [nodo |-> n, num |-> op.num]
  BY DEF EsPedido
<1>3. PICK num \in Bits(n) \cup {-1} : num = op.num
  OBVIOUS
<1>4. PICK d \in DOMAIN f.bloques : d = b
  BY <1>1
<1>5. f.bloques[d][c] = [nodo |-> n, num |-> num]
  BY <1>1, <1>2, <1>3, <1>4
<1>6. f.bloques[d][c] # SinCopia
  BY <1>5, SitioEs
<1>7. PICK p : p = [id |-> f.id, b |-> d, c |-> c, en |-> f.bloques[d][c]]
  OBVIOUS
<1>8. p \in Puestas /\ p.id = f.id /\ p.b = d /\ p.en = f.bloques[d][c]
  BY ONLY <1>6, <1>7, CopiaDeArchivo
<1> QED
  BY <1>1, <1>3, <1>4, <1>5, <1>8

LEMMA PedidoUnico ==
  ASSUME IInv, Datos, Limpia, orden.tipo = "baja", NEW n \in Nodos, NEW op \in EnCola(n), op \in Leen,
         op.num \in Bits(n) \cup {-1}, NEW b \in DOMAIN orden.bloques, EsPedido(n, op, b)
  PROVE  /\ op.num \in Bits(n) /\ disco[n][op.num] = <<orden.id, b>>
         /\ \A d \in DOMAIN orden.bloques : EsPedido(n, op, d) => d = b
         /\ Min(Indices(n, op)) = b
<1>1. DeArchivo /\ EnSuSitio /\ Len(mapas[orden.ino]) = Len(orden.bloques)
  BY DatosDe, ReglasEs DEF Bajada, Memoria
<1>2. PICK p \in Puestas : p.id = orden.id /\ p.b = b /\ p.en = [nodo |-> n, num |-> op.num]
  BY <1>1, CopiaPedida
<1>3. Reservada(p) /\ \A q \in Puestas : p.en = q.en => p = q
  BY PartesDe, ReglasEs DEF Reservas
<1>4. op.num \in Bits(n)
  <2>1. op.num \in espacio[n].ocupados
    BY <1>2, <1>3 DEF Reservada
  <2> QED
    BY <2>1, PartesDe, TipoEspacioEs
<1>5. disco[n][op.num] = <<orden.id, b>>
  BY <1>1 DEF EnSuSitio
<1>6. ASSUME NEW d \in DOMAIN orden.bloques, EsPedido(n, op, d) PROVE d = b
  <2>1. PICK q \in Puestas : q.id = orden.id /\ q.b = d /\ q.en = [nodo |-> n, num |-> op.num]
    BY <1>1, <1>6, CopiaPedida
  <2> QED
    BY <1>2, <1>3, <2>1
<1>7. Indices(n, op) = {b}
  <2>1. orden.bloques \in TipoBloques
    BY PartesDe DEF TypeOK, TipoOrden, TipoCopiar, TipoBajar, SinOrden
  <2>2. b \in 1 .. Len(orden.bloques) /\ Len(orden.bloques) \in Nat
    BY <2>1 DEF TipoBloques
  <2>3. b <= Len(mapas[orden.ino])
    BY <1>1, <2>2
  <2>4. \A d : d \in Indices(n, op) <=> d \in DOMAIN orden.bloques /\ EsPedido(n, op, d) /\ d <= Len(mapas[orden.ino])
    BY DEF Indices, EsPedido
  <2> QED
    BY <1>6, <2>3, <2>4
<1>8. Min({b}) = b
  <2>1. {b} \in SUBSET Nat /\ {b} # {}
    <3>1. orden.bloques \in TipoBloques
      BY PartesDe DEF TypeOK, TipoOrden, TipoCopiar, TipoBajar, SinOrden
    <3> QED
      BY <3>1 DEF TipoBloques
  <2> QED
    BY <2>1, HayMinimo
<1> QED
  BY <1>4, <1>5, <1>6, <1>7, <1>8

(* Reads: the queues lose one operation that reads.                         *)
LEMMA LeerComun ==
  ASSUME IInv, Datos, NEW n \in Nodos, NEW op, Sirve(n, op), op.tipo = "recibe",
         disco' = disco, bsent' = bsent,
         orden' = orden \/ (orden.tipo = "baja" /\ orden'.tipo = "baja")
  PROVE  /\ ConManejador' /\ Envios' /\ Atrasos' /\ Escrituras' /\ Escritas' /\ Leida' /\ Recuento'
         /\ op \in Leen /\ Esperan(Leen)' = Esperan(Leen) - 1 /\ Esperan(Leen) >= 1
         /\ SinCarrera => orden.tipo = "baja" /\ cpmut = Nadie /\ Pedidos
<1>1. UnaMenos(n, op) /\ ConManejador' /\ MismasSubidas /\ Puestas' = Puestas /\ Envios'
  BY SirveEs
<1>2. /\ op \in TipoOp /\ espacio' = espacio /\ archivos' = archivos /\ hist \subseteq hist'
  BY DEF Sirve
<1>3. op \in Leen /\ op \notin Escriben /\ op \notin DeSubida
  BY <1>2 DEF Leen, Escriben, DeSubida
<1>4. \A m \in Nodos : /\ EnCola(m)' \cap DeSubida \subseteq EnCola(m)
                       /\ EnCola(m)' \cap Escriben \subseteq EnCola(m)
                       /\ EnCola(m) \cap Escriben \subseteq EnCola(m)'
  BY <1>1, <1>3 DEF UnaMenos
<1>5. Esperan(DeSubida)' = Esperan(DeSubida) /\ Esperan(Leen)' = Esperan(Leen) - 1
  <2>1. Esperan(DeSubida)' = Esperan(DeSubida) - 0 /\ Esperan(Leen)' = Esperan(Leen) - 1
    BY <1>1, <1>3 DEF UnaMenos
  <2> QED
    BY <2>1, EsperanEs
<1>6. Atrasos'
  BY <1>1, <1>2, <1>4, PartesDe, DatosDe, AtrasosQuedan
<1>7. Escrituras'
  BY <1>1, <1>2, <1>4, DatosDe, EscriturasQuedan
<1>8. Escritas'
  BY <1>1, <1>2, <1>4, PartesDe, DatosDe, EscritasQuedan
<1>9. Leida' /\ Recuento'
  BY <1>1, <1>2, <1>5, DatosDe, LeidaQueda, RecuentoQueda
<1>10. EnCola(n) \cap Leen # {} /\ Esperan(Leen) >= 1
  <2>1. EnCola(n) \cap Leen # {}
    BY <1>1, <1>3 DEF UnaMenos
  <2> QED
    BY <2>1, PartesDe, AlgunaEspera
<1>11. SinCarrera => orden.tipo = "baja"
  BY <1>10, DatosDe DEF Bajada, NadaPedido
<1>12. SinCarrera => cpmut = Nadie /\ Pedidos
  BY <1>11, DatosDe DEF Memoria, Bajada
<1> QED
  BY <1>1, <1>3, <1>5, <1>6, <1>7, <1>8, <1>9, <1>10, <1>11, <1>12

(* The block that a node gone will not bring.                               *)
LEMMA LeerNadaDatos ==
  ASSUME IInv, Datos, NEW n \in Nodos, NEW op, Sirve(n, op), op.tipo = "recibe",
         conexion' \in TrasBloque(n, op), fs' = fs, disco' = disco, bsent' = bsent, hist' = hist,
         mapas' = mapas, orden' = orden, suenio' = suenio
  PROVE  Datos'
<1>1. /\ ConManejador' /\ Envios' /\ Atrasos' /\ Escrituras' /\ Escritas' /\ Leida' /\ Recuento'
      /\ op \in Leen /\ Esperan(Leen)' = Esperan(Leen) - 1 /\ Esperan(Leen) >= 1
      /\ SinCarrera => orden.tipo = "baja" /\ cpmut = Nadie /\ Pedidos
  BY LeerComun
<1>2. UnaMenos(n, op) /\ MismasSubidas /\ archivos' = archivos /\ cpmut' = cpmut
  BY SirveEs DEF Sirve
<1>3. (SinCarrera' <=> SinCarrera) /\ (Limpia' <=> Limpia)
  BY DEF SinCarrera, Limpia, EnRegla
<1>4. Memoria' /\ Holgura' /\ Despierto' /\ CaidaExplicada'
  BY <1>2, DatosDe, MemoriaQueda, SirveHolgura, DespiertoQueda, CaidaQueda
<1>5. \A m, o, b : EsPedido(m, o, b)' <=> EsPedido(m, o, b)
  BY DEF EsPedido
<1>6. \A m \in Nodos : \A o \in EnCola(m)' : o \in EnCola(m)
  BY <1>2 DEF UnaMenos
<1>7. SinCarrera => Pedidos' /\ orden.current + Esperan(Leen)' < orden.paso - 1
  <2> SUFFICES ASSUME SinCarrera PROVE Pedidos' /\ orden.current + Esperan(Leen)' < orden.paso - 1
    OBVIOUS
  <2>1. orden \in TipoBajar
    BY <1>1, PartesDe DEF TypeOK, TipoOrden, TipoCopiar, SinOrden
  <2>2. PICK k, p, e : k = orden.current /\ p = orden.paso /\ e = Esperan(Leen)
    OBVIOUS
  <2>3. k \in Nat /\ p \in Nat /\ e \in Nat /\ e >= 1 /\ k + e <= p - 1
    BY <1>1, <2>1, <2>2, EsperanEs DEF TipoBajar, Pedidos
  <2>4. k + (e - 1) <= p - 1 /\ k + (e - 1) < p - 1
    BY ONLY <2>3
  <2>5. \A m \in Nodos : \A o \in EnCola(m)' \cap Leen : \E b \in DOMAIN orden.bloques : EsPedido(m, o, b)
    BY <1>1, <1>6 DEF Pedidos
  <2> QED
    BY <1>1, <1>5, <2>2, <2>4, <2>5 DEF Pedidos, Leen
<1>8. Limpia /\ orden.tipo = "baja" => EnSuSitio'
  <2> SUFFICES ASSUME Limpia, orden.tipo = "baja" PROVE EnSuSitio'
    OBVIOUS
  <2>1. EnSuSitio /\ SinCarrera
    BY DatosDe, ReglasEs DEF Bajada
  <2>2. \A b \in 1 .. orden'.paso - 1 : Recibido(b)'
    BY <1>7, <2>1 DEF Recibido
  <2>3. \A m \in Nodos : \A o \in EnCola(m)' \cap Leen : \A b \in DOMAIN orden'.bloques :
          EsPedido(m, o, b)' => disco'[m][o.num] = <<orden'.id, b>>
    BY <1>5, <1>6, <2>1 DEF EnSuSitio
  <2> QED
    BY <2>2, <2>3 DEF EnSuSitio, Leen
<1>9. Bajada'
  <2>1. orden.tipo = "baja" => DeArchivo' /\ orden'.paso <= Len(orden'.bloques) + 1
    BY <1>2, DatosDe DEF Bajada, DeArchivo
  <2> QED
    BY <1>1, <1>3, <1>7, <1>8, <2>1 DEF Bajada
<1> QED
  BY <1>1, <1>4, <1>9 DEF Datos

(* The block arrives: it is written where the file has it.                  *)
LEMMA LeerLlegaDatos ==
  ASSUME IInv, Datos, NEW n \in Nodos, NEW op, Sirve(n, op), op.tipo = "recibe",
         conexion' \in TrasBloque(n, op), fs' = fs, disco' = disco, bsent' = bsent, hist' = hist,
         Indices(n, op) # {},
         mapas' = [mapas EXCEPT ![orden.ino][Min(Indices(n, op))] = IF op.num = -1 THEN Cero ELSE disco[n][op.num]],
         orden' = [orden EXCEPT !.current = @ + 1],
         suenio' = (IF orden.current + 1 = Len(orden.bloques) THEN [suenio EXCEPT ![Consola] = @ + 1] ELSE suenio)
  PROVE  Datos'
<1>1. orden \in TipoBajar /\ orden.tipo = "baja" /\ Min(Indices(n, op)) \in 1 .. Len(mapas[orden.ino])
  BY PartesDe, IndicesEs
<1>2. PICK ino, i, d :
        /\ ino \in Inodos /\ i \in 1 .. Len(mapas[orden.ino])
        /\ ino = orden.ino /\ i = Min(Indices(n, op)) /\ d = IF op.num = -1 THEN Cero ELSE disco[n][op.num]
  BY <1>1 DEF TipoBajar
<1>3. /\ orden.paso \in Nat \ {0} /\ orden.current \in Nat /\ orden.bloques \in TipoBloques
      /\ Len(orden.bloques) \in Nat /\ DOMAIN orden.bloques = 1 .. Len(orden.bloques)
  BY <1>1 DEF TipoBajar, TipoBloques
<1>4. /\ orden'.tipo = "baja" /\ orden'.id = orden.id /\ orden'.ino = orden.ino /\ orden'.paso = orden.paso
      /\ orden'.bloques = orden.bloques /\ orden'.current = orden.current + 1
  <2>1. PICK c : c = orden.current + 1
    OBVIOUS
  <2>2. orden' = [orden EXCEPT !.current = c]
    BY <2>1
  <2>3. orden'.current = c
    BY <1>1, <2>2 DEF TipoBajar
  <2> QED
    BY <1>1, <2>1, <2>2, <2>3 DEF TipoBajar
<1>5. mapas'[ino][i] = d /\ Len(mapas'[ino]) = Len(mapas[ino]) /\ \A b \in 1 .. Len(mapas[ino]) : b # i => mapas'[ino][b] = mapas[ino][b]
  <2>1. mapas \in [Inodos -> Seq(Dato)]
    BY PartesDe DEF TypeOK, TipoMapas
  <2>2. PICK s : s = mapas[ino]
    OBVIOUS
  <2>3. PICK z : z = [s EXCEPT ![i] = d]
    OBVIOUS
  <2>4. s \in Seq(Dato) /\ i \in 1 .. Len(s)
    BY <1>2, <2>1, <2>2
  <2>5. z[i] = d /\ Len(z) = Len(s) /\ \A b \in 1 .. Len(s) : b # i => z[b] = s[b]
    BY <2>3, <2>4
  <2>6. mapas' = [mapas EXCEPT ![ino] = z]
    BY <1>2, <2>2, <2>3
  <2>7. mapas'[ino] = z
    BY <1>2, <2>1, <2>6
  <2> QED
    BY <2>2, <2>5, <2>7
<1>6. /\ ConManejador' /\ Envios' /\ Atrasos' /\ Escrituras' /\ Escritas' /\ Leida' /\ Recuento'
      /\ op \in Leen /\ Esperan(Leen)' = Esperan(Leen) - 1 /\ Esperan(Leen) >= 1
      /\ SinCarrera => orden.tipo = "baja" /\ cpmut = Nadie /\ Pedidos
  BY <1>1, <1>4, LeerComun
<1>7. UnaMenos(n, op) /\ MismasSubidas /\ archivos' = archivos /\ cpmut' = cpmut
  BY SirveEs DEF Sirve
<1>8. (SinCarrera' <=> SinCarrera) /\ (Limpia' <=> Limpia)
  BY DEF SinCarrera, Limpia, EnRegla
<1>9. Holgura' /\ CaidaExplicada'
  BY DatosDe, SirveHolgura, CaidaQueda
<1>10. SinCarrera => \A t \in Hilos : ~ Mapeada(t) /\ ~ Mapeada(t)'
  <2> SUFFICES ASSUME SinCarrera, NEW t \in Hilos PROVE ~ Mapeada(t)
    BY <1>7 DEF MismasSubidas, MismaSubida
  <2>1. cpmut # t
    BY <1>6, Constantes
  <2> QED
    BY <2>1, PartesDe DEF Exclusion, Excluye
<1>11. SinCarrera => Len(mapas[ino]) = Len(orden.bloques)
  BY <1>1, <1>2, DatosDe DEF Memoria
<1>12. Memoria'
  <2> SUFFICES ASSUME SinCarrera
      PROVE  /\ orden'.tipo = "baja" => cpmut' = Nadie /\ Len(mapas'[orden'.ino]) = Len(orden'.bloques)
             /\ \A t \in Hilos : ~ Mapeada(t)'
    BY <1>8 DEF Memoria
  <2> QED
    BY <1>2, <1>4, <1>5, <1>6, <1>7, <1>10, <1>11
<1>13. \A m, o, b : EsPedido(m, o, b)' <=> EsPedido(m, o, b)
  BY <1>4 DEF EsPedido
<1>14. \A m \in Nodos : /\ \A o \in EnCola(m)' : o \in EnCola(m)
                        /\ \A o \in EnCola(m) : o \in EnCola(m)' \/ (m = n /\ o = op)
  BY <1>7 DEF UnaMenos
<1>15. PICK k, p, e, l : k = orden.current /\ p = orden.paso /\ e = Esperan(Leen) /\ l = Len(orden.bloques)
  OBVIOUS
<1>16. k \in Nat /\ p \in Nat /\ e \in Nat /\ e >= 1 /\ l \in Nat /\ p <= l + 1
  BY <1>1, <1>3, <1>6, <1>15, EsperanEs, DatosDe DEF Bajada
<1>17. SinCarrera => k + e <= p - 1
  BY <1>6, <1>15 DEF Pedidos
<1>18. /\ SinCarrera => (k + 1) + (e - 1) <= p - 1 /\ k < l
       /\ k + e < p - 1 => (k + 1) + (e - 1) < p - 1
  BY ONLY <1>16, <1>17
<1>19. Despierto'
  <2> SUFFICES ASSUME SinCarrera, NEW t \in Hilos
               PROVE  suenio'[t] <= 1 /\ (suenio'[t] = 1 => PorBajada(t)')
    BY <1>8 DEF Despierto
  <2>1. suenio \in [Hilos -> Nat] /\ Consola \in Hilos
    BY PartesDe, Constantes DEF TypeOK, TipoSubida
  <2>2. ~ PorSubida(t) /\ ~ PorBajada(t)
    <3>1. cpmut # t
      BY <1>6, Constantes
    <3>2. ~ (k >= l)
      BY <1>16, <1>18
    <3> QED
      BY <1>15, <3>1, <3>2 DEF PorSubida, PorBajada
  <2>3. suenio[t] <= 1 /\ suenio[t] # 1
    BY <2>2, DatosDe DEF Despierto
  <2>4. suenio[t] = 0
    BY <2>1, <2>3
  <2>5. CASE t = Consola /\ k + 1 = l
    <3>1. suenio'[t] = 1
      BY <1>15, <2>1, <2>4, <2>5
    <3>2. PorBajada(t)'
      <4>1. orden'.current >= Len(orden'.bloques)
        BY <1>4, <1>15, <1>16, <2>5
      <4> QED
        BY <1>4, <2>5, <4>1 DEF PorBajada
    <3> QED
      BY <3>1, <3>2
  <2>6. CASE ~ (t = Consola /\ k + 1 = l)
    <3>1. suenio'[t] = 0
      BY <1>15, <2>1, <2>4, <2>6
    <3> QED
      BY <3>1
  <2> QED
    BY <2>5, <2>6
<1>20. SinCarrera => Pedidos'
  <2> SUFFICES ASSUME SinCarrera PROVE Pedidos'
    OBVIOUS
  <2>1. \A m \in Nodos : \A o \in EnCola(m)' \cap Leen : \E b \in DOMAIN orden.bloques : EsPedido(m, o, b)
    BY <1>6, <1>14 DEF Pedidos
  <2>2. orden'.current + Esperan(Leen)' <= orden'.paso - 1
    BY <1>4, <1>6, <1>15, <1>18
  <2> QED
    BY <1>4, <1>13, <2>1, <2>2 DEF Pedidos, Leen
<1>21. Limpia => EnSuSitio'
  <2> SUFFICES ASSUME Limpia PROVE EnSuSitio'
    OBVIOUS
  <2>1. EnSuSitio /\ SinCarrera
    BY <1>1, DatosDe, ReglasEs DEF Bajada
  <2>2. op \in EnCola(n) /\ op.num \in Bits(n) \cup {-1}
    BY <1>7 DEF UnaMenos, Sirve
  <2>3. PICK b0 \in DOMAIN orden.bloques : EsPedido(n, op, b0)
    BY <1>6, <2>1, <2>2 DEF Pedidos
  <2>4. /\ op.num \in Bits(n) /\ disco[n][op.num] = <<orden.id, b0>>
        /\ \A b \in DOMAIN orden.bloques : EsPedido(n, op, b) => b = b0
        /\ Min(Indices(n, op)) = b0
    BY <1>1, <1>6, <2>2, <2>3, PedidoUnico
  <2>5. i = b0 /\ d = <<orden.id, b0>>
    <3>1. op.num # -1
      BY <2>4, BitsEs
    <3> QED
      BY <1>2, <2>4, <3>1
  <2>6. ASSUME NEW b \in 1 .. orden'.paso - 1 PROVE Recibido(b)'
    <3>1. b \in 1 .. orden.paso - 1 /\ b \in DOMAIN orden.bloques /\ b \in 1 .. Len(mapas[ino])
      <4>1. b \in 1 .. p - 1
        BY <1>4, <1>15, <2>6
      <4>2. b \in 1 .. l
        BY <1>16, <4>1
      <4> QED
        BY <1>3, <1>11, <1>15, <2>1, <4>1, <4>2
    <3>2. Recibido(b)
      BY <2>1, <3>1 DEF EnSuSitio
    <3>3. CASE b = b0
      <4>1. mapas'[orden'.ino][b] = <<orden'.id, b>>
        BY <1>2, <1>4, <1>5, <2>5, <3>3
      <4> QED
        BY <4>1 DEF Recibido
    <3>4. CASE b # b0
      <4>1. mapas[orden.ino][b] = <<orden.id, b>> => mapas'[orden'.ino][b] = <<orden'.id, b>>
        BY <1>2, <1>4, <1>5, <2>5, <3>1, <3>4
      <4>2. (\E m \in Nodos : \E o \in EnCola(m) \cap Leen : EsPedido(m, o, b))
            => (\E m \in Nodos : \E o \in EnCola(m)' \cap Leen : EsPedido(m, o, b)')
        BY <1>13, <1>14, <2>4, <3>1, <3>4
      <4>3. orden.current + Esperan(Leen) < orden.paso - 1 => orden'.current + Esperan(Leen)' < orden'.paso - 1
        BY <1>4, <1>6, <1>15, <1>18
      <4> QED
        BY <3>2, <4>1, <4>2, <4>3 DEF Recibido, Leen
    <3> QED
      BY <3>3, <3>4
  <2>7. \A m \in Nodos : \A o \in EnCola(m)' \cap Leen : \A b \in DOMAIN orden'.bloques :
          EsPedido(m, o, b)' => disco'[m][o.num] = <<orden'.id, b>>
    BY <1>4, <1>13, <1>14, <2>1 DEF EnSuSitio
  <2> QED
    BY <2>6, <2>7 DEF EnSuSitio, Leen
<1>22. Bajada'
  <2>1. DeArchivo' /\ orden'.paso <= Len(orden'.bloques) + 1
    BY <1>1, <1>4, <1>7, DatosDe DEF Bajada, DeArchivo
  <2> QED
    BY <1>4, <1>8, <1>20, <1>21, <2>1 DEF Bajada
<1> QED
  BY <1>6, <1>9, <1>12, <1>19, <1>22 DEF Datos

(* The access that ends the process: a command met an upload, or one sent   *)
(* more than it waited for.                                                 *)
LEMMA CaeExplicada ==
  ASSUME IInv, Datos, NEW n \in Nodos, NEW op \in EnCola(n), op \in TipoOp, PuedeCaer(n, op), SinCarrera
  PROVE  op \in DeSubida /\ cpmut = Nadie
<1>1. op.tipo # "recibe"
  <2> SUFFICES ASSUME op.tipo = "recibe" PROVE FALSE
    OBVIOUS
  <2>1. op \in Leen /\ Indices(n, op) = {}
    BY DEF PuedeCaer, Leen
  <2>2. orden.tipo = "baja"
    BY <2>1, DatosDe DEF Bajada, NadaPedido
  <2>3. Pedidos /\ Len(mapas[orden.ino]) = Len(orden.bloques)
    BY <2>2, DatosDe DEF Bajada, Memoria
  <2>4. PICK b \in DOMAIN orden.bloques : EsPedido(n, op, b)
    BY <2>1, <2>3 DEF Pedidos
  <2>5. b <= Len(mapas[orden.ino])
    <3>1. orden.bloques \in TipoBloques
      BY <2>2, PartesDe DEF TypeOK, TipoOrden, TipoCopiar, TipoBajar, SinOrden
    <3>2. b \in 1 .. Len(orden.bloques) /\ Len(orden.bloques) \in Nat
      BY <3>1 DEF TipoBloques
    <3> QED
      BY <2>3, <3>2
  <2>6. b \in Indices(n, op)
    BY <2>2, <2>4, <2>5 DEF Indices, EsPedido
  <2> QED
    BY <2>1, <2>6
<1>2. op.sub # 0 /\ ~ \E t \in Hilos : Mapeada(t) /\ hilo[t].id = op.sub /\ op.idx <= Len(mapas[hilo[t].ino])
  BY <1>1 DEF PuedeCaer
<1>3. op \in DeSubida
  BY <1>1, <1>2 DEF DeSubida, Escriben, TipoOp
<1>4. ASSUME cpmut # Nadie PROVE FALSE
  <2>1. /\ cpmut \in Hilos /\ Mapeada(cpmut) /\ hilo[cpmut].id = op.sub
        /\ op.idx \in 1 .. Len(mapas[hilo[cpmut].ino])
    BY <1>3, <1>4, Alcanza
  <2>2. op.idx <= Len(mapas[hilo[cpmut].ino])
    <3>1. mapas[hilo[cpmut].ino] \in Seq(Dato)
      BY <2>1, PartesDe DEF TypeOK, TipoMapas, Exclusion, Excluye, ConBloques
    <3>2. Len(mapas[hilo[cpmut].ino]) \in Nat
      BY <3>1
    <3> QED
      BY <2>1, <3>2
  <2> QED
    BY <1>2, <2>1, <2>2
<1> QED
  BY <1>3, <1>4

LEMMA CaerDatos ==
  ASSUME IInv, Datos, NEW n \in Nodos, NEW op, Sirve(n, op), PuedeCaer(n, op),
         disco' = disco, conexion' = conexion, orden' = orden, bsent' = bsent, suenio' = suenio,
         mapas' = mapas, hist' = hist
  PROVE  Datos'
<1>1. UnaMenos(n, op) /\ ConManejador' /\ MismasSubidas /\ Puestas' = Puestas /\ Envios'
  BY SirveEs
<1>2. op \in TipoOp /\ espacio' = espacio /\ archivos' = archivos /\ cpmut' = cpmut
  BY DEF Sirve
<1>3. (SinCarrera' => SinCarrera) /\ (Limpia' => Limpia /\ SinCarrera)
  BY ReglasQuedan, ReglasEs
<1>4. SinCarrera => op \in DeSubida /\ cpmut = Nadie
  BY <1>1, <1>2, CaeExplicada DEF UnaMenos
<1>5. \A m \in Nodos : /\ \A o \in EnCola(m)' : o \in EnCola(m)
                       /\ \A o \in EnCola(m) : o \in EnCola(m)' \/ (m = n /\ o = op)
  BY <1>1 DEF UnaMenos
<1>6. Memoria' /\ Leida' /\ Despierto'
  BY <1>1, <1>2, DatosDe, MemoriaQueda, LeidaQueda, DespiertoQueda
<1>7. Holgura'
  BY DatosDe, SirveHolgura DEF TrasBloque
<1>8. Atrasos' /\ Escrituras'
  <2>1. \A m \in Nodos : EnCola(m)' \cap DeSubida \subseteq EnCola(m) /\ EnCola(m)' \cap Escriben \subseteq EnCola(m)
    BY <1>5
  <2>2. Atrasos'
    BY <1>1, <1>2, <2>1, PartesDe, DatosDe, AtrasosQuedan
  <2>3. Escrituras'
    BY <1>1, <1>2, <2>1, DatosDe, EscriturasQuedan
  <2> QED
    BY <2>2, <2>3
<1>9. Escritas'
  <2> SUFFICES ASSUME Limpia', NEW p \in Puestas' PROVE EnDisco(p)' \/ EnEspera(p)' \/ EnMano(p)'
    BY DEF Escritas
  <2>1. Limpia /\ SinCarrera /\ p \in Puestas
    BY <1>1, <1>3
  <2>2. (EnDisco(p) => EnDisco(p)') /\ (EnMano(p) => EnMano(p)')
    BY DEF EnDisco, EnMano, Sirve
  <2>3. ASSUME EnEspera(p) PROVE EnEspera(p)'
    <3>1. PICK o \in EnCola(p.en.nodo) : o \in Escriben /\ o.num = p.en.num
      BY <2>3 DEF EnEspera
    <3>2. p.en.nodo \in Nodos /\ p.en = [nodo |-> p.en.nodo, num |-> p.en.num]
      BY <2>1, PartesDe, PuestaEs, TipoCopiaEs
    <3>3. CASE o \in EnCola(p.en.nodo)'
      BY <3>1, <3>3 DEF EnEspera, Escriben
    <3>4. CASE p.en.nodo = n /\ o = op
      <4>1. EsSitio(p, n, op)
        BY <3>1, <3>2, <3>4 DEF EsSitio
      <4>2. EsDe(op, p)
        BY <1>1, <2>1, <3>1, <3>4, <4>1, DatosDe DEF Escrituras, UnaMenos
      <4>3. op \in DeSubida /\ cpmut = Nadie /\ p.id = op.sub
        BY <1>4, <2>1, <4>2 DEF EsDe, DeSubida
      <4>4. op \in EnCola(n)
        BY <1>1 DEF UnaMenos
      <4> QED
        BY <2>1, <4>3, <4>4, SubidaViva
    <3> QED
      BY <1>5, <3>1, <3>2, <3>3, <3>4
  <2> QED
    BY <2>1, <2>2, <2>3, DatosDe DEF Escritas
<1>10. Recuento'
  <2> SUFFICES ASSUME SinCarrera', NEW t \in Hilos, Mapeada(t)' PROVE FALSE
    BY DEF Recuento
  <2>1. cpmut # t
    BY <1>3, <1>4, Constantes
  <2>2. Mapeada(t)
    BY <1>1 DEF MismasSubidas, MismaSubida
  <2> QED
    BY <2>1, <2>2, PartesDe DEF Exclusion, Excluye
<1>11. CaidaExplicada'
  <2> SUFFICES ASSUME hist \cap {"carrera", "desfase", "crece", "vacio"} = {} PROVE FALSE
    BY DEF CaidaExplicada
  <2>1. SinCarrera /\ Estable
    BY DEF SinCarrera, Estable, EnRegla
  <2>2. cpmut # Nadie
    BY <1>1, <1>4, <2>1, DatosDe DEF Atrasos, Atrasada, UnaMenos
  <2> QED
    BY <1>4, <2>1, <2>2
<1>12. Bajada'
  <2>1. CASE SinCarrera
    <3>1. op \notin Leen
      BY <1>4, <2>1 DEF DeSubida, Escriben, Leen
    <3>2. \A m \in Nodos : EnCola(m)' \cap Leen = EnCola(m) \cap Leen
      BY <1>5, <3>1
    <3>3. Esperan(Leen)' = Esperan(Leen)
      <4>1. Esperan(Leen)' = Esperan(Leen) - 0
        BY <1>1, <3>1 DEF UnaMenos
      <4> QED
        BY <4>1, EsperanEs
    <3> QED
      BY <1>2, <3>2, <3>3, DatosDe, BajadaSigue
  <2>2. CASE ~ SinCarrera
    <3>1. ~ SinCarrera' /\ ~ Limpia'
      BY <1>3, <2>2
    <3>2. orden'.tipo = "baja" => DeArchivo' /\ orden'.paso <= Len(orden'.bloques) + 1
      BY <1>2, DatosDe DEF Bajada, DeArchivo
    <3> QED
      BY <3>1, <3>2 DEF Bajada
  <2> QED
    BY <2>1, <2>2
<1> QED
  BY <1>1, <1>6, <1>7, <1>8, <1>9, <1>10, <1>11, <1>12 DEF Datos

(* What a handler writes where a copy is, is the block of that copy.        *)
LEMMA LecturaFiel ==
  ASSUME IInv, Datos, Limpia, NEW n \in Nodos, NEW op \in EnCola(n), op \in Escriben,
         NEW p \in Puestas, EsSitio(p, n, op), NEW dato \in Lecturas(op)
  PROVE  dato = <<p.id, p.b>>
<1>1. EsDe(op, p) /\ SinCarrera
  BY DatosDe, ReglasEs DEF Escrituras
<1>2. CASE op.sub = 0
  BY <1>1, <1>2 DEF EsDe, Lecturas
<1>3. CASE op.sub # 0
  <2>1. op \in DeSubida /\ op.sub = p.id /\ op.idx = p.b
    BY <1>1, <1>3 DEF DeSubida, EsDe
  <2>2. cpmut # Nadie
    BY <1>1, <2>1, SubidaViva
  <2>3. /\ cpmut \in Hilos /\ Mapeada(cpmut) /\ hilo[cpmut].id = op.sub
        /\ mapas[hilo[cpmut].ino][op.idx] = <<op.sub, op.idx>>
    BY <1>1, <2>1, <2>2, Alcanza
  <2>4. \A u \in Hilos : Mapeada(u) <=> u = cpmut
    BY PartesDe DEF Exclusion, Excluye
  <2> DEFINE suyo == {hilo[t].ino : t \in {u \in Hilos : Mapeada(u) /\ hilo[u].id = op.sub}}
             mapeado == {hilo[t].ino : t \in {u \in Hilos : Mapeada(u)}} \cup
                        (IF orden.tipo = "baja" THEN {orden.ino} ELSE {})
             inodos == IF suyo # {} THEN suyo ELSE mapeado
  <2>5. Lecturas(op) = {mapas[i][op.idx] : i \in {j \in inodos : op.idx <= Len(mapas[j])}}
    BY <1>3 DEF Lecturas
  <2>6. suyo = {hilo[cpmut].ino}
    BY <2>3, <2>4
  <2>7. inodos = {hilo[cpmut].ino}
    BY <2>6
  <2> HIDE DEF inodos
  <2>8. dato = mapas[hilo[cpmut].ino][op.idx]
    BY <2>5, <2>7
  <2> QED
    BY <2>1, <2>3, <2>8
<1> QED
  BY <1>2, <1>3

(* Where the block is written, and where it is not.                         *)
Escribe(n, op, dato) ==
  \A m \in Nodos : \A i \in Bits(m) :
    disco'[m][i] = IF m = n /\ i = op.num /\ n \in conexion THEN dato ELSE disco[m][i]

LEMMA EscribeEs ==
  ASSUME TypeOK, NEW n \in Nodos, NEW op, op.num \in Bits(n) \cup {-1}, NEW dato,
         disco' = IF n \in conexion /\ op.num # -1 THEN [disco EXCEPT ![n][op.num] = dato] ELSE disco
  PROVE  Escribe(n, op, dato)
<1>1. DOMAIN disco = Nodos /\ \A m \in Nodos : disco[m] \in [Bits(m) -> Dato]
  BY DEF TypeOK, TipoDiscos
<1>2. CASE n \in conexion /\ op.num # -1
  <2>1. PICK i \in Bits(n) : i = op.num
    BY <1>2
  <2>2. PICK d : d = [disco[n] EXCEPT ![i] = dato]
    OBVIOUS
  <2>3. \A j \in Bits(n) : d[j] = IF j = i THEN dato ELSE disco[n][j]
    BY <1>1, <2>2
  <2>4. disco'[n] = d /\ \A m \in Nodos \ {n} : disco'[m] = disco[m]
    BY <1>1, <1>2, <2>1, <2>2
  <2>5. ASSUME NEW m \in Nodos, NEW j \in Bits(m)
        PROVE  disco'[m][j] = IF m = n /\ j = i THEN dato ELSE disco[m][j]
    <3>1. CASE m = n
      BY <2>3, <2>4, <3>1
    <3>2. CASE m # n
      BY <2>4, <3>2
    <3> QED
      BY <3>1, <3>2
  <2> QED
    BY <1>2, <2>1, <2>5 DEF Escribe
<1>3. CASE n \notin conexion \/ op.num = -1
  <2>1. disco' = disco /\ (op.num \in Bits(n) => n \notin conexion)
    BY <1>3, BitsEs
  <2> QED
    BY <2>1 DEF Escribe
<1> QED
  BY <1>2, <1>3

(* The last block of an upload wakes its thread, which waits for it.        *)
LEMMA EnviadoEs ==
  ASSUME IInv, Datos, NEW n \in Nodos, NEW op \in EnCola(n), op \in Escriben, BloqueEnviado, fs = "vivo",
         SinCarrera, op.sub = 0 => ~ (bsent.current < bsent.total)
  PROVE  /\ bsent'.current = bsent.current + 1 /\ bsent'.total = bsent.total /\ bsent'.th = bsent.th
         /\ op \in DeSubida \/ bsent.current >= bsent.total
         /\ \/ suenio' = suenio
            \/ /\ bsent.current + 1 = bsent.total /\ cpmut = bsent.th /\ cpmut \in Hilos
               /\ suenio' = [suenio EXCEPT ![cpmut] = @ + 1]
         /\ fs' = "vivo"
<1>1. bsent \in [th : Hilos, current : Nat, total : Int]
  BY PartesDe DEF TypeOK, TipoSubida
<1>2. bsent'.current = bsent.current + 1 /\ bsent'.total = bsent.total /\ bsent'.th = bsent.th
  <2>1. PICK c : c = bsent.current + 1
    OBVIOUS
  <2>2. bsent' = [bsent EXCEPT !.current = c]
    BY <2>1 DEF BloqueEnviado
  <2> QED
    BY <1>1, <2>1, <2>2
<1>3. op \in DeSubida \/ bsent.current >= bsent.total
  <2>1. op.sub = 0 => bsent.current >= bsent.total
    BY <1>1
  <2> QED
    BY <2>1 DEF DeSubida
<1>4. ASSUME bsent.current + 1 = bsent.total PROVE op \in DeSubida
  <2>1. ~ (bsent.current >= bsent.total)
    BY <1>1, <1>4
  <2> QED
    BY <1>3, <2>1
<1>5. ASSUME bsent.current + 1 = bsent.total
      PROVE  cpmut = bsent.th /\ cpmut \in Hilos /\ hilo[bsent.th].pc # "fin"
  <2>1. ~ (bsent.current >= bsent.total)
    BY <1>1, <1>5
  <2>2. cpmut # Nadie
    BY <1>4, <1>5, <2>1, DatosDe DEF Atrasos, Atrasada
  <2>3. cpmut \in Hilos /\ Mapeada(cpmut) /\ bsent.th = cpmut
    BY <1>4, <1>5, <2>2, Alcanza
  <2> QED
    BY <2>3 DEF Mapeada
<1>6. \/ suenio' = suenio
      \/ /\ bsent.current + 1 = bsent.total /\ cpmut = bsent.th /\ cpmut \in Hilos
         /\ suenio' = [suenio EXCEPT ![cpmut] = @ + 1]
  BY <1>5 DEF BloqueEnviado
<1>7. fs' = "vivo"
  BY <1>5 DEF BloqueEnviado
<1> QED
  BY <1>2, <1>3, <1>6, <1>7

LEMMA EscribirDatos ==
  ASSUME IInv, Datos, NEW n \in Nodos, NEW op, Sirve(n, op), EscribirBloque(n, op)
  PROVE  Datos'
<1>1. /\ op.tipo = "manda" /\ BloqueEnviado /\ conexion' \in TrasBloque(n, op)
      /\ hist' = hist \cup SiPerdio(n) \cup (IF op.sub = 0 /\ bsent.current < bsent.total THEN {"carrera"} ELSE {})
      /\ orden' = orden /\ mapas' = mapas
  BY DEF EscribirBloque
<1>2. PICK dato \in Lecturas(op) :
        disco' = IF n \in conexion /\ op.num # -1 THEN [disco EXCEPT ![n][op.num] = dato] ELSE disco
  BY DEF EscribirBloque
<1>3. /\ op \in TipoOp /\ op.num \in Bits(n) \cup {-1} /\ fs = "vivo"
      /\ espacio' = espacio /\ archivos' = archivos /\ hilo' = hilo /\ cpmut' = cpmut /\ hist \subseteq hist'
  BY DEF Sirve
<1>4. Escribe(n, op, dato)
  BY <1>2, <1>3, PartesDe, EscribeEs
<1>5. UnaMenos(n, op) /\ ConManejador' /\ MismasSubidas /\ Puestas' = Puestas /\ Envios'
  BY SirveEs
<1>6. op \in Escriben /\ op \notin Leen /\ op \in EnCola(n) /\ n \in manejador
  BY <1>1, <1>3, <1>5 DEF Escriben, Leen, UnaMenos
<1>7. /\ SinCarrera' => SinCarrera /\ (op.sub = 0 => ~ (bsent.current < bsent.total))
      /\ Limpia' => Limpia /\ SinCarrera' /\ n \in conexion
      /\ Estable' => SinCarrera'
  <2>1. /\ SinCarrera' => "carrera" \notin hist'
        /\ Limpia' => "perdio" \notin hist'
    BY DEF SinCarrera, Limpia, EnRegla
  <2>2. (Limpia' => SinCarrera') /\ (Estable' => SinCarrera')
    BY DEF SinCarrera, Limpia, Estable, EnRegla
  <2>3. "perdio" \notin hist' => n \in conexion
    BY <1>1, <1>6 DEF SiPerdio, Activos
  <2>4. "carrera" \notin hist' => (op.sub = 0 => ~ (bsent.current < bsent.total))
    BY <1>1
  <2> QED
    BY <1>3, <2>1, <2>2, <2>3, <2>4, ReglasQuedan
<1>8. bsent'.current = bsent.current + 1 /\ bsent'.total = bsent.total /\ bsent'.th = bsent.th
      /\ bsent.current \in Nat /\ bsent.total \in Int
  <2>1. bsent \in [th : Hilos, current : Nat, total : Int]
    BY PartesDe DEF TypeOK, TipoSubida
  <2>2. PICK c : c = bsent.current + 1
    OBVIOUS
  <2>3. bsent' = [bsent EXCEPT !.current = c]
    BY <1>1, <2>2 DEF BloqueEnviado
  <2> QED
    BY <2>1, <2>2, <2>3
<1>9. SinCarrera' => /\ op \in DeSubida \/ bsent.current >= bsent.total
                     /\ \/ suenio' = suenio
                        \/ /\ bsent.current + 1 = bsent.total /\ cpmut = bsent.th /\ cpmut \in Hilos
                           /\ suenio' = [suenio EXCEPT ![cpmut] = @ + 1]
                     /\ fs' = "vivo"
  BY <1>1, <1>3, <1>6, <1>7, EnviadoEs
<1>10. \A m \in Nodos : /\ \A o \in EnCola(m)' : o \in EnCola(m)
                        /\ \A o \in EnCola(m) : o \in EnCola(m)' \/ (m = n /\ o = op)
  BY <1>5 DEF UnaMenos
<1>11. Memoria' /\ Leida'
  BY <1>1, <1>3, <1>5, DatosDe, MemoriaQueda, LeidaQueda
<1>12. Holgura'
  BY <1>1, <1>8, SirveHolgura
<1>13. Atrasos' /\ Escrituras'
  <2>1. \A m \in Nodos : EnCola(m)' \cap DeSubida \subseteq EnCola(m) /\ EnCola(m)' \cap Escriben \subseteq EnCola(m)
    BY <1>10
  <2>2. bsent.current >= bsent.total => bsent'.current >= bsent'.total
    BY <1>8
  <2>3. Atrasos'
    BY <1>3, <1>5, <2>1, <2>2, PartesDe, DatosDe, AtrasosQuedan
  <2>4. Escrituras'
    BY <1>1, <1>3, <1>5, <2>1, DatosDe, EscriturasQuedan
  <2> QED
    BY <2>3, <2>4
<1>14. CaidaExplicada'
  <2> SUFFICES ASSUME hist' \cap {"carrera", "desfase", "crece", "vacio"} = {} PROVE fs' = "vivo"
    BY DEF CaidaExplicada
  <2>1. SinCarrera'
    BY DEF SinCarrera, EnRegla
  <2> QED
    BY <1>9, <2>1
<1>15. Escritas'
  <2> SUFFICES ASSUME Limpia', NEW p \in Puestas' PROVE EnDisco(p)' \/ EnEspera(p)' \/ EnMano(p)'
    BY DEF Escritas
  <2>1. Limpia /\ n \in conexion /\ p \in Puestas
    BY <1>5, <1>7
  <2>2. Reservada(p)
    BY <2>1, PartesDe, ReglasEs DEF Reservas
  <2>3. p.en.nodo \in Nodos /\ p.en = [nodo |-> p.en.nodo, num |-> p.en.num]
    BY <2>1, PartesDe, PuestaEs, TipoCopiaEs
  <2>4. p.en.num \in Bits(p.en.nodo)
    BY <2>2, <2>3, PartesDe, TipoEspacioEs DEF Reservada
  <2>5. CASE p.en.nodo = n /\ p.en.num = op.num
    <3>1. EsSitio(p, n, op)
      BY <2>3, <2>5 DEF EsSitio
    <3>2. dato = <<p.id, p.b>>
      BY <1>6, <2>1, <3>1, LecturaFiel
    <3>3. disco'[p.en.nodo][p.en.num] = dato
      BY <1>4, <2>1, <2>3, <2>4, <2>5 DEF Escribe
    <3> QED
      BY <3>2, <3>3 DEF EnDisco
  <2>6. CASE ~ (p.en.nodo = n /\ p.en.num = op.num)
    <3>1. EnDisco(p) => EnDisco(p)'
      <4>1. disco'[p.en.nodo][p.en.num] = disco[p.en.nodo][p.en.num]
        BY <1>4, <2>3, <2>4, <2>6 DEF Escribe
      <4> QED
        BY <4>1 DEF EnDisco
    <3>2. EnEspera(p) => EnEspera(p)'
      BY <1>10, <2>3, <2>6 DEF EnEspera, Escriben
    <3>3. EnMano(p) => EnMano(p)'
      BY <1>3 DEF EnMano
    <3> QED
      BY <2>1, <3>1, <3>2, <3>3, DatosDe DEF Escritas
  <2> QED
    BY <2>5, <2>6
<1>16. Recuento'
  <2> SUFFICES ASSUME SinCarrera', NEW t \in Hilos, Mapeada(t)'
               PROVE  Enviados' + Esperan(DeSubida)' + PorMandar(t)' <= hilo'[t].guardados
    BY DEF Recuento
  <2>1. Mapeada(t) /\ SinCarrera /\ PorMandar(t)' = PorMandar(t)
    BY <1>3, <1>7 DEF Mapeada, PorMandar
  <2>2. Enviados + Esperan(DeSubida) + PorMandar(t) <= hilo[t].guardados
    BY <2>1, DatosDe DEF Recuento
  <2>3. PICK k, l, a, z, e, x, w, g :
          /\ k = bsent.current /\ l = bsent.total /\ a = Enviados /\ z = Enviados'
          /\ e = Esperan(DeSubida) /\ x = Esperan(DeSubida)' /\ w = PorMandar(t) /\ g = hilo[t].guardados
    OBVIOUS
  <2>4. /\ k \in Nat /\ l \in Int /\ e \in Nat /\ w \in Nat /\ g \in Nat
        /\ a + e + w <= g
    BY <1>8, <2>2, <2>3, PartesDe, TipoHiloEs, EsperanEs DEF PorMandar
  <2>5. a = IF k <= l THEN k ELSE l
    BY <2>3 DEF Enviados
  <2>6. z = IF k + 1 <= l THEN k + 1 ELSE l
    BY <1>8, <2>3 DEF Enviados
  <2>7. \/ x = e - 1
        \/ x = e - 0 /\ k >= l
    <3>1. CASE op \in DeSubida
      BY <1>5, <2>3, <3>1 DEF UnaMenos
    <3>2. CASE op \notin DeSubida
      BY <1>5, <1>9, <2>3, <3>2 DEF UnaMenos
    <3> QED
      BY <3>1, <3>2
  <2>8. z + x + w <= g
    BY ONLY <2>4, <2>5, <2>6, <2>7
  <2> QED
    BY <1>3, <2>1, <2>3, <2>8
<1>17. Despierto'
  <2> SUFFICES ASSUME SinCarrera', NEW t \in Hilos
               PROVE  suenio'[t] <= 1 /\ (suenio'[t] = 1 => PorSubida(t)' \/ PorBajada(t)')
    BY DEF Despierto
  <2>1. suenio[t] <= 1 /\ (suenio[t] = 1 => PorSubida(t) \/ PorBajada(t)) /\ SinCarrera
    BY <1>7, DatosDe DEF Despierto
  <2>2. (PorSubida(t) => PorSubida(t)') /\ (PorBajada(t)' <=> PorBajada(t))
    BY <1>1, <1>3, <1>8 DEF PorSubida, PorBajada
  <2>3. CASE suenio'[t] = suenio[t]
    BY <2>1, <2>2, <2>3
  <2>4. CASE t = cpmut /\ bsent.current + 1 = bsent.total /\ suenio'[t] = suenio[t] + 1
    <3>1. ~ PorSubida(t)
      BY <1>8, <2>4 DEF PorSubida
    <3>2. ~ PorBajada(t)
      <4>1. cpmut # Nadie
        BY <2>4, Constantes
      <4>2. orden.tipo # "baja"
        BY <2>1, <4>1, DatosDe DEF Memoria
      <4> QED
        BY <4>2 DEF PorBajada
    <3>3. suenio[t] \in Nat
      BY PartesDe DEF TypeOK, TipoSubida
    <3>4. suenio[t] = 0
      BY <2>1, <3>1, <3>2, <3>3
    <3>5. PorSubida(t)'
      BY <1>3, <1>8, <2>4 DEF PorSubida
    <3> QED
      BY <2>4, <3>4, <3>5
  <2>5. suenio \in [Hilos -> Nat]
    BY PartesDe DEF TypeOK, TipoSubida
  <2> QED
    BY <1>9, <2>3, <2>4, <2>5
<1>18. Bajada'
  <2>1. \A m \in Nodos : EnCola(m)' \cap Leen = EnCola(m) \cap Leen
    BY <1>6, <1>10
  <2>2. Esperan(Leen)' = Esperan(Leen)
    <3>1. Esperan(Leen)' = Esperan(Leen) - 0
      BY <1>5, <1>6 DEF UnaMenos
    <3> QED
      BY <3>1, EsperanEs
  <2>3. SinCarrera' /\ orden'.tipo # "baja" => NadaPedido'
    BY <1>1, <1>7, <2>1, DatosDe DEF Bajada, NadaPedido, Leen
  <2>4. orden.tipo = "baja" => DeArchivo' /\ orden'.paso <= Len(orden'.bloques) + 1
    BY <1>1, <1>3, DatosDe DEF Bajada, DeArchivo
  <2>5. \A m, o, b : EsPedido(m, o, b)' <=> EsPedido(m, o, b)
    BY <1>1 DEF EsPedido
  <2>6. SinCarrera' /\ orden.tipo = "baja" => Pedidos'
    <3> SUFFICES ASSUME SinCarrera', orden.tipo = "baja" PROVE Pedidos'
      OBVIOUS
    <3>1. Pedidos
      BY <1>7, DatosDe DEF Bajada
    <3> QED
      BY <1>1, <2>1, <2>2, <2>5, <3>1 DEF Pedidos, Leen
  <2>7. Limpia' /\ orden.tipo = "baja" => EnSuSitio'
    <3> SUFFICES ASSUME Limpia', orden.tipo = "baja" PROVE EnSuSitio'
      OBVIOUS
    <3>1. Limpia /\ EnSuSitio /\ DeArchivo
      BY <1>7, DatosDe DEF Bajada
    <3>2. \A b : Recibido(b) => Recibido(b)'
      <4> TAKE b
      <4>1. mapas[orden.ino][b] = <<orden.id, b>> => mapas'[orden'.ino][b] = <<orden'.id, b>>
        BY <1>1
      <4>2. (\E m \in Nodos : \E o \in EnCola(m) \cap Leen : EsPedido(m, o, b))
            => (\E m \in Nodos : \E o \in EnCola(m)' \cap Leen : EsPedido(m, o, b)')
        BY <2>1, <2>5
      <4>3. orden.current + Esperan(Leen) < orden.paso - 1 => orden'.current + Esperan(Leen)' < orden'.paso - 1
        BY <1>1, <2>2
      <4> QED
        BY <4>1, <4>2, <4>3 DEF Recibido, Leen
    <3>3. ASSUME NEW m \in Nodos, NEW o \in EnCola(m)' \cap Leen, NEW b \in DOMAIN orden'.bloques, EsPedido(m, o, b)'
          PROVE  disco'[m][o.num] = <<orden'.id, b>>
      <4>1. o \in EnCola(m) \cap Leen /\ b \in DOMAIN orden.bloques /\ EsPedido(m, o, b)
        BY <1>1, <2>1, <2>5, <3>3
      <4>2. o.num \in Bits(m) \cup {-1}
        BY <4>1, PartesDe, EnColaEs
      <4>3. o.num \in Bits(m) /\ disco[m][o.num] = <<orden.id, b>>
        BY <3>1, <4>1, <4>2, PedidoUnico
      <4>4. CASE m = n /\ o.num = op.num
        <5>1. PICK p \in Puestas : p.id = orden.id /\ p.b = b /\ p.en = [nodo |-> m, num |-> o.num]
          BY <3>1, <4>1, <4>2, CopiaPedida
        <5>2. EsSitio(p, n, op)
          BY <4>4, <5>1 DEF EsSitio
        <5>3. dato = <<p.id, p.b>>
          BY <1>6, <3>1, <5>2, LecturaFiel
        <5>4. disco'[m][o.num] = IF n \in conexion THEN dato ELSE disco[m][o.num]
          BY <1>4, <4>3, <4>4 DEF Escribe
        <5> QED
          BY <1>1, <4>3, <5>1, <5>3, <5>4
      <4>5. CASE ~ (m = n /\ o.num = op.num)
        <5>1. disco'[m][o.num] = disco[m][o.num]
          BY <1>4, <4>3, <4>5 DEF Escribe
        <5> QED
          BY <1>1, <4>3, <5>1
      <4> QED
        BY <4>4, <4>5
    <3> QED
      BY <1>1, <3>1, <3>2, <3>3 DEF EnSuSitio, Leen
  <2> QED
    BY <1>1, <2>3, <2>4, <2>6, <2>7 DEF Bajada
<1> QED
  BY <1>5, <1>11, <1>12, <1>13, <1>14, <1>15, <1>16, <1>17, <1>18 DEF Datos

(* A handler takes its next operation.                                      *)
LEMMA AtenderDatos ==
  ASSUME IInv, Datos, NEW n \in Nodos, Atender(n)
  PROVE  Datos'
<1>1. /\ fs = "vivo" /\ cola[n] # <<>> /\ cola' = [cola EXCEPT ![n] = Tail(@)]
      /\ lista' = lista /\ manejador' = manejador /\ espacio' = espacio /\ archivos' = archivos
      /\ hilo' = hilo /\ cpmut' = cpmut
  BY DEF Atender
<1>2. TipoColas /\ \A m \in Nodos : \A i \in DOMAIN cola[m] : EsOp(cola[m][i])
  BY PartesDe DEF TypeOK, Operaciones
<1>3. PICK op \in TipoOp : op = Head(cola[n]) /\ EsOp(op) /\ op.num \in Bits(n) \cup {-1}
  BY <1>1, <1>2, ColaBaja
<1>4. hist \subseteq hist' => Sirve(n, op)
  BY <1>1, <1>3 DEF Sirve
<1>5. CASE EscribirBloque(n, op)
  <2>1. hist \subseteq hist'
    BY <1>5 DEF EscribirBloque
  <2> QED
    BY <1>4, <1>5, <2>1, EscribirDatos
<1>6. CASE LeerBloque(n, op)
  <2>1. /\ op.tipo = "recibe" /\ conexion' \in TrasBloque(n, op)
        /\ fs' = fs /\ disco' = disco /\ bsent' = bsent /\ hist' = hist
    BY <1>6 DEF LeerBloque
  <2>2. Sirve(n, op)
    BY <1>4, <2>1
  <2>3. CASE n \notin conexion'
    <3>1. mapas' = mapas /\ orden' = orden /\ suenio' = suenio
      BY <1>6, <2>3 DEF LeerBloque
    <3> QED
      BY <2>1, <2>2, <3>1, LeerNadaDatos
  <2>4. CASE n \in conexion'
    <3>1. /\ Indices(n, op) # {}
          /\ mapas' = [mapas EXCEPT ![orden.ino][Min(Indices(n, op))] =
                         IF op.num = -1 THEN Cero ELSE disco[n][op.num]]
          /\ orden' = [orden EXCEPT !.current = @ + 1]
          /\ suenio' = (IF orden.current + 1 = Len(orden.bloques)
                        THEN [suenio EXCEPT ![Consola] = @ + 1] ELSE suenio)
      BY <1>6, <2>4 DEF LeerBloque
    <3> QED
      BY <2>1, <2>2, <3>1, LeerLlegaDatos
  <2> QED
    BY <2>3, <2>4
<1>7. CASE /\ PuedeCaer(n, op)
           /\ disco' = disco /\ conexion' = conexion /\ orden' = orden /\ bsent' = bsent
           /\ suenio' = suenio /\ mapas' = mapas /\ hist' = hist
  BY <1>4, <1>7, CaerDatos
<1> QED
  BY <1>3, <1>5, <1>6, <1>7 DEF Atender

(* A restart: nothing waits, and what is stored stays where it was.         *)
LEMMA ReiniciarDatos ==
  ASSUME IInv, Datos, NEW limpio \in BOOLEAN, Reiniciar(limpio)
  PROVE  Datos'
<1>1. /\ fs' = "vivo" /\ manejador' = {} /\ orden' = SinOrden /\ cpmut' = Nadie
      /\ suenio' = [t \in Hilos |-> 0] /\ cola' = [n \in Nodos |-> <<>>]
      /\ disco' = disco /\ archivos' = archivos /\ hist \subseteq hist'
      /\ \A n \in Nodos : \A i \in DOMAIN cola[n] : cola[n][i].tipo = "manda" => "perdio" \in hist'
  BY DEF Reiniciar
<1>2. TypeOK /\ Exclusion /\ Nombres /\ Escritas
  BY PartesDe, DatosDe
<1>3. \A t \in Hilos : hilo'[t].pc \in {"libre", "fin"} /\ hilo'[t].envio = SinEnvio /\ CopiasDe(hilo'[t]) = {}
  BY <1>2, ReiniciarHilos
<1>4. \A t \in Hilos : ~ Mapeada(t)'
  BY <1>3 DEF Mapeada
<1>5. \A n \in Nodos : cola'[n] = <<>> /\ EnCola(n)' = {}
  BY <1>1 DEF EnCola
<1>6. orden'.tipo = "no"
  BY <1>1 DEF SinOrden
<1>7. ConManejador' /\ Atrasos' /\ Escrituras'
  BY <1>1, <1>5 DEF ConManejador, Atrasos, Escrituras
<1>8. Memoria' /\ Recuento' /\ Holgura' /\ Leida' /\ Envios'
  BY <1>3, <1>4, <1>6 DEF Memoria, Recuento, Holgura, Leida, Envios
<1>9. Despierto'
  <2>1. \A t \in Hilos : suenio'[t] = 0
    BY <1>1
  <2> QED
    BY <2>1 DEF Despierto
<1>10. Bajada'
  BY <1>5, <1>6 DEF Bajada, NadaPedido
<1>11. CaidaExplicada'
  BY <1>1 DEF CaidaExplicada
<1>12. Escritas'
  <2> SUFFICES ASSUME Limpia', NEW p \in Puestas' PROVE EnDisco(p)'
    BY DEF Escritas, EnDisco
  <2>1. Limpia /\ "perdio" \notin hist'
    BY <1>1, ReglasQuedan DEF Limpia, EnRegla
  <2>2. PICK f \in archivos : p \in CopiasDe(f)
    <3>1. p \in PuestasEn(archivos', hilo')
      BY DEF Puestas
    <3> QED
      BY <1>1, <1>3, <3>1, PuestasEs
  <2>3. p \in Puestas /\ EsCopia(f.bloques, f.id, p)
    BY <2>2, EsCopiaSii, PuestasEs DEF Puestas
  <2>4. p.id = f.id /\ p.en \in TipoCopia /\ p.en # SinCopia
    BY <1>2, <2>3, PuestaEs DEF EsCopia
  <2>5. ~ EnMano(p)
    BY <1>2, <2>4 DEF EnMano, Nombres, Nombrado
  <2>6. ~ EnEspera(p)
    <3>1. p.en.nodo \in Nodos
      BY <2>4, TipoCopiaEs
    <3> SUFFICES ASSUME NEW op \in EnCola(p.en.nodo) \cap Escriben PROVE FALSE
      BY DEF EnEspera
    <3>2. PICK i \in DOMAIN cola[p.en.nodo] : op = cola[p.en.nodo][i]
      BY DEF EnCola
    <3> QED
      BY <1>1, <2>1, <3>1, <3>2 DEF Escriben
  <2>7. EnDisco(p)
    BY <1>2, <2>1, <2>3, <2>5, <2>6 DEF Escritas
  <2> QED
    BY <1>1, <2>7 DEF EnDisco
<1> QED
  BY <1>7, <1>8, <1>9, <1>10, <1>11, <1>12 DEF Datos

-----------------------------------------------------------------------------
(* The invariant holds at the start, and every step keeps it. *)

LEMMA InitDatos ==
  ASSUME Init
  PROVE  Datos
<1>1. /\ fs = "vivo" /\ lista = Nodos /\ manejador = Nodos /\ archivos = {} /\ orden.tipo = "no"
      /\ \A n \in Nodos : cola[n] = <<>>
      /\ \A t \in Hilos : hilo[t].pc = "libre" /\ hilo[t].envio = SinEnvio /\ suenio[t] = 0
  BY DEF Init, SinSubir, SinOrden
<1>2. \A t \in Hilos : ~ Mapeada(t)
  BY <1>1 DEF Mapeada
<1>3. \A n \in Nodos : EnCola(n) = {}
  BY <1>1, EnColaVacia
<1>4. Puestas = {}
  <2> SUFFICES ASSUME NEW p, p \in PuestasEn(archivos, hilo) PROVE FALSE
    BY DEF Puestas
  <2>1. Exclusion
    BY InitPasa, PartesDe
  <2>2. \E t \in Hilos : p \in CopiasDe(hilo[t])
    BY <1>1, PuestasEs
  <2> QED
    BY <1>2, <2>1, <2>2, NadaPuesto
<1>5. ConManejador /\ Atrasos /\ Escrituras /\ Escritas
  BY <1>1, <1>3, <1>4 DEF ConManejador, Atrasos, Escrituras, Escritas
<1>6. Memoria /\ Recuento /\ Holgura /\ Leida /\ Envios
  BY <1>1, <1>2 DEF Memoria, Recuento, Holgura, Leida, Envios
<1>7. Despierto /\ CaidaExplicada
  BY <1>1 DEF Despierto, CaidaExplicada
<1>8. Bajada
  BY <1>1, <1>3 DEF Bajada, NadaPedido
<1> QED
  BY <1>5, <1>6, <1>7, <1>8 DEF Datos

LEMMA PasoDatos ==
  ASSUME IInv, Datos, Next
  PROVE  Datos'
<1>0. IInv'
  BY PasoPasa
<1>1. CASE \E t \in Hilos : Subir(t) \/ \E ruta \in Rutas : Pedir(t, ruta)
  <2>1. PICK t \in Hilos : Subir(t) \/ \E ruta \in Rutas : Pedir(t, ruta)
    BY <1>1
  <2>2. CASE \E ruta \in Rutas : Pedir(t, ruta)
    BY <2>2, PedirDatos
  <2>3. CASE \E k \in 0 .. MaxBloques : Entrar(t, k)
    BY <1>0, <2>3, EntrarDatos
  <2>4. CASE Repartir(t)
    BY <1>0, <2>4, RepartirDatos
  <2>5. CASE Mandar(t)
    BY <1>0, <2>5, MandarDatos
  <2>6. CASE Terminar(t)
    BY <1>0, <2>6, TerminarDatos
  <2> QED
    BY <2>1, <2>2, <2>3, <2>4, <2>5, <2>6 DEF Subir
<1>2. CASE Ordenes
  BY <1>0, <1>2, BorrarDatos, BajarDatos, BorrarCopiaDatos, CopiarEligeDatos DEF Ordenes
<1>3. CASE Formatear
  BY <1>0, <1>3, FormatearDatos
<1>4. CASE CopiarLee \/ CopiarEscribe \/ BajarPide \/ BajarTermina
  BY <1>0, <1>4, CopiarLeeDatos, CopiarEscribeDatos, BajarPideDatos, BajarTerminaDatos
<1>5. CASE \E n \in Nodos : Atender(n) \/ Cae(n) \/ Conectar(n)
  BY <1>0, <1>5, AtenderDatos, CaeDatos, ConectarDatos
<1>6. CASE \E limpio \in BOOLEAN : Reiniciar(limpio)
  BY <1>6, ReiniciarDatos
<1> QED
  BY <1>1, <1>2, <1>3, <1>4, <1>5, <1>6 DEF Next

-----------------------------------------------------------------------------
(* What the invariant says of the copies and of the downloads. *)

LEMMA DatosIntegros ==
  ASSUME IInv, Datos
  PROVE  Integridad
<1> SUFFICES ASSUME Limpia, NEW f \in archivos, NEW b \in DOMAIN f.bloques, NEW c \in Par,
                    f.bloques[b][c] # SinCopia
    PROVE  \/ disco[f.bloques[b][c].nodo][f.bloques[b][c].num] = <<f.id, b>>
           \/ \E i \in DOMAIN cola[f.bloques[b][c].nodo] :
                /\ cola[f.bloques[b][c].nodo][i].tipo = "manda"
                /\ cola[f.bloques[b][c].nodo][i].num = f.bloques[b][c].num
                /\ cola[f.bloques[b][c].nodo][i].dato = <<f.id, b>>
  BY DEF Integridad, Limpia
<1>1. TypeOK /\ Exclusion /\ Nombres /\ Escritas /\ Escrituras /\ Atrasos /\ SinCarrera
  BY PartesDe, DatosDe, ReglasEs
<1>2. PICK p, k, n, j : /\ p = [id |-> f.id, b |-> b, c |-> c, en |-> f.bloques[b][c]]
                        /\ k = f.bloques[b][c] /\ n = k.nodo /\ j = k.num
  OBVIOUS
<1>3. p \in Puestas /\ p.id = f.id /\ p.b = b /\ p.en = k /\ k # SinCopia
  BY <1>2, CopiaDeArchivo
<1>4. n \in Nodos /\ p.en = [nodo |-> n, num |-> j] /\ p.en.nodo = n /\ p.en.num = j
  <2>1. p.en \in TipoCopia
    BY <1>1, <1>3, PuestaEs
  <2> QED
    BY <1>2, <1>3, <2>1, TipoCopiaEs
<1>5. ~ EnMano(p)
  BY <1>1, <1>3 DEF EnMano, Nombres, Nombrado
<1>6. EnDisco(p) => disco[n][j] = <<f.id, b>>
  BY <1>3, <1>4 DEF EnDisco
<1>7. ASSUME EnEspera(p)
      PROVE  \E i \in DOMAIN cola[n] : cola[n][i].tipo = "manda" /\ cola[n][i].num = j /\ cola[n][i].dato = <<f.id, b>>
  <2>1. PICK op \in EnCola(n) \cap Escriben : op.num = j
    BY <1>4, <1>7 DEF EnEspera
  <2>2. EsDe(op, p)
    BY <1>1, <1>3, <1>4, <2>1 DEF Escrituras, EsSitio
  <2>3. op.sub = 0
    <3> SUFFICES ASSUME op.sub # 0 PROVE FALSE
      OBVIOUS
    <3>1. op \in DeSubida /\ op.sub = f.id
      BY <1>3, <2>1, <2>2 DEF DeSubida, EsDe
    <3> QED
      BY <1>1, <1>4, <2>1, <3>1 DEF Atrasos, Atrasada
  <2>4. op.dato = <<f.id, b>> /\ op.tipo = "manda"
    BY <1>3, <2>1, <2>2, <2>3 DEF EsDe, Escriben
  <2>5. PICK i \in DOMAIN cola[n] : op = cola[n][i]
    BY <2>1 DEF EnCola
  <2> QED
    BY <2>1, <2>4, <2>5
<1>8. EnDisco(p) \/ EnEspera(p)
  BY <1>1, <1>3, <1>5 DEF Escritas
<1> QED
  BY <1>2, <1>6, <1>7, <1>8

LEMMA DatosFieles ==
  ASSUME IInv, Datos
  PROVE  BajadaFiel
<1> SUFFICES ASSUME BajadaLista, Limpia
    PROVE  mapas[orden.ino] = [i \in DOMAIN orden.bloques |-> <<orden.id, i>>]
  BY DEF BajadaFiel, Limpia
<1>1. SinCarrera
  BY ReglasEs
<1>2. /\ NadaPedido /\ orden.tipo = "baja"
      /\ orden.paso - 1 = Len(orden.bloques) /\ Len(orden.bloques) \in Nat
      /\ ~ (orden.current + Esperan(Leen) < orden.paso - 1)
  BY <1>1, BajadaCompleta
<1>3. orden \in TipoBajar
  BY <1>2, PartesDe DEF TypeOK, TipoOrden, TipoCopiar, SinOrden
<1>4. orden.ino \in Inodos /\ DOMAIN orden.bloques = 1 .. Len(orden.bloques)
  BY <1>3 DEF TipoBajar, TipoBloques
<1>5. PICK m, l : m = mapas[orden.ino] /\ l = Len(orden.bloques)
  OBVIOUS
<1>6. m \in Seq(Dato) /\ Len(m) = l
  BY <1>1, <1>2, <1>4, <1>5, PartesDe, DatosDe DEF TypeOK, TipoMapas, Memoria
<1>7. \A b \in 1 .. l : m[b] = <<orden.id, b>>
  <2>1. \A b \in 1 .. l : Recibido(b)
    BY <1>2, <1>5, DatosDe DEF Bajada, EnSuSitio
  <2> QED
    BY <1>2, <1>5, <2>1 DEF Recibido, NadaPedido
<1>8. m = [i \in 1 .. l |-> m[i]]
  BY <1>6
<1>9. m = [i \in 1 .. l |-> <<orden.id, i>>]
  BY <1>7, <1>8
<1> QED
  BY <1>4, <1>5, <1>9

-----------------------------------------------------------------------------
(* What is true of the blocks in every reachable state. *)

(* Both invariants hold in every reachable state: what waits to be written  *)
(* or read, what each upload and the download have in memory, how many      *)
(* blocks were sent and who may be woken.                                   *)
THEOREM DatosInvariante == Spec => [](IInv /\ Datos)
<1>1. Init => IInv /\ Datos
  BY InitPasa, InitDatos
<1>2. (IInv /\ Datos) /\ [Next]_vars => (IInv /\ Datos)'
  BY PasoPasa, NadaPasa, PasoDatos, NadaDatos
<1> QED
  BY <1>1, <1>2, PTL DEF Spec

(* The node of each copy of a stored file holds the block in the bit of the *)
(* copy, or its handler is about to write it there: filetable_cpblock,      *)
(* nodelist_addblock and the deletes never put two blocks in one place.     *)
THEOREM IntegridadSiempre == Spec => []Integridad
<1>1. IInv /\ Datos => Integridad
  BY DatosIntegros
<1> QED
  BY <1>1, DatosInvariante, PTL

(* When receive_file is woken, metadata/blocks holds every block of the     *)
(* file in its place: filetable_writeblock counts no block twice and writes *)
(* none to another's place.                                                 *)
THEOREM BajadaFielSiempre == Spec => []BajadaFiel
<1>1. IInv /\ Datos => BajadaFiel
  BY DatosFieles
<1> QED
  BY <1>1, DatosInvariante, PTL

(* The same, and that no bit is lost, when the process stops and starts     *)
(* again with the files that it wrote.                                      *)
THEOREM TrasReinicioSiempre == Spec => []TrasReinicio
<1>1. BitsJustificados /\ Integridad /\ BajadaFiel => TrasReinicio
  BY DEF TrasReinicio
<1> QED
  BY <1>1, BitsJustificadosSiempre, IntegridadSiempre, BajadaFielSiempre, PTL

(* The process only ends on an empty file, once a command of the console    *)
(* met an upload, once blocks were freed or a node came back during one, or *)
(* once a restart read older bitmaps.  Otherwise no handler reads memory    *)
(* that is not mapped or wakes a thread that has ended, and no command      *)
(* follows the null pointer of a node that left the list.                   *)
THEOREM CaidaExplicadaSiempre == Spec => []CaidaExplicada
<1>1. IInv /\ Datos => CaidaExplicada
  BY DatosDe
<1> QED
  BY <1>1, DatosInvariante, PTL
=============================================================================
