-------------------------- MODULE FileStoreProofs --------------------------
(***************************************************************************)
(* Theorems about FileStore, for every value of its constants: the bits,   *)
(* the counters of free blocks and the copies of stored files agree, every *)
(* stored block keeps a copy and its two are on different nodes.           *)
(***************************************************************************)
EXTENDS FileStore, Sumas, SequenceTheorems

-----------------------------------------------------------------------------
(* The inductive invariant. *)

(* The thread with the mutex is the one in the middle of an upload; the    *)
(* console does one thing at a time.                                       *)
ConBloques(t) ==
  LET h == hilo[t] IN
  /\ h.bloques # <<>> /\ Len(h.bloques) <= MaxBloques /\ h.ino \in Inodos
  /\ h.paso \in 1 .. 2 * Len(h.bloques) + 1 /\ bsent.th = t
  /\ h.pc = "manda" => h.paso <= 2 * Len(h.bloques)

Excluye(t) ==
  /\ Mapeada(t) <=> cpmut = t
  /\ hilo[t].pc = "manda" <=> hilo[t].envio # SinEnvio
  /\ IF Mapeada(t) THEN ConBloques(t)
     ELSE hilo[t].bloques = <<>> /\ hilo[t].ino = 0 /\ hilo[t].guardados = 0
  /\ hilo[t].pc \notin {"libre", "fin"} => hilo[t].ruta \in Rutas

Exclusion ==
  /\ \A t \in Hilos : Excluye(t)
  /\ orden # SinOrden => hilo[Consola].pc = "libre"

(* Uploads are numbered; a file keeps the number of its upload. *)
EsLibre(t) == hilo[t].pc \in {"libre", "fin"}

Nombrado(t) ==
  /\ hilo[t].id <= cuenta.subidas
  /\ hilo[t].id = 0 <=> EsLibre(t)
  /\ \A f \in archivos : f.id # hilo[t].id
  /\ \A u \in Hilos : hilo[t].id = hilo[u].id /\ hilo[t].id # 0 => t = u

Nombres ==
  /\ \A f \in archivos : f.id \in 1 .. cuenta.subidas /\ Len(f.bloques) <= MaxBloques
  /\ \A f, g \in archivos : f.id = g.id => f = g
  /\ \A t \in Hilos : Nombrado(t)

(* The operations of uploads carry the index of a block. *)
EsOp(op) == op.sub # 0 => op.idx \in 1 .. MaxBloques

Operaciones ==
  /\ \A n \in Nodos : \A i \in DOMAIN cola[n] : EsOp(cola[n][i])
  /\ \A t \in Hilos : hilo[t].envio # SinEnvio => EsOp(hilo[t].envio.op)

(* cpblock has a file with one copy of the block, on another node. *)
FaltaUna(par, n) ==
  \E c \in Par : par[c] = SinCopia /\ par[3 - c] # SinCopia /\ par[3 - c].nodo # n

EnCopia ==
  orden.tipo = "copia" =>
    /\ orden.nodo \in lista
    /\ \E f \in archivos : /\ f.id = orden.id /\ orden.b \in DOMAIN f.bloques
                           /\ FaltaUna(f.bloques[orden.b], orden.nodo)

(* The two passes of an upload: what has been placed, and in which copy. *)
Hechos(h) == IF h.pc = "manda" THEN h.paso ELSE h.paso - 1

EnPasada(h, b) ==
  LET par == h.bloques[b] IN
  /\ par[1] = SinCopia => par[2] = SinCopia
  /\ par[1] # SinCopia => par[1].nodo # par[2].nodo
  /\ Hechos(h) < b => par[1] = SinCopia
  /\ Hechos(h) < Len(h.bloques) + b => par[2] = SinCopia

Avance ==
  \A t \in Hilos : Mapeada(t) =>
    /\ hilo[t].guardados <= Hechos(hilo[t])
    /\ \A b \in DOMAIN hilo[t].bloques : EnPasada(hilo[t], b)

(* Unless space appeared, an upload that found no node for a block finds   *)
(* none later, and then it has placed less copies than blocks.             *)
SinLugar == \A n \in lista \cap Activos : espacio[n].libres <= 0

Agotado ==
  EnRegla({"crece"}) =>
    \A t \in Hilos : Mapeada(t) =>
      \/ \A b \in DOMAIN hilo[t].bloques : b <= Hechos(hilo[t]) => hilo[t].bloques[b][1] # SinCopia
      \/ hilo[t].guardados < Len(hilo[t].bloques) /\ SinLugar

(* The copies of stored files and of the upload in progress. *)
PuestasEn(A, H) == (UNION {CopiasDe(f) : f \in A}) \cup (UNION {CopiasDe(H[t]) : t \in Hilos})
Puestas == PuestasEn(archivos, hilo)

Reservada(p) == p.en.nodo \in lista /\ p.en.num \in espacio[p.en.nodo].ocupados

Reservas ==
  EnRegla({"carrera", "desfase"}) =>
    \A p \in Puestas : Reservada(p) /\ \A q \in Puestas : p.en = q.en => p = q

DeAlguna(n, i) == \E p \in Puestas : p.en.nodo = n /\ p.en.num = i

Justificados ==
  EnRegla({"carrera", "desfase", "fuga"}) =>
    \A n \in lista : \A i \in espacio[n].ocupados : DeAlguna(n, i)

IInv ==
  /\ TypeOK /\ Exclusion /\ Nombres /\ Operaciones /\ EnCopia
  /\ Avance /\ Agotado /\ LibresCuadra /\ Reservas /\ Justificados /\ TablaSana

-----------------------------------------------------------------------------
(* The least of a set of numbers, and the least of the bits. *)

LEMMA HayMinimo ==
  ASSUME NEW S \in SUBSET Nat, S # {}
  PROVE  Min(S) \in S /\ \A x \in S : Min(S) <= x
<1>1. PICK m \in S : \A x \in S : ~ (<<x, m>> \in OpToRel(<, Nat))
  BY NatLessThanWellFounded, WFMin
<1>2. \A x \in S : m <= x
  <2> SUFFICES ASSUME NEW x \in S PROVE ~ (x < m)
    OBVIOUS
  <2>1. ~ (<<x, m>> \in OpToRel(<, Nat)) /\ x \in Nat /\ m \in Nat
    BY <1>1
  <2> QED
    BY <2>1 DEF OpToRel
<1> QED
  BY <1>1, <1>2 DEF Min

LEMMA Constantes ==
  /\ Nadie \notin Nodos /\ Nadie \notin Hilos /\ Consola \in Hilos
  /\ IsFiniteSet(Nodos) /\ MaxBloques \in Nat /\ MaxSubidas \in Nat
  /\ \A n \in Nodos : Total[n] \in Nat \ {0}
<1>1. IsFiniteSet(Nodos)
  <2>1. OrdenNodos \in Seq(Nodos)
    BY StoreAssumption
  <2>2. Len(OrdenNodos) \in Nat /\ DOMAIN OrdenNodos = 1 .. Len(OrdenNodos)
    BY <2>1
  <2>3. OrdenNodos \in Surjection(1 .. Len(OrdenNodos), Nodos)
    BY <2>1, <2>2 DEF Surjection, Nodos
  <2> QED
    BY <2>2, <2>3, FS_NatSurjection DEF ExistsSurjection
<1> QED
  BY <1>1, StoreAssumption DEF Hilos

LEMMA BitsEs ==
  ASSUME NEW n \in Nodos
  PROVE  /\ IsFiniteSet(Bits(n)) /\ Cardinality(Bits(n)) = Total[n] /\ Bits(n) \subseteq Nat
         /\ Total[n] \in Nat \ {0} /\ -1 \notin Bits(n)
<1>1. Total[n] \in Nat \ {0}
  BY Constantes
<1> QED
  BY <1>1, FS_Interval, SMTT(30) DEF Bits

(* What the types give of each variable. *)
LEMMA TipoEspacioEs ==
  ASSUME TypeOK, NEW n \in Nodos
  PROVE  /\ espacio[n].ocupados \subseteq Bits(n) /\ espacio[n].archivo \subseteq Bits(n)
         /\ espacio[n].libres \in Int /\ espacio[n].bin \in Int
         /\ espacio[n] \in TipoEspacio(n) /\ IsFiniteSet(espacio[n].ocupados)
<1>1. espacio[n] \in TipoEspacio(n)
  BY DEF TypeOK, TipoEspacios
<1>2. espacio[n].ocupados \subseteq Bits(n)
  BY <1>1 DEF TipoEspacio
<1>3. IsFiniteSet(espacio[n].ocupados)
  BY <1>2, BitsEs, FS_Subset
<1> QED
  BY <1>1, <1>3 DEF TipoEspacio

LEMMA TipoHiloEs ==
  ASSUME TypeOK, NEW t \in Hilos
  PROVE  /\ hilo[t].pc \in TipoPc /\ hilo[t].ruta \in TipoRuta /\ hilo[t].id \in Nat
         /\ hilo[t].bloques \in TipoBloques /\ hilo[t].paso \in Nat /\ hilo[t].guardados \in Nat
         /\ hilo[t].ino \in TipoIno /\ hilo[t].envio \in TipoEnvio
         /\ hilo[t] \in TipoHilo
<1>1. hilo[t] \in TipoHilo
  BY DEF TypeOK, TipoHilos
<1> QED
  BY <1>1 DEF TipoHilo

LEMMA TipoArchivoEs ==
  ASSUME TypeOK, NEW f \in archivos
  PROVE  f.ruta \in Rutas /\ f.id \in Nat /\ f.bloques \in TipoBloques /\ f \in TipoArchivo
<1>1. f \in TipoArchivo
  BY DEF TypeOK
<1> QED
  BY <1>1 DEF TipoArchivo

LEMMA TipoCopiaEs ==
  ASSUME NEW k \in TipoCopia
  PROVE  /\ k # SinCopia => k.nodo \in Nodos /\ k.num \in Bits(k.nodo) \cup {-1}
         /\ k = [nodo |-> k.nodo, num |-> k.num]
         /\ k = SinCopia <=> k.nodo = Nadie
         /\ SinCopia.nodo = Nadie
<1>1. SinCopia.nodo = Nadie /\ SinCopia = [nodo |-> SinCopia.nodo, num |-> SinCopia.num]
  BY DEF SinCopia
<1>2. CASE k = SinCopia
  BY <1>1, <1>2
<1>3. CASE \E n \in Nodos : k \in Sitio(n)
  <2>1. PICK n \in Nodos : k \in Sitio(n)
    BY <1>3
  <2>2. k.nodo = n /\ k.num \in Bits(n) \cup {-1} /\ k = [nodo |-> k.nodo, num |-> k.num]
    BY <2>1 DEF Sitio
  <2> QED
    BY <1>1, <2>2, Constantes
<1> QED
  BY <1>2, <1>3 DEF TipoCopia

LEMMA TipoParEs ==
  ASSUME NEW bl \in TipoBloques, NEW b \in DOMAIN bl
  PROVE  /\ DOMAIN bl = 1 .. Len(bl) /\ Len(bl) \in Nat /\ b \in Nat \ {0} /\ b <= Len(bl)
         /\ bl[b] \in TipoCopia \X TipoCopia /\ DOMAIN bl[b] = Par
         /\ bl[b][1] \in TipoCopia /\ bl[b][2] \in TipoCopia
         /\ \A c \in Par : bl[b][c] \in TipoCopia
<1>1. bl \in Seq(TipoCopia \X TipoCopia)
  BY DEF TipoBloques
<1>2. bl[b] \in TipoCopia \X TipoCopia
  BY <1>1
<1>3. bl[b][1] \in TipoCopia /\ bl[b][2] \in TipoCopia /\ DOMAIN bl[b] = Par
  BY <1>2 DEF Par
<1> QED
  BY <1>1, <1>2, <1>3 DEF Par

-----------------------------------------------------------------------------
(* What a step leaves alone keeps its part of the invariant. *)
LEMMA TiposQuedan ==
  /\ TipoNodos /\ fs' = fs /\ cpmut' = cpmut /\ lista' = lista /\ conexion' = conexion
     /\ manejador' = manejador => TipoNodos'
  /\ TipoEspacios /\ espacio' = espacio => TipoEspacios'
  /\ TipoDiscos /\ disco' = disco => TipoDiscos'
  /\ TipoColas /\ cola' = cola => TipoColas'
  /\ TipoHilos /\ hilo' = hilo => TipoHilos'
  /\ TipoOrden /\ orden' = orden => TipoOrden'
  /\ TipoSubida /\ bsent' = bsent /\ suenio' = suenio => TipoSubida'
  /\ TipoMapas /\ mapas' = mapas /\ blocks' = blocks => TipoMapas'
<1>1. TipoNodos /\ fs' = fs /\ cpmut' = cpmut /\ lista' = lista /\ conexion' = conexion
      /\ manejador' = manejador => TipoNodos'
  BY DEF TipoNodos
<1>2. TipoEspacios /\ espacio' = espacio => TipoEspacios'
  BY DEF TipoEspacios
<1>3. TipoDiscos /\ disco' = disco => TipoDiscos'
  BY DEF TipoDiscos
<1>4. TipoColas /\ cola' = cola => TipoColas'
  BY DEF TipoColas, TipoCola
<1>5. TipoHilos /\ hilo' = hilo => TipoHilos'
  BY DEF TipoHilos
<1>6. TipoOrden /\ orden' = orden => TipoOrden'
  BY DEF TipoOrden
<1>7. TipoSubida /\ bsent' = bsent /\ suenio' = suenio => TipoSubida'
  BY DEF TipoSubida
<1>8. TipoMapas /\ mapas' = mapas /\ blocks' = blocks => TipoMapas'
  BY DEF TipoMapas
<1> QED
  BY <1>1, <1>2, <1>3, <1>4, <1>5, <1>6, <1>7, <1>8

LEMMA PartesQuedan ==
  /\ Exclusion /\ hilo' = hilo /\ cpmut' = cpmut /\ bsent'.th = bsent.th /\ (orden' = orden \/ orden' = SinOrden)
     => Exclusion'
  /\ Nombres /\ archivos' = archivos /\ hilo' = hilo /\ cuenta'.subidas = cuenta.subidas => Nombres'
  /\ Operaciones /\ cola' = cola /\ hilo' = hilo => Operaciones'
  /\ EnCopia /\ orden' = orden /\ lista' = lista /\ archivos' = archivos => EnCopia'
  /\ Avance /\ hilo' = hilo => Avance'
<1>1. Exclusion /\ hilo' = hilo /\ cpmut' = cpmut /\ bsent'.th = bsent.th
      /\ (orden' = orden \/ orden' = SinOrden) => Exclusion'
  BY DEF Exclusion, Excluye, ConBloques, Mapeada
<1>2. Nombres /\ archivos' = archivos /\ hilo' = hilo /\ cuenta'.subidas = cuenta.subidas => Nombres'
  BY DEF Nombres, Nombrado, EsLibre
<1>3. Operaciones /\ cola' = cola /\ hilo' = hilo => Operaciones'
  BY DEF Operaciones
<1>4. EnCopia /\ orden' = orden /\ lista' = lista /\ archivos' = archivos => EnCopia'
  BY DEF EnCopia
<1>5. Avance /\ hilo' = hilo => Avance'
  BY DEF Avance, Mapeada
<1> QED
  BY <1>1, <1>2, <1>3, <1>4, <1>5

Sigue(t) ==
  Mapeada(t)' => /\ Mapeada(t) /\ hilo'[t].bloques = hilo[t].bloques
                 /\ hilo'[t].guardados = hilo[t].guardados /\ Hechos(hilo'[t]) = Hechos(hilo[t])

MismoNombre(t) == hilo'[t].id = hilo[t].id /\ (EsLibre(t)' <=> EsLibre(t))

LEMMA NombresSiguen ==
  ASSUME Nombres, archivos' = archivos, cuenta'.subidas = cuenta.subidas,
         \A t \in Hilos : MismoNombre(t)
  PROVE  Nombres'
<1>1. \A t \in Hilos : Nombrado(t)'
  BY DEF Nombres, Nombrado, MismoNombre
<1> QED
  BY <1>1 DEF Nombres

(* Fewer nodes answer, or something was freed: no space for an upload. *)
MenosLugar ==
  /\ hist \subseteq hist'
  /\ EnRegla({"crece"})' => espacio' = espacio
  /\ EnRegla({"crece"})' => (lista \cap Activos)' \subseteq lista \cap Activos

LEMMA AgotadoSigue ==
  ASSUME Agotado, MenosLugar, \A t \in Hilos : Sigue(t)
  PROVE  Agotado'
<1> SUFFICES ASSUME EnRegla({"crece"})', NEW t \in Hilos, Mapeada(t)'
    PROVE  (\/ \A b \in DOMAIN hilo[t].bloques : b <= Hechos(hilo[t]) => hilo[t].bloques[b][1] # SinCopia
            \/ hilo[t].guardados < Len(hilo[t].bloques) /\ SinLugar)'
  BY DEF Agotado
<1>1. EnRegla({"crece"}) /\ Mapeada(t)
  BY DEF EnRegla, Sigue, MenosLugar
<1>2. \/ \A b \in DOMAIN hilo[t].bloques : b <= Hechos(hilo[t]) => hilo[t].bloques[b][1] # SinCopia
      \/ hilo[t].guardados < Len(hilo[t].bloques) /\ SinLugar
  BY <1>1 DEF Agotado
<1>3. SinLugar => SinLugar'
  BY DEF SinLugar, MenosLugar
<1> QED
  BY <1>1, <1>2, <1>3 DEF Sigue

LEMMA AgotadoQueda ==
  ASSUME Agotado, hilo' = hilo, hist \subseteq hist', EnRegla({"crece"})' => espacio' = espacio,
         EnRegla({"crece"})' => (lista \cap Activos)' \subseteq lista \cap Activos
  PROVE  Agotado'
<1>1. \A t \in Hilos : Sigue(t)
  BY DEF Sigue, Mapeada
<1>2. MenosLugar
  BY DEF MenosLugar
<1> QED
  BY <1>1, <1>2, AgotadoSigue

LEMMA TablaQueda ==
  ASSUME TablaSana, archivos' = archivos, hist \subseteq hist'
  PROVE  TablaSana'
<1>1. RutaUnica'
  BY DEF TablaSana, RutaUnica
<1>2. CopiasDistintas'
  BY DEF TablaSana, CopiasDistintas, EnRegla
<1> QED
  BY <1>1, <1>2 DEF TablaSana

-----------------------------------------------------------------------------
(* The copies that are placed. *)

LEMMA CopiasDeEs ==
  ASSUME NEW f, NEW p
  PROVE  p \in CopiasDe(f) <=>
           \E b \in DOMAIN f.bloques : \E c \in Par :
             f.bloques[b][c] # SinCopia /\ p = [id |-> f.id, b |-> b, c |-> c, en |-> f.bloques[b][c]]
<1> DEFINE Copia(b, c) == [id |-> f.id, b |-> b, c |-> c, en |-> f.bloques[b][c]]
<1>1. ASSUME p \in CopiasDe(f)
      PROVE  \E b \in DOMAIN f.bloques : \E c \in Par : f.bloques[b][c] # SinCopia /\ p = Copia(b, c)
  <2>1. PICK x \in (DOMAIN f.bloques) \X Par : f.bloques[x[1]][x[2]] # SinCopia /\ p = Copia(x[1], x[2])
    BY <1>1, Zenon DEF CopiasDe
  <2>2. x[1] \in DOMAIN f.bloques /\ x[2] \in Par
    OBVIOUS
  <2> QED
    BY <2>1, <2>2, Zenon
<1>2. ASSUME NEW b \in DOMAIN f.bloques, NEW c \in Par, f.bloques[b][c] # SinCopia, p = Copia(b, c)
      PROVE  p \in CopiasDe(f)
  <2>1. PICK x : x = <<b, c>>
    OBVIOUS
  <2>2. x \in (DOMAIN f.bloques) \X Par /\ x[1] = b /\ x[2] = c
    BY <2>1
  <2>3. x \in {y \in (DOMAIN f.bloques) \X Par : f.bloques[y[1]][y[2]] # SinCopia}
    BY <1>2, <2>2
  <2>4. p = Copia(x[1], x[2])
    BY <1>2, <2>2
  <2> QED
    BY <2>3, <2>4, Zenon DEF CopiasDe
<1> QED
  BY <1>1, <1>2, Zenon

LEMMA CopiasIguales ==
  ASSUME NEW f, NEW g, f.id = g.id, f.bloques = g.bloques
  PROVE  CopiasDe(f) = CopiasDe(g)
BY DEF CopiasDe

LEMMA SinCopias ==
  ASSUME NEW f, \A b \in DOMAIN f.bloques : \A c \in Par : f.bloques[b][c] = SinCopia
  PROVE  CopiasDe(f) = {}
BY DEF CopiasDe

LEMMA NadaPuesto ==
  ASSUME Exclusion, NEW t \in Hilos, ~ Mapeada(t)
  PROVE  hilo[t].bloques = <<>> /\ hilo[t].ino = 0 /\ hilo[t].guardados = 0 /\ CopiasDe(hilo[t]) = {}
<1>1. hilo[t].bloques = <<>> /\ hilo[t].ino = 0 /\ hilo[t].guardados = 0
  BY DEF Exclusion, Excluye
<1>2. DOMAIN hilo[t].bloques = {}
  BY <1>1
<1> QED
  BY <1>1, <1>2, SinCopias

LEMMA PuestasEs ==
  ASSUME NEW A, NEW H, NEW p
  PROVE  p \in PuestasEn(A, H) <=>
           (\E f \in A : p \in CopiasDe(f)) \/ (\E t \in Hilos : p \in CopiasDe(H[t]))
<1>1. p \in UNION {CopiasDe(f) : f \in A} <=> \E f \in A : p \in CopiasDe(f)
  OBVIOUS
<1>2. p \in UNION {CopiasDe(H[t]) : t \in Hilos} <=> \E t \in Hilos : p \in CopiasDe(H[t])
  OBVIOUS
<1> QED
  BY <1>1, <1>2, Zenon DEF PuestasEn

LEMMA PuestasIguales ==
  ASSUME archivos' = archivos, \A t \in Hilos : CopiasDe(hilo'[t]) = CopiasDe(hilo[t])
  PROVE  Puestas' = Puestas
<1>1. \A p : p \in PuestasEn(archivos', hilo') <=> p \in PuestasEn(archivos, hilo)
  BY PuestasEs
<1>2. PuestasEn(archivos', hilo') = PuestasEn(archivos, hilo)
  BY <1>1, Zenon
<1> QED
  BY <1>2 DEF Puestas

(* The numbers of free blocks, the bits and the copies agree. *)
Cuentas == LibresCuadra /\ Reservas /\ Justificados

LEMMA CuentasQuedan ==
  ASSUME Cuentas, espacio' = espacio, lista' = lista, Puestas' = Puestas, hist \subseteq hist'
  PROVE  Cuentas'
<1>1. /\ EnRegla({"carrera", "desfase"})' => EnRegla({"carrera", "desfase"})
      /\ EnRegla({"carrera", "desfase", "fuga"})' => EnRegla({"carrera", "desfase", "fuga"})
  BY DEF EnRegla
<1>2. LibresCuadra'
  BY <1>1 DEF Cuentas, LibresCuadra
<1>3. Reservas'
  BY <1>1 DEF Cuentas, Reservas, Reservada
<1>4. Justificados'
  BY <1>1 DEF Cuentas, Justificados, DeAlguna
<1> QED
  BY <1>2, <1>3, <1>4 DEF Cuentas

-----------------------------------------------------------------------------
(* Every step keeps the invariant: one lemma per action. *)

LEMMA CaePasa ==
  ASSUME IInv, NEW n \in Nodos, Cae(n)
  PROVE  IInv'
<1>1. /\ conexion' = conexion \ {n} /\ cuenta' = [cuenta EXCEPT !.caidas = @ + 1]
      /\ fs' = fs /\ lista' = lista /\ manejador' = manejador /\ espacio' = espacio /\ disco' = disco
      /\ archivos' = archivos /\ hilo' = hilo /\ orden' = orden /\ cpmut' = cpmut /\ bsent' = bsent
      /\ suenio' = suenio /\ cola' = cola /\ mapas' = mapas /\ blocks' = blocks /\ hist' = hist
  BY DEF Cae, subidaVars, mapaVars
<1>2. TypeOK /\ Exclusion /\ Nombres /\ Operaciones /\ EnCopia /\ Avance /\ Agotado /\ Cuentas /\ TablaSana
  BY DEF IInv, Cuentas
<1>3. cuenta' \in TipoCuenta /\ cuenta'.subidas = cuenta.subidas
  BY <1>1, <1>2 DEF TypeOK, TipoCuenta
<1>4. TypeOK'
  BY <1>1, <1>2, <1>3, TiposQuedan DEF TypeOK, TipoNodos
<1>5. Exclusion' /\ Nombres' /\ Operaciones' /\ EnCopia' /\ Avance'
  BY <1>1, <1>2, <1>3, PartesQuedan
<1>6. Agotado'
  BY <1>1, <1>2, AgotadoQueda DEF Activos
<1>7. Cuentas'
  BY <1>1, <1>2, CuentasQuedan, PuestasIguales
<1>8. TablaSana'
  BY <1>1, <1>2, TablaQueda
<1> QED
  BY <1>4, <1>5, <1>6, <1>7, <1>8 DEF IInv, Cuentas

LEMMA ConectarPasa ==
  ASSUME IInv, NEW n \in Nodos, Conectar(n)
  PROVE  IInv'
<1>1. /\ conexion' = conexion \cup {n} /\ manejador' = (manejador \ (lista \ conexion)) \cup {n}
      /\ hist' = hist \cup SiCrece
      /\ fs' = fs /\ lista' = lista /\ espacio' = espacio /\ disco' = disco
      /\ archivos' = archivos /\ hilo' = hilo /\ orden' = orden /\ cpmut' = cpmut /\ bsent' = bsent
      /\ suenio' = suenio /\ cola' = cola /\ mapas' = mapas /\ blocks' = blocks /\ cuenta' = cuenta
  BY DEF Conectar, subidaVars, mapaVars
<1>2. TypeOK /\ Exclusion /\ Nombres /\ Operaciones /\ EnCopia /\ Avance /\ Agotado /\ Cuentas /\ TablaSana
  BY DEF IInv, Cuentas
<1>3. hist \subseteq hist' /\ hist' \subseteq Historia
  BY <1>1, <1>2 DEF TypeOK, SiCrece, Historia
<1>4. TypeOK'
  BY <1>1, <1>2, <1>3, TiposQuedan DEF TypeOK, TipoNodos
<1>5. Exclusion' /\ Nombres' /\ Operaciones' /\ EnCopia' /\ Avance'
  BY <1>1, <1>2, <1>3, PartesQuedan
<1>6. Agotado'
  <2>1. CASE cpmut = Nadie
    <3>1. \A t \in Hilos : ~ Mapeada(t)
      BY <1>2, <2>1, Constantes DEF Exclusion, Excluye
    <3> QED
      BY <1>1, <3>1 DEF Agotado, Mapeada
  <2>2. CASE cpmut # Nadie
    BY <1>1, <2>2 DEF Agotado, EnRegla, SiCrece
  <2> QED
    BY <2>1, <2>2
<1>7. Cuentas'
  BY <1>1, <1>2, <1>3, CuentasQuedan, PuestasIguales
<1>8. TablaSana'
  BY <1>1, <1>2, <1>3, TablaQueda
<1> QED
  BY <1>4, <1>5, <1>6, <1>7, <1>8 DEF IInv, Cuentas

LEMMA BajarTerminaPasa ==
  ASSUME IInv, BajarTermina
  PROVE  IInv'
<1>1. /\ suenio' = [suenio EXCEPT ![Consola] = @ - 1] /\ suenio[Consola] > 0
      /\ blocks' = 0 /\ orden' = SinOrden
      /\ fs' = fs /\ lista' = lista /\ conexion' = conexion /\ manejador' = manejador
      /\ espacio' = espacio /\ disco' = disco /\ archivos' = archivos /\ hilo' = hilo
      /\ cpmut' = cpmut /\ bsent' = bsent /\ cola' = cola /\ mapas' = mapas
      /\ cuenta' = cuenta /\ hist' = hist
  BY DEF BajarTermina, BajadaLista, nodoVars
<1>2. TypeOK /\ Exclusion /\ Nombres /\ Operaciones /\ EnCopia /\ Avance /\ Agotado /\ Cuentas /\ TablaSana
  BY DEF IInv, Cuentas
<1>3. suenio' \in [Hilos -> Nat]
  BY <1>1, <1>2, Constantes DEF TypeOK, TipoSubida
<1>4. TypeOK'
  <2>1. TipoOrden'
    BY <1>1 DEF TipoOrden, SinOrden
  <2>2. TipoMapas' /\ TipoSubida'
    BY <1>1, <1>2, <1>3 DEF TypeOK, TipoMapas, TipoIno, TipoSubida
  <2> QED
    BY <1>1, <1>2, <2>1, <2>2, TiposQuedan DEF TypeOK
<1>5. Exclusion' /\ Nombres' /\ Operaciones' /\ Avance'
  BY <1>1, <1>2, PartesQuedan
<1>6. EnCopia'
  BY <1>1 DEF EnCopia, SinOrden
<1>7. Agotado'
  BY <1>1, <1>2, AgotadoQueda DEF Activos
<1>8. Cuentas'
  BY <1>1, <1>2, CuentasQuedan, PuestasIguales
<1>9. TablaSana'
  BY <1>1, <1>2, TablaQueda
<1> QED
  BY <1>4, <1>5, <1>6, <1>7, <1>8, <1>9 DEF IInv, Cuentas

(* cpblock finds its file, with one copy of the block. *)
LEMMA DeOrdenEs ==
  ASSUME TypeOK, Nombres, EnCopia, orden.tipo = "copia"
  PROVE  /\ DeOrden \in archivos /\ DeOrden.id = orden.id /\ orden \in TipoCopiar
         /\ orden.nodo \in lista /\ orden.b \in DOMAIN DeOrden.bloques
         /\ FaltaUna(DeOrden.bloques[orden.b], orden.nodo)
<1>1. PICK f \in archivos : f.id = orden.id /\ orden.b \in DOMAIN f.bloques
                           /\ FaltaUna(f.bloques[orden.b], orden.nodo)
  BY DEF EnCopia
<1>2. DeOrden = f
  <2>1. DeOrden \in archivos /\ DeOrden.id = orden.id
    BY <1>1 DEF DeOrden
  <2> QED
    BY <1>1, <2>1 DEF Nombres
<1>3. orden \in TipoCopiar
  BY DEF TypeOK, TipoOrden, TipoBajar, SinOrden
<1> QED
  BY <1>1, <1>2, <1>3 DEF EnCopia

LEMMA FaltaUnaEs ==
  ASSUME NEW par \in TipoCopia \X TipoCopia, NEW n, FaltaUna(par, n)
  PROVE  /\ par[1] # SinCopia => par[2] = SinCopia /\ par[1].nodo # n
         /\ par[1] = SinCopia => par[2] # SinCopia /\ par[2].nodo # n
BY DEF FaltaUna, Par

LEMMA CopiarLeePasa ==
  ASSUME IInv, CopiarLee
  PROVE  IInv'
<1>1. /\ orden.tipo = "copia" /\ fs' \in {fs, "caido"} /\ hist' \in {hist, hist \cup {"indice"}}
      /\ \/ orden' = orden
         \/ orden' = [orden EXCEPT !.paso = 2, !.dato = Leido(Existente.nodo, orden.b - 1)]
         \/ orden' = [orden EXCEPT !.paso = 3, !.dato = Leido(Existente.nodo, orden.b - 1)]
      /\ lista' = lista /\ conexion' \subseteq conexion /\ manejador' = manejador
      /\ espacio' = espacio /\ disco' = disco /\ archivos' = archivos /\ hilo' = hilo
      /\ cpmut' = cpmut /\ bsent' = bsent /\ suenio' = suenio /\ cola' = cola /\ mapas' = mapas
      /\ blocks' = blocks /\ cuenta' = cuenta
  BY DEF CopiarLee, TrasLeer, subidaVars, mapaVars
<1>2. TypeOK /\ Exclusion /\ Nombres /\ Operaciones /\ EnCopia /\ Avance /\ Agotado /\ Cuentas /\ TablaSana
  BY DEF IInv, Cuentas
<1>3. hist \subseteq hist' /\ hist' \subseteq Historia
  BY <1>1, <1>2 DEF TypeOK, Historia
<1>4. DeOrden \in archivos /\ orden.b \in DOMAIN DeOrden.bloques /\ orden \in TipoCopiar
      /\ FaltaUna(DeOrden.bloques[orden.b], orden.nodo)
  BY <1>1, <1>2, DeOrdenEs
<1>5. PICK bl : bl = DeOrden.bloques
  OBVIOUS
<1>6. bl \in TipoBloques /\ Len(bl) <= MaxBloques /\ orden.b \in DOMAIN bl /\ FaltaUna(bl[orden.b], orden.nodo)
  BY <1>2, <1>4, <1>5, TipoArchivoEs DEF Nombres
<1>7. orden.b \in Nat \ {0} /\ bl[orden.b] \in TipoCopia \X TipoCopia
      /\ bl[orden.b][1] \in TipoCopia /\ bl[orden.b][2] \in TipoCopia
  BY <1>6, TipoParEs, Constantes
<1>8. Existente \in TipoCopia /\ Existente # SinCopia
  BY <1>5, <1>6, <1>7, FaltaUnaEs DEF Existente
<1>9. Existente.nodo \in Nodos
  BY <1>8, TipoCopiaEs
<1>10. PICK dato : dato = Leido(Existente.nodo, orden.b - 1)
  OBVIOUS
<1>11. dato \in Dato
  BY <1>2, <1>9, <1>10 DEF TypeOK, TipoDiscos, Leido, Cero, Dato
<1>12. orden' \in TipoCopiar /\ orden'.num = orden.num /\ orden'.nodo = orden.nodo
       /\ orden'.tipo = orden.tipo /\ orden'.id = orden.id /\ orden'.b = orden.b
  <2>1. \/ orden' = orden
        \/ orden' = [orden EXCEPT !.paso = 2, !.dato = dato]
        \/ orden' = [orden EXCEPT !.paso = 3, !.dato = dato]
    BY <1>1, <1>10
  <2>2. \A k \in 1 .. 3 : [orden EXCEPT !.paso = k, !.dato = dato] \in TipoCopiar
    BY ONLY <1>4, <1>11 DEF TipoCopiar
  <2>3. 2 \in 1 .. 3 /\ 3 \in 1 .. 3
    OBVIOUS
  <2>4. orden' \in TipoCopiar
    BY ONLY <1>4, <2>1, <2>2, <2>3
  <2>5. orden = [orden EXCEPT !.paso = orden.paso]
    BY <1>4 DEF TipoCopiar
  <2> QED
    BY ONLY <1>4, <2>1, <2>4 DEF TipoCopiar
<1>13. TypeOK'
  <2>1. TipoOrden'
    BY <1>1, <1>2, <1>12 DEF TypeOK, TipoOrden
  <2>2. TipoNodos'
    BY <1>1, <1>2 DEF TypeOK, TipoNodos
  <2> QED
    BY <1>1, <1>2, <1>3, <2>1, <2>2, TiposQuedan DEF TypeOK
<1>14. Exclusion'
  <2>1. orden # SinOrden
    BY <1>1 DEF SinOrden
  <2> QED
    BY <1>1, <1>2, <2>1 DEF Exclusion, Excluye, ConBloques, Mapeada
<1>15. Nombres' /\ Operaciones' /\ Avance'
  BY <1>1, <1>2, PartesQuedan
<1>16. EnCopia'
  BY <1>1, <1>2, <1>12 DEF EnCopia
<1>17. Agotado'
  BY <1>1, <1>2, <1>3, AgotadoQueda DEF Activos
<1>18. Cuentas'
  BY <1>1, <1>2, <1>3, CuentasQuedan, PuestasIguales
<1>19. TablaSana'
  BY <1>1, <1>2, <1>3, TablaQueda
<1> QED
  BY <1>13, <1>14, <1>15, <1>16, <1>17, <1>18, <1>19 DEF IInv, Cuentas

(* What is put in the slot of a handler. *)
LEMMA ColaCrece ==
  ASSUME TipoColas, NEW n \in Nodos, NEW op \in TipoOp, op.num \in Bits(n) \cup {-1},
         \A m \in Nodos : \A i \in DOMAIN cola[m] : EsOp(cola[m][i]), EsOp(op),
         \/ cola' = cola
         \/ Len(cola[n]) < 2 /\ cola' = [cola EXCEPT ![n] = Append(@, op)]
  PROVE  TipoColas' /\ \A m \in Nodos : \A i \in DOMAIN cola'[m] : EsOp(cola'[m][i])
<1>1. CASE cola' = cola
  BY <1>1 DEF TipoColas, TipoCola
<1>2. CASE Len(cola[n]) < 2 /\ cola' = [cola EXCEPT ![n] = Append(@, op)]
  <2>1. TipoCola(n) /\ DOMAIN cola = Nodos
    BY DEF TipoColas
  <2>2. PICK s : s = cola[n]
    OBVIOUS
  <2>3. s \in Seq(TipoOp) /\ Len(s) < 2 /\ \A i \in DOMAIN s : s[i].num \in Bits(n) \cup {-1} /\ EsOp(s[i])
    BY <1>2, <2>1, <2>2 DEF TipoCola
  <2>4. PICK r : r = Append(s, op)
    OBVIOUS
  <2>5. /\ r \in Seq(TipoOp) /\ Len(r) <= 2
        /\ \A i \in DOMAIN r : r[i].num \in Bits(n) \cup {-1} /\ EsOp(r[i])
    <3>1. r \in Seq(TipoOp) /\ Len(r) = Len(s) + 1 /\ DOMAIN s = 1 .. Len(s)
          /\ \A i \in 1 .. Len(s) : r[i] = s[i]
      BY <2>3, <2>4
    <3>2. r[Len(s) + 1] = op /\ DOMAIN r = 1 .. Len(s) + 1
      BY <2>3, <2>4
    <3>3. \A i \in DOMAIN r : r[i].num \in Bits(n) \cup {-1} /\ EsOp(r[i])
      <4> SUFFICES ASSUME NEW i \in DOMAIN r PROVE r[i].num \in Bits(n) \cup {-1} /\ EsOp(r[i])
        OBVIOUS
      <4>1. i \in 1 .. Len(s) \/ i = Len(s) + 1
        BY <2>3, <3>2
      <4> QED
        BY <2>3, <3>1, <3>2, <4>1
    <3> QED
      BY <2>3, <3>1, <3>3
  <2>6. DOMAIN cola' = Nodos /\ cola'[n] = r /\ \A m \in Nodos \ {n} : cola'[m] = cola[m]
    BY <1>2, <2>1, <2>2, <2>4
  <2>7. TipoCola(n)'
    BY <2>5, <2>6 DEF TipoCola
  <2>8. \A m \in Nodos \ {n} : TipoCola(m)'
    BY <2>6 DEF TipoColas, TipoCola
  <2> QED
    BY <2>5, <2>6, <2>7, <2>8 DEF TipoColas
<1> QED
  BY <1>1, <1>2

LEMMA MandarPasa ==
  ASSUME IInv, NEW t \in Hilos, Mandar(t)
  PROVE  IInv'
<1>1. /\ hilo[t].pc = "manda" /\ hist \subseteq hist' /\ hist' \subseteq hist \cup {"perdio"}
      /\ Encolar(hilo[t].envio.nodo, hilo[t].envio.op)
      /\ hilo' = [hilo EXCEPT ![t].pc = "reparte", ![t].paso = @ + 1, ![t].envio = SinEnvio]
      /\ fs' = fs /\ lista' = lista /\ conexion' = conexion /\ manejador' = manejador
      /\ espacio' = espacio /\ disco' = disco /\ archivos' = archivos /\ orden' = orden
      /\ cpmut' = cpmut /\ bsent' = bsent /\ suenio' = suenio /\ mapas' = mapas
      /\ blocks' = blocks /\ cuenta' = cuenta
  BY DEF Mandar, nodoVars, subidaVars, mapaVars, SiPerdio
<1>2. TypeOK /\ Exclusion /\ Nombres /\ Operaciones /\ EnCopia /\ Avance /\ Agotado /\ Cuentas /\ TablaSana
  BY DEF IInv, Cuentas
<1>3. PICK h : h = hilo[t]
  OBVIOUS
<1>4. h \in TipoHilo /\ h.envio # SinEnvio /\ h.paso \in Nat /\ h.pc = "manda" /\ hilo \in [Hilos -> TipoHilo]
  BY <1>1, <1>2, <1>3, TipoHiloEs DEF Exclusion, Excluye, TypeOK, TipoHilos
<1>5. PICK k : k = hilo'[t]
  OBVIOUS
<1>6. /\ k = [h EXCEPT !.pc = "reparte", !.paso = @ + 1, !.envio = SinEnvio]
      /\ hilo' = [hilo EXCEPT ![t] = k]
  BY <1>1, <1>3, <1>4, <1>5
<1>7. /\ k \in TipoHilo /\ k.pc = "reparte" /\ k.paso = h.paso + 1 /\ k.envio = SinEnvio
      /\ k.ruta = h.ruta /\ k.id = h.id /\ k.bloques = h.bloques /\ k.guardados = h.guardados
      /\ k.ino = h.ino
  <2>1. SinEnvio \in TipoEnvio /\ "reparte" \in TipoPc
    BY DEF TipoEnvio, TipoPc
  <2>2. h \in TipoHilo /\ k = [h EXCEPT !.pc = "reparte", !.paso = @ + 1, !.envio = SinEnvio]
    BY <1>4, <1>6
  <2>3. PICK pc \in TipoPc, en \in TipoEnvio : pc = "reparte" /\ en = SinEnvio
    BY <2>1
  <2>4. PICK paso \in Nat : paso = h.paso + 1
    BY <1>4
  <2>5. k = [h EXCEPT !.pc = pc, !.paso = paso, !.envio = en]
    BY <2>2, <2>3, <2>4
  <2>6. h \in TipoHilo
    BY <2>2
  <2> QED
    BY ONLY <2>3, <2>4, <2>5, <2>6 DEF TipoHilo
<1>8. hilo' \in [Hilos -> TipoHilo] /\ hilo'[t] = k /\ \A u \in Hilos \ {t} : hilo'[u] = hilo[u]
  BY <1>4, <1>6, <1>7
<1>9. TipoColas' /\ \A m \in Nodos : \A i \in DOMAIN cola'[m] : EsOp(cola'[m][i])
  <2>1. h.envio \in [nodo : Nodos, op : TipoOp]
    BY <1>4 DEF TipoHilo, TipoEnvio
  <2>2. h.envio.op.num \in Bits(h.envio.nodo) \cup {-1}
    BY <1>2, <1>3, <1>4 DEF TypeOK, TipoHilos
  <2>3. EsOp(h.envio.op)
    BY <1>2, <1>3, <1>4 DEF Operaciones
  <2>4. PICK n \in Nodos : n = h.envio.nodo
    BY <2>1
  <2>5. PICK op \in TipoOp : op = h.envio.op
    BY <2>1
  <2>6. cola' = cola \/ (Len(cola[n]) < 2 /\ cola' = [cola EXCEPT ![n] = Append(@, op)])
    <3>1. Encolar(n, op)
      BY <1>1, <1>3, <2>4, <2>5
    <3> QED
      BY <3>1 DEF Encolar
  <2>7. TipoColas /\ \A m \in Nodos : \A i \in DOMAIN cola[m] : EsOp(cola[m][i])
    BY <1>2 DEF TypeOK, Operaciones
  <2> QED
    BY <2>2, <2>3, <2>4, <2>5, <2>6, <2>7, ColaCrece
<1>10. TypeOK'
  <2>1. TipoHilos'
    BY <1>2, <1>7, <1>8 DEF TypeOK, TipoHilos
  <2>2. hist' \subseteq Historia
    BY <1>1, <1>2 DEF TypeOK, Historia
  <2> QED
    BY <1>1, <1>2, <1>9, <2>1, <2>2, TiposQuedan DEF TypeOK
<1>11. Exclusion'
  <2>1. ConBloques(t) /\ cpmut = t
    BY <1>1, <1>2 DEF Exclusion, Excluye, Mapeada
  <2>2. ConBloques(t)'
    BY <1>1, <1>3, <1>4, <1>7, <1>8, <2>1, TipoHiloEs, <1>2 DEF ConBloques
  <2>3. \A u \in Hilos \ {t} : hilo'[u] = hilo[u] /\ (Mapeada(u)' <=> Mapeada(u)) /\ (ConBloques(u)' <=> ConBloques(u))
    BY <1>1, <1>8 DEF Mapeada, ConBloques
  <2>4. t # Consola \/ orden = SinOrden
    BY <1>1, <1>2 DEF Exclusion
  <2>5. Excluye(t)'
    <3>1. h.ruta \in Rutas
      <4>1. Excluye(t)
        BY <1>2 DEF Exclusion
      <4>2. hilo[t].pc = "manda" /\ h.ruta = hilo[t].ruta
        BY <1>1, <1>3
      <4> QED
        BY <4>1, <4>2 DEF Excluye
    <3> QED
      BY <1>1, <1>7, <1>8, <2>1, <2>2, <3>1 DEF Excluye, Mapeada
  <2>6. \A u \in Hilos \ {t} : Excluye(u)'
    BY <1>1, <1>2, <2>3 DEF Exclusion, Excluye
  <2>7. orden' # SinOrden => hilo'[Consola].pc = "libre"
    BY <1>1, <1>2, <1>8, <2>4, Constantes DEF Exclusion
  <2> QED
    BY <2>5, <2>6, <2>7 DEF Exclusion
<1>12. Nombres'
  <2>1. \A u \in Hilos : MismoNombre(u)
    BY <1>3, <1>4, <1>7, <1>8 DEF MismoNombre, EsLibre
  <2> QED
    BY <1>1, <1>2, <2>1, NombresSiguen
<1>13. Operaciones'
  BY <1>2, <1>7, <1>8, <1>9 DEF Operaciones
<1>14. Hechos(k) = Hechos(h)
  BY <1>4, <1>7 DEF Hechos
<1>15. Avance'
  <2>1. \A b : EnPasada(k, b) <=> EnPasada(h, b)
    BY <1>7, <1>14 DEF EnPasada
  <2> QED
    BY <1>2, <1>3, <1>4, <1>7, <1>8, <1>14, <2>1 DEF Avance, Mapeada
<1>16. EnCopia'
  BY <1>1, <1>2, PartesQuedan
<1>17. Agotado'
  <2>1. \A u \in Hilos : Sigue(u)
    BY <1>3, <1>4, <1>7, <1>8, <1>14 DEF Sigue, Mapeada
  <2>2. MenosLugar
    BY <1>1 DEF MenosLugar, Activos
  <2> QED
    BY <1>2, <2>1, <2>2, AgotadoSigue
<1>18. Cuentas'
  <2>1. \A u \in Hilos : CopiasDe(hilo'[u]) = CopiasDe(hilo[u])
    BY <1>3, <1>7, <1>8, CopiasIguales
  <2> QED
    BY <1>1, <1>2, <2>1, CuentasQuedan, PuestasIguales
<1>19. TablaSana'
  BY <1>1, <1>2, TablaQueda
<1> QED
  BY <1>10, <1>11, <1>12, <1>13, <1>15, <1>16, <1>17, <1>18, <1>19 DEF IInv, Cuentas

(* The threads that a step leaves alone. *)
LEMMA ExcluyeQueda ==
  ASSUME NEW u, Excluye(u), hilo'[u] = hilo[u], cpmut' = u <=> cpmut = u,
         cpmut = u => bsent'.th = bsent.th
  PROVE  Excluye(u)'
BY DEF Excluye, Mapeada, ConBloques

LEMMA HiloPuesto ==
  ASSUME TypeOK, NEW t \in Hilos, NEW k \in TipoHilo, hilo' = [hilo EXCEPT ![t] = k]
  PROVE  /\ hilo' \in [Hilos -> TipoHilo] /\ hilo'[t] = k
         /\ \A u \in Hilos \ {t} : hilo'[u] = hilo[u]
BY DEF TypeOK, TipoHilos

LEMMA PedirPasa ==
  ASSUME IInv, NEW t \in Hilos, NEW ruta \in Rutas, Pedir(t, ruta)
  PROVE  IInv'
<1>1. /\ hilo[t].pc = "libre" /\ (t = Consola => orden = SinOrden)
      /\ cuenta' = [cuenta EXCEPT !.subidas = @ + 1]
      /\ hilo' = [hilo EXCEPT ![t].pc = "mutex", ![t].ruta = ruta, ![t].id = cuenta.subidas + 1]
      /\ fs' = fs /\ lista' = lista /\ conexion' = conexion /\ manejador' = manejador
      /\ espacio' = espacio /\ disco' = disco /\ archivos' = archivos /\ orden' = orden
      /\ cpmut' = cpmut /\ bsent' = bsent /\ suenio' = suenio /\ cola' = cola /\ mapas' = mapas
      /\ blocks' = blocks /\ hist' = hist
  BY DEF Pedir, nodoVars, subidaVars, mapaVars
<1>2. TypeOK /\ Exclusion /\ Nombres /\ Operaciones /\ EnCopia /\ Avance /\ Agotado /\ Cuentas /\ TablaSana
  BY DEF IInv, Cuentas
<1>3. PICK h : h = hilo[t]
  OBVIOUS
<1>4. PICK id \in Nat : id = cuenta.subidas + 1
  BY <1>2 DEF TypeOK, TipoCuenta
<1>5. cuenta' \in TipoCuenta /\ cuenta'.subidas = id /\ cuenta.subidas \in Nat
  BY <1>1, <1>2, <1>4 DEF TypeOK, TipoCuenta
<1>6. h \in TipoHilo /\ hilo \in [Hilos -> TipoHilo]
  BY <1>2, <1>3, TipoHiloEs DEF TypeOK, TipoHilos
<1>7. PICK pc \in TipoPc, r \in TipoRuta : pc = "mutex" /\ r = ruta
  BY DEF TipoPc, TipoRuta
<1>8. PICK k : k = [h EXCEPT !.pc = pc, !.ruta = r, !.id = id]
  OBVIOUS
<1>9. /\ k \in TipoHilo /\ k.pc = pc /\ k.ruta = r /\ k.id = id /\ k.paso = h.paso /\ k.envio = h.envio
      /\ k.bloques = h.bloques /\ k.guardados = h.guardados /\ k.ino = h.ino
  BY ONLY <1>4, <1>6, <1>7, <1>8 DEF TipoHilo
<1>10. hilo' = [hilo EXCEPT ![t] = k]
  BY <1>1, <1>3, <1>4, <1>6, <1>7, <1>8
<1>11. hilo' \in [Hilos -> TipoHilo] /\ hilo'[t] = k /\ \A u \in Hilos \ {t} : hilo'[u] = hilo[u]
  BY <1>2, <1>9, <1>10, HiloPuesto
<1>12. ~ Mapeada(t) /\ ~ Mapeada(t)'
  BY <1>1, <1>7, <1>9, <1>11 DEF Mapeada
<1>13. k.bloques = <<>> /\ k.ino = 0 /\ k.guardados = 0 /\ h.envio = SinEnvio /\ cpmut # t
  <2>1. Excluye(t)
    BY <1>2 DEF Exclusion
  <2>2. hilo[t].bloques = <<>> /\ hilo[t].ino = 0 /\ hilo[t].guardados = 0 /\ hilo[t].envio = SinEnvio /\ cpmut # t
    BY <1>1, <1>12, <2>1 DEF Excluye
  <2> QED
    BY <1>3, <1>9, <2>2
<1>14. TypeOK'
  <2>1. TipoHilos'
    BY <1>2, <1>9, <1>11, <1>13 DEF TypeOK, TipoHilos
  <2> QED
    BY <1>1, <1>2, <1>5, <2>1, TiposQuedan DEF TypeOK
<1>15. Exclusion'
  <2>1. Excluye(t)'
    BY <1>1, <1>7, <1>9, <1>11, <1>12, <1>13 DEF Excluye
  <2>2. \A u \in Hilos \ {t} : Excluye(u)'
    BY <1>1, <1>2, <1>11, ExcluyeQueda DEF Exclusion
  <2>3. orden' # SinOrden => hilo'[Consola].pc = "libre"
    BY <1>1, <1>2, <1>11, Constantes DEF Exclusion
  <2> QED
    BY <2>1, <2>2, <2>3 DEF Exclusion
<1>16. Nombres'
  <2>1. \A f \in archivos : f.id \in 1 .. cuenta.subidas
    BY <1>2 DEF Nombres
  <2>2. \A f \in archivos : f.id \in 1 .. id /\ f.id # id
    BY <1>4, <1>5, <2>1
  <2>3. \A u \in Hilos : hilo[u].id \in Nat /\ hilo[u].id < id
    BY <1>2, <1>4, <1>5, TipoHiloEs DEF Nombres, Nombrado
  <2>4. Nombrado(t)'
    BY <1>1, <1>4, <1>5, <1>7, <1>9, <1>11, <2>2, <2>3 DEF Nombrado, EsLibre
  <2>5. \A u \in Hilos \ {t} : Nombrado(u)'
    <3> TAKE u \in Hilos \ {t}
    <3>1. Nombrado(u)
      BY <1>2 DEF Nombres
    <3>2. hilo'[u] = hilo[u] /\ hilo[u].id < id
      BY <1>11, <2>3
    <3> QED
      BY <1>1, <1>4, <1>5, <1>9, <1>11, <2>3, <3>1, <3>2 DEF Nombrado, EsLibre
  <2> QED
    BY <1>1, <1>2, <1>5, <2>2, <2>4, <2>5 DEF Nombres
<1>17. Operaciones'
  BY <1>1, <1>2, <1>9, <1>11, <1>13 DEF Operaciones
<1>18. Avance'
  BY <1>2, <1>11, <1>12 DEF Avance, Mapeada
<1>19. EnCopia'
  BY <1>1, <1>2, PartesQuedan
<1>20. Agotado'
  <2>1. \A u \in Hilos : Sigue(u)
    BY <1>11, <1>12 DEF Sigue, Mapeada
  <2>2. MenosLugar
    BY <1>1 DEF MenosLugar, Activos
  <2> QED
    BY <1>2, <2>1, <2>2, AgotadoSigue
<1>21. Cuentas'
  <2>1. \A u \in Hilos : CopiasDe(hilo'[u]) = CopiasDe(hilo[u])
    <3>1. CopiasDe(hilo[t]) = {}
      BY <1>2, <1>12, NadaPuesto
    <3>2. CopiasDe(k) = {}
      BY <1>13, SinCopias
    <3> QED
      BY <1>11, <3>1, <3>2
  <2> QED
    BY <1>1, <1>2, <2>1, CuentasQuedan, PuestasIguales
<1>22. TablaSana'
  BY <1>1, <1>2, TablaQueda
<1> QED
  BY <1>14, <1>15, <1>16, <1>17, <1>18, <1>19, <1>20, <1>21, <1>22 DEF IInv, Cuentas

(* metadata/blocks: there is an inode to map. *)
LEMMA InodoEs ==
  ASSUME TypeOK, Exclusion, cpmut = Nadie \/ orden = SinOrden
  PROVE  InodoDeBlocks \in Inodos
<1>1. CASE blocks # 0
  BY <1>1 DEF InodoDeBlocks, TypeOK, TipoMapas, TipoIno
<1>2. CASE blocks = 0
  <2>1. \A t \in Hilos : cpmut # t => hilo[t].ino = 0
    BY NadaPuesto DEF Exclusion, Excluye
  <2>2. \E x : EnUso \subseteq {0, x}
    <3>1. CASE cpmut = Nadie
      <4>1. {hilo[t].ino : t \in Hilos} \subseteq {0}
        BY <2>1, <3>1, Constantes
      <4> QED
        BY <1>2, <4>1 DEF EnUso
    <3>2. CASE orden = SinOrden
      <4>1. {hilo[t].ino : t \in Hilos} \subseteq {0, hilo[cpmut].ino}
        BY <2>1
      <4>2. orden.tipo # "baja"
        BY <3>2 DEF SinOrden
      <4> QED
        BY <1>2, <4>1, <4>2 DEF EnUso
    <3> QED
      BY <3>1, <3>2
  <2>3. Inodos \ EnUso # {} /\ Inodos \ EnUso \in SUBSET Nat
    BY <2>2 DEF Inodos
  <2>4. Min(Inodos \ EnUso) \in Inodos \ EnUso
    BY <2>3, HayMinimo
  <2> QED
    BY <1>2, <2>4 DEF InodoDeBlocks
<1> QED
  BY <1>1, <1>2

LEMMA TruncadoEs ==
  ASSUME NEW s \in Seq(Dato), NEW k \in Nat
  PROVE  Truncado(s, k) \in Seq(Dato) /\ Len(Truncado(s, k)) = k
<1>1. Cero \in Dato
  BY DEF Cero, Dato
<1>2. \A i \in 1 .. k : (IF i <= Len(s) THEN s[i] ELSE Cero) \in Dato
  BY <1>1
<1> QED
  BY <1>2 DEF Truncado

LEMMA OrdenarEs ==
  ASSUME TypeOK, Ordenar
  PROVE  /\ cuenta' \in TipoCuenta /\ cuenta'.subidas = cuenta.subidas
         /\ fs = "vivo" /\ hilo[Consola].pc = "libre" /\ orden = SinOrden
BY DEF Ordenar, TypeOK, TipoCuenta

LEMMA ExclusionOrden ==
  ASSUME Exclusion, hilo' = hilo, cpmut' = cpmut, bsent'.th = bsent.th, hilo[Consola].pc = "libre"
  PROVE  Exclusion'
BY ExcluyeQueda DEF Exclusion

LEMMA BajarPasa ==
  ASSUME IInv, NEW f \in archivos, Bajar(f)
  PROVE  IInv'
<1>1. /\ Ordenar /\ blocks' = InodoDeBlocks
      /\ mapas' = [mapas EXCEPT ![InodoDeBlocks] = Truncado(IF blocks = 0 THEN <<>> ELSE @, Len(f.bloques))]
      /\ orden' = [tipo |-> "baja", paso |-> 1, id |-> f.id, ino |-> InodoDeBlocks,
                   bloques |-> f.bloques, current |-> 0]
      /\ hist \subseteq hist' /\ hist' \subseteq hist \cup {"carrera"}
      /\ fs' = fs /\ lista' = lista /\ conexion' = conexion /\ manejador' = manejador
      /\ espacio' = espacio /\ disco' = disco /\ archivos' = archivos /\ hilo' = hilo
      /\ cpmut' = cpmut /\ bsent' = bsent /\ suenio' = suenio /\ cola' = cola
  BY DEF Bajar, nodoVars, subidaVars
<1>2. TypeOK /\ Exclusion /\ Nombres /\ Operaciones /\ EnCopia /\ Avance /\ Agotado /\ Cuentas /\ TablaSana
  BY DEF IInv, Cuentas
<1>3. /\ cuenta' \in TipoCuenta /\ cuenta'.subidas = cuenta.subidas
      /\ fs = "vivo" /\ hilo[Consola].pc = "libre" /\ orden = SinOrden
  BY <1>1, <1>2, OrdenarEs
<1>4. PICK ino \in Inodos : ino = InodoDeBlocks
  BY <1>2, <1>3, InodoEs
<1>5. f.id \in Nat /\ f.bloques \in TipoBloques /\ Len(f.bloques) \in Nat
  BY <1>2, TipoArchivoEs DEF TipoBloques
<1>6. TipoMapas'
  <2>1. mapas[ino] \in Seq(Dato) /\ mapas \in [Inodos -> Seq(Dato)]
    BY <1>2 DEF TypeOK, TipoMapas
  <2>2. PICK s \in Seq(Dato) : s = IF blocks = 0 THEN <<>> ELSE mapas[ino]
    <3>1. <<>> \in Seq(Dato)
      OBVIOUS
    <3>2. (IF blocks = 0 THEN <<>> ELSE mapas[ino]) \in Seq(Dato)
      BY <2>1, <3>1, Zenon
    <3> QED
      BY <3>2, Zenon
  <2>3. Truncado(s, Len(f.bloques)) \in Seq(Dato)
    BY <1>5, <2>2, TruncadoEs
  <2>4. mapas' = [mapas EXCEPT ![ino] = Truncado(s, Len(f.bloques))]
    <3>1. mapas' = [mapas EXCEPT ![ino] = Truncado(IF blocks = 0 THEN <<>> ELSE mapas[ino], Len(f.bloques))]
      BY <1>1, <1>4, Zenon
    <3> QED
      BY <2>2, <3>1, Zenon
  <2>5. mapas' \in [Inodos -> Seq(Dato)]
    BY <2>1, <2>3, <2>4
  <2> QED
    BY <1>1, <1>4, <2>5 DEF TipoMapas, TipoIno
<1>7. TipoOrden' /\ orden'.tipo = "baja"
  <2>1. orden' \in TipoBajar
    BY <1>1, <1>4, <1>5 DEF TipoBajar
  <2>2. orden'.tipo = "baja"
    BY <1>1
  <2> QED
    BY <2>1, <2>2 DEF TipoOrden
<1>8. TypeOK'
  <2>1. hist' \subseteq Historia
    BY <1>1, <1>2 DEF TypeOK, Historia
  <2> QED
    BY <1>1, <1>2, <1>3, <1>6, <1>7, <2>1, TiposQuedan DEF TypeOK
<1>9. Exclusion'
  BY <1>1, <1>2, <1>3, ExclusionOrden
<1>10. Nombres' /\ Operaciones' /\ Avance'
  BY <1>1, <1>2, <1>3, PartesQuedan
<1>11. EnCopia'
  BY <1>7 DEF EnCopia
<1>12. Agotado'
  BY <1>1, <1>2, AgotadoQueda DEF Activos
<1>13. Cuentas'
  BY <1>1, <1>2, CuentasQuedan, PuestasIguales
<1>14. TablaSana'
  BY <1>1, <1>2, TablaQueda
<1> QED
  BY <1>8, <1>9, <1>10, <1>11, <1>12, <1>13, <1>14 DEF IInv, Cuentas

LEMMA PingEs ==
  ASSUME NEW ns, Ping(ns), conexion' = conexion
  PROVE  /\ manejador' \subseteq manejador /\ Activos' = Activos
         /\ \A n \in ns \cap manejador : cola[n] = <<>>
BY DEF Ping, Activos

LEMMA BajarPidePasa ==
  ASSUME IInv, BajarPide
  PROVE  IInv'
<1>1. /\ orden.tipo = "baja" /\ orden.paso <= Len(orden.bloques)
      /\ orden' = [orden EXCEPT !.paso = @ + 1]
      /\ fs' = fs /\ lista' = lista /\ conexion' = conexion
      /\ espacio' = espacio /\ disco' = disco /\ archivos' = archivos /\ hilo' = hilo
      /\ cpmut' = cpmut /\ bsent' = bsent /\ suenio' = suenio /\ mapas' = mapas
      /\ blocks' = blocks /\ cuenta' = cuenta /\ hist' = hist
  BY DEF BajarPide, subidaVars, mapaVars
<1>2. TypeOK /\ Exclusion /\ Nombres /\ Operaciones /\ EnCopia /\ Avance /\ Agotado /\ Cuentas /\ TablaSana
  BY DEF IInv, Cuentas
<1>3. PICK par : par = orden.bloques[orden.paso]
  OBVIOUS
<1>4. PICK c \in Par : /\ par[c].nodo \in Activos \cap lista
                       /\ Ping({par[d].nodo : d \in c .. 2} \cap lista)
                       /\ cola' = [cola EXCEPT ![par[c].nodo] = Append(@, OpRecibe(par[c].num))]
  <2> DEFINE bl == orden.bloques[orden.paso]
             activas == {d \in Par : bl[d].nodo \in Activos \cap lista}
             x == IF 2 \in activas THEN 2 ELSE 1
  <2>1. /\ activas # {}
        /\ Ping({bl[d].nodo : d \in x .. 2} \cap lista)
        /\ cola' = [cola EXCEPT ![bl[x].nodo] = Append(@, OpRecibe(bl[x].num))]
    BY Zenon DEF BajarPide
  <2>2. x = (IF 2 \in activas THEN 2 ELSE 1) /\ activas \subseteq Par
    OBVIOUS
  <2>3. activas # {}
    BY <2>1
  <2>4. \A d \in activas : d \in Par /\ bl[d].nodo \in Activos \cap lista
    OBVIOUS
  <2> HIDE DEF x, activas
  <2>5. x \in activas
    <3>1. CASE 2 \in activas
      BY <2>2, <3>1, Zenon
    <3>2. CASE 2 \notin activas
      <4>1. PICK d : d \in activas
        BY <2>3, Zenon
      <4>2. d = 1 \/ d = 2
        BY <2>4, <4>1 DEF Par
      <4>3. d = 1
        BY <3>2, <4>1, <4>2, Zenon
      <4> QED
        BY <2>2, <3>2, <4>1, <4>3, Zenon
    <3> QED
      BY <3>1, <3>2
  <2>6. x \in Par /\ bl[x].nodo \in Activos \cap lista
    BY <2>4, <2>5
  <2> QED
    BY <1>3, <2>1, <2>6, ZenonT(60)
<1>5. orden \in TipoBajar /\ orden.paso \in Nat \ {0} /\ orden.bloques \in TipoBloques
  BY <1>1, <1>2 DEF TypeOK, TipoOrden, TipoCopiar, TipoBajar, SinOrden
<1>6. par[c] \in TipoCopia
  <2>1. PICK bl \in TipoBloques : bl = orden.bloques
    BY <1>5
  <2>2. orden.paso \in DOMAIN bl
    BY <1>1, <1>5, <2>1 DEF TipoBloques
  <2> QED
    BY <1>3, <2>1, <2>2, TipoParEs
<1>7. PICK n \in Nodos, num \in Int : /\ n = par[c].nodo /\ num = par[c].num /\ num \in Bits(n) \cup {-1}
                                     /\ n \in lista /\ n \in manejador
  <2>1. par[c].nodo \in Nodos
    BY <1>2, <1>4 DEF TypeOK, TipoNodos
  <2>2. par[c] # SinCopia
    BY <1>6, <2>1, TipoCopiaEs, Constantes
  <2>3. par[c].num \in Bits(par[c].nodo) \cup {-1}
    BY <1>6, <2>2, TipoCopiaEs
  <2>4. par[c].num \in Int
    BY <2>1, <2>3, BitsEs
  <2> QED
    BY <1>4, <2>1, <2>3, <2>4 DEF Activos
<1>8. cola[n] = <<>>
  <2>1. PICK ns : ns = {par[d].nodo : d \in c .. 2} \cap lista
    OBVIOUS
  <2>2. n \in ns \cap manejador
    BY <1>7, <2>1 DEF Par
  <2> QED
    BY <1>1, <1>4, <2>1, <2>2, PingEs
<1>9. manejador' \subseteq manejador /\ Activos' = Activos
  BY <1>1, <1>4, PingEs
<1>10. TipoColas' /\ \A m \in Nodos : \A i \in DOMAIN cola'[m] : EsOp(cola'[m][i])
  <2>1. PICK op : op = OpRecibe(num)
    OBVIOUS
  <2>2. op \in TipoOp /\ op.num = num /\ op.sub = 0
    BY <2>1 DEF OpRecibe, TipoOp, Cero, Dato
  <2>3. EsOp(op)
    BY <2>2 DEF EsOp
  <2>4. cola' = [cola EXCEPT ![n] = Append(@, op)]
    BY <1>4, <1>7, <2>1
  <2>5. Len(cola[n]) < 2
    BY <1>8
  <2>6. TipoColas /\ \A m \in Nodos : \A i \in DOMAIN cola[m] : EsOp(cola[m][i])
    BY <1>2 DEF TypeOK, Operaciones
  <2>7. op.num \in Bits(n) \cup {-1}
    BY <1>7, <2>2
  <2> QED
    BY <2>2, <2>3, <2>4, <2>5, <2>6, <2>7, ColaCrece
<1>11. TipoOrden' /\ orden'.tipo = "baja"
  <2>1. PICK paso \in Nat \ {0} : paso = orden.paso + 1
    BY <1>5
  <2>2. orden' = [orden EXCEPT !.paso = paso]
    BY <1>1, <2>1
  <2>3. orden' \in TipoBajar /\ orden'.tipo = "baja"
    BY <1>5, <2>2 DEF TipoBajar
  <2> QED
    BY <2>3 DEF TipoOrden
<1>12. TypeOK'
  <2>1. TipoNodos'
    BY <1>1, <1>2, <1>9 DEF TypeOK, TipoNodos
  <2> QED
    BY <1>1, <1>2, <1>10, <1>11, <2>1, TiposQuedan DEF TypeOK
<1>13. Exclusion'
  <2>1. hilo[Consola].pc = "libre"
    <3>1. orden # SinOrden
      BY <1>1 DEF SinOrden
    <3> QED
      BY <1>2, <3>1 DEF Exclusion
  <2> QED
    BY <1>1, <1>2, <2>1, ExclusionOrden
<1>14. Nombres' /\ Avance'
  BY <1>1, <1>2, PartesQuedan
<1>15. Operaciones'
  BY <1>1, <1>2, <1>10 DEF Operaciones
<1>16. EnCopia'
  BY <1>11 DEF EnCopia
<1>17. Agotado'
  BY <1>1, <1>2, <1>9, AgotadoQueda
<1>18. Cuentas'
  BY <1>1, <1>2, CuentasQuedan, PuestasIguales
<1>19. TablaSana'
  BY <1>1, <1>2, TablaQueda
<1> QED
  BY <1>12, <1>13, <1>14, <1>15, <1>16, <1>17, <1>18, <1>19, SMTT(30) DEF IInv, Cuentas

LEMMA PrimerCeroEs ==
  ASSUME TypeOK, NEW n \in Nodos
  PROVE  /\ PrimerCero(n) \in Bits(n) \cup {-1}
         /\ PrimerCero(n) # -1 => PrimerCero(n) \in Bits(n) \ espacio[n].ocupados
         /\ Cardinality(espacio[n].ocupados) < Total[n] => PrimerCero(n) # -1
<1>1. Libre(n) = Bits(n) \ espacio[n].ocupados
  BY DEF Libre, Bits
<1>2. Libre(n) # {} => PrimerCero(n) \in Libre(n)
  <2>1. Libre(n) \in SUBSET Nat
    BY <1>1, BitsEs
  <2> QED
    BY <2>1, HayMinimo DEF PrimerCero
<1>3. Libre(n) = {} => PrimerCero(n) = -1
  BY DEF PrimerCero
<1>4. Libre(n) = {} => Cardinality(espacio[n].ocupados) = Total[n]
  <2>1. espacio[n].ocupados \subseteq Bits(n)
    BY TipoEspacioEs
  <2> QED
    BY <1>1, <2>1, BitsEs
<1>5. Total[n] \in Nat /\ -1 \notin Bits(n)
  BY BitsEs
<1> QED
  BY <1>1, <1>2, <1>3, <1>4, <1>5

LEMMA ParFinito == IsFiniteSet(Par)
<1>1. PICK a \in Int, z \in Int : a = 1 /\ z = 2
  OBVIOUS
<1>2. IsFiniteSet(a .. z)
  BY FS_Interval
<1> QED
  BY <1>1, <1>2 DEF Par

LEMMA UnaCopia ==
  ASSUME NEW par, NEW n, Cardinality({c \in Par : par[c] # SinCopia}) = 1, n \notin {par[c].nodo : c \in Par}
  PROVE  FaltaUna(par, n)
<1> DEFINE S == {c \in Par : par[c] # SinCopia}
<1>1. IsFiniteSet(S)
  <2>1. IsFiniteSet(Par)
    BY ParFinito
  <2>2. S \in SUBSET Par
    OBVIOUS
  <2> HIDE DEF S
  <2> QED
    BY <2>1, <2>2, FS_Subset
<1>2. PICK x : S = {x}
  BY <1>1, FS_Singleton
<1>3. x \in Par /\ par[x] # SinCopia
  BY <1>2
<1>4. PICK c \in Par : c = 3 - x /\ x = 3 - c /\ c # x
  BY <1>3 DEF Par
<1>5. par[c] = SinCopia
  BY <1>2, <1>4
<1> QED
  BY <1>3, <1>4, <1>5 DEF FaltaUna

LEMMA CopiarEligePasa ==
  ASSUME IInv, NEW f \in archivos, NEW b \in DOMAIN f.bloques, NEW n \in Nodos, CopiarElige(f, b, n)
  PROVE  IInv'
<1>1. /\ Ordenar /\ n \in lista /\ PrimerCero(n) # -1 /\ Ping({n})
      /\ orden' = IF n \notin Activos THEN SinOrden
                  ELSE [tipo |-> "copia", paso |-> 1, id |-> f.id, b |-> b, nodo |-> n,
                        num |-> PrimerCero(n), dato |-> Cero]
      /\ fs' = fs /\ lista' = lista /\ conexion' = conexion
      /\ espacio' = espacio /\ disco' = disco /\ archivos' = archivos /\ hilo' = hilo
      /\ cpmut' = cpmut /\ bsent' = bsent /\ suenio' = suenio /\ cola' = cola /\ mapas' = mapas
      /\ blocks' = blocks /\ hist' = hist
  BY DEF CopiarElige, Ordenar, subidaVars, mapaVars
<1>2. TypeOK /\ Exclusion /\ Nombres /\ Operaciones /\ EnCopia /\ Avance /\ Agotado /\ Cuentas /\ TablaSana
  BY DEF IInv, Cuentas
<1>3. /\ cuenta' \in TipoCuenta /\ cuenta'.subidas = cuenta.subidas
      /\ hilo[Consola].pc = "libre" /\ orden = SinOrden
  BY <1>1, <1>2, OrdenarEs
<1>4. manejador' \subseteq manejador /\ Activos' = Activos
  BY <1>1, PingEs
<1>5. FaltaUna(f.bloques[b], n)
  BY UnaCopia DEF CopiarElige
<1>6. f.id \in Nat /\ b \in Nat
  BY <1>2, TipoArchivoEs, TipoParEs
<1>7. PICK num \in Nat : num = PrimerCero(n) /\ num \in Bits(n)
  BY <1>1, <1>2, PrimerCeroEs, BitsEs
<1>8. \/ orden' = SinOrden
      \/ orden' = [tipo |-> "copia", paso |-> 1, id |-> f.id, b |-> b, nodo |-> n, num |-> num, dato |-> Cero]
  BY <1>1, <1>7
<1>9. \/ orden' = SinOrden /\ orden'.tipo = "no"
      \/ /\ orden' \in TipoCopiar /\ orden'.tipo = "copia" /\ orden'.id = f.id /\ orden'.b = b
         /\ orden'.nodo = n /\ orden'.num = num
  BY <1>6, <1>8 DEF TipoCopiar, Cero, Dato, SinOrden
<1>10. TypeOK'
  <2>1. TipoNodos'
    BY <1>1, <1>2, <1>4 DEF TypeOK, TipoNodos
  <2>2. TipoOrden'
    BY <1>7, <1>9 DEF TipoOrden
  <2> QED
    BY <1>1, <1>2, <1>3, <2>1, <2>2, TiposQuedan DEF TypeOK
<1>11. Exclusion'
  BY <1>1, <1>2, <1>3, ExclusionOrden
<1>12. Nombres' /\ Operaciones' /\ Avance'
  BY <1>1, <1>2, <1>3, PartesQuedan
<1>13. EnCopia'
  BY <1>1, <1>5, <1>9 DEF EnCopia
<1>14. Agotado'
  BY <1>1, <1>2, <1>4, AgotadoQueda
<1>15. Cuentas'
  BY <1>1, <1>2, CuentasQuedan, PuestasIguales
<1>16. TablaSana'
  BY <1>1, <1>2, TablaQueda
<1> QED
  BY <1>10, <1>11, <1>12, <1>13, <1>14, <1>15, <1>16 DEF IInv, Cuentas

(* The operation a handler takes. *)
LEMMA ColaBaja ==
  ASSUME TipoColas, NEW n \in Nodos, cola[n] # <<>>, cola' = [cola EXCEPT ![n] = Tail(@)],
         \A m \in Nodos : \A i \in DOMAIN cola[m] : EsOp(cola[m][i])
  PROVE  /\ TipoColas' /\ \A m \in Nodos : \A i \in DOMAIN cola'[m] : EsOp(cola'[m][i])
         /\ Head(cola[n]) \in TipoOp /\ EsOp(Head(cola[n])) /\ Head(cola[n]).num \in Bits(n) \cup {-1}
<1>1. TipoCola(n) /\ DOMAIN cola = Nodos
  BY DEF TipoColas
<1>2. PICK s : s = cola[n]
  OBVIOUS
<1>3. s \in Seq(TipoOp) /\ s # <<>> /\ Len(s) <= 2 /\ \A i \in DOMAIN s : s[i].num \in Bits(n) \cup {-1} /\ EsOp(s[i])
  BY <1>1, <1>2 DEF TipoCola
<1>4. PICK r : r = Tail(s)
  OBVIOUS
<1>5. /\ r \in Seq(TipoOp) /\ Len(r) = Len(s) - 1 /\ Len(s) \in Nat \ {0}
      /\ DOMAIN r = 1 .. Len(s) - 1 /\ DOMAIN s = 1 .. Len(s) /\ Head(s) = s[1] /\ s[1] \in TipoOp
      /\ \A i \in 1 .. Len(s) - 1 : r[i] = s[i + 1]
  BY <1>3, <1>4
<1>6. \A i \in DOMAIN r : r[i].num \in Bits(n) \cup {-1} /\ EsOp(r[i])
  <2> TAKE i \in DOMAIN r
  <2>1. i + 1 \in DOMAIN s /\ r[i] = s[i + 1]
    BY <1>5
  <2> QED
    BY <1>3, <2>1
<1>7. DOMAIN cola' = Nodos /\ cola'[n] = r /\ \A m \in Nodos \ {n} : cola'[m] = cola[m]
  BY <1>1, <1>2, <1>4
<1>8. TipoCola(n)'
  <2>1. r \in Seq(TipoOp) /\ Len(r) <= 2
    BY <1>3, <1>5
  <2>2. cola'[n] = r
    BY <1>7
  <2> QED
    BY <1>6, <2>1, <2>2 DEF TipoCola
<1>9. \A m \in Nodos \ {n} : TipoCola(m)'
  BY <1>7 DEF TipoColas, TipoCola
<1>10. 1 \in DOMAIN s
  BY <1>5
<1> QED
  BY <1>2, <1>3, <1>5, <1>6, <1>7, <1>8, <1>9, <1>10 DEF TipoColas

LEMMA LecturasEs ==
  ASSUME TypeOK, Exclusion, NEW op \in TipoOp, EsOp(op)
  PROVE  Lecturas(op) \subseteq Dato
<1>1. op.dato \in Dato
  BY DEF TipoOp
<1>2. \A i \in Inodos : op.sub # 0 /\ op.idx <= Len(mapas[i]) => mapas[i][op.idx] \in Dato
  <2> SUFFICES ASSUME NEW i \in Inodos, op.sub # 0, op.idx <= Len(mapas[i]) PROVE mapas[i][op.idx] \in Dato
    OBVIOUS
  <2>1. mapas[i] \in Seq(Dato)
    BY DEF TypeOK, TipoMapas
  <2>2. op.idx \in 1 .. Len(mapas[i])
    BY <2>1, Constantes DEF EsOp
  <2> QED
    BY <2>1, <2>2
<1>3. \A t \in Hilos : Mapeada(t) => hilo[t].ino \in Inodos
  BY DEF Exclusion, Excluye, ConBloques
<1>4. orden.tipo = "baja" => orden.ino \in Inodos
  BY DEF TypeOK, TipoOrden, TipoBajar, TipoCopiar, SinOrden
<1>5. CASE op.sub = 0
  BY <1>1, <1>5 DEF Lecturas
<1>6. CASE op.sub # 0
  <2> DEFINE suyo == {hilo[t].ino : t \in {u \in Hilos : Mapeada(u) /\ hilo[u].id = op.sub}}
             mapeado == {hilo[t].ino : t \in {u \in Hilos : Mapeada(u)}} \cup
                        (IF orden.tipo = "baja" THEN {orden.ino} ELSE {})
             inodos == IF suyo # {} THEN suyo ELSE mapeado
  <2>1. Lecturas(op) = {mapas[i][op.idx] : i \in {j \in inodos : op.idx <= Len(mapas[j])}}
    BY <1>6 DEF Lecturas
  <2>2. suyo \subseteq Inodos /\ mapeado \subseteq Inodos
    BY <1>3, <1>4
  <2>3. inodos \subseteq Inodos
    BY <2>2
  <2> HIDE DEF inodos
  <2> QED
    BY <1>2, <1>6, <2>1, <2>3
<1> QED
  BY <1>5, <1>6

LEMMA IndicesEs ==
  ASSUME TypeOK, NEW n, NEW op, Indices(n, op) # {}
  PROVE  /\ orden \in TipoBajar /\ orden.tipo = "baja"
         /\ Min(Indices(n, op)) \in 1 .. Len(mapas[orden.ino])
<1>1. orden.tipo = "baja"
  BY DEF Indices
<1>2. orden \in TipoBajar
  BY <1>1 DEF TypeOK, TipoOrden, TipoCopiar, SinOrden
<1>3. mapas[orden.ino] \in Seq(Dato) /\ orden.bloques \in TipoBloques
  BY <1>2 DEF TypeOK, TipoMapas, TipoBajar
<1>4. DOMAIN orden.bloques \subseteq Nat \ {0}
  BY <1>3 DEF TipoBloques
<1>5. Indices(n, op) \subseteq 1 .. Len(mapas[orden.ino])
  BY <1>1, <1>3, <1>4 DEF Indices
<1>6. Indices(n, op) \in SUBSET Nat
  BY <1>5
<1> QED
  BY <1>1, <1>2, <1>5, <1>6, HayMinimo

(* What a handler does with an operation. *)
Atendido ==
  /\ TipoDiscos' /\ TipoMapas' /\ TipoSubida' /\ TipoOrden' /\ bsent'.th = bsent.th
  /\ orden' = orden \/ (orden.tipo = "baja" /\ orden'.tipo = "baja")
  /\ fs' \in {"vivo", "caido"} /\ conexion' \subseteq conexion
  /\ hist \subseteq hist' /\ hist' \subseteq hist \cup {"perdio", "carrera"}

LEMMA EscribirEs ==
  ASSUME TypeOK, Exclusion, NEW n \in Nodos, NEW op \in TipoOp, EsOp(op), op.num \in Bits(n) \cup {-1},
         fs = "vivo", EscribirBloque(n, op), blocks' = blocks
  PROVE  Atendido
<1>1. /\ BloqueEnviado /\ conexion' \in TrasBloque(n, op) /\ orden' = orden /\ mapas' = mapas
      /\ hist \subseteq hist' /\ hist' \subseteq hist \cup {"perdio", "carrera"}
  BY DEF EscribirBloque, SiPerdio
<1>2. PICK dato \in Dato :
        disco' = IF n \in conexion /\ op.num # -1 THEN [disco EXCEPT ![n][op.num] = dato] ELSE disco
  BY LecturasEs DEF EscribirBloque
<1>3. TipoDiscos /\ TipoMapas /\ TipoSubida /\ TipoOrden
  BY DEF TypeOK
<1>4. TipoDiscos'
  <2>1. CASE disco' = disco
    BY <1>3, <2>1, TiposQuedan
  <2>2. CASE op.num # -1 /\ disco' = [disco EXCEPT ![n][op.num] = dato]
    <3>1. PICK i \in Bits(n) : i = op.num
      BY <2>2
    <3>2. DOMAIN disco = Nodos /\ disco[n] \in [Bits(n) -> Dato]
      BY <1>3 DEF TipoDiscos
    <3>3. PICK d : d = [disco[n] EXCEPT ![i] = dato]
      OBVIOUS
    <3>4. d \in [Bits(n) -> Dato]
      BY <3>2, <3>3
    <3>5. DOMAIN disco' = Nodos /\ disco'[n] = d /\ \A m \in Nodos \ {n} : disco'[m] = disco[m]
      BY <2>2, <3>1, <3>2, <3>3
    <3> QED
      BY <1>3, <3>4, <3>5 DEF TipoDiscos
  <2> QED
    BY <1>2, <2>1, <2>2
<1>5. bsent.th \in Hilos /\ bsent.current \in Nat /\ suenio \in [Hilos -> Nat]
      /\ bsent \in [th : Hilos, current : Nat, total : Int]
  BY <1>3 DEF TipoSubida
<1>6. bsent' \in [th : Hilos, current : Nat, total : Int] /\ bsent'.th = bsent.th
  <2>1. PICK c \in Nat : c = bsent.current + 1
    BY <1>5
  <2>2. bsent' = [bsent EXCEPT !.current = c]
    BY <1>1, <2>1 DEF BloqueEnviado
  <2> QED
    BY <1>5, <2>2
<1>7. suenio' \in [Hilos -> Nat] /\ fs' \in {"vivo", "caido"}
  <2>1. \/ suenio' = suenio /\ fs' \in {"vivo", "caido"}
        \/ suenio' = [suenio EXCEPT ![bsent.th] = @ + 1] /\ fs' = fs
    BY <1>1 DEF BloqueEnviado
  <2> QED
    BY <1>5, <2>1
<1>8. conexion' \subseteq conexion
  BY <1>1 DEF TrasBloque
<1>9. TipoMapas' /\ TipoOrden' /\ TipoSubida'
  BY <1>1, <1>3, <1>6, <1>7, TiposQuedan DEF TipoSubida
<1> QED
  BY <1>1, <1>4, <1>6, <1>7, <1>8, <1>9 DEF Atendido

LEMMA LeerEs ==
  ASSUME TypeOK, NEW n \in Nodos, NEW op \in TipoOp, op.num \in Bits(n) \cup {-1},
         fs = "vivo", LeerBloque(n, op), blocks' = blocks
  PROVE  Atendido
<1>1. /\ conexion' \in TrasBloque(n, op) /\ fs' = fs /\ disco' = disco /\ bsent' = bsent /\ hist' = hist
  BY DEF LeerBloque
<1>2. TipoDiscos /\ TipoMapas /\ TipoSubida /\ TipoOrden
  BY DEF TypeOK
<1>3. conexion' \subseteq conexion
  BY <1>1 DEF TrasBloque
<1>4. CASE mapas' = mapas /\ orden' = orden /\ suenio' = suenio
  BY <1>1, <1>2, <1>3, <1>4, TiposQuedan DEF Atendido
<1>5. CASE /\ Indices(n, op) # {}
           /\ mapas' = [mapas EXCEPT ![orden.ino][Min(Indices(n, op))] = IF op.num = -1 THEN Cero ELSE disco[n][op.num]]
           /\ orden' = [orden EXCEPT !.current = @ + 1]
           /\ suenio' = IF orden.current + 1 = Len(orden.bloques)
                        THEN [suenio EXCEPT ![Consola] = @ + 1] ELSE suenio
  <2>1. orden \in TipoBajar /\ orden.tipo = "baja" /\ Min(Indices(n, op)) \in 1 .. Len(mapas[orden.ino])
    BY <1>5, IndicesEs
  <2>2. PICK d \in Dato : d = IF op.num = -1 THEN Cero ELSE disco[n][op.num]
    <3>1. Cero \in Dato
      BY DEF Cero, Dato
    <3>2. op.num # -1 => disco[n][op.num] \in Dato
      BY <1>2 DEF TipoDiscos
    <3> QED
      BY <3>1, <3>2
  <2>3. PICK ino \in Inodos : ino = orden.ino
    BY <2>1 DEF TipoBajar
  <2>4. PICK i \in 1 .. Len(mapas[ino]) : i = Min(Indices(n, op))
    BY <2>1, <2>3
  <2>5. mapas \in [Inodos -> Seq(Dato)] /\ mapas[ino] \in Seq(Dato)
    BY <1>2 DEF TipoMapas
  <2>6. TipoMapas'
    <3>1. mapas' = [mapas EXCEPT ![ino][i] = d]
      BY <1>5, <2>2, <2>3, <2>4
    <3>2. PICK s : s = [mapas[ino] EXCEPT ![i] = d]
      OBVIOUS
    <3>3. s \in Seq(Dato)
      BY <2>5, <3>2
    <3>4. mapas' = [mapas EXCEPT ![ino] = s]
      BY <3>1, <3>2
    <3> QED
      BY <1>2, <2>5, <3>3, <3>4 DEF TipoMapas
  <2>7. orden' \in TipoBajar /\ orden'.tipo = "baja"
    <3>1. PICK c \in Nat : c = orden.current + 1
      BY <2>1 DEF TipoBajar
    <3>2. orden' = [orden EXCEPT !.current = c]
      BY <1>5, <3>1
    <3> QED
      BY <2>1, <3>2 DEF TipoBajar
  <2>8. TipoOrden'
    BY <2>7 DEF TipoOrden
  <2>9. TipoSubida'
    <3>1. suenio \in [Hilos -> Nat]
      BY <1>2 DEF TipoSubida
    <3>2. suenio' \in [Hilos -> Nat]
      BY <1>5, <3>1, Constantes
    <3> QED
      BY <1>1, <1>2, <3>2 DEF TipoSubida
  <2> QED
    BY <1>1, <1>2, <1>3, <2>1, <2>6, <2>7, <2>8, <2>9, TiposQuedan DEF Atendido
<1> QED
  BY <1>4, <1>5 DEF LeerBloque

LEMMA AtenderPasa ==
  ASSUME IInv, NEW n \in Nodos, Atender(n)
  PROVE  IInv'
<1>1. /\ fs = "vivo" /\ cola[n] # <<>> /\ cola' = [cola EXCEPT ![n] = Tail(@)]
      /\ lista' = lista /\ manejador' = manejador /\ espacio' = espacio /\ archivos' = archivos
      /\ hilo' = hilo /\ cpmut' = cpmut /\ blocks' = blocks /\ cuenta' = cuenta
  BY DEF Atender
<1>2. TypeOK /\ Exclusion /\ Nombres /\ Operaciones /\ EnCopia /\ Avance /\ Agotado /\ Cuentas /\ TablaSana
  BY DEF IInv, Cuentas
<1>3. TipoColas /\ \A m \in Nodos : \A i \in DOMAIN cola[m] : EsOp(cola[m][i])
  BY <1>2 DEF TypeOK, Operaciones
<1>4. PICK op \in TipoOp : op = Head(cola[n]) /\ EsOp(op) /\ op.num \in Bits(n) \cup {-1}
  BY <1>1, <1>3, ColaBaja
<1>5. TipoColas' /\ \A m \in Nodos : \A i \in DOMAIN cola'[m] : EsOp(cola'[m][i])
  BY <1>1, <1>3, ColaBaja
<1>6. Atendido
  <2>1. CASE EscribirBloque(n, op)
    BY <1>1, <1>2, <1>4, <2>1, EscribirEs
  <2>2. CASE LeerBloque(n, op)
    BY <1>1, <1>2, <1>4, <2>2, LeerEs
  <2>3. CASE /\ fs' = "caido" /\ disco' = disco /\ conexion' = conexion /\ orden' = orden
             /\ bsent' = bsent /\ suenio' = suenio /\ mapas' = mapas /\ hist' = hist
    BY <1>1, <1>2, <2>3, TiposQuedan DEF Atendido, TypeOK
  <2> QED
    BY <1>4, <2>1, <2>2, <2>3 DEF Atender
<1>7. TypeOK'
  <2>1. TipoNodos'
    BY <1>1, <1>2, <1>6 DEF TypeOK, TipoNodos, Atendido
  <2>2. hist' \subseteq Historia
    BY <1>2, <1>6 DEF TypeOK, Historia, Atendido
  <2> QED
    BY <1>1, <1>2, <1>5, <1>6, <2>1, <2>2, TiposQuedan DEF TypeOK, Atendido
<1>8. Exclusion'
  <2>1. CASE orden' = orden
    BY <1>1, <1>2, <1>6, <2>1, PartesQuedan DEF Atendido
  <2>2. CASE orden.tipo = "baja"
    <3>1. hilo[Consola].pc = "libre"
      BY <1>2, <2>2 DEF Exclusion, SinOrden
    <3> QED
      BY <1>1, <1>2, <1>6, <3>1, ExclusionOrden DEF Atendido
  <2> QED
    BY <1>6, <2>1, <2>2 DEF Atendido
<1>9. Nombres' /\ Avance'
  BY <1>1, <1>2, PartesQuedan
<1>10. Operaciones'
  BY <1>1, <1>2, <1>5 DEF Operaciones
<1>11. EnCopia'
  BY <1>1, <1>2, <1>6 DEF EnCopia, Atendido
<1>12. Agotado'
  BY <1>1, <1>2, <1>6, AgotadoQueda DEF Activos, Atendido
<1>13. Cuentas'
  BY <1>1, <1>2, <1>6, CuentasQuedan, PuestasIguales DEF Atendido
<1>14. TablaSana'
  BY <1>1, <1>2, <1>6, TablaQueda DEF Atendido
<1> QED
  BY <1>7, <1>8, <1>9, <1>10, <1>11, <1>12, <1>13, <1>14 DEF IInv, Cuentas

-----------------------------------------------------------------------------
(* Uploads begin and end. *)

LEMMA LibresEnteros ==
  ASSUME TypeOK
  PROVE  BloquesLibres \in Int
<1>1. Activos \subseteq Nodos
  BY DEF Activos, TypeOK, TipoNodos
<1>2. IsFiniteSet(Activos)
  BY <1>1, Constantes, FS_Subset
<1>3. \A n \in Activos : Libres[n] \in Int
  BY <1>1, TipoEspacioEs DEF Libres
<1>4. PICK S : S = Activos
  OBVIOUS
<1>5. PICK f : f = Libres
  OBVIOUS
<1>6. IsFiniteSet(S) /\ (\A n \in S : f[n] \in Int) /\ S \in SUBSET S
  BY <1>2, <1>3, <1>4, <1>5
<1>7. Suma(f, S) \in Int
  BY <1>6, SumaEntera
<1>8. Suma(f, S) = MapThenSumSet(LAMBDA x : f[x], S)
  BY DEF Suma
<1>9. BloquesLibres = Suma(f, S)
  BY <1>4, <1>5, <1>8 DEF BloquesLibres
<1> QED
  BY <1>7, <1>9

LEMMA MinDeDos ==
  ASSUME NEW a \in Int, NEW b \in Int
  PROVE  Min({a, b}) \in Int
<1>1. \E x \in {a, b} : \A y \in {a, b} : x <= y
  BY SMT
<1>2. Min({a, b}) \in {a, b}
  BY <1>1 DEF Min
<1> QED
  BY <1>2

LEMMA DespedirEs ==
  ASSUME TypeOK, NEW t \in Hilos, Despedir(t)
  PROVE  /\ hilo' \in [Hilos -> TipoHilo] /\ \A u \in Hilos \ {t} : hilo'[u] = hilo[u]
         /\ hilo'[t].pc \in {"libre", "fin"} /\ (t = Consola => hilo'[t].pc = "libre")
         /\ hilo'[t].id = 0 /\ hilo'[t].bloques = <<>> /\ hilo'[t].guardados = 0
         /\ hilo'[t].ino = 0 /\ hilo'[t].envio = SinEnvio
<1>1. PICK pc \in {"libre", "fin"} : pc = IF t = Consola THEN "libre" ELSE "fin"
  OBVIOUS
<1>2. PICK k : k = [SinSubir EXCEPT !.pc = pc]
  OBVIOUS
<1>3. hilo' = [hilo EXCEPT ![t] = k]
  BY <1>1, <1>2 DEF Despedir
<1>4. k = [pc |-> pc, ruta |-> Nadie, id |-> 0, bloques |-> <<>>, paso |-> 0,
           guardados |-> 0, ino |-> 0, envio |-> SinEnvio]
  BY <1>2 DEF SinSubir
<1>5. k \in TipoHilo
  <2>1. pc \in TipoPc /\ Nadie \in TipoRuta /\ 0 \in TipoIno /\ SinEnvio \in TipoEnvio /\ 0 \in Nat
    BY DEF TipoPc, TipoRuta, TipoIno, TipoEnvio
  <2>2. <<>> \in TipoBloques
    BY DEF TipoBloques
  <2> QED
    BY <1>4, <2>1, <2>2 DEF TipoHilo
<1>6. hilo' \in [Hilos -> TipoHilo] /\ hilo'[t] = k /\ \A u \in Hilos \ {t} : hilo'[u] = hilo[u]
  BY <1>3, <1>5, HiloPuesto
<1> QED
  BY <1>1, <1>4, <1>6

(* A thread that leaves the others alone and is out of uploads. *)
LEMMA NombradoFuera ==
  ASSUME Nombres, NEW t \in Hilos, hilo'[t].id = 0, hilo'[t].pc \in {"libre", "fin"},
         \A u \in Hilos \ {t} : hilo'[u] = hilo[u], archivos' = archivos, cuenta' = cuenta,
         cuenta.subidas \in Nat
  PROVE  Nombres'
<1>1. Nombrado(t)'
  BY DEF Nombres, Nombrado, EsLibre
<1>2. \A u \in Hilos \ {t} : Nombrado(u)'
  BY DEF Nombres, Nombrado, EsLibre
<1> QED
  BY <1>1, <1>2 DEF Nombres

(* What the thread of an upload of k blocks has once it has entered. *)
Entra(t, k, h, q, ino, bl) ==
  /\ k \in Nat \ {0} /\ k <= MaxBloques /\ ino \in Inodos /\ ino = InodoDeBlocks
  /\ bl \in TipoBloques /\ Len(bl) = k /\ bl # <<>> /\ DOMAIN bl = 1 .. k
  /\ \A b \in DOMAIN bl : \A c \in Par : bl[b][c] = SinCopia
  /\ h = hilo[t] /\ h \in TipoHilo /\ h.guardados = 0 /\ h.envio = SinEnvio /\ h.pc = "mutex"
  /\ h.id \in Nat /\ h.ruta \in Rutas
  /\ q \in TipoHilo /\ q.pc = "reparte" /\ q.paso = 1 /\ q.ino = ino /\ q.bloques = bl
  /\ q.id = h.id /\ q.ruta = h.ruta /\ q.envio = h.envio /\ q.guardados = h.guardados
  /\ hilo' \in [Hilos -> TipoHilo] /\ hilo'[t] = q /\ \A u \in Hilos \ {t} : hilo'[u] = hilo[u]

LEMMA EntraEs ==
  ASSUME IInv, NEW t \in Hilos, NEW k \in 0 .. MaxBloques, k # 0, hilo[t].pc = "mutex", cpmut = Nadie,
         hilo' = [hilo EXCEPT ![t].pc = "reparte", ![t].paso = 1, ![t].ino = InodoDeBlocks,
                              ![t].bloques = [i \in 1 .. k |-> <<SinCopia, SinCopia>>]]
  PROVE  \E h, q, ino, bl : Entra(t, k, h, q, ino, bl)
<1>1. TypeOK /\ Exclusion
  BY DEF IInv
<1>2. \A u \in Hilos : ~ Mapeada(u) /\ cpmut # u
  BY <1>1, Constantes DEF Exclusion, Excluye
<1>5. PICK ino \in Inodos : ino = InodoDeBlocks
  BY <1>1, InodoEs
<1>6. PICK bl : bl = [i \in 1 .. k |-> <<SinCopia, SinCopia>>]
  OBVIOUS
<1>7. k \in Nat \ {0} /\ k <= MaxBloques
  BY Constantes
<1>8. /\ bl \in TipoBloques /\ Len(bl) = k /\ bl # <<>> /\ DOMAIN bl = 1 .. k
      /\ \A b \in DOMAIN bl : \A c \in Par : bl[b][c] = SinCopia
  <2>1. SinCopia \in TipoCopia
    BY DEF TipoCopia
  <2>2. \A b \in 1 .. k : bl[b] = <<SinCopia, SinCopia>> /\ bl[b] \in TipoCopia \X TipoCopia
    BY <1>6, <2>1
  <2>3. bl \in TipoBloques /\ Len(bl) = k /\ DOMAIN bl = 1 .. k
    BY <1>6, <1>7, <2>2 DEF TipoBloques
  <2>4. bl # <<>>
    BY <1>7, <2>3
  <2>5. \A b \in 1 .. k : \A c \in Par : bl[b][c] = SinCopia
    BY <2>2 DEF Par
  <2> QED
    BY <2>3, <2>4, <2>5
<1>9. PICK h : h = hilo[t]
  OBVIOUS
<1>10. h \in TipoHilo /\ hilo \in [Hilos -> TipoHilo] /\ h.guardados = 0 /\ h.envio = SinEnvio
      /\ h.pc = "mutex" /\ h.id \in Nat /\ h.ruta \in Rutas
  <2>1. Excluye(t)
    BY <1>1 DEF Exclusion
  <2>2. hilo[t].envio = SinEnvio /\ hilo[t].ruta \in Rutas
    BY <2>1 DEF Excluye
  <2>3. hilo[t].guardados = 0
    BY <1>1, <1>2, NadaPuesto
  <2> QED
    BY <1>1, <1>9, <2>2, <2>3, TipoHiloEs DEF TypeOK, TipoHilos
<1>11. PICK pc \in TipoPc, ii \in TipoIno, paso \in Nat : pc = "reparte" /\ ii = ino /\ paso = 1
  BY DEF TipoPc, TipoIno
<1>12. PICK q : q = [h EXCEPT !.pc = pc, !.paso = paso, !.ino = ii, !.bloques = bl]
  OBVIOUS
<1>13. /\ q \in TipoHilo /\ q.pc = pc /\ q.paso = paso /\ q.ino = ii /\ q.bloques = bl
      /\ q.id = h.id /\ q.ruta = h.ruta /\ q.envio = h.envio /\ q.guardados = h.guardados
  BY ONLY <1>8, <1>10, <1>11, <1>12 DEF TipoHilo
<1>14. hilo' = [hilo EXCEPT ![t] = q]
  <2>1. hilo' = [hilo EXCEPT ![t].pc = pc, ![t].paso = paso, ![t].ino = ii, ![t].bloques = bl]
    BY <1>5, <1>6, <1>11
  <2> QED
    BY <1>9, <1>10, <1>12, <2>1
<1>15. hilo' \in [Hilos -> TipoHilo] /\ hilo'[t] = q /\ \A u \in Hilos \ {t} : hilo'[u] = hilo[u]
  BY <1>1, <1>13, <1>14, HiloPuesto
<1>16. q.pc = "reparte" /\ q.paso = 1 /\ q.ino = ino
  BY <1>11, <1>13
<1>17. Entra(t, k, h, q, ino, bl)
  BY <1>5, <1>7, <1>8, <1>9, <1>10, <1>13, <1>15, <1>16 DEF Entra
<1> QED
  BY <1>17

LEMMA EntrarPasa ==
  ASSUME IInv, NEW t \in Hilos, NEW k \in 0 .. MaxBloques, Entrar(t, k)
  PROVE  IInv'
<1>1. /\ hilo[t].pc = "mutex" /\ cpmut = Nadie /\ Ping(lista)
      /\ bsent' = [th |-> t, current |-> 0, total |-> Min({BloquesLibres, 2 * k})]
      /\ lista' = lista /\ conexion' = conexion /\ espacio' = espacio /\ disco' = disco
      /\ archivos' = archivos /\ orden' = orden /\ suenio' = suenio /\ cola' = cola /\ cuenta' = cuenta
  BY DEF Entrar
<1>2. TypeOK /\ Exclusion /\ Nombres /\ Operaciones /\ EnCopia /\ Avance /\ Agotado /\ Cuentas /\ TablaSana
  BY DEF IInv, Cuentas
<1>3. manejador' \subseteq manejador /\ Activos' = Activos
  BY <1>1, PingEs
<1>4. TipoSubida' /\ bsent'.th = t
  <2>1. k \in Nat /\ 2 * k \in Int
    BY Constantes
  <2>2. PICK tot \in Int : tot = Min({BloquesLibres, 2 * k})
    BY <1>2, <2>1, LibresEnteros, MinDeDos
  <2>3. bsent' = [th |-> t, current |-> 0, total |-> tot]
    BY <1>1, <2>2
  <2> QED
    BY <1>1, <1>2, <2>3 DEF TypeOK, TipoSubida
<1>5. \A u \in Hilos : ~ Mapeada(u) /\ cpmut # u /\ CopiasDe(hilo[u]) = {}
  <2>1. \A u \in Hilos : ~ Mapeada(u) /\ cpmut # u
    BY <1>1, <1>2, Constantes DEF Exclusion, Excluye
  <2> QED
    BY <1>2, <2>1, NadaPuesto
<1>6. TipoEspacios' /\ TipoDiscos' /\ TipoColas' /\ TipoOrden' /\ cuenta' \in TipoCuenta
      /\ archivos' \subseteq TipoArchivo
  BY <1>1, <1>2, TiposQuedan DEF TypeOK
<1>7. EnCopia'
  BY <1>1, <1>2, PartesQuedan
<1>8. \A u \in Hilos \ {t} : hilo'[u] = hilo[u] /\ cpmut' # u => Excluye(u)'
  BY <1>2, <1>5, ExcluyeQueda DEF Exclusion
<1>9. t = Consola => orden' = SinOrden
  BY <1>1, <1>2 DEF Exclusion
<1>10. orden' # SinOrden /\ t # Consola => hilo[Consola].pc = "libre"
  BY <1>1, <1>2 DEF Exclusion
<1>11. CASE Despedir(t) /\ fs' = fs /\ cpmut' = cpmut /\ mapas' = mapas /\ blocks' = blocks /\ hist' = hist
  <2>1. /\ hilo' \in [Hilos -> TipoHilo] /\ \A u \in Hilos \ {t} : hilo'[u] = hilo[u]
        /\ hilo'[t].pc \in {"libre", "fin"} /\ (t = Consola => hilo'[t].pc = "libre")
        /\ hilo'[t].id = 0 /\ hilo'[t].bloques = <<>> /\ hilo'[t].guardados = 0
        /\ hilo'[t].ino = 0 /\ hilo'[t].envio = SinEnvio
    BY <1>2, <1>11, DespedirEs
  <2>2. TypeOK'
    <3>1. TipoHilos'
      BY <1>2, <2>1 DEF TypeOK, TipoHilos
    <3>2. TipoNodos' /\ TipoMapas' /\ hist' \subseteq Historia
      BY <1>1, <1>2, <1>3, <1>11, TiposQuedan DEF TypeOK, TipoNodos
    <3> QED
      BY <1>4, <1>6, <3>1, <3>2 DEF TypeOK
  <2>3. \A u \in Hilos : ~ Mapeada(u)' /\ cpmut' # u
    BY <1>5, <1>11, <2>1 DEF Mapeada
  <2>4. Exclusion'
    <3>1. Excluye(t)'
      BY <2>1, <2>3 DEF Excluye
    <3>2. \A u \in Hilos \ {t} : Excluye(u)'
      BY <1>8, <2>1, <2>3
    <3>3. orden' # SinOrden => hilo'[Consola].pc = "libre"
      BY <1>9, <1>10, <2>1, Constantes
    <3> QED
      BY <3>1, <3>2, <3>3 DEF Exclusion
  <2>5. Nombres'
    <3>1. cuenta.subidas \in Nat
      BY <1>2 DEF TypeOK, TipoCuenta
    <3> QED
      BY <1>1, <1>2, <2>1, <3>1, NombradoFuera
  <2>6. Operaciones'
    BY <1>1, <1>2, <2>1 DEF Operaciones
  <2>7. Avance' /\ Agotado'
    BY <2>3 DEF Avance, Agotado
  <2>8. Cuentas'
    <3>1. CopiasDe(hilo'[t]) = {}
      BY <2>1, SinCopias
    <3>2. \A u \in Hilos : CopiasDe(hilo'[u]) = CopiasDe(hilo[u])
      BY <1>5, <2>1, <3>1
    <3> QED
      BY <1>1, <1>2, <1>11, <3>2, CuentasQuedan, PuestasIguales
  <2>9. TablaSana'
    BY <1>1, <1>2, <1>11, TablaQueda
  <2> QED
    BY <1>7, <2>2, <2>4, <2>5, <2>6, <2>7, <2>8, <2>9 DEF IInv, Cuentas
<1>12. CASE /\ fs' = "caido" /\ hist' = hist \cup {"vacio"} /\ cpmut' = cpmut /\ hilo' = hilo
            /\ mapas' = mapas /\ blocks' = blocks
  <2>1. hist \subseteq hist' /\ hist' \subseteq Historia
    BY <1>2, <1>12 DEF TypeOK, Historia
  <2>2. TypeOK'
    <3>1. TipoNodos' /\ TipoMapas' /\ TipoHilos'
      BY <1>1, <1>2, <1>3, <1>12, TiposQuedan DEF TypeOK, TipoNodos
    <3> QED
      BY <1>4, <1>6, <2>1, <3>1 DEF TypeOK
  <2>3. Exclusion'
    <3>1. Excluye(t)'
      BY <1>2, <1>5, <1>12, ExcluyeQueda DEF Exclusion
    <3>2. \A u \in Hilos \ {t} : Excluye(u)'
      BY <1>5, <1>8, <1>12
    <3> QED
      BY <1>1, <1>2, <1>12, <3>1, <3>2 DEF Exclusion
  <2>4. Nombres' /\ Operaciones' /\ Avance'
    BY <1>1, <1>2, <1>12, PartesQuedan
  <2>5. Agotado'
    BY <1>1, <1>2, <1>3, <1>12, <2>1, AgotadoQueda
  <2>6. Cuentas'
    BY <1>1, <1>2, <1>12, <2>1, CuentasQuedan, PuestasIguales
  <2>7. TablaSana'
    BY <1>1, <1>2, <2>1, TablaQueda
  <2> QED
    BY <1>7, <2>2, <2>3, <2>4, <2>5, <2>6, <2>7 DEF IInv, Cuentas
<1>13. CASE /\ k # 0 /\ cpmut' = t /\ fs' = fs /\ blocks' = InodoDeBlocks
            /\ mapas' = [mapas EXCEPT ![InodoDeBlocks] = [i \in 1 .. k |-> <<hilo[t].id, i>>]]
            /\ hilo' = [hilo EXCEPT ![t].pc = "reparte", ![t].paso = 1, ![t].ino = InodoDeBlocks,
                                    ![t].bloques = [i \in 1 .. k |-> <<SinCopia, SinCopia>>]]
            /\ hist \subseteq hist' /\ hist' \subseteq hist \cup {"carrera"}
  <2>0. PICK h, q, ino, bl : Entra(t, k, h, q, ino, bl)
    BY <1>1, <1>13, EntraEs
  <2>1. ino \in Inodos /\ ino = InodoDeBlocks
    BY <2>0 DEF Entra
  <2>3. k \in Nat \ {0} /\ k <= MaxBloques
    BY <2>0 DEF Entra
  <2>4. /\ bl \in TipoBloques /\ Len(bl) = k /\ bl # <<>> /\ DOMAIN bl = 1 .. k
        /\ \A b \in DOMAIN bl : \A c \in Par : bl[b][c] = SinCopia
    BY <2>0 DEF Entra
  <2>5. h = hilo[t]
    BY <2>0 DEF Entra
  <2>6. h \in TipoHilo /\ h.guardados = 0 /\ h.envio = SinEnvio
        /\ h.pc = "mutex" /\ h.id \in Nat /\ h.ruta \in Rutas
    BY <2>0 DEF Entra
  <2>9. /\ q \in TipoHilo /\ q.pc = "reparte" /\ q.paso = 1 /\ q.ino = ino /\ q.bloques = bl
        /\ q.id = h.id /\ q.ruta = h.ruta /\ q.envio = h.envio /\ q.guardados = h.guardados
    BY <2>0 DEF Entra
  <2>11. hilo' \in [Hilos -> TipoHilo] /\ hilo'[t] = q /\ \A u \in Hilos \ {t} : hilo'[u] = hilo[u]
    BY <2>0 DEF Entra
  <2>12. TypeOK'
    <3>1. TipoHilos'
      BY <1>2, <2>6, <2>9, <2>11 DEF TypeOK, TipoHilos
    <3>2. TipoMapas'
      <4>1. PICK s : s = [i \in 1 .. k |-> <<h.id, i>>]
        OBVIOUS
      <4>2. s \in Seq(Dato)
        BY <2>3, <2>6, <4>1 DEF Dato
      <4>3. mapas' = [mapas EXCEPT ![ino] = s]
        BY <1>13, <2>1, <2>5, <4>1
      <4>4. mapas \in [Inodos -> Seq(Dato)]
        BY <1>2 DEF TypeOK, TipoMapas
      <4> QED
        BY <1>13, <2>1, <4>2, <4>3, <4>4 DEF TipoMapas, TipoIno
    <3>3. TipoNodos' /\ hist' \subseteq Historia
      BY <1>1, <1>2, <1>3, <1>13 DEF TypeOK, TipoNodos, Historia
    <3> QED
      BY <1>4, <1>6, <3>1, <3>2, <3>3 DEF TypeOK
  <2>13. Mapeada(t)' /\ \A u \in Hilos \ {t} : ~ Mapeada(u)' /\ cpmut' # u
    BY <1>5, <1>13, <2>9, <2>11 DEF Mapeada
  <2>14. Exclusion'
    <3>1. ConBloques(t)'
      BY <1>4, <2>1, <2>3, <2>4, <2>9, <2>11 DEF ConBloques
    <3>2. Excluye(t)'
      BY <1>13, <2>6, <2>9, <2>11, <2>13, <3>1 DEF Excluye
    <3>3. \A u \in Hilos \ {t} : Excluye(u)'
      BY <1>8, <2>11, <2>13
    <3>4. orden' # SinOrden => hilo'[Consola].pc = "libre"
      BY <1>9, <1>10, <2>11, Constantes
    <3> QED
      BY <3>2, <3>3, <3>4 DEF Exclusion
  <2>15. Nombres'
    <3>1. \A u \in Hilos : MismoNombre(u)
      BY <2>5, <2>6, <2>9, <2>11 DEF MismoNombre, EsLibre
    <3> QED
      BY <1>1, <1>2, <3>1, NombresSiguen
  <2>16. Operaciones'
    BY <1>1, <1>2, <2>6, <2>9, <2>11 DEF Operaciones
  <2>17. Hechos(q) = 0
    BY <2>9 DEF Hechos
  <2>18. Avance'
    <3>1. SinCopia.nodo = Nadie
      BY DEF SinCopia
    <3>2. \A b \in DOMAIN bl : EnPasada(q, b)
      BY <2>4, <2>9 DEF EnPasada, Par
    <3> QED
      BY <2>6, <2>9, <2>11, <2>13, <2>17, <3>2 DEF Avance
  <2>19. Agotado'
    <3>1. \A b \in DOMAIN bl : ~ (b <= 0)
      BY <2>4
    <3> QED
      BY <2>9, <2>11, <2>13, <2>17, <3>1 DEF Agotado
  <2>20. Cuentas'
    <3>1. CopiasDe(q) = {}
      BY <2>4, <2>9, SinCopias
    <3>2. \A u \in Hilos : CopiasDe(hilo'[u]) = CopiasDe(hilo[u])
      BY <1>5, <2>11, <3>1
    <3> QED
      BY <1>1, <1>2, <1>13, <3>2, CuentasQuedan, PuestasIguales
  <2>21. TablaSana'
    BY <1>1, <1>2, <1>13, TablaQueda
  <2> QED
    BY <1>7, <2>12, <2>14, <2>15, <2>16, <2>18, <2>19, <2>20, <2>21 DEF IInv, Cuentas
<1> QED
  <2>1. BloquesLibres < k \/ k = 0 \/ k # 0
    OBVIOUS
  <2> QED
    BY <1>11, <1>12, <1>13 DEF Entrar, mapaVars

(* What an upload placed: the copies of its two passes. *)
LEMMA PasadasHechas ==
  ASSUME TypeOK, Exclusion, Avance, Agotado, EnRegla({"crece"}), NEW t \in Hilos, Esperando(t),
         Len(hilo[t].bloques) <= hilo[t].guardados
  PROVE  \A b \in DOMAIN hilo[t].bloques :
           /\ \E c \in Par : hilo[t].bloques[b][c] # SinCopia
           /\ hilo[t].bloques[b][1].nodo # hilo[t].bloques[b][2].nodo
<1>1. Mapeada(t) /\ ConBloques(t)
  BY DEF Esperando, Mapeada, Exclusion, Excluye
<1>2. PICK bl \in TipoBloques, len \in Nat : bl = hilo[t].bloques /\ len = Len(bl) /\ DOMAIN bl = 1 .. len
  BY TipoHiloEs DEF TipoBloques
<1>3. hilo[t].paso \in Nat /\ hilo[t].paso > 2 * len /\ hilo[t].pc = "reparte" /\ hilo[t].guardados \in Nat
  BY <1>2, TipoHiloEs DEF Esperando
<1>4. Hechos(hilo[t]) = hilo[t].paso - 1
  BY <1>3 DEF Hechos
<1>5. \A b \in DOMAIN bl : b <= Hechos(hilo[t])
  BY <1>2, <1>3, <1>4
<1>6. \A b \in DOMAIN bl : bl[b][1] # SinCopia
  BY <1>1, <1>2, <1>3, <1>5 DEF Agotado
<1>7. \A b \in DOMAIN bl : bl[b][1].nodo # bl[b][2].nodo
  <2>1. \A b \in DOMAIN bl : EnPasada(hilo[t], b)
    BY <1>1, <1>2 DEF Avance
  <2> QED
    BY <1>2, <1>6, <2>1 DEF EnPasada
<1>8. 1 \in Par
  BY DEF Par
<1> QED
  BY <1>2, <1>6, <1>7, <1>8

LEMMA TerminarPasa ==
  ASSUME IInv, NEW t \in Hilos, Terminar(t)
  PROVE  IInv'
<1>1. /\ Esperando(t) /\ suenio[t] > 0 /\ suenio' = [suenio EXCEPT ![t] = @ - 1]
      /\ blocks' = 0 /\ cpmut' = Nadie /\ Despedir(t)
      /\ fs' = fs /\ lista' = lista /\ conexion' = conexion /\ manejador' = manejador
      /\ espacio' = espacio /\ disco' = disco /\ orden' = orden /\ bsent' = bsent /\ cola' = cola
      /\ mapas' = mapas /\ cuenta' = cuenta /\ hist \subseteq hist' /\ hist' \subseteq hist \cup {"fuga"}
  BY DEF Terminar, nodoVars
<1>2. TypeOK /\ Exclusion /\ Nombres /\ Operaciones /\ EnCopia /\ Avance /\ Agotado /\ Cuentas /\ TablaSana
  BY DEF IInv, Cuentas
<1>3. PICK h : h = hilo[t]
  OBVIOUS
<1>4. PICK f : f = [ruta |-> h.ruta, id |-> h.id, bloques |-> h.bloques]
  OBVIOUS
<1>5. f.ruta = h.ruta /\ f.id = h.id /\ f.bloques = h.bloques
  BY <1>4
<1>6. \/ /\ Len(h.bloques) <= h.guardados /\ ~ EnTabla(h.ruta)
         /\ archivos' = archivos \cup {f} /\ hist' = hist
      \/ archivos' = archivos /\ hist' = hist \cup {"fuga"}
  BY <1>3, <1>4 DEF Terminar, Exito
<1>7. Mapeada(t) /\ cpmut = t /\ ConBloques(t) /\ h.pc = "reparte"
  BY <1>1, <1>2, <1>3 DEF Esperando, Mapeada, Exclusion, Excluye
<1>8. /\ hilo' \in [Hilos -> TipoHilo] /\ \A u \in Hilos \ {t} : hilo'[u] = hilo[u]
      /\ hilo'[t].pc \in {"libre", "fin"} /\ (t = Consola => hilo'[t].pc = "libre")
      /\ hilo'[t].id = 0 /\ hilo'[t].bloques = <<>> /\ hilo'[t].guardados = 0
      /\ hilo'[t].ino = 0 /\ hilo'[t].envio = SinEnvio
  BY <1>1, <1>2, DespedirEs
<1>9. \A u \in Hilos : ~ Mapeada(u)' /\ cpmut' # u
  <2>1. \A u \in Hilos \ {t} : ~ Mapeada(u)
    BY <1>2, <1>7 DEF Exclusion, Excluye
  <2> QED
    BY <1>1, <1>8, <2>1, Constantes DEF Mapeada
<1>10. /\ h \in TipoHilo /\ h.ruta \in Rutas /\ h.id \in Nat \ {0} /\ h.bloques \in TipoBloques
       /\ h.id <= cuenta.subidas /\ cuenta.subidas \in Nat
  <2>1. Excluye(t) /\ Nombrado(t)
    BY <1>2 DEF Exclusion, Nombres
  <2>2. h.ruta \in Rutas
    BY <1>3, <1>7, <2>1 DEF Excluye
  <2>3. h.id # 0 /\ h.id <= cuenta.subidas
    BY <1>3, <1>7, <2>1 DEF Nombrado, EsLibre
  <2>4. h \in TipoHilo /\ h.id \in Nat /\ h.bloques \in TipoBloques
    BY <1>2, <1>3, TipoHiloEs
  <2> QED
    BY <1>2, <2>2, <2>3, <2>4 DEF TypeOK, TipoCuenta
<1>11. f \in TipoArchivo
  BY <1>4, <1>10 DEF TipoArchivo
<1>12. TypeOK'
  <2>1. TipoHilos'
    BY <1>2, <1>8 DEF TypeOK, TipoHilos
  <2>2. TipoSubida'
    BY <1>1, <1>2 DEF TypeOK, TipoSubida
  <2>3. TipoNodos' /\ TipoMapas'
    BY <1>1, <1>2 DEF TypeOK, TipoNodos, TipoMapas, TipoIno
  <2>4. hist' \subseteq Historia
    BY <1>1, <1>2 DEF TypeOK, Historia
  <2>5. archivos' \subseteq TipoArchivo
    BY <1>2, <1>6, <1>11 DEF TypeOK
  <2> QED
    BY <1>1, <1>2, <2>1, <2>2, <2>3, <2>4, <2>5, TiposQuedan DEF TypeOK
<1>13. Exclusion'
  <2>1. Excluye(t)'
    BY <1>8, <1>9 DEF Excluye
  <2>2. \A u \in Hilos \ {t} : Excluye(u)'
    <3>1. \A u \in Hilos \ {t} : cpmut # u /\ Excluye(u)
      BY <1>2, <1>7 DEF Exclusion
    <3> QED
      BY <1>8, <1>9, <3>1, ExcluyeQueda
  <2>3. orden' # SinOrden => hilo'[Consola].pc = "libre"
    BY <1>1, <1>2, <1>8, Constantes DEF Exclusion
  <2> QED
    BY <2>1, <2>2, <2>3 DEF Exclusion
<1>14. Nombres'
  <2>1. archivos' = archivos \/ archivos' = archivos \cup {f}
    BY <1>6
  <2>2. \A g \in archivos : g.id # f.id /\ g.id \in 1 .. cuenta.subidas /\ Len(g.bloques) <= MaxBloques
    BY <1>2, <1>3, <1>5 DEF Nombres, Nombrado
  <2>3. f.id \in 1 .. cuenta.subidas /\ Len(f.bloques) <= MaxBloques
    BY <1>3, <1>5, <1>7, <1>10 DEF ConBloques
  <2>4. \A g \in archivos' : g.id \in 1 .. cuenta'.subidas /\ Len(g.bloques) <= MaxBloques
    BY <1>1, <2>1, <2>2, <2>3
  <2>5. \A g, j \in archivos' : g.id = j.id => g = j
    BY <1>2, <2>1, <2>2 DEF Nombres
  <2>6. Nombrado(t)'
    BY <1>1, <1>8, <1>10, <2>4 DEF Nombrado, EsLibre
  <2>7. \A u \in Hilos \ {t} : Nombrado(u)'
    <3> TAKE u \in Hilos \ {t}
    <3>1. Nombrado(u) /\ hilo'[u] = hilo[u]
      BY <1>2, <1>8 DEF Nombres
    <3>2. \A g \in archivos' : g.id # hilo[u].id
      <4>1. f.id # hilo[u].id
        BY <1>3, <1>5, <1>10, <3>1 DEF Nombrado
      <4> QED
        BY <2>1, <3>1, <4>1 DEF Nombrado
    <3>3. \A v \in Hilos : hilo'[u].id = hilo'[v].id /\ hilo'[u].id # 0 => u = v
      BY <1>8, <3>1 DEF Nombrado
    <3> QED
      BY <1>1, <3>1, <3>2, <3>3 DEF Nombrado, EsLibre
  <2> QED
    BY <2>4, <2>5, <2>6, <2>7 DEF Nombres
<1>15. Operaciones'
  BY <1>1, <1>2, <1>8 DEF Operaciones
<1>16. Avance' /\ Agotado'
  BY <1>9 DEF Avance, Agotado
<1>17. EnCopia'
  BY <1>1, <1>2, <1>6 DEF EnCopia
<1>18. Cuentas'
  <2>1. CopiasDe(hilo'[t]) = {}
    BY <1>8, SinCopias
  <2>2. CASE archivos' = archivos \cup {f} /\ hist' = hist
    <3>1. CopiasDe(f) = CopiasDe(h)
      BY <1>5, CopiasIguales
    <3>2. \A p : p \in PuestasEn(archivos', hilo') <=> p \in PuestasEn(archivos, hilo)
      <4> TAKE p
      <4>1. (\E g \in archivos' : p \in CopiasDe(g)) <=> (\E g \in archivos : p \in CopiasDe(g)) \/ p \in CopiasDe(h)
        BY <2>2, <3>1
      <4>2. (\E u \in Hilos : p \in CopiasDe(hilo[u])) <=>
              (\E u \in Hilos : p \in CopiasDe(hilo'[u])) \/ p \in CopiasDe(h)
        BY <1>3, <1>8, <2>1
      <4> QED
        BY <4>1, <4>2, PuestasEs
    <3>3. PuestasEn(archivos', hilo') = PuestasEn(archivos, hilo)
      BY <3>2, Zenon
    <3>4. Puestas' = Puestas
      BY <3>3 DEF Puestas
    <3> QED
      BY <1>1, <1>2, <3>4, CuentasQuedan
  <2>3. CASE archivos' = archivos /\ hist' = hist \cup {"fuga"}
    <3>1. \A p : p \in PuestasEn(archivos', hilo') => p \in PuestasEn(archivos, hilo)
      BY <1>8, <2>1, <2>3, PuestasEs
    <3>2. Puestas' \subseteq Puestas
      BY <3>1 DEF Puestas
    <3>3. EnRegla({"carrera", "desfase"})' => EnRegla({"carrera", "desfase"})
      BY <2>3 DEF EnRegla
    <3>4. LibresCuadra'
      BY <1>1, <1>2, <3>3 DEF Cuentas, LibresCuadra
    <3>5. Reservas'
      BY <1>1, <1>2, <3>2, <3>3 DEF Cuentas, Reservas, Reservada
    <3>6. Justificados'
      BY <2>3 DEF Justificados, EnRegla
    <3> QED
      BY <3>4, <3>5, <3>6 DEF Cuentas
  <2> QED
    BY <1>6, <2>2, <2>3
<1>19. TablaSana'
  <2>1. CASE archivos' = archivos
    BY <1>1, <1>2, <2>1, TablaQueda
  <2>2. CASE /\ Len(h.bloques) <= h.guardados /\ ~ EnTabla(h.ruta)
             /\ archivos' = archivos \cup {f} /\ hist' = hist
    <3>1. RutaUnica'
      <4>1. \A g \in archivos : g.ruta # f.ruta
        BY <1>5, <2>2 DEF EnTabla
      <4> QED
        BY <1>2, <2>2, <4>1 DEF TablaSana, RutaUnica
    <3>2. CopiasDistintas'
      <4> SUFFICES ASSUME EnRegla({"crece"})', NEW g \in archivos', NEW b \in DOMAIN g.bloques
          PROVE  (\E c \in Par : g.bloques[b][c] # SinCopia) /\ g.bloques[b][1].nodo # g.bloques[b][2].nodo
        BY DEF CopiasDistintas
      <4>1. EnRegla({"crece"})
        BY <2>2 DEF EnRegla
      <4>2. CASE g \in archivos
        BY <1>2, <4>1, <4>2 DEF TablaSana, CopiasDistintas
      <4>3. CASE g = f
        BY <1>1, <1>2, <1>3, <1>5, <2>2, <4>1, <4>3, PasadasHechas
      <4> QED
        BY <2>2, <4>2, <4>3
    <3> QED
      BY <3>1, <3>2 DEF TablaSana
  <2> QED
    BY <1>6, <2>1, <2>2
<1> QED
  BY <1>12, <1>13, <1>14, <1>15, <1>16, <1>17, <1>18, <1>19 DEF IInv, Cuentas

-----------------------------------------------------------------------------
(* A restart: no uploads, and the bits that were read from the disk. *)

LEMMA SinSubidas ==
  ASSUME \A t \in Hilos : ~ Mapeada(t)', \A t \in Hilos : Excluye(t)', orden' = SinOrden
  PROVE  Exclusion' /\ Avance' /\ Agotado' /\ EnCopia'
BY DEF Exclusion, Avance, Agotado, EnCopia, SinOrden

LEMMA ReiniciarHilos ==
  ASSUME TypeOK, NEW limpio \in BOOLEAN, Reiniciar(limpio)
  PROVE  /\ hilo' \in [Hilos -> TipoHilo]
         /\ \A t \in Hilos : /\ hilo'[t].pc \in {"libre", "fin"} /\ hilo'[t].id = 0 /\ hilo'[t].bloques = <<>>
                             /\ hilo'[t].guardados = 0 /\ hilo'[t].ino = 0 /\ hilo'[t].envio = SinEnvio
                             /\ CopiasDe(hilo'[t]) = {}
<1>1. hilo' = [t \in Hilos |-> IF t = Consola THEN SinSubir
                               ELSE [SinSubir EXCEPT !.pc = IF hilo[t].pc = "libre" THEN "libre" ELSE "fin"]]
  BY DEF Reiniciar
<1>2. \A t \in Hilos : \E pc \in {"libre", "fin"} :
        hilo'[t] = [pc |-> pc, ruta |-> Nadie, id |-> 0, bloques |-> <<>>, paso |-> 0,
                    guardados |-> 0, ino |-> 0, envio |-> SinEnvio]
  <2> TAKE t \in Hilos
  <2>1. CASE t = Consola
    <3>1. hilo'[t] = [pc |-> "libre", ruta |-> Nadie, id |-> 0, bloques |-> <<>>, paso |-> 0,
                      guardados |-> 0, ino |-> 0, envio |-> SinEnvio]
      BY <1>1, <2>1 DEF SinSubir
    <3> QED
      BY <3>1
  <2>2. CASE t # Consola
    <3>1. PICK pc \in {"libre", "fin"} : pc = IF hilo[t].pc = "libre" THEN "libre" ELSE "fin"
      OBVIOUS
    <3>2. hilo'[t] = [SinSubir EXCEPT !.pc = pc]
      BY <1>1, <2>2, <3>1
    <3>3. hilo'[t] = [pc |-> pc, ruta |-> Nadie, id |-> 0, bloques |-> <<>>, paso |-> 0,
                      guardados |-> 0, ino |-> 0, envio |-> SinEnvio]
      BY <3>2 DEF SinSubir
    <3> QED
      BY <3>3
  <2> QED
    BY <2>1, <2>2
<1>3. \A t \in Hilos : /\ hilo'[t] \in TipoHilo
                       /\ hilo'[t].pc \in {"libre", "fin"} /\ hilo'[t].id = 0 /\ hilo'[t].bloques = <<>>
                       /\ hilo'[t].guardados = 0 /\ hilo'[t].ino = 0 /\ hilo'[t].envio = SinEnvio
  <2> TAKE t \in Hilos
  <2>1. PICK pc \in {"libre", "fin"} :
          hilo'[t] = [pc |-> pc, ruta |-> Nadie, id |-> 0, bloques |-> <<>>, paso |-> 0,
                      guardados |-> 0, ino |-> 0, envio |-> SinEnvio]
    BY <1>2
  <2>2. pc \in TipoPc /\ Nadie \in TipoRuta /\ 0 \in TipoIno /\ SinEnvio \in TipoEnvio /\ 0 \in Nat
    BY DEF TipoPc, TipoRuta, TipoIno, TipoEnvio
  <2>3. <<>> \in TipoBloques
    BY DEF TipoBloques
  <2>4. hilo'[t] \in TipoHilo
    BY <2>1, <2>2, <2>3 DEF TipoHilo
  <2> QED
    BY <2>1, <2>4
<1>4. \A t \in Hilos : CopiasDe(hilo'[t]) = {}
  <2> TAKE t \in Hilos
  <2>1. PICK g : g = hilo'[t]
    OBVIOUS
  <2>2. g.bloques = <<>>
    BY <1>3, <2>1
  <2>3. CopiasDe(g) = {}
    BY <2>2, SinCopias
  <2> QED
    BY <2>1, <2>3
<1>5. hilo' \in [Hilos -> TipoHilo]
  BY <1>1, <1>3
<1> QED
  BY <1>3, <1>4, <1>5

LEMMA ReiniciarPasa ==
  ASSUME IInv, NEW limpio \in BOOLEAN, Reiniciar(limpio)
  PROVE  IInv'
<1>1. /\ cuenta' = [cuenta EXCEPT !.reinicios = @ + 1]
      /\ fs' = "vivo" /\ manejador' = {} /\ conexion' = {} /\ orden' = SinOrden /\ cpmut' = Nadie
      /\ bsent' = [th |-> Consola, current |-> 0, total |-> 0]
      /\ suenio' = [t \in Hilos |-> 0] /\ cola' = [n \in Nodos |-> <<>>]
      /\ lista' = lista /\ disco' = disco /\ archivos' = archivos /\ mapas' = mapas /\ blocks' = blocks
      /\ espacio' = [n \in Nodos |->
           LET bits == IF limpio THEN espacio[n].ocupados ELSE espacio[n].archivo
           IN  [ocupados |-> bits, archivo |-> bits, libres |-> espacio[n].bin, bin |-> espacio[n].bin]]
  BY DEF Reiniciar, mapaVars
<1>2. /\ hist \subseteq hist' /\ hist' \subseteq hist \cup {"fuga", "perdio", "desfase"}
      /\ cpmut # Nadie => "fuga" \in hist'
      /\ "desfase" \notin hist' => \A n \in lista : /\ espacio'[n].ocupados = espacio[n].ocupados
                                                    /\ espacio'[n].libres = espacio[n].libres
  BY DEF Reiniciar
<1>3. TypeOK /\ Exclusion /\ Nombres /\ Operaciones /\ EnCopia /\ Avance /\ Agotado /\ Cuentas /\ TablaSana
  BY DEF IInv, Cuentas
<1>4. /\ hilo' \in [Hilos -> TipoHilo]
      /\ \A t \in Hilos : /\ hilo'[t].pc \in {"libre", "fin"} /\ hilo'[t].id = 0 /\ hilo'[t].bloques = <<>>
                          /\ hilo'[t].guardados = 0 /\ hilo'[t].ino = 0 /\ hilo'[t].envio = SinEnvio
                          /\ CopiasDe(hilo'[t]) = {}
  BY <1>3, ReiniciarHilos
<1>5. cuenta' \in TipoCuenta /\ cuenta'.subidas = cuenta.subidas /\ cuenta.subidas \in Nat
  BY <1>1, <1>3 DEF TypeOK, TipoCuenta
<1>6. TypeOK'
  <2>1. TipoNodos'
    BY <1>1, <1>3 DEF TypeOK, TipoNodos
  <2>2. TipoEspacios'
    <3>1. \A n \in Nodos : espacio'[n] \in TipoEspacio(n)
      <4> TAKE n \in Nodos
      <4>1. PICK bits : bits = IF limpio THEN espacio[n].ocupados ELSE espacio[n].archivo
        OBVIOUS
      <4>2. bits \subseteq Bits(n) /\ espacio[n].bin \in Int
        BY <1>3, <4>1, TipoEspacioEs
      <4>3. espacio'[n] = [ocupados |-> bits, archivo |-> bits, libres |-> espacio[n].bin, bin |-> espacio[n].bin]
        BY <1>1, <4>1
      <4> QED
        BY <4>2, <4>3 DEF TipoEspacio
    <3> QED
      BY <1>1, <3>1 DEF TipoEspacios
  <2>3. TipoColas'
    <3>1. \A n \in Nodos : cola'[n] = <<>>
      BY <1>1
    <3> QED
      BY <1>1, <3>1 DEF TipoColas, TipoCola
  <2>4. TipoHilos'
    BY <1>4 DEF TipoHilos
  <2>5. TipoOrden'
    BY <1>1 DEF TipoOrden, SinOrden
  <2>6. TipoSubida'
    BY <1>1, Constantes DEF TipoSubida
  <2>7. hist' \subseteq Historia
    BY <1>2, <1>3 DEF TypeOK, Historia
  <2> QED
    BY <1>1, <1>3, <1>5, <2>1, <2>2, <2>3, <2>4, <2>5, <2>6, <2>7, TiposQuedan DEF TypeOK
<1>7. Exclusion' /\ Avance' /\ Agotado' /\ EnCopia'
  <2>1. \A t \in Hilos : ~ Mapeada(t)'
    BY <1>4 DEF Mapeada
  <2>2. \A t \in Hilos : Excluye(t)'
    BY <1>1, <1>4, <2>1, Constantes DEF Excluye
  <2> QED
    BY <1>1, <2>1, <2>2, SinSubidas
<1>8. Nombres'
  <2>1. \A t \in Hilos : Nombrado(t)'
    BY <1>1, <1>3, <1>4, <1>5 DEF Nombres, Nombrado, EsLibre
  <2> QED
    BY <1>1, <1>3, <1>5, <2>1 DEF Nombres
<1>9. Operaciones'
  <2>1. \A n \in Nodos : cola'[n] = <<>>
    BY <1>1
  <2> QED
    BY <1>4, <2>1 DEF Operaciones
<1>10. Cuentas'
  <2>1. /\ EnRegla({"carrera", "desfase"})' => EnRegla({"carrera", "desfase"}) /\ "desfase" \notin hist'
        /\ EnRegla({"carrera", "desfase", "fuga"})' =>
             EnRegla({"carrera", "desfase", "fuga"}) /\ "desfase" \notin hist' /\ cpmut = Nadie
    BY <1>2 DEF EnRegla
  <2>2. Puestas' \subseteq Puestas
    <3>1. \A p : p \in PuestasEn(archivos', hilo') => p \in PuestasEn(archivos, hilo)
      BY <1>1, <1>4, PuestasEs
    <3> QED
      BY <3>1 DEF Puestas
  <2>3. cpmut = Nadie => Puestas' = Puestas
    <3> SUFFICES ASSUME cpmut = Nadie PROVE Puestas' = Puestas
      OBVIOUS
    <3>1. \A t \in Hilos : CopiasDe(hilo[t]) = {}
      BY <1>3, NadaPuesto, Constantes DEF Exclusion, Excluye
    <3> QED
      BY <1>1, <1>4, <3>1, PuestasIguales
  <2>4. LibresCuadra'
    BY <1>1, <1>2, <1>3, <2>1 DEF Cuentas, LibresCuadra
  <2>5. Reservas'
    <3> SUFFICES ASSUME EnRegla({"carrera", "desfase"})', NEW p \in Puestas'
        PROVE  Reservada(p)' /\ \A q \in Puestas' : p.en = q.en => p = q
      BY DEF Reservas
    <3>1. Reservada(p) /\ \A q \in Puestas : p.en = q.en => p = q
      BY <1>3, <2>1, <2>2 DEF Cuentas, Reservas
    <3> QED
      BY <1>1, <1>2, <2>1, <2>2, <3>1 DEF Reservada
  <2>6. Justificados'
    <3> SUFFICES ASSUME EnRegla({"carrera", "desfase", "fuga"})', NEW n \in lista, NEW i \in espacio'[n].ocupados
        PROVE  \E p \in Puestas' : p.en.nodo = n /\ p.en.num = i
      BY <1>1 DEF Justificados, DeAlguna
    <3>1. i \in espacio[n].ocupados
      BY <1>2, <2>1
    <3>2. DeAlguna(n, i)
      BY <1>3, <2>1, <3>1 DEF Cuentas, Justificados
    <3> QED
      BY <2>1, <2>3, <3>2 DEF DeAlguna
  <2> QED
    BY <2>4, <2>5, <2>6 DEF Cuentas
<1>11. TablaSana'
  BY <1>1, <1>2, <1>3, TablaQueda
<1> QED
  BY <1>6, <1>7, <1>8, <1>9, <1>10, <1>11 DEF IInv, Cuentas

-----------------------------------------------------------------------------
(* One copy of a block changes. *)

LEMMA ParCambia ==
  ASSUME NEW par \in TipoCopia \X TipoCopia, NEW c \in Par, NEW v \in TipoCopia,
         NEW q, q = [par EXCEPT ![c] = v]
  PROVE  q \in TipoCopia \X TipoCopia /\ q[c] = v /\ \A d \in Par : d # c => q[d] = par[d]
<1>1. DOMAIN par = 1 .. 2
  OBVIOUS
<1>2. DOMAIN q = 1 .. 2 /\ q[c] = v /\ \A d \in Par : d # c => q[d] = par[d]
  BY <1>1 DEF Par
<1>3. q[1] \in TipoCopia /\ q[2] \in TipoCopia
  BY <1>2 DEF Par
<1>4. q = <<q[1], q[2]>>
  <2>1. q = [d \in 1 .. 2 |-> q[d]]
    BY <1>1
  <2>2. PICK r : r = <<q[1], q[2]>>
    OBVIOUS
  <2>3. r = [d \in 1 .. 2 |-> r[d]] /\ r[1] = q[1] /\ r[2] = q[2]
    BY <2>2
  <2>4. \A d \in 1 .. 2 : q[d] = r[d]
    BY <2>3
  <2>5. q = r
    BY <2>1, <2>3, <2>4
  <2> QED
    BY <2>2, <2>5
<1> QED
  BY <1>2, <1>3, <1>4

CambiaSolo(z, bl, b, c, v) ==
  /\ Len(z) = Len(bl) /\ DOMAIN z = DOMAIN bl /\ z[b][c] = v
  /\ \A d \in DOMAIN bl : \A e \in Par : <<d, e>> # <<b, c>> => z[d][e] = bl[d][e]

LEMMA BloquesCambian ==
  ASSUME NEW bl \in TipoBloques, NEW b \in DOMAIN bl, NEW c \in Par, NEW v \in TipoCopia,
         NEW z, z = [bl EXCEPT ![b][c] = v]
  PROVE  z \in TipoBloques /\ CambiaSolo(z, bl, b, c, v)
<1>1. PICK q : q = [bl[b] EXCEPT ![c] = v]
  OBVIOUS
<1>2. z = [bl EXCEPT ![b] = q]
  BY <1>1
<1>3. bl \in Seq(TipoCopia \X TipoCopia) /\ bl[b] \in TipoCopia \X TipoCopia
  BY TipoParEs DEF TipoBloques
<1>4. q \in TipoCopia \X TipoCopia /\ q[c] = v /\ \A d \in Par : d # c => q[d] = bl[b][d]
  BY <1>1, <1>3, ParCambia
<1>5. z \in Seq(TipoCopia \X TipoCopia) /\ Len(z) = Len(bl) /\ DOMAIN z = DOMAIN bl
      /\ z[b] = q /\ \A d \in DOMAIN bl : d # b => z[d] = bl[d]
  BY <1>2, <1>3, <1>4
<1> QED
  BY <1>4, <1>5 DEF TipoBloques, CambiaSolo

(* A copy of a file, by its fields. *)
EsCopia(bl, id, p) ==
  /\ p.b \in DOMAIN bl /\ p.c \in Par /\ p.id = id /\ p.en = bl[p.b][p.c] /\ p.en # SinCopia
  /\ p = [id |-> p.id, b |-> p.b, c |-> p.c, en |-> p.en]

LEMMA EsCopiaSii ==
  ASSUME NEW f, NEW p
  PROVE  p \in CopiasDe(f) <=> EsCopia(f.bloques, f.id, p)
<1>1. ASSUME p \in CopiasDe(f) PROVE EsCopia(f.bloques, f.id, p)
  <2>1. PICK b \in DOMAIN f.bloques, c \in Par :
          f.bloques[b][c] # SinCopia /\ p = [id |-> f.id, b |-> b, c |-> c, en |-> f.bloques[b][c]]
    BY <1>1, CopiasDeEs, Zenon
  <2>2. p.id = f.id /\ p.b = b /\ p.c = c /\ p.en = f.bloques[b][c]
    BY <2>1
  <2>3. p = [id |-> p.id, b |-> p.b, c |-> p.c, en |-> p.en]
    BY <2>1, <2>2
  <2> QED
    BY <2>1, <2>2, <2>3 DEF EsCopia
<1>2. ASSUME EsCopia(f.bloques, f.id, p) PROVE p \in CopiasDe(f)
  <2>1. PICK b \in DOMAIN f.bloques, c \in Par : b = p.b /\ c = p.c
    BY <1>2 DEF EsCopia
  <2>2. f.bloques[b][c] # SinCopia /\ p = [id |-> f.id, b |-> b, c |-> c, en |-> f.bloques[b][c]]
    BY <1>2, <2>1 DEF EsCopia
  <2>3. \E x \in DOMAIN f.bloques : \E y \in Par :
          f.bloques[x][y] # SinCopia /\ p = [id |-> f.id, b |-> x, c |-> y, en |-> f.bloques[x][y]]
    BY <2>1, <2>2, Zenon
  <2> QED
    BY <2>3, CopiasDeEs, Zenon
<1> QED
  BY <1>1, <1>2

LEMMA CopiaPuesta ==
  ASSUME NEW f, NEW g, NEW bl \in TipoBloques, NEW b \in DOMAIN bl, NEW c \in Par, NEW v \in TipoCopia,
         f.bloques = bl, g.bloques = [bl EXCEPT ![b][c] = v], f.id = g.id, bl[b][c] = SinCopia,
         v # SinCopia
  PROVE  CopiasDe(g) = CopiasDe(f) \cup {[id |-> f.id, b |-> b, c |-> c, en |-> v]}
<1>1. PICK z : z = [bl EXCEPT ![b][c] = v]
  OBVIOUS
<1>2. /\ DOMAIN z = DOMAIN bl /\ z[b][c] = v
      /\ \A d \in DOMAIN bl : \A e \in Par : <<d, e>> # <<b, c>> => z[d][e] = bl[d][e]
  <2>1. z \in TipoBloques /\ CambiaSolo(z, bl, b, c, v)
    BY ONLY bl \in TipoBloques, b \in DOMAIN bl, c \in Par, v \in TipoCopia, <1>1, BloquesCambian
  <2> QED
    BY <2>1 DEF CambiaSolo
<1>3. PICK nueva, id : nueva = [id |-> id, b |-> b, c |-> c, en |-> v] /\ id = f.id
  OBVIOUS
<1>4. g.bloques = z /\ g.id = id /\ f.id = id
  BY <1>1, <1>3
<1>5. \A p : EsCopia(z, id, p) <=> EsCopia(bl, id, p) \/ p = nueva
  <2> TAKE p
  <2>1. p = nueva => p.b = b /\ p.c = c /\ p.id = id /\ p.en = v
    BY <1>3
  <2>2. CASE p.b = b /\ p.c = c
    <3>1. ~ EsCopia(bl, id, p)
      BY <2>2 DEF EsCopia
    <3>2. p = nueva => EsCopia(z, id, p)
      BY <1>2, <1>3, <2>1, <2>2 DEF EsCopia
    <3>3. EsCopia(z, id, p) => p = nueva
      BY <1>2, <1>3, <2>2 DEF EsCopia
    <3> QED
      BY <3>1, <3>2, <3>3
  <2>3. CASE ~ (p.b = b /\ p.c = c)
    <3>1. p # nueva
      BY <2>1, <2>3
    <3>2. p.b \in DOMAIN bl /\ p.c \in Par => z[p.b][p.c] = bl[p.b][p.c]
      BY <1>2, <2>3
    <3> QED
      BY <1>2, <3>1, <3>2 DEF EsCopia
  <2> QED
    BY <2>2, <2>3
<1>6. \A p : p \in CopiasDe(g) <=> p \in CopiasDe(f) \/ p = nueva
  <2> TAKE p
  <2>1. p \in CopiasDe(g) <=> EsCopia(z, id, p)
    BY <1>4, EsCopiaSii
  <2>2. p \in CopiasDe(f) <=> EsCopia(bl, id, p)
    BY <1>4, EsCopiaSii
  <2> QED
    BY <1>5, <2>1, <2>2
<1> QED
  BY <1>3, <1>6

LEMMA CopiaQuitada ==
  ASSUME NEW f, NEW g, NEW bl \in TipoBloques, NEW b \in DOMAIN bl, NEW c \in Par,
         f.bloques = bl, g.bloques = [bl EXCEPT ![b][c] = SinCopia], f.id = g.id
  PROVE  CopiasDe(g) = CopiasDe(f) \ {[id |-> f.id, b |-> b, c |-> c, en |-> bl[b][c]]}
<1>1. PICK z, v : z = [bl EXCEPT ![b][c] = v] /\ v = SinCopia
  OBVIOUS
<1>2. v \in TipoCopia
  BY <1>1 DEF TipoCopia
<1>3. /\ DOMAIN z = DOMAIN bl /\ z[b][c] = v
      /\ \A d \in DOMAIN bl : \A e \in Par : <<d, e>> # <<b, c>> => z[d][e] = bl[d][e]
  <2>1. z = [bl EXCEPT ![b][c] = v]
    BY <1>1
  <2>2. z \in TipoBloques /\ CambiaSolo(z, bl, b, c, v)
    BY ONLY bl \in TipoBloques, b \in DOMAIN bl, c \in Par, <1>2, <2>1, BloquesCambian
  <2> QED
    BY <2>2 DEF CambiaSolo
<1>4. PICK vieja, id : vieja = [id |-> id, b |-> b, c |-> c, en |-> bl[b][c]] /\ id = f.id
  OBVIOUS
<1>5. g.bloques = z /\ g.id = id /\ f.id = id
  BY <1>1, <1>4
<1>6. \A p : EsCopia(z, id, p) <=> EsCopia(bl, id, p) /\ p # vieja
  <2> TAKE p
  <2>1. p = vieja => p.b = b /\ p.c = c
    BY <1>4
  <2>2. CASE p.b = b /\ p.c = c
    <3>1. ~ EsCopia(z, id, p)
      BY <1>1, <1>3, <2>2 DEF EsCopia
    <3>2. EsCopia(bl, id, p) => p = vieja
      BY <1>4, <2>2 DEF EsCopia
    <3> QED
      BY <3>1, <3>2
  <2>3. CASE ~ (p.b = b /\ p.c = c)
    <3>1. p # vieja
      BY <2>1, <2>3
    <3>2. p.b \in DOMAIN bl /\ p.c \in Par => z[p.b][p.c] = bl[p.b][p.c]
      BY <1>3, <2>3
    <3> QED
      BY <1>3, <3>1, <3>2 DEF EsCopia
  <2> QED
    BY <2>2, <2>3
<1>7. \A p : p \in CopiasDe(g) <=> p \in CopiasDe(f) /\ p # vieja
  <2> TAKE p
  <2>1. p \in CopiasDe(g) <=> EsCopia(z, id, p)
    BY <1>5, EsCopiaSii
  <2>2. p \in CopiasDe(f) <=> EsCopia(bl, id, p)
    BY <1>5, EsCopiaSii
  <2> QED
    BY <1>6, <2>1, <2>2
<1> QED
  BY <1>4, <1>7

-----------------------------------------------------------------------------
(* The copies placed: whose they are, and that they are finitely many. *)

LEMMA PuestaEs ==
  ASSUME TypeOK, Exclusion, Nombres, NEW p \in Puestas
  PROVE  /\ p.id \in 1 .. cuenta.subidas /\ p.b \in 1 .. MaxBloques /\ p.c \in Par
         /\ p.en \in TipoCopia /\ p.en # SinCopia
         /\ p = [id |-> p.id, b |-> p.b, c |-> p.c, en |-> p.en]
         /\ \/ \E f \in archivos : EsCopia(f.bloques, f.id, p)
            \/ \E t \in Hilos : EsCopia(hilo[t].bloques, hilo[t].id, p)
<1>1. CASE \E f \in archivos : p \in CopiasDe(f)
  <2>1. PICK f \in archivos : p \in CopiasDe(f)
    BY <1>1
  <2>2. EsCopia(f.bloques, f.id, p)
    BY <2>1, EsCopiaSii
  <2>3. f.bloques \in TipoBloques /\ f.id \in 1 .. cuenta.subidas /\ Len(f.bloques) <= MaxBloques
    BY TipoArchivoEs DEF Nombres
  <2>4. p.b \in DOMAIN f.bloques /\ p.c \in Par
    BY <2>2 DEF EsCopia
  <2>5. p.b \in 1 .. MaxBloques /\ f.bloques[p.b][p.c] \in TipoCopia
    BY <2>3, <2>4, TipoParEs, Constantes
  <2> QED
    BY <2>2, <2>3, <2>5 DEF EsCopia
<1>2. CASE \E t \in Hilos : p \in CopiasDe(hilo[t])
  <2>1. PICK t \in Hilos : p \in CopiasDe(hilo[t])
    BY <1>2
  <2>2. EsCopia(hilo[t].bloques, hilo[t].id, p)
    BY <2>1, EsCopiaSii
  <2>3. Mapeada(t)
    BY <2>1, NadaPuesto
  <2>4. /\ hilo[t].bloques \in TipoBloques /\ Len(hilo[t].bloques) <= MaxBloques
        /\ hilo[t].id \in Nat /\ hilo[t].id <= cuenta.subidas /\ hilo[t].id # 0
    BY <2>3, TipoHiloEs DEF Exclusion, Excluye, ConBloques, Nombres, Nombrado, EsLibre, Mapeada
  <2>5. cuenta.subidas \in Nat
    BY DEF TypeOK, TipoCuenta
  <2>6. p.b \in DOMAIN hilo[t].bloques /\ p.c \in Par /\ p.id = hilo[t].id
    BY <2>2 DEF EsCopia
  <2>7. p.b \in 1 .. MaxBloques /\ hilo[t].bloques[p.b][p.c] \in TipoCopia
    BY <2>4, <2>6, TipoParEs, Constantes
  <2>8. p.id \in 1 .. cuenta.subidas
    BY <2>4, <2>5, <2>6
  <2> QED
    BY <2>2, <2>6, <2>7, <2>8 DEF EsCopia
<1> QED
  BY <1>1, <1>2, PuestasEs DEF Puestas

(* A copy is known by its upload, its block and which of the two it is. *)
LEMMA MismaCopia ==
  ASSUME TypeOK, Exclusion, Nombres, NEW p \in Puestas, NEW q \in Puestas,
         p.id = q.id, p.b = q.b, p.c = q.c
  PROVE  p = q
<1>1. \A r \in {p, q} : /\ r.id # 0
                        /\ \/ \E f \in archivos : EsCopia(f.bloques, f.id, r)
                           \/ \E t \in Hilos : EsCopia(hilo[t].bloques, hilo[t].id, r)
  BY PuestaEs
<1>2. p.en = q.en
  <2>1. CASE \E f \in archivos : EsCopia(f.bloques, f.id, p)
    <3>1. PICK f \in archivos : EsCopia(f.bloques, f.id, p)
      BY <2>1
    <3>2. \A t \in Hilos : ~ EsCopia(hilo[t].bloques, hilo[t].id, q)
      BY <3>1 DEF EsCopia, Nombres, Nombrado
    <3>3. PICK g \in archivos : EsCopia(g.bloques, g.id, q)
      BY <1>1, <3>2
    <3>4. f = g
      BY <3>1, <3>3 DEF EsCopia, Nombres
    <3> QED
      BY <3>1, <3>3, <3>4 DEF EsCopia
  <2>2. CASE \E t \in Hilos : EsCopia(hilo[t].bloques, hilo[t].id, p)
    <3>1. PICK t \in Hilos : EsCopia(hilo[t].bloques, hilo[t].id, p)
      BY <2>2
    <3>2. \A f \in archivos : ~ EsCopia(f.bloques, f.id, q)
      BY <3>1 DEF EsCopia, Nombres, Nombrado
    <3>3. PICK u \in Hilos : EsCopia(hilo[u].bloques, hilo[u].id, q)
      BY <1>1, <3>2
    <3>4. t = u
      BY <1>1, <3>1, <3>3 DEF EsCopia, Nombres, Nombrado
    <3> QED
      BY <3>1, <3>3, <3>4 DEF EsCopia
  <2> QED
    BY <1>1, <2>1, <2>2
<1>3. /\ p = [id |-> p.id, b |-> p.b, c |-> p.c, en |-> p.en]
      /\ q = [id |-> q.id, b |-> q.b, c |-> q.c, en |-> q.en]
  BY PuestaEs
<1> QED
  BY <1>2, <1>3

LEMMA PuestasFinitas ==
  ASSUME TypeOK, Exclusion, Nombres
  PROVE  IsFiniteSet(Puestas)
<1> DEFINE S == (1 .. cuenta.subidas) \X (1 .. MaxBloques)
           T == S \X Par
           F == [p \in Puestas |-> <<<<p.id, p.b>>, p.c>>]
<1>1. IsFiniteSet(1 .. cuenta.subidas) /\ IsFiniteSet(1 .. MaxBloques)
  <2>1. PICK uno \in Int, s \in Int, m \in Int : uno = 1 /\ s = cuenta.subidas /\ m = MaxBloques
    BY Constantes DEF TypeOK, TipoCuenta
  <2>2. IsFiniteSet(uno .. s) /\ IsFiniteSet(uno .. m)
    BY FS_Interval
  <2> QED
    BY <2>1, <2>2
<1>2. IsFiniteSet(S)
  BY <1>1, FS_Product
<1>3. IsFiniteSet(T)
  BY <1>2, ParFinito, FS_Product
<1>4. \A p \in Puestas : F[p] = <<<<p.id, p.b>>, p.c>> /\ F[p] \in T
  BY PuestaEs
<1>5. \A p, q \in Puestas : F[p] = F[q] => p = q
  <2> SUFFICES ASSUME NEW p \in Puestas, NEW q \in Puestas, F[p] = F[q] PROVE p = q
    OBVIOUS
  <2>1. p.id = q.id /\ p.b = q.b /\ p.c = q.c
    BY <1>4
  <2> QED
    BY <2>1, MismaCopia
<1>6. F \in Injection(Puestas, T)
  BY <1>4, <1>5 DEF Injection, IsInjective
<1> QED
  BY <1>3, <1>6, FS_Injection

(* The copies of one file are nobody else's. *)
LEMMA DeUnArchivo ==
  ASSUME Nombres, NEW f \in archivos, NEW p \in CopiasDe(f)
  PROVE  /\ \A g \in archivos : p \in CopiasDe(g) => g = f
         /\ \A t \in Hilos : p \notin CopiasDe(hilo[t])
<1>1. p.id = f.id
  BY EsCopiaSii DEF EsCopia
<1>2. \A g \in archivos : p \in CopiasDe(g) => g = f
  <2> TAKE g \in archivos
  <2>1. p \in CopiasDe(g) => p.id = g.id
    BY EsCopiaSii DEF EsCopia
  <2> QED
    BY <1>1, <2>1 DEF Nombres
<1>3. \A t \in Hilos : p \notin CopiasDe(hilo[t])
  <2> TAKE t \in Hilos
  <2>1. p \in CopiasDe(hilo[t]) => p.id = hilo[t].id
    BY EsCopiaSii DEF EsCopia
  <2> QED
    BY <1>1, <2>1 DEF Nombres, Nombrado
<1> QED
  BY <1>2, <1>3

-----------------------------------------------------------------------------
(* A copy is placed: one more bit, one free block less. *)

Ocupa(n, num) ==
  /\ espacio'[n].ocupados = espacio[n].ocupados \cup ({num} \ {-1})
  /\ espacio'[n].libres = espacio[n].libres - 1
  /\ \A m \in lista \ {n} : espacio'[m] = espacio[m]

LEMMA FijaCuentas ==
  ASSUME TypeOK, Cuentas, NEW n \in lista, NEW num, NEW p, p.en.nodo = n, p.en.num = num,
         Ocupa(n, num), lista' = lista, hist \subseteq hist', Puestas' = Puestas \cup {p},
         EnRegla({"carrera", "desfase"})' => num \in Bits(n) \ espacio[n].ocupados
  PROVE  Cuentas'
<1>1. /\ EnRegla({"carrera", "desfase"})' => EnRegla({"carrera", "desfase"})
      /\ EnRegla({"carrera", "desfase", "fuga"})' =>
           EnRegla({"carrera", "desfase", "fuga"}) /\ EnRegla({"carrera", "desfase"})'
  BY DEF EnRegla
<1>2. n \in Nodos /\ lista \subseteq Nodos
  BY DEF TypeOK, TipoNodos
<1>3. EnRegla({"carrera", "desfase"})' =>
        num \in Bits(n) \ espacio[n].ocupados /\ espacio'[n].ocupados = espacio[n].ocupados \cup {num}
  BY <1>2, BitsEs DEF Ocupa
<1>4. LibresCuadra'
  <2> SUFFICES ASSUME EnRegla({"carrera", "desfase"})', NEW m \in lista
      PROVE  espacio'[m].libres = Total[m] - Cardinality(espacio'[m].ocupados)
    BY DEF LibresCuadra
  <2>1. espacio[m].libres = Total[m] - Cardinality(espacio[m].ocupados)
    BY <1>1 DEF Cuentas, LibresCuadra
  <2>2. CASE m # n
    BY <2>1, <2>2 DEF Ocupa
  <2>3. CASE m = n
    <3>1. IsFiniteSet(espacio[n].ocupados)
      BY <1>2, TipoEspacioEs
    <3>2. Cardinality(espacio'[n].ocupados) = Cardinality(espacio[n].ocupados) + 1
      BY <1>3, <3>1, FS_AddElement
    <3>3. Total[n] \in Int /\ Cardinality(espacio[n].ocupados) \in Int
      BY <1>2, <3>1, BitsEs, FS_CardinalityType
    <3>4. espacio'[n].libres = espacio[n].libres - 1
      BY DEF Ocupa
    <3>5. PICK x, k : x = espacio[n].libres /\ k = Cardinality(espacio[n].ocupados)
      OBVIOUS
    <3>6. x = Total[n] - k
      BY <2>1, <2>3, <3>5
    <3> QED
      BY <2>3, <3>2, <3>3, <3>4, <3>5, <3>6
  <2> QED
    BY <2>2, <2>3
<1>5. Reservas'
  <2> SUFFICES ASSUME EnRegla({"carrera", "desfase"})', NEW x \in Puestas'
      PROVE  Reservada(x)' /\ \A q \in Puestas' : x.en = q.en => x = q
    BY DEF Reservas
  <2>1. \A r \in Puestas : Reservada(r) /\ \A q \in Puestas : r.en = q.en => r = q
    BY <1>1 DEF Cuentas, Reservas
  <2>2. \A r \in Puestas : r.en # p.en
    BY <1>3, <2>1 DEF Reservada
  <2>3. \A r \in Puestas : Reservada(r)'
    <3> TAKE r \in Puestas
    <3>1. r.en.nodo \in lista /\ r.en.num \in espacio[r.en.nodo].ocupados
      BY <2>1 DEF Reservada
    <3>2. r.en.num \in espacio'[r.en.nodo].ocupados
      BY <3>1 DEF Ocupa
    <3> QED
      BY <3>1, <3>2 DEF Reservada
  <2>4. Reservada(p)'
    BY <1>3 DEF Reservada
  <2> QED
    BY <2>1, <2>2, <2>3, <2>4
<1>6. Justificados'
  <2> SUFFICES ASSUME EnRegla({"carrera", "desfase", "fuga"})', NEW m \in lista, NEW i \in espacio'[m].ocupados
      PROVE  \E q \in Puestas' : q.en.nodo = m /\ q.en.num = i
    BY DEF Justificados, DeAlguna
  <2>1. CASE i \in espacio[m].ocupados
    <3>1. DeAlguna(m, i)
      BY <1>1, <2>1 DEF Cuentas, Justificados
    <3> QED
      BY <3>1 DEF DeAlguna
  <2>2. CASE i \notin espacio[m].ocupados
    BY <1>1, <1>3, <2>2 DEF Ocupa
  <2> QED
    BY <2>1, <2>2
<1> QED
  BY <1>4, <1>5, <1>6 DEF Cuentas

-----------------------------------------------------------------------------
(* Copies are freed: their bits are cleared and as many blocks are free. *)

Suyas(R, n) == {p \in R : p.en.nodo = n}
Numeros(R, n) == {p.en.num : p \in Suyas(R, n)}

Libera(R, n) ==
  /\ espacio'[n].ocupados = espacio[n].ocupados \ Numeros(R, n)
  /\ espacio'[n].libres = espacio[n].libres + Cardinality(Suyas(R, n))

(* Copies that are on different blocks free as many bits as they are. *)
LEMMA TantasComoNumeros ==
  ASSUME NEW R, NEW n, IsFiniteSet(R), \A p, q \in Suyas(R, n) : p.en.num = q.en.num => p = q
  PROVE  /\ IsFiniteSet(Numeros(R, n)) /\ IsFiniteSet(Suyas(R, n))
         /\ Cardinality(Numeros(R, n)) = Cardinality(Suyas(R, n))
<1> DEFINE S == Suyas(R, n)
           F == [p \in S |-> p.en.num]
<1>1. IsFiniteSet(S)
  BY FS_Subset DEF Suyas
<1>2. F \in Surjection(S, Numeros(R, n))
  BY DEF Surjection, Numeros
<1>3. F \in Injection(S, Numeros(R, n))
  BY DEF Injection, IsInjective, Numeros
<1> QED
  BY <1>1, <1>2, <1>3, FS_Surjection

LEMMA QuitaCuentas ==
  ASSUME TypeOK, Exclusion, Nombres, Cuentas, NEW R \in SUBSET Puestas, Puestas' = Puestas \ R,
         lista' = lista, hist \subseteq hist', \A n \in lista : Libera(R, n)
  PROVE  Cuentas'
<1>1. /\ EnRegla({"carrera", "desfase"})' => EnRegla({"carrera", "desfase"})
      /\ EnRegla({"carrera", "desfase", "fuga"})' =>
           EnRegla({"carrera", "desfase", "fuga"}) /\ EnRegla({"carrera", "desfase"})'
  BY DEF EnRegla
<1>2. IsFiniteSet(R)
  BY PuestasFinitas, FS_Subset
<1>3. \A p, q \in Puestas : p.en.nodo = q.en.nodo /\ p.en.num = q.en.num => p.en = q.en
  <2> TAKE p, q \in Puestas
  <2>1. p.en \in TipoCopia /\ q.en \in TipoCopia
    BY PuestaEs
  <2>2. p.en = [nodo |-> p.en.nodo, num |-> p.en.num] /\ q.en = [nodo |-> q.en.nodo, num |-> q.en.num]
    BY <2>1, TipoCopiaEs
  <2> QED
    BY <2>2
<1>4. LibresCuadra'
  <2> SUFFICES ASSUME EnRegla({"carrera", "desfase"})', NEW n \in lista
      PROVE  espacio'[n].libres = Total[n] - Cardinality(espacio'[n].ocupados)
    BY DEF LibresCuadra
  <2>1. espacio[n].libres = Total[n] - Cardinality(espacio[n].ocupados)
    BY <1>1 DEF Cuentas, LibresCuadra
  <2>2. \A p \in Puestas : Reservada(p) /\ \A q \in Puestas : p.en = q.en => p = q
    BY <1>1 DEF Cuentas, Reservas
  <2>3. \A p, q \in Suyas(R, n) : p.en.num = q.en.num => p = q
    BY <1>3, <2>2 DEF Suyas
  <2>4. /\ IsFiniteSet(Numeros(R, n)) /\ IsFiniteSet(Suyas(R, n))
        /\ Cardinality(Numeros(R, n)) = Cardinality(Suyas(R, n))
    BY <1>2, <2>3, TantasComoNumeros
  <2>5. espacio[n].ocupados \cap Numeros(R, n) = Numeros(R, n)
    BY <2>2 DEF Suyas, Numeros, Reservada
  <2>6. n \in Nodos
    BY DEF TypeOK, TipoNodos
  <2>7. IsFiniteSet(espacio[n].ocupados)
    BY <2>6, TipoEspacioEs
  <2>8. PICK oc, nu, k : oc = espacio[n].ocupados /\ nu = Numeros(R, n) /\ k = Cardinality(Suyas(R, n))
    OBVIOUS
  <2>9. IsFiniteSet(oc) /\ oc \cap nu = nu /\ Cardinality(nu) = k
    BY <2>4, <2>5, <2>7, <2>8
  <2>10. Cardinality(oc \ nu) = Cardinality(oc) - k
    <3>1. Cardinality(oc \ nu) = Cardinality(oc) - Cardinality(oc \cap nu)
      BY <2>9, FS_Difference
    <3> QED
      BY <2>9, <3>1
  <2>11. Total[n] \in Int
    BY <2>6, BitsEs
  <2>12. Cardinality(oc) \in Int
    BY <2>9, FS_CardinalityType
  <2>13. k \in Int
    BY <2>4, <2>8, FS_CardinalityType
  <2>14. espacio'[n].ocupados = oc \ nu /\ espacio'[n].libres = espacio[n].libres + k
    BY <2>8 DEF Libera
  <2>15. espacio[n].libres = Total[n] - Cardinality(oc)
    BY <2>1, <2>8
  <2> QED
    BY <2>10, <2>11, <2>12, <2>13, <2>14, <2>15
<1>5. Reservas'
  <2> SUFFICES ASSUME EnRegla({"carrera", "desfase"})', NEW p \in Puestas'
      PROVE  Reservada(p)' /\ \A q \in Puestas' : p.en = q.en => p = q
    BY DEF Reservas
  <2>1. \A r \in Puestas : Reservada(r) /\ \A q \in Puestas : r.en = q.en => r = q
    BY <1>1 DEF Cuentas, Reservas
  <2>2. p \in Puestas /\ p \notin R
    OBVIOUS
  <2>3. p.en.nodo \in lista /\ p.en.num \in espacio[p.en.nodo].ocupados
    BY <2>1, <2>2 DEF Reservada
  <2>4. p.en.num \notin Numeros(R, p.en.nodo)
    <3> SUFFICES ASSUME NEW q \in R, q.en.nodo = p.en.nodo, q.en.num = p.en.num PROVE FALSE
      BY DEF Numeros, Suyas
    <3>1. q.en = p.en
      BY <1>3, <2>2
    <3> QED
      BY <2>1, <2>2, <3>1
  <2>5. Reservada(p)'
    BY <2>3, <2>4 DEF Libera, Reservada
  <2> QED
    BY <2>1, <2>2, <2>5
<1>6. Justificados'
  <2> SUFFICES ASSUME EnRegla({"carrera", "desfase", "fuga"})', NEW n \in lista, NEW i \in espacio'[n].ocupados
      PROVE  \E p \in Puestas' : p.en.nodo = n /\ p.en.num = i
    BY DEF Justificados, DeAlguna
  <2>1. i \in espacio[n].ocupados /\ i \notin Numeros(R, n)
    BY DEF Libera
  <2>2. DeAlguna(n, i)
    BY <1>1, <2>1 DEF Cuentas, Justificados
  <2>3. PICK p \in Puestas : p.en.nodo = n /\ p.en.num = i
    BY <2>2 DEF DeAlguna
  <2>4. p \notin R
    BY <2>1, <2>3 DEF Numeros, Suyas
  <2> QED
    BY <2>3, <2>4
<1> QED
  BY <1>4, <1>5, <1>6 DEF Cuentas

LEMMA SoltarEs ==
  ASSUME TypeOK, NEW R, IsFiniteSet(R), NEW n \in Nodos
  PROVE  /\ SoltarCopias(R)[n] \in TipoEspacio(n)
         /\ n \notin lista => SoltarCopias(R)[n] = espacio[n]
         /\ n \in lista =>
              /\ SoltarCopias(R)[n].ocupados = espacio[n].ocupados \ Numeros(R, n)
              /\ SoltarCopias(R)[n].libres = espacio[n].libres + Cardinality(Suyas(R, n))
<1> DEFINE ultima == CHOOSE p \in Suyas(R, n) : \A q \in Suyas(R, n) :
                       q.id = p.id => q.b < p.b \/ (q.b = p.b /\ q.c <= p.c)
<1>1. PICK e, r, oc, li, ar :
        /\ e = espacio[n] /\ r = SoltarCopias(R)[n]
        /\ oc = espacio[n].ocupados \ Numeros(R, n)
        /\ li = espacio[n].libres + Cardinality(Suyas(R, n))
        /\ ar = espacio[n].ocupados \ {p.en.num : p \in Suyas(R, n) \ {ultima}}
  OBVIOUS
<1>2. r = IF n \notin lista \/ Suyas(R, n) = {} THEN e
          ELSE Anota([e EXCEPT !.archivo = ar, !.ocupados = oc, !.libres = e.libres + Cardinality(Suyas(R, n))])
  BY <1>1 DEF SoltarCopias, Suyas, Numeros
<1>3. e \in TipoEspacio(n) /\ e.libres \in Int /\ e.ocupados \subseteq Bits(n)
  BY <1>1, TipoEspacioEs
<1>4. IsFiniteSet(Suyas(R, n))
  BY FS_Subset DEF Suyas
<1>5. Cardinality(Suyas(R, n)) \in Int
  BY <1>4, FS_CardinalityType
<1>6. ar \subseteq Bits(n) /\ oc \subseteq Bits(n) /\ li \in Int /\ li = e.libres + Cardinality(Suyas(R, n))
  BY <1>1, <1>3, <1>5
<1>7. CASE n \notin lista \/ Suyas(R, n) = {}
  <2>1. r = e
    BY <1>2, <1>7
  <2>2. n \in lista => oc = e.ocupados /\ li = e.libres
    <3>1. n \in lista => Suyas(R, n) = {} /\ Numeros(R, n) = {}
      BY <1>7 DEF Numeros
    <3>2. Suyas(R, n) = {} => Cardinality(Suyas(R, n)) = 0
      BY FS_EmptySet
    <3> QED
      BY <1>1, <1>3, <3>1, <3>2
  <2> QED
    BY <1>1, <1>3, <2>1, <2>2
<1>8. CASE ~ (n \notin lista \/ Suyas(R, n) = {})
  <2>1. r = Anota([e EXCEPT !.archivo = ar, !.ocupados = oc, !.libres = li])
    BY <1>2, <1>6, <1>8
  <2>2. PICK k : k = [e EXCEPT !.archivo = ar, !.ocupados = oc, !.libres = li]
    OBVIOUS
  <2>3. k \in TipoEspacio(n) /\ k.ocupados = oc /\ k.libres = li
    BY ONLY <1>3, <1>6, <2>2 DEF TipoEspacio
  <2>4. r = [k EXCEPT !.bin = li]
    BY <2>1, <2>2, <2>3 DEF Anota
  <2>5. r \in TipoEspacio(n) /\ r.ocupados = oc /\ r.libres = li
    BY ONLY <1>6, <2>3, <2>4 DEF TipoEspacio
  <2> QED
    BY <1>1, <1>8, <2>5
<1> QED
  BY <1>7, <1>8

(* A command that frees copies of stored files. *)
LEMMA BorrarPasa ==
  ASSUME IInv, NEW f \in archivos, Borrar(f)
  PROVE  IInv'
<1>1. /\ Ordenar /\ archivos' = archivos \ {f} /\ hist' = hist \cup SiCrece
      /\ espacio' = SoltarCopias(CopiasDe(f))
      /\ fs' = fs /\ lista' = lista /\ conexion' = conexion /\ manejador' = manejador /\ disco' = disco
      /\ hilo' = hilo /\ orden' = orden /\ cpmut' = cpmut /\ bsent' = bsent
      /\ suenio' = suenio /\ cola' = cola /\ mapas' = mapas /\ blocks' = blocks
  BY DEF Borrar, nodoVars, subidaVars, mapaVars
<1>2. TypeOK /\ Exclusion /\ Nombres /\ Operaciones /\ EnCopia /\ Avance /\ Agotado /\ Cuentas /\ TablaSana
  BY DEF IInv, Cuentas
<1>3. /\ cuenta' \in TipoCuenta /\ cuenta'.subidas = cuenta.subidas
      /\ hilo[Consola].pc = "libre" /\ orden = SinOrden
  BY <1>1, <1>2, OrdenarEs
<1>4. PICK R : R = CopiasDe(f)
  OBVIOUS
<1>5. IsFiniteSet(R) /\ R \in SUBSET Puestas
  <2>1. \A p : p \in CopiasDe(f) => p \in Puestas
    BY PuestasEs DEF Puestas
  <2>2. R \in SUBSET Puestas
    BY <1>4, <2>1
  <2> QED
    BY <1>2, <2>2, PuestasFinitas, FS_Subset
<1>6. \A n \in Nodos : espacio'[n] = SoltarCopias(R)[n]
  BY <1>1, <1>4
<1>7. TypeOK'
  <2>1. TipoEspacios'
    <3>1. \A n \in Nodos : espacio'[n] \in TipoEspacio(n)
      BY <1>2, <1>5, <1>6, SoltarEs
    <3>2. DOMAIN espacio' = Nodos
      BY <1>1 DEF SoltarCopias
    <3> QED
      BY <3>1, <3>2 DEF TipoEspacios
  <2>2. hist' \subseteq Historia
    BY <1>1, <1>2 DEF TypeOK, Historia, SiCrece
  <2>3. archivos' \subseteq TipoArchivo
    BY <1>1, <1>2 DEF TypeOK
  <2> QED
    BY <1>1, <1>2, <1>3, <2>1, <2>2, <2>3, TiposQuedan DEF TypeOK
<1>8. Exclusion' /\ Operaciones' /\ Avance'
  BY <1>1, <1>2, PartesQuedan
<1>9. Nombres'
  BY <1>1, <1>2, <1>3 DEF Nombres, Nombrado, EsLibre
<1>10. EnCopia'
  BY <1>1, <1>3 DEF EnCopia, SinOrden
<1>11. hist \subseteq hist' /\ (EnRegla({"crece"})' => cpmut = Nadie)
  BY <1>1 DEF EnRegla, SiCrece
<1>12. Agotado'
  <2> SUFFICES ASSUME EnRegla({"crece"})', NEW t \in Hilos, Mapeada(t)' PROVE FALSE
    BY DEF Agotado
  <2>1. cpmut = t
    BY <1>1, <1>2 DEF Exclusion, Excluye, Mapeada
  <2> QED
    BY <1>11, <2>1, Constantes
<1>13. Cuentas'
  <2>1. Puestas' = Puestas \ R
    <3>1. \A p : p \in PuestasEn(archivos', hilo') <=> p \in PuestasEn(archivos, hilo) /\ p \notin R
      <4> TAKE p
      <4>1. p \in PuestasEn(archivos', hilo') <=>
              (\E g \in archivos : g # f /\ p \in CopiasDe(g)) \/ (\E t \in Hilos : p \in CopiasDe(hilo[t]))
        BY <1>1, PuestasEs
      <4>2. p \in PuestasEn(archivos, hilo) <=>
              (\E g \in archivos : p \in CopiasDe(g)) \/ (\E t \in Hilos : p \in CopiasDe(hilo[t]))
        BY PuestasEs
      <4>3. p \in R => /\ \A g \in archivos : p \in CopiasDe(g) => g = f
                       /\ \A t \in Hilos : p \notin CopiasDe(hilo[t])
        BY <1>2, <1>4, DeUnArchivo
      <4> QED
        BY <1>4, <4>1, <4>2, <4>3
    <3> QED
      BY <3>1 DEF Puestas
  <2>2. \A n \in lista : Libera(R, n)
    <3> TAKE n \in lista
    <3>1. n \in Nodos
      BY <1>2 DEF TypeOK, TipoNodos
    <3> QED
      BY <1>2, <1>5, <1>6, <3>1, SoltarEs DEF Libera
  <2> QED
    BY <1>1, <1>2, <1>5, <1>11, <2>1, <2>2, QuitaCuentas
<1>14. TablaSana'
  BY <1>1, <1>2, <1>11 DEF TablaSana, CopiasDistintas, RutaUnica, EnRegla
<1> QED
  BY <1>7, <1>8, <1>9, <1>10, <1>12, <1>13, <1>14 DEF IInv, Cuentas

-----------------------------------------------------------------------------
(* The blocks of one stored file change. *)

LEMMA ArchivoCambia ==
  ASSUME NEW f \in TipoArchivo, NEW z \in TipoBloques, NEW g, g = [f EXCEPT !.bloques = z]
  PROVE  g \in TipoArchivo /\ g.id = f.id /\ g.ruta = f.ruta /\ g.bloques = z
BY ONLY f \in TipoArchivo, z \in TipoBloques, g = [f EXCEPT !.bloques = z] DEF TipoArchivo

LEMMA PuestasCambian ==
  ASSUME Nombres, NEW f \in archivos, NEW g, archivos' = (archivos \ {f}) \cup {g}, hilo' = hilo
  PROVE  Puestas' = (Puestas \ CopiasDe(f)) \cup CopiasDe(g) /\ CopiasDe(f) \subseteq Puestas
<1>1. \A p : p \in PuestasEn(archivos, hilo) <=>
        (\E a \in archivos : p \in CopiasDe(a)) \/ (\E t \in Hilos : p \in CopiasDe(hilo[t]))
  BY PuestasEs
<1>2. \A p : p \in PuestasEn(archivos', hilo') <=>
        \/ p \in CopiasDe(g)
        \/ \E a \in archivos : a # f /\ p \in CopiasDe(a)
        \/ \E t \in Hilos : p \in CopiasDe(hilo[t])
  <2> TAKE p
  <2>1. p \in PuestasEn(archivos', hilo') <=>
          (\E a \in archivos' : p \in CopiasDe(a)) \/ (\E t \in Hilos : p \in CopiasDe(hilo[t]))
    BY PuestasEs
  <2>2. (\E a \in archivos' : p \in CopiasDe(a)) <=>
          p \in CopiasDe(g) \/ \E a \in archivos : a # f /\ p \in CopiasDe(a)
    OBVIOUS
  <2> QED
    BY <2>1, <2>2
<1>3. \A p : p \in CopiasDe(f) => /\ \A a \in archivos : p \in CopiasDe(a) => a = f
                                  /\ \A t \in Hilos : p \notin CopiasDe(hilo[t])
  BY DeUnArchivo
<1>4. \A p : p \in PuestasEn(archivos', hilo') <=>
        p \in CopiasDe(g) \/ (p \in PuestasEn(archivos, hilo) /\ p \notin CopiasDe(f))
  <2> TAKE p
  <2> QED
    BY <1>1, <1>2, <1>3
<1> QED
  BY <1>1, <1>4 DEF Puestas

LEMMA NombresCambian ==
  ASSUME Nombres, NEW f \in archivos, NEW g, archivos' = (archivos \ {f}) \cup {g}, hilo' = hilo,
         g.id = f.id, Len(g.bloques) = Len(f.bloques), cuenta'.subidas = cuenta.subidas
  PROVE  Nombres'
<1>1. \A a \in archivos' : a = g \/ (a \in archivos /\ a # f)
  OBVIOUS
<1>2. \A t \in Hilos : Nombrado(t)'
  BY <1>1 DEF Nombres, Nombrado, EsLibre
<1>3. \A a \in archivos' : a.id \in 1 .. cuenta'.subidas /\ Len(a.bloques) <= MaxBloques
  BY <1>1 DEF Nombres
<1>4. \A a, h \in archivos' : a.id = h.id => a = h
  BY <1>1 DEF Nombres
<1> QED
  BY <1>2, <1>3, <1>4 DEF Nombres

ParSano(par) == (\E c \in Par : par[c] # SinCopia) /\ par[1].nodo # par[2].nodo

LEMMA TablaCambia ==
  ASSUME TablaSana, NEW f \in archivos, NEW g, archivos' = (archivos \ {f}) \cup {g},
         hist \subseteq hist', g.ruta = f.ruta, NEW z, NEW b, NEW c,
         g.bloques = z, CambiaSolo(z, f.bloques, b, c, z[b][c]), ParSano(z[b])
  PROVE  TablaSana'
<1>1. \A a \in archivos' : a = g \/ (a \in archivos /\ a # f)
  OBVIOUS
<1>2. RutaUnica'
  BY <1>1 DEF TablaSana, RutaUnica
<1>3. CopiasDistintas'
  <2> SUFFICES ASSUME EnRegla({"crece"})', NEW a \in archivos', NEW d \in DOMAIN a.bloques
      PROVE  (\E e \in Par : a.bloques[d][e] # SinCopia) /\ a.bloques[d][1].nodo # a.bloques[d][2].nodo
    BY DEF CopiasDistintas
  <2>1. \A h \in archivos : \A x \in DOMAIN h.bloques : ParSano(h.bloques[x])
    BY DEF TablaSana, CopiasDistintas, EnRegla, ParSano
  <2>2. CASE a # g
    BY <1>1, <2>1, <2>2 DEF ParSano
  <2>3. CASE a = g /\ d = b
    BY <2>3 DEF ParSano
  <2>4. CASE a = g /\ d # b
    <3>1. d \in DOMAIN f.bloques /\ \A e \in Par : z[d][e] = f.bloques[d][e]
      BY <2>4 DEF CambiaSolo
    <3>2. z[d][1] = f.bloques[d][1] /\ z[d][2] = f.bloques[d][2]
      BY <3>1 DEF Par
    <3> QED
      BY <2>1, <2>4, <3>1, <3>2 DEF ParSano
  <2> QED
    BY <2>2, <2>3, <2>4
<1> QED
  BY <1>2, <1>3 DEF TablaSana

LEMMA BorrarCopiaPasa ==
  ASSUME IInv, NEW f \in archivos, NEW b \in DOMAIN f.bloques, NEW c \in Par, BorrarCopia(f, b, c)
  PROVE  IInv'
<1>1. /\ Ordenar /\ hist' = hist \cup SiCrece /\ fs' \in {fs, "caido"}
      /\ SinCopia \notin {f.bloques[b][1], f.bloques[b][2]}
      /\ espacio' = [espacio EXCEPT ![f.bloques[b][c].nodo] = Suelta(@, f.bloques[b][c].num)]
      /\ Cambia(f, [f.bloques EXCEPT ![b][c] = SinCopia])
      /\ lista' = lista /\ conexion' = conexion /\ manejador' = manejador /\ disco' = disco
      /\ hilo' = hilo /\ orden' = orden /\ cpmut' = cpmut /\ bsent' = bsent
      /\ suenio' = suenio /\ cola' = cola /\ mapas' = mapas /\ blocks' = blocks
  BY DEF BorrarCopia, nodoVars, subidaVars, mapaVars
<1>2. TypeOK /\ Exclusion /\ Nombres /\ Operaciones /\ EnCopia /\ Avance /\ Agotado /\ Cuentas /\ TablaSana
  BY DEF IInv, Cuentas
<1>3. /\ cuenta' \in TipoCuenta /\ cuenta'.subidas = cuenta.subidas
      /\ hilo[Consola].pc = "libre" /\ orden = SinOrden
  BY <1>1, <1>2, OrdenarEs
<1>4. PICK bl, v, z, g : /\ bl = f.bloques /\ v = SinCopia /\ z = [bl EXCEPT ![b][c] = v]
                         /\ g = [f EXCEPT !.bloques = z]
  OBVIOUS
<1>5. bl \in TipoBloques /\ v \in TipoCopia /\ f \in TipoArchivo /\ b \in DOMAIN bl
  BY <1>2, <1>4, TipoArchivoEs DEF TipoCopia
<1>6. z \in TipoBloques /\ CambiaSolo(z, bl, b, c, v)
  <2>1. z = [bl EXCEPT ![b][c] = v]
    BY <1>4
  <2> QED
    BY ONLY <1>5, c \in Par, <2>1, BloquesCambian
<1>7. g \in TipoArchivo /\ g.id = f.id /\ g.ruta = f.ruta /\ g.bloques = z
  BY <1>4, <1>5, <1>6, ArchivoCambia
<1>8. archivos' = (archivos \ {f}) \cup {g}
  BY <1>1, <1>4 DEF Cambia
<1>9. PICK k, n, num : k = bl[b][c] /\ n = k.nodo /\ num = k.num
  OBVIOUS
<1>10. k \in TipoCopia /\ k # SinCopia /\ n \in Nodos
  <2>1. k \in TipoCopia
    BY <1>5, <1>9, TipoParEs
  <2>2. k # SinCopia
    BY <1>1, <1>4, <1>9 DEF Par
  <2> QED
    BY <1>9, <2>1, <2>2, TipoCopiaEs
<1>11. PICK p : p = [id |-> f.id, b |-> b, c |-> c, en |-> k]
  OBVIOUS
<1>12. CopiasDe(g) = CopiasDe(f) \ {p}
  <2>1. f.bloques = bl /\ g.bloques = [bl EXCEPT ![b][c] = SinCopia] /\ f.id = g.id
    BY <1>4, <1>7
  <2>2. CopiasDe(g) = CopiasDe(f) \ {[id |-> f.id, b |-> b, c |-> c, en |-> bl[b][c]]}
    BY ONLY <1>5, c \in Par, <2>1, CopiaQuitada
  <2> QED
    BY <1>9, <1>11, <2>2
<1>13. p \in CopiasDe(f)
  <2>1. EsCopia(f.bloques, f.id, p)
    BY <1>4, <1>9, <1>10, <1>11 DEF EsCopia
  <2> QED
    BY <2>1, EsCopiaSii
<1>14. espacio' = [espacio EXCEPT ![n] = Suelta(espacio[n], num)]
  BY <1>1, <1>4, <1>9
<1>15. DOMAIN espacio = Nodos /\ \A m \in Nodos \ {n} : espacio'[m] = espacio[m]
  BY <1>2, <1>14 DEF TypeOK, TipoEspacios
<1>16. /\ espacio'[n] \in TipoEspacio(n) /\ espacio'[n].ocupados = espacio[n].ocupados \ {num}
       /\ espacio'[n].libres = espacio[n].libres + 1
  <2>1. PICK e : e = espacio[n]
    OBVIOUS
  <2>2. e \in TipoEspacio(n)
    BY <1>2, <1>10, <2>1, TipoEspacioEs
  <2>3. espacio'[n] = [e EXCEPT !.archivo = e.ocupados, !.ocupados = e.ocupados \ {num}, !.libres = e.libres + 1]
    BY <1>10, <1>14, <1>15, <2>1 DEF Suelta
  <2>4. PICK ar, oc, li : ar = e.ocupados /\ oc = e.ocupados \ {num} /\ li = e.libres + 1
    OBVIOUS
  <2>5. ar \subseteq Bits(n) /\ oc \subseteq Bits(n) /\ li \in Int
    BY <1>2, <1>10, <2>1, <2>4, TipoEspacioEs
  <2>6. espacio'[n] = [e EXCEPT !.archivo = ar, !.ocupados = oc, !.libres = li]
    BY <2>3, <2>4
  <2>7. espacio'[n] \in TipoEspacio(n) /\ espacio'[n].ocupados = oc /\ espacio'[n].libres = li
    BY ONLY <2>2, <2>5, <2>6 DEF TipoEspacio
  <2> QED
    BY <2>1, <2>4, <2>7
<1>17. TypeOK'
  <2>1. TipoEspacios'
    <3>1. \A m \in Nodos : espacio'[m] \in TipoEspacio(m)
      BY <1>2, <1>15, <1>16, TipoEspacioEs
    <3> QED
      BY <1>14, <1>15, <3>1 DEF TipoEspacios
  <2>2. hist' \subseteq Historia
    BY <1>1, <1>2 DEF TypeOK, Historia, SiCrece
  <2>3. archivos' \subseteq TipoArchivo
    BY <1>2, <1>7, <1>8 DEF TypeOK
  <2>4. TipoNodos'
    BY <1>1, <1>2 DEF TypeOK, TipoNodos
  <2> QED
    BY <1>1, <1>2, <1>3, <2>1, <2>2, <2>3, <2>4, TiposQuedan DEF TypeOK
<1>18. Exclusion' /\ Operaciones' /\ Avance'
  BY <1>1, <1>2, PartesQuedan
<1>19. Nombres'
  <2>1. Len(g.bloques) = Len(f.bloques)
    BY <1>4, <1>6, <1>7 DEF CambiaSolo
  <2> QED
    BY <1>1, <1>2, <1>3, <1>7, <1>8, <2>1, NombresCambian
<1>20. EnCopia'
  BY <1>1, <1>3 DEF EnCopia, SinOrden
<1>21. hist \subseteq hist' /\ (EnRegla({"crece"})' => cpmut = Nadie)
  BY <1>1 DEF EnRegla, SiCrece
<1>22. Agotado'
  <2> SUFFICES ASSUME EnRegla({"crece"})', NEW t \in Hilos, Mapeada(t)' PROVE FALSE
    BY DEF Agotado
  <2>1. cpmut = t
    BY <1>1, <1>2 DEF Exclusion, Excluye, Mapeada
  <2> QED
    BY <1>21, <2>1, Constantes
<1>23. Cuentas'
  <2>1. Puestas' = Puestas \ {p} /\ {p} \in SUBSET Puestas
    BY <1>1, <1>2, <1>8, <1>12, <1>13, PuestasCambian
  <2>2. p.en.nodo = n /\ p.en.num = num
    BY <1>9, <1>11
  <2>3. \A m \in lista : Libera({p}, m)
    <3> TAKE m \in lista
    <3>1. m \in Nodos
      BY <1>2 DEF TypeOK, TipoNodos
    <3>2. CASE m = n
      <4>1. Suyas({p}, m) = {p} /\ Numeros({p}, m) = {num}
        BY <2>2, <3>2 DEF Suyas, Numeros
      <4>2. Cardinality(Suyas({p}, m)) = 1
        BY <4>1, FS_Singleton
      <4> QED
        BY <1>16, <3>2, <4>1, <4>2 DEF Libera
    <3>3. CASE m # n
      <4>1. Suyas({p}, m) = {} /\ Numeros({p}, m) = {}
        BY <2>2, <3>3 DEF Suyas, Numeros
      <4>2. Cardinality(Suyas({p}, m)) = 0
        BY <4>1, FS_EmptySet
      <4>3. espacio[m].libres \in Int
        BY <1>2, <3>1, TipoEspacioEs
      <4>4. espacio'[m].libres = espacio[m].libres + 0
        BY <1>15, <3>1, <3>3, <4>3
      <4> QED
        BY <1>15, <3>1, <3>3, <4>1, <4>2, <4>4 DEF Libera
    <3> QED
      BY <3>2, <3>3
  <2> QED
    BY <1>1, <1>2, <1>21, <2>1, <2>3, QuitaCuentas
<1>24. TablaSana'
  <2>1. CambiaSolo(z, f.bloques, b, c, z[b][c])
    BY <1>4, <1>6 DEF CambiaSolo
  <2>2. ParSano(z[b])
    <3>1. z[b][c] = SinCopia /\ \A e \in Par : e # c => z[b][e] = bl[b][e]
      BY <1>4, <1>5, <1>6 DEF CambiaSolo
    <3>2. bl[b][1] # SinCopia /\ bl[b][2] # SinCopia /\ bl[b][1] \in TipoCopia /\ bl[b][2] \in TipoCopia
      BY <1>1, <1>4, <1>5, TipoParEs
    <3>3. bl[b][1].nodo # Nadie /\ bl[b][2].nodo # Nadie /\ SinCopia.nodo = Nadie
      BY <3>2, TipoCopiaEs
    <3>4. CASE c = 1
      BY <3>1, <3>2, <3>3, <3>4 DEF ParSano, Par
    <3>5. CASE c = 2
      BY <3>1, <3>2, <3>3, <3>5 DEF ParSano, Par
    <3> QED
      BY <3>4, <3>5 DEF Par
  <2> QED
    BY <1>2, <1>7, <1>8, <1>21, <2>1, <2>2, TablaCambia
<1> QED
  BY <1>17, <1>18, <1>19, <1>20, <1>22, <1>23, <1>24 DEF IInv, Cuentas

LEMMA FormatearPasa ==
  ASSUME IInv, Formatear
  PROVE  IInv'
<1>1. /\ Ordenar /\ Ping(lista) /\ archivos' = {} /\ lista' = lista \cap Activos
      /\ hist' = (IF cpmut # Nadie THEN hist \cup {"carrera", "crece"} ELSE hist)
      /\ fs' = fs /\ conexion' = conexion /\ disco' = disco
      /\ hilo' = hilo /\ orden' = orden /\ cpmut' = cpmut /\ bsent' = bsent
      /\ suenio' = suenio /\ cola' = cola /\ mapas' = mapas /\ blocks' = blocks
  BY DEF Formatear, nodoVars, subidaVars, mapaVars
<1>2. TypeOK /\ Exclusion /\ Nombres /\ Operaciones /\ EnCopia /\ Avance /\ Agotado /\ Cuentas /\ TablaSana
  BY DEF IInv, Cuentas
<1>3. /\ cuenta' \in TipoCuenta /\ cuenta'.subidas = cuenta.subidas
      /\ hilo[Consola].pc = "libre" /\ orden = SinOrden
  BY <1>1, <1>2, OrdenarEs
<1>4. PICK U : U = UNION {CopiasDe(f) : f \in archivos}
  OBVIOUS
<1>5. IsFiniteSet(U)
  <2>1. \A p : p \in U => p \in Puestas
    BY <1>4, PuestasEs DEF Puestas
  <2>2. U \in SUBSET Puestas
    BY <2>1
  <2> QED
    BY <1>2, <2>2, PuestasFinitas, FS_Subset
<1>6. /\ DOMAIN espacio' = Nodos
      /\ \A n \in Nodos : espacio'[n] =
           IF n \in Activos
           THEN [SoltarCopias(U)[n] EXCEPT !.archivo = SoltarCopias(U)[n].ocupados,
                                           !.ocupados = {}, !.libres = Total[n]]
           ELSE SoltarCopias(U)[n]
  BY <1>4 DEF Formatear
<1>7. \A n \in Nodos : /\ espacio'[n] \in TipoEspacio(n)
                       /\ n \in Activos => espacio'[n].ocupados = {} /\ espacio'[n].libres = Total[n]
  <2> TAKE n \in Nodos
  <2>1. PICK r : r = SoltarCopias(U)[n]
    OBVIOUS
  <2>2. r \in TipoEspacio(n)
    BY <1>2, <1>5, <2>1, SoltarEs
  <2>3. CASE n \notin Activos
    BY <1>6, <2>1, <2>2, <2>3
  <2>4. CASE n \in Activos
    <3>1. PICK ar, oc, li : ar = r.ocupados /\ oc = {} /\ li = Total[n]
      OBVIOUS
    <3>2. ar \subseteq Bits(n) /\ oc \subseteq Bits(n) /\ li \in Int
      BY <2>2, <3>1, Constantes DEF TipoEspacio
    <3>3. espacio'[n] = [r EXCEPT !.archivo = ar, !.ocupados = oc, !.libres = li]
      BY <1>6, <2>1, <2>4, <3>1
    <3>4. espacio'[n] \in TipoEspacio(n) /\ espacio'[n].ocupados = oc /\ espacio'[n].libres = li
      BY ONLY <2>2, <3>2, <3>3 DEF TipoEspacio
    <3> QED
      BY <3>1, <3>4
  <2> QED
    BY <2>3, <2>4
<1>8. /\ hist \subseteq hist' /\ hist' \subseteq hist \cup {"carrera", "crece"}
      /\ EnRegla({"crece"})' => cpmut = Nadie
      /\ EnRegla({"carrera", "desfase"})' => cpmut = Nadie
      /\ EnRegla({"carrera", "desfase", "fuga"})' => cpmut = Nadie
  BY <1>1 DEF EnRegla
<1>9. manejador' \subseteq manejador
  BY <1>1 DEF Ping
<1>10. TypeOK'
  <2>1. TipoEspacios'
    BY <1>6, <1>7 DEF TipoEspacios
  <2>2. TipoNodos'
    BY <1>1, <1>2, <1>9 DEF TypeOK, TipoNodos
  <2>3. hist' \subseteq Historia
    BY <1>2, <1>8 DEF TypeOK, Historia
  <2>4. archivos' \subseteq TipoArchivo
    BY <1>1
  <2> QED
    BY <1>1, <1>2, <1>3, <2>1, <2>2, <2>3, <2>4, TiposQuedan DEF TypeOK
<1>11. Exclusion' /\ Operaciones' /\ Avance'
  BY <1>1, <1>2, PartesQuedan
<1>12. Nombres'
  <2>1. \A t \in Hilos : Nombrado(t)'
    BY <1>1, <1>2, <1>3 DEF Nombres, Nombrado, EsLibre
  <2> QED
    BY <1>1, <2>1 DEF Nombres
<1>13. EnCopia'
  BY <1>1, <1>3 DEF EnCopia, SinOrden
<1>14. Agotado'
  <2> SUFFICES ASSUME EnRegla({"crece"})', NEW t \in Hilos, Mapeada(t)' PROVE FALSE
    BY DEF Agotado
  <2>1. cpmut = t
    BY <1>1, <1>2 DEF Exclusion, Excluye, Mapeada
  <2> QED
    BY <1>8, <2>1, Constantes
<1>15. Cuentas'
  <2>1. cpmut = Nadie => Puestas' = {}
    <3> SUFFICES ASSUME cpmut = Nadie, NEW p, p \in PuestasEn(archivos', hilo') PROVE FALSE
      BY DEF Puestas
    <3>1. \E t \in Hilos : p \in CopiasDe(hilo[t])
      BY <1>1, PuestasEs
    <3> QED
      BY <1>2, <3>1, NadaPuesto, Constantes DEF Exclusion, Excluye
  <2>2. \A n \in lista' : n \in Nodos /\ espacio'[n].ocupados = {} /\ espacio'[n].libres = Total[n]
    BY <1>1, <1>2, <1>7 DEF TypeOK, TipoNodos
  <2>3. LibresCuadra'
    <3> SUFFICES ASSUME NEW n \in lista'
        PROVE  espacio'[n].libres = Total[n] - Cardinality(espacio'[n].ocupados)
      BY DEF LibresCuadra
    <3>1. Cardinality({}) = 0
      BY FS_EmptySet
    <3>2. n \in Nodos /\ espacio'[n].ocupados = {} /\ espacio'[n].libres = Total[n]
      BY <2>2
    <3>3. Cardinality(espacio'[n].ocupados) = 0
      BY ONLY <3>1, <3>2
    <3>4. Total[n] \in Int
      BY <3>2, Constantes
    <3> QED
      BY ONLY <3>2, <3>3, <3>4
  <2>4. Reservas'
    BY <1>8, <2>1 DEF Reservas
  <2>5. Justificados'
    BY <2>2 DEF Justificados
  <2> QED
    BY <2>3, <2>4, <2>5 DEF Cuentas
<1>16. TablaSana'
  BY <1>1 DEF TablaSana, CopiasDistintas, RutaUnica
<1> QED
  BY <1>10, <1>11, <1>12, <1>13, <1>14, <1>15, <1>16 DEF IInv, Cuentas

-----------------------------------------------------------------------------
(* A bit is set. *)

LEMMA FijaEs ==
  ASSUME TypeOK, NEW n \in Nodos, NEW num \in Bits(n) \cup {-1}, NEW r,
         r = Fija(espacio[n], num) \/ r = Anota(Fija(espacio[n], num))
  PROVE  /\ r \in TipoEspacio(n) /\ r.ocupados = espacio[n].ocupados \cup ({num} \ {-1})
         /\ r.libres = espacio[n].libres - 1
<1>1. PICK e, ar, oc, li, k :
        /\ e = espacio[n] /\ ar = e.ocupados /\ oc = e.ocupados \cup ({num} \ {-1}) /\ li = e.libres - 1
        /\ k = Fija(e, num)
  OBVIOUS
<1>2. e \in TipoEspacio(n) /\ ar \subseteq Bits(n) /\ oc \subseteq Bits(n) /\ li \in Int
  BY <1>1, TipoEspacioEs
<1>3. k = [e EXCEPT !.archivo = ar, !.ocupados = oc, !.libres = li]
  BY <1>1 DEF Fija
<1>4. k \in TipoEspacio(n) /\ k.ocupados = oc /\ k.libres = li
  BY ONLY <1>2, <1>3 DEF TipoEspacio
<1>5. CASE r = k
  BY <1>1, <1>4, <1>5
<1>6. CASE r = Anota(k)
  <2>1. r = [k EXCEPT !.bin = li]
    BY <1>4, <1>6 DEF Anota
  <2>2. r \in TipoEspacio(n) /\ r.ocupados = oc /\ r.libres = li
    BY ONLY <1>2, <1>4, <2>1 DEF TipoEspacio
  <2> QED
    BY <1>1, <2>2
<1> QED
  BY <1>1, <1>5, <1>6

LEMMA SitioEs ==
  ASSUME NEW n \in Nodos, NEW num \in Bits(n) \cup {-1}, NEW v, v = [nodo |-> n, num |-> num]
  PROVE  v \in TipoCopia /\ v # SinCopia /\ v.nodo = n /\ v.num = num
<1>1. v.nodo = n /\ v.num = num
  OBVIOUS
<1>2. v \in Sitio(n)
  BY DEF Sitio
<1>3. SinCopia.nodo = Nadie /\ n # Nadie
  BY Constantes DEF SinCopia
<1> QED
  BY <1>1, <1>2, <1>3 DEF TipoCopia

LEMMA CopiarEscribePasa ==
  ASSUME IInv, CopiarEscribe
  PROVE  IInv'
<1>1. PICK f, bl, b, c, n, num, v, z, g :
        /\ f = DeOrden /\ bl = f.bloques /\ b = orden.b /\ n = orden.nodo /\ num = orden.num
        /\ c = (IF bl[b][1] # SinCopia THEN 2 ELSE 1)
        /\ v = [nodo |-> n, num |-> num] /\ z = [bl EXCEPT ![b][c] = v]
        /\ g = [f EXCEPT !.bloques = z]
  OBVIOUS
<1>2. /\ orden.tipo = "copia" /\ orden' = SinOrden
      /\ Encolar(n, OpCopia(num, orden.dato))
      /\ archivos' = (archivos \ {f}) \cup {g}
      /\ espacio' = [espacio EXCEPT ![n] = Fija(espacio[n], num)]
      /\ hist' = hist \cup SiPerdio(n) \cup (IF num \in espacio[n].ocupados THEN {"carrera"} ELSE {})
      /\ fs' = fs /\ lista' = lista /\ conexion' = conexion /\ manejador' = manejador /\ disco' = disco
      /\ hilo' = hilo /\ cpmut' = cpmut /\ bsent' = bsent /\ suenio' = suenio
      /\ mapas' = mapas /\ blocks' = blocks /\ cuenta' = cuenta
  BY <1>1 DEF CopiarEscribe, Cambia, nodoVars, subidaVars, mapaVars
<1>3. TypeOK /\ Exclusion /\ Nombres /\ Operaciones /\ EnCopia /\ Avance /\ Agotado /\ Cuentas /\ TablaSana
  BY DEF IInv, Cuentas
<1>4. /\ f \in archivos /\ orden \in TipoCopiar /\ n \in lista /\ b \in DOMAIN bl /\ FaltaUna(bl[b], n)
  BY <1>1, <1>2, <1>3, DeOrdenEs
<1>5. n \in Nodos /\ num \in Bits(n) /\ num \in Bits(n) \cup {-1} /\ orden.dato \in Dato
  <2>1. num \in Bits(n)
    BY <1>1, <1>2, <1>3 DEF TypeOK, TipoOrden
  <2> QED
    BY <1>1, <1>4, <2>1 DEF TipoCopiar
<1>6. v \in TipoCopia /\ v # SinCopia /\ v.nodo = n /\ v.num = num
  BY <1>1, <1>5, SitioEs
<1>7. bl \in TipoBloques /\ f \in TipoArchivo
  BY <1>1, <1>3, <1>4, TipoArchivoEs
<1>8. /\ bl[b][1] \in TipoCopia /\ bl[b][2] \in TipoCopia /\ c \in Par /\ bl[b][c] = SinCopia
      /\ bl[b][3 - c] # SinCopia /\ bl[b][3 - c].nodo # n
  <2>1. bl[b] \in TipoCopia \X TipoCopia /\ bl[b][1] \in TipoCopia /\ bl[b][2] \in TipoCopia
    BY <1>4, <1>7, TipoParEs
  <2>2. /\ bl[b][1] # SinCopia => bl[b][2] = SinCopia /\ bl[b][1].nodo # n
        /\ bl[b][1] = SinCopia => bl[b][2] # SinCopia /\ bl[b][2].nodo # n
    BY <1>4, <2>1, FaltaUnaEs
  <2>3. CASE bl[b][1] # SinCopia
    BY <1>1, <2>1, <2>2, <2>3 DEF Par
  <2>4. CASE bl[b][1] = SinCopia
    BY <1>1, <2>1, <2>2, <2>4 DEF Par
  <2> QED
    BY <2>3, <2>4
<1>9. z \in TipoBloques /\ CambiaSolo(z, bl, b, c, v)
  <2>1. z = [bl EXCEPT ![b][c] = v]
    BY <1>1
  <2> QED
    BY ONLY <1>4, <1>6, <1>7, <1>8, <2>1, BloquesCambian
<1>10. g \in TipoArchivo /\ g.id = f.id /\ g.ruta = f.ruta /\ g.bloques = z
  BY <1>1, <1>7, <1>9, ArchivoCambia
<1>11. PICK p : p = [id |-> f.id, b |-> b, c |-> c, en |-> v]
  OBVIOUS
<1>12. CopiasDe(g) = CopiasDe(f) \cup {p}
  <2>1. f.bloques = bl /\ g.bloques = [bl EXCEPT ![b][c] = v] /\ f.id = g.id
    BY <1>1, <1>10
  <2>2. CopiasDe(g) = CopiasDe(f) \cup {[id |-> f.id, b |-> b, c |-> c, en |-> v]}
    BY ONLY <1>4, <1>6, <1>7, <1>8, <2>1, CopiaPuesta
  <2> QED
    BY <1>11, <2>2
<1>13. PICK r : r = Fija(espacio[n], num)
  OBVIOUS
<1>14. /\ r \in TipoEspacio(n) /\ r.ocupados = espacio[n].ocupados \cup ({num} \ {-1})
       /\ r.libres = espacio[n].libres - 1
  BY <1>3, <1>5, <1>13, FijaEs
<1>15. espacio' = [espacio EXCEPT ![n] = r] /\ DOMAIN espacio = Nodos
  BY <1>2, <1>3, <1>13 DEF TypeOK, TipoEspacios
<1>16. hist \subseteq hist' /\ hist' \subseteq hist \cup {"perdio", "carrera"}
       /\ (EnRegla({"carrera", "desfase"})' => num \notin espacio[n].ocupados)
  BY <1>2 DEF SiPerdio, EnRegla
<1>17. TipoColas' /\ \A m \in Nodos : \A i \in DOMAIN cola'[m] : EsOp(cola'[m][i])
  <2>1. PICK op : op = OpCopia(num, orden.dato)
    OBVIOUS
  <2>2. op \in TipoOp /\ op.num = num /\ op.sub = 0
    BY <1>5, <2>1, BitsEs DEF OpCopia, TipoOp
  <2>3. \/ cola' = cola
        \/ Len(cola[n]) < 2 /\ cola' = [cola EXCEPT ![n] = Append(@, op)]
    BY <1>2, <2>1 DEF Encolar
  <2>4. TipoColas /\ EsOp(op) /\ op.num \in Bits(n) \cup {-1}
    BY <1>3, <1>5, <2>2 DEF TypeOK, EsOp
  <2>5. \A m \in Nodos : \A i \in DOMAIN cola[m] : EsOp(cola[m][i])
    BY <1>3 DEF Operaciones
  <2> QED
    BY <1>5, <2>2, <2>3, <2>4, <2>5, ColaCrece
<1>18. TypeOK'
  <2>1. TipoEspacios'
    <3>1. \A m \in Nodos : espacio'[m] \in TipoEspacio(m)
      BY <1>3, <1>14, <1>15, TipoEspacioEs
    <3> QED
      BY <1>15, <3>1 DEF TipoEspacios
  <2>2. hist' \subseteq Historia
    BY <1>3, <1>16 DEF TypeOK, Historia
  <2>3. archivos' \subseteq TipoArchivo
    BY <1>2, <1>3, <1>10 DEF TypeOK
  <2>4. TipoOrden'
    BY <1>2 DEF TipoOrden, SinOrden
  <2> QED
    BY <1>2, <1>3, <1>17, <2>1, <2>2, <2>3, <2>4, TiposQuedan DEF TypeOK
<1>19. Exclusion' /\ Avance'
  BY <1>2, <1>3, PartesQuedan
<1>20. Nombres'
  <2>1. Len(g.bloques) = Len(f.bloques)
    BY <1>1, <1>9, <1>10 DEF CambiaSolo
  <2> QED
    BY <1>2, <1>3, <1>4, <1>10, <2>1, NombresCambian
<1>21. Operaciones'
  BY <1>2, <1>3, <1>17 DEF Operaciones
<1>22. EnCopia'
  BY <1>2 DEF EnCopia, SinOrden
<1>23. Agotado'
  <2> SUFFICES ASSUME EnRegla({"crece"})', NEW t \in Hilos, Mapeada(t)'
      PROVE  (\/ \A d \in DOMAIN hilo[t].bloques : d <= Hechos(hilo[t]) => hilo[t].bloques[d][1] # SinCopia
              \/ hilo[t].guardados < Len(hilo[t].bloques) /\ SinLugar)'
    BY DEF Agotado
  <2>1. EnRegla({"crece"}) /\ Mapeada(t)
    BY <1>2, <1>16 DEF EnRegla, Mapeada
  <2>2. \/ \A d \in DOMAIN hilo[t].bloques : d <= Hechos(hilo[t]) => hilo[t].bloques[d][1] # SinCopia
        \/ hilo[t].guardados < Len(hilo[t].bloques) /\ SinLugar
    BY <1>3, <2>1 DEF Agotado
  <2>3. SinLugar => SinLugar'
    <3> SUFFICES ASSUME SinLugar, NEW m \in lista \cap Activos PROVE espacio'[m].libres <= 0
      BY <1>2 DEF SinLugar, Activos
    <3>1. espacio[m].libres <= 0 /\ m \in Nodos
      BY <1>3 DEF SinLugar, TypeOK, TipoNodos
    <3>2. espacio[m].libres \in Int
      BY <1>3, <3>1, TipoEspacioEs
    <3>3. espacio'[m].libres = espacio[m].libres \/ espacio'[m].libres = espacio[m].libres - 1
      BY <1>14, <1>15, <3>1
    <3> QED
      BY <3>1, <3>2, <3>3
  <2> QED
    BY <1>2, <2>2, <2>3
<1>24. Cuentas'
  <2>1. Puestas' = Puestas \cup {p}
    BY <1>2, <1>3, <1>4, <1>12, PuestasCambian
  <2>2. p.en.nodo = n /\ p.en.num = num
    BY <1>6, <1>11
  <2>3. Ocupa(n, num)
    <3>1. \A m \in lista \ {n} : espacio'[m] = espacio[m]
      BY <1>15
    <3>2. espacio'[n] = r
      BY <1>5, <1>15
    <3> QED
      BY <1>14, <3>1, <3>2 DEF Ocupa
  <2>4. EnRegla({"carrera", "desfase"})' => num \in Bits(n) \ espacio[n].ocupados
    BY <1>5, <1>16
  <2>5. hist \subseteq hist' /\ lista' = lista /\ TypeOK /\ Cuentas
    BY <1>2, <1>3, <1>16
  <2> QED
    BY ONLY <1>4, <2>1, <2>2, <2>3, <2>4, <2>5, FijaCuentas
<1>25. TablaSana'
  <2>1. CambiaSolo(z, f.bloques, b, c, z[b][c])
    BY <1>1, <1>9 DEF CambiaSolo
  <2>2. ParSano(z[b])
    <3>1. z[b][c] = v /\ \A e \in Par : e # c => z[b][e] = bl[b][e]
      BY <1>4, <1>9 DEF CambiaSolo
    <3>2. CASE c = 1
      BY <1>6, <1>8, <3>1, <3>2 DEF ParSano, Par
    <3>3. CASE c = 2
      BY <1>6, <1>8, <3>1, <3>3 DEF ParSano, Par
    <3> QED
      BY <1>8, <3>2, <3>3 DEF Par
  <2> QED
    BY <1>2, <1>3, <1>4, <1>10, <1>16, <2>1, <2>2, TablaCambia
<1> QED
  BY <1>18, <1>19, <1>20, <1>21, <1>22, <1>23, <1>24, <1>25 DEF IInv, Cuentas

-----------------------------------------------------------------------------
(* The node a block is given to. *)

(* a of p is more than b of q, and that is more than c of r. *)
LEMMA TasaTransitiva ==
  ASSUME NEW a \in Nat, NEW b \in Nat, NEW c \in Nat,
         NEW p \in Nat \ {0}, NEW q \in Nat \ {0}, NEW r \in Nat \ {0}, a * q > b * p, b * r > c * q
  PROVE  a * r > c * p
<1>1. \A x, y \in Nat : \A k \in Nat \ {0} : x > y => x * k > y * k
  OBVIOUS
<1>2. \A x, y \in Nat : \A k \in Nat \ {0} : x * k > y * k => x > y
  <2> TAKE x, y \in Nat
  <2> TAKE k \in Nat \ {0}
  <2>1. x <= y => x * k <= y * k
    OBVIOUS
  <2> QED
    BY <2>1
<1>3. PICK aq, bp, br, cq, ar, cp :
        aq = a * q /\ bp = b * p /\ br = b * r /\ cq = c * q /\ ar = a * r /\ cp = c * p
  OBVIOUS
<1>4. aq \in Nat /\ bp \in Nat /\ br \in Nat /\ cq \in Nat /\ ar \in Nat /\ cp \in Nat
  BY <1>3
<1>5. aq * r > bp * r /\ br * p > cq * p
  BY <1>1, <1>3, <1>4
<1>6. aq * r = ar * q /\ bp * r = br * p /\ cq * p = cp * q
  BY <1>3
<1>7. ar * q > cp * q
  BY <1>4, <1>5, <1>6
<1>8. ar > cp
  BY <1>2, <1>4, <1>7
<1> QED
  BY <1>3, <1>8

LEMMA HayMejor ==
  ASSUME NEW C, IsFiniteSet(C), C # {}, NEW L \in [C -> Nat], NEW T \in [C -> Nat \ {0}]
  PROVE  \E n \in C : \A m \in C : L[n] * T[m] >= L[m] * T[n]
<1> DEFINE Mejores(n) == {x \in C : L[x] * T[n] > L[n] * T[x]}
           K == {Cardinality(Mejores(n)) : n \in C}
<1>1. \A n \in C : IsFiniteSet(Mejores(n)) /\ Cardinality(Mejores(n)) \in Nat
  <2> TAKE n \in C
  <2>1. IsFiniteSet(Mejores(n))
    BY FS_Subset
  <2> QED
    BY <2>1, FS_CardinalityType
<1>2. K \in SUBSET Nat /\ K # {}
  BY <1>1
<1>3. Min(K) \in K /\ \A k \in K : Min(K) <= k
  BY <1>2, HayMinimo
<1>4. PICK n \in C : \A m \in C : Cardinality(Mejores(n)) <= Cardinality(Mejores(m))
  <2>1. PICK k : k = Min(K)
    OBVIOUS
  <2>2. k \in K /\ \A j \in K : k <= j
    BY <1>3, <2>1
  <2> HIDE DEF Mejores
  <2>3. PICK n \in C : k = Cardinality(Mejores(n))
    BY <2>2
  <2>4. \A m \in C : k <= Cardinality(Mejores(m))
    BY <2>2
  <2> QED
    BY <2>3, <2>4
<1>5. \A m \in C : L[m] \in Nat /\ T[m] \in Nat \ {0}
  OBVIOUS
<1>6. \A m \in C : ~ (L[m] * T[n] > L[n] * T[m])
  <2> SUFFICES ASSUME NEW m \in C, L[m] * T[n] > L[n] * T[m] PROVE FALSE
    OBVIOUS
  <2>1. \A x \in C : L[x] * T[m] > L[m] * T[x] => L[x] * T[n] > L[n] * T[x]
    <3> SUFFICES ASSUME NEW x \in C, L[x] * T[m] > L[m] * T[x] PROVE L[x] * T[n] > L[n] * T[x]
      OBVIOUS
    <3> QED
      BY <1>5, TasaTransitiva
  <2>2. Mejores(m) \in SUBSET Mejores(n)
    BY <2>1
  <2>3. m \in Mejores(n) /\ m \notin Mejores(m)
    BY <1>5
  <2>4. PICK A, B : A = Mejores(m) /\ B = Mejores(n)
    OBVIOUS
  <2>5. IsFiniteSet(B) /\ A \in SUBSET B /\ A # B /\ Cardinality(B) <= Cardinality(A)
    BY <1>1, <1>4, <2>2, <2>3, <2>4
  <2>6. Cardinality(A) <= Cardinality(B) /\ (Cardinality(B) = Cardinality(A) => B = A)
    BY ONLY <2>5, FS_Subset
  <2>7. Cardinality(A) \in Nat /\ Cardinality(B) \in Nat
    BY <1>1, <2>4
  <2>8. PICK x \in Nat, y \in Nat : x = Cardinality(A) /\ y = Cardinality(B)
    BY ONLY <2>7
  <2>9. y <= x /\ x <= y /\ (y = x => B = A) /\ A # B
    BY ONLY <2>5, <2>6, <2>8
  <2> QED
    BY ONLY <2>8, <2>9
<1> QED
  <2>1. \A m \in C : L[n] * T[m] \in Int /\ L[m] * T[n] \in Int
    BY <1>5
  <2> QED
    BY <1>6, <2>1

LEMMA BalanceEs ==
  ASSUME TypeOK, NEW original, NEW mejores, mejores = Balance(original).mejores
  PROVE  /\ mejores \subseteq lista /\ mejores \subseteq Activos /\ original \notin mejores
         /\ \A n \in mejores : espacio[n].libres >= 0
         /\ \A n, m \in mejores : espacio[n].libres = 0 => espacio[m].libres = 0
         /\ original = Nadie /\ (\A n \in mejores : espacio[n].libres = 0) => SinLugar
<1> DEFINE C == {n \in lista \ {original} : espacio[n].libres >= 0} \cap Activos
           Tasa(n, m) == espacio[n].libres * Total[m] - espacio[m].libres * Total[n]
<1>1. mejores = {n \in C : \A m \in C : Tasa(n, m) >= 0}
  BY DEF Balance
<1>2. C \subseteq Nodos /\ \A n \in C : n \in lista /\ n \in Activos /\ n # original
  BY DEF TypeOK, TipoNodos
<1>3. \A n \in C : espacio[n].libres \in Nat /\ Total[n] \in Nat \ {0}
  <2> TAKE n \in C
  <2>1. espacio[n].libres \in Int /\ espacio[n].libres >= 0
    BY <1>2, TipoEspacioEs
  <2> QED
    BY <1>2, <2>1, Constantes
<1>4. \A n, m \in mejores : espacio[n].libres = 0 => espacio[m].libres = 0
  <2> SUFFICES ASSUME NEW n \in mejores, NEW m \in mejores, espacio[n].libres = 0 PROVE espacio[m].libres = 0
    OBVIOUS
  <2>1. n \in C /\ m \in C /\ Tasa(n, m) >= 0
    BY <1>1
  <2>2. PICK l \in Nat, k \in Nat \ {0}, j \in Nat \ {0} :
          l = espacio[m].libres /\ k = Total[n] /\ j = Total[m]
    BY <1>3, <2>1
  <2>3. 0 * j - l * k >= 0
    BY <2>1, <2>2
  <2>4. l = 0
    BY <2>3
  <2> QED
    BY <2>2, <2>4
<1>5. ASSUME original = Nadie, \A n \in mejores : espacio[n].libres = 0 PROVE SinLugar
  <2> SUFFICES ASSUME NEW n \in lista \cap Activos, ~ (espacio[n].libres <= 0) PROVE FALSE
    BY DEF SinLugar
  <2>1. n \in Nodos /\ n # original
    BY <1>5, Constantes DEF TypeOK, TipoNodos
  <2>2. n \in C
    BY <2>1, TipoEspacioEs
  <2>3. IsFiniteSet(C)
    BY <1>2, Constantes, FS_Subset
  <2>4. PICK L, T : L = [m \in C |-> espacio[m].libres] /\ T = [m \in C |-> Total[m]]
    OBVIOUS
  <2>5. L \in [C -> Nat] /\ T \in [C -> Nat \ {0}]
    BY <1>3, <2>4
  <2>6. PICK D : D = C
    OBVIOUS
  <2>7. \E x \in D : \A m \in D : L[x] * T[m] >= L[m] * T[x]
    BY <2>2, <2>3, <2>5, <2>6, HayMejor
  <2>8. PICK x \in C : \A m \in C : L[x] * T[m] >= L[m] * T[x]
    BY <2>6, <2>7
  <2>9. \A m \in C : Tasa(x, m) >= 0
    <3> TAKE m \in C
    <3>1. PICK lx \in Nat, lm \in Nat, tx \in Nat, tm \in Nat :
            lx = espacio[x].libres /\ lm = espacio[m].libres /\ tx = Total[x] /\ tm = Total[m]
      BY <1>3
    <3>2. lx * tm >= lm * tx
      BY <2>4, <2>8, <3>1
    <3> QED
      BY <3>1, <3>2
  <2>10. espacio[x].libres = 0
    BY <1>1, <1>5, <2>9
  <2>11. PICK l \in Nat, k \in Nat \ {0}, j \in Nat \ {0} :
           l = espacio[n].libres /\ k = Total[x] /\ j = Total[n]
    BY <1>3, <2>2
  <2>12. 0 * j - l * k >= 0
    BY <2>2, <2>9, <2>10, <2>11
  <2>13. l = 0
    BY <2>12
  <2> QED
    BY <2>11, <2>13
<1> QED
  BY <1>1, <1>2, <1>3, <1>4, <1>5

-----------------------------------------------------------------------------
(* One step of an upload: a block is placed, or finds no node. *)

EnCual(L, p, b) ==
  /\ L \in Nat \ {0} /\ p \in 1 .. 2 * L /\ b \in 1 .. L
  /\ (p <= L /\ b = p) \/ (p > L /\ p = L + b)

LEMMA PasoEs ==
  ASSUME NEW L, NEW paso, NEW b, L \in Nat \ {0}, paso \in 1 .. 2 * L, b = ((paso - 1) % L) + 1
  PROVE  EnCual(L, paso, b)
<1>1. PICK x \in Nat : x = paso - 1 /\ x < 2 * L
  OBVIOUS
<1>2. x < L => x % L = x
  OBVIOUS
<1>3. x >= L => x % L = x - L
  <2> SUFFICES ASSUME x >= L PROVE x % L = x - L
    OBVIOUS
  <2>1. PICK m \in Nat, q \in Int : m = x % L /\ m < L /\ q = x \div L
    OBVIOUS
  <2>2. x = L * q + m
    BY <2>1
  <2>3. L * q > 0 /\ L * q < 2 * L
    BY <1>1, <2>1, <2>2
  <2>4. q > 0 /\ q < 2
    <3>1. q <= 0 => L * q <= 0
      OBVIOUS
    <3>2. q >= 2 => L * q >= L * 2
      OBVIOUS
    <3> QED
      BY <2>3, <3>1, <3>2
  <2> QED
    BY <1>1, <2>1, <2>2, <2>4
<1> QED
  BY <1>1, <1>2, <1>3 DEF EnCual

Avanza(h, k) ==
  /\ k \in TipoHilo /\ k.ruta = h.ruta /\ k.id = h.id /\ k.ino = h.ino
  /\ k.pc \in {"reparte", "manda"} /\ (k.pc = "manda" <=> k.envio # SinEnvio)
  /\ k.bloques # <<>> /\ Len(k.bloques) = Len(h.bloques)
  /\ k.paso \in 1 .. 2 * Len(h.bloques) + 1 /\ (k.pc = "manda" => k.paso <= 2 * Len(h.bloques))
  /\ k.envio # SinEnvio => k.envio.op.num \in Bits(k.envio.nodo) \cup {-1} /\ EsOp(k.envio.op)

RepartirDeja ==
  /\ fs' = fs /\ lista' = lista /\ conexion' = conexion /\ manejador' \subseteq manejador
  /\ disco' = disco /\ archivos' = archivos /\ orden' = orden /\ cpmut' = cpmut /\ bsent' = bsent
  /\ suenio' = suenio /\ cola' = cola /\ mapas' = mapas /\ blocks' = blocks /\ cuenta' = cuenta
  /\ hist' = hist

LEMMA RepartirComun ==
  ASSUME IInv, NEW t \in Hilos, hilo[t].pc = "reparte", RepartirDeja, NEW k,
         hilo' = [hilo EXCEPT ![t] = k], Avanza(hilo[t], k), TipoEspacios'
  PROVE  TypeOK' /\ Exclusion' /\ Nombres' /\ Operaciones' /\ EnCopia' /\ TablaSana'
<1>1. TypeOK /\ Exclusion /\ Nombres /\ Operaciones /\ EnCopia /\ Avance /\ Agotado /\ Cuentas /\ TablaSana
  BY DEF IInv, Cuentas
<1>2. PICK h : h = hilo[t]
  OBVIOUS
<1>3. Avanza(h, k) /\ k \in TipoHilo /\ h.pc = "reparte" /\ h \in TipoHilo
  BY <1>1, <1>2, TipoHiloEs DEF Avanza
<1>4. hilo' \in [Hilos -> TipoHilo] /\ hilo'[t] = k /\ \A u \in Hilos \ {t} : hilo'[u] = hilo[u]
  BY <1>1, <1>3, HiloPuesto
<1>5. Excluye(t) /\ ConBloques(t) /\ cpmut = t /\ Mapeada(t)
  BY <1>1, <1>2, <1>3 DEF Exclusion, Excluye, Mapeada
<1>6. TypeOK'
  <2>1. TipoHilos'
    BY <1>1, <1>3, <1>4 DEF TypeOK, TipoHilos, Avanza
  <2>2. TipoNodos'
    BY <1>1 DEF TypeOK, TipoNodos, RepartirDeja
  <2> QED
    BY <1>1, <2>1, <2>2, TiposQuedan DEF TypeOK, RepartirDeja
<1>7. Exclusion'
  <2>1. /\ h.bloques # <<>> /\ Len(h.bloques) <= MaxBloques /\ h.ino \in Inodos /\ bsent.th = t
        /\ h.ruta \in Rutas
    BY <1>2, <1>3, <1>5 DEF ConBloques, Excluye
  <2>2. ConBloques(t)'
    BY <1>3, <1>4, <2>1 DEF ConBloques, Avanza, RepartirDeja
  <2>3. Excluye(t)'
    BY <1>3, <1>4, <1>5, <2>1, <2>2 DEF Excluye, Mapeada, Avanza, RepartirDeja
  <2>4. \A u \in Hilos \ {t} : Excluye(u)'
    BY <1>1, <1>4, ExcluyeQueda DEF Exclusion, RepartirDeja
  <2>5. orden' # SinOrden => hilo'[Consola].pc = "libre"
    BY <1>1, <1>2, <1>3, <1>4, Constantes DEF Exclusion, RepartirDeja
  <2> QED
    BY <2>3, <2>4, <2>5 DEF Exclusion
<1>8. Nombres'
  <2>1. \A u \in Hilos : MismoNombre(u)
    BY <1>2, <1>3, <1>4 DEF MismoNombre, EsLibre, Avanza
  <2> QED
    BY <1>1, <2>1, NombresSiguen DEF RepartirDeja
<1>9. Operaciones'
  BY <1>1, <1>3, <1>4 DEF Operaciones, Avanza, RepartirDeja
<1>10. EnCopia'
  BY <1>1, PartesQuedan DEF RepartirDeja
<1>11. TablaSana'
  BY <1>1, TablaQueda DEF RepartirDeja
<1> QED
  BY <1>6, <1>7, <1>8, <1>9, <1>10, <1>11

(* What the step starts from: a block, its first copy, the pass it is in. *)
EnUnPaso(t, h, L, p, b) ==
  /\ h = hilo[t] /\ L = Len(h.bloques) /\ p = h.paso
  /\ Mapeada(t) /\ h \in TipoHilo /\ h.bloques \in TipoBloques /\ DOMAIN h.bloques = 1 .. L
  /\ h.bloques # <<>> /\ L <= MaxBloques /\ EnCual(L, p, b)
  /\ h.guardados \in Nat /\ h.guardados < p /\ Hechos(h) = p - 1
  /\ \A d \in 1 .. L : EnPasada(h, d)
  /\ h.bloques[b][2] = SinCopia /\ (h.bloques[b][1] # SinCopia => p > L)

LEMMA EnPaso ==
  ASSUME IInv, NEW t \in Hilos, hilo[t].pc = "reparte", hilo[t].paso <= 2 * Len(hilo[t].bloques),
         NEW h, h = hilo[t], NEW L, L = Len(h.bloques), NEW p, p = h.paso, NEW b, b = ((p - 1) % L) + 1
  PROVE  EnUnPaso(t, h, L, p, b)
<1>1. TypeOK /\ Exclusion /\ Avance
  BY DEF IInv
<1>2. Mapeada(t) /\ h \in TipoHilo /\ h.bloques \in TipoBloques /\ h.guardados \in Nat
  BY <1>1, TipoHiloEs DEF Mapeada
<1>3. ConBloques(t)
  BY <1>1, <1>2 DEF Exclusion, Excluye
<1>4. h.bloques # <<>> /\ L <= MaxBloques /\ p \in 1 .. 2 * L + 1
  BY <1>3 DEF ConBloques
<1>5. L \in Nat \ {0} /\ DOMAIN h.bloques = 1 .. L
  BY <1>2, <1>4 DEF TipoBloques
<1>6. p \in 1 .. 2 * L
  BY <1>4, <1>5
<1>7. EnCual(L, p, b)
  <2>1. L \in Nat \ {0}
    BY <1>5
  <2> QED
    BY <2>1, <1>6, PasoEs, Zenon
<1>8. Hechos(h) = p - 1
  BY DEF Hechos
<1>9. h.guardados <= p - 1 /\ \A d \in 1 .. L : EnPasada(h, d)
  BY <1>1, <1>2, <1>5, <1>8 DEF Avance
<1>10. b \in 1 .. L
  BY <1>7 DEF EnCual
<1>11. /\ h.bloques[b][1] = SinCopia => h.bloques[b][2] = SinCopia
       /\ p - 1 < b => h.bloques[b][1] = SinCopia
       /\ p - 1 < L + b => h.bloques[b][2] = SinCopia
  BY <1>8, <1>9, <1>10 DEF EnPasada
<1>12. p - 1 < L + b /\ (p <= L => p - 1 < b)
  <2>1. L \in Nat /\ p \in Nat /\ b \in Nat /\ b >= 1 /\ ((p <= L /\ b = p) \/ (p > L /\ p = L + b))
    BY ONLY <1>7, <1>5, <1>6 DEF EnCual
  <2> QED
    BY ONLY <2>1
<1>13. h.bloques[b][1] # SinCopia => p > L
  <2>1. L \in Nat /\ p \in Nat
    BY <1>5, <1>6
  <2>2. p <= L \/ p > L
    BY ONLY <2>1
  <2> QED
    BY <1>11, <1>12, <2>2, Zenon
<1>14. h.guardados < p
  <2>1. PICK g \in Nat : g = h.guardados
    BY <1>2
  <2>2. p \in Nat /\ g <= p - 1
    BY <1>5, <1>6, <1>9, <2>1
  <2>3. g < p
    BY ONLY <2>1, <2>2
  <2> QED
    BY <2>1, <2>3
<1> QED
  BY <1>2, <1>4, <1>5, <1>7, <1>8, <1>9, <1>11, <1>12, <1>13, <1>14 DEF EnUnPaso

LEMMA SaltaPasa ==
  ASSUME IInv, NEW t \in Hilos, hilo[t].pc = "reparte", RepartirDeja, Activos' = Activos,
         NEW h, NEW L, NEW p, NEW b, EnUnPaso(t, h, L, p, b),
         h.bloques[b][1] = SinCopia => SinLugar,
         hilo' = [hilo EXCEPT ![t].paso = @ + 1], espacio' = espacio
  PROVE  IInv'
<1>1. TypeOK /\ Exclusion /\ Avance /\ Agotado /\ Cuentas
  BY DEF IInv, Cuentas
<1>2. /\ h = hilo[t] /\ L = Len(h.bloques) /\ p = h.paso
      /\ Mapeada(t) /\ h \in TipoHilo /\ h.bloques \in TipoBloques /\ DOMAIN h.bloques = 1 .. L
      /\ h.bloques # <<>> /\ L <= MaxBloques
      /\ h.guardados \in Nat /\ h.guardados < p /\ Hechos(h) = p - 1
      /\ \A d \in 1 .. L : EnPasada(h, d)
      /\ h.bloques[b][2] = SinCopia /\ (h.bloques[b][1] # SinCopia => p > L)
  BY DEF EnUnPaso
<1>3. /\ L \in Nat \ {0} /\ p \in 1 .. 2 * L /\ b \in 1 .. L
      /\ (p <= L /\ b = p) \/ (p > L /\ p = L + b)
  BY DEF EnUnPaso, EnCual
<1>4. PICK paso, k : paso \in Nat /\ paso = p + 1 /\ k = [h EXCEPT !.paso = paso]
  <2>1. p \in Nat
    BY <1>3
  <2>2. p + 1 \in Nat
    BY ONLY <2>1
  <2> QED
    BY ONLY <2>2
<1>5. /\ k \in TipoHilo /\ k.pc = h.pc /\ k.ruta = h.ruta /\ k.id = h.id /\ k.bloques = h.bloques
      /\ k.paso = paso /\ k.guardados = h.guardados /\ k.ino = h.ino /\ k.envio = h.envio
  <2>1. k = [h EXCEPT !.paso = paso] /\ h \in TipoHilo /\ paso \in Nat
    BY <1>2, <1>4
  <2> QED
    BY ONLY <2>1 DEF TipoHilo
<1>6. hilo' = [hilo EXCEPT ![t] = k]
  BY <1>2, <1>4
<1>7. hilo' \in [Hilos -> TipoHilo] /\ hilo'[t] = k /\ \A u \in Hilos \ {t} : hilo'[u] = hilo[u]
  BY <1>1, <1>5, <1>6, HiloPuesto
<1>8. TypeOK' /\ Exclusion' /\ Nombres' /\ Operaciones' /\ EnCopia' /\ TablaSana'
  <2>1. h.pc = "reparte" /\ h.envio = SinEnvio
    BY <1>1, <1>2 DEF Exclusion, Excluye
  <2>2. k.paso \in 1 .. 2 * L + 1
    BY <1>3, <1>4, <1>5
  <2>3. Avanza(h, k)
    BY <1>2, <1>5, <2>1, <2>2 DEF Avanza
  <2>4. TipoEspacios'
    BY <1>1, TiposQuedan DEF TypeOK
  <2> QED
    BY <1>2, <1>6, <2>3, <2>4, RepartirComun
<1>9. Hechos(k) = p
  BY <1>2, <1>3, <1>4, <1>5, <1>1 DEF Hechos
<1>10. Avance'
  <2>1. k.guardados <= Hechos(k)
    BY <1>2, <1>3, <1>5, <1>9
  <2>2. \A d \in DOMAIN k.bloques : EnPasada(k, d)
    <3> TAKE d \in DOMAIN k.bloques
    <3>1. d \in 1 .. L /\ EnPasada(h, d)
      BY <1>2, <1>5
    <3>2. /\ h.bloques[d][1] = SinCopia => h.bloques[d][2] = SinCopia
          /\ h.bloques[d][1] # SinCopia => h.bloques[d][1].nodo # h.bloques[d][2].nodo
          /\ p - 1 < d => h.bloques[d][1] = SinCopia
          /\ p - 1 < L + d => h.bloques[d][2] = SinCopia
      BY <1>2, <3>1 DEF EnPasada
    <3>3. /\ p < d => p - 1 < d
          /\ p < L + d => p - 1 < L + d
      BY <1>3, <3>1
    <3> QED
      BY <1>2, <1>5, <1>9, <3>2, <3>3 DEF EnPasada
  <2> QED
    BY <1>1, <1>7, <2>1, <2>2 DEF Avance, Mapeada
<1>11. Agotado'
  <2> SUFFICES ASSUME EnRegla({"crece"})', NEW u \in Hilos, Mapeada(u)'
      PROVE  (\/ \A d \in DOMAIN hilo[u].bloques : d <= Hechos(hilo[u]) => hilo[u].bloques[d][1] # SinCopia
              \/ hilo[u].guardados < Len(hilo[u].bloques) /\ SinLugar)'
    BY DEF Agotado
  <2>1. EnRegla({"crece"})
    BY DEF EnRegla, RepartirDeja
  <2>2. SinLugar => SinLugar'
    BY DEF SinLugar, RepartirDeja
  <2>3. CASE u # t
    <3>1. hilo'[u] = hilo[u] /\ Mapeada(u)
      BY <1>7, <2>3 DEF Mapeada
    <3> QED
      BY <1>1, <2>1, <2>2, <3>1 DEF Agotado
  <2>4. CASE u = t
    <3>1. \/ \A d \in 1 .. L : d <= p - 1 => h.bloques[d][1] # SinCopia
          \/ h.guardados < L /\ SinLugar
      BY <1>1, <1>2, <2>1 DEF Agotado
    <3>2. CASE h.guardados < L /\ SinLugar
      BY <1>2, <1>5, <1>7, <2>2, <2>4, <3>2
    <3>3. CASE \A d \in 1 .. L : d <= p - 1 => h.bloques[d][1] # SinCopia
      <4>1. CASE h.bloques[b][1] = SinCopia
        <5>1. ~ (b <= p - 1)
          BY <1>3, <3>3, <4>1
        <5>2. p <= L
          BY <1>3, <5>1
        <5>3. h.guardados < L
          BY <1>2, <1>3, <5>2
        <5> QED
          BY <1>2, <1>5, <1>7, <2>2, <2>4, <4>1, <5>3
      <4>2. CASE h.bloques[b][1] # SinCopia
        <5>1. \A d \in 1 .. L : d <= p - 1
          BY <1>2, <1>3, <4>2
        <5>2. \A d \in 1 .. L : h.bloques[d][1] # SinCopia
          BY <3>3, <5>1
        <5> QED
          BY <1>2, <1>5, <1>7, <2>4, <5>2
      <4> QED
        BY <4>1, <4>2
    <3> QED
      BY <3>1, <3>2, <3>3
  <2> QED
    BY <2>3, <2>4
<1>12. Cuentas'
  <2>1. \A u \in Hilos : CopiasDe(hilo'[u]) = CopiasDe(hilo[u])
    BY <1>2, <1>5, <1>7, CopiasIguales
  <2> QED
    BY <1>1, <2>1, CuentasQuedan, PuestasIguales DEF RepartirDeja, IInv
<1> QED
  BY <1>8, <1>10, <1>11, <1>12 DEF IInv, Cuentas

(* What the placement of copy c of block b leaves in the thread. *)
Colocado(t, h, b, n, num, v, c, bl, z, op, e, pc, gu, k) ==
  /\ bl = h.bloques /\ bl \in TipoBloques /\ b \in DOMAIN bl /\ bl[b][1] \in TipoCopia /\ bl[b][2] \in TipoCopia
  /\ bl[b][1].nodo = Nadie <=> bl[b][1] = SinCopia
  /\ c \in Par /\ bl[b][c] = SinCopia /\ (c = 2 => bl[b][1] # SinCopia) /\ (c # 2 => c = 1)
  /\ n \in Nodos /\ num \in Bits(n) \cup {-1}
  /\ v \in TipoCopia /\ v # SinCopia /\ v.nodo = n /\ v.num = num
  /\ z = [bl EXCEPT ![b][c] = v] /\ z \in TipoBloques /\ CambiaSolo(z, bl, b, c, v)
  /\ op = OpManda(h.id, b, num) /\ op \in TipoOp /\ op.num = num /\ EsOp(op)
  /\ e \in TipoEnvio /\ e # SinEnvio /\ e.nodo = n /\ e.op = op
  /\ pc \in TipoPc /\ gu \in Nat /\ pc = "manda" /\ gu = h.guardados + 1
  /\ k \in TipoHilo /\ k.pc = pc /\ k.ruta = h.ruta /\ k.id = h.id /\ k.bloques = z
  /\ k.paso = h.paso /\ k.guardados = gu /\ k.ino = h.ino /\ k.envio = e
  /\ hilo' = [hilo EXCEPT ![t] = k]
  /\ hilo' \in [Hilos -> TipoHilo] /\ hilo'[t] = k /\ \A u \in Hilos \ {t} : hilo'[u] = hilo[u]

LEMMA ColocaEs ==
  ASSUME IInv, NEW t \in Hilos,
         NEW h, NEW L, NEW p, NEW b, EnUnPaso(t, h, L, p, b), NEW n \in lista,
         NEW num, num = PrimerCero(n), NEW v, v = [nodo |-> n, num |-> num],
         NEW c, c = IF h.bloques[b][1].nodo = Nadie THEN 1 ELSE 2,
         hilo' = [hilo EXCEPT ![t].pc = "manda", ![t].guardados = @ + 1, ![t].bloques[b][c] = v,
                              ![t].envio = [nodo |-> n, op |-> OpManda(h.id, b, num)]]
  PROVE  \E bl, z, op, e, pc, gu, k : Colocado(t, h, b, n, num, v, c, bl, z, op, e, pc, gu, k)
<1>1. TypeOK /\ Exclusion /\ Nombres /\ Avance /\ Agotado /\ Cuentas
  BY DEF IInv, Cuentas
<1>2. /\ h = hilo[t] /\ L = Len(h.bloques) /\ p = h.paso
      /\ Mapeada(t) /\ h \in TipoHilo /\ h.bloques \in TipoBloques /\ DOMAIN h.bloques = 1 .. L
      /\ h.bloques # <<>> /\ L <= MaxBloques
      /\ h.guardados \in Nat /\ h.guardados < p /\ Hechos(h) = p - 1
      /\ \A d \in 1 .. L : EnPasada(h, d)
      /\ h.bloques[b][2] = SinCopia /\ (h.bloques[b][1] # SinCopia => p > L)
  BY DEF EnUnPaso
<1>3. /\ L \in Nat \ {0} /\ p \in 1 .. 2 * L /\ b \in 1 .. L
      /\ (p <= L /\ b = p) \/ (p > L /\ p = L + b)
  BY DEF EnUnPaso, EnCual
<1>4. PICK bl : bl = h.bloques
  OBVIOUS
<1>5. /\ bl \in TipoBloques /\ b \in DOMAIN bl /\ bl[b][1] \in TipoCopia /\ bl[b][2] \in TipoCopia
      /\ (bl[b][1].nodo = Nadie <=> bl[b][1] = SinCopia)
  <2>1. bl \in TipoBloques /\ b \in DOMAIN bl
    BY <1>2, <1>3, <1>4
  <2>2. bl[b][1] \in TipoCopia /\ bl[b][2] \in TipoCopia
    BY <2>1, TipoParEs
  <2> QED
    BY <2>1, <2>2, TipoCopiaEs
<1>6. c \in Par /\ bl[b][c] = SinCopia /\ (c = 2 => bl[b][1] # SinCopia /\ p > L) /\ (c # 2 => c = 1)
  BY <1>2, <1>4, <1>5 DEF Par
<1>7. n \in Nodos /\ num \in Bits(n) \cup {-1}
  <2>1. n \in Nodos
    BY <1>1 DEF TypeOK, TipoNodos
  <2> QED
    BY <1>1, <2>1, PrimerCeroEs
<1>8. v \in TipoCopia /\ v # SinCopia /\ v.nodo = n /\ v.num = num
  BY <1>7, SitioEs
<1>9. PICK z : z = [bl EXCEPT ![b][c] = v]
  OBVIOUS
<1>10. z \in TipoBloques /\ CambiaSolo(z, bl, b, c, v)
  BY ONLY <1>5, <1>6, <1>8, <1>9, BloquesCambian
<1>11. PICK op, e : op = OpManda(h.id, b, num) /\ e = [nodo |-> n, op |-> op]
  OBVIOUS
<1>12. op \in TipoOp /\ op.num = num /\ EsOp(op)
  <2>1. num \in Int /\ b \in Nat /\ h.id \in Nat /\ b \in 1 .. MaxBloques
    <3>1. Bits(n) \subseteq Nat
      BY <1>7, BitsEs
    <3>2. b \in Nat /\ b \in 1 .. MaxBloques
      BY <1>2, <1>3, Constantes
    <3> QED
      BY <1>1, <1>2, <1>7, <3>1, <3>2, TipoHiloEs
  <2>2. Cero \in Dato
    BY DEF Cero, Dato
  <2>3. op.idx = b /\ op.num = num /\ op \in TipoOp
    BY <1>11, <2>1, <2>2 DEF OpManda, TipoOp
  <2> QED
    BY <2>1, <2>3 DEF EsOp
<1>13. e \in TipoEnvio /\ e # SinEnvio /\ e.nodo = n /\ e.op = op
  <2>1. e.nodo = n /\ e.op = op /\ e \in [nodo : Nodos, op : TipoOp]
    BY <1>7, <1>11, <1>12
  <2>2. SinEnvio.nodo = Nadie /\ n # Nadie
    BY <1>7, Constantes DEF SinEnvio
  <2> QED
    BY <2>1, <2>2 DEF TipoEnvio
<1>14. PICK pc \in TipoPc, gu \in Nat : pc = "manda" /\ gu = h.guardados + 1
  BY <1>2 DEF TipoPc
<1>15. PICK k : k = [h EXCEPT !.pc = pc, !.guardados = gu, !.bloques = z, !.envio = e]
  OBVIOUS
<1>16. /\ k \in TipoHilo /\ k.pc = pc /\ k.ruta = h.ruta /\ k.id = h.id /\ k.bloques = z
       /\ k.paso = h.paso /\ k.guardados = gu /\ k.ino = h.ino /\ k.envio = e
  <2>1. h \in TipoHilo
    BY <1>2
  <2> QED
    BY ONLY <1>10, <1>13, <1>14, <1>15, <2>1 DEF TipoHilo
<1>17. hilo' = [hilo EXCEPT ![t] = k]
  <2>1. hilo \in [Hilos -> TipoHilo]
    BY <1>1 DEF TypeOK, TipoHilos
  <2>2. PICK a1 : a1 = [hilo EXCEPT ![t].pc = "manda"]
    OBVIOUS
  <2>3. PICK a2 : a2 = [a1 EXCEPT ![t].guardados = @ + 1]
    OBVIOUS
  <2>4. PICK a3 : a3 = [a2 EXCEPT ![t].bloques[b][c] = v]
    OBVIOUS
  <2>5. hilo' = [a3 EXCEPT ![t].envio = e]
    BY <1>11, <2>2, <2>3, <2>4
  <2>6. PICK k1, k2 : k1 = [h EXCEPT !.pc = pc] /\ k2 = [k1 EXCEPT !.guardados = gu]
    OBVIOUS
  <2>7. h \in TipoHilo
    BY <1>2
  <2>8. k1 \in TipoHilo /\ k1.guardados = h.guardados /\ k1.bloques = h.bloques
    BY ONLY <1>14, <2>6, <2>7 DEF TipoHilo
  <2>9. k2 \in TipoHilo /\ k2.bloques = h.bloques
    BY ONLY <1>14, <2>6, <2>8 DEF TipoHilo
  <2>10. a1 = [hilo EXCEPT ![t] = k1] /\ a1[t] = k1
    <3>1. h = hilo[t] /\ pc = "manda" /\ t \in Hilos /\ DOMAIN hilo = Hilos
      BY <1>2, <1>14, <2>1
    <3> QED
      BY ONLY <2>2, <2>6, <3>1
  <2>11. a2 = [hilo EXCEPT ![t] = k2] /\ a2[t] = k2
    <3>1. h.guardados + 1 = gu /\ k1.guardados = h.guardados /\ t \in Hilos
      BY <1>14, <2>8
    <3>2. a2 = [a1 EXCEPT ![t] = [k1 EXCEPT !.guardados = gu]]
      BY ONLY <2>3, <2>10, <3>1
    <3>3. a2 = [a1 EXCEPT ![t] = k2]
      BY ONLY <2>6, <3>2
    <3> QED
      BY ONLY <2>1, <2>10, <3>1, <3>3
  <2>12. PICK k3 : k3 = [k2 EXCEPT !.bloques = z]
    OBVIOUS
  <2>13. a3 = [hilo EXCEPT ![t] = k3] /\ a3[t] = k3
    BY <1>4, <1>9, <2>1, <2>4, <2>9, <2>11, <2>12
  <2>14. hilo' = [hilo EXCEPT ![t] = [k3 EXCEPT !.envio = e]]
    BY <2>1, <2>5, <2>13
  <2>15. [k3 EXCEPT !.envio = e] = k
    BY ONLY <1>10, <1>13, <1>14, <1>15, <2>6, <2>7, <2>12 DEF TipoHilo
  <2> QED
    BY <2>14, <2>15
<1>18. hilo' \in [Hilos -> TipoHilo] /\ hilo'[t] = k /\ \A u \in Hilos \ {t} : hilo'[u] = hilo[u]
  BY <1>1, <1>16, <1>17, HiloPuesto
<1>19. c = 2 => bl[b][1] # SinCopia
  BY <1>6
<1>20. Colocado(t, h, b, n, num, v, c, bl, z, op, e, pc, gu, k)
  BY <1>4, <1>5, <1>6, <1>7, <1>8, <1>9, <1>10, <1>11, <1>12, <1>13, <1>14, <1>16, <1>17, <1>18, <1>19, Zenon DEF Colocado
<1> QED
  BY <1>20

(* The copies, when the upload of t has one more. *)
LEMMA PuestaNueva ==
  ASSUME NEW t \in Hilos, NEW k, NEW q, CopiasDe(k) = CopiasDe(hilo[t]) \cup {q},
         hilo'[t] = k, \A u \in Hilos \ {t} : hilo'[u] = hilo[u], archivos' = archivos
  PROVE  Puestas' = Puestas \cup {q}
<1>1. \A x : x \in PuestasEn(archivos', hilo') <=> x \in PuestasEn(archivos, hilo) \/ x = q
  <2> TAKE x
  <2>1. x \in PuestasEn(archivos', hilo') <=>
          (\E f \in archivos : x \in CopiasDe(f)) \/ (\E u \in Hilos : x \in CopiasDe(hilo'[u]))
    BY PuestasEs
  <2>2. x \in PuestasEn(archivos, hilo) <=>
          (\E f \in archivos : x \in CopiasDe(f)) \/ (\E u \in Hilos : x \in CopiasDe(hilo[u]))
    BY PuestasEs
  <2>3. (\E u \in Hilos : x \in CopiasDe(hilo'[u])) <=> (\E u \in Hilos : x \in CopiasDe(hilo[u])) \/ x = q
    <3>1. x \in CopiasDe(hilo'[t]) <=> x \in CopiasDe(hilo[t]) \/ x = q
      OBVIOUS
    <3>2. \A u \in Hilos \ {t} : x \in CopiasDe(hilo'[u]) <=> x \in CopiasDe(hilo[u])
      OBVIOUS
    <3> QED
      BY <3>1, <3>2
  <2> QED
    BY <2>1, <2>2, <2>3
<1> QED
  BY <1>1 DEF Puestas

(* The placement adds the copy that it made. *)
LEMMA ColocaPuesta ==
  ASSUME NEW t \in Hilos, NEW h, h = hilo[t], NEW b, NEW n, NEW num, NEW v, NEW c, NEW q,
         \E bl, z, op, e, pc, gu, k : Colocado(t, h, b, n, num, v, c, bl, z, op, e, pc, gu, k),
         q = [id |-> h.id, b |-> b, c |-> c, en |-> v], archivos' = archivos
  PROVE  Puestas' = Puestas \cup {q}
<1>1. PICK bl, z, op, e, pc, gu, k : Colocado(t, h, b, n, num, v, c, bl, z, op, e, pc, gu, k)
  OBVIOUS
<1>2. /\ bl = h.bloques /\ bl \in TipoBloques /\ b \in DOMAIN bl /\ c \in Par /\ bl[b][c] = SinCopia
      /\ v \in TipoCopia /\ v # SinCopia /\ z = [bl EXCEPT ![b][c] = v] /\ k.bloques = z /\ k.id = h.id
      /\ hilo'[t] = k /\ \A u \in Hilos \ {t} : hilo'[u] = hilo[u]
  BY <1>1 DEF Colocado
<1>3. CopiasDe(k) = CopiasDe(h) \cup {q}
  <2>1. h.bloques = bl /\ k.bloques = [bl EXCEPT ![b][c] = v] /\ h.id = k.id
    BY <1>2
  <2>2. bl \in TipoBloques /\ b \in DOMAIN bl /\ c \in Par /\ bl[b][c] = SinCopia /\ v \in TipoCopia /\ v # SinCopia
    BY <1>2
  <2>3. CopiasDe(k) = CopiasDe(h) \cup {[id |-> h.id, b |-> b, c |-> c, en |-> v]}
    BY ONLY <2>1, <2>2, CopiaPuesta
  <2> QED
    BY <2>3
<1> QED
  BY <1>2, <1>3, PuestaNueva

LEMMA ColocaPasa ==
  ASSUME IInv, NEW t \in Hilos, hilo[t].pc = "reparte", RepartirDeja,
         NEW h, NEW L, NEW p, NEW b, EnUnPaso(t, h, L, p, b),
         NEW n \in lista, n \in Activos, espacio[n].libres > 0, h.bloques[b][1].nodo # n,
         NEW num, num = PrimerCero(n), NEW v, v = [nodo |-> n, num |-> num],
         NEW c, c = IF h.bloques[b][1].nodo = Nadie THEN 1 ELSE 2,
         espacio' = [espacio EXCEPT ![n] = Anota(Fija(@, num))],
         hilo' = [hilo EXCEPT ![t].pc = "manda", ![t].guardados = @ + 1, ![t].bloques[b][c] = v,
                              ![t].envio = [nodo |-> n, op |-> OpManda(h.id, b, num)]]
  PROVE  IInv'
<1>1. TypeOK /\ Exclusion /\ Nombres /\ Avance /\ Agotado /\ Cuentas
  BY DEF IInv, Cuentas
<1>2. /\ h = hilo[t] /\ L = Len(h.bloques) /\ p = h.paso
      /\ Mapeada(t) /\ h \in TipoHilo /\ h.bloques \in TipoBloques /\ DOMAIN h.bloques = 1 .. L
      /\ h.bloques # <<>> /\ L <= MaxBloques
      /\ h.guardados \in Nat /\ h.guardados < p /\ Hechos(h) = p - 1
      /\ \A d \in 1 .. L : EnPasada(h, d)
      /\ h.bloques[b][2] = SinCopia /\ (h.bloques[b][1] # SinCopia => p > L)
  BY DEF EnUnPaso
<1>3. /\ L \in Nat \ {0} /\ p \in 1 .. 2 * L /\ b \in 1 .. L
      /\ (p <= L /\ b = p) \/ (p > L /\ p = L + b)
  BY DEF EnUnPaso, EnCual
<1>4. PICK bl, z, op, e, pc, gu, k : Colocado(t, h, b, n, num, v, c, bl, z, op, e, pc, gu, k)
  BY ColocaEs
<1>5. bl = h.bloques /\ bl \in TipoBloques /\ b \in DOMAIN bl
  BY <1>4 DEF Colocado
<1>6. c \in Par /\ bl[b][c] = SinCopia /\ (c = 2 => bl[b][1] # SinCopia /\ p > L) /\ (c # 2 => c = 1)
  BY <1>2, <1>4 DEF Colocado
<1>7. n \in Nodos /\ num \in Bits(n) \cup {-1}
  BY <1>4 DEF Colocado
<1>8. v \in TipoCopia /\ v # SinCopia /\ v.nodo = n /\ v.num = num
  BY <1>4 DEF Colocado
<1>10. z = [bl EXCEPT ![b][c] = v] /\ z \in TipoBloques /\ CambiaSolo(z, bl, b, c, v)
  BY <1>4 DEF Colocado
<1>12. op \in TipoOp /\ op.num = num /\ EsOp(op)
  BY <1>4 DEF Colocado
<1>13. e \in TipoEnvio /\ e # SinEnvio /\ e.nodo = n /\ e.op = op
  BY <1>4 DEF Colocado
<1>14. pc \in TipoPc /\ gu \in Nat /\ pc = "manda" /\ gu = h.guardados + 1
  BY <1>4 DEF Colocado
<1>16. /\ k \in TipoHilo /\ k.pc = pc /\ k.ruta = h.ruta /\ k.id = h.id /\ k.bloques = z
       /\ k.paso = h.paso /\ k.guardados = gu /\ k.ino = h.ino /\ k.envio = e
  BY <1>4 DEF Colocado
<1>17. hilo' = [hilo EXCEPT ![t] = k]
  BY <1>4 DEF Colocado
<1>18. hilo' \in [Hilos -> TipoHilo] /\ hilo'[t] = k /\ \A u \in Hilos \ {t} : hilo'[u] = hilo[u]
  BY <1>4 DEF Colocado
<1>19. PICK r : r = Anota(Fija(espacio[n], num))
  OBVIOUS
<1>20. /\ r \in TipoEspacio(n) /\ r.ocupados = espacio[n].ocupados \cup ({num} \ {-1})
       /\ r.libres = espacio[n].libres - 1
  BY <1>1, <1>7, <1>19, FijaEs
<1>21. espacio' = [espacio EXCEPT ![n] = r] /\ DOMAIN espacio = Nodos
  BY <1>1, <1>19 DEF TypeOK, TipoEspacios
<1>22. TypeOK' /\ Exclusion' /\ Nombres' /\ Operaciones' /\ EnCopia' /\ TablaSana'
  <2>1. TipoEspacios'
    <3>1. \A m \in Nodos : espacio'[m] \in TipoEspacio(m)
      BY <1>1, <1>20, <1>21, TipoEspacioEs
    <3> QED
      BY <1>21, <3>1 DEF TipoEspacios
  <2>2. Len(z) = L /\ z # <<>>
    <3>1. Len(z) = L
      BY <1>2, <1>5, <1>10 DEF CambiaSolo
    <3> QED
      BY <1>3, <3>1
  <2>3. p \in 1 .. 2 * L + 1 /\ p <= 2 * L
    BY <1>3
  <2>4. k.envio # SinEnvio => k.envio.op.num \in Bits(k.envio.nodo) \cup {-1} /\ EsOp(k.envio.op)
    BY <1>7, <1>12, <1>13, <1>16
  <2>5. Avanza(h, k)
    BY <1>2, <1>13, <1>14, <1>16, <2>2, <2>3, <2>4 DEF Avanza
  <2> QED
    BY <1>2, <1>17, <2>1, <2>5, RepartirComun
<1>23. Hechos(k) = p
  BY <1>2, <1>14, <1>16 DEF Hechos
<1>24. \A d \in 1 .. L : \A x \in Par : <<d, x>> # <<b, c>> => z[d][x] = bl[d][x]
  BY <1>2, <1>5, <1>10 DEF CambiaSolo
<1>25. z[b][c] = v /\ DOMAIN z = 1 .. L
  BY <1>2, <1>5, <1>10 DEF CambiaSolo
<1>26. L \in Nat /\ p \in Nat /\ b \in Nat /\ b >= 1 /\ b <= L /\ ((p <= L /\ b = p) \/ (p > L /\ p = L + b))
  BY <1>3
<1>27. Avance'
  <2>1. k.guardados <= Hechos(k)
    <3>1. PICK g \in Nat : g = h.guardados
      BY <1>2
    <3>2. g < p
      BY <1>2, <3>1
    <3>3. g + 1 <= p
      BY ONLY <1>26, <3>1, <3>2
    <3> QED
      BY <1>14, <1>16, <1>23, <3>1, <3>3
  <2>2. \A d \in DOMAIN k.bloques : EnPasada(k, d)
    <3> SUFFICES ASSUME NEW d \in 1 .. L PROVE EnPasada(k, d)
      BY <1>16, <1>25
    <3>1. /\ bl[d][1] = SinCopia => bl[d][2] = SinCopia
          /\ bl[d][1] # SinCopia => bl[d][1].nodo # bl[d][2].nodo
          /\ p - 1 < d => bl[d][1] = SinCopia
          /\ p - 1 < L + d => bl[d][2] = SinCopia
      BY <1>2, <1>5 DEF EnPasada
    <3>2. Len(z) = L
      BY <1>2, <1>5, <1>10 DEF CambiaSolo
    <3>3. d \in Nat /\ (p < d => p - 1 < d) /\ (p < L + d => p - 1 < L + d)
      <4>1. d \in Nat
        BY <1>3
      <4> QED
        BY ONLY <1>26, <4>1
    <3>4. CASE d # b
      <4>1. z[d][1] = bl[d][1] /\ z[d][2] = bl[d][2]
        BY <1>24, <3>4 DEF Par
      <4> QED
        BY <1>16, <1>23, <3>1, <3>2, <3>3, <4>1 DEF EnPasada
    <3>5. CASE d = b
      <4>1. ~ (p < b) /\ (p < L + b => p <= L)
        BY ONLY <1>26
      <4>2. SinCopia.nodo = Nadie /\ n # Nadie
        BY <1>7, Constantes DEF SinCopia
      <4>3. CASE c = 1
        <5>1. z[b][1] = v /\ z[b][2] = bl[b][2]
          BY <1>24, <1>25, <1>3, <4>3 DEF Par
        <5>2. bl[b][2] = SinCopia
          BY <1>2, <1>5
        <5> QED
          BY <1>8, <1>16, <1>23, <3>2, <3>5, <4>1, <4>2, <5>1, <5>2 DEF EnPasada
      <4>4. CASE c = 2
        <5>1. z[b][2] = v /\ z[b][1] = bl[b][1]
          BY <1>24, <1>25, <1>3, <4>4 DEF Par
        <5>2. bl[b][1] # SinCopia /\ p > L /\ bl[b][1].nodo # n
          BY <1>5, <1>6, <4>4
        <5>3. ~ (p <= L)
          BY ONLY <1>26, <5>2
        <5> QED
          BY <1>8, <1>16, <1>23, <3>2, <3>5, <4>1, <5>1, <5>2, <5>3 DEF EnPasada
      <4> QED
        BY <1>6, <4>3, <4>4
    <3> QED
      BY <3>4, <3>5
  <2> QED
    BY <1>1, <1>18, <2>1, <2>2 DEF Avance, Mapeada
<1>28. Agotado'
  <2> SUFFICES ASSUME EnRegla({"crece"})', NEW u \in Hilos, Mapeada(u)'
      PROVE  (\A d \in DOMAIN hilo[u].bloques : d <= Hechos(hilo[u]) => hilo[u].bloques[d][1] # SinCopia)'
    BY DEF Agotado
  <2>1. EnRegla({"crece"})
    BY DEF EnRegla, RepartirDeja
  <2>2. ~ SinLugar
    <3>1. espacio[n].libres \in Int
      BY <1>1, <1>7, TipoEspacioEs
    <3> QED
      BY <3>1 DEF SinLugar
  <2>3. u = t
    <3>1. cpmut = t
      BY <1>1, <1>2 DEF Exclusion, Excluye
    <3>2. cpmut' = u
      BY <1>22 DEF Exclusion, Excluye
    <3> QED
      BY <3>1, <3>2 DEF RepartirDeja
  <2>4. \A d \in 1 .. L : d <= p - 1 => bl[d][1] # SinCopia
    BY <1>1, <1>2, <1>5, <2>1, <2>2 DEF Agotado
  <2>5. \A d \in 1 .. L : d <= p => z[d][1] # SinCopia
    <3> SUFFICES ASSUME NEW d \in 1 .. L, d <= p PROVE z[d][1] # SinCopia
      OBVIOUS
    <3>1. CASE d = b
      <4>1. CASE c = 1
        BY <1>8, <1>25, <3>1, <4>1
      <4>2. CASE c = 2
        BY <1>6, <1>24, <3>1, <4>2 DEF Par
      <4> QED
        BY <1>6, <4>1, <4>2
    <3>2. CASE d # b
      <4>1. d \in Nat /\ d <= L
        BY <1>3
      <4>2. d <= p - 1
        BY ONLY <1>26, <4>1, <3>2, d <= p
      <4> QED
        BY <1>24, <2>4, <3>2, <4>2 DEF Par
    <3> QED
      BY <3>1, <3>2
  <2> QED
    BY <1>16, <1>18, <1>23, <1>25, <2>3, <2>5
<1>29. Cuentas'
  <2>1. PICK q : q = [id |-> h.id, b |-> b, c |-> c, en |-> v]
    OBVIOUS
  <2>3. Puestas' = Puestas \cup {q}
    <3>1. h = hilo[t] /\ archivos' = archivos
          /\ \E d, z1, o, e1, p1, g, x : Colocado(t, h, b, n, num, v, c, d, z1, o, e1, p1, g, x)
      BY <1>2, <1>4, Zenon DEF RepartirDeja
    <3> QED
      BY <2>1, <3>1, ColocaPuesta, Zenon
  <2>4. q.en.nodo = n /\ q.en.num = num
    BY <1>8, <2>1
  <2>5. Ocupa(n, num)
    <3>1. \A m \in lista \ {n} : espacio'[m] = espacio[m]
      BY <1>21
    <3>2. espacio'[n] = r
      BY <1>7, <1>21
    <3> QED
      BY <1>20, <3>1, <3>2 DEF Ocupa
  <2>6. EnRegla({"carrera", "desfase"})' => num \in Bits(n) \ espacio[n].ocupados
    <3> SUFFICES ASSUME EnRegla({"carrera", "desfase"}) PROVE num \in Bits(n) \ espacio[n].ocupados
      BY DEF EnRegla, RepartirDeja
    <3>1. espacio[n].libres = Total[n] - Cardinality(espacio[n].ocupados)
      BY <1>1 DEF Cuentas, LibresCuadra
    <3>2. Total[n] \in Int /\ Cardinality(espacio[n].ocupados) \in Int
      BY <1>1, <1>7, BitsEs, TipoEspacioEs, FS_CardinalityType
    <3>3. PICK x, y, w : x = espacio[n].libres /\ y = Total[n] /\ w = Cardinality(espacio[n].ocupados)
      OBVIOUS
    <3>4. x = y - w /\ y \in Int /\ w \in Int /\ x > 0
      BY <3>1, <3>2, <3>3
    <3>5. w < y
      BY ONLY <3>4
    <3> QED
      BY <1>1, <1>7, <3>3, <3>5, PrimerCeroEs
  <2>7. hist \subseteq hist' /\ lista' = lista /\ TypeOK /\ Cuentas /\ n \in lista
    BY <1>1 DEF RepartirDeja
  <2> QED
    BY ONLY <2>3, <2>4, <2>5, <2>6, <2>7, FijaCuentas
<1> QED
  BY <1>22, <1>27, <1>28, <1>29 DEF IInv, Cuentas

(* The two outcomes of the step: the block is passed over, or placed. *)
Salta(t, h, b) ==
  /\ h.bloques[b][1] = SinCopia => SinLugar
  /\ hilo' = [hilo EXCEPT ![t].paso = @ + 1] /\ espacio' = espacio

Coloca(t, h, b, n, num, v, c) ==
  /\ n \in lista /\ n \in Activos /\ espacio[n].libres > 0 /\ h.bloques[b][1].nodo # n /\ cola[n] = <<>>
  /\ num = PrimerCero(n) /\ v = [nodo |-> n, num |-> num]
  /\ c = (IF h.bloques[b][1].nodo = Nadie THEN 1 ELSE 2)
  /\ espacio' = [espacio EXCEPT ![n] = Anota(Fija(@, num))]
  /\ hilo' = [hilo EXCEPT ![t].pc = "manda", ![t].guardados = @ + 1, ![t].bloques[b][c] = v,
                          ![t].envio = [nodo |-> n, op |-> OpManda(h.id, b, num)]]

UnPaso(t) ==
  \E h, L, p, b : /\ EnUnPaso(t, h, L, p, b)
                  /\ Salta(t, h, b) \/ \E n, num, v, c : Coloca(t, h, b, n, num, v, c)

LEMMA RepartirEs ==
  ASSUME IInv, NEW t \in Hilos, Repartir(t)
  PROVE  /\ hilo[t].pc = "reparte" /\ RepartirDeja /\ Activos' = Activos /\ \E ns : Ping(ns)
         /\ UnPaso(t)
<1>1. PICK h, L, p, b, original, mejores :
        /\ h = hilo[t] /\ L = Len(h.bloques) /\ p = h.paso /\ b = ((p - 1) % L) + 1
        /\ original = h.bloques[b][1].nodo /\ mejores = Balance(original).mejores
  OBVIOUS
<1>2. /\ hilo[t].pc = "reparte" /\ hilo[t].paso <= 2 * Len(hilo[t].bloques)
      /\ fs' = fs /\ lista' = lista /\ conexion' = conexion /\ disco' = disco /\ archivos' = archivos
      /\ orden' = orden /\ cpmut' = cpmut /\ bsent' = bsent /\ suenio' = suenio /\ cola' = cola
      /\ mapas' = mapas /\ blocks' = blocks /\ cuenta' = cuenta /\ hist' = hist
      /\ Ping(Balance(original).vistos)
  BY <1>1 DEF Repartir, subidaVars, mapaVars
<1>3. \/ /\ \A n \in mejores : espacio[n].libres = 0
         /\ hilo' = [hilo EXCEPT ![t].paso = @ + 1] /\ espacio' = espacio
      \/ /\ ~ \A n \in mejores : espacio[n].libres = 0
         /\ \E n \in mejores :
              /\ espacio' = [espacio EXCEPT ![n] = Anota(Fija(@, PrimerCero(n)))]
              /\ hilo' = [hilo EXCEPT
                   ![t].pc = "manda", ![t].guardados = @ + 1,
                   ![t].bloques[b][IF original = Nadie THEN 1 ELSE 2] = [nodo |-> n, num |-> PrimerCero(n)],
                   ![t].envio = [nodo |-> n, op |-> OpManda(h.id, b, PrimerCero(n))]]
  BY <1>1, ZenonT(60) DEF Repartir
<1>4. manejador' \subseteq manejador /\ Activos' = Activos
  BY <1>2, PingEs
<1>5. RepartirDeja
  BY <1>2, <1>4 DEF RepartirDeja
<1>6. EnUnPaso(t, h, L, p, b)
  BY <1>1, <1>2, EnPaso
<1>7. TypeOK
  BY DEF IInv
<1>8. /\ mejores \subseteq lista /\ mejores \subseteq Activos /\ original \notin mejores
      /\ \A n \in mejores : espacio[n].libres >= 0
      /\ \A n, m \in mejores : espacio[n].libres = 0 => espacio[m].libres = 0
      /\ original = Nadie /\ (\A n \in mejores : espacio[n].libres = 0) => SinLugar
  <2>1. mejores = Balance(original).mejores
    BY <1>1
  <2> QED
    BY ONLY <1>7, <2>1, BalanceEs
<1>9. ASSUME /\ \A n \in mejores : espacio[n].libres = 0
             /\ hilo' = [hilo EXCEPT ![t].paso = @ + 1] /\ espacio' = espacio
      PROVE  UnPaso(t)
  <2>1. h.bloques[b][1] = SinCopia => SinLugar
    BY <1>1, <1>8, <1>9 DEF SinCopia
  <2>2. Salta(t, h, b)
    BY <1>9, <2>1 DEF Salta
  <2> QED
    BY <1>6, <2>2, Zenon DEF UnPaso
<1>10. ASSUME /\ ~ \A n \in mejores : espacio[n].libres = 0
              /\ \E n \in mejores :
                   /\ espacio' = [espacio EXCEPT ![n] = Anota(Fija(@, PrimerCero(n)))]
                   /\ hilo' = [hilo EXCEPT
                        ![t].pc = "manda", ![t].guardados = @ + 1,
                        ![t].bloques[b][IF original = Nadie THEN 1 ELSE 2] = [nodo |-> n, num |-> PrimerCero(n)],
                        ![t].envio = [nodo |-> n, op |-> OpManda(h.id, b, PrimerCero(n))]]
       PROVE  UnPaso(t)
  <2>1. PICK n \in mejores :
          /\ espacio' = [espacio EXCEPT ![n] = Anota(Fija(@, PrimerCero(n)))]
          /\ hilo' = [hilo EXCEPT
               ![t].pc = "manda", ![t].guardados = @ + 1,
               ![t].bloques[b][IF original = Nadie THEN 1 ELSE 2] = [nodo |-> n, num |-> PrimerCero(n)],
               ![t].envio = [nodo |-> n, op |-> OpManda(h.id, b, PrimerCero(n))]]
    BY <1>10, ZenonT(60)
  <2>2. n \in lista /\ n \in Activos /\ h.bloques[b][1].nodo # n
    BY <1>1, <1>8
  <2>3. espacio[n].libres > 0
    <3>1. n \in Nodos
      BY <1>7, <2>2 DEF TypeOK, TipoNodos
    <3>2. espacio[n].libres \in Int /\ espacio[n].libres # 0 /\ espacio[n].libres >= 0
      BY <1>7, <1>8, <1>10, <3>1, TipoEspacioEs
    <3> QED
      BY <3>2
  <2>4. PICK num, v, c : /\ num = PrimerCero(n) /\ v = [nodo |-> n, num |-> num]
                         /\ c = (IF h.bloques[b][1].nodo = Nadie THEN 1 ELSE 2)
    OBVIOUS
  <2>5. espacio' = [espacio EXCEPT ![n] = Anota(Fija(@, num))]
    BY <2>1, <2>4, Zenon
  <2>6. hilo' = [hilo EXCEPT ![t].pc = "manda", ![t].guardados = @ + 1, ![t].bloques[b][c] = v,
                             ![t].envio = [nodo |-> n, op |-> OpManda(h.id, b, num)]]
    BY <1>1, <2>1, <2>4, Zenon
  <2>7. cola[n] = <<>>
    <3>1. n \in Balance(original).vistos
      BY <1>1 DEF Balance
    <3>2. n \in manejador
      BY <2>2 DEF Activos
    <3> QED
      BY <1>2, <3>1, <3>2 DEF Ping
  <2>8. Coloca(t, h, b, n, num, v, c)
    BY <2>2, <2>3, <2>4, <2>5, <2>6, <2>7, Zenon DEF Coloca
  <2> QED
    BY <1>6, <2>8, Zenon DEF UnPaso
<1>11. UnPaso(t)
  BY <1>3, <1>9, <1>10, Zenon
<1> QED
  BY <1>2, <1>4, <1>5, <1>11

LEMMA RepartirPasa ==
  ASSUME IInv, NEW t \in Hilos, Repartir(t)
  PROVE  IInv'
<1>1. hilo[t].pc = "reparte" /\ RepartirDeja /\ Activos' = Activos
  BY RepartirEs
<1>2. PICK h, L, p, b : /\ EnUnPaso(t, h, L, p, b)
                        /\ Salta(t, h, b) \/ \E n, num, v, c : Coloca(t, h, b, n, num, v, c)
  <2>1. UnPaso(t)
    BY RepartirEs
  <2> QED
    BY <2>1, Zenon DEF UnPaso
<1>3. CASE Salta(t, h, b)
  BY <1>1, <1>2, <1>3, SaltaPasa DEF Salta
<1>4. CASE \E n, num, v, c : Coloca(t, h, b, n, num, v, c)
  <2>1. PICK n, num, v, c : Coloca(t, h, b, n, num, v, c)
    BY <1>4
  <2>2. /\ n \in lista /\ n \in Activos /\ espacio[n].libres > 0 /\ h.bloques[b][1].nodo # n
        /\ num = PrimerCero(n) /\ v = [nodo |-> n, num |-> num]
        /\ c = (IF h.bloques[b][1].nodo = Nadie THEN 1 ELSE 2)
        /\ espacio' = [espacio EXCEPT ![n] = Anota(Fija(@, num))]
        /\ hilo' = [hilo EXCEPT ![t].pc = "manda", ![t].guardados = @ + 1, ![t].bloques[b][c] = v,
                                ![t].envio = [nodo |-> n, op |-> OpManda(h.id, b, num)]]
    BY <2>1, Zenon DEF Coloca
  <2> QED
    BY <1>1, <1>2, <2>2, ColocaPasa, Zenon
<1> QED
  BY <1>2, <1>3, <1>4

-----------------------------------------------------------------------------
(* The initial state, and every step. *)

LEMMA InitPasa ==
  ASSUME Init
  PROVE  IInv
<1>1. TypeOK
  <2>1. TipoNodos
    BY Constantes DEF Init, TipoNodos
  <2>2. TipoEspacios
    <3>1. \A n \in Nodos : espacio[n] \in TipoEspacio(n)
      <4> TAKE n \in Nodos
      <4>1. espacio[n] = [ocupados |-> {}, archivo |-> {}, libres |-> Total[n], bin |-> Total[n]]
        BY DEF Init
      <4> QED
        BY <4>1, Constantes DEF TipoEspacio
    <3> QED
      BY <3>1 DEF Init, TipoEspacios
  <2>3. TipoDiscos
    BY DEF Init, TipoDiscos, Bits, Cero, Dato
  <2>4. TipoColas
    <3>1. \A n \in Nodos : cola[n] = <<>>
      BY DEF Init
    <3> QED
      BY <3>1 DEF Init, TipoColas, TipoCola
  <2>5. SinSubir \in TipoHilo /\ SinSubir.envio = SinEnvio
    BY DEF SinSubir, TipoHilo, TipoPc, TipoRuta, TipoBloques, TipoIno, TipoEnvio
  <2>6. TipoHilos
    BY <2>5 DEF Init, TipoHilos
  <2>7. TipoOrden
    BY DEF Init, TipoOrden, SinOrden
  <2>8. TipoSubida
    BY Constantes DEF Init, TipoSubida
  <2>9. TipoMapas
    BY DEF Init, TipoMapas, TipoIno
  <2>10. archivos \subseteq TipoArchivo /\ cuenta \in TipoCuenta /\ hist \subseteq Historia
    BY DEF Init, TipoCuenta
  <2> QED
    BY <2>1, <2>2, <2>3, <2>4, <2>6, <2>7, <2>8, <2>9, <2>10 DEF TypeOK
<1>2. /\ archivos = {} /\ orden = SinOrden /\ cpmut = Nadie /\ hist = {}
      /\ \A n \in Nodos : cola[n] = <<>> /\ espacio[n].ocupados = {} /\ espacio[n].libres = Total[n]
      /\ lista \subseteq Nodos /\ cuenta.subidas = 0
  BY DEF Init
<1>3. \A t \in Hilos : /\ hilo[t].pc = "libre" /\ hilo[t].id = 0 /\ hilo[t].bloques = <<>>
                       /\ hilo[t].guardados = 0 /\ hilo[t].ino = 0 /\ hilo[t].envio = SinEnvio
  BY DEF Init, SinSubir
<1>4. \A t \in Hilos : ~ Mapeada(t)
  BY <1>3 DEF Mapeada
<1>5. Exclusion
  <2>1. \A t \in Hilos : Excluye(t)
    BY <1>2, <1>3, <1>4, Constantes DEF Excluye
  <2> QED
    BY <1>2, <2>1 DEF Exclusion
<1>6. Nombres
  <2>1. \A t \in Hilos : Nombrado(t)
    BY <1>2, <1>3 DEF Nombrado, EsLibre
  <2> QED
    BY <1>2, <2>1 DEF Nombres
<1>7. Operaciones
  BY <1>2, <1>3 DEF Operaciones
<1>8. EnCopia /\ Avance /\ Agotado
  BY <1>2, <1>4 DEF EnCopia, SinOrden, Avance, Agotado
<1>9. LibresCuadra
  <2> SUFFICES ASSUME NEW n \in lista PROVE espacio[n].libres = Total[n] - Cardinality(espacio[n].ocupados)
    BY DEF LibresCuadra
  <2>1. n \in Nodos /\ espacio[n].ocupados = {} /\ espacio[n].libres = Total[n]
    BY <1>2
  <2>2. Cardinality({}) = 0
    BY FS_EmptySet
  <2>3. Cardinality(espacio[n].ocupados) = 0 /\ Total[n] \in Int
    BY <2>1, <2>2, Constantes
  <2> QED
    BY <2>1, <2>3
<1>10. Reservas /\ Justificados
  <2>1. Puestas = {}
    <3> SUFFICES ASSUME NEW p, p \in PuestasEn(archivos, hilo) PROVE FALSE
      BY DEF Puestas
    <3>1. \E t \in Hilos : p \in CopiasDe(hilo[t])
      BY <1>2, PuestasEs
    <3> QED
      BY <1>4, <1>5, <3>1, NadaPuesto
  <2> QED
    BY <1>2, <2>1 DEF Reservas, Justificados
<1>11. TablaSana
  BY <1>2 DEF TablaSana, CopiasDistintas, RutaUnica
<1> QED
  BY <1>1, <1>5, <1>6, <1>7, <1>8, <1>9, <1>10, <1>11 DEF IInv

LEMMA NadaPasa ==
  ASSUME IInv, UNCHANGED vars
  PROVE  IInv'
<1>1. /\ fs' = fs /\ lista' = lista /\ conexion' = conexion /\ manejador' = manejador
      /\ espacio' = espacio /\ disco' = disco /\ archivos' = archivos /\ hilo' = hilo /\ orden' = orden
      /\ cpmut' = cpmut /\ bsent' = bsent /\ suenio' = suenio /\ cola' = cola /\ mapas' = mapas
      /\ blocks' = blocks /\ cuenta' = cuenta /\ hist' = hist
  BY DEF vars, nodoVars, subidaVars, mapaVars
<1>2. TypeOK /\ Exclusion /\ Nombres /\ Operaciones /\ EnCopia /\ Avance /\ Agotado /\ Cuentas /\ TablaSana
  BY DEF IInv, Cuentas
<1>3. TypeOK'
  BY <1>1, <1>2, TiposQuedan DEF TypeOK
<1>4. Exclusion' /\ Nombres' /\ Operaciones' /\ EnCopia' /\ Avance'
  BY <1>1, <1>2, PartesQuedan
<1>5. Agotado'
  BY <1>1, <1>2, AgotadoQueda DEF Activos
<1>6. Cuentas'
  <2>1. \A t \in Hilos : CopiasDe(hilo'[t]) = CopiasDe(hilo[t])
    BY <1>1
  <2> QED
    BY <1>1, <1>2, <2>1, CuentasQuedan, PuestasIguales
<1>7. TablaSana'
  BY <1>1, <1>2, TablaQueda
<1> QED
  BY <1>3, <1>4, <1>5, <1>6, <1>7 DEF IInv, Cuentas

LEMMA PasoPasa ==
  ASSUME IInv, Next
  PROVE  IInv'
<1>1. CASE \E t \in Hilos : Subir(t) \/ \E ruta \in Rutas : Pedir(t, ruta)
  <2>1. PICK t \in Hilos : Subir(t) \/ \E ruta \in Rutas : Pedir(t, ruta)
    BY <1>1
  <2>2. CASE \E ruta \in Rutas : Pedir(t, ruta)
    BY <2>2, PedirPasa
  <2>3. CASE \E k \in 0 .. MaxBloques : Entrar(t, k)
    BY <2>3, EntrarPasa
  <2>4. CASE Repartir(t)
    BY <2>4, RepartirPasa
  <2>5. CASE Mandar(t)
    BY <2>5, MandarPasa
  <2>6. CASE Terminar(t)
    BY <2>6, TerminarPasa
  <2> QED
    BY <2>1, <2>2, <2>3, <2>4, <2>5, <2>6 DEF Subir
<1>2. CASE Ordenes
  BY <1>2, BorrarPasa, BajarPasa, BorrarCopiaPasa, CopiarEligePasa DEF Ordenes
<1>3. CASE Formatear
  BY <1>3, FormatearPasa
<1>4. CASE CopiarLee \/ CopiarEscribe \/ BajarPide \/ BajarTermina
  BY <1>4, CopiarLeePasa, CopiarEscribePasa, BajarPidePasa, BajarTerminaPasa
<1>5. CASE \E n \in Nodos : Atender(n) \/ Cae(n) \/ Conectar(n)
  BY <1>5, AtenderPasa, CaePasa, ConectarPasa
<1>6. CASE \E limpio \in BOOLEAN : Reiniciar(limpio)
  BY <1>6, ReiniciarPasa
<1> QED
  BY <1>1, <1>2, <1>3, <1>4, <1>5, <1>6 DEF Next

-----------------------------------------------------------------------------
(* What is true in every reachable state. *)

(* The parts of the invariant above hold in every reachable state. *)
THEOREM Invariante == Spec => []IInv
<1>1. Init => IInv
  BY InitPasa
<1>2. IInv /\ [Next]_vars => IInv'
  BY PasoPasa, NadaPasa
<1> QED
  BY <1>1, <1>2, PTL DEF Spec

(* The variables keep their types; unless a command met an upload or a      *)
(* restart read older files, the counter of a node is the number of zeros   *)
(* of its bitmap and the copies of stored files are on bits of their own.   *)
THEOREM EspacioSanoSiempre == Spec => []EspacioSano
<1>1. IInv => EspacioSano
  <2> SUFFICES ASSUME IInv PROVE EspacioSano
    OBVIOUS
  <2>1. TypeOK /\ LibresCuadra /\ Reservas
    BY DEF IInv
  <2>2. CopiasReservadas
    <3> SUFFICES ASSUME EnRegla({"carrera", "desfase"}), NEW f \in archivos, NEW g \in archivos,
                        NEW b \in DOMAIN f.bloques, NEW d \in DOMAIN g.bloques, NEW c \in Par, NEW e \in Par,
                        f.bloques[b][c] # SinCopia
        PROVE  /\ f.bloques[b][c].nodo \in lista
               /\ f.bloques[b][c].num \in espacio[f.bloques[b][c].nodo].ocupados
               /\ f.bloques[b][c] = g.bloques[d][e] => <<f, b, c>> = <<g, d, e>>
      BY DEF CopiasReservadas
    <3>1. PICK p, q : /\ p = [id |-> f.id, b |-> b, c |-> c, en |-> f.bloques[b][c]]
                      /\ q = [id |-> g.id, b |-> d, c |-> e, en |-> g.bloques[d][e]]
      OBVIOUS
    <3>2. /\ p.id = f.id /\ p.b = b /\ p.c = c /\ p.en = f.bloques[b][c]
          /\ q.id = g.id /\ q.b = d /\ q.c = e /\ q.en = g.bloques[d][e]
      BY <3>1
    <3>3. EsCopia(f.bloques, f.id, p) /\ (q.en # SinCopia => EsCopia(g.bloques, g.id, q))
      BY <3>1, <3>2 DEF EsCopia
    <3>4. p \in CopiasDe(f) /\ (q.en # SinCopia => q \in CopiasDe(g))
      BY <3>3, EsCopiaSii
    <3>5. p \in Puestas /\ (q.en # SinCopia => q \in Puestas)
      BY <3>4, PuestasEs DEF Puestas
    <3>6. Reservada(p) /\ \A x \in Puestas : p.en = x.en => p = x
      BY <2>1, <3>5 DEF Reservas
    <3>7. p.en = q.en => p = q
      BY <3>2, <3>5, <3>6
    <3>8. f.id = g.id => f = g
      BY DEF IInv, Nombres
    <3> QED
      BY <3>2, <3>6, <3>7, <3>8 DEF Reservada
  <2> QED
    BY <2>1, <2>2 DEF EspacioSano
<1> QED
  BY <1>1, Invariante, PTL

(* A bit that is set belongs to a copy of a stored file or of an upload in  *)
(* progress, unless some upload ended without its file.                     *)
THEOREM BitsJustificadosSiempre == Spec => []BitsJustificados
<1>1. IInv => BitsJustificados
  <2> SUFFICES ASSUME IInv, EnRegla({"carrera", "desfase", "fuga"}), NEW n \in lista, NEW i \in espacio[n].ocupados
      PROVE  \/ \E f \in archivos : \E b \in DOMAIN f.bloques, c \in Par :
                  f.bloques[b][c] = [nodo |-> n, num |-> i]
             \/ \E t \in Hilos : \E b \in DOMAIN hilo[t].bloques, c \in Par :
                  hilo[t].bloques[b][c] = [nodo |-> n, num |-> i]
    BY DEF BitsJustificados
  <2>1. PICK p \in Puestas : p.en.nodo = n /\ p.en.num = i
    BY DEF IInv, Justificados, DeAlguna
  <2>2. /\ p.en \in TipoCopia
        /\ \/ \E f \in archivos : EsCopia(f.bloques, f.id, p)
           \/ \E t \in Hilos : EsCopia(hilo[t].bloques, hilo[t].id, p)
    BY PuestaEs DEF IInv
  <2>3. p.en = [nodo |-> n, num |-> i]
    BY <2>1, <2>2, TipoCopiaEs
  <2>4. CASE \E f \in archivos : EsCopia(f.bloques, f.id, p)
    <3>1. PICK f \in archivos : EsCopia(f.bloques, f.id, p)
      BY <2>4
    <3>2. \E b \in DOMAIN f.bloques, c \in Par : f.bloques[b][c] = [nodo |-> n, num |-> i]
      BY <2>3, <3>1 DEF EsCopia
    <3> QED
      BY <3>2
  <2>5. CASE \E t \in Hilos : EsCopia(hilo[t].bloques, hilo[t].id, p)
    <3>1. PICK t \in Hilos : EsCopia(hilo[t].bloques, hilo[t].id, p)
      BY <2>5
    <3>2. \E b \in DOMAIN hilo[t].bloques, c \in Par : hilo[t].bloques[b][c] = [nodo |-> n, num |-> i]
      BY <2>3, <3>1 DEF EsCopia
    <3> QED
      BY <3>2
  <2> QED
    BY <2>2, <2>4, <2>5
<1> QED
  BY <1>1, Invariante, PTL

(* Every block of a stored file keeps a copy, its two copies are on         *)
(* different nodes, and no two files share a path.                          *)
THEOREM TablaSanaSiempre == Spec => []TablaSana
<1>1. IInv => TablaSana
  BY DEF IInv
<1> QED
  BY <1>1, Invariante, PTL
=============================================================================
