-------------------------- MODULE YamaCargaProofs --------------------------
(***************************************************************************)
(* Theorems about the load table and the stages of YamaJobs, for every     *)
(* value of its constants: the load of a node is the sum of the loads of   *)
(* the jobs, a job with nothing in process weighs on no node, and the      *)
(* global reduction is given every block of the file once.                 *)
(***************************************************************************)
EXTENDS YamaJobsProofs, Sumas

-----------------------------------------------------------------------------
(* The inductive invariant, beside the one of YamaJobsProofs. *)

DelJob(j)     == {i \in Filas : tabla[i].job = j}
Vivas(j)      == {i \in DelJob(j) : tabla[i].estado = "EnProceso"}
Transf(j)     == {i \in DelJob(j) : tabla[i].etapa = "Transformacion"}
TransfEn(j, n) == {i \in Transf(j) : tabla[i].nodo = n}

(* A job weighs where it has a row in process, and where it has the local  *)
(* reduction of something still in process.                                *)
EnCarga(j, n) ==
  \E i \in Vivas(j) : \/ tabla[i].nodo = n
                      \/ \E k \in DelJob(j) : tabla[k].etapa = "ReduccionLocal" /\ tabla[k].nodo = n

Justificada(j) == \A n \in Nodos : cargas[n].porJob[j] # 0 => EnCarga(j, n)

(* In a job that goes on, a transformation in Error was given to the other *)
(* copy of its block.                                                      *)
Repuesta(j, i) ==
  \E k \in Transf(j) : [nodo |-> tabla[k].nodo, blk |-> tabla[k].blk] = OtraCopia(tabla[i].nodo, tabla[i].blk)

Repuestas(j) ==
  SinVueltas(j) /\ Vivas(j) # {} => \A i \in Transf(j) : tabla[i].estado = "Error" => Repuesta(j, i)

(* While a job transforms, it weighs on a node that was not replaced what  *)
(* the node has to transform.                                              *)
Transforma(j) == Vivas(j) \cap Transf(j) # {}

Pesada(j) ==
  SinVueltas(j) /\ Transforma(j) =>
    \A n \in Nodos : (\A i \in TransfEn(j, n) : tabla[i].estado # "Error")
                     => cargas[n].porJob[j] = Cardinality(TransfEn(j, n))

CargaDe(j) == Justificada(j) /\ (tardios = {} => Repuestas(j) /\ Pesada(j))

(* The exact stages.  Of a job that goes on: a transformation that repeats *)
(* the keys of an earlier row is never answered for, a block has one       *)
(* transformation that is not in Error, and the local reduction of a node  *)
(* is ordered once, when nothing transforms there, over what finished.     *)

EnMarcha(j) == j \notin tardios /\ Vivas(j) # {}
Locales(j)  == {i \in DelJob(j) : tabla[i].etapa = "ReduccionLocal"}

Repetidas(j) ==
  \A i, k \in Transf(j) : /\ i < k /\ tabla[i].nodo = tabla[k].nodo /\ tabla[i].blk = tabla[k].blk
                          => tabla[k].estado = "EnProceso"

EnPie(j, b) == {i \in Transf(j) : tabla[i].estado # "Error" /\ BloqueDe(tabla[i].nodo, tabla[i].blk) = b}

UnaPorBloque(j) == \A b \in Bloques : EnPie(j, b) # {} /\ \A i, k \in EnPie(j, b) : i = k

Cerradas(j) ==
  \A r \in Locales(j), i \in Transf(j) : tabla[i].nodo = tabla[r].nodo => tabla[i].estado # "EnProceso"

UnaLocal(j) == \A r, q \in Locales(j) : tabla[r].nodo = tabla[q].nodo => r = q

Juntan(j) ==
  \A r \in Locales(j), i \in Transf(j) :
    i \in tabla[r].entradas <=> tabla[i].nodo = tabla[r].nodo /\ tabla[i].estado = "FinalizadoOK"

Ordenadas(j) ==
  \A i \in Transf(j) : tabla[i].estado = "FinalizadoOK" =>
    \/ \E k \in Transf(j) : tabla[k].nodo = tabla[i].nodo /\ tabla[k].estado = "EnProceso"
    \/ \E r \in Locales(j) : tabla[r].nodo = tabla[i].nodo

Suyas(j) == \A r \in Locales(j) : tabla[r].entradas \subseteq DelJob(j)

Reducen(j) == Cerradas(j) /\ UnaLocal(j) /\ Juntan(j) /\ Suyas(j) /\ (SinVueltas(j) => Ordenadas(j))

Exacta(j) ==
  EnMarcha(j) => Repetidas(j) /\ (SinVueltas(j) => UnaPorBloque(j)) /\ (SinReplanTardio(j) => Reducen(j))

EntradaDe(g) ==
  (/\ tabla[g].etapa = "ReduccionGlobal" /\ tabla[g].job \notin tardios
   /\ SinReplanTardio(tabla[g].job)) => \A b \in Bloques : Cardinality(Aportes(g, b)) = 1

EInv == (\A j \in Jobs : Exacta(j)) /\ \A g \in Filas : EntradaDe(g)

CInv == (\A j \in Jobs : CargaDe(j)) /\ CargaCuadra /\ EInv

-----------------------------------------------------------------------------
(* A step of job j: rows of j may leave the state in process, and rows of  *)
(* j may be added.                                                         *)

Crece(j) ==
  /\ Filas \subseteq Filas'
  /\ \A i \in Filas : /\ MismaClave(tabla'[i], tabla[i])
                      /\ tabla'[i].estado = "EnProceso" => tabla[i].estado = "EnProceso"
                      /\ tabla[i].job # j => tabla'[i].estado = tabla[i].estado
  /\ \A i \in Filas' : i \in Filas \/ tabla'[i].job = j
  /\ tardios \subseteq tardios'

LEMMA CreceEs ==
  ASSUME TypeOK, TypeOK', NEW s, Extiende(s), tardios \subseteq tardios', NEW j, j = maestro[s].job
  PROVE  Crece(j)
<1>1. \A i \in Filas : tabla[i].job # j => tabla'[i].estado = tabla[i].estado
  BY FilasEs DEF Extiende, EsTabla
<1>2. \A i \in Filas' : i \in Filas \/ tabla'[i].job = j
  BY FilasTras DEF Nueva
<1> QED
  BY <1>1, <1>2, FilasTras DEF Crece

LEMMA SinVueltasAntes ==
  ASSUME NEW j, Crece(j), NEW x, SinVueltas(x)'
  PROVE  SinVueltas(x)
<1> SUFFICES ASSUME NEW i \in Filas, NEW k \in Filas,
                    tabla[i].job = x, tabla[k].job = x,
                    tabla[i].etapa = "Transformacion", tabla[k].etapa = "Transformacion",
                    tabla[i].nodo = tabla[k].nodo, tabla[i].blk = tabla[k].blk
             PROVE  i = k
  BY DEF SinVueltas
<1>1. i \in Filas' /\ k \in Filas' /\ MismaClave(tabla'[i], tabla[i]) /\ MismaClave(tabla'[k], tabla[k])
  BY DEF Crece
<1> QED
  BY <1>1 DEF SinVueltas, MismaClave

(* The sets of rows of a job, after a step of it. *)
LEMMA FilasDespues ==
  ASSUME NEW j, Crece(j), NEW x
  PROVE  /\ \A i \in Filas : /\ i \in DelJob(x) <=> i \in DelJob(x)'
                             /\ i \in Transf(x) <=> i \in Transf(x)'
                             /\ \A n : i \in TransfEn(x, n) <=> i \in TransfEn(x, n)'
                             /\ i \in Vivas(x)' => i \in Vivas(x)
         /\ x # j => /\ DelJob(x)' = DelJob(x) /\ Vivas(x)' = Vivas(x) /\ Transf(x)' = Transf(x)
                     /\ \A n : TransfEn(x, n)' = TransfEn(x, n)
<1>1. ASSUME NEW i \in Filas
      PROVE  /\ i \in Filas' /\ tabla'[i].job = tabla[i].job /\ tabla'[i].nodo = tabla[i].nodo
             /\ tabla'[i].blk = tabla[i].blk /\ tabla'[i].etapa = tabla[i].etapa
             /\ tabla'[i].estado = "EnProceso" => tabla[i].estado = "EnProceso"
             /\ tabla[i].job # j => tabla'[i].estado = tabla[i].estado
  BY DEF Crece, MismaClave
<1>2. \A i \in Filas : /\ i \in DelJob(x) <=> i \in DelJob(x)'
                       /\ i \in Transf(x) <=> i \in Transf(x)'
                       /\ \A n : i \in TransfEn(x, n) <=> i \in TransfEn(x, n)'
                       /\ i \in Vivas(x)' => i \in Vivas(x)
                       /\ x # j => (i \in Vivas(x)' <=> i \in Vivas(x))
  BY <1>1 DEF DelJob, Transf, TransfEn, Vivas
<1>3. x # j => \A i \in DelJob(x)' : i \in Filas
  BY DEF DelJob, Crece
<1>4. DelJob(x) \subseteq Filas /\ Transf(x) \subseteq DelJob(x) /\ Vivas(x) \subseteq DelJob(x)
      /\ \A n : TransfEn(x, n) \subseteq DelJob(x)
  BY DEF DelJob, Transf, TransfEn, Vivas
<1>5. Transf(x)' \subseteq DelJob(x)' /\ Vivas(x)' \subseteq DelJob(x)'
      /\ \A n : TransfEn(x, n)' \subseteq DelJob(x)'
  BY DEF DelJob, Transf, TransfEn, Vivas
<1>6. x # j => DelJob(x)' = DelJob(x) /\ Vivas(x)' = Vivas(x) /\ Transf(x)' = Transf(x)
  BY <1>2, <1>3, <1>4, <1>5
<1>7. x # j => \A n : TransfEn(x, n)' = TransfEn(x, n)
  BY <1>2, <1>3, <1>4, <1>5
<1> QED
  BY <1>2, <1>6, <1>7

(* What a row contributes to the load of its job does not change when no   *)
(* row of the job does.                                                    *)
Ajeno(x, j) == Crece(j) /\ x # j /\ \A n \in Nodos : cargas'[n].porJob[x] = cargas[n].porJob[x]

LEMMA CreceFila ==
  ASSUME NEW j, Crece(j), NEW i \in Filas
  PROVE  /\ i \in Filas' /\ tabla'[i].job = tabla[i].job /\ tabla'[i].nodo = tabla[i].nodo
         /\ tabla'[i].blk = tabla[i].blk /\ tabla'[i].etapa = tabla[i].etapa
         /\ tabla'[i].entradas = tabla[i].entradas
         /\ tabla'[i].estado = "EnProceso" => tabla[i].estado = "EnProceso"
         /\ tabla[i].job # j => tabla'[i].estado = tabla[i].estado
BY DEF Crece, MismaClave

LEMMA SubFilas ==
  ASSUME NEW x
  PROVE  /\ DelJob(x) \subseteq Filas /\ Vivas(x) \subseteq DelJob(x)
         /\ Transf(x) \subseteq DelJob(x) /\ \A n : TransfEn(x, n) \subseteq Transf(x)
BY SMTT(30) DEF DelJob, Vivas, Transf, TransfEn

(* A replaced transformation stays replaced. *)
LEMMA RepuestaQueda ==
  ASSUME NEW j, Crece(j), NEW x, NEW i \in Filas, Repuesta(x, i)
  PROVE  Repuesta(x, i)'
<1>1. PICK k \in Transf(x) :
        [nodo |-> tabla[k].nodo, blk |-> tabla[k].blk] = OtraCopia(tabla[i].nodo, tabla[i].blk)
  BY DEF Repuesta
<1>2. k \in Filas /\ k \in Transf(x)'
  BY SubFilas, FilasDespues
<1>3. /\ tabla'[k].nodo = tabla[k].nodo /\ tabla'[k].blk = tabla[k].blk
      /\ tabla'[i].nodo = tabla[i].nodo /\ tabla'[i].blk = tabla[i].blk
  BY <1>2, CreceFila
<1>4. OtraCopia(tabla'[i].nodo, tabla'[i].blk) = OtraCopia(tabla[i].nodo, tabla[i].blk)
  BY <1>3
<1> QED
  BY <1>1, <1>2, <1>3, <1>4, ZenonT(60) DEF Repuesta, OtraCopia, BloqueDe, Bloques

LEMMA OtroJob ==
  ASSUME NEW j, NEW x, Ajeno(x, j), CargaDe(x)
  PROVE  CargaDe(x)'
<1>1. /\ Crece(j) /\ DelJob(x)' = DelJob(x) /\ Vivas(x)' = Vivas(x) /\ Transf(x)' = Transf(x)
      /\ \A n : TransfEn(x, n)' = TransfEn(x, n)
      /\ \A i \in DelJob(x) : i \in Filas /\ tabla[i].job # j
  <2>1. Crece(j) /\ x # j
    BY DEF Ajeno
  <2>2. \A i \in DelJob(x) : i \in Filas /\ tabla[i].job # j
    BY <2>1 DEF DelJob
  <2> QED
    BY <2>1, <2>2, FilasDespues
<1>2. \A i \in DelJob(x) : /\ tabla'[i].nodo = tabla[i].nodo /\ tabla'[i].etapa = tabla[i].etapa
                           /\ tabla'[i].estado = tabla[i].estado
  BY <1>1, CreceFila
<1>3. Justificada(x)'
  <2> SUFFICES ASSUME NEW n \in Nodos, cargas'[n].porJob[x] # 0 PROVE EnCarga(x, n)'
    BY DEF Justificada
  <2>1. EnCarga(x, n)
    BY DEF CargaDe, Justificada, Ajeno
  <2> QED
    BY <1>1, <1>2, <2>1, SubFilas DEF EnCarga
<1>4. ASSUME tardios' = {} PROVE Repuestas(x)' /\ Pesada(x)'
  <2>1. Repuestas(x) /\ Pesada(x)
    <3>1. tardios = {}
      BY <1>4 DEF Ajeno, Crece
    <3> QED
      BY <3>1 DEF CargaDe
  <2>2. SinVueltas(x)' => SinVueltas(x)
    BY <1>1, SinVueltasAntes
  <2>3. Repuestas(x)'
    <3> SUFFICES ASSUME SinVueltas(x)', Vivas(x)' # {}, NEW i \in Transf(x)', tabla'[i].estado = "Error"
                 PROVE  Repuesta(x, i)'
      BY DEF Repuestas
    <3>1. i \in Filas /\ Repuesta(x, i)
      BY <1>1, <1>2, <2>1, <2>2, SubFilas DEF Repuestas
    <3> QED
      BY <1>1, <3>1, RepuestaQueda
  <2>4. Pesada(x)'
    <3> SUFFICES ASSUME SinVueltas(x)', Transforma(x)', NEW n \in Nodos,
                        \A i \in TransfEn(x, n)' : tabla'[i].estado # "Error"
                 PROVE  cargas'[n].porJob[x] = Cardinality(TransfEn(x, n)')
      BY DEF Pesada
    <3>1. Transforma(x) /\ \A i \in TransfEn(x, n) : tabla[i].estado # "Error"
      BY <1>1, <1>2, SubFilas DEF Transforma
    <3>2. cargas[n].porJob[x] = Cardinality(TransfEn(x, n))
      BY <2>1, <2>2, <3>1 DEF Pesada
    <3> QED
      BY <1>1, <3>2 DEF Ajeno
  <2> QED
    BY <2>3, <2>4
<1> QED
  BY <1>3, <1>4 DEF CargaDe

(* A node of the job in process, or that gives its load back, goes on.     *)
LEMMA JustSigue ==
  ASSUME NEW j, Crece(j), Justificada(j), NEW n \in Nodos, Vivas(j)' # {},
         cargas'[n].porJob[j] = 0 \/ EnCarga(j, n)',
         \A i \in Filas : tabla[i].nodo # n => tabla'[i].estado = tabla[i].estado,
         \A m \in Nodos : m # n /\ cargas'[m].porJob[j] # 0 =>
                            cargas[m].porJob[j] # 0 \/ EnCarga(j, m)'
  PROVE  Justificada(j)'
<1> SUFFICES ASSUME NEW m \in Nodos, m # n, cargas'[m].porJob[j] # 0, cargas[m].porJob[j] # 0
             PROVE  EnCarga(j, m)'
  BY DEF Justificada
<1>1. PICK i \in Vivas(j) :
        \/ tabla[i].nodo = m
        \/ \E k \in DelJob(j) : tabla[k].etapa = "ReduccionLocal" /\ tabla[k].nodo = m
  BY DEF Justificada, EnCarga
<1>2. CASE tabla[i].nodo = m
  <2>1. i \in Filas /\ tabla[i].estado = "EnProceso" /\ i \in DelJob(j)
    BY SubFilas DEF Vivas
  <2>2. i \in DelJob(j)' /\ tabla'[i].estado = "EnProceso" /\ tabla'[i].nodo = m
    BY <1>2, <2>1, CreceFila, FilasDespues
  <2> QED
    BY <2>2 DEF EnCarga, Vivas
<1>3. ASSUME NEW k \in DelJob(j), tabla[k].etapa = "ReduccionLocal", tabla[k].nodo = m
      PROVE  EnCarga(j, m)'
  <2>1. k \in Filas
    BY SubFilas
  <2>2. k \in DelJob(j)' /\ tabla'[k].etapa = "ReduccionLocal" /\ tabla'[k].nodo = m
    BY <1>3, <2>1, CreceFila, FilasDespues
  <2> QED
    BY <2>2 DEF EnCarga
<1> QED
  BY <1>1, <1>2, <1>3

(* A step that adds no transformation, puts none in Error, and moves no    *)
(* load while the job still transforms.                                    *)
LEMMA TransfIgual ==
  ASSUME NEW j, Crece(j), CargaDe(j), tardios' = {},
         SinVueltas(j)' => /\ Vivas(j) # {}
                           /\ \A i \in Transf(j) : tabla'[i].estado = "Error" <=> tabla[i].estado = "Error",
         \A i \in Filas' : i \in Filas \/ tabla'[i].etapa # "Transformacion",
         Transforma(j)' => \A n \in Nodos : cargas'[n].porJob[j] = cargas[n].porJob[j]
  PROVE  Repuestas(j)' /\ Pesada(j)'
<1>1. Repuestas(j) /\ Pesada(j)
  <2>1. tardios = {}
    BY DEF Crece
  <2> QED
    BY <2>1 DEF CargaDe
<1>2. SinVueltas(j)' => SinVueltas(j)
  BY SinVueltasAntes
<1>3. Transf(j)' = Transf(j) /\ Transf(j) \subseteq Filas
  <2>1. \A i \in Transf(j)' : i \in Filas
    BY DEF Transf, DelJob
  <2>2. \A i \in Transf(j) : i \in Filas
    BY SubFilas
  <2> QED
    BY <2>1, <2>2, FilasDespues
<1>4. \A n : TransfEn(j, n)' = TransfEn(j, n) /\ TransfEn(j, n) \subseteq Transf(j)
  <2>1. \A i \in Transf(j) : tabla'[i].nodo = tabla[i].nodo
    BY <1>3, CreceFila
  <2> QED
    BY <1>3, <2>1 DEF TransfEn
<1>5. Repuestas(j)'
  <2> SUFFICES ASSUME SinVueltas(j)', NEW i \in Transf(j)', tabla'[i].estado = "Error"
               PROVE  Repuesta(j, i)'
    BY DEF Repuestas
  <2>1. i \in Filas /\ i \in Transf(j) /\ tabla[i].estado = "Error" /\ Vivas(j) # {}
    BY <1>3
  <2>2. Repuesta(j, i)
    BY <1>1, <1>2, <2>1 DEF Repuestas
  <2> QED
    BY <2>1, <2>2, RepuestaQueda
<1>6. Pesada(j)'
  <2> SUFFICES ASSUME SinVueltas(j)', Transforma(j)', NEW n \in Nodos,
                      \A i \in TransfEn(j, n)' : tabla'[i].estado # "Error"
               PROVE  cargas'[n].porJob[j] = Cardinality(TransfEn(j, n)')
    BY DEF Pesada
  <2>1. \A i \in TransfEn(j, n) : tabla[i].estado # "Error"
    BY <1>4
  <2>2. Transforma(j)
    <3>1. PICK i : i \in Vivas(j)' /\ i \in Transf(j)'
      BY DEF Transforma
    <3>2. i \in Vivas(j) /\ i \in Transf(j)
      BY <1>3, <3>1, FilasDespues
    <3> QED
      BY <3>2 DEF Transforma
  <2>3. cargas[n].porJob[j] = Cardinality(TransfEn(j, n))
    BY <1>1, <1>2, <2>1, <2>2 DEF Pesada
  <2> QED
    BY <1>4, <2>3
<1> QED
  BY <1>5, <1>6

-----------------------------------------------------------------------------
(* The exact stages through the steps that leave the first two alone.      *)

LEMMA SinReplanAntes ==
  ASSUME NEW j, Crece(j), NEW x, SinReplanTardio(x)'
  PROVE  SinReplanTardio(x)
<1> SUFFICES ASSUME NEW k \in Filas, NEW i \in Filas, k < i, tabla[k].job = x, tabla[i].job = x,
                    tabla[k].nodo = tabla[i].nodo, tabla[k].etapa = "ReduccionLocal",
                    tabla[i].etapa = "Transformacion"
             PROVE  FALSE
  BY DEF SinReplanTardio
<1>1. i \in Filas' /\ k \in Filas' /\ MismaClave(tabla'[i], tabla[i]) /\ MismaClave(tabla'[k], tabla[k])
  BY DEF Crece
<1> QED
  BY <1>1 DEF SinReplanTardio, MismaClave

(* What the rest of the step may not touch. *)
Intactas(x) ==
  /\ Transf(x)' = Transf(x) /\ Locales(x)' = Locales(x)
  /\ \A i \in Transf(x) : /\ tabla'[i].nodo = tabla[i].nodo /\ tabla'[i].blk = tabla[i].blk
                          /\ tabla'[i].estado = tabla[i].estado
  /\ \A r \in Locales(x) : tabla'[r].nodo = tabla[r].nodo /\ tabla'[r].entradas = tabla[r].entradas

LEMMA LocalesDespues ==
  ASSUME NEW j, Crece(j), NEW x
  PROVE  /\ Locales(x) \subseteq Filas /\ Locales(x)' \subseteq Filas'
         /\ \A i \in Filas : i \in Locales(x) <=> i \in Locales(x)'
<1>1. Locales(x) \subseteq Filas /\ Locales(x)' \subseteq Filas'
  BY DEF Locales, DelJob
<1>2. \A i \in Filas : i \in DelJob(x) <=> i \in DelJob(x)'
  BY FilasDespues
<1>3. \A i \in Filas : tabla'[i].etapa = tabla[i].etapa
  BY CreceFila
<1> QED
  BY <1>1, <1>2, <1>3 DEF Locales

LEMMA ExactaIgual ==
  ASSUME NEW j, Crece(j), NEW x, Intactas(x), EnMarcha(x)' => EnMarcha(x), Exacta(x)
  PROVE  Exacta(x)'
<1> SUFFICES ASSUME EnMarcha(x)'
             PROVE  Repetidas(x)' /\ (SinVueltas(x)' => UnaPorBloque(x)') /\ (SinReplanTardio(x)' => Reducen(x)')
  BY DEF Exacta
<1>1. Repetidas(x) /\ (SinVueltas(x) => UnaPorBloque(x)) /\ (SinReplanTardio(x) => Reducen(x))
  BY DEF Exacta
<1>2. (SinVueltas(x)' => SinVueltas(x)) /\ (SinReplanTardio(x)' => SinReplanTardio(x))
  BY SinVueltasAntes, SinReplanAntes
<1>3. Repetidas(x)'
  BY <1>1 DEF Repetidas, Intactas
<1>4. ASSUME UnaPorBloque(x) PROVE UnaPorBloque(x)'
  <2>1. \A b : EnPie(x, b)' = EnPie(x, b)
    <3>1. \A i \in Transf(x) : BloqueDe(tabla'[i].nodo, tabla'[i].blk) = BloqueDe(tabla[i].nodo, tabla[i].blk)
      BY DEF Intactas
    <3> QED
      BY <3>1 DEF EnPie, Intactas, BloqueDe, Bloques
  <2> QED
    BY <1>4, <2>1 DEF UnaPorBloque, Bloques
<1>5. ASSUME SinReplanTardio(x)' PROVE Reducen(x)'
  <2>1. Cerradas(x) /\ UnaLocal(x) /\ Juntan(x) /\ Suyas(x) /\ (SinVueltas(x) => Ordenadas(x))
    BY <1>1, <1>2, <1>5 DEF Reducen
  <2>2. Cerradas(x)'
    BY <2>1 DEF Cerradas, Intactas
  <2>3. UnaLocal(x)'
    BY <2>1 DEF UnaLocal, Intactas
  <2>4. Juntan(x)'
    BY <2>1 DEF Juntan, Intactas
  <2>5. Ordenadas(x) => Ordenadas(x)'
    BY DEF Ordenadas, Intactas
  <2>6. Suyas(x)'
    <3>1. \A i \in DelJob(x) : i \in DelJob(x)'
      BY SubFilas, FilasDespues
    <3> QED
      BY <2>1, <3>1 DEF Suyas, Intactas
  <2> QED
    BY <1>2, <2>1, <2>2, <2>3, <2>4, <2>5, <2>6 DEF Reducen
<1> QED
  BY <1>1, <1>2, <1>3, <1>4, <1>5

(* Another job. *)
LEMMA OtraExacta ==
  ASSUME NEW j, Crece(j), NEW x, x # j, Exacta(x)
  PROVE  Exacta(x)'
<1>1. /\ DelJob(x)' = DelJob(x) /\ Vivas(x)' = Vivas(x) /\ Transf(x)' = Transf(x)
      /\ \A i \in DelJob(x) : i \in Filas /\ tabla[i].job = x
  <2>1. \A i \in DelJob(x) : i \in Filas /\ tabla[i].job = x
    BY DEF DelJob
  <2> QED
    BY <2>1, FilasDespues
<1>2. \A i \in DelJob(x) : /\ tabla'[i].nodo = tabla[i].nodo /\ tabla'[i].etapa = tabla[i].etapa
                           /\ tabla'[i].blk = tabla[i].blk /\ tabla'[i].entradas = tabla[i].entradas
                           /\ tabla'[i].estado = tabla[i].estado
  BY <1>1, CreceFila
<1>3. Locales(x)' = Locales(x)
  BY <1>1, <1>2 DEF Locales
<1>4. Intactas(x)
  BY <1>1, <1>2, <1>3 DEF Intactas, Transf, Locales
<1>5. EnMarcha(x)' => EnMarcha(x)
  BY <1>1 DEF EnMarcha, Crece
<1> QED
  BY <1>4, <1>5, ExactaIgual

(* The job of the step, when no row of its first two stages comes and no   *)
(* transformation changes its state.                                       *)
LEMMA MismaExacta ==
  ASSUME NEW j, Crece(j), EnMarcha(j)' => EnMarcha(j), Exacta(j),
         EnMarcha(j)' => \A i \in Transf(j) : tabla'[i].estado = tabla[i].estado,
         \A i \in Filas' : i \in Filas \/ tabla'[i].etapa \notin {"Transformacion", "ReduccionLocal"}
  PROVE  Exacta(j)'
<1> SUFFICES ASSUME EnMarcha(j)' PROVE Exacta(j)'
  BY DEF Exacta
<1>1. Transf(j) \subseteq Filas /\ Locales(j) \subseteq Filas
  BY SubFilas, LocalesDespues
<1>2. Transf(j)' \subseteq Filas /\ Locales(j)' \subseteq Filas
  BY DEF Transf, Locales, DelJob
<1>3. Transf(j)' = Transf(j) /\ Locales(j)' = Locales(j)
  <2>1. \A i \in Filas : i \in Transf(j) <=> i \in Transf(j)'
    BY FilasDespues
  <2>2. \A i \in Filas : i \in Locales(j) <=> i \in Locales(j)'
    BY LocalesDespues
  <2> QED
    BY <1>1, <1>2, <2>1, <2>2
<1>4. Intactas(j)
  BY <1>1, <1>3, CreceFila DEF Intactas
<1> QED
  BY <1>4, ExactaIgual

(* The conditions of Aportes on a pair of rows. *)
Aporta(z, b) ==
  /\ z[2] \in tabla[z[1]].entradas /\ tabla[z[2]].etapa = "Transformacion"
  /\ BloqueDe(tabla[z[2]].nodo, tabla[z[2]].blk) = b

(* A global reduction that is in the table keeps what it was given. *)
LEMMA EntradaQueda ==
  ASSUME TypeOK, NEW j, Crece(j), NEW g \in Filas, EntradaDe(g)
  PROVE  EntradaDe(g)'
<1>1. /\ tabla'[g].etapa = tabla[g].etapa /\ tabla'[g].job = tabla[g].job
      /\ tabla'[g].entradas = tabla[g].entradas /\ tabla[g].entradas \subseteq Filas
  BY CreceFila, FilasEs DEF EsTabla, TipoFila
<1>2. ASSUME NEW b PROVE Aportes(g, b)' = Aportes(g, b)
  <2>1. ASSUME NEW r \in Filas
        PROVE  tabla'[r].entradas = tabla[r].entradas /\ tabla[r].entradas \subseteq Filas /\ r \in Filas'
    BY CreceFila, FilasEs DEF EsTabla, TipoFila
  <2>2. ASSUME NEW i \in Filas
        PROVE  /\ tabla'[i].etapa = tabla[i].etapa /\ i \in Filas'
               /\ BloqueDe(tabla'[i].nodo, tabla'[i].blk) = BloqueDe(tabla[i].nodo, tabla[i].blk)
    BY CreceFila
  <2>3. PICK E : E = tabla[g].entradas
    OBVIOUS
  <2>4. /\ Aportes(g, b) = {z \in E \X Filas : Aporta(z, b)}
        /\ Aportes(g, b)' = {z \in E \X Filas' : Aporta(z, b)'}
    BY <1>1, <2>3 DEF Aportes, Aporta, BloqueDe, Bloques
  <2>5. ASSUME NEW r \in E, NEW i \in Filas', NEW z, z = <<r, i>>
        PROVE  Aporta(z, b)' <=> i \in Filas /\ Aporta(z, b)
    <3>1. r \in Filas /\ z[1] = r /\ z[2] = i
      BY <1>1, <2>3, <2>5
    <3>2. tabla'[r].entradas = tabla[r].entradas /\ tabla[r].entradas \subseteq Filas
      BY <2>1, <3>1
    <3>3. CASE i \notin Filas
      BY <3>1, <3>2, <3>3 DEF Aporta
    <3>4. CASE i \in Filas
      <4>1. /\ tabla'[i].etapa = tabla[i].etapa
            /\ BloqueDe(tabla'[i].nodo, tabla'[i].blk) = BloqueDe(tabla[i].nodo, tabla[i].blk)
        BY <2>2, <3>4
      <4>2. Aporta(z, b)' <=> /\ i \in tabla'[r].entradas /\ tabla'[i].etapa = "Transformacion"
                              /\ BloqueDe(tabla'[i].nodo, tabla'[i].blk) = b
        BY <3>1 DEF Aporta, BloqueDe, Bloques
      <4>3. Aporta(z, b) <=> /\ i \in tabla[r].entradas /\ tabla[i].etapa = "Transformacion"
                             /\ BloqueDe(tabla[i].nodo, tabla[i].blk) = b
        BY <3>1 DEF Aporta
      <4> QED
        BY <3>2, <3>4, <4>1, <4>2, <4>3
    <3> QED
      BY <3>3, <3>4
  <2>6. Filas \subseteq Filas'
    BY <2>2
  <2>7. \A r \in E, i \in Filas' : <<r, i>> \in Aportes(g, b)' <=> <<r, i>> \in Aportes(g, b)
    BY <2>4, <2>5, <2>6
  <2>8. Aportes(g, b)' \subseteq E \X Filas' /\ Aportes(g, b) \subseteq E \X Filas'
    BY <2>4, <2>6
  <2> QED
    BY <2>7, <2>8
<1> SUFFICES ASSUME tabla[g].etapa = "ReduccionGlobal", tabla[g].job \notin tardios', SinReplanTardio(tabla[g].job)',
                    NEW b \in Bloques
             PROVE  Cardinality(Aportes(g, b)') = 1
  BY <1>1 DEF EntradaDe, Bloques
<1>3. PICK x : x = tabla[g].job
  OBVIOUS
<1>4. SinReplanTardio(x)'
  BY <1>1, <1>3 DEF SinReplanTardio
<1>5. SinReplanTardio(x) /\ x \notin tardios
  BY <1>3, <1>4, SinReplanAntes DEF Crece
<1>6. Cardinality(Aportes(g, b)) = 1
  BY <1>3, <1>5 DEF EntradaDe
<1> QED
  BY <1>2, <1>6

SinMasEntradas == \A g \in Filas' : g \in Filas \/ tabla'[g].etapa # "ReduccionGlobal" \/ EntradaDe(g)'

LEMMA EInvDe ==
  ASSUME TypeOK, EInv, NEW j, Crece(j), Exacta(j)', SinMasEntradas
  PROVE  EInv'
<1>1. ASSUME NEW x \in Jobs PROVE Exacta(x)'
  <2>1. CASE x = j
    BY <2>1
  <2>2. CASE x # j
    BY <2>2, OtraExacta DEF EInv
  <2> QED
    BY <2>1, <2>2
<1>2. ASSUME NEW g \in Filas' PROVE EntradaDe(g)'
  <2>1. CASE g \in Filas
    BY <2>1, EntradaQueda DEF EInv
  <2>2. CASE tabla'[g].etapa # "ReduccionGlobal"
    BY <2>2 DEF EntradaDe
  <2> QED
    BY <1>2, <2>1, <2>2 DEF SinMasEntradas
<1> QED
  BY <1>1, <1>2 DEF EInv, Jobs

LEMMA EInvQuieto ==
  ASSUME TypeOK, EInv, UNCHANGED tabla, tardios \subseteq tardios'
  PROVE  EInv'
<1>1. Filas' = Filas
  BY DEF Filas
<1>2. Crece(0)
  BY <1>1 DEF Crece, MismaClave
<1>3. ASSUME NEW x \in Jobs PROVE Exacta(x)'
  <2>1. x # 0
    BY JobsAssumption DEF Jobs
  <2> QED
    BY <1>2, <2>1, OtraExacta DEF EInv
<1>4. ASSUME NEW g \in Filas' PROVE EntradaDe(g)'
  BY <1>1, <1>2, EntradaQueda DEF EInv
<1> QED
  BY <1>3, <1>4 DEF EInv, Jobs

-----------------------------------------------------------------------------
(* The load of a node and the sum of the loads of the jobs change alike.   *)

Cuadra(c, n) == c[n].actual = Suma(c[n].porJob, Jobs)

LEMMA CuadraEs ==
  CargaCuadra <=> (tardios = {} /\ (\A j \in Jobs : SinVueltas(j)) => \A n \in Nodos : Cuadra(cargas, n))
BY DEF CargaCuadra, Cuadra, Suma, MapThenSumSet, MapThenFoldSet

CambioIgual(n, j) ==
  /\ \A x \in Jobs : x # j => cargas'[n].porJob[x] = cargas[n].porJob[x]
  /\ cargas'[n].actual = cargas[n].actual + (cargas'[n].porJob[j] - cargas[n].porJob[j])

LEMMA CuadraNodo ==
  ASSUME TypeOK, TypeOK', NEW n \in Nodos, NEW j \in Jobs, CambioIgual(n, j), Cuadra(cargas, n)
  PROVE  Cuadra(cargas', n)
<1>1. PICK f, g, a, b : f = cargas[n].porJob /\ g = cargas'[n].porJob
                        /\ a = cargas[n].actual /\ b = cargas'[n].actual
  OBVIOUS
<1>2. f \in [Jobs -> Nat] /\ g \in [Jobs -> Nat] /\ a \in Int /\ b \in Int
  BY <1>1 DEF TypeOK, TipoCarga
<1>3. (\A x \in Jobs : x # j => g[x] = f[x]) /\ b = a + (g[j] - f[j])
  BY <1>1 DEF CambioIgual
<1>4. \A x \in Jobs : f[x] \in Int /\ g[x] \in Int /\ (x # j => f[x] = g[x])
  BY <1>2, <1>3
<1>5. IsFiniteSet(Jobs)
  BY FS_Interval, JobsAssumption DEF Jobs
<1>6. Suma(g, Jobs) = Suma(f, Jobs) + (g[j] - f[j]) /\ Suma(f, Jobs) \in Int
  BY <1>4, <1>5, SumaCambia
<1>7. a = Suma(f, Jobs)
  BY <1>1 DEF Cuadra
<1>8. b = Suma(g, Jobs)
  BY <1>3, <1>6, <1>7
<1> QED
  BY <1>1, <1>8 DEF Cuadra

LEMMA CuadraTras ==
  ASSUME TypeOK, TypeOK', NEW j \in Jobs, Crece(j), CargaCuadra,
         tardios' = {} /\ SinVueltas(j)' => \A n \in Nodos : CambioIgual(n, j)
  PROVE  CargaCuadra'
<1>1. \A x \in Jobs : SinVueltas(x)' => SinVueltas(x)
  BY SinVueltasAntes
<1>2. tardios' = {} => tardios = {}
  BY DEF Crece
<1> SUFFICES ASSUME tardios' = {}, \A x \in Jobs : SinVueltas(x)', NEW n \in Nodos
             PROVE  Cuadra(cargas', n)
  BY DEF CargaCuadra, Cuadra, Suma, MapThenSumSet, MapThenFoldSet
<1>3. Cuadra(cargas, n)
  BY <1>1, <1>2, CuadraEs
<1> QED
  BY <1>3, CuadraNodo

(* The other jobs weigh what they did. *)
Aparte(j) == \A x \in Jobs, n \in Nodos : x # j => cargas'[n].porJob[x] = cargas[n].porJob[x]

LEMMA CInvDe ==
  ASSUME TypeOK, TypeOK', CInv, NEW j \in Jobs, Crece(j), Aparte(j), CargaDe(j)', Exacta(j)', SinMasEntradas,
         tardios' = {} /\ SinVueltas(j)' => \A n \in Nodos : CambioIgual(n, j)
  PROVE  CInv'
<1>1. ASSUME NEW x \in Jobs PROVE CargaDe(x)'
  <2>1. CASE x = j
    BY <2>1
  <2>2. CASE x # j
    <3>1. Ajeno(x, j) /\ CargaDe(x)
      BY <2>2 DEF Ajeno, Aparte, CInv
    <3> QED
      BY <3>1, OtroJob
  <2> QED
    BY <2>1, <2>2
<1>2. CargaCuadra'
  BY CuadraTras DEF CInv
<1>3. EInv'
  BY EInvDe DEF CInv
<1> QED
  BY <1>1, <1>2, <1>3 DEF CInv

-----------------------------------------------------------------------------
(* What each step does to the loads. *)

LEMMA QuitarNodos ==
  ASSUME TypeOK, NEW j \in Jobs, NEW ns, cargas' = Quitar(cargas, ns, j)
  PROVE  /\ Aparte(j) /\ \A n \in Nodos : CambioIgual(n, j)
         /\ \A n \in Nodos : /\ n \in ns => cargas'[n].porJob[j] = 0
                             /\ n \notin ns => cargas'[n] = cargas[n]
<1>1. ASSUME NEW n \in Nodos
      PROVE  /\ CambioIgual(n, j)
             /\ n \in ns => cargas'[n].porJob[j] = 0
             /\ n \notin ns => cargas'[n] = cargas[n]
             /\ \A x \in Jobs : x # j => cargas'[n].porJob[x] = cargas[n].porJob[x]
  <2>1. PICK a, f, g : a = cargas[n].actual /\ f = cargas[n].porJob /\ g = [f EXCEPT ![j] = 0]
    OBVIOUS
  <2>2. a \in Int /\ f \in [Jobs -> Nat]
    BY <2>1 DEF TypeOK, TipoCarga
  <2>3. f[j] \in Nat /\ g[j] = 0 /\ \A x \in Jobs : x # j => g[x] = f[x]
    BY ONLY <2>1, <2>2, j \in Jobs
  <2>4. CASE n \in ns
    <3>1. cargas'[n] = [actual |-> a - f[j], porJob |-> g]
      BY <2>1, <2>4 DEF Quitar
    <3>2. cargas'[n].actual = a - f[j] /\ cargas'[n].porJob = g
      BY <3>1
    <3>3. a - f[j] = a + (0 - f[j])
      BY ONLY <2>2, <2>3
    <3> QED
      BY <2>1, <2>3, <2>4, <3>2, <3>3 DEF CambioIgual
  <2>5. CASE n \notin ns
    <3>1. cargas'[n] = cargas[n]
      BY <2>5 DEF Quitar
    <3>2. a = a + (f[j] - f[j])
      BY ONLY <2>2, <2>3
    <3> QED
      BY <2>1, <2>5, <3>1, <3>2 DEF CambioIgual
  <2> QED
    BY <2>4, <2>5
<1> QED
  BY <1>1 DEF Aparte

LEMMA CargasQuietas ==
  ASSUME TypeOK, NEW j \in Jobs, cargas' = cargas
  PROVE  Aparte(j) /\ \A n \in Nodos : CambioIgual(n, j)
<1>1. ASSUME NEW n \in Nodos PROVE CambioIgual(n, j)
  <2>1. PICK a, f : a = cargas[n].actual /\ f = cargas[n].porJob
    OBVIOUS
  <2>2. a \in Int /\ f \in [Jobs -> Nat]
    BY <2>1 DEF TypeOK, TipoCarga
  <2>3. f[j] \in Nat
    BY ONLY <2>2, j \in Jobs
  <2>4. a = a + (f[j] - f[j])
    BY ONLY <2>2, <2>3
  <2> QED
    BY <2>1, <2>4 DEF CambioIgual
<1> QED
  BY <1>1 DEF Aparte

(* The rows a handler looks for by descriptor and job. *)
LEMMA DeJobEs ==
  ASSUME IInv, NEW s \in Sockets, maestro[s].est # "libre", NEW j, j = maestro[s].job,
         NEW t \in Seq(TipoFila(Len(tabla))), NEW D, NEW e, Retocada(tabla, t, D, e)
  PROVE  DeJob(t, s, j) = DelJob(j) /\ DeJob(tabla, s, j) = DelJob(j)
<1>1. \A i \in Filas : tabla[i].job = j => tabla[i].master = s
  BY DEF IInv, Numerados
<1>2. DOMAIN t = Filas /\ \A i \in Filas : t[i].job = tabla[i].job /\ t[i].master = tabla[i].master
                                          /\ t[i].nodo = tabla[i].nodo
  BY RetocadaEs, FilasEs DEF IInv, EsTabla, Retocada, MismaClave
<1> QED
  BY <1>1, <1>2 DEF DeJob, DelJob, Filas

LEMMA TodoQuitado ==
  ASSUME IInv, IInv', CInv, NEW s \in Sockets, maestro[s].est # "libre", NEW j, j = maestro[s].job,
         Crece(j), NEW t \in Seq(TipoFila(Len(tabla))), NEW D, D \subseteq DeJob(tabla, s, j),
         Retocada(tabla, t, D, "Error"), EliminarEstadosMultiples(s, j, t, cargas)
  PROVE  CInv'
<1>1. TypeOK /\ TypeOK' /\ j \in Jobs
  BY DEF IInv, Numerados
<1>2. DeJob(t, s, j) = DelJob(j) /\ DeJob(tabla, s, j) = DelJob(j)
  BY DeJobEs
<1>3. PICK ns : ns = {t[i].nodo : i \in DelJob(j)}
  OBVIOUS
<1>4. cargas' = Quitar(cargas, ns, j)
  BY <1>2, <1>3 DEF EliminarEstadosMultiples
<1>5. /\ Aparte(j) /\ \A n \in Nodos : CambioIgual(n, j)
      /\ \A n \in Nodos : /\ n \in ns => cargas'[n].porJob[j] = 0
                          /\ n \notin ns => cargas'[n] = cargas[n]
  BY <1>1, <1>4, QuitarNodos
<1>6. \A i \in DelJob(j) : tabla[i].nodo \in ns
  <2>1. \A i \in Filas : t[i].nodo = tabla[i].nodo
    BY <1>1, FilasEs DEF EsTabla, Retocada, MismaClave
  <2> QED
    BY <1>3, <2>1 DEF DelJob
<1>7. Vivas(j)' = {} /\ Filas' = Filas
  <2>1. Retocada(tabla, tabla', DelJob(j), "Error")
    BY <1>1, <1>2, EliminarEs
  <2>2. Filas' = Filas
    BY <1>1, <2>1, FilasEs, FilasEsTras DEF EsTabla, Retocada
  <2>3. \A i \in DelJob(j) : tabla'[i].estado = "Error"
    BY <1>1, <2>1, FilasEs DEF EsTabla, Retocada, DelJob
  <2> SUFFICES ASSUME NEW i \in Vivas(j)' PROVE FALSE
    BY <2>2
  <2>4. i \in DelJob(j)' /\ tabla'[i].estado = "EnProceso" /\ i \in Filas
    BY <2>2 DEF Vivas, DelJob
  <2>5. i \in DelJob(j)
    BY <2>4, FilasDespues
  <2> QED
    BY <2>3, <2>4, <2>5
<1>8. Justificada(j)'
  <2> SUFFICES ASSUME NEW n \in Nodos PROVE cargas'[n].porJob[j] = 0
    BY DEF Justificada
  <2>1. CASE n \in ns
    BY <1>5, <2>1
  <2>2. CASE n \notin ns
    <3>1. ~EnCarga(j, n)
      BY <1>6, <2>2, SubFilas DEF EnCarga
    <3>2. cargas[n].porJob[j] = 0
      BY <1>1, <3>1 DEF CInv, CargaDe, Justificada
    <3> QED
      BY <1>5, <2>2, <3>2
  <2> QED
    BY <2>1, <2>2
<1>9. Repuestas(j)' /\ Pesada(j)'
  BY <1>7 DEF Repuestas, Pesada, Transforma
<1>10. CargaDe(j)'
  BY <1>8, <1>9 DEF CargaDe
<1>11. Exacta(j)' /\ SinMasEntradas
  BY <1>7 DEF Exacta, EnMarcha, SinMasEntradas
<1> QED
  BY <1>1, <1>5, <1>10, <1>11, CInvDe

LEMMA CInvQuieto ==
  ASSUME IInv, CInv, UNCHANGED <<tabla, cargas>>, tardios \subseteq tardios'
  PROVE  CInv'
<1>1. Filas' = Filas
  BY DEF Filas
<1>2. Crece(0)
  BY <1>1 DEF Crece, MismaClave
<1>3. ASSUME NEW x \in Jobs PROVE CargaDe(x)'
  <2>1. x # 0
    BY JobsAssumption DEF Jobs
  <2>2. Ajeno(x, 0) /\ CargaDe(x)
    BY <1>2, <2>1 DEF Ajeno, CInv
  <2> QED
    BY <2>2, OtroJob
<1>4. CargaCuadra'
  <2>1. CargaCuadra /\ (tardios' = {} => tardios = {})
    BY DEF CInv
  <2>2. \A x \in Jobs : SinVueltas(x)' => SinVueltas(x)
    BY <1>2, SinVueltasAntes
  <2> SUFFICES ASSUME tardios' = {}, \A x \in Jobs : SinVueltas(x)', NEW n \in Nodos
               PROVE  Cuadra(cargas', n)
    BY DEF CargaCuadra, Cuadra, Suma, MapThenSumSet, MapThenFoldSet
  <2>3. Cuadra(cargas, n)
    BY <2>1, <2>2, CuadraEs
  <2> QED
    BY <2>3 DEF Cuadra
<1>5. EInv'
  BY EInvQuieto DEF CInv, IInv
<1> QED
  BY <1>3, <1>4, <1>5 DEF CInv

LEMMA CreceDeRespuesta ==
  ASSUME IInv, IInv', NEW s \in Sockets, NEW e, NEW r, Respuesta(s, e, r), Extiende(s),
         NEW j, j = maestro[s].job
  PROVE  Crece(j) /\ j \in Jobs /\ maestro[s].est # "libre" /\ FilaResp(s).job = j /\ TypeOK /\ TypeOK'
<1>1. PICK f : f = Head(aYama[s]).fila
  OBVIOUS
<1>2. FilaResp(s) = tabla[f] /\ Propia(f, s) /\ tardios \subseteq tardios' /\ tabla[f] \in TipoFila(Len(tabla))
  BY <1>1, RespuestaEs
<1>3. TypeOK /\ TypeOK'
  BY DEF IInv
<1>4. Crece(j)
  BY <1>2, <1>3, CreceEs
<1> QED
  BY <1>2, <1>3, <1>4 DEF Propia, EnYama, TipoFila

LEMMA CargaAbortos ==
  ASSUME IInv, IInv', CInv, NEW s \in Sockets,
         TransformacionCorrupta(s) \/ ReplanificacionSinArchivo(s) \/ ReduccionLocalFallida(s)
  PROVE  CInv'
<1>1. PICK e, r : /\ Respuesta(s, e, r)
                  /\ EliminarEstadosMultiples(s, FilaResp(s).job, tabla, cargas)
  BY DEF TransformacionCorrupta, ReplanificacionSinArchivo, ReduccionLocalFallida, AbortarJob
<1>2. Extiende(s)
  BY PasoAbortos
<1>3. PICK j, t, D : j = maestro[s].job /\ t = tabla /\ D = {}
  OBVIOUS
<1>4. Crece(j) /\ maestro[s].est # "libre" /\ FilaResp(s).job = j /\ TypeOK
  BY <1>1, <1>2, <1>3, CreceDeRespuesta
<1>5. t \in Seq(TipoFila(Len(tabla))) /\ D \subseteq DeJob(tabla, s, j) /\ Retocada(tabla, t, D, "Error")
  BY <1>3, <1>4, SinRetoque
<1>6. EliminarEstadosMultiples(s, j, t, cargas)
  BY <1>1, <1>3, <1>4
<1> QED
  BY <1>3, <1>4, <1>5, <1>6, TodoQuitado

LEMMA CargaIniciarSinArchivo ==
  ASSUME IInv, IInv', CInv, NEW s \in Sockets, IniciarSinArchivo(s)
  PROVE  CInv'
<1>1. /\ maestro[s].est = "pide" /\ tardios' = tardios
      /\ EliminarEstadosMultiples(s, maestro[s].job, tabla, cargas)
  BY DEF IniciarSinArchivo, AbortarJob
<1>2. Extiende(s)
  BY PasoIniciarSinArchivo
<1>3. PICK j, t, D : j = maestro[s].job /\ t = tabla /\ D = {}
  OBVIOUS
<1>4. Crece(j) /\ maestro[s].est # "libre" /\ TypeOK
  BY <1>1, <1>2, <1>3, CreceEs DEF IInv
<1>5. t \in Seq(TipoFila(Len(tabla))) /\ D \subseteq DeJob(tabla, s, j) /\ Retocada(tabla, t, D, "Error")
  BY <1>3, <1>4, SinRetoque
<1>6. EliminarEstadosMultiples(s, j, t, cargas)
  BY <1>1, <1>3
<1> QED
  BY <1>3, <1>4, <1>5, <1>6, TodoQuitado

LEMMA CargaDesconexion ==
  ASSUME IInv, IInv', CInv, NEW s \in Sockets, Desconexion(s)
  PROVE  CInv'
<1>1. /\ maestro[s].est = "saliendo" /\ tardios' = tardios
      /\ IF FilasMaestroCaido(s) = {} THEN UNCHANGED <<tabla, cargas>>
         ELSE EliminarEstadosMultiples(s, tabla[Min(FilasMaestroCaido(s))].job, tabla, cargas)
  BY DEF Desconexion
<1>2. PICK j, t, D, m, V : j = maestro[s].job /\ t = tabla /\ D = {} /\ V = FilasMaestroCaido(s) /\ m = Min(V)
  OBVIOUS
<1>3. CASE V = {}
  BY <1>1, <1>2, <1>3, CInvQuieto
<1>4. CASE V # {}
  <2>1. TypeOK /\ TypeOK' /\ Filas = 1 .. Len(tabla) /\ Len(tabla) \in Nat
    BY FilasEs DEF IInv, EsTabla
  <2>2. \A i \in V : i \in Filas /\ tabla[i].job = j
    BY <1>2 DEF FilasMaestroCaido, Filas, IInv, Limpieza, Propia
  <2>3. m \in V
    <3>1. V \subseteq Nat
      BY <2>1, <2>2
    <3> QED
      BY <1>2, <1>4, <3>1, HayMinimo
  <2>4. EliminarEstadosMultiples(s, j, t, cargas)
    BY <1>1, <1>2, <1>4, <2>2, <2>3
  <2>5. t \in Seq(TipoFila(Len(tabla))) /\ D \subseteq DeJob(tabla, s, j) /\ Retocada(tabla, t, D, "Error")
    BY <1>2, <2>1, SinRetoque
  <2>6. Crece(j)
    <3>1. Limpia(s) /\ Filas' = Filas
      BY <2>1, DesconexionEs, FilasEsTras DEF Limpia, EsTabla
    <3>2. \A i \in Filas : tabla[i].job # j => tabla'[i].estado = tabla[i].estado
      <4>1. DeJob(tabla, s, j) = DelJob(j)
        BY <1>1, <1>2, <2>5, DeJobEs
      <4>2. tabla' = [i \in DOMAIN t |-> IF i \in DeJob(t, s, j) THEN [t[i] EXCEPT !.estado = "Error"] ELSE t[i]]
        BY <2>4 DEF EliminarEstadosMultiples
      <4> QED
        BY <1>2, <4>1, <4>2 DEF DelJob, Filas
    <3>3. \A i \in Filas : tabla'[i].estado = "EnProceso" => tabla[i].estado = "EnProceso"
      BY <3>1 DEF Limpia
    <3> QED
      BY <1>1, <3>1, <3>2, <3>3 DEF Crece, Limpia
  <2> QED
    BY <1>1, <1>2, <2>4, <2>5, <2>6, TodoQuitado
<1> QED
  BY <1>3, <1>4

(* A job whose answers were not late had a row in process. *)
LEMMA RespuestaViva ==
  ASSUME NEW s, NEW e, NEW r, Respuesta(s, e, r), NEW f, f = Head(aYama[s]).fila, tabla[f].job \notin tardios'
  PROVE  tabla[f].estado = "EnProceso"
BY DEF Respuesta, FilaResp

LEMMA MarchaAntes ==
  ASSUME IInv, NEW s \in Sockets, NEW e, NEW r, Respuesta(s, e, r), NEW j, j = maestro[s].job, j \notin tardios'
  PROVE  /\ EnMarcha(j)
         /\ \A f : f = Head(aYama[s]).fila => f \in Vivas(j)
<1>1. PICK f : f = Head(aYama[s]).fila
  OBVIOUS
<1>2. f \in Filas /\ Propia(f, s) /\ tardios \subseteq tardios'
  BY <1>1, RespuestaEs
<1>3. tabla[f].job = j /\ tabla[f].estado = "EnProceso"
  BY <1>1, <1>2, RespuestaViva DEF Propia
<1>4. f \in Vivas(j)
  BY <1>2, <1>3 DEF Vivas, DelJob
<1> QED
  BY <1>1, <1>2, <1>4 DEF EnMarcha

(* Past the local reductions nothing of the job transforms any more. *)
LEMMA NadaTransforma ==
  ASSUME IInv, NEW s \in Sockets, NEW e, NEW r, Respuesta(s, e, r),
         e = "ReduccionGlobal" \/ e = "AlmacenamientoFinal", NEW j, j = maestro[s].job, j \notin tardios'
  PROVE  ~Transforma(j) /\ Vivas(j) # {}
<1>1. PICK f : f = Head(aYama[s]).fila
  OBVIOUS
<1>2. f \in Filas /\ Propia(f, s) /\ tabla[f].etapa = e /\ tardios \subseteq tardios'
      /\ tabla[f].estado = "EnProceso"
  BY <1>1, RespuestaEs, RespuestaViva DEF Propia
<1>3. tabla[f].job = j /\ j \notin tardios /\ "Transformacion" \in Previas(tabla[f])
  BY <1>2 DEF Propia, Previas
<1>4. f \in Vivas(j)
  BY <1>2, <1>3 DEF Vivas, DelJob
<1>5. ASSUME NEW i \in Vivas(j), i \in Transf(j) PROVE FALSE
  <2>1. i \in Filas /\ tabla[i].job = j /\ tabla[i].estado = "EnProceso" /\ tabla[i].etapa = "Transformacion"
    BY <1>5 DEF Vivas, Transf, DelJob
  <2> QED
    BY <1>2, <1>3, <2>1 DEF IInv, EnEtapas
<1> QED
  BY <1>4, <1>5 DEF Transforma

(* What Retocada says of the rows of the job. *)
LEMMA SinNuevas ==
  ASSUME TypeOK, TypeOK', NEW u, u = tabla', NEW D, NEW x, Retocada(tabla, u, D, x)
  PROVE  Filas' = Filas /\ \A i \in Filas : tabla'[i].estado = IF i \in D THEN x ELSE tabla[i].estado
BY FilasEs, FilasEsTras DEF EsTabla, Retocada

LEMMA CargaFinaliza ==
  ASSUME IInv, IInv', CInv, NEW s \in Sockets, NEW e, NEW r, Respuesta(s, e, r), Extiende(s),
         e = "ReduccionGlobal" \/ e = "AlmacenamientoFinal",
         NEW x \in Estados, NEW j, j = maestro[s].job, FinalizarEnTabla(s, j, x)
  PROVE  CInv'
<1>1. Crece(j) /\ j \in Jobs /\ maestro[s].est # "libre" /\ TypeOK /\ TypeOK'
  BY CreceDeRespuesta
<1>2. DeJob(tabla, s, j) = DelJob(j) /\ tabla \in Seq(TipoFila(Len(tabla)))
      /\ Filas = 1 .. Len(tabla) /\ Len(tabla) \in Nat
  <2>1. PICK t, D, y : t = tabla /\ D = {} /\ y = "Error"
    OBVIOUS
  <2>2. t \in Seq(TipoFila(Len(tabla))) /\ Retocada(tabla, t, D, y)
    BY <1>1, <2>1, SinRetoque
  <2>3. DeJob(tabla, s, j) = DelJob(j)
    BY <1>1, <2>2, DeJobEs
  <2> QED
    BY <1>1, <2>1, <2>2, <2>3, FilasEs DEF EsTabla
<1>3. {i \in DeJob(tabla, s, j) : tabla[i].estado = "EnProceso"} = Vivas(j)
  BY <1>2 DEF Vivas
<1>4. CASE Vivas(j) = {}
  <2>1. UNCHANGED <<tabla, cargas>>
    BY <1>3, <1>4 DEF FinalizarEnTabla
  <2>2. tardios \subseteq tardios'
    BY <1>1 DEF Crece
  <2> QED
    BY <2>1, <2>2, CInvQuieto
<1>5. CASE Vivas(j) # {}
  <2>1. PICK m, ns : m = Min(Vivas(j)) /\ ns = {tabla[m].nodo} \cup {tabla[i].nodo : i \in FilasRL(tabla, s, j)}
    OBVIOUS
  <2>2. m \in Vivas(j) /\ m \in Filas
    <3>1. Vivas(j) \subseteq Nat
      BY <1>2, SubFilas
    <3> QED
      BY <1>5, <2>1, <3>1, HayMinimo, SubFilas
  <2>3. tabla' = [tabla EXCEPT ![m].estado = x] /\ cargas' = Quitar(cargas, ns, j)
    BY <1>3, <1>5, <2>1 DEF FinalizarEnTabla
  <2>4. Filas' = Filas /\ \A i \in Filas : i # m => tabla'[i].estado = tabla[i].estado
    <3>1. PICK u, n, t, D : u = tabla' /\ n = Len(tabla) /\ t = tabla /\ D = {m}
      OBVIOUS
    <3>2. Retocada(t, u, {m}, x)
      BY <1>2, <2>2, <2>3, <3>1, RetocaUna
    <3>3. Retocada(tabla, u, D, x)
      BY <3>1, <3>2
    <3> QED
      BY <1>1, <3>1, <3>3, SinNuevas
  <2>5. /\ Aparte(j) /\ \A n \in Nodos : CambioIgual(n, j)
        /\ \A n \in Nodos : /\ n \in ns => cargas'[n].porJob[j] = 0
                            /\ n \notin ns => cargas'[n] = cargas[n]
    BY <1>1, <2>3, QuitarNodos
  <2>6. Justificada(j)'
    <3> SUFFICES ASSUME NEW n \in Nodos, cargas'[n].porJob[j] # 0 PROVE EnCarga(j, n)'
      BY DEF Justificada
    <3>1. n \notin ns /\ cargas[n].porJob[j] # 0
      BY <2>5
    <3>2. EnCarga(j, n)
      BY <1>1, <3>1 DEF CInv, CargaDe, Justificada
    <3>3. \A k \in DelJob(j) : tabla[k].etapa = "ReduccionLocal" => tabla[k].nodo # n
      BY <1>2, <2>1, <3>1 DEF FilasRL
    <3>4. PICK i \in Vivas(j) : tabla[i].nodo = n
      BY <3>2, <3>3 DEF EnCarga
    <3>5. i # m /\ i \in Filas /\ i \in DelJob(j) /\ tabla[i].estado = "EnProceso"
      BY <2>1, <3>1, <3>4, SubFilas DEF Vivas
    <3>6. i \in DelJob(j)' /\ tabla'[i].estado = "EnProceso" /\ tabla'[i].nodo = n
      BY <1>1, <2>4, <3>4, <3>5, CreceFila, FilasDespues
    <3> QED
      BY <3>6 DEF EnCarga, Vivas
  <2>7. ASSUME j \notin tardios'
        PROVE  ~Transforma(j) /\ \A i \in Transf(j) : tabla'[i].estado = tabla[i].estado
    <3>1. ~Transforma(j)
      BY <2>7, NadaTransforma
    <3>2. m \notin Transf(j)
      BY <2>2, <3>1 DEF Transforma
    <3> QED
      BY <2>4, <3>1, <3>2, SubFilas
  <2>8. ASSUME tardios' = {} PROVE Repuestas(j)' /\ Pesada(j)'
    <3>1. ~Transforma(j)
      BY <2>7, <2>8
    <3>2. ~Transforma(j)'
      <4> SUFFICES ASSUME NEW i, i \in Vivas(j)', i \in Transf(j)' PROVE FALSE
        BY DEF Transforma
      <4>1. i \in Filas
        BY <2>4 DEF Vivas, DelJob
      <4> QED
        BY <1>1, <3>1, <4>1, FilasDespues DEF Transforma
    <3>3. \A i \in Transf(j) : tabla'[i].estado = tabla[i].estado
      BY <2>7, <2>8
    <3>4. CargaDe(j)
      BY <1>1 DEF CInv
    <3> QED
      BY <1>1, <1>5, <2>4, <2>8, <3>2, <3>3, <3>4, TransfIgual
  <2>9. CargaDe(j)'
    BY <2>6, <2>8 DEF CargaDe
  <2>10. Exacta(j)' /\ SinMasEntradas
    <3>1. EnMarcha(j)' => EnMarcha(j) /\ \A i \in Transf(j) : tabla'[i].estado = tabla[i].estado
      BY <2>7, MarchaAntes DEF EnMarcha
    <3>2. Exacta(j) /\ \A i \in Filas' : i \in Filas
      BY <1>1, <2>4 DEF CInv, EInv
    <3> QED
      BY <1>1, <3>1, <3>2, MismaExacta DEF SinMasEntradas
  <2> QED
    BY <1>1, <2>5, <2>9, <2>10, CInvDe
<1> QED
  BY <1>4, <1>5

(* An answer without error: the first row with the keys of its row f is    *)
(* marked, a row of the next stage may follow, and the node of f and the   *)
(* nodes with new load still have something in process.                    *)
Marca(f, p, e) ==
  /\ tabla[p].nodo = tabla[f].nodo /\ tabla[p].blk = tabla[f].blk /\ tabla[p].etapa = e
  /\ \A i \in Filas : tabla'[i].estado = IF i = p THEN "FinalizadoOK" ELSE tabla[i].estado
  /\ \A i \in Filas' : i \in Filas \/ tabla'[i].etapa # "Transformacion"

LEMMA CargaUna ==
  ASSUME IInv, IInv', CInv, NEW s \in Sockets, NEW e, NEW r, Respuesta(s, e, r), Extiende(s),
         NEW j, j = maestro[s].job, NEW f, f = Head(aYama[s]).fila, NEW n, n = tabla[f].nodo,
         NEW p \in DelJob(j), Marca(f, p, e), Aparte(j), \A m \in Nodos : CambioIgual(m, j),
         EnCarga(j, n)', Exacta(j)', SinMasEntradas,
         \A m \in Nodos : cargas'[m].porJob[j] = cargas[m].porJob[j] \/ (EnCarga(j, m)' /\ ~Transforma(j)')
  PROVE  CInv'
<1>1. Crece(j) /\ j \in Jobs /\ TypeOK /\ TypeOK'
  BY CreceDeRespuesta
<1>2. /\ f \in Filas /\ tabla[f] \in TipoFila(Len(tabla)) /\ tabla[f].etapa = e /\ Propia(f, s)
      /\ tabla[f].estado = "EnProceso" \/ tardios' # {}
  BY RespuestaEs
<1>3. n \in Nodos /\ f \in DelJob(j)
  BY <1>2 DEF TipoFila, Propia, DelJob
<1>4. CargaDe(j) /\ Justificada(j)
  BY <1>1 DEF CInv, CargaDe
<1>5. Justificada(j)'
  <2>1. Vivas(j)' # {}
    BY DEF EnCarga
  <2>2. \A i \in Filas : tabla[i].nodo # n => tabla'[i].estado = tabla[i].estado
    BY DEF Marca
  <2>3. \A m \in Nodos : m # n /\ cargas'[m].porJob[j] # 0 => cargas[m].porJob[j] # 0 \/ EnCarga(j, m)'
    OBVIOUS
  <2> QED
    BY <1>1, <1>3, <1>4, <2>1, <2>2, <2>3, JustSigue
<1>6. ASSUME tardios' = {} PROVE Repuestas(j)' /\ Pesada(j)'
  <2>1. tabla[f].estado = "EnProceso" /\ f \in Vivas(j)
    BY <1>2, <1>3, <1>6 DEF Vivas
  <2>2. ASSUME SinVueltas(j)', NEW i \in Transf(j)
        PROVE  tabla'[i].estado = "Error" <=> tabla[i].estado = "Error"
    <3>1. i \in Filas /\ i \in DelJob(j) /\ p \in Filas /\ tabla[p].job = j /\ tabla[f].job = j
      BY <1>3, SubFilas DEF DelJob
    <3>2. CASE i # p
      BY <3>1, <3>2 DEF Marca
    <3>3. CASE i = p
      <4>1. e = "Transformacion"
        BY <3>3 DEF Transf, Marca
      <4>2. SinVueltas(j)
        BY <1>1, <2>2, SinVueltasAntes
      <4>3. p = f
        BY <1>2, <3>1, <4>1, <4>2 DEF SinVueltas, Marca
      <4> QED
        BY <2>1, <3>1, <3>3, <4>3 DEF Marca
    <3> QED
      BY <3>2, <3>3
  <2>3. \A i \in Filas' : i \in Filas \/ tabla'[i].etapa # "Transformacion"
    BY DEF Marca
  <2>4. Transforma(j)' => \A m \in Nodos : cargas'[m].porJob[j] = cargas[m].porJob[j]
    OBVIOUS
  <2> QED
    BY <1>1, <1>4, <1>6, <2>1, <2>2, <2>3, <2>4, TransfIgual
<1>7. CargaDe(j)'
  BY <1>5, <1>6 DEF CargaDe
<1> QED
  BY <1>1, <1>7, CInvDe

(* The row that is marked is on the node of the answer, and the first of   *)
(* the job with its keys.                                                  *)
Primera(j, p) ==
  \A k \in DelJob(j) : tabla[k].nodo = tabla[p].nodo /\ tabla[k].blk = tabla[p].blk => p <= k

Marcada(f, p, e, t, ok) ==
  /\ tabla[p].nodo = tabla[f].nodo /\ tabla[p].blk = tabla[f].blk /\ tabla[p].etapa = e
  /\ t \in Seq(TipoFila(Len(tabla))) /\ Retocada(tabla, t, {p}, ok)

Agregada(q) ==
  \E k \in Filas' : tabla'[k] = q /\ k \notin Filas /\ \A i \in Filas' : i \in Filas \/ i = k

LEMMA MarcadaEs ==
  ASSUME IInv, NEW s \in Sockets, NEW e, NEW r, Respuesta(s, e, r), NEW f, f = Head(aYama[s]).fila,
         NEW j, j = maestro[s].job, NEW ok, ok = "FinalizadoOK", NEW t, TablaLista(f, s, t, ok)
  PROVE  \E p \in DelJob(j) : Marcada(f, p, e, t, ok) /\ Primera(j, p)
<1>2. /\ f \in Filas /\ tabla[f] \in TipoFila(Len(tabla)) /\ tabla[f].etapa = e
      /\ Propia(f, s) /\ BienClavada(tabla[f]) /\ f \in DeJob(tabla, s, maestro[s].job)
  BY RespuestaEs
<1>3. TypeOK /\ Claves /\ tabla[f].job = maestro[s].job /\ ok \in Estados
  BY <1>2 DEF IInv, Propia, Estados
<1>4. PICK n, b, u : n = tabla[f].nodo /\ b = tabla[f].blk /\ u = t
  OBVIOUS
<1>5. u = ActualizoTablaEstado(tabla, n, b, s, j, ok) /\ f \in DeJob(tabla, s, j)
  <2>1. t = ActualizoTablaEstado(tabla, tabla[f].nodo, tabla[f].blk, s, tabla[f].job, ok)
    BY DEF TablaLista
  <2>2. tabla[f].job = j
    BY <1>3
  <2>3. u = ActualizoTablaEstado(tabla, n, b, s, j, ok)
    BY ONLY <1>4, <2>1, <2>2, Zenon
  <2>4. f \in DeJob(tabla, s, j)
    BY ONLY <1>2, j = maestro[s].job
  <2> QED
    BY <2>3, <2>4
<1>6. PICK p : p = PrimeraFila(tabla, n, b, s, j)
  OBVIOUS
<1>7. /\ p \in DeJob(tabla, s, j) /\ p \in Filas /\ tabla[p].nodo = n /\ tabla[p].blk = b
      /\ \A i \in DeJob(tabla, s, j) : tabla[i].nodo = n /\ tabla[i].blk = b => p <= i
  <2>1. TypeOK /\ f \in DeJob(tabla, s, j) /\ tabla[f].nodo = n /\ tabla[f].blk = b
    BY <1>3, <1>4, <1>5
  <2> QED
    BY ONLY <2>1, <1>6, PrimeraFilaEs
<1>8. u = [tabla EXCEPT ![p].estado = ok]
  BY <1>5, <1>6 DEF ActualizoTablaEstado
<1>9. tabla \in Seq(TipoFila(Len(tabla))) /\ Len(tabla) \in Nat /\ p \in 1 .. Len(tabla)
  BY <1>3, <1>7, FilasEs DEF EsTabla, TypeOK
<1>10. u \in Seq(TipoFila(Len(tabla))) /\ Retocada(tabla, u, {p}, ok)
  BY <1>3, <1>8, <1>9, RetocaUna
<1>11. tabla[p].etapa = e
  <2>1. tabla[p] \in TipoFila(Len(tabla)) /\ BienClavada(tabla[p])
    BY <1>3, <1>7, FilasEs DEF EsTabla, Claves
  <2>2. tabla[p].etapa \in Etapas /\ tabla[f].etapa \in Etapas
    BY <1>2, <2>1 DEF TipoFila
  <2> QED
    BY <1>2, <1>4, <1>7, <2>1, <2>2, MismaEtapa
<1>12. p \in DelJob(j)
  BY <1>7 DEF DeJob, DelJob
<1>13. Primera(j, p)
  <2>1. \A i \in DelJob(j) : i \in DeJob(tabla, s, j)
    BY <1>2 DEF DeJob, DelJob, IInv, Numerados, Propia, EnYama, Filas
  <2> QED
    BY <1>7, <2>1 DEF Primera
<1> QED
  BY <1>4, <1>7, <1>10, <1>11, <1>12, <1>13 DEF Marcada

(* The table after the answer: the marked row, and then no row or one. *)
LEMMA MarcaSola ==
  ASSUME TypeOK, TypeOK', NEW f, NEW e, NEW p, NEW t, NEW ok, ok = "FinalizadoOK",
         Marcada(f, p, e, t, ok), tabla' = t
  PROVE  Marca(f, p, e) /\ Filas' = Filas
<1>1. PICK u, D : u = tabla' /\ D = {p}
  OBVIOUS
<1>2. Retocada(tabla, u, D, ok)
  BY <1>1 DEF Marcada
<1>3. Filas' = Filas /\ \A i \in Filas : tabla'[i].estado = IF i \in D THEN ok ELSE tabla[i].estado
  BY <1>1, <1>2, SinNuevas
<1> QED
  BY <1>1, <1>3 DEF Marca, Marcada

LEMMA MarcaUnaMas ==
  ASSUME TypeOK, TypeOK', NEW f, NEW e, NEW p, NEW t, NEW ok, ok = "FinalizadoOK",
         Marcada(f, p, e, t, ok),
         NEW q \in TipoFila(Len(tabla)), tabla' = Append(t, q), q.etapa # "Transformacion"
  PROVE  Marca(f, p, e) /\ Agregada(q)
<1>1. PICK D, k : D = {p} /\ k = Len(tabla) + 1
  OBVIOUS
<1>2. Retocada(tabla, t, D, ok) /\ t \in Seq(TipoFila(Len(tabla)))
  BY <1>1 DEF Marcada
<1>3. /\ tabla' \in Seq(TipoFila(Len(tabla) + 1)) /\ Alargada(t, tabla', 1) /\ tabla'[k] = q
  BY <1>1, <1>2, UnaMas
<1>4. /\ Filas = 1 .. Len(tabla) /\ Len(tabla) \in Nat /\ Filas' = 1 .. Len(tabla') /\ Len(t) = Len(tabla)
  BY <1>2, FilasEs, FilasEsTras DEF EsTabla, Retocada
<1>5. Len(tabla') = Len(tabla) + 1 /\ \A i \in Filas : tabla'[i] = t[i]
  BY <1>3, <1>4 DEF Alargada
<1>6. k \in Filas' /\ k \notin Filas /\ \A i \in Filas' : i \in Filas \/ i = k
  BY <1>1, <1>4, <1>5
<1>7. \A i \in Filas : tabla'[i].estado = IF i = p THEN ok ELSE tabla[i].estado
  BY <1>1, <1>2, <1>4, <1>5 DEF Retocada
<1> QED
  BY <1>3, <1>6, <1>7 DEF Marca, Marcada, Agregada

(* A row in process of the job, at its node and wherever the job has a     *)
(* local reduction.                                                        *)
LEMMA VivaEs ==
  ASSUME NEW j, NEW k \in Filas', tabla'[k].job = j, tabla'[k].estado = "EnProceso"
  PROVE  k \in Vivas(j)' /\ \A n : n = tabla'[k].nodo => EnCarga(j, n)'
BY DEF EnCarga, Vivas, DelJob

(* A finished row of another stage leaves the first two stages alone. *)
LEMMA ExactaOtraEtapa ==
  ASSUME IInv, NEW s \in Sockets, NEW e, NEW r, Respuesta(s, e, r), e # "Transformacion",
         NEW j, j = maestro[s].job, Crece(j), Exacta(j), NEW f, NEW p, Marca(f, p, e),
         \A i \in Filas' : i \in Filas \/ tabla'[i].etapa \notin {"Transformacion", "ReduccionLocal"}
  PROVE  Exacta(j)'
<1>1. EnMarcha(j)' => EnMarcha(j)
  BY MarchaAntes DEF EnMarcha
<1>2. ASSUME NEW i \in Transf(j) PROVE tabla'[i].estado = tabla[i].estado
  <2>1. i \in Filas /\ tabla[i].etapa = "Transformacion"
    BY SubFilas DEF Transf
  <2>2. i # p
    BY <2>1 DEF Marca
  <2> QED
    BY <2>1, <2>2 DEF Marca
<1> QED
  BY <1>1, <1>2, MismaExacta

(* The rows of local reductions that a finished transformation adds: none  *)
(* while the node has others in process, and else one over what finished.  *)
OrdenLocal(j, n, N) ==
  /\ Locales(j)' = Locales(j) \cup N
  /\ N = {} => \E k \in Transf(j) : tabla[k].nodo = n /\ tabla'[k].estado = "EnProceso"
  /\ \A g, h \in N : g = h
  /\ \A g \in N : /\ g \notin Filas /\ tabla'[g].nodo = n
                  /\ tabla'[g].entradas = {i \in DelJob(j) : tabla[i].nodo = n /\ tabla'[i].estado = "FinalizadoOK"}
                  /\ \A i \in Transf(j) : tabla[i].nodo = n => tabla'[i].estado # "EnProceso"

LEMMA ReducenMarca ==
  ASSUME NEW j, Crece(j), NEW f \in Transf(j), tabla[f].estado = "EnProceso", NEW n, n = tabla[f].nodo,
         NEW p \in Transf(j), Marca(f, p, "Transformacion"), NEW N, OrdenLocal(j, n, N),
         SinVueltas(j)' => SinVueltas(j), Reducen(j)
  PROVE  Reducen(j)'
<1>1. Cerradas(j) /\ UnaLocal(j) /\ Juntan(j) /\ Suyas(j) /\ (SinVueltas(j) => Ordenadas(j))
  BY DEF Reducen
<1>2. Transf(j)' = Transf(j)
  <2>1. Transf(j)' \subseteq Filas /\ Transf(j) \subseteq Filas
    BY SubFilas DEF Transf, DelJob, Marca
  <2>2. \A i \in Filas : i \in Transf(j) <=> i \in Transf(j)'
    BY FilasDespues
  <2> QED
    BY <2>1, <2>2
<1>3. ASSUME NEW i \in Transf(j)
      PROVE  /\ i \in DelJob(j) /\ tabla'[i].nodo = tabla[i].nodo
             /\ tabla'[i].estado = IF i = p THEN "FinalizadoOK" ELSE tabla[i].estado
  <2>1. i \in Filas /\ i \in DelJob(j)
    BY SubFilas
  <2>2. tabla'[i].nodo = tabla[i].nodo
    BY <2>1, CreceFila
  <2> QED
    BY <2>1, <2>2 DEF Marca
<1>4. tabla[p].nodo = n
  BY DEF Marca
<1>5. ASSUME NEW r \in Locales(j)
      PROVE  tabla'[r].nodo = tabla[r].nodo /\ tabla'[r].entradas = tabla[r].entradas /\ tabla[r].nodo # n
  <2>1. r \in Filas
    BY LocalesDespues
  <2>2. tabla[r].nodo # n
    BY <1>1 DEF Cerradas
  <2> QED
    BY <2>1, <2>2, CreceFila
<1>6. \A r \in Locales(j)' : r \in Locales(j) \/ r \in N
  BY DEF OrdenLocal
<1>7. Cerradas(j)'
  <2> SUFFICES ASSUME NEW r \in Locales(j)', NEW i \in Transf(j)', tabla'[i].nodo = tabla'[r].nodo
               PROVE  tabla'[i].estado # "EnProceso"
    BY DEF Cerradas
  <2>1. i \in Transf(j)
    BY <1>2
  <2>2. CASE r \in Locales(j)
    BY <1>1, <1>3, <1>5, <2>1, <2>2 DEF Cerradas
  <2>3. CASE r \in N
    BY <1>3, <2>1, <2>3 DEF OrdenLocal
  <2> QED
    BY <1>6, <2>2, <2>3
<1>8. UnaLocal(j)'
  <2> SUFFICES ASSUME NEW r \in Locales(j)', NEW q \in Locales(j)', tabla'[r].nodo = tabla'[q].nodo
               PROVE  r = q
    BY DEF UnaLocal
  <2>1. CASE r \in Locales(j) /\ q \in Locales(j)
    BY <1>1, <1>5, <2>1 DEF UnaLocal
  <2>2. CASE r \in N /\ q \in N
    BY <2>2 DEF OrdenLocal
  <2>3. CASE r \in Locales(j) /\ q \in N
    BY <1>5, <2>3 DEF OrdenLocal
  <2>4. CASE r \in N /\ q \in Locales(j)
    BY <1>5, <2>4 DEF OrdenLocal
  <2> QED
    BY <1>6, <2>1, <2>2, <2>3, <2>4
<1>9. Juntan(j)'
  <2> SUFFICES ASSUME NEW r \in Locales(j)', NEW i \in Transf(j)'
               PROVE  i \in tabla'[r].entradas <=> tabla'[i].nodo = tabla'[r].nodo /\ tabla'[i].estado = "FinalizadoOK"
    BY DEF Juntan
  <2>1. i \in Transf(j)
    BY <1>2
  <2>2. CASE r \in Locales(j)
    <3>1. i \in tabla[r].entradas <=> tabla[i].nodo = tabla[r].nodo /\ tabla[i].estado = "FinalizadoOK"
      BY <1>1, <2>1, <2>2 DEF Juntan
    <3>2. CASE i = p
      BY <1>3, <1>4, <1>5, <2>1, <2>2, <3>1, <3>2
    <3>3. CASE i # p
      BY <1>3, <1>5, <2>1, <2>2, <3>1, <3>3
    <3> QED
      BY <3>2, <3>3
  <2>3. CASE r \in N
    <3>1. /\ tabla'[r].nodo = n
          /\ tabla'[r].entradas = {k \in DelJob(j) : tabla[k].nodo = n /\ tabla'[k].estado = "FinalizadoOK"}
      BY <2>3 DEF OrdenLocal
    <3> QED
      BY <1>3, <2>1, <3>1
  <2> QED
    BY <1>6, <2>2, <2>3
<1>10. ASSUME SinVueltas(j)' PROVE Ordenadas(j)'
  <2> SUFFICES ASSUME NEW i \in Transf(j)', tabla'[i].estado = "FinalizadoOK"
               PROVE  \/ \E k \in Transf(j)' : tabla'[k].nodo = tabla'[i].nodo /\ tabla'[k].estado = "EnProceso"
                      \/ \E r \in Locales(j)' : tabla'[r].nodo = tabla'[i].nodo
    BY DEF Ordenadas
  <2>1. i \in Transf(j)
    BY <1>2
  <2>2. CASE tabla[i].nodo = n
    <3>1. CASE N = {}
      <4>1. PICK k \in Transf(j) : tabla[k].nodo = n /\ tabla'[k].estado = "EnProceso"
        BY <3>1 DEF OrdenLocal
      <4> QED
        BY <1>2, <1>3, <2>1, <2>2, <4>1
    <3>2. CASE N # {}
      <4>1. PICK g \in N : TRUE
        BY <3>2
      <4>2. g \in Locales(j)' /\ tabla'[g].nodo = n
        BY <4>1 DEF OrdenLocal
      <4> QED
        BY <1>3, <2>1, <2>2, <4>2
    <3> QED
      BY <3>1, <3>2
  <2>3. CASE tabla[i].nodo # n
    <3>1. i # p /\ tabla[i].estado = "FinalizadoOK"
      BY <1>3, <1>4, <2>1, <2>3
    <3>2. \/ \E k \in Transf(j) : tabla[k].nodo = tabla[i].nodo /\ tabla[k].estado = "EnProceso"
          \/ \E r \in Locales(j) : tabla[r].nodo = tabla[i].nodo
      BY <1>1, <1>10, <2>1, <3>1 DEF Ordenadas
    <3>3. ASSUME NEW k \in Transf(j), tabla[k].nodo = tabla[i].nodo, tabla[k].estado = "EnProceso"
          PROVE  \E h \in Transf(j)' : tabla'[h].nodo = tabla'[i].nodo /\ tabla'[h].estado = "EnProceso"
      <4>1. k # p
        BY <1>4, <2>3, <3>3
      <4> QED
        BY <1>2, <1>3, <2>1, <3>3, <4>1
    <3>4. ASSUME NEW r \in Locales(j), tabla[r].nodo = tabla[i].nodo
          PROVE  \E h \in Locales(j)' : tabla'[h].nodo = tabla'[i].nodo
      BY <1>3, <1>5, <2>1, <3>4 DEF OrdenLocal
    <3> QED
      BY <3>2, <3>3, <3>4
  <2> QED
    BY <2>2, <2>3
<1>11. Suyas(j)'
  <2>1. \A i \in DelJob(j) : i \in DelJob(j)'
    BY SubFilas, FilasDespues
  <2>2. \A r \in N : tabla'[r].entradas \subseteq DelJob(j)
    BY DEF OrdenLocal
  <2>3. \A r \in Locales(j) : tabla'[r].entradas \subseteq DelJob(j)
    BY <1>1, <1>5 DEF Suyas
  <2> QED
    BY <1>6, <2>1, <2>2, <2>3 DEF Suyas
<1> QED
  BY <1>7, <1>8, <1>9, <1>10, <1>11 DEF Reducen

LEMMA ExactaMarca ==
  ASSUME TypeOK, NEW j, Crece(j), Exacta(j), EnMarcha(j),
         NEW f \in Transf(j), tabla[f].estado = "EnProceso", NEW n, n = tabla[f].nodo,
         NEW p \in Transf(j), Primera(j, p), Marca(f, p, "Transformacion"),
         SinReplanTardio(j)' => \E N : OrdenLocal(j, n, N)
  PROVE  Exacta(j)'
<1>1. Repetidas(j) /\ (SinVueltas(j) => UnaPorBloque(j)) /\ (SinReplanTardio(j) => Reducen(j))
  BY DEF Exacta
<1>2. (SinVueltas(j)' => SinVueltas(j)) /\ (SinReplanTardio(j)' => SinReplanTardio(j))
  BY SinVueltasAntes, SinReplanAntes
<1>3. Transf(j)' = Transf(j) /\ Transf(j) \subseteq Filas /\ Transf(j) \subseteq DelJob(j)
  <2>1. Transf(j)' \subseteq Filas /\ Transf(j) \subseteq Filas /\ Transf(j) \subseteq DelJob(j)
    BY SubFilas DEF Transf, DelJob, Marca
  <2>2. \A i \in Filas : i \in Transf(j) <=> i \in Transf(j)'
    BY FilasDespues
  <2> QED
    BY <2>1, <2>2
<1>4. \A i \in Transf(j) : /\ tabla'[i].nodo = tabla[i].nodo /\ tabla'[i].blk = tabla[i].blk
                           /\ tabla'[i].estado = IF i = p THEN "FinalizadoOK" ELSE tabla[i].estado
  BY <1>3, CreceFila DEF Marca
<1>5. Repetidas(j)'
  <2> SUFFICES ASSUME NEW i \in Transf(j), NEW k \in Transf(j), i < k,
                      tabla[i].nodo = tabla[k].nodo, tabla[i].blk = tabla[k].blk
               PROVE  tabla'[k].estado = "EnProceso"
    BY <1>3, <1>4 DEF Repetidas
  <2>1. tabla[k].estado = "EnProceso"
    BY <1>1 DEF Repetidas
  <2>2. k # p
    <3>1. k = p => p <= i
      BY <1>3 DEF Primera
    <3>2. i \in Int /\ k \in Int
      BY <1>3, FilasEs DEF EsTabla
    <3> QED
      BY <3>1, <3>2
  <2> QED
    BY <1>4, <2>1, <2>2
<1>6. ASSUME SinVueltas(j)' PROVE UnaPorBloque(j)'
  <2>1. f = p
    BY <1>2, <1>3, <1>6 DEF SinVueltas, Marca, Transf, DelJob
  <2>2. \A i \in Transf(j) : tabla'[i].estado # "Error" <=> tabla[i].estado # "Error"
    BY <1>4, <2>1
  <2>3. \A i \in Transf(j) : BloqueDe(tabla'[i].nodo, tabla'[i].blk) = BloqueDe(tabla[i].nodo, tabla[i].blk)
    BY <1>4
  <2>4. \A b : EnPie(j, b)' = EnPie(j, b)
    BY <1>3, <2>2, <2>3 DEF EnPie, BloqueDe, Bloques
  <2> QED
    BY <1>1, <1>2, <1>6, <2>4 DEF UnaPorBloque, Bloques
<1>7. ASSUME SinReplanTardio(j)' PROVE Reducen(j)'
  <2>1. PICK N : OrdenLocal(j, n, N)
    BY <1>7
  <2> QED
    BY <1>1, <1>2, <1>7, <2>1, ReducenMarca
<1> QED
  BY <1>5, <1>6, <1>7 DEF Exacta

(* An order in process on a node that still transforms is one of its       *)
(* transformations.                                                        *)
LEMMA OtraTransf ==
  ASSUME IInv, NEW j, j \notin tardios, Cerradas(j), NEW f \in Transf(j), tabla[f].estado = "EnProceso",
         NEW q \in DelJob(j), tabla[q].nodo = tabla[f].nodo, tabla[q].estado = "EnProceso"
  PROVE  q \in Transf(j)
<1>1. f \in Filas /\ q \in Filas /\ tabla[f].job = j /\ tabla[q].job = j /\ tabla[f].etapa = "Transformacion"
  BY DEF Transf, DelJob
<1>2. tabla[q].etapa \in Etapas
  BY <1>1, FilasEs DEF IInv, EsTabla, TipoFila
<1>3. tabla[q].etapa # "ReduccionLocal"
  BY DEF Cerradas, Locales
<1>4. "Transformacion" \notin Previas(tabla[q])
  BY <1>1 DEF IInv, EnEtapas
<1>5. tabla[q].etapa = "Transformacion"
  BY <1>2, <1>3, <1>4 DEF Previas, Etapas
<1> QED
  BY <1>5 DEF Transf

(* An answer of a transformation: while the node is not through it has a   *)
(* row in process, and then its local reduction.                           *)
LEMMA CargaTransformacionLista ==
  ASSUME IInv, IInv', CInv, NEW s \in Sockets, TransformacionLista(s)
  PROVE  CInv'
<1>1. PICK f, e, ok : f = Head(aYama[s]).fila /\ e = "Transformacion" /\ ok = "FinalizadoOK"
  BY Zenon
<1>2. Respuesta(s, e, 0) /\ FilaResp(s) = tabla[f] /\ cargas' = cargas /\ Extiende(s)
  BY <1>1, PasoTransformacionLista, Zenon DEF TransformacionLista, FilaResp
<1>3. PICK n, j, t : /\ n = tabla[f].nodo /\ j = maestro[s].job
                     /\ t = ActualizoTablaEstado(tabla, tabla[f].nodo, tabla[f].blk, s, tabla[f].job, ok)
  OBVIOUS
<1>4. Crece(j) /\ j \in Jobs /\ TypeOK /\ TypeOK' /\ maestro[s].est # "libre" /\ tabla[f].job = j
  BY <1>2, <1>3, CreceDeRespuesta
<1>5. PICK p \in DelJob(j) : Marcada(f, p, e, t, ok) /\ Primera(j, p)
  <2>1. TablaLista(f, s, t, ok)
    BY <1>3 DEF TablaLista
  <2> QED
    BY <1>1, <1>2, <1>3, <2>1, MarcadaEs
<1>6. \/ ~ TransfTerminada(t, n, s, j) /\ tabla' = t
      \/ /\ TransfTerminada(t, n, s, j)
         /\ tabla' = Append(t, Fila(j, n, s, ReduccionLocal, "ReduccionLocal", ArchivosTemporales(t, n, s, j)))
      \/ UNCHANGED tabla
  BY <1>1, <1>2, <1>3, <1>4, Zenon DEF TransformacionLista
<1>7. Aparte(j) /\ \A m \in Nodos : CambioIgual(m, j)
  BY <1>2, <1>4, CargasQuietas
<1>8. \A m \in Nodos : cargas'[m].porJob[j] = cargas[m].porJob[j]
  BY <1>2
<1>9. /\ DelJob(j) = DeJob(t, s, j) /\ f \in Transf(j) /\ p \in Transf(j)
       /\ \A i \in DelJob(j) : t[i].nodo = tabla[i].nodo /\ t[i].estado \in Estados
  <2>1. f \in Filas
    BY <1>1, <1>2, RespuestaEs
  <2>2. /\ DOMAIN t = 1 .. Len(tabla) /\ \A i \in DOMAIN t : t[i] \in TipoFila(Len(tabla))
        /\ Filas = 1 .. Len(tabla) /\ \A i \in Filas : MismaClave(t[i], tabla[i])
    BY <1>4, <1>5, RetocadaEs, FilasEs DEF Marcada, EsTabla, Retocada
  <2>3. DelJob(j) = DeJob(t, s, j)
    BY <1>3, <1>4, <1>5, DeJobEs DEF Marcada
  <2>4. f \in Transf(j) /\ p \in Transf(j)
    BY <1>1, <1>2, <1>4, <1>5, <2>1, RespuestaEs DEF Transf, DelJob, Marcada
  <2> QED
    BY <2>2, <2>3, <2>4, SubFilas DEF TipoFila, MismaClave
<1>10. EnMarcha(j)' => /\ EnMarcha(j) /\ j \notin tardios /\ tabla[f].estado = "EnProceso"
                       /\ (SinReplanTardio(j)' => Cerradas(j))
  <2>1. ASSUME EnMarcha(j)' PROVE EnMarcha(j) /\ j \notin tardios /\ tabla[f].estado = "EnProceso"
    BY <1>1, <1>2, <1>3, <2>1, MarchaAntes DEF EnMarcha, Vivas
  <2>2. Exacta(j) /\ (SinReplanTardio(j)' => SinReplanTardio(j))
    BY <1>4, SinReplanAntes DEF CInv, EInv
  <2> QED
    BY <2>1, <2>2 DEF Exacta, Reducen
<1>11. ASSUME Marca(f, p, e), EnCarga(j, n)', SinMasEntradas,
             EnMarcha(j)' /\ SinReplanTardio(j)' => \E N : OrdenLocal(j, n, N)
      PROVE  CInv'
  <2>1. Exacta(j)
    BY <1>4 DEF CInv, EInv
  <2>2. Exacta(j)'
    <3> SUFFICES ASSUME EnMarcha(j)' PROVE Exacta(j)'
      BY DEF Exacta
    <3> QED
      BY <1>1, <1>3, <1>4, <1>5, <1>11, <1>9, <1>10, <2>1, ExactaMarca
  <2> QED
    BY <1>1, <1>2, <1>3, <1>7, <1>8, <1>11, <2>2, CargaUna
<1>12. CASE ~ TransfTerminada(t, n, s, j) /\ tabla' = t
  <2>1. PICK q \in DeJob(t, s, j) : t[q].nodo = n /\ t[q].estado # "Error" /\ t[q].estado # "FinalizadoOK"
    BY <1>12 DEF TransfTerminada
  <2>2. /\ DOMAIN t = 1 .. Len(tabla) /\ \A i \in DOMAIN t : t[i] \in TipoFila(Len(tabla))
    BY <1>4, <1>5, RetocadaEs DEF Marcada
  <2>3. q \in Filas' /\ tabla'[q].job = j /\ tabla'[q].nodo = n /\ tabla'[q].estado = "EnProceso"
    BY <1>12, <2>1, <2>2 DEF DeJob, TipoFila, Estados, Filas
  <2>4. EnCarga(j, n)'
    BY <2>3, VivaEs
  <2>5. Marca(f, p, e) /\ Filas' = Filas
    BY <1>1, <1>4, <1>5, <1>12, MarcaSola
  <2>6. SinMasEntradas
    BY <2>5 DEF SinMasEntradas
  <2>7. ASSUME EnMarcha(j)', SinReplanTardio(j)' PROVE \E N : OrdenLocal(j, n, N)
    <3>1. q \in DelJob(j) /\ q \in Filas /\ tabla[q].nodo = n /\ tabla[q].estado = "EnProceso"
      BY <1>4, <1>9, <2>1, <2>3, <2>5, CreceFila
    <3>2. q \in Transf(j)
      BY <1>3, <1>9, <1>10, <2>7, <3>1, OtraTransf
    <3>3. Locales(j)' = Locales(j)
      <4>1. Locales(j) \subseteq Filas /\ Locales(j)' \subseteq Filas
        BY <1>4, <2>5, LocalesDespues
      <4>2. \A i \in Filas : i \in Locales(j) <=> i \in Locales(j)'
        BY <1>4, LocalesDespues
      <4> QED
        BY <4>1, <4>2
    <3>4. OrdenLocal(j, n, {})
      BY <2>3, <3>1, <3>2, <3>3 DEF OrdenLocal
    <3> QED
      BY <3>4
  <2> QED
    BY <1>11, <2>4, <2>5, <2>6, <2>7
<1>13. CASE /\ TransfTerminada(t, n, s, j)
            /\ tabla' = Append(t, Fila(j, n, s, ReduccionLocal, "ReduccionLocal", ArchivosTemporales(t, n, s, j)))
  <2>1. PICK A, g, q : /\ A = ArchivosTemporales(t, n, s, j) /\ g = "ReduccionLocal"
                       /\ q = Fila(j, n, s, ReduccionLocal, g, A)
    OBVIOUS
  <2>2. tabla' = Append(t, q)
    BY <1>13, <2>1
  <2>3. A \in SUBSET (1 .. Len(tabla)) /\ g \in Etapas /\ ReduccionLocal \in Int
    BY <1>4, <1>5, <2>1, RetocadaEs DEF Marcada, ArchivosTemporales, DeJob, Etapas, ReduccionLocal
  <2>4. n \in Nodos
    BY <1>1, <1>2, <1>3, RespuestaEs DEF TipoFila
  <2>5. /\ q \in TipoFila(Len(tabla)) /\ q.job = j /\ q.nodo = n /\ q.etapa = g /\ q.estado = "EnProceso"
    BY <1>4, <2>1, <2>3, <2>4, FilaEs
  <2>6. q.etapa # "Transformacion" /\ q.etapa = "ReduccionLocal" /\ q.entradas = A
    BY <2>1, <2>5 DEF Fila
  <2>7. Marca(f, p, e) /\ Agregada(q)
    BY <1>1, <1>4, <1>5, <2>2, <2>5, <2>6, MarcaUnaMas
  <2>8. EnCarga(j, n)'
    BY <2>5, <2>7, VivaEs DEF Agregada
  <2>9. PICK k \in Filas' : tabla'[k] = q /\ k \notin Filas /\ \A i \in Filas' : i \in Filas \/ i = k
    BY <2>7 DEF Agregada
  <2>10. SinMasEntradas
    BY <2>6, <2>9 DEF SinMasEntradas
  <2>11. OrdenLocal(j, n, {k})
    <3>1. Locales(j)' = Locales(j) \cup {k}
      <4>1. Locales(j) \subseteq Filas /\ Locales(j)' \subseteq Filas'
        BY <1>4, LocalesDespues
      <4>2. \A i \in Filas : i \in Locales(j) <=> i \in Locales(j)'
        BY <1>4, LocalesDespues
      <4>3. k \in Locales(j)'
        BY <2>5, <2>6, <2>9 DEF Locales, DelJob
      <4> QED
        BY <2>9, <4>1, <4>2, <4>3
    <3>2. \A i \in DelJob(j) : tabla'[i].estado = t[i].estado
      <4>1. \A i \in DelJob(j) : i \in Filas
        BY SubFilas
      <4>2. \A i \in Filas : t[i].estado = IF i = p THEN "FinalizadoOK" ELSE tabla[i].estado
        BY <1>1, <1>4, <1>5, FilasEs DEF Marcada, Retocada, EsTabla
      <4> QED
        BY <2>7, <4>1, <4>2 DEF Marca
    <3>3. A = {i \in DelJob(j) : tabla[i].nodo = n /\ tabla'[i].estado = "FinalizadoOK"}
      BY <1>9, <2>1, <3>2 DEF ArchivosTemporales
    <3>4. ASSUME NEW i \in Transf(j), tabla[i].nodo = n PROVE tabla'[i].estado # "EnProceso"
      <4>1. i \in DelJob(j)
        BY SubFilas
      <4> QED
        BY <1>13, <1>9, <3>2, <3>4, <4>1 DEF TransfTerminada
    <3> QED
      BY <2>5, <2>6, <2>9, <3>1, <3>3, <3>4 DEF OrdenLocal
  <2> QED
    BY <1>11, <2>7, <2>8, <2>10, <2>11
<1>14. CASE UNCHANGED tabla
  <2>1. tardios \subseteq tardios'
    BY <1>4 DEF Crece
  <2> QED
    BY <1>2, <1>14, <2>1, CInvQuieto
<1> QED
  BY <1>6, <1>12, <1>13, <1>14

(* An answer of the global reduction: the final storage is at its node. *)
LEMMA CargaReduccionGlobalLista ==
  ASSUME IInv, IInv', CInv, NEW s \in Sockets, ReduccionGlobalLista(s)
  PROVE  CInv'
<1>1. PICK f, e, ok : f = Head(aYama[s]).fila /\ e = "ReduccionGlobal" /\ ok = "FinalizadoOK"
  BY Zenon
<1>2. Respuesta(s, e, 0) /\ FilaResp(s) = tabla[f] /\ cargas' = cargas /\ Extiende(s)
  BY <1>1, PasoReduccionGlobalLista, Zenon DEF ReduccionGlobalLista, FilaResp
<1>3. PICK n, j, t : /\ n = tabla[f].nodo /\ j = maestro[s].job
                     /\ t = ActualizoTablaEstado(tabla, tabla[f].nodo, ReduccionGlobal, s, tabla[f].job, ok)
  OBVIOUS
<1>4. Crece(j) /\ j \in Jobs /\ TypeOK /\ TypeOK' /\ maestro[s].est # "libre" /\ tabla[f].job = j
  BY <1>2, <1>3, CreceDeRespuesta
<1>5. PICK p \in DelJob(j) : Marcada(f, p, e, t, ok)
  <2>1. tabla[f].blk = ReduccionGlobal
    BY <1>1, <1>2, RespuestaEs DEF BienClavada
  <2>2. TablaLista(f, s, t, ok)
    BY <1>3, <2>1 DEF TablaLista
  <2> QED
    BY <1>1, <1>2, <1>3, <2>2, MarcadaEs
<1>6. \/ tabla' = Append(t, Fila(j, n, s, AlmacenamientoFinal, "AlmacenamientoFinal", {}))
      \/ UNCHANGED tabla
  BY <1>1, <1>2, <1>3, <1>4, Zenon DEF ReduccionGlobalLista
<1>7. Aparte(j) /\ \A m \in Nodos : CambioIgual(m, j)
  BY <1>2, <1>4, CargasQuietas
<1>8. \A m \in Nodos : cargas'[m].porJob[j] = cargas[m].porJob[j]
  BY <1>2
<1>9. CASE tabla' = Append(t, Fila(j, n, s, AlmacenamientoFinal, "AlmacenamientoFinal", {}))
  <2>1. PICK A, g, q : A = {} /\ g = "AlmacenamientoFinal" /\ q = Fila(j, n, s, AlmacenamientoFinal, g, A)
    OBVIOUS
  <2>2. tabla' = Append(t, q)
    BY <1>9, <2>1
  <2>3. A \in SUBSET (1 .. Len(tabla)) /\ g \in Etapas /\ AlmacenamientoFinal \in Int
    BY <2>1 DEF Etapas, AlmacenamientoFinal
  <2>4. n \in Nodos
    BY <1>1, <1>2, <1>3, RespuestaEs DEF TipoFila
  <2>5. /\ q \in TipoFila(Len(tabla)) /\ q.job = j /\ q.nodo = n /\ q.etapa = g /\ q.estado = "EnProceso"
    BY <1>4, <2>1, <2>3, <2>4, FilaEs
  <2>6. q.etapa # "Transformacion" /\ q.etapa \notin {"Transformacion", "ReduccionLocal", "ReduccionGlobal"}
    BY <2>1, <2>5
  <2>7. Marca(f, p, e) /\ Agregada(q)
    BY <1>1, <1>4, <1>5, <2>2, <2>5, <2>6, MarcaUnaMas
  <2>8. EnCarga(j, n)'
    BY <2>5, <2>7, VivaEs DEF Agregada
  <2>9. \A i \in Filas' : i \in Filas \/ tabla'[i] = q
    BY <2>7 DEF Agregada
  <2>10. SinMasEntradas
    BY <2>6, <2>9 DEF SinMasEntradas
  <2>11. Exacta(j)'
    <3>1. Exacta(j) /\ e # "Transformacion"
      BY <1>1, <1>4 DEF CInv, EInv
    <3>2. \A i \in Filas' : i \in Filas \/ tabla'[i].etapa \notin {"Transformacion", "ReduccionLocal"}
      BY <2>6, <2>9
    <3> QED
      BY <1>2, <1>3, <1>4, <2>7, <3>1, <3>2, ExactaOtraEtapa
  <2> QED
    BY <1>1, <1>2, <1>3, <1>7, <1>8, <2>7, <2>8, <2>10, <2>11, CargaUna
<1>10. CASE UNCHANGED tabla
  <2>1. tardios \subseteq tardios'
    BY <1>4 DEF Crece
  <2> QED
    BY <1>2, <1>10, <2>1, CInvQuieto
<1> QED
  BY <1>6, <1>9, <1>10

LEMMA SumarNodo ==
  ASSUME TypeOK, NEW j \in Jobs, NEW n \in Nodos, NEW k \in Nat, cargas' = Sumar(cargas, n, j, k)
  PROVE  /\ Aparte(j) /\ \A m \in Nodos : CambioIgual(m, j)
         /\ \A m \in Nodos : m # n => cargas'[m] = cargas[m]
<1>1. PICK c, d, h, a, f, g : /\ c = cargas /\ d = [c[n] EXCEPT !.actual = @ + k]
                              /\ h = [d EXCEPT !.porJob[j] = @ + k]
                              /\ a = cargas[n].actual /\ f = cargas[n].porJob /\ g = [f EXCEPT ![j] = @ + k]
  OBVIOUS
<1>2. c \in [Nodos -> TipoCarga] /\ c[n] \in TipoCarga /\ a \in Int /\ f \in [Jobs -> Nat]
  BY <1>1 DEF TypeOK, TipoCarga
<1>3. f[j] \in Nat /\ g[j] = f[j] + k /\ \A x \in Jobs : x # j => g[x] = f[x]
  BY ONLY <1>1, <1>2, j \in Jobs
<1>4. h.actual = a + k /\ h.porJob = g
  <2>1. d \in TipoCarga /\ d.actual = a + k /\ d.porJob = f
    BY <1>1, <1>2 DEF TipoCarga
  <2> QED
    BY <1>1, <2>1 DEF TipoCarga
<1>5. cargas'[n] = h /\ \A m \in Nodos : m # n => cargas'[m] = cargas[m]
  <2>1. PICK c1 : c1 = [c EXCEPT ![n] = d]
    OBVIOUS
  <2>2. c1 = [c EXCEPT ![n].actual = @ + k]
    BY <1>1, <2>1
  <2>3. cargas' = [c1 EXCEPT ![n].porJob[j] = @ + k]
    BY <1>1, <2>2 DEF Sumar
  <2>4. c1[n] = d
    BY <1>2, <2>1
  <2>5. cargas' = [c1 EXCEPT ![n] = h]
    BY <1>1, <2>3, <2>4
  <2>6. cargas' = [c EXCEPT ![n] = h]
    BY <2>1, <2>5
  <2> QED
    BY <1>1, <1>2, <2>6
<1>6. CambioIgual(n, j) /\ \A x \in Jobs : x # j => cargas'[n].porJob[x] = cargas[n].porJob[x]
  <2>1. cargas'[n].actual = a + k /\ cargas'[n].porJob = g
    BY <1>4, <1>5
  <2>2. a + k = a + (g[j] - f[j])
    BY ONLY <1>2, <1>3, k \in Nat
  <2> QED
    BY <1>1, <1>3, <2>1, <2>2 DEF CambioIgual
<1>7. ASSUME NEW m \in Nodos, m # n PROVE CambioIgual(m, j)
  <2>1. PICK b, l : b = cargas[m].actual /\ l = cargas[m].porJob
    OBVIOUS
  <2>2. b \in Int /\ l \in [Jobs -> Nat]
    BY <2>1 DEF TypeOK, TipoCarga
  <2>3. b = b + (l[j] - l[j])
    BY ONLY <2>2, j \in Jobs
  <2> QED
    BY <1>5, <1>7, <2>1, <2>3 DEF CambioIgual
<1> QED
  BY <1>5, <1>6, <1>7 DEF Aparte

(* The global reduction, ordered over every local reduction of a job in    *)
(* which nothing transforms, is given every block once.                    *)
EntradasJustas ==
  \A j \in Jobs, g \in Filas :
    /\ tabla[g].job = j /\ Exacta(j) /\ EnMarcha(j) /\ tabla[g].entradas = Locales(j)
    /\ \A i \in Transf(j) : tabla[i].estado # "EnProceso"
    => EntradaDe(g)

LEMMA EntradasJustasEs == TypeOK => EntradasJustas
<1> SUFFICES ASSUME TypeOK, NEW j \in Jobs, NEW g \in Filas,
                    tabla[g].job = j, Exacta(j), EnMarcha(j), tabla[g].entradas = Locales(j),
                    \A i \in Transf(j) : tabla[i].estado # "EnProceso",
                    SinReplanTardio(j), NEW b \in Bloques
             PROVE  Cardinality(Aportes(g, b)) = 1
  BY DEF EntradasJustas, EntradaDe
<1>1. Repetidas(j) /\ (SinVueltas(j) => UnaPorBloque(j)) /\ Reducen(j)
  BY DEF Exacta
<1>2. \A i \in Transf(j) : i \in Filas /\ i \in Int /\ tabla[i].estado \in Estados /\ tabla[i].etapa = "Transformacion"
  BY FilasEs DEF Transf, DelJob, EsTabla, TipoFila
<1>3. SinVueltas(j)
  <2> SUFFICES ASSUME NEW i \in Transf(j), NEW k \in Transf(j), i # k,
                      tabla[i].nodo = tabla[k].nodo, tabla[i].blk = tabla[k].blk
               PROVE  FALSE
    BY DEF SinVueltas, Transf, DelJob
  <2>1. i < k \/ k < i
    BY <1>2
  <2> QED
    BY <1>1, <2>1 DEF Repetidas
<1>4. PICK i : i \in EnPie(j, b)
  BY <1>1, <1>3 DEF UnaPorBloque
<1>5. i \in Transf(j) /\ tabla[i].estado = "FinalizadoOK" /\ BloqueDe(tabla[i].nodo, tabla[i].blk) = b
  BY <1>2, <1>4 DEF EnPie, Estados
<1>6. PICK r \in Locales(j) : tabla[r].nodo = tabla[i].nodo
  BY <1>1, <1>3, <1>5 DEF Reducen, Ordenadas
<1>7. ASSUME NEW q \in Locales(j), NEW k \in Filas, NEW z, z = <<q, k>>, Aporta(z, b)
      PROVE  q = r /\ k = i
  <2>1. /\ k \in tabla[q].entradas /\ tabla[k].etapa = "Transformacion"
        /\ BloqueDe(tabla[k].nodo, tabla[k].blk) = b
    BY <1>7 DEF Aporta
  <2>2. k \in Transf(j)
    <3>1. k \in DelJob(j)
      BY <1>1, <2>1 DEF Reducen, Suyas
    <3> QED
      BY <2>1, <3>1 DEF Transf
  <2>3. tabla[k].nodo = tabla[q].nodo /\ tabla[k].estado = "FinalizadoOK"
    BY <1>1, <2>1, <2>2 DEF Reducen, Juntan
  <2>4. k \in EnPie(j, b)
    BY <2>1, <2>2, <2>3 DEF EnPie
  <2>5. k = i
    BY <1>1, <1>3, <1>4, <2>4 DEF UnaPorBloque
  <2> QED
    BY <1>1, <1>6, <2>3, <2>5 DEF Reducen, UnaLocal
<1>8. \A z : z = <<r, i>> => Aporta(z, b)
  <2>1. i \in tabla[r].entradas
    BY <1>1, <1>5, <1>6 DEF Reducen, Juntan
  <2> QED
    BY <1>2, <1>5, <2>1 DEF Aporta
<1>9. Aportes(g, b) = {z \in Locales(j) \X Filas : Aporta(z, b)}
  BY DEF Aportes, Aporta
<1>10. PICK y : y = <<r, i>>
  OBVIOUS
<1>11. y \in Aportes(g, b)
  BY <1>2, <1>5, <1>6, <1>8, <1>9, <1>10
<1>12. ASSUME NEW z \in Aportes(g, b) PROVE z = y
  <2>1. PICK q \in Locales(j), k \in Filas : z = <<q, k>>
    BY <1>9
  <2>2. Aporta(z, b)
    BY <1>9
  <2> QED
    BY <1>7, <1>10, <2>1, <2>2
<1>13. Aportes(g, b) = {y}
  BY <1>11, <1>12
<1> QED
  BY <1>13, FS_Singleton

LEMMA EntradasJustasTras == TypeOK' => EntradasJustas'
BY EntradasJustasEs, PTL

(* An answer of a local reduction: at its node the local reduction itself  *)
(* counts while anything is in process, and the global one weighs where    *)
(* it was ordered, when nothing transforms any more.                       *)
LEMMA CargaReduccionLocalLista ==
  ASSUME IInv, IInv', CInv, NEW s \in Sockets, ReduccionLocalLista(s)
  PROVE  CInv'
<1>1. PICK f, e, ok : f = Head(aYama[s]).fila /\ e = "ReduccionLocal" /\ ok = "FinalizadoOK"
  BY Zenon
<1>2. Respuesta(s, e, 0) /\ FilaResp(s) = tabla[f] /\ Extiende(s)
  BY <1>1, PasoReduccionLocalLista, Zenon DEF ReduccionLocalLista, FilaResp
<1>3. PICK n, j, t : /\ n = tabla[f].nodo /\ j = maestro[s].job
                     /\ t = ActualizoTablaEstado(tabla, tabla[f].nodo, ReduccionLocal, s, tabla[f].job, ok)
  OBVIOUS
<1>4. /\ Crece(j) /\ j \in Jobs /\ TypeOK /\ TypeOK' /\ maestro[s].est # "libre" /\ tabla[f].job = j
  BY <1>2, <1>3, CreceDeRespuesta
<1>5. PICK p \in DelJob(j) : Marcada(f, p, e, t, ok)
  <2>1. tabla[f].blk = ReduccionLocal
    BY <1>1, <1>2, RespuestaEs DEF BienClavada
  <2>2. TablaLista(f, s, t, ok)
    BY <1>3, <2>1 DEF TablaLista
  <2> QED
    BY <1>1, <1>2, <1>3, <2>2, MarcadaEs
<1>6. PICK R, jefe : R = FilasRL(t, s, j) /\ jefe = Encargado(t, R)
  BY Zenon
<1>7. \/ ~ RlTerminada(t, s, j) /\ tabla' = t /\ cargas' = cargas
      \/ /\ RlTerminada(t, s, j)
         /\ tabla' = Append(t, Fila(j, jefe, s, ReduccionGlobal, "ReduccionGlobal", R))
         /\ cargas' = Sumar(cargas, jefe, j, 1 + (Cardinality(R) - 1) \div 2)
      \/ UNCHANGED <<tabla, cargas>>
  BY <1>1, <1>2, <1>3, <1>4, <1>6, Zenon DEF ReduccionLocalLista
<1>8. /\ DOMAIN t = 1 .. Len(tabla) /\ \A i \in DOMAIN t : t[i] \in TipoFila(Len(tabla))
      /\ Filas = 1 .. Len(tabla) /\ \A i \in Filas : MismaClave(t[i], tabla[i])
  BY <1>4, <1>5, RetocadaEs, FilasEs DEF Marcada, EsTabla, Retocada
<1>9. /\ p \in Filas /\ p \in DelJob(j)' /\ tabla'[p].etapa = "ReduccionLocal" /\ tabla'[p].nodo = n
  <2>1. p \in Filas
    BY SubFilas
  <2> QED
    BY <1>1, <1>3, <1>4, <1>5, <2>1, CreceFila, FilasDespues DEF Marcada
<1>10. \A k \in Vivas(j)' : EnCarga(j, n)'
  BY <1>9 DEF EnCarga
<1>11. CASE ~ RlTerminada(t, s, j) /\ tabla' = t /\ cargas' = cargas
  <2>1. PICK q \in DeJob(t, s, j) : t[q].estado # "Error" /\ t[q].estado # "FinalizadoOK"
    BY <1>11 DEF RlTerminada
  <2>2. q \in Filas' /\ tabla'[q].job = j /\ tabla'[q].estado = "EnProceso"
    BY <1>8, <1>11, <2>1 DEF DeJob, TipoFila, Estados, Filas
  <2>3. EnCarga(j, n)'
    BY <1>10, <2>2, VivaEs
  <2>4. Marca(f, p, e) /\ Filas' = Filas
    BY <1>1, <1>4, <1>5, <1>11, MarcaSola
  <2>5. Aparte(j) /\ \A m \in Nodos : CambioIgual(m, j)
    BY <1>4, <1>11, CargasQuietas
  <2>6. \A m \in Nodos : cargas'[m].porJob[j] = cargas[m].porJob[j]
    BY <1>11
  <2>7. SinMasEntradas /\ Exacta(j)'
    <3>1. Exacta(j) /\ e # "Transformacion"
      BY <1>1, <1>4 DEF CInv, EInv
    <3>2. Exacta(j)'
      BY <1>2, <1>3, <1>4, <2>4, <3>1, ExactaOtraEtapa
    <3> QED
      BY <2>4, <3>2 DEF SinMasEntradas
  <2> QED
    BY <1>1, <1>2, <1>3, <2>3, <2>4, <2>5, <2>6, <2>7, CargaUna
<1>12. CASE /\ RlTerminada(t, s, j)
            /\ tabla' = Append(t, Fila(j, jefe, s, ReduccionGlobal, "ReduccionGlobal", R))
            /\ cargas' = Sumar(cargas, jefe, j, 1 + (Cardinality(R) - 1) \div 2)
  <2>1. PICK g, q, k : /\ g = "ReduccionGlobal" /\ q = Fila(j, jefe, s, ReduccionGlobal, g, R)
                       /\ k = 1 + (Cardinality(R) - 1) \div 2
    OBVIOUS
  <2>2. tabla' = Append(t, q) /\ cargas' = Sumar(cargas, jefe, j, k)
    BY <1>12, <2>1
  <2>3. R \in SUBSET (1 .. Len(tabla)) /\ p \in R
    <3>1. R \subseteq 1 .. Len(tabla)
      BY <1>6, <1>8 DEF FilasRL, DeJob
    <3>2. DeJob(t, s, j) = DelJob(j)
      BY <1>3, <1>4, <1>5, DeJobEs DEF Marcada
    <3>3. t[p].etapa = "ReduccionLocal"
      BY <1>1, <1>5, <1>8, <1>9 DEF MismaClave, Marcada
    <3> QED
      BY <1>6, <3>1, <3>2, <3>3 DEF FilasRL
  <2>4. k \in Nat
    <3>1. IsFiniteSet(R) /\ R # {}
      BY <1>4, <2>3, FilasFinitas
    <3>2. Cardinality(R) \in Nat /\ Cardinality(R) # 0
      BY <3>1, FS_CardinalityType, FS_EmptySet
    <3>3. PICK c : c = Cardinality(R)
      OBVIOUS
    <3> QED
      BY <2>1, <3>2, <3>3
  <2>5. jefe \in Nodos
    BY <1>4, <1>6, <1>8, <2>3, EncargadoEs
  <2>6. g \in Etapas /\ ReduccionGlobal \in Int
    BY <2>1 DEF Etapas, ReduccionGlobal
  <2>7. /\ q \in TipoFila(Len(tabla)) /\ q.job = j /\ q.nodo = jefe /\ q.etapa = g /\ q.estado = "EnProceso"
    BY ONLY s \in Sockets, <1>4, <2>1, <2>3, <2>5, <2>6, FilaEs
  <2>8. q.etapa # "Transformacion" /\ q.etapa # "ReduccionLocal" /\ q.entradas = R
    BY <2>1, <2>7 DEF Fila
  <2>9. Marca(f, p, e) /\ Agregada(q)
    BY <1>1, <1>4, <1>5, <2>2, <2>7, <2>8, MarcaUnaMas
  <2>10. PICK i \in Filas' : tabla'[i] = q /\ i \notin Filas /\ \A h \in Filas' : h \in Filas \/ h = i
    BY <2>9 DEF Agregada
  <2>11. EnCarga(j, jefe)' /\ EnCarga(j, n)'
    BY <1>10, <2>7, <2>10, VivaEs
  <2>12. /\ Aparte(j) /\ \A m \in Nodos : CambioIgual(m, j)
         /\ \A m \in Nodos : m # jefe => cargas'[m] = cargas[m]
    BY <1>4, <2>2, <2>4, <2>5, SumarNodo
  <2>13. \A l \in Transf(j)' : tabla'[l].estado # "EnProceso"
    <3> SUFFICES ASSUME NEW l, l \in Transf(j)', tabla'[l].estado = "EnProceso" PROVE FALSE
      OBVIOUS
    <3>1. l \in Filas' /\ tabla'[l].job = j /\ tabla'[l].etapa = "Transformacion"
      BY DEF Transf, DelJob
    <3>2. l \in Filas /\ tabla[l].job = j
      <4>1. l \in Filas
        BY <2>9, <3>1 DEF Marca
      <4> QED
        BY <1>4, <3>1, <4>1, CreceFila
    <3>3. l \in DeJob(t, s, j) /\ t[l].etapa = "Transformacion"
      <4>1. DeJob(t, s, j) = DelJob(j)
        BY <1>3, <1>4, <1>5, DeJobEs DEF Marcada
      <4>2. l \in DelJob(j)
        BY <3>2 DEF DelJob
      <4>3. t[l].etapa = tabla[l].etapa /\ tabla'[l].etapa = tabla[l].etapa
        BY <1>4, <1>8, <3>2, CreceFila DEF MismaClave
      <4> QED
        BY <3>1, <4>1, <4>2, <4>3
    <3>4. t[l].estado = tabla'[l].estado
      BY <1>1, <1>5, <1>8, <2>9, <3>2 DEF Marca, Marcada, Retocada
    <3> QED
      BY <1>12, <3>1, <3>3, <3>4 DEF RlTerminada
  <2>14. \A m \in Nodos : cargas'[m].porJob[j] = cargas[m].porJob[j] \/ (EnCarga(j, m)' /\ ~Transforma(j)')
    <3>1. ~Transforma(j)'
      BY <2>13 DEF Transforma, Vivas
    <3> QED
      BY <2>11, <2>12, <3>1
  <2>15. Exacta(j)'
    <3>1. Exacta(j) /\ e # "Transformacion"
      BY <1>1, <1>4 DEF CInv, EInv
    <3>2. \A h \in Filas' : h \in Filas \/ tabla'[h].etapa \notin {"Transformacion", "ReduccionLocal"}
      BY <2>8, <2>10
    <3> QED
      BY <1>2, <1>3, <1>4, <2>9, <3>1, <3>2, ExactaOtraEtapa
  <2>16. R = Locales(j)'
    <3>1. DeJob(t, s, j) = DelJob(j)
      BY <1>3, <1>4, <1>5, DeJobEs DEF Marcada
    <3>2. R = Locales(j)
      <4>1. \A h \in DelJob(j) : t[h].etapa = tabla[h].etapa
        BY <1>8, SubFilas DEF MismaClave
      <4> QED
        BY <1>6, <3>1, <4>1 DEF FilasRL, Locales
    <3>3. Locales(j) \subseteq Filas /\ Locales(j)' \subseteq Filas' /\ \A h \in Filas : h \in Locales(j) <=> h \in Locales(j)'
      BY <1>4, LocalesDespues
    <3>4. i \notin Locales(j)'
      BY <2>8, <2>10 DEF Locales
    <3> QED
      BY <2>10, <3>2, <3>3, <3>4
  <2>17. EntradaDe(i)'
    <3>1. tabla'[i].job = j /\ tabla'[i].entradas = Locales(j)' /\ i \in Vivas(j)'
      BY <2>7, <2>8, <2>10, <2>16 DEF Vivas, DelJob
    <3>2. EntradasJustas'
      BY <1>4, EntradasJustasTras DEF IInv
    <3> QED
      BY <1>4, <2>10, <2>13, <2>15, <3>1, <3>2 DEF EntradasJustas, EnMarcha, EntradaDe, Jobs
  <2>18. SinMasEntradas
    BY <2>10, <2>17 DEF SinMasEntradas
  <2> QED
    BY <1>1, <1>2, <1>3, <2>9, <2>11, <2>12, <2>14, <2>15, <2>18, CargaUna
<1>13. CASE UNCHANGED <<tabla, cargas>>
  <2>1. tardios \subseteq tardios'
    BY <1>4 DEF Crece
  <2> QED
    BY <1>13, <2>1, CInvQuieto
<1> QED
  BY <1>7, <1>11, <1>12, <1>13

-----------------------------------------------------------------------------
(* A batch of transformations added to the table: row Len(tabla) + b has   *)
(* the node and the block of w[b].                                         *)

Puesta(j, k, q) ==
  /\ k \in Filas' /\ k \notin Filas /\ tabla'[k].job = j /\ tabla'[k].nodo = q.nodo
  /\ tabla'[k].blk = q.blk /\ tabla'[k].etapa = "Transformacion" /\ tabla'[k].estado = "EnProceso"

Lote(j, m, w) ==
  /\ \A b \in 1 .. m : Puesta(j, Len(tabla) + b, w[b])
  /\ \A i \in Filas' : i \in Filas \/ \E b \in 1 .. m : i = Len(tabla) + b

Tanda(j, m, v) ==
  /\ v \in [1 .. m -> TipoFila(Len(tabla))]
  /\ \A b \in 1 .. m : v[b].job = j /\ v[b].etapa = "Transformacion" /\ v[b].estado = "EnProceso"

EnNodo(w, m, n) == {b \in 1 .. m : w[b].nodo = n}

LEMMA LoteEs ==
  ASSUME TypeOK, TypeOK', NEW j, NEW m \in Nat, NEW t \in Seq(TipoFila(Len(tabla))), NEW D, NEW x,
         Retocada(tabla, t, D, x), NEW v, Tanda(j, m, v), tabla' = t \o v
  PROVE  Lote(j, m, v) /\ \A i \in Filas : tabla'[i] = t[i]
<1>1. PICK n0, u : n0 = Len(tabla) /\ u = tabla'
  OBVIOUS
<1>2. n0 \in Nat /\ Filas = 1 .. n0 /\ Len(t) = n0
  BY <1>1, FilasEs DEF EsTabla, Retocada
<1>3. TablaDe(t, n0) /\ FilasDe(v, m, n0) /\ u = t \o v
  BY <1>1, <1>2 DEF TablaDe, FilasDe, Tanda
<1>4. TablaDe(u, n0 + m) /\ Alargada(t, u, m) /\ Cola(u, n0, m, v)
  BY <1>2, <1>3, VariasMas
<1>5. Filas' = 1 .. n0 + m
  BY <1>1, <1>4, FilasEsTras DEF EsTabla, TablaDe
<1>6. \A i \in Filas : tabla'[i] = t[i]
  BY <1>1, <1>2, <1>4 DEF Alargada
<1>7. ASSUME NEW b \in 1 .. m PROVE Puesta(j, n0 + b, v[b])
  <2>1. PICK k : k = n0 + b
    OBVIOUS
  <2>2. k \in n0 + 1 .. n0 + m /\ k - n0 = b /\ k \in 1 .. n0 + m /\ k \notin 1 .. n0
    BY <1>2, <2>1
  <2>3. tabla'[k] = v[b]
    BY <1>1, <1>4, <2>2 DEF Cola
  <2> QED
    BY <1>2, <1>5, <2>1, <2>2, <2>3 DEF Puesta, Tanda
<1>8. ASSUME NEW i \in Filas', i \notin Filas PROVE \E b \in 1 .. m : i = n0 + b
  <2>1. PICK b : b = i - n0
    OBVIOUS
  <2>2. b \in 1 .. m /\ i = n0 + b
    BY <1>2, <1>5, <1>8, <2>1
  <2> QED
    BY <2>2
<1> QED
  BY <1>1, <1>6, <1>7, <1>8 DEF Lote

LEMMA EnNodoFinito ==
  ASSUME NEW w, NEW m \in Nat, NEW n
  PROVE  IsFiniteSet(EnNodo(w, m, n)) /\ Cardinality(EnNodo(w, m, n)) \in Nat
<1>1. 1 \in Int /\ m \in Int
  OBVIOUS
<1>2. IsFiniteSet(1 .. m)
  BY <1>1, FS_Interval
<1>3. EnNodo(w, m, n) \subseteq 1 .. m
  BY DEF EnNodo
<1>4. IsFiniteSet(EnNodo(w, m, n))
  BY <1>2, <1>3, FS_Subset
<1> QED
  BY <1>4, FS_CardinalityType

LEMMA TransfFinito ==
  ASSUME TypeOK, NEW j, NEW n
  PROVE  IsFiniteSet(TransfEn(j, n)) /\ Cardinality(TransfEn(j, n)) \in Nat
<1>1. TransfEn(j, n) \subseteq 1 .. Len(tabla)
  BY SubFilas, FilasEs DEF EsTabla
<1>2. IsFiniteSet(TransfEn(j, n))
  BY <1>1, FilasFinitas
<1> QED
  BY <1>2, FS_CardinalityType

LEMMA LoteCuenta ==
  ASSUME TypeOK, NEW j, Crece(j), NEW m \in Nat, NEW w, Lote(j, m, w), NEW n
  PROVE  Cardinality(TransfEn(j, n)') = Cardinality(TransfEn(j, n)) + Cardinality(EnNodo(w, m, n))
<1>1. PICK n0, S, T, A : /\ n0 = Len(tabla) /\ S = EnNodo(w, m, n) /\ A = TransfEn(j, n)
                         /\ T = TransfEn(j, n)' \ A
  OBVIOUS
<1>2. n0 \in Nat /\ Filas = 1 .. n0 /\ IsFiniteSet(S) /\ IsFiniteSet(A)
      /\ Cardinality(S) \in Nat /\ Cardinality(A) \in Nat
  BY <1>1, FilasEs, EnNodoFinito, TransfFinito DEF EsTabla
<1>3. A \subseteq TransfEn(j, n)' /\ \A i \in T : i \notin Filas /\ i \in Filas'
  <2>1. A \subseteq Filas
    BY <1>1, SubFilas
  <2>2. \A i \in Filas : i \in TransfEn(j, n) <=> i \in TransfEn(j, n)'
    BY FilasDespues
  <2>3. TransfEn(j, n)' \subseteq Filas'
    BY DEF TransfEn, Transf, DelJob
  <2> QED
    BY <1>1, <2>1, <2>2, <2>3
<1>4. \A b \in 1 .. m : Puesta(j, n0 + b, w[b])
  BY <1>1 DEF Lote
<1>5. ASSUME NEW b \in S PROVE n0 + b \in T
  <2>1. b \in 1 .. m /\ w[b].nodo = n
    BY <1>1, <1>5 DEF EnNodo
  <2>2. PICK k : k = n0 + b
    OBVIOUS
  <2>3. Puesta(j, k, w[b])
    BY <1>4, <2>1, <2>2
  <2>4. k \in TransfEn(j, n)' /\ k \notin Filas
    BY <2>1, <2>3 DEF Puesta, TransfEn, Transf, DelJob
  <2>5. k \notin A
    BY <1>1, <2>4, SubFilas
  <2> QED
    BY <1>1, <2>2, <2>4, <2>5
<1>6. ASSUME NEW i \in T PROVE \E b \in S : i = n0 + b
  <2>1. PICK b \in 1 .. m : i = n0 + b
    BY <1>1, <1>3, <1>6 DEF Lote
  <2>2. Puesta(j, i, w[b])
    BY <1>4, <2>1
  <2>3. tabla'[i].nodo = n
    BY <1>1, <1>6 DEF TransfEn
  <2>4. b \in S
    BY <1>1, <2>1, <2>2, <2>3 DEF Puesta, EnNodo
  <2> QED
    BY <2>1, <2>4
<1>7. PICK F : F = [b \in S |-> n0 + b]
  OBVIOUS
<1>8. F \in Surjection(S, T)
  BY <1>5, <1>6, <1>7 DEF Surjection
<1>9. F \in Injection(S, T)
  <2>1. \A b \in S : b \in Nat
    BY <1>1 DEF EnNodo
  <2>2. F \in [S -> T]
    BY <1>5, <1>7
  <2>3. \A a, b \in S : F[a] = F[b] => a = b
    BY ONLY <1>2, <1>7, <2>1
  <2> QED
    BY <2>2, <2>3 DEF Injection, IsInjective
<1>10. IsFiniteSet(T) /\ Cardinality(T) = Cardinality(S)
  BY <1>2, <1>8, <1>9, FS_Surjection
<1>11. TransfEn(j, n)' = A \cup T /\ A \cap T = {}
  BY <1>1, <1>3
<1>12. Cardinality(A \cup T) = Cardinality(A) + Cardinality(T) - Cardinality(A \cap T)
  BY <1>2, <1>10, FS_Union
<1>13. Cardinality(A \cap T) = 0
  BY <1>11, FS_EmptySet
<1>14. PICK x, y, z, o : x = Cardinality(A \cup T) /\ y = Cardinality(A) /\ z = Cardinality(T) /\ o = Cardinality(S)
  OBVIOUS
<1>15. x = y + o
  <2>1. x = y + z - 0 /\ z = o /\ y \in Nat /\ o \in Nat
    BY <1>2, <1>10, <1>12, <1>13, <1>14
  <2> QED
    BY ONLY <2>1
<1> QED
  BY <1>1, <1>11, <1>14, <1>15

(* The block of a copy, and the other copy of a block.                     *)

LEMMA BloqueEs ==
  ASSUME NEW b \in Bloques, NEW i \in 1 .. 2, NEW n, NEW k,
         Archivo[b][i] # SinCopia, Archivo[b][i] = [nodo |-> n, blk |-> k]
  PROVE  BloqueDe(n, k) = b
<1>1. PICK d : d = BloqueDe(n, k)
  OBVIOUS
<1>2. d \in Bloques /\ \E h \in 1 .. 2 : Archivo[d][h] = [nodo |-> n, blk |-> k]
  BY <1>1 DEF BloqueDe
<1>3. b \in DOMAIN Archivo /\ d \in DOMAIN Archivo
  BY <1>2, JobsAssumption DEF Bloques
<1>4. PICK h \in 1 .. 2 : Archivo[b][i] = Archivo[d][h]
  BY <1>2
<1> QED
  BY <1>1, <1>3, <1>4, CopiasPropias

LEMMA DosCopias ==
  ASSUME NEW n, NEW b, EsCopia(n, b), NEW u, NEW c, EsCopia(u, c), BloqueDe(n, b) = BloqueDe(u, c),
         n # u \/ b # c
  PROVE  [nodo |-> u, blk |-> c] = OtraCopia(n, b)
<1>1. PICK x, y, k : x = [nodo |-> n, blk |-> b] /\ y = [nodo |-> u, blk |-> c] /\ k = BloqueDe(n, b)
  OBVIOUS
<1>2. x # y
  BY <1>1
<1>3. \E i \in 1 .. 2 : Archivo[k][i] = x
  BY <1>1 DEF BloqueDe, EsCopia
<1>4. \E i \in 1 .. 2 : Archivo[k][i] = y
  <2>1. k = BloqueDe(u, c)
    BY <1>1
  <2> QED
    BY <1>1, <2>1 DEF BloqueDe, EsCopia
<1>5. \A i \in 1 .. 2 : i = 1 \/ i = 2
  OBVIOUS
<1>6. OtraCopia(n, b) = IF Archivo[k][1] = x THEN Archivo[k][2] ELSE Archivo[k][1]
  BY <1>1 DEF OtraCopia
<1> QED
  BY <1>1, <1>2, <1>3, <1>4, <1>5, <1>6

LEMMA EnPieTras ==
  ASSUME NEW j, NEW b, NEW i
  PROVE  i \in EnPie(j, b)' <=> /\ i \in Transf(j)' /\ tabla'[i].estado # "Error"
                               /\ BloqueDe(tabla'[i].nodo, tabla'[i].blk) = b
BY DEF EnPie, BloqueDe, Bloques

(* A node whose entry is written whole. *)
LEMMA PonerNodo ==
  ASSUME TypeOK, NEW j \in Jobs, NEW n \in Nodos, NEW a \in Int, NEW y \in Nat,
         cargas'[n] = [actual |-> a, porJob |-> [cargas[n].porJob EXCEPT ![j] = y]]
  PROVE  /\ cargas[n].porJob[j] \in Nat /\ cargas[n].actual \in Int
         /\ cargas'[n].porJob[j] = y /\ cargas'[n].actual = a
         /\ \A x \in Jobs : x # j => cargas'[n].porJob[x] = cargas[n].porJob[x]
         /\ a = cargas[n].actual + (y - cargas[n].porJob[j]) => CambioIgual(n, j)
<1>1. PICK b, f, g : b = cargas[n].actual /\ f = cargas[n].porJob /\ g = [f EXCEPT ![j] = y]
  OBVIOUS
<1>2. b \in Int /\ f \in [Jobs -> Nat]
  BY <1>1 DEF TypeOK, TipoCarga
<1>3. f[j] \in Nat /\ g[j] = y /\ \A x \in Jobs : x # j => g[x] = f[x]
  BY ONLY <1>1, <1>2, j \in Jobs
<1>4. cargas'[n] = [actual |-> a, porJob |-> g]
  BY <1>1
<1>5. cargas'[n].actual = a /\ cargas'[n].porJob = g
  BY <1>4
<1> QED
  BY <1>1, <1>2, <1>3, <1>5 DEF CambioIgual

(* The first rows of a job: what weighs on a node is what it transforms.   *)
LEMMA CargaInicial ==
  ASSUME TypeOK, TypeOK', CInv, NEW j \in Jobs, Crece(j), DelJob(j) = {}, NEW m \in Nat, NEW w,
         Lote(j, m, w), Bloques = 1 .. m, \A b \in Bloques : BloqueDe(w[b].nodo, w[b].blk) = b,
         cargas' = [n \in Nodos |-> [actual |-> cargas[n].actual + Cardinality(EnNodo(w, m, n)),
                                     porJob |-> [cargas[n].porJob EXCEPT ![j] = Cardinality(EnNodo(w, m, n))]]]
  PROVE  CInv'
<1>1. Justificada(j) /\ \A n : TransfEn(j, n) = {} /\ Vivas(j) = {}
  BY SubFilas DEF CInv, CargaDe
<1>2. ASSUME NEW n \in Nodos
      PROVE  /\ cargas'[n].porJob[j] = Cardinality(EnNodo(w, m, n)) /\ CambioIgual(n, j)
             /\ \A x \in Jobs : x # j => cargas'[n].porJob[x] = cargas[n].porJob[x]
  <2>1. PICK y, a : y = Cardinality(EnNodo(w, m, n)) /\ a = cargas[n].actual + y
    OBVIOUS
  <2>2. y \in Nat
    BY <2>1, EnNodoFinito
  <2>3. cargas[n].actual \in Int
    BY DEF TypeOK, TipoCarga
  <2>4. a \in Int /\ a = cargas[n].actual + (y - 0)
    BY ONLY <2>1, <2>2, <2>3
  <2>5. cargas'[n] = [actual |-> a, porJob |-> [cargas[n].porJob EXCEPT ![j] = y]]
    BY <2>1
  <2>6. cargas[n].porJob[j] = 0
    BY <1>1 DEF Justificada, EnCarga
  <2>7. a = cargas[n].actual + (y - cargas[n].porJob[j])
    BY ONLY <2>4, <2>6
  <2> QED
    BY <2>1, <2>2, <2>4, <2>5, <2>7, PonerNodo, SMTT(30)
<1>3. Aparte(j) /\ \A n \in Nodos : CambioIgual(n, j)
  BY <1>2 DEF Aparte
<1>4. \A i \in Filas' : tabla'[i].job = j => tabla'[i].estado = "EnProceso"
  <2> SUFFICES ASSUME NEW i \in Filas', tabla'[i].job = j PROVE tabla'[i].estado = "EnProceso"
    OBVIOUS
  <2>1. i \notin Filas
    BY CreceFila DEF DelJob
  <2>2. PICK b \in 1 .. m : i = Len(tabla) + b
    BY <2>1 DEF Lote
  <2> QED
    BY <2>2 DEF Lote, Puesta
<1>5. Justificada(j)'
  <2> SUFFICES ASSUME NEW n \in Nodos, cargas'[n].porJob[j] # 0 PROVE EnCarga(j, n)'
    BY DEF Justificada
  <2>1. EnNodo(w, m, n) # {}
    <3>1. Cardinality(EnNodo(w, m, n)) # 0
      BY <1>2
    <3> QED
      BY <3>1, FS_EmptySet
  <2>2. PICK b \in 1 .. m : w[b].nodo = n
    BY <2>1 DEF EnNodo
  <2>3. PICK k : k = Len(tabla) + b
    OBVIOUS
  <2>4. Puesta(j, k, w[b])
    BY <2>3 DEF Lote
  <2>5. k \in Filas' /\ tabla'[k].job = j /\ tabla'[k].estado = "EnProceso" /\ n = tabla'[k].nodo
    BY <2>2, <2>4 DEF Puesta
  <2> QED
    BY <2>5, VivaEs
<1>6. Repuestas(j)'
  BY <1>4 DEF Repuestas, Transf, DelJob
<1>7. Pesada(j)'
  <2> SUFFICES ASSUME NEW n \in Nodos PROVE cargas'[n].porJob[j] = Cardinality(TransfEn(j, n)')
    BY DEF Pesada
  <2>1. PICK x, y, z : x = Cardinality(TransfEn(j, n)') /\ y = Cardinality(EnNodo(w, m, n))
                       /\ z = Cardinality(TransfEn(j, n))
    OBVIOUS
  <2>2. x = z + y
    BY <2>1, LoteCuenta
  <2>3. z = 0
    <3>1. TransfEn(j, n) = {}
      BY <1>1
    <3> QED
      BY <2>1, <3>1, FS_EmptySet
  <2>4. y \in Nat
    BY <2>1, EnNodoFinito
  <2>5. x = y
    BY ONLY <2>2, <2>3, <2>4
  <2> QED
    BY <1>2, <2>1, <2>5
<1>8. ASSUME NEW i \in Filas', i \notin Filas
      PROVE  /\ tabla'[i].etapa = "Transformacion"
             /\ \E b \in Bloques : i = Len(tabla) + b /\ BloqueDe(tabla'[i].nodo, tabla'[i].blk) = b
  <2>1. PICK b \in 1 .. m : i = Len(tabla) + b
    BY <1>8 DEF Lote
  <2>2. PICK q : q = w[b]
    OBVIOUS
  <2>3. Puesta(j, i, q)
    BY <2>1, <2>2 DEF Lote
  <2>4. BloqueDe(q.nodo, q.blk) = b
    BY <2>2
  <2> QED
    BY <2>1, <2>3, <2>4 DEF Puesta
<1>9. SinMasEntradas
  BY <1>8 DEF SinMasEntradas
<1>10. \A i \in DelJob(j)' : i \in Filas' /\ i \notin Filas /\ tabla'[i].etapa = "Transformacion"
  <2>1. \A i \in DelJob(j)' : i \in Filas' /\ i \notin Filas
    BY CreceFila DEF DelJob
  <2> QED
    BY <1>8, <2>1
<1>11. Repetidas(j)' /\ Locales(j)' = {} /\ \A i \in Transf(j)' : tabla'[i].estado = "EnProceso"
  BY <1>4, <1>10 DEF Repetidas, Transf, DelJob, Locales
<1>12. UnaPorBloque(j)'
  <2> SUFFICES ASSUME NEW b \in Bloques
               PROVE  EnPie(j, b)' # {} /\ \A i, k \in EnPie(j, b)' : i = k
    BY DEF UnaPorBloque, Bloques
  <2>1. PICK k, q : k = Len(tabla) + b /\ q = w[b]
    OBVIOUS
  <2>2. Puesta(j, k, q) /\ BloqueDe(q.nodo, q.blk) = b
    BY <2>1 DEF Lote
  <2>3. k \in Transf(j)' /\ tabla'[k].estado # "Error" /\ BloqueDe(tabla'[k].nodo, tabla'[k].blk) = b
    BY <2>2 DEF Puesta, Transf, DelJob
  <2>4. ASSUME NEW i \in EnPie(j, b)' PROVE i = k
    <3>1. i \in DelJob(j)' /\ BloqueDe(tabla'[i].nodo, tabla'[i].blk) = b
      BY EnPieTras DEF Transf
    <3> QED
      BY <1>8, <1>10, <2>1, <3>1
  <2> QED
    BY <2>3, <2>4, EnPieTras
<1>13. Exacta(j)'
  BY <1>11, <1>12 DEF Exacta, Reducen, Cerradas, UnaLocal, Juntan, Suyas, Ordenadas
<1> QED
  BY <1>3, <1>5, <1>6, <1>7, <1>9, <1>13, CInvDe DEF CargaDe

LEMMA CargaIniciarJob ==
  ASSUME IInv, IInv', CInv, NEW s \in Sockets, IniciarJob(s)
  PROVE  CInv'
<1>1. maestro[s].est = "pide" /\ tardios' = tardios
  BY DEF IniciarJob
<1>2. PICK j, g, x, n0, t, D : j = maestro[s].job /\ g = "Transformacion" /\ x = "Error" /\ n0 = Len(tabla)
                               /\ t = tabla /\ D = {}
  OBVIOUS
<1>3. TypeOK /\ TypeOK' /\ j \in Jobs /\ n0 \in Nat /\ DelJob(j) = {}
  <2>1. TypeOK /\ TypeOK' /\ j \in Jobs /\ n0 \in Nat
    BY <1>1, <1>2, FilasEs DEF IInv, Numerados, EsTabla
  <2>2. \A i \in Filas : tabla[i].job # j
    BY <1>1, <1>2 DEF IInv, Numerados, EnYama
  <2> QED
    BY <2>1, <2>2 DEF DelJob
<1>4. Crece(j)
  <2>1. Extiende(s)
    BY PasoIniciarJob
  <2> QED
    BY <1>1, <1>2, <1>3, <2>1, CreceEs
<1> DEFINE Primeras(p) == [b \in Bloques |-> Fila(j, p[b], s, Copia(b, p[b]).blk, g, {})]
           Carga(p, n) == Cardinality({b \in Bloques : p[b] = n})
<1>5. PICK act : /\ act \in ListasActivas /\ activos' = act
                 /\ \/ Enviar(s, ErrorJob) /\ UNCHANGED <<tabla, cargas>>
                    \/ \E p \in Planes(act) :
                         /\ tabla' = tabla \o Primeras(p)
                         /\ cargas' = [n \in Nodos |->
                                         [actual |-> cargas[n].actual + Carga(p, n),
                                          porJob |-> [cargas[n].porJob EXCEPT ![j] = Carga(p, n)]]]
                         /\ Enviar(s, Etapa(n0 + 1 .. n0 + Len(Archivo)))
  BY <1>2 DEF IniciarJob
<1>6. CASE UNCHANGED <<tabla, cargas>>
  BY <1>1, <1>6, CInvQuieto
<1>7. ASSUME NEW p \in Planes(act), tabla' = tabla \o Primeras(p),
             cargas' = [n \in Nodos |-> [actual |-> cargas[n].actual + Carga(p, n),
                                        porJob |-> [cargas[n].porJob EXCEPT ![j] = Carga(p, n)]]]
      PROVE  CInv'
  <2>1. PICK m, v : m = Len(Archivo) /\ v = Primeras(p)
    OBVIOUS
  <2>2. m \in Nat /\ Bloques = 1 .. m
    <3>1. Len(Archivo) \in Nat
      BY JobsAssumption, LenProperties
    <3> QED
      BY <2>1, <3>1 DEF Bloques
  <2>3. ASSUME NEW b \in Bloques
        PROVE  /\ v[b] \in TipoFila(n0) /\ v[b].nodo = p[b] /\ v[b].job = j
               /\ v[b].etapa = "Transformacion" /\ v[b].estado = "EnProceso"
               /\ BloqueDe(v[b].nodo, v[b].blk) = b
    <3>1. PICK n, k, A, q : n = p[b] /\ k = Copia(b, n).blk /\ A = {} /\ q = Fila(j, n, s, k, g, A)
      OBVIOUS
    <3>2. /\ n \in Nodos /\ k \in Nat
          /\ \E i \in 1 .. 2 : Archivo[b][i] # SinCopia /\ Archivo[b][i] = [nodo |-> n, blk |-> k]
      BY ONLY <1>5, p \in Planes(act), b \in Bloques, <3>1, PlanEs
    <3>3. k \in Int /\ A \in SUBSET (1 .. Len(tabla)) /\ g \in Etapas
      BY <1>2, <3>1, <3>2 DEF Etapas
    <3>4. BloqueDe(n, k) = b
      BY <3>2, BloqueEs
    <3>5. v[b] = q
      BY <2>1, <3>1
    <3>6. /\ q \in TipoFila(Len(tabla)) /\ q.master = s /\ q.job = j /\ q.nodo = n /\ q.blk = k
          /\ q.etapa = g /\ q.estado = "EnProceso"
      BY <1>3, <3>1, <3>2, <3>3, FilaEs
    <3> QED
      BY <1>2, <3>1, <3>4, <3>5, <3>6
  <2>4. v \in [1 .. m -> TipoFila(Len(tabla))]
    BY <1>2, <2>1, <2>2, <2>3
  <2>5. Lote(j, m, v)
    <3>1. t \in Seq(TipoFila(Len(tabla))) /\ Retocada(tabla, t, D, x) /\ tabla' = t \o v
      BY <1>2, <1>3, <1>7, <2>1, SinRetoque
    <3>2. Tanda(j, m, v)
      BY <2>2, <2>3, <2>4 DEF Tanda
    <3> QED
      BY <1>3, <2>2, <3>1, <3>2, LoteEs
  <2>6. \A n : Carga(p, n) = Cardinality(EnNodo(v, m, n))
    <3>1. \A n : {b \in Bloques : p[b] = n} = EnNodo(v, m, n)
      BY <2>2, <2>3 DEF EnNodo
    <3> QED
      BY <3>1
  <2>7. cargas' = [n \in Nodos |-> [actual |-> cargas[n].actual + Cardinality(EnNodo(v, m, n)),
                                    porJob |-> [cargas[n].porJob EXCEPT ![j] = Cardinality(EnNodo(v, m, n))]]]
    <3> HIDE DEF Carga, Primeras
    <3> QED
      BY <1>7, <2>6
  <2> HIDE DEF Primeras, Carga
  <2>8. \A b \in Bloques : BloqueDe(v[b].nodo, v[b].blk) = b
    BY <2>3
  <2> QED
    BY <1>3, <1>4, <2>2, <2>5, <2>7, <2>8, CargaInicial
<1> HIDE DEF Primeras, Carga
<1> QED
  BY <1>5, <1>6, <1>7

-----------------------------------------------------------------------------
(* The rows replanned: each one that is marked as Error is among them, has *)
(* the keys of some, and is the first with those.                          *)

Viejas(j, n, t, x, D) ==
  /\ D \subseteq TransfEn(j, n) /\ t \in Seq(TipoFila(Len(tabla))) /\ Retocada(tabla, t, D, x)
  /\ \A i \in TransfEn(j, n) : \E d \in D : tabla[d].blk = tabla[i].blk
  /\ \A d \in D : Primera(j, d)

LEMMA ViejasEs ==
  ASSUME IInv, NEW s \in Sockets, maestro[s].est # "libre", NEW j, j = maestro[s].job, NEW n,
         NEW x, x = "Error", NEW t, t = MarcarError(n, s, j)
  PROVE  /\ FilasTransf(n, s, j) = TransfEn(j, n)
         /\ \E D : Viejas(j, n, t, x, D)
<1>1. TypeOK /\ Claves /\ tabla \in Seq(TipoFila(Len(tabla))) /\ Len(tabla) \in Nat /\ x \in Estados
  BY FilasEs DEF IInv, EsTabla, TypeOK, Estados
<1>2. DeJob(tabla, s, j) = DelJob(j)
  <2>1. PICK u, D : u = tabla /\ D = {}
    OBVIOUS
  <2>2. u \in Seq(TipoFila(Len(tabla))) /\ Retocada(tabla, u, D, x)
    BY <1>1, <2>1, SinRetoque
  <2> QED
    BY <2>2, DeJobEs
<1>3. FilasTransf(n, s, j) = TransfEn(j, n)
  BY <1>2 DEF FilasTransf, TransfEn, Transf
<1>4. PICK D : D = {PrimeraFila(tabla, n, tabla[i].blk, s, j) : i \in TransfEn(j, n)}
  OBVIOUS
<1>5. ASSUME NEW i \in TransfEn(j, n), NEW d, d = PrimeraFila(tabla, n, tabla[i].blk, s, j)
      PROVE  d \in TransfEn(j, n) /\ tabla[d].blk = tabla[i].blk /\ Primera(j, d)
  <2>1. i \in DelJob(j) /\ i \in Filas /\ tabla[i].nodo = n /\ tabla[i].etapa = "Transformacion"
    BY DEF TransfEn, Transf, DelJob
  <2>2. PICK b : b = tabla[i].blk
    OBVIOUS
  <2>3. /\ d \in DeJob(tabla, s, j) /\ d \in Filas /\ tabla[d].nodo = n /\ tabla[d].blk = b
        /\ \A h \in DeJob(tabla, s, j) : tabla[h].nodo = n /\ tabla[h].blk = b => d <= h
    <3>1. i \in DeJob(tabla, s, j) /\ d = PrimeraFila(tabla, n, b, s, j)
      BY <1>2, <1>5, <2>1, <2>2
    <3> QED
      BY ONLY <1>1, <2>1, <2>2, <3>1, PrimeraFilaEs
  <2>4. PICK q, r : q = tabla[i] /\ r = tabla[d]
    OBVIOUS
  <2>5. q \in TipoFila(Len(tabla)) /\ r \in TipoFila(Len(tabla)) /\ BienClavada(q) /\ BienClavada(r)
    BY <1>1, <2>1, <2>3, <2>4, FilasEs DEF EsTabla, Claves
  <2>6. q.etapa \in Etapas /\ r.etapa \in Etapas /\ q.blk = r.blk
    BY <2>2, <2>3, <2>4, <2>5 DEF TipoFila
  <2>7. q.etapa = r.etapa
    BY <2>5, <2>6, MismaEtapa
  <2>8. Primera(j, d)
    BY <1>2, <2>3 DEF Primera
  <2> QED
    BY <1>2, <2>1, <2>2, <2>3, <2>4, <2>7, <2>8 DEF TransfEn, Transf
<1>6. /\ D \in SUBSET TransfEn(j, n) /\ \A i \in TransfEn(j, n) : \E d \in D : tabla[d].blk = tabla[i].blk
      /\ \A d \in D : Primera(j, d)
  BY <1>4, <1>5
<1>7. PICK u : u = t
  OBVIOUS
<1>8. u = [i \in DOMAIN tabla |-> IF i \in D THEN [tabla[i] EXCEPT !.estado = x] ELSE tabla[i]]
  BY <1>3, <1>4, <1>7 DEF MarcarError
<1>9. u \in Seq(TipoFila(Len(tabla))) /\ Retocada(tabla, u, D, x)
  BY <1>1, <1>8, RetocaVarias
<1>10. t \in Seq(TipoFila(Len(tabla))) /\ Retocada(tabla, t, D, x)
  BY <1>7, <1>9
<1> QED
  BY <1>3, <1>6, <1>10 DEF Viejas

LEMMA RepuestaEs ==
  ASSUME NEW j, NEW i, NEW k \in Transf(j)',
         [nodo |-> tabla'[k].nodo, blk |-> tabla'[k].blk] = OtraCopia(tabla'[i].nodo, tabla'[i].blk)
  PROVE  Repuesta(j, i)'
BY DEF Repuesta, OtraCopia, BloqueDe, Bloques

(* The rows of a set in order are all of them. *)
LEMMA OrdenEs ==
  ASSUME NEW S \in SUBSET Nat, IsFiniteSet(S), NEW m, m = Cardinality(S), NEW o \in EnOrden(S)
  PROVE  m \in Nat /\ o \in [1 .. m -> S] /\ \A x \in S : \E b \in 1 .. m : o[b] = x
<1>1. m \in Nat /\ o \in [1 .. m -> S] /\ \A a, b \in DOMAIN o : a < b => o[a] < o[b]
  BY FS_CardinalityType DEF EnOrden
<1>2. IsFiniteSet(1 .. m) /\ Cardinality(1 .. m) = m
  <2>1. 1 \in Int /\ m \in Int
    BY <1>1
  <2>2. IsFiniteSet(1 .. m) /\ Cardinality(1 .. m) = IF 1 > m THEN 0 ELSE m - 1 + 1
    BY <2>1, FS_Interval
  <2> QED
    BY <1>1, <2>2
<1>3. o \in Injection(1 .. m, S)
  <2>1. \A a, b \in 1 .. m : o[a] = o[b] => a = b
    <3> SUFFICES ASSUME NEW a \in 1 .. m, NEW b \in 1 .. m, o[a] = o[b], a # b PROVE FALSE
      OBVIOUS
    <3>1. a < b \/ b < a
      BY <1>1
    <3>2. o[a] < o[b] \/ o[b] < o[a]
      BY <1>1, <3>1
    <3>3. o[a] \in Nat /\ o[b] \in Nat
      BY <1>1
    <3> QED
      BY <3>2, <3>3
  <2> QED
    BY <1>1, <2>1 DEF Injection, IsInjective
<1>4. o \in Surjection(1 .. m, S)
  BY <1>2, <1>3, FS_Injection
<1> QED
  BY <1>1, <1>4 DEF Surjection

(* What a replanning of node n does to the table: the rows of D go to      *)
(* Error, and row b of the batch w has the other copy of row o[b] of n,    *)
(* which is of the same block.                                             *)
Replan(j, n, D, m, o, w) ==
  /\ D \subseteq TransfEn(j, n) /\ \A i \in TransfEn(j, n) : \E d \in D : tabla[d].blk = tabla[i].blk
  /\ \A d \in D : Primera(j, d)
  /\ m \in Nat \ {0} /\ m = Cardinality(TransfEn(j, n))
  /\ o \in [1 .. m -> TransfEn(j, n)] /\ \A i \in TransfEn(j, n) : \E b \in 1 .. m : o[b] = i
  /\ Lote(j, m, w)
  /\ \A b \in 1 .. m : /\ [nodo |-> w[b].nodo, blk |-> w[b].blk] = OtraCopia(n, tabla[o[b]].blk)
                       /\ BloqueDe(w[b].nodo, w[b].blk) = BloqueDe(n, tabla[o[b]].blk)
  /\ \A i \in Filas : tabla'[i].estado = IF i \in D THEN "Error" ELSE tabla[i].estado

(* In a job where no block came back, all of the rows of the node go. *)
LEMMA TodasViejas ==
  ASSUME NEW j, NEW n, NEW D, NEW m, NEW o, NEW w, Replan(j, n, D, m, o, w), SinVueltas(j)
  PROVE  D = TransfEn(j, n)
<1> SUFFICES ASSUME NEW i \in TransfEn(j, n) PROVE i \in D
  BY DEF Replan
<1>1. PICK d \in D : tabla[d].blk = tabla[i].blk
  BY DEF Replan
<1>2. d \in TransfEn(j, n)
  BY DEF Replan
<1>3. d = i
  BY <1>1, <1>2 DEF TransfEn, Transf, DelJob, SinVueltas
<1> QED
  BY <1>3

(* Each of them is replaced by the row of the batch that came of it. *)
LEMMA NuevaDe ==
  ASSUME NEW j, Crece(j), NEW n, NEW D, NEW m, NEW o, NEW w, Replan(j, n, D, m, o, w),
         NEW i \in TransfEn(j, n)
  PROVE  \E k \in Transf(j)' :
           /\ k \notin Filas /\ tabla'[k].estado = "EnProceso"
           /\ [nodo |-> tabla'[k].nodo, blk |-> tabla'[k].blk] = OtraCopia(tabla[i].nodo, tabla[i].blk)
<1>1. PICK b \in 1 .. m : o[b] = i
  BY DEF Replan
<1>2. PICK k, q : k = Len(tabla) + b /\ q = w[b]
  OBVIOUS
<1>3. Puesta(j, k, q)
  BY <1>2 DEF Replan, Lote
<1>4. [nodo |-> q.nodo, blk |-> q.blk] = OtraCopia(n, tabla[i].blk)
  BY <1>1, <1>2 DEF Replan
<1>5. tabla[i].nodo = n
  BY DEF TransfEn
<1>6. k \in Transf(j)'
  BY <1>3 DEF Puesta, Transf, DelJob
<1> QED
  BY <1>3, <1>4, <1>5, <1>6 DEF Puesta

(* A job that had something to transform at n goes on: its transformations *)
(* in Error are replaced, and the other nodes weigh what they transform.   *)
LEMMA RepuestasReplan ==
  ASSUME NEW j, Crece(j), NEW n, NEW D, NEW m, NEW o, NEW w, Replan(j, n, D, m, o, w),
         Vivas(j) # {}, Repuestas(j)
  PROVE  Repuestas(j)'
<1> SUFFICES ASSUME SinVueltas(j)', NEW i \in Transf(j)', tabla'[i].estado = "Error"
             PROVE  Repuesta(j, i)'
  BY DEF Repuestas
<1>1. SinVueltas(j)
  BY SinVueltasAntes
<1>2. i \in Filas
  <2> SUFFICES ASSUME i \notin Filas PROVE FALSE
    OBVIOUS
  <2>1. i \in Filas'
    BY DEF Transf, DelJob
  <2>2. PICK b \in 1 .. m : i = Len(tabla) + b
    BY <2>1 DEF Replan, Lote
  <2>3. Puesta(j, i, w[b])
    BY <2>2 DEF Replan, Lote
  <2> QED
    BY <2>3 DEF Puesta
<1>3. i \in Transf(j) /\ tabla'[i].nodo = tabla[i].nodo /\ tabla'[i].blk = tabla[i].blk
  BY <1>2, FilasDespues, CreceFila
<1>4. CASE i \in D
  <2>1. i \in TransfEn(j, n)
    BY <1>4 DEF Replan
  <2>2. PICK k \in Transf(j)' :
          [nodo |-> tabla'[k].nodo, blk |-> tabla'[k].blk] = OtraCopia(tabla[i].nodo, tabla[i].blk)
    BY <2>1, NuevaDe
  <2>3. [nodo |-> tabla'[k].nodo, blk |-> tabla'[k].blk] = OtraCopia(tabla'[i].nodo, tabla'[i].blk)
    BY <1>3, <2>2
  <2> QED
    BY <2>3, RepuestaEs
<1>5. CASE i \notin D
  <2>1. tabla[i].estado = "Error"
    BY <1>2, <1>5 DEF Replan
  <2>2. Repuesta(j, i)
    BY <1>1, <1>3, <2>1 DEF Repuestas
  <2> QED
    BY <1>2, <2>2, RepuestaQueda
<1> QED
  BY <1>4, <1>5

(* Nothing of n had been replaced before: its other copy would come back.  *)
LEMMA NingunaAntes ==
  ASSUME NEW j, Crece(j), NEW n, NEW D, NEW m, NEW o, NEW w, Replan(j, n, D, m, o, w),
         Vivas(j) # {}, Repuestas(j), SinVueltas(j)', NEW i \in TransfEn(j, n)
  PROVE  tabla[i].estado # "Error"
<1> SUFFICES ASSUME tabla[i].estado = "Error" PROVE FALSE
  OBVIOUS
<1>1. SinVueltas(j) /\ i \in Transf(j)
  BY SinVueltasAntes, SubFilas
<1>2. Repuesta(j, i)
  BY <1>1 DEF Repuestas
<1>3. PICK k \in Transf(j) :
        [nodo |-> tabla[k].nodo, blk |-> tabla[k].blk] = OtraCopia(tabla[i].nodo, tabla[i].blk)
  BY <1>2 DEF Repuesta
<1>4. PICK l \in Transf(j)' :
        /\ l \notin Filas
        /\ [nodo |-> tabla'[l].nodo, blk |-> tabla'[l].blk] = OtraCopia(tabla[i].nodo, tabla[i].blk)
  BY NuevaDe
<1>5. k \in Filas /\ k \in Transf(j)' /\ tabla'[k].nodo = tabla[k].nodo /\ tabla'[k].blk = tabla[k].blk
  BY <1>3, SubFilas, FilasDespues, CreceFila
<1>6. [nodo |-> tabla'[l].nodo, blk |-> tabla'[l].blk] = [nodo |-> tabla'[k].nodo, blk |-> tabla'[k].blk]
  BY <1>3, <1>4, <1>5
<1>7. tabla'[l].nodo = tabla'[k].nodo /\ tabla'[l].blk = tabla'[k].blk
  <2>1. PICK a, b, c, d : a = tabla'[l].nodo /\ b = tabla'[l].blk /\ c = tabla'[k].nodo /\ d = tabla'[k].blk
    OBVIOUS
  <2>2. [nodo |-> a, blk |-> b] = [nodo |-> c, blk |-> d]
    BY <1>6, <2>1
  <2>3. a = c /\ b = d
    BY ONLY <2>2
  <2> QED
    BY <2>1, <2>3
<1>8. l = k
  BY <1>4, <1>5, <1>7 DEF SinVueltas, Transf, DelJob
<1> QED
  BY <1>4, <1>5, <1>8

(* Row k came of row d of the node: it has the other copy of its block. *)
Viene(j, k, d) ==
  /\ k \in Transf(j)' /\ k \notin Filas /\ tabla'[k].estado = "EnProceso"
  /\ [nodo |-> tabla'[k].nodo, blk |-> tabla'[k].blk] = OtraCopia(tabla[d].nodo, tabla[d].blk)
  /\ BloqueDe(tabla'[k].nodo, tabla'[k].blk) = BloqueDe(tabla[d].nodo, tabla[d].blk)

LEMMA VieneDe ==
  ASSUME NEW j, NEW n, NEW D, NEW m, NEW o, NEW w, Replan(j, n, D, m, o, w)
  PROVE  /\ \A d \in TransfEn(j, n) : \E k : Viene(j, k, d)
         /\ \A k \in Filas' : k \notin Filas => tabla'[k].etapa = "Transformacion" /\ \E d \in TransfEn(j, n) : Viene(j, k, d)
<1>1. ASSUME NEW b \in 1 .. m, NEW k, k = Len(tabla) + b, NEW d, d = o[b]
      PROVE  Viene(j, k, d) /\ d \in TransfEn(j, n)
  <2>1. PICK q, z : q = w[b] /\ z = tabla[d].blk
    OBVIOUS
  <2>2. Puesta(j, k, q) /\ d \in TransfEn(j, n)
    BY <1>1, <2>1 DEF Replan, Lote
  <2>3. [nodo |-> q.nodo, blk |-> q.blk] = OtraCopia(n, z) /\ BloqueDe(q.nodo, q.blk) = BloqueDe(n, z)
    BY <1>1, <2>1 DEF Replan
  <2>4. tabla[d].nodo = n
    BY <2>2 DEF TransfEn
  <2>5. k \in Transf(j)' /\ k \notin Filas /\ tabla'[k].estado = "EnProceso"
    BY <2>2 DEF Puesta, Transf, DelJob
  <2> QED
    BY <2>1, <2>2, <2>3, <2>4, <2>5 DEF Viene, Puesta
<1>2. ASSUME NEW d \in TransfEn(j, n) PROVE \E k : Viene(j, k, d)
  <2>1. PICK b \in 1 .. m : d = o[b]
    BY DEF Replan
  <2> QED
    BY <1>1, <2>1
<1>3. ASSUME NEW k \in Filas', k \notin Filas
      PROVE  tabla'[k].etapa = "Transformacion" /\ \E d \in TransfEn(j, n) : Viene(j, k, d)
  <2>1. PICK b \in 1 .. m : k = Len(tabla) + b
    BY <1>3 DEF Replan, Lote
  <2>2. PICK d : d = o[b]
    OBVIOUS
  <2>3. Viene(j, k, d) /\ d \in TransfEn(j, n)
    BY <1>1, <2>1, <2>2
  <2> QED
    BY <2>3 DEF Viene, Transf
<1> QED
  BY <1>2, <1>3

LEMMA SinMasReplan ==
  ASSUME NEW j, NEW n, NEW D, NEW m, NEW o, NEW w, Replan(j, n, D, m, o, w)
  PROVE  SinMasEntradas
BY VieneDe DEF SinMasEntradas

(* No two transformations of a job where nothing came back have the keys. *)
LEMMA UnaClave ==
  ASSUME NEW j, SinVueltas(j)', NEW i \in Transf(j)', NEW k \in Transf(j)',
         [nodo |-> tabla'[i].nodo, blk |-> tabla'[i].blk] = [nodo |-> tabla'[k].nodo, blk |-> tabla'[k].blk]
  PROVE  i = k
<1>1. PICK a, b, c, d : a = tabla'[i].nodo /\ b = tabla'[i].blk /\ c = tabla'[k].nodo /\ d = tabla'[k].blk
  OBVIOUS
<1>2. [nodo |-> a, blk |-> b] = [nodo |-> c, blk |-> d]
  BY <1>1
<1>3. a = c /\ b = d
  BY ONLY <1>2
<1> QED
  BY <1>1, <1>3 DEF SinVueltas, Transf, DelJob

(* A row that came of d is of another block than every other row of before *)
(* but d, because d had only one other copy.                               *)
LEMMA VieneSola ==
  ASSUME NEW j, Crece(j), SinVueltas(j)', NEW d \in Transf(j), NEW k, Viene(j, k, d), NEW i \in Transf(j),
         \A h \in Filas : tabla[h].etapa = "Transformacion" => EsCopia(tabla[h].nodo, tabla[h].blk),
         BloqueDe(tabla[i].nodo, tabla[i].blk) = BloqueDe(tabla[d].nodo, tabla[d].blk)
  PROVE  i = d
<1> SUFFICES ASSUME i # d PROVE FALSE
  OBVIOUS
<1>1. PICK a, b, u, c : a = tabla[d].nodo /\ b = tabla[d].blk /\ u = tabla[i].nodo /\ c = tabla[i].blk
  OBVIOUS
<1>2. /\ i \in Filas /\ d \in Filas /\ tabla[i].job = j /\ tabla[d].job = j
      /\ tabla[i].etapa = "Transformacion" /\ tabla[d].etapa = "Transformacion"
  BY DEF Transf, DelJob
<1>3. EsCopia(a, b) /\ EsCopia(u, c)
  BY <1>1, <1>2
<1>4. a # u \/ b # c
  <2>1. SinVueltas(j)
    BY SinVueltasAntes
  <2> QED
    BY <1>1, <1>2, <2>1 DEF SinVueltas
<1>5. [nodo |-> u, blk |-> c] = OtraCopia(a, b)
  <2>1. BloqueDe(a, b) = BloqueDe(u, c)
    BY <1>1
  <2> QED
    BY ONLY <1>3, <1>4, <2>1, DosCopias
<1>6. i \in Transf(j)' /\ tabla'[i].nodo = u /\ tabla'[i].blk = c
  BY <1>1, <1>2, FilasDespues, CreceFila
<1>7. k \in Transf(j)' /\ [nodo |-> tabla'[k].nodo, blk |-> tabla'[k].blk] = [nodo |-> tabla'[i].nodo, blk |-> tabla'[i].blk]
  BY <1>1, <1>5, <1>6 DEF Viene
<1>8. k = i
  BY <1>6, <1>7, UnaClave
<1> QED
  BY <1>2, <1>8 DEF Viene

(* The transformations and the local reductions of the job, afterwards. *)
TrasReplan(j, n, D) ==
  /\ D \subseteq TransfEn(j, n)
  /\ \A i \in Transf(j) : /\ i \in Filas /\ i \in Transf(j)'
                          /\ tabla'[i].nodo = tabla[i].nodo /\ tabla'[i].blk = tabla[i].blk
                          /\ tabla'[i].estado = IF i \in D THEN "Error" ELSE tabla[i].estado
  /\ \A i \in Transf(j)' : i \in Transf(j) \/ \E d \in TransfEn(j, n) : Viene(j, i, d)
  /\ Locales(j)' = Locales(j)

LEMMA TrasReplanEs ==
  ASSUME NEW j, Crece(j), NEW n, NEW D, NEW m, NEW o, NEW w, Replan(j, n, D, m, o, w)
  PROVE  TrasReplan(j, n, D)
<1>1. ASSUME NEW i \in Transf(j)
      PROVE  /\ i \in Filas /\ i \in Transf(j)'
             /\ tabla'[i].nodo = tabla[i].nodo /\ tabla'[i].blk = tabla[i].blk
             /\ tabla'[i].estado = IF i \in D THEN "Error" ELSE tabla[i].estado
  <2>1. i \in Filas
    BY SubFilas
  <2>2. i \in Transf(j)'
    BY <2>1, FilasDespues
  <2> QED
    BY <2>1, <2>2, CreceFila DEF Replan
<1>2. \A i \in Filas' : i \notin Filas => tabla'[i].etapa = "Transformacion" /\ \E d \in TransfEn(j, n) : Viene(j, i, d)
  BY VieneDe
<1>3. ASSUME NEW i \in Transf(j)' PROVE i \in Transf(j) \/ \E d \in TransfEn(j, n) : Viene(j, i, d)
  <2>1. i \in Filas'
    BY DEF Transf, DelJob
  <2> QED
    BY <1>2, <2>1, FilasDespues
<1>4. Locales(j)' = Locales(j)
  <2>1. Locales(j) \subseteq Filas /\ Locales(j)' \subseteq Filas' /\ \A i \in Filas : i \in Locales(j) <=> i \in Locales(j)'
    BY LocalesDespues
  <2>2. \A i \in Locales(j)' : i \in Filas
    BY <1>2, <2>1 DEF Locales
  <2> QED
    BY <2>1, <2>2
<1> QED
  BY <1>1, <1>3, <1>4 DEF TrasReplan, Replan

(* A block has one transformation that is not in Error, the one it had or  *)
(* the one that came of it.                                                *)
LEMMA UnaReplan ==
  ASSUME NEW j, Crece(j), NEW n, NEW D, NEW m, NEW o, NEW w, Replan(j, n, D, m, o, w),
         \A h \in Filas : tabla[h].etapa = "Transformacion" => EsCopia(tabla[h].nodo, tabla[h].blk),
         SinVueltas(j)', UnaPorBloque(j)
  PROVE  UnaPorBloque(j)'
<1>1. TrasReplan(j, n, D) /\ D = TransfEn(j, n) /\ \A d \in TransfEn(j, n) : d \in Transf(j) /\ \E k : Viene(j, k, d)
  <2>1. SinVueltas(j)
    BY SinVueltasAntes
  <2> QED
    BY <2>1, TrasReplanEs, TodasViejas, VieneDe, SubFilas
<1> SUFFICES ASSUME NEW b \in Bloques
             PROVE  EnPie(j, b)' # {} /\ \A i, k \in EnPie(j, b)' : i = k
  BY DEF UnaPorBloque, Bloques
<1>2. \A i \in Transf(j) : BloqueDe(tabla'[i].nodo, tabla'[i].blk) = BloqueDe(tabla[i].nodo, tabla[i].blk)
  BY <1>1 DEF TrasReplan
<1>3. EnPie(j, b)' # {}
  <2>1. PICK i \in EnPie(j, b) : TRUE
    BY DEF UnaPorBloque
  <2>2. i \in Transf(j) /\ tabla[i].estado # "Error" /\ BloqueDe(tabla[i].nodo, tabla[i].blk) = b
    BY DEF EnPie
  <2>3. CASE i \in D
    <3>1. PICK k : Viene(j, k, i)
      BY <1>1, <2>3
    <3>2. k \in Transf(j)' /\ tabla'[k].estado # "Error" /\ BloqueDe(tabla'[k].nodo, tabla'[k].blk) = b
      BY <2>2, <3>1 DEF Viene
    <3> QED
      BY <3>2, EnPieTras
  <2>4. CASE i \notin D
    <3>1. i \in Transf(j)' /\ tabla'[i].estado # "Error" /\ BloqueDe(tabla'[i].nodo, tabla'[i].blk) = b
      BY <1>1, <1>2, <2>2, <2>4 DEF TrasReplan
    <3> QED
      BY <3>1, EnPieTras
  <2> QED
    BY <2>3, <2>4
<1>4. ASSUME NEW i \in EnPie(j, b)'
      PROVE  \/ i \in EnPie(j, b) /\ i \notin D
             \/ \E d \in D : Viene(j, i, d) /\ d \in Transf(j) /\ BloqueDe(tabla[d].nodo, tabla[d].blk) = b
  <2>1. i \in Transf(j)' /\ tabla'[i].estado # "Error" /\ BloqueDe(tabla'[i].nodo, tabla'[i].blk) = b
    BY EnPieTras
  <2>2. CASE i \in Transf(j)
    <3>1. i \notin D /\ tabla[i].estado # "Error"
      BY <1>1, <2>1, <2>2 DEF TrasReplan
    <3>2. BloqueDe(tabla[i].nodo, tabla[i].blk) = b
      BY <1>2, <2>1, <2>2
    <3> QED
      BY <2>2, <3>1, <3>2 DEF EnPie
  <2>3. ASSUME NEW d \in TransfEn(j, n), Viene(j, i, d)
        PROVE  \E h \in D : Viene(j, i, h) /\ h \in Transf(j) /\ BloqueDe(tabla[h].nodo, tabla[h].blk) = b
    <3>1. BloqueDe(tabla[d].nodo, tabla[d].blk) = b
      BY <2>1, <2>3 DEF Viene
    <3> QED
      BY <1>1, <2>3, <3>1
  <2> QED
    BY <1>1, <2>1, <2>2, <2>3 DEF TrasReplan
<1>5. ASSUME NEW i \in EnPie(j, b), i \notin D, NEW k, NEW d \in D, Viene(j, k, d), d \in Transf(j),
             BloqueDe(tabla[d].nodo, tabla[d].blk) = b
      PROVE  FALSE
  <2>1. i \in Transf(j) /\ BloqueDe(tabla[i].nodo, tabla[i].blk) = BloqueDe(tabla[d].nodo, tabla[d].blk)
    BY <1>5 DEF EnPie
  <2>2. i = d
    BY <1>5, <2>1, VieneSola
  <2> QED
    BY <1>5, <2>2
<1>6. ASSUME NEW i, NEW d \in Transf(j), Viene(j, i, d), NEW k, NEW h \in Transf(j), Viene(j, k, h),
             BloqueDe(tabla[d].nodo, tabla[d].blk) = b, BloqueDe(tabla[h].nodo, tabla[h].blk) = b
      PROVE  i = k
  <2>1. BloqueDe(tabla[d].nodo, tabla[d].blk) = BloqueDe(tabla[h].nodo, tabla[h].blk)
    BY <1>6
  <2>2. d = h
    BY <1>6, <2>1, VieneSola
  <2>3. /\ i \in Transf(j)' /\ k \in Transf(j)'
        /\ [nodo |-> tabla'[i].nodo, blk |-> tabla'[i].blk] = [nodo |-> tabla'[k].nodo, blk |-> tabla'[k].blk]
    BY <1>6, <2>2 DEF Viene
  <2> QED
    BY <2>3, UnaClave
<1>7. ASSUME NEW i \in EnPie(j, b)', NEW k \in EnPie(j, b)' PROVE i = k
  <2>1. CASE i \in EnPie(j, b) /\ i \notin D /\ k \in EnPie(j, b) /\ k \notin D
    BY <2>1 DEF UnaPorBloque
  <2> QED
    BY <1>4, <1>5, <1>6, <2>1
<1> QED
  BY <1>3, <1>7

(* The nodes that already reduce are left alone: the rows of D are not on  *)
(* any of them, and no row was added to one of them.                       *)
LEMMA ReducenReplan ==
  ASSUME TypeOK, TypeOK', NEW j, Crece(j), NEW n, NEW D, NEW m, NEW o, NEW w, Replan(j, n, D, m, o, w),
         NEW f \in TransfEn(j, n), tabla[f].estado = "EnProceso", SinReplanTardio(j)', Reducen(j)
  PROVE  Reducen(j)'
<1>1. Cerradas(j) /\ UnaLocal(j) /\ Juntan(j) /\ Suyas(j) /\ (SinVueltas(j) => Ordenadas(j))
  BY DEF Reducen
<1>2. TrasReplan(j, n, D)
  BY TrasReplanEs
<1>3. ASSUME NEW r \in Locales(j)
      PROVE  /\ r \in Filas /\ tabla'[r].nodo = tabla[r].nodo /\ tabla'[r].entradas = tabla[r].entradas
             /\ tabla[r].nodo # n
  <2>1. r \in Filas
    BY LocalesDespues
  <2>2. f \in Transf(j) /\ tabla[f].nodo = n
    BY DEF TransfEn
  <2> QED
    BY <1>1, <2>1, <2>2, CreceFila DEF Cerradas
<1>4. ASSUME NEW r \in Locales(j), NEW i \in Transf(j)', tabla'[i].nodo = tabla[r].nodo
      PROVE  i \in Transf(j)
  <2> SUFFICES ASSUME i \notin Filas PROVE FALSE
    BY FilasDespues
  <2>1. r \in Filas' /\ tabla'[r].job = j /\ tabla'[r].etapa = "ReduccionLocal" /\ tabla'[r].nodo = tabla'[i].nodo
    BY <1>3, <1>4, CreceFila DEF Locales, DelJob
  <2>2. i \in Filas' /\ tabla'[i].job = j /\ tabla'[i].etapa = "Transformacion"
    BY DEF Transf, DelJob
  <2>3. r < i
    <3>1. r \in 1 .. Len(tabla) /\ Len(tabla) \in Nat /\ i \notin 1 .. Len(tabla)
      BY <1>3, FilasEs DEF EsTabla
    <3>2. i \in 1 .. Len(tabla') /\ Len(tabla') \in Nat
      BY <2>2, FilasEsTras DEF EsTabla
    <3> QED
      BY <3>1, <3>2
  <2> QED
    BY <2>1, <2>2, <2>3 DEF SinReplanTardio
<1>5. ASSUME NEW r \in Locales(j), NEW i \in Transf(j)', tabla'[i].nodo = tabla[r].nodo
      PROVE  i \in Transf(j) /\ tabla[i].nodo = tabla[r].nodo /\ tabla'[i].estado = tabla[i].estado
  <2>1. i \in Transf(j)
    BY <1>4, <1>5
  <2>2. i \notin D
    BY <1>2, <1>3, <1>5, <2>1 DEF TrasReplan, TransfEn
  <2> QED
    BY <1>2, <1>5, <2>1, <2>2 DEF TrasReplan
<1>6. Cerradas(j)' /\ UnaLocal(j)'
  <2>1. Cerradas(j)'
    BY <1>1, <1>2, <1>3, <1>5 DEF Cerradas, TrasReplan
  <2>2. UnaLocal(j)'
    BY <1>1, <1>2, <1>3 DEF UnaLocal, TrasReplan
  <2> QED
    BY <2>1, <2>2
<1>7. Suyas(j)'
  <2>1. \A i \in DelJob(j) : i \in DelJob(j)'
    BY SubFilas, FilasDespues
  <2> QED
    BY <1>1, <1>2, <1>3, <2>1 DEF Suyas, TrasReplan
<1>8. Juntan(j)'
  <2> SUFFICES ASSUME NEW r \in Locales(j), NEW i \in Transf(j)'
               PROVE  i \in tabla'[r].entradas <=> tabla'[i].nodo = tabla'[r].nodo /\ tabla'[i].estado = "FinalizadoOK"
    BY <1>2 DEF Juntan, TrasReplan
  <2>1. tabla'[r].nodo = tabla[r].nodo /\ tabla'[r].entradas = tabla[r].entradas
    BY <1>3
  <2>2. CASE tabla'[i].nodo = tabla[r].nodo
    <3>1. i \in Transf(j) /\ tabla[i].nodo = tabla[r].nodo /\ tabla'[i].estado = tabla[i].estado
      BY <1>5, <2>2
    <3> QED
      BY <1>1, <2>1, <2>2, <3>1 DEF Juntan
  <2>3. CASE tabla'[i].nodo # tabla[r].nodo
    <3> SUFFICES ASSUME i \in tabla[r].entradas PROVE FALSE
      BY <2>1, <2>3
    <3>1. i \in DelJob(j) /\ i \in Filas
      BY <1>1, SubFilas DEF Suyas
    <3>2. i \in Transf(j)
      BY <3>1, FilasDespues
    <3> QED
      BY <1>1, <1>2, <2>3, <3>2 DEF Juntan, TrasReplan
  <2> QED
    BY <2>2, <2>3
<1>9. ASSUME SinVueltas(j)' PROVE Ordenadas(j)'
  <2>1. SinVueltas(j)
    BY <1>9, SinVueltasAntes
  <2>2. D = TransfEn(j, n)
    BY <2>1, TodasViejas
  <2> SUFFICES ASSUME NEW i \in Transf(j)', tabla'[i].estado = "FinalizadoOK"
               PROVE  \/ \E k \in Transf(j)' : tabla'[k].nodo = tabla'[i].nodo /\ tabla'[k].estado = "EnProceso"
                      \/ \E r \in Locales(j)' : tabla'[r].nodo = tabla'[i].nodo
    BY DEF Ordenadas
  <2>3. i \in Transf(j) /\ i \notin D
    BY <1>2 DEF TrasReplan, Viene
  <2>4. tabla[i].estado = "FinalizadoOK" /\ tabla'[i].nodo = tabla[i].nodo /\ tabla[i].nodo # n
    BY <1>2, <2>2, <2>3 DEF TrasReplan, TransfEn
  <2>5. \/ \E k \in Transf(j) : tabla[k].nodo = tabla[i].nodo /\ tabla[k].estado = "EnProceso"
        \/ \E r \in Locales(j) : tabla[r].nodo = tabla[i].nodo
    BY <1>1, <2>1, <2>3, <2>4 DEF Ordenadas
  <2>6. ASSUME NEW k \in Transf(j), tabla[k].nodo = tabla[i].nodo, tabla[k].estado = "EnProceso"
        PROVE  k \in Transf(j)' /\ tabla'[k].nodo = tabla'[i].nodo /\ tabla'[k].estado = "EnProceso"
    <3>1. k \notin D
      BY <2>2, <2>4, <2>6 DEF TransfEn
    <3> QED
      BY <1>2, <2>4, <2>6, <3>1 DEF TrasReplan
  <2>7. ASSUME NEW r \in Locales(j), tabla[r].nodo = tabla[i].nodo
        PROVE  r \in Locales(j)' /\ tabla'[r].nodo = tabla'[i].nodo
    BY <1>2, <1>3, <2>4, <2>7 DEF TrasReplan
  <2> QED
    BY <2>5, <2>6, <2>7
<1> QED
  BY <1>6, <1>7, <1>8, <1>9 DEF Reducen

LEMMA ExactaReplan ==
  ASSUME TypeOK, TypeOK', NEW j, Crece(j), NEW n, NEW D, NEW m, NEW o, NEW w, Replan(j, n, D, m, o, w),
         \A h \in Filas : tabla[h].etapa = "Transformacion" => EsCopia(tabla[h].nodo, tabla[h].blk),
         NEW f \in TransfEn(j, n), j \notin tardios' => f \in Vivas(j), Exacta(j)
  PROVE  Exacta(j)'
<1> SUFFICES ASSUME j \notin tardios'
             PROVE  Repetidas(j)' /\ (SinVueltas(j)' => UnaPorBloque(j)') /\ (SinReplanTardio(j)' => Reducen(j)')
  BY DEF Exacta, EnMarcha
<1>1. tabla[f].estado = "EnProceso" /\ EnMarcha(j)
  BY DEF Vivas, EnMarcha, Crece
<1>2. Repetidas(j) /\ (SinVueltas(j) => UnaPorBloque(j)) /\ (SinReplanTardio(j) => Reducen(j))
  BY <1>1 DEF Exacta
<1>3. (SinVueltas(j)' => SinVueltas(j)) /\ (SinReplanTardio(j)' => SinReplanTardio(j))
  BY SinVueltasAntes, SinReplanAntes
<1>4. TrasReplan(j, n, D) /\ \A d \in D : Primera(j, d)
  BY TrasReplanEs DEF Replan
<1>5. Repetidas(j)'
  <2> SUFFICES ASSUME NEW i \in Transf(j)', NEW k \in Transf(j)', i < k,
                      tabla'[i].nodo = tabla'[k].nodo, tabla'[i].blk = tabla'[k].blk
               PROVE  tabla'[k].estado = "EnProceso"
    BY DEF Repetidas
  <2>1. CASE k \notin Transf(j)
    BY <1>4, <2>1 DEF TrasReplan, Viene
  <2>2. CASE k \in Transf(j)
    <3>1. i \in Filas /\ i \in Int /\ k \in Int
      <4>1. k \in 1 .. Len(tabla) /\ Len(tabla) \in Nat /\ Filas = 1 .. Len(tabla)
        BY <1>4, <2>2, FilasEs DEF EsTabla, TrasReplan
      <4>2. i \in 1 .. Len(tabla') /\ Len(tabla') \in Nat
        BY FilasEsTras DEF EsTabla, Transf, DelJob
      <4> QED
        BY <4>1, <4>2
    <3>2. i \in Transf(j)
      BY <3>1, FilasDespues
    <3>3. tabla[i].nodo = tabla[k].nodo /\ tabla[i].blk = tabla[k].blk
      BY <1>4, <2>2, <3>2 DEF TrasReplan
    <3>4. tabla[k].estado = "EnProceso"
      BY <1>2, <2>2, <3>2, <3>3 DEF Repetidas
    <3>5. k \notin D
      <4>1. k \in D => k <= i
        BY <1>4, <3>2, <3>3, SubFilas DEF Primera
      <4> QED
        BY <3>1, <4>1
    <3> QED
      BY <1>4, <2>2, <3>4, <3>5 DEF TrasReplan
  <2> QED
    BY <2>1, <2>2
<1>6. SinVueltas(j)' => UnaPorBloque(j)'
  BY <1>2, <1>3, UnaReplan
<1>7. SinReplanTardio(j)' => Reducen(j)'
  BY <1>1, <1>2, <1>3, ReducenReplan
<1> QED
  BY <1>5, <1>6, <1>7

(* What it does to the loads. *)
Mueve(j, n, m, w) ==
  /\ cargas'[n] = [actual |-> cargas[n].actual - m, porJob |-> [cargas[n].porJob EXCEPT ![j] = 0]]
  /\ \A u \in Nodos : u # n =>
       \E k : /\ k = Cardinality(EnNodo(w, m, u))
              /\ cargas'[u] = [actual |-> cargas[u].actual + k,
                               porJob |-> [cargas[u].porJob EXCEPT ![j] = @ + k]]

LEMMA MueveEs ==
  ASSUME TypeOK, NEW j \in Jobs, NEW n \in Nodos, NEW m \in Nat, NEW w, Mueve(j, n, m, w)
  PROVE  /\ Aparte(j) /\ cargas'[n].porJob[j] = 0
         /\ cargas[n].porJob[j] = m => CambioIgual(n, j)
         /\ \A u \in Nodos : u # n =>
              /\ CambioIgual(u, j)
              /\ cargas[u].porJob[j] \in Nat
              /\ cargas'[u].porJob[j] = cargas[u].porJob[j] + Cardinality(EnNodo(w, m, u))
<1>1. /\ cargas[n].porJob[j] \in Nat /\ cargas[n].actual \in Int
      /\ cargas'[n].porJob[j] = 0
      /\ \A x \in Jobs : x # j => cargas'[n].porJob[x] = cargas[n].porJob[x]
      /\ cargas[n].porJob[j] = m => CambioIgual(n, j)
  <2>1. PICK a, y, c, p : a = cargas[n].actual - m /\ y = 0 /\ c = cargas[n].actual /\ p = cargas[n].porJob[j]
    OBVIOUS
  <2>2. c \in Int /\ a \in Int /\ y \in Nat
    BY <2>1 DEF TypeOK, TipoCarga
  <2>3. cargas'[n] = [actual |-> a, porJob |-> [cargas[n].porJob EXCEPT ![j] = y]]
    BY <2>1 DEF Mueve
  <2>4. p = m => a = c + (y - p)
    BY ONLY <2>1, <2>2, m \in Nat
  <2> QED
    BY <2>1, <2>2, <2>3, <2>4, PonerNodo
<1>2. ASSUME NEW u \in Nodos, u # n
      PROVE  /\ CambioIgual(u, j) /\ cargas[u].porJob[j] \in Nat
             /\ cargas'[u].porJob[j] = cargas[u].porJob[j] + Cardinality(EnNodo(w, m, u))
             /\ \A x \in Jobs : x # j => cargas'[u].porJob[x] = cargas[u].porJob[x]
  <2>1. PICK k : /\ k = Cardinality(EnNodo(w, m, u))
                 /\ cargas'[u] = [actual |-> cargas[u].actual + k,
                                  porJob |-> [cargas[u].porJob EXCEPT ![j] = @ + k]]
    BY <1>2 DEF Mueve
  <2>2. k \in Nat
    BY <2>1, EnNodoFinito
  <2>3. PICK c, g, p, a, y : c = cargas[u].actual /\ g = cargas[u].porJob /\ p = g[j] /\ a = c + k /\ y = p + k
    OBVIOUS
  <2>4. c \in Int /\ g \in [Jobs -> Nat]
    BY <2>3 DEF TypeOK, TipoCarga
  <2>5. p \in Nat /\ a \in Int /\ y \in Nat /\ a = c + (y - p)
    BY ONLY <2>2, <2>3, <2>4, j \in Jobs
  <2>6. [g EXCEPT ![j] = @ + k] = [g EXCEPT ![j] = y]
    BY <2>3
  <2>7. cargas'[u] = [actual |-> a, porJob |-> [cargas[u].porJob EXCEPT ![j] = y]]
    BY <2>1, <2>3, <2>6
  <2>8. a = cargas[u].actual + (y - cargas[u].porJob[j])
    BY <2>3, <2>5
  <2>9. /\ cargas'[u].porJob[j] = y /\ CambioIgual(u, j)
        /\ \A x \in Jobs : x # j => cargas'[u].porJob[x] = cargas[u].porJob[x]
    BY <2>5, <2>7, <2>8, PonerNodo
  <2>10. cargas[u].porJob[j] = p /\ Cardinality(EnNodo(w, m, u)) = k
    BY <2>1, <2>3
  <2> QED
    BY ONLY <2>3, <2>5, <2>9, <2>10
<1> QED
  BY <1>1, <1>2 DEF Aparte

LEMMA CargaReplan ==
  ASSUME TypeOK, TypeOK', CInv, NEW j \in Jobs, Crece(j), NEW n \in Nodos, NEW D, NEW m, NEW o, NEW w,
         Replan(j, n, D, m, o, w), Mueve(j, n, m, w), NEW f \in TransfEn(j, n), j \notin tardios' => f \in Vivas(j),
         \A i \in Filas : tabla[i].etapa = "Transformacion" => EsCopia(tabla[i].nodo, tabla[i].blk)
  PROVE  CInv'
<1>1. m \in Nat \ {0} /\ Lote(j, m, w)
  BY DEF Replan
<1>2. /\ Aparte(j) /\ cargas'[n].porJob[j] = 0
      /\ cargas[n].porJob[j] = m => CambioIgual(n, j)
      /\ \A u \in Nodos : u # n =>
           /\ CambioIgual(u, j)
           /\ cargas[u].porJob[j] \in Nat
           /\ cargas'[u].porJob[j] = cargas[u].porJob[j] + Cardinality(EnNodo(w, m, u))
  BY <1>1, MueveEs
<1>3. \A i \in Filas : tabla[i].nodo # n => tabla'[i].estado = tabla[i].estado
  BY DEF Replan, TransfEn
<1>4. ASSUME NEW b \in 1 .. m
      PROVE  \E k \in Vivas(j)' : \A u : u = w[b].nodo => EnCarga(j, u)'
  <2>1. PICK k, q : k = Len(tabla) + b /\ q = w[b]
    OBVIOUS
  <2>2. Puesta(j, k, q)
    BY <1>1, <2>1 DEF Lote
  <2>3. k \in Filas' /\ tabla'[k].job = j /\ tabla'[k].estado = "EnProceso" /\ q.nodo = tabla'[k].nodo
    BY <2>2 DEF Puesta
  <2>4. k \in Vivas(j)' /\ \A u : u = tabla'[k].nodo => EnCarga(j, u)'
    BY <2>3, VivaEs
  <2> QED
    BY <2>1, <2>3, <2>4
<1>5. Justificada(j)'
  <2>1. Vivas(j)' # {}
    <3>1. 1 \in 1 .. m
      BY <1>1
    <3> QED
      BY <1>4, <3>1
  <2>2. ASSUME NEW u \in Nodos, u # n, cargas'[u].porJob[j] # 0
        PROVE  cargas[u].porJob[j] # 0 \/ EnCarga(j, u)'
    <3>1. CASE EnNodo(w, m, u) = {}
      <4>1. PICK x, y, z : x = cargas'[u].porJob[j] /\ y = cargas[u].porJob[j] /\ z = Cardinality(EnNodo(w, m, u))
        OBVIOUS
      <4>2. x = y + z /\ y \in Nat
        BY <1>2, <2>2, <4>1
      <4>3. z = 0
        BY <3>1, <4>1, FS_EmptySet
      <4>4. x = y
        BY ONLY <4>2, <4>3
      <4> QED
        BY <2>2, <4>1, <4>4
    <3>2. CASE EnNodo(w, m, u) # {}
      <4>1. PICK b \in 1 .. m : w[b].nodo = u
        BY <3>2 DEF EnNodo
      <4>2. u = w[b].nodo
        BY <4>1
      <4> QED
        BY <1>4, <4>2
    <3> QED
      BY <3>1, <3>2
  <2>3. Justificada(j)
    BY DEF CInv, CargaDe
  <2> QED
    BY <1>2, <1>3, <2>1, <2>2, <2>3, JustSigue
<1>6. ASSUME tardios' = {} PROVE Repuestas(j) /\ Pesada(j) /\ Vivas(j) # {} /\ Transforma(j)
  <2>1. tardios = {}
    BY <1>6 DEF Crece
  <2>2. f \in Vivas(j) /\ f \in Transf(j)
    BY <1>6, SubFilas
  <2> QED
    BY <2>1, <2>2 DEF CInv, CargaDe, Transforma
<1>7. ASSUME tardios' = {} PROVE Repuestas(j)'
  BY <1>6, <1>7, RepuestasReplan
<1>8. ASSUME tardios' = {} PROVE Pesada(j)'
  <2> SUFFICES ASSUME SinVueltas(j)', NEW u \in Nodos, \A i \in TransfEn(j, u)' : tabla'[i].estado # "Error"
               PROVE  cargas'[u].porJob[j] = Cardinality(TransfEn(j, u)')
    BY DEF Pesada
  <2>1. SinVueltas(j) /\ f \in Filas
    BY SinVueltasAntes, SubFilas
  <2>2. f \in D
    BY <2>1, TodasViejas
  <2>3. u # n
    <3>1. f \in TransfEn(j, n)' /\ tabla'[f].estado = "Error"
      BY <2>1, <2>2, FilasDespues DEF Replan
    <3> QED
      BY <3>1
  <2>4. \A i \in TransfEn(j, u) : tabla[i].estado # "Error"
    <3> SUFFICES ASSUME NEW i \in TransfEn(j, u) PROVE tabla[i].estado # "Error"
      OBVIOUS
    <3>1. i \in Filas /\ i \in TransfEn(j, u)' /\ tabla[i].nodo = u
      BY SubFilas, FilasDespues DEF TransfEn
    <3>2. tabla'[i].estado = tabla[i].estado
      BY <1>3, <2>3, <3>1
    <3> QED
      BY <3>1, <3>2
  <2>5. PICK x, y, z, c : /\ x = Cardinality(TransfEn(j, u)') /\ y = Cardinality(TransfEn(j, u))
                          /\ z = Cardinality(EnNodo(w, m, u)) /\ c = cargas[u].porJob[j]
    OBVIOUS
  <2>6. c = y
    BY <1>6, <1>8, <2>1, <2>4, <2>5 DEF Pesada
  <2>7. x = y + z
    BY <1>1, <2>5, LoteCuenta
  <2>8. cargas'[u].porJob[j] = c + z
    BY <1>2, <2>3, <2>5
  <2> QED
    BY <2>5, <2>6, <2>7, <2>8
<1>9. ASSUME tardios' = {}, SinVueltas(j)' PROVE \A u \in Nodos : CambioIgual(u, j)
  <2>1. \A i \in TransfEn(j, n) : tabla[i].estado # "Error"
    BY <1>6, <1>9, NingunaAntes
  <2>2. SinVueltas(j)
    BY <1>9, SinVueltasAntes
  <2>3. cargas[n].porJob[j] = m
    BY <1>6, <1>9, <2>1, <2>2 DEF Pesada, Replan
  <2> QED
    BY <1>2, <2>3
<1>10. Exacta(j)' /\ SinMasEntradas
  <2>1. Exacta(j)
    BY DEF CInv, EInv
  <2> QED
    BY <2>1, ExactaReplan, SinMasReplan
<1> QED
  BY <1>2, <1>5, <1>7, <1>8, <1>9, <1>10, CInvDe DEF CargaDe

LEMMA OtraCopiaForma ==
  ASSUME NEW n, NEW b, EsCopia(n, b), NEW o, o = OtraCopia(n, b), o # SinCopia
  PROVE  o = [nodo |-> o.nodo, blk |-> o.blk] /\ BloqueDe(o.nodo, o.blk) = BloqueDe(n, b)
<1>1. PICK c : c = [nodo |-> n, blk |-> b]
  OBVIOUS
<1>2. PICK k : k = BloqueDe(n, b)
  OBVIOUS
<1>3. k \in Bloques
  BY <1>1, <1>2 DEF BloqueDe, EsCopia
<1>4. PICK i \in 1 .. 2 : o = Archivo[k][i]
  BY <1>2 DEF OtraCopia
<1> DEFINE Copias == [nodo : Nodos, blk : Nat]
<1>5. Archivo[k] \in (Copias \cup {SinCopia}) \X (Copias \cup {SinCopia})
  BY <1>3, JobsAssumption, ElementOfSeq DEF Bloques
<1>6. o \in Copias
  <2>1. i = 1 \/ i = 2
    OBVIOUS
  <2> QED
    BY <1>4, <1>5, <2>1
<1>7. o = [nodo |-> o.nodo, blk |-> o.blk]
  BY <1>6
<1>8. BloqueDe(o.nodo, o.blk) = k
  <2>1. PICK u, h : u = o.nodo /\ h = o.blk
    OBVIOUS
  <2>2. Archivo[k][i] # SinCopia /\ Archivo[k][i] = [nodo |-> u, blk |-> h]
    BY <1>4, <1>7, <2>1
  <2> QED
    BY <1>3, <2>1, <2>2, BloqueEs
<1> QED
  BY <1>2, <1>7, <1>8

LEMMA CargaReplanificacion ==
  ASSUME IInv, IInv', CInv, NEW s \in Sockets, Replanificacion(s)
  PROVE  CInv'
<1>1. PICK f, e, x, g : /\ f = Head(aYama[s]).fila /\ e = "Transformacion" /\ x = "Error"
                        /\ g = "Transformacion"
  BY Zenon
<1>2. Respuesta(s, e, -1) /\ FilaResp(s) = tabla[f] /\ Extiende(s)
  BY <1>1, PasoReplanificacion, Zenon DEF Replanificacion, FilaResp
<1>3. /\ f \in Filas /\ tabla[f] \in TipoFila(Len(tabla)) /\ Propia(f, s) /\ tabla[f].etapa = e
      /\ tabla[f].estado = "EnProceso" \/ tardios' # {}
  BY <1>1, <1>2, RespuestaEs
<1>4. PICK n, j, t, W : /\ n = tabla[f].nodo /\ j = tabla[f].job /\ t = MarcarError(n, s, j)
                        /\ W = FilasTransf(n, s, j)
  OBVIOUS
<1>5. n \in Nodos /\ j \in Jobs /\ j = maestro[s].job /\ TypeOK /\ TypeOK' /\ Claves
      /\ maestro[s].est # "libre" /\ Crece(j)
  <2>1. n \in Nodos /\ j = maestro[s].job /\ Claves
    BY <1>3, <1>4 DEF TipoFila, Propia, IInv
  <2> QED
    BY <1>2, <2>1, CreceDeRespuesta
<1>6. W = TransfEn(j, n)
  BY <1>1, <1>4, <1>5, ViejasEs
<1>7. PICK D : /\ D \subseteq W /\ t \in Seq(TipoFila(Len(tabla))) /\ Retocada(tabla, t, D, x)
               /\ \A i \in W : \E d \in D : tabla[d].blk = tabla[i].blk
               /\ \A d \in D : Primera(j, d)
  <2>1. PICK D : Viejas(j, n, t, x, D)
    BY <1>1, <1>4, <1>5, ViejasEs
  <2> QED
    BY <1>6, <2>1 DEF Viejas
<1>8. f \in W /\ (j \notin tardios' => f \in Vivas(j))
  <2>1. f \in W
    BY <1>1, <1>3, <1>4, <1>6 DEF TransfEn, Transf, DelJob
  <2>2. j \notin tardios' => f \in Vivas(j)
    BY <1>1, <1>2, <1>5, MarchaAntes
  <2> QED
    BY <2>1, <2>2
<1> DEFINE Otra(i) == OtraCopia(n, tabla[i].blk)
           Nuevas1(o) == [i \in DOMAIN o |-> Fila(j, o[i].nodo, s, o[i].blk, g, {})]
<1>9. \/ /\ \A i \in W : Otra(i) # SinCopia
         /\ \E orden \in EnOrden(W) : \E o :
              /\ o = [i \in DOMAIN orden |-> Otra(orden[i])]
              /\ tabla' = t \o Nuevas1(o)
              /\ cargas' = MoverCarga(n, j, o)
              /\ Enviar(s, Etapa(Len(t) + 1 .. Len(t) + Len(o)))
      \/ AbortarJob(s, j, t, cargas)
  BY <1>1, <1>2, <1>4, ZenonT(60) DEF Replanificacion
<1>10. CASE AbortarJob(s, j, t, cargas)
  <2>1. EliminarEstadosMultiples(s, j, t, cargas)
    BY <1>10 DEF AbortarJob
  <2>2. D \subseteq DeJob(tabla, s, j) /\ Retocada(tabla, t, D, "Error")
    BY <1>1, <1>4, <1>7 DEF FilasTransf
  <2> QED
    BY <1>5, <1>7, <2>1, <2>2, TodoQuitado
<1>11. ASSUME \A i \in W : Otra(i) # SinCopia,
              NEW orden \in EnOrden(W), NEW o, o = [i \in DOMAIN orden |-> Otra(orden[i])],
              tabla' = t \o Nuevas1(o), cargas' = MoverCarga(n, j, o)
       PROVE  CInv'
  <2>1. PICK m : m = Cardinality(W)
    OBVIOUS
  <2>2. W \subseteq Nat /\ IsFiniteSet(W)
    <3>1. W \subseteq 1 .. Len(tabla)
      BY <1>5, <1>6, SubFilas, FilasEs DEF EsTabla
    <3>2. IsFiniteSet(W)
      BY ONLY <1>5, <1>6, TransfFinito
    <3> QED
      BY ONLY <3>1, <3>2
  <2>3. m \in Nat /\ orden \in [1 .. m -> W] /\ \A i \in W : \E b \in 1 .. m : orden[b] = i
    BY ONLY orden \in EnOrden(W), <2>1, <2>2, OrdenEs
  <2>4. m # 0
    BY <1>8, <2>1, <2>2, FS_EmptySet
  <2>5. DOMAIN o = 1 .. m /\ Len(o) = m /\ \A b \in 1 .. m : o[b] = Otra(orden[b]) /\ orden[b] \in W
    <3>1. DOMAIN o = 1 .. m /\ \A b \in 1 .. m : o[b] = Otra(orden[b]) /\ orden[b] \in W
      BY <1>11, <2>3
    <3> QED
      BY <2>3, <3>1
  <2>6. PICK v : v = Nuevas1(o)
    OBVIOUS
  <2>7. ASSUME NEW b \in 1 .. m
        PROVE  /\ v[b] \in TipoFila(Len(tabla)) /\ v[b].nodo = o[b].nodo
               /\ v[b].job = j /\ v[b].etapa = "Transformacion" /\ v[b].estado = "EnProceso"
               /\ [nodo |-> v[b].nodo, blk |-> v[b].blk] = OtraCopia(n, tabla[orden[b]].blk)
               /\ BloqueDe(v[b].nodo, v[b].blk) = BloqueDe(n, tabla[orden[b]].blk)
    <3>1. PICK k, z, c, A, q, a, h : /\ k = orden[b] /\ z = tabla[k].blk /\ c = o[b] /\ A = {}
                                     /\ a = c.nodo /\ h = c.blk /\ q = Fila(j, a, s, h, g, A)
      OBVIOUS
    <3>2. k \in W /\ c = OtraCopia(n, z) /\ c # SinCopia
      BY <1>11, <2>5, <3>1
    <3>3. k \in Filas /\ tabla[k].nodo = n /\ tabla[k].etapa = "Transformacion"
      BY <1>4, <3>2 DEF FilasTransf, DeJob, Filas
    <3>4. EsCopia(n, z)
      BY <1>5, <3>1, <3>3 DEF Claves, BienClavada
    <3>5. a \in Nodos /\ h \in Nat /\ EsCopia(a, h)
      BY <3>1, <3>2, <3>4, OtraCopiaEs
    <3>6. c = [nodo |-> a, blk |-> h] /\ BloqueDe(a, h) = BloqueDe(n, z)
      BY <3>2, <3>4, <3>1, OtraCopiaForma
    <3>7. v[b] = q
      BY <2>5, <2>6, <3>1
    <3>8. h \in Int /\ A \in SUBSET (1 .. Len(tabla)) /\ g \in Etapas
      BY <1>1, <3>1, <3>5 DEF Etapas
    <3>9. /\ q \in TipoFila(Len(tabla)) /\ q.master = s /\ q.job = j /\ q.nodo = a /\ q.blk = h
          /\ q.etapa = g /\ q.estado = "EnProceso"
      BY <1>5, <3>1, <3>5, <3>8, FilaEs
    <3> QED
      BY <1>1, <3>1, <3>2, <3>6, <3>7, <3>9
  <2>8. v \in [1 .. m -> TipoFila(Len(tabla))]
    BY <2>5, <2>6, <2>7
  <2>9. Lote(j, m, v) /\ \A i \in Filas : tabla'[i] = t[i]
    <3>1. tabla' = t \o v
      BY <1>11, <2>6
    <3>2. Tanda(j, m, v)
      BY <2>7, <2>8 DEF Tanda
    <3> QED
      BY ONLY <1>5, <1>7, <2>3, <3>1, <3>2, LoteEs
  <2>10. Replan(j, n, D, m, orden, v)
    <3>1. \A i \in Filas : tabla'[i].estado = IF i \in D THEN "Error" ELSE tabla[i].estado
      BY <1>1, <1>5, <1>7, <2>9, FilasEs DEF Retocada, EsTabla
    <3> QED
      BY <1>6, <1>7, <2>1, <2>3, <2>4, <2>7, <2>9, <3>1 DEF Replan
  <2>11. Mueve(j, n, m, v)
    <3>1. \A u : {i \in DOMAIN o : o[i].nodo = u} = EnNodo(v, m, u)
      BY <2>5, <2>7 DEF EnNodo
    <3>2. cargas'[n] = [actual |-> cargas[n].actual - m, porJob |-> [cargas[n].porJob EXCEPT ![j] = 0]]
      BY <1>5, <1>11, <2>5 DEF MoverCarga
    <3>3. ASSUME NEW u \in Nodos, u # n, NEW k, k = Cardinality(EnNodo(v, m, u))
          PROVE  cargas'[u] = [actual |-> cargas[u].actual + k, porJob |-> [cargas[u].porJob EXCEPT ![j] = @ + k]]
      <4>1. k = Cardinality({i \in DOMAIN o : o[i].nodo = u})
        BY <3>1, <3>3
      <4> QED
        BY <1>11, <3>3, <4>1 DEF MoverCarga
    <3> QED
      BY <3>2, <3>3 DEF Mueve
  <2>12. \A i \in Filas : tabla[i].etapa = "Transformacion" => EsCopia(tabla[i].nodo, tabla[i].blk)
    BY <1>5 DEF Claves, BienClavada
  <2> QED
    BY <1>5, <1>6, <1>8, <2>10, <2>11, <2>12, CargaReplan
<1> HIDE DEF Otra, Nuevas1
<1> QED
  BY <1>9, <1>10, <1>11

-----------------------------------------------------------------------------
(* The rest of the steps, and the invariant. *)

LEMMA CargaReduccionGlobalFallida ==
  ASSUME IInv, IInv', CInv, NEW s \in Sockets, ReduccionGlobalFallida(s)
  PROVE  CInv'
<1>1. PICK e, x, j : e = "ReduccionGlobal" /\ x = "Error" /\ j = maestro[s].job
  OBVIOUS
<1>2. Respuesta(s, e, -1) /\ FinalizarEnTabla(s, FilaResp(s).job, x) /\ Extiende(s) /\ x \in Estados
  BY <1>1, PasoReduccionGlobalFallida DEF ReduccionGlobalFallida, Estados
<1>3. FinalizarEnTabla(s, j, x)
  BY <1>1, <1>2, CreceDeRespuesta
<1> QED
  BY <1>1, <1>2, <1>3, CargaFinaliza

LEMMA CargaAlmacenamientoLista ==
  ASSUME IInv, IInv', CInv, NEW s \in Sockets, AlmacenamientoLista(s)
  PROVE  CInv'
<1>1. PICK e, j : e = "AlmacenamientoFinal" /\ j = maestro[s].job
  OBVIOUS
<1>2. PICK r, x : Respuesta(s, e, r) /\ (x = "FinalizadoOK" \/ x = "Error")
                  /\ FinalizarEnTabla(s, FilaResp(s).job, x)
  BY <1>1 DEF AlmacenamientoLista
<1>3. Extiende(s) /\ x \in Estados
  BY <1>2, PasoAlmacenamientoLista DEF Estados
<1>4. FinalizarEnTabla(s, j, x)
  BY <1>1, <1>2, <1>3, CreceDeRespuesta
<1> QED
  BY <1>1, <1>2, <1>3, <1>4, CargaFinaliza

(* The steps of a master, and the end of YAMA, leave the loads alone. *)
LEMMA CargaAjena ==
  ASSUME IInv, CInv, NEW s \in Sockets,
         \/ Conectar(s) \/ Recibir(s) \/ Trabajar(s) \/ CaeMaestro(s) \/ PierdeYama(s)
         \/ PlanSinFin(s) \/ FinalizarEjecucion \/ UNCHANGED vars
  PROVE  CInv'
<1>1. UNCHANGED <<tabla, cargas, tardios>>
  BY DEF Conectar, Recibir, Trabajar, TareaOK, TareaFalla, EnviarResultado, CaeMaestro, PierdeYama,
         PlanSinFin, FinalizarEjecucion, vars
<1> QED
  BY <1>1, CInvQuieto

LEMMA CargaPrincipio == Init => CInv
<1> SUFFICES ASSUME Init PROVE CInv
  OBVIOUS
<1>1. Filas = {} /\ \A n \in Nodos : /\ cargas[n].actual = 0 /\ \A j \in Jobs : cargas[n].porJob[j] = 0
  BY DEF Init, Filas
<1>2. \A j \in Jobs : CargaDe(j)
  BY <1>1 DEF CargaDe, Justificada, Repuestas, Pesada, Transforma, Vivas, DelJob
<1>3. ASSUME NEW n \in Nodos PROVE Cuadra(cargas, n)
  <2>1. IsFiniteSet(Jobs)
    BY FS_Interval, JobsAssumption DEF Jobs
  <2>2. PICK f : f = cargas[n].porJob
    OBVIOUS
  <2>3. \A j \in Jobs : f[j] = 0
    BY <1>1, <2>2
  <2>4. Suma(f, Jobs) = 0
    BY <2>1, <2>3, SumaNula
  <2> QED
    BY <1>1, <2>2, <2>4 DEF Cuadra
<1>4. EInv
  BY <1>1 DEF EInv, Exacta, EnMarcha, Vivas, DelJob
<1> QED
  BY <1>2, <1>3, <1>4, CuadraEs DEF CInv

LEMMA CargaPaso == IInv /\ CInv /\ [Next]_vars => CInv'
<1> SUFFICES ASSUME IInv, CInv, [Next]_vars PROVE CInv'
  OBVIOUS
<1>1. IInv'
  BY CadaPaso
<1>2. ASSUME NEW s \in Sockets, Iniciar(s) PROVE CInv'
  BY <1>1, <1>2, CargaIniciarJob, CargaIniciarSinArchivo, CargaAjena DEF Iniciar
<1>3. ASSUME NEW s \in Sockets, Atender(s) PROVE CInv'
  <2>1. CASE TransformacionLista(s)
    BY <1>1, <2>1, CargaTransformacionLista
  <2>2. CASE TransformacionCorrupta(s) \/ ReplanificacionSinArchivo(s) \/ ReduccionLocalFallida(s)
    BY <1>1, <2>2, CargaAbortos
  <2>3. CASE Replanificacion(s)
    BY <1>1, <2>3, CargaReplanificacion
  <2>4. CASE ReduccionLocalLista(s)
    BY <1>1, <2>4, CargaReduccionLocalLista
  <2>5. CASE ReduccionGlobalLista(s)
    BY <1>1, <2>5, CargaReduccionGlobalLista
  <2>6. CASE ReduccionGlobalFallida(s)
    BY <1>1, <2>6, CargaReduccionGlobalFallida
  <2>7. CASE AlmacenamientoLista(s)
    BY <1>1, <2>7, CargaAlmacenamientoLista
  <2>8. CASE Desconexion(s)
    BY <1>1, <2>8, CargaDesconexion
  <2> QED
    BY <1>3, <2>1, <2>2, <2>3, <2>4, <2>5, <2>6, <2>7, <2>8 DEF Atender
<1>4. ASSUME NEW s \in Sockets,
             Conectar(s) \/ Recibir(s) \/ Trabajar(s) \/ CaeMaestro(s) \/ PierdeYama(s)
      PROVE  CInv'
  BY <1>4, CargaAjena
<1>5. CASE FinalizarEjecucion \/ UNCHANGED vars
  <2>1. 1 \in Sockets
    BY JobsAssumption DEF Sockets
  <2> QED
    BY <1>5, <2>1, CargaAjena
<1> QED
  BY <1>2, <1>3, <1>4, <1>5 DEF Next

(* Through every planning, replanning, stage, abort and disconnection:     *)
(* jobs weigh only where they have something in process, transformations   *)
(* that were taken off a node are on the other one, the load of a node is  *)
(* made of the loads of the jobs, and the stages of a job are exact.       *)
THEOREM CargaInvariante == Spec => []CInv
<1>1. Init => CInv
  BY CargaPrincipio
<1>2. IInv /\ CInv /\ [Next]_vars => CInv'
  BY CargaPaso
<1> QED
  BY <1>1, <1>2, Invariante, PTL DEF Spec

(* The load table is balanced: cargaActual, which the next planning starts *)
(* from, is the sum of the loads of the jobs as long as no block went back *)
(* and forth, and a job with no row in process, finished, aborted or left  *)
(* behind by its master, has given all of its load back.                   *)
THEOREM CargaSanaSiempre == Spec => []CargaSana
<1>1. IInv /\ CInv => CargaSana
  <2> SUFFICES ASSUME IInv, CInv PROVE CargaSana
    OBVIOUS
  <2>1. CargaLiberada
    <3> SUFFICES ASSUME NEW j \in Jobs, \A i \in Filas : tabla[i].job = j => tabla[i].estado # "EnProceso",
                        NEW n \in Nodos
                 PROVE  cargas[n].porJob[j] = 0
      BY DEF CargaLiberada
    <3>1. Vivas(j) = {}
      BY DEF Vivas, DelJob
    <3> QED
      BY <3>1 DEF CInv, CargaDe, Justificada, EnCarga
  <2> QED
    BY <2>1 DEF CargaSana, IInv, CInv
<1> QED
  BY <1>1, Invariante, CargaInvariante, PTL

(* Masters that come one after the other on a descriptor stay apart: the   *)
(* rows in process of a descriptor are of its master, and the loads that   *)
(* all of them leave on a node add up.                                     *)
THEOREM MastersSeparadosSiempre == Spec => []MastersSeparados
<1>1. LimpiezaPropia /\ CInv => MastersSeparados
  BY DEF CInv, MastersSeparados
<1> QED
  BY <1>1, LimpiezaPropiaSiempre, CargaInvariante, PTL

(* No stage works twice on a block and none leaves one out: as long as the *)
(* job had no late answer and no block was replanned onto a node already   *)
(* reducing, the local reductions given to its global reduction hold each  *)
(* block of the file once, through every replanning and every order of the *)
(* answers, and there is one global reduction and one final storage.       *)
THEOREM EtapasExactasSiempre == Spec => []EtapasExactas
<1>1. IInv /\ CInv => EtapasExactas
  <2> SUFFICES ASSUME IInv, CInv PROVE EtapasExactas
    OBVIOUS
  <2>1. EntradaExacta
    BY DEF CInv, EInv, EntradaDe, EntradaExacta
  <2> QED
    BY <2>1 DEF IInv, EtapasExactas
<1> QED
  BY <1>1, Invariante, CargaInvariante, PTL
=============================================================================
