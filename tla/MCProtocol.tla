----------------------------- MODULE MCProtocol -----------------------------
(* Values of the constants of Protocol for TLC. *)
EXTENDS Protocol, TLC

CONSTANTS h1, h2, pral, serv

Nulos == <<1, 1>>
Unos(s) == [op |-> s[1], vals |-> s[2], filas |-> <<>>]
Nadie == [t \in Hilos |-> <<>>]

De(tipo, fmt, fila) == [tipo |-> tipo, fmt |-> fmt, fila |-> fila]
Formas ==
     3 :> De("campos", <<"i">>, <<>>)                          \* OP_RESPONSE
  @@ 4 :> De("campos", <<"i", "s">>, <<>>)                     \* OP_INIT_JOB
  @@ 5 :> De("campos", <<"i">>, <<>>)                          \* OP_IDJOB
  @@ 9 :> De("campos", <<"s">>, <<>>)                          \* OP_REQUEST_FILE_INFO
  @@ 11 :> De("archivo", <<"s", "i", "i">>,
              <<"i", "i", "i", "s", "i", "s">>)                \* OP_ARCHIVO_NODES
  @@ 13 :> De("lista", <<"i">>, <<"s", "s", "s", "i", "i", "s">>) \* OP_INICIAR_TRANSFORMACION
  @@ 18 :> De("campos", <<"i", "s", "i", "i", "s">>, <<>>)     \* OP_TRANSFORMACION_LISTA
  @@ 19 :> De("campos", <<"i", "s", "i">>, <<>>)               \* OP_REDUCCION_LOCAL_LISTA

(* YAMA and a Master of two threads. *)
ConYama ==
  [saludo |-> Unos(<<5, <<1>>>>), pedido |-> Unos(<<4, <<1, <<2>>>>>>),
   respuesta |-> (4 :> [op |-> 13, vals |-> <<1>>,
                        filas |-> <<<<<<1>>, <<>>, <<>>, 1, 20, <<2>>>>>>]),
   trabajos |-> (h1 :> <<Unos(<<18, <<1, <<>>, -1, 2, <<>>>>>>)>>
              @@ h2 :> <<Unos(<<19, <<1, <<>>, -1>>>>)>>)]

(* FileSystem, stable or not, and the YAMA that asks it for a file. *)
ConFileSystem(c, filas) ==
  [saludo |-> Unos(<<OP_RESPONSE, <<c>>>>), pedido |-> Unos(<<9, <<<<1, 2, 3>>>>>>),
   respuesta |-> (9 :> [op |-> 11, vals |-> <<<<3>>, 20, 0>>, filas |-> filas]),
   trabajos |-> Nadie]

Libretos == {ConYama, ConFileSystem(-1, <<>>),
             ConFileSystem(0, <<<<0, 20, 1, <<1>>, 0, Nulo>>>>)}

(* What is packed comes out again, for each format that serial.h lists and *)
(* the values at the ends of its range, and what follows it stays.         *)
Valores(c) ==
  CASE c = "s" -> {<<>>, <<1>>, <<2, 3>>, Nulo}
    [] c = "x" -> {<<>>, <<0, 3>>}
    [] c \in {"c", "h", "i", "l"} -> {-(Base^Ancho(c) \div 2), -1, 0, 1, Base^Ancho(c) \div 2 - 1}
    [] OTHER -> {0, 1, Base^Ancho(c) - 1}
Letras == {"c", "C", "h", "H", "i", "I", "l", "L", "s", "x"}
ASSUME IdaYVuelta ==
  \A c, d \in Letras : \A v \in Valores(c), w \in Valores(d) :
    LET b == Agregar(<<c, d>>, <<v, w>>)
    IN  /\ Quitar(<<c, d>>, b) = [vals |-> <<v, w>>, resto |-> <<>>, cae |-> FALSE]
        /\ Quitar(<<c>>, b) = [vals |-> <<v>>, resto |-> Agregar(<<d>>, <<w>>), cae |-> FALSE]
        /\ Quitar(<<c, d, c>>, b).cae
=============================================================================
