------------------------------- MODULE Serial -------------------------------
(***************************************************************************)
(* Shared/serial.c: what goes into a packet and what is read from it.      *)
(* A byte takes one of Base values, and an integer half the bytes it takes *)
(* in the code.                                                            *)
(* Floats (f, d), which nothing sends, are left out.                       *)
(***************************************************************************)
EXTENDS Integers, Sequences

LOCAL INSTANCE SequencesExt

CONSTANTS
  Base,       \* values of a byte
  NullString, \* "__NULL__"
  Nulo,       \* NULL
  Basura      \* a variable that nothing was read into

ASSUME SerialAssumption == Base \in Nat /\ Base % 2 = 0 /\ Base > 1

Bytes == 0..Base - 1
Ancho(c) == CASE c \in {"c", "C", "h", "H"} -> 1 [] c \in {"i", "I"} -> 2 [] c \in {"l", "L"} -> 4
ConSigno(c) == c \in {"c", "h", "i", "l"}

(* packi16, packi32, packi64: two's complement, high byte first. *)
Packi(v, w) == [k \in 1..w |-> (v \div Base^(w - k)) % Base]

Unpacku(b) ==
  LET hasta[k \in 0..Len(b)] == IF k = 0 THEN 0 ELSE hasta[k - 1] * Base + b[k]
  IN  hasta[Len(b)]
Unpacki(b) ==
  IF 2 * Unpacku(b) < Base^Len(b) THEN Unpacku(b) ELSE Unpacku(b) - Base^Len(b)

Cadena0(s)  == Append(IF s = Nulo THEN NullString ELSE s, 0)
Campo(c, v) == CASE c = "s" -> Cadena0(v)
                 [] c = "x" -> Packi(Len(v), Ancho("i")) \o v
                 [] OTHER   -> Packi(v, Ancho(c))

(* add_variadic. *)
Agregar(fmt, vals) == FlattenSeq([k \in DOMAIN fmt |-> Campo(fmt[k], vals[k])])

(* One field read at the start of b: its value and the bytes it takes, which *)
(* are more than those of b when it goes on after the end.                   *)
Fuera(b) == [v |-> Basura, n |-> Len(b) + 1]
Texto(b) ==
  LET fin == SelectInSeq(b, LAMBDA x : x = 0)
      s   == SubSeq(b, 1, fin - 1)
  IN  IF fin = 0 THEN Fuera(b)
      ELSE [v |-> IF s = NullString THEN Nulo ELSE s, n |-> fin]
Leido(c, b) ==
  LET w == Ancho(IF c = "x" THEN "i" ELSE c)       \* the length of x goes first
      u == SubSeq(b, 1, w)
  IN  IF c = "s" THEN Texto(b)
      ELSE IF Len(b) < w THEN Fuera(b)
      ELSE IF c = "x"
      THEN IF Unpacku(u) > Len(b) - w THEN Fuera(b)
           ELSE [v |-> SubSeq(b, w + 1, w + Unpacku(u)), n |-> w + Unpacku(u)]
      ELSE [v |-> IF ConSigno(c) THEN Unpacki(u) ELSE Unpacku(u), n |-> w]

(* remove_variadic: nothing is read from an empty container; after one that *)
(* was too short its size, unsigned, is huge, and moving what is left goes   *)
(* over memory that is not there.                                            *)
Quitado(p, r) ==
  [vals |-> Append(p.vals, r.v), resto |-> SubSeq(p.resto, r.n + 1, Len(p.resto)),
   cae |-> p.cae \/ r.n > Len(p.resto)]
Quitar(fmt, b) ==
  LET hasta[k \in 0..Len(fmt)] ==       \* the set of what is read with k fields: one
        IF k = 0 THEN {[vals |-> <<>>, resto |-> b, cae |-> FALSE]}
        ELSE UNION {{Quitado(p, r) : r \in {Leido(fmt[k], p.resto)}} : p \in hasta[k - 1]}
  IN  IF b = <<>> THEN [vals |-> [k \in DOMAIN fmt |-> Basura], resto |-> b, cae |-> FALSE]
      ELSE CHOOSE fin \in hasta[Len(fmt)] : TRUE

-----------------------------------------------------------------------------
(* What the programs put in one packet: some fields, and rows of fields      *)
(* either counted before them (struct.c) or until nothing is left (yfile.c). *)

EmpaquetarFilas(fmt, filas) == FlattenSeq([k \in DOMAIN filas |-> Agregar(fmt, filas[k])])

Empaquetar(f, m) ==
  CASE f.tipo = "campos"  -> Agregar(f.fmt, m.vals)
    [] f.tipo = "lista"   -> Agregar(<<"i">>, <<Len(m.filas)>>) \o EmpaquetarFilas(f.fila, m.filas)
    [] f.tipo = "archivo" -> Agregar(f.fmt, m.vals) \o EmpaquetarFilas(f.fila, m.filas)

(* The rows counted before them, or those there are until nothing is left. *)
Quedan(f, total, p) == IF f.tipo = "lista" THEN Len(p.filas) # total ELSE p.resto # <<>>
ConFila(p, r) == [filas |-> Append(p.filas, r.vals), resto |-> r.resto, cae |-> r.cae]
QuitarFilas(f, total, b) ==
  LET hasta[k \in 0..Len(b)] ==
        IF k = 0 THEN {[filas |-> <<>>, resto |-> b, cae |-> FALSE]}
        ELSE UNION {IF p.cae \/ ~Quedan(f, total, p) THEN {p}
                    ELSE {ConFila(p, r) : r \in {Quitar(f.fila, p.resto)}} : p \in hasta[k - 1]}
  IN  hasta[Len(b)]

ConFilas(f, b, r) ==
  IF r.cae \/ b = <<>> \/ f.tipo = "campos"
  THEN {[vals |-> r.vals, filas |-> <<>>, cae |-> r.cae]}
  ELSE {[vals |-> r.vals, filas |-> p.filas, cae |-> p.cae \/ Quedan(f, r.vals[1], p)] :
          p \in QuitarFilas(f, r.vals[1], r.resto)}
Desempaquetar(f, b) ==
  CHOOSE m \in UNION {ConFilas(f, b, r) : r \in {Quitar(f.fmt, b)}} : TRUE
=============================================================================
