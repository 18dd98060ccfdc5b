SPECIFICATION Spec
CONSTANTS
  n1 = n1  n2 = n2
  OrdenNodos <- DosNodos
  Total <- Tamanios
  Consola = consola
  Trabajadores = {w}
  Rutas = {p, q}
  Nadie = Nadie
  MaxBloques = 2
  MaxSubidas = 2
  MaxOrdenes = 2
  MaxCaidas = 0
  MaxReinicios = 0
INVARIANTS EspacioSano BitsJustificados Integridad TablaSana BajadaFiel CaidaExplicada
PROPERTIES SubidaTermina
CHECK_DEADLOCK FALSE
