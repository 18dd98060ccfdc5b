SPECIFICATION Spec
CONSTANTS
  a = a  b = b
  OrdenNodos <- DosNodos
  Consola = consola  Escucha = escucha
  Pedidores = {consola, escucha}
  Nadie = Nadie
  MaxCaidas = 1
INVARIANTS RespuestaPropia ManejadorVigente
PROPERTIES RespuestaLlega
CHECK_DEADLOCK FALSE
