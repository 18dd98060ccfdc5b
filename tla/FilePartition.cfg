SPECIFICATION Spec
CONSTANTS
  NUL = 0
  BLOCK_SIZE = 6  Trozo = 2
  MaxLinea = 7  MaxLineas = 4  MaxBytes = 19
  Archivos <- Todos  Ocupaciones <- OtrosArchivos
INVARIANTS ParticionCorrecta ReconstruccionFiel
CHECK_DEADLOCK FALSE
