SPECIFICATION Spec
CONSTANTS
  N = 5
  MaxOrdenes = 4
  Nombres <- NombresMC
  Sufijo <- SufijoMC
  Rutas <- RutasMC
  Subidas <- SubidasMC
CHECK_DEADLOCK FALSE
INVARIANTS ArbolSano DiscoFiel
PROPERTIES ImplementaNombres
