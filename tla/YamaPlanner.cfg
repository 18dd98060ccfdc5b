SPECIFICATION Spec
CONSTANTS
  a = a  b = b  c = c
  Nodos = {a, b, c}
  SinNodo = SinNodo
  DispBase = 1  CargaTope = 2  MaxGiro = 8
  Algoritmos = {"CLOCK", "WCLOCK"}
  ListasActivas <- ListasMC
  Archivos <- ArchivosMC
  Cargas <- CargasMC
INVARIANTS PlanSano RelojJusto CaidaSoloPorTablaVieja ConfigVigente
PROPERTIES ImplementaBlockPlan PlanTermina
CHECK_DEADLOCK FALSE
