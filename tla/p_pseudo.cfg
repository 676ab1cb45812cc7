SPECIFICATION Spec
CONSTANTS
  Programas <- UnosProgramas
  MaxPaquete = 45
CHECK_DEADLOCK FALSE
INVARIANTS TypeOK ListaEsElPrograma LosDosLeenLoMismo
PROPERTIES LlegaElPrograma
