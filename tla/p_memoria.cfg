SPECIFICATION Spec
CONSTANTS
  Pid = {1, 2}
  TamMemoria = 10
  TamSegmento0 = 2
  CantSegmentos = 4
  Tamanios = {0, 2, 3}
  Ids = {7}
CHECK_DEADLOCK FALSE
INVARIANTS TypeOK SegmentosDisjuntos MapaExacto NuncaElige TablasCoinciden SegmentoPedido
