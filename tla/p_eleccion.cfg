SPECIFICATION Spec
CONSTANTS
  Pid = {1, 2, 3}
  Estimacion = 2
  MaxReloj = 4
  MaxReady = 3
CHECK_DEADLOCK FALSE
INVARIANTS TypeOK EsperaAcotada
