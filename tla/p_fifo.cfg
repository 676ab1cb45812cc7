SPECIFICATION Spec
CONSTANTS
  MaxProcesos = 3
  Grado = 2
  Algoritmo = "FIFO"
  Instancias <- SinRecursos
  Archivos = {"f"}
  MaxSegmentos = 3
  Programas <- ConCreate
CHECK_DEADLOCK FALSE
INVARIANTS UnoTieneLaCpu GradoRespetado UnSoloLugar
PROPERTIES ImplementaCiclo
