SPECIFICATION Spec
CONSTANTS
  MaxProcesos = 2
  Grado = 2
  Algoritmo = "FIFO"
  Instancias <- UnRecurso
  Archivos = {"f"}
  MaxSegmentos = 3
  Programas <- ArchivosYResto
CHECK_DEADLOCK FALSE
INVARIANTS TypeOK RespuestaEsDelPedido EnvioRespetaOrden
