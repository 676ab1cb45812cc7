---------------------------- MODULE Planificador ----------------------------
(***************************************************************************)
(* The kernel's scheduler: kernel/src/planificador.c and estado.c.         *)
(*                                                                         *)
(* Threads of the kernel process, each with a label en[h]:                 *)
(*   L  planificador_largo_plazo     C  planificador_corto_plazo           *)
(*   E  execute_pcb                  U  unblocked_pcb_after_fs             *)
(*   S  sleepHilo, started by E for an IO instruction                      *)
(* plus F, the thread atenderKernel of the filesystem process, and one     *)
(* thread nuevo_pcb_new per console, whose label is hilo[p].               *)
(* A step of a thread is what it does between two operations on state that *)
(* another thread can see: a semaphore, a list, a socket.  The mutexes of  *)
(* the lists make each list operation one step, except where the code      *)
(* takes none (pop_blocked, logReady).                                     *)
(*                                                                         *)
(* A program is the sequence of answers the cpu gives for that process:    *)
(* the cpu runs SET, MOV_IN and MOV_OUT by itself and answers once per     *)
(* context it receives, so the answers come in program order.              *)
(***************************************************************************)
EXTENDS Integers, Sequences, FiniteSets

CONSTANTS MaxProcesos,   \* bound: consoles that connect in one behaviour
          Grado,         \* GRADO_MAX_MULTIPROGRAMACION
          Algoritmo,     \* ALGORITMO_PLANIFICACION
          Instancias,    \* RECURSOS with their INSTANCIAS_RECURSOS
          Archivos,      \* file names the programs use
          MaxSegmentos,  \* CANT_SEGMENTOS, what memoria tells the kernel
          Programas      \* the instruction lists the consoles may send

Recursos == DOMAIN Instancias
Pid      == 1 .. MaxProcesos
Nadie    == 0

Hilos     == {"L", "C", "E", "U", "S", "F"}
Semaforos == {"nuevos", "grado", "libre", "ready", "execute", "envio", "io"}
Listas    == {"new", "ready", "execute", "blocked", "exit"}

Operaciones == {"YIELD", "EXIT", "SEG_FAULT", "IO", "WAIT", "SIGNAL",
                "CREATE_SEGMENT", "DELETE_SEGMENT", "OPEN", "CLOSE", "SEEK",
                "TRUNCATE", "READ", "WRITE", "MOV_INVALIDO"}
Instruccion == [op : Operaciones, arg : STRING]

(* Every console program ends with EXIT (or never gets that far).          *)
EsPrograma(s) == /\ s \in Seq(Instruccion)
                 /\ s # << >>
                 /\ s[Len(s)].op \in {"EXIT", "SEG_FAULT", "MOV_INVALIDO"}

ASSUME ParametrosAssumption ==
  /\ MaxProcesos \in Nat /\ Grado \in Nat /\ MaxSegmentos \in Nat
  /\ Algoritmo \in {"FIFO", "HRRN"}
  /\ Instancias \in [Recursos -> Nat]
ASSUME ProgramasAssumption == \A s \in Programas : EsPrograma(s)

VARIABLES
  nextPid,        \* next pid to hand out
  hilo,           \* label of the console thread of each process
  programa, pc,   \* PCB: instruction list and program_counter
  sem,            \* the POSIX semaphores
  cola,           \* listaDeProcesos of the five estado_proceso
  en, pcb, leido, \* each thread's label, its local pcb, what it read unlocked
  mutexExit,      \* owner of e_exit->mutexEstado
  instancias,     \* kernel_configs->instancias_recursos
  resultadoWait,  \* E's local: "sinValor" until a WAIT gives it a position
  globales,       \* names in lista_global_archivos
  abiertos,       \* tabla_de_archivos of each PCB: entries per name
  pedidosFs,      \* E -> F requests, each with the pid that waits for it
  desbloqueos,    \* F -> U pids on socket_fs_unblocked
  respuestaFs,    \* F -> E answer on socket_filesystem
  cantBlocked,    \* elements_count of the list of e_blocked
  perdidos,       \* PCBs the races on BLOCKED unlinked; Nadie: see Colgado
  caida           \* why the kernel process died, or "ninguna"

procesoVars == <<nextPid, hilo, programa, pc>>
recursoVars == <<instancias, resultadoWait>>
archivoVars == <<globales, abiertos>>
fsVars      == <<pedidosFs, desbloqueos, respuestaFs>>
vars == <<procesoVars, sem, cola, en, pcb, leido, mutexExit, recursoVars,
          archivoVars, fsVars, perdidos, cantBlocked, caida>>

Pertenece(p, s) == \E i \in DOMAIN s : s[i] = p

-----------------------------------------------------------------------------
(* inicializar_planificador, with the lists and semaphores of crear_estado. *)
Init ==
  /\ nextPid = 1
  /\ hilo = [p \in Pid |-> "sinConexion"]
  /\ programa = [p \in Pid |-> << >>]
  /\ pc = [p \in Pid |-> 0]
  /\ sem = [s \in Semaforos |-> IF s = "grado" THEN Grado
                                ELSE IF s = "libre" THEN 1 ELSE 0]
  /\ cola = [l \in Listas |-> << >>]
  /\ en = [h \in Hilos |-> IF h = "S" THEN "inactivo" ELSE "espera"]
  /\ pcb = [h \in Hilos |-> Nadie]
  /\ leido = [h \in Hilos |-> 0]
  /\ mutexExit = "libre"
  /\ instancias = Instancias
  /\ resultadoWait = "sinValor"
  /\ globales = {}
  /\ abiertos = [p \in Pid |-> [a \in Archivos |-> 0]]
  /\ pedidosFs = << >> /\ desbloqueos = << >>
  /\ respuestaFs = "nada"
  /\ perdidos = {} /\ cantBlocked = 0
  /\ caida = "ninguna"

-----------------------------------------------------------------------------
(* Building blocks: a thread moves from label de to label a; sem_wait and  *)
(* sem_post; list_add at the end of a list and list_remove of its head.    *)
Va(h, de, a) == en[h] = de /\ en' = [en EXCEPT ![h] = a]
EsperaSinBloquear(s) == sem' = [sem EXCEPT ![s] = @ - 1]  \* mutant
Espera(s)    == sem[s] > 0 /\ sem' = [sem EXCEPT ![s] = @ - 1]
Postea(s)    == sem' = [sem EXCEPT ![s] = @ + 1]
Agrega(l, p) == cola' = [cola EXCEPT ![l] = Append(@, p)]
Saca(l)      == cola' = [cola EXCEPT ![l] = Tail(@)]

(* list_remove of position i, wherever the element is.                     *)
SinPosicion(s, i) == SubSeq(s, 1, i - 1) \o SubSeq(s, i + 1, Len(s))
SacaPosicion(l, i) == cola' = [cola EXCEPT ![l] = SinPosicion(@, i)]

(* list_remove_by_condition with the predicate "has this pid".             *)
Posicion(p, s) == CHOOSE i \in DOMAIN s :
                    s[i] = p /\ \A j \in DOMAIN s : s[j] = p => i <= j

(* A sem_wait or a sem_post that is all a step does.                       *)
PasoEspera(h, de, s, a) ==
  /\ Va(h, de, a) /\ Espera(s)
  /\ UNCHANGED <<procesoVars, cola, pcb, leido, mutexExit, recursoVars,
                 archivoVars, fsVars, perdidos, cantBlocked, caida>>
PasoPostea(h, de, s, a) ==
  /\ Va(h, de, a) /\ Postea(s)
  /\ UNCHANGED <<procesoVars, cola, pcb, leido, mutexExit, recursoVars,
                 archivoVars, fsVars, perdidos, cantBlocked, caida>>

(* The kernel process dies: a NULL dereference or exit(-1).                *)
Cae(motivo) ==
  /\ caida' = motivo
  /\ UNCHANGED <<procesoVars, sem, cola, en, pcb, leido, mutexExit,
                 recursoVars, archivoVars, fsVars, perdidos, cantBlocked>>

(* Remove the head of list l into the thread's local pcb.  On an empty     *)
(* list list_remove gives NULL, and the log line that follows reads        *)
(* pcb->pid.                                                               *)
PasoSaca(h, l, a) ==
  /\ en[h] = "saca"
  /\ IF cola[l] = << >>
     THEN Cae("listaVacia")
     ELSE /\ Va(h, "saca", a) /\ Saca(l)
          /\ pcb' = [pcb EXCEPT ![h] = Head(cola[l])]
          /\ UNCHANGED <<procesoVars, sem, leido, mutexExit, recursoVars,
                         archivoVars, fsVars, perdidos, cantBlocked, caida>>

-----------------------------------------------------------------------------
(* nuevo_pcb_new, one thread per console: nuevoProceso takes a pid and     *)
(* fills the PCB, then NEW and nuevosPcbsReady.                            *)
NuevoProceso(s) ==
  /\ nextPid \in Pid
  /\ nextPid' = nextPid + 1
  /\ programa' = [programa EXCEPT ![nextPid] = s]
  /\ hilo' = [hilo EXCEPT ![nextPid] = "creado"]
  /\ UNCHANGED <<pc, sem, cola, en, pcb, leido, mutexExit, recursoVars,
                 archivoVars, fsVars, perdidos, cantBlocked, caida>>

PushNew(p) ==
  /\ hilo[p] = "creado"
  /\ hilo' = [hilo EXCEPT ![p] = "enNew"]
  /\ Agrega("new", p)
  /\ UNCHANGED <<nextPid, programa, pc, sem, en, pcb, leido, mutexExit,
                 recursoVars, archivoVars, fsVars,
                 perdidos, cantBlocked, caida>>

PostNuevos(p) ==
  /\ hilo[p] = "enNew"
  /\ hilo' = [hilo EXCEPT ![p] = "fin"]
  /\ Postea("nuevos")
  /\ UNCHANGED <<nextPid, programa, pc, cola, en, pcb, leido, mutexExit,
                 recursoVars, archivoVars, fsVars,
                 perdidos, cantBlocked, caida>>

-----------------------------------------------------------------------------
(* push_pcb_estado(e_ready, ...) as L, E and U run it: list_add under the  *)
(* mutex, then logReady, which reads the size and walks the list with no   *)
(* mutex, then the sem_post of e_ready by the caller.                      *)
PushReady(h) ==
  /\ Va(h, "pushReady", "cuenta") /\ Agrega("ready", pcb[h])
  /\ UNCHANGED <<procesoVars, sem, pcb, leido, mutexExit, recursoVars,
                 archivoVars, fsVars, perdidos, cantBlocked, caida>>

LogReadyCuenta(h) ==
  /\ Va(h, "cuenta", "lista")
  /\ leido' = [leido EXCEPT ![h] = Len(cola["ready"])]
  /\ UNCHANGED <<procesoVars, sem, cola, pcb, mutexExit, recursoVars,
                 archivoVars, fsVars, perdidos, cantBlocked, caida>>

(* list_get past the end gives NULL, and aux->pid dereferences it.         *)
LogReadyRecorre(h) ==
  /\ en[h] = "lista"
  /\ IF Len(cola["ready"]) < leido[h]
     THEN Cae("logReady")
     ELSE /\ Va(h, "lista", "postReady")
          /\ leido' = [leido EXCEPT ![h] = 0]
          /\ UNCHANGED <<procesoVars, sem, cola, pcb, mutexExit, recursoVars,
                         archivoVars, fsVars, perdidos, cantBlocked, caida>>

PostReady(h) ==
  PasoPostea(h, "postReady", "ready", IF h = "E" THEN "libera" ELSE "espera")

(* Mutant: the sem_post of e_ready comes before the push.                  *)
PasaAReadyAlReves(h) ==
  \/ PasoPostea(h, "pushReady", "ready", "postReady")
  \/ /\ Va(h, "postReady", IF h = "E" THEN "libera" ELSE "espera")
     /\ Agrega("ready", pcb[h])
     /\ UNCHANGED <<procesoVars, sem, pcb, leido, mutexExit, recursoVars,
                    archivoVars, fsVars, perdidos, cantBlocked, caida>>
PasaAReady(h) == \/ PushReady(h) \/ LogReadyCuenta(h)
                 \/ LogReadyRecorre(h) \/ PostReady(h)

-----------------------------------------------------------------------------
(* planificador_largo_plazo.                                               *)
LargoPlazoSinGrado ==       \* mutant: no sem_wait of grado_multiprogramacion
  \/ PasoEspera("L", "espera", "nuevos", "saca")
  \/ PasoSaca("L", "new", "pushReady")
  \/ PasaAReady("L")
LargoPlazo ==
  \/ PasoEspera("L", "espera", "nuevos", "grado")
  \/ PasoEspera("L", "grado", "grado", "saca")
  \/ PasoSaca("L", "new", "pushReady")
  \/ PasaAReady("L")

(* next_hrrn_proceso: with more than one process in READY,                 *)
(* list_get_maximum returns one and leaves it in the list.  Which one      *)
(* depends on the clock, so here it is any (Hrrn.tla has the choice).      *)
SacaHrrn ==
  /\ Len(cola["ready"]) > 1
  /\ Va("C", "saca", "pushExecute")
  /\ \E i \in DOMAIN cola["ready"] :
       pcb' = [pcb EXCEPT !["C"] = cola["ready"][i]]
  /\ UNCHANGED <<procesoVars, sem, cola, leido, mutexExit, recursoVars,
                 archivoVars, fsVars, perdidos, cantBlocked, caida>>

SacaUltimo ==       \* mutant: takes the process that came last
  /\ Va("C", "saca", "pushExecute") /\ cola["ready"] # << >>
  /\ pcb' = [pcb EXCEPT !["C"] = cola["ready"][Len(cola["ready"])]]
  /\ SacaPosicion("ready", Len(cola["ready"]))
  /\ UNCHANGED <<procesoVars, sem, leido, mutexExit, recursoVars, archivoVars,
                 fsVars, perdidos, cantBlocked, caida>>
SacaReadySinSacar ==       \* mutant: list_get where list_remove belongs
  /\ Va("C", "saca", "pushExecute") /\ cola["ready"] # << >>
  /\ pcb' = [pcb EXCEPT !["C"] = Head(cola["ready"])]
  /\ UNCHANGED <<procesoVars, sem, cola, leido, mutexExit, recursoVars,
                 archivoVars, fsVars, perdidos, cantBlocked, caida>>
SacaReady ==
  IF Algoritmo = "HRRN" /\ Len(cola["ready"]) > 1
  THEN SacaHrrn
  ELSE PasoSaca("C", "ready", "pushExecute")

(* push_pcb_estado(e_execute, ...) and the sem_post of e_execute, by C     *)
(* when it dispatches and by E when the process keeps the cpu.             *)
PushExecute(h) ==
  /\ Va(h, "pushExecute", "postExecute") /\ Agrega("execute", pcb[h])
  /\ UNCHANGED <<procesoVars, sem, pcb, leido, mutexExit, recursoVars,
                 archivoVars, fsVars, perdidos, cantBlocked, caida>>

(* Mutant: the sem_post of e_execute comes before the push.                *)
SigueEnExecuteAlReves(h) ==
  \/ PasoPostea(h, "pushExecute", "execute", "postExecute")
  \/ /\ Va(h, "postExecute", "espera") /\ Agrega("execute", pcb[h])
     /\ UNCHANGED <<procesoVars, sem, pcb, leido, mutexExit, recursoVars,
                    archivoVars, fsVars, perdidos, cantBlocked, caida>>
SigueEnExecute(h) == \/ PushExecute(h)
                     \/ PasoPostea(h, "postExecute", "execute", "espera")

(* planificador_corto_plazo.                                               *)
CortoPlazoSinLibre ==       \* mutant: no sem_wait of execute_libre
  \/ PasoEspera("C", "espera", "ready", "saca")
  \/ SacaReady
  \/ SigueEnExecute("C")
CortoPlazo ==
  \/ PasoEspera("C", "espera", "ready", "libre")
  \/ PasoEspera("C", "libre", "libre", "saca")
  \/ SacaReady
  \/ SigueEnExecute("C")

-----------------------------------------------------------------------------
(* execute_pcb.  E takes the head of EXECUTE, sends its context to the cpu *)
(* and waits for the answer; the switch on the answer's flag follows.      *)
Proceso   == pcb["E"]
Siguiente == programa[Proceso][pc[Proceso] + 1]
EnCurso   == programa[Proceso][pc[Proceso]]

(* The answer carries flag op and the new program_counter; E goes on at a. *)
Responde(op, a) ==
  /\ Va("E", "cpu", a)
  /\ pc[Proceso] < Len(programa[Proceso]) /\ Siguiente.op = op
  /\ pc' = [pc EXCEPT ![Proceso] = @ + 1]
  /\ UNCHANGED <<nextPid, hilo, programa, sem, cola, pcb, leido, mutexExit,
                 perdidos, cantBlocked, caida>>

(* The handler of op dereferences a bad pointer or calls exit.             *)
RespondeYCae(op, motivo) ==
  /\ en["E"] = "cpu"
  /\ pc[Proceso] < Len(programa[Proceso]) /\ Siguiente.op = op
  /\ Cae(motivo)

Yield == /\ Responde("YIELD", "pushReady")
         /\ UNCHANGED <<recursoVars, archivoVars, fsVars>>

Termina == /\ \E op \in {"EXIT", "SEG_FAULT"} : Responde(op, "estadoEnExit")
           /\ UNCHANGED <<recursoVars, archivoVars, fsVars>>

(* estadoEnExit locks e_exit and calls push_pcb_estado, which locks it     *)
(* again: a default mutex is not recursive, so the second lock waits for   *)
(* the thread that is waiting.                                             *)
EstadoEnExit ==
  /\ en["E"] \in {"estadoEnExit", "pushExit"}
  /\ mutexExit = "libre" /\ mutexExit' = "E"
  /\ IF en["E"] = "estadoEnExit"
     THEN en' = [en EXCEPT !["E"] = "pushExit"] /\ UNCHANGED cola
     ELSE en' = [en EXCEPT !["E"] = "enExit"] /\ Agrega("exit", Proceso)
  /\ UNCHANGED <<procesoVars, sem, pcb, leido, recursoVars, archivoVars,
                 fsVars, perdidos, cantBlocked, caida>>

(* WAIT: hay_elementos_wait grants while the count is not negative.  An    *)
(* exhausted resource is queued on arrayRecursos[-1], a NULL queue.        *)
WaitInexistente ==
  /\ Responde("WAIT", "estadoEnExit") /\ Siguiente.arg \notin Recursos
  /\ resultadoWait' = "noEsta"
  /\ UNCHANGED <<instancias, archivoVars, fsVars>>

WaitConcedeSiempre ==       \* mutant: grants whatever the count is
  /\ Responde("WAIT", "pushExecute") /\ Siguiente.arg \in Recursos
  /\ instancias' = [instancias EXCEPT ![Siguiente.arg] = @ - 1]
  /\ resultadoWait' = "posicion"
  /\ UNCHANGED <<archivoVars, fsVars>>
WaitConcede ==
  /\ Responde("WAIT", "pushExecute")
  /\ Siguiente.arg \in Recursos /\ instancias[Siguiente.arg] >= 0
  /\ instancias' = [instancias EXCEPT ![Siguiente.arg] = @ - 1]
  /\ resultadoWait' = "posicion"
  /\ UNCHANGED <<archivoVars, fsVars>>

WaitAgotado ==
  /\ RespondeYCae("WAIT", "recursoAgotado")
  /\ Siguiente.arg \in Recursos /\ instancias[Siguiente.arg] < 0

(* SIGNAL tests resultadoWait, not resultadoSignal: before any WAIT that   *)
(* is an uninitialized local, also used as an index in a log line.         *)
Signal ==
  /\ Responde("SIGNAL", "pushSignal")
  /\ resultadoWait \in {"sinValor", "posicion"}
  /\ instancias' = IF Siguiente.arg \in Recursos
                   THEN [instancias EXCEPT ![Siguiente.arg] = 1]
                   ELSE instancias
  /\ UNCHANGED <<resultadoWait, archivoVars, fsVars>>

SignalSinWait ==
  /\ resultadoWait = "sinValor"
  /\ \/ /\ Responde("SIGNAL", "estadoEnExit")
        /\ UNCHANGED <<recursoVars, archivoVars, fsVars>>
     \/ RespondeYCae("SIGNAL", "resultadoWait")

(* The first of SIGNAL's two push_pcb_estado(e_execute, ...); the count is *)
(* 1 by now, so the branch that wakes a waiter is never taken.             *)
PushSignal ==
  /\ Va("E", "pushSignal", "pushExecute") /\ Agrega("execute", Proceso)
  /\ UNCHANGED <<procesoVars, sem, pcb, leido, mutexExit, recursoVars,
                 archivoVars, fsVars, perdidos, cantBlocked, caida>>

-----------------------------------------------------------------------------
(* CREATE_SEGMENT: one entry of the table is segmento_zero, the others are *)
(* the segments created so far.                                            *)
CantSegmentos == 1 + Cardinality({i \in 1 .. pc[Proceso] :
                        programa[Proceso][i].op = "CREATE_SEGMENT"})

CreateSegment ==
  /\ Responde("CREATE_SEGMENT", IF CantSegmentos = MaxSegmentos
                                THEN "estadoEnExit" ELSE "memoria")
  /\ UNCHANGED <<recursoVars, archivoVars, fsVars>>

(* consultar_memoria_create, called without its second argument: header_   *)
(* general stores through that pcb and posts e_execute.                    *)
SegmentoCreado ==
  \/ PasoPostea("E", "memoria", "execute", "pushExecute")
  \/ en["E"] = "memoria" /\ Cae("pcbSinValor")

(* header_compactacion: sem_wait(&resourceAccess), the go-ahead to memoria *)
(* and a recv_buffer that reads a header as a size.                        *)
EmpiezaCompactacion ==
  /\ Va("E", "memoria", "compacta")
  /\ UNCHANGED <<procesoVars, sem, cola, pcb, leido, mutexExit, recursoVars,
                 archivoVars, fsVars, perdidos, cantBlocked, caida>>

FallaCompactacion == en["E"] = "compacta" /\ Cae("compactacion")

(* DELETE_SEGMENT packs the segment id as if it were its address; after an *)
(* invalid MOV the cpu answers with eight bytes.                           *)
DeleteSegment == RespondeYCae("DELETE_SEGMENT", "bufferPack")
MovInvalido   == RespondeYCae("MOV_INVALIDO", "respuestaDeCpu")

-----------------------------------------------------------------------------
(* OPEN: list_find gets a predicate that takes the struct by value, so it  *)
(* compares a word of the stack: it never finds the file, or faults when   *)
(* the list has an entry to try.  Then E asks F and waits for its answer.  *)
(* As no OPEN finds a file, no process is ever queued for one.             *)
OpenSinEsperar ==       \* mutant: does not wait for the answer of F
  /\ Responde("OPEN", "pushExecute")
  /\ pedidosFs' = Append(pedidosFs, [op |-> "OPEN", pid |-> Nadie])
  /\ UNCHANGED <<recursoVars, archivoVars, desbloqueos, respuestaFs>>
Open ==
  /\ Responde("OPEN", "esperaFs")
  /\ pedidosFs' = Append(pedidosFs, [op |-> "OPEN", pid |-> Nadie])
  /\ UNCHANGED <<recursoVars, archivoVars, desbloqueos, respuestaFs>>

PredicadoCae ==
  /\ globales # {}
  /\ \E op \in {"OPEN", "CLOSE"} : RespondeYCae(op, "predicadoPorValor")

CreaArchivo ==
  /\ en["E"] = "esperaFs" /\ respuestaFs = "nuevo"
  /\ pedidosFs' = Append(pedidosFs, [op |-> "CREATE_ARCHIVO", pid |-> Nadie])
  /\ respuestaFs' = "nada"
  /\ UNCHANGED <<procesoVars, sem, cola, en, pcb, leido, mutexExit,
                 recursoVars, archivoVars, desbloqueos,
                 perdidos, cantBlocked, caida>>

ArchivoAbierto ==
  /\ Va("E", "esperaFs", "pushExecute") /\ respuestaFs \in {"existe", "creado"}
  /\ respuestaFs' = "nada"
  /\ globales' = globales \union {EnCurso.arg}
  /\ abiertos' = [abiertos EXCEPT ![Proceso][EnCurso.arg] = @ + 1]
  /\ UNCHANGED <<procesoVars, sem, cola, pcb, leido, mutexExit, recursoVars,
                 pedidosFs, desbloqueos, perdidos, cantBlocked, caida>>

(* CLOSE: the entry leaves the PCB's table; list_find finds the file in    *)
(* the global list (a NULL if it is not there), and nobody waits for it.   *)
(* The predicate of the removal that follows is again one by value: it     *)
(* finds nothing and the file stays, or it faults (PredicadoCae).          *)
Close ==
  /\ Responde("CLOSE", "pushExecute") /\ Siguiente.arg \in globales
  /\ abiertos' = [abiertos EXCEPT ![Proceso][Siguiente.arg] =
                    IF @ > 0 THEN @ - 1 ELSE 0]
  /\ UNCHANGED <<recursoVars, globales, fsVars>>

CloseInexistente ==
  /\ RespondeYCae("CLOSE", "archivoNoAbierto")
  /\ Siguiente.arg \notin globales

Seek == /\ Responde("SEEK", "pushExecute")
        /\ abiertos[Proceso][Siguiente.arg] > 0
        /\ UNCHANGED <<recursoVars, archivoVars, fsVars>>

(* TRUNCATE, READ and WRITE send the request and the pid on two sockets; F *)
(* acts only when it has both, so one step sends both.                     *)
PideFs ==
  /\ \E op \in {"TRUNCATE", "READ", "WRITE"} :
       /\ Responde(op, "ubica")
       /\ op # "TRUNCATE" => abiertos[Proceso][Siguiente.arg] > 0
       /\ pedidosFs' = Append(pedidosFs, [op |-> op, pid |-> Proceso])
  /\ UNCHANGED <<recursoVars, archivoVars, desbloqueos, respuestaFs>>

NoAbierto ==
  /\ \E op \in {"SEEK", "READ", "WRITE"} :
       RespondeYCae(op, "archivoNoAbierto")
  /\ abiertos[Proceso][Siguiente.arg] = 0

-----------------------------------------------------------------------------
(* BLOCKED: a chain of links and a count of them.  E adds to it under the  *)
(* mutex (push_pcb_estado), but pop_blocked, which E and U run, takes      *)
(* none, so each walk of the chain and each store is a step of its own.    *)
Otro(h) == IF h = "E" THEN "U" ELSE "E"

(* elements_count++ and -- are a load and a store: the other thread's      *)
(* store may come in between and win.                                      *)
CambiaCant(h, n) ==
  cantBlocked' \in {n} \union (IF en[Otro(h)] \in {"enlaza", "quita"}
                              THEN {cantBlocked} ELSE {})

(* A freed link is still in the chain, after two unlinks at once.  A walk  *)
(* may find what it held, or fault on what free wrote there; so may a walk *)
(* that the other thread's list_remove overtakes.                          *)
Colgado == Nadie \in perdidos
Camina  == {"ubica", "sacaBlocked", "indice", "quita"}
CaminaSobreLiberado(h) ==
  /\ en[h] \in Camina /\ (Colgado \/ en[Otro(h)] = "quita")
  /\ Cae("listaCorrupta")

(* list_add by E: the link to store after is the one at elements_count     *)
(* (0: the list is empty, store in head); a NULL if the chain is shorter.  *)
Ubica ==
  /\ en["E"] = "ubica"
  /\ IF cantBlocked > Len(cola["blocked"])
     THEN Cae("listaCorrupta")
     ELSE /\ Va("E", "ubica", "enlaza")
          /\ leido' = [leido EXCEPT !["E"] = cantBlocked]
          /\ UNCHANGED <<procesoVars, sem, cola, pcb, mutexExit, recursoVars,
                         archivoVars, fsVars, perdidos, cantBlocked, caida>>

(* The store.  After a link that U has freed meanwhile it links nothing;   *)
(* after one that is not the last it cuts off the rest.                    *)
Liberado == -1
Enlaza ==
  /\ en["E"] = "enlaza"
  /\ IF leido["E"] = Liberado
     THEN perdidos' = perdidos \union {Proceso} /\ UNCHANGED cola
     ELSE /\ cola' = [cola EXCEPT !["blocked"] =
                        Append(SubSeq(@, 1, leido["E"]), Proceso)]
          /\ perdidos' = perdidos \union
               {cola["blocked"][i] :
                  i \in leido["E"] + 1 .. Len(cola["blocked"])}
  /\ CambiaCant("E", cantBlocked + 1)
  /\ leido' = [leido EXCEPT !["E"] = 0]
  /\ IF EnCurso.op = "IO"
     THEN en' = [en EXCEPT !["E"] = "esperaIo", !["S"] = "duerme"]
     ELSE en' = [en EXCEPT !["E"] = "postEnvio"]
  /\ UNCHANGED <<procesoVars, sem, pcb, mutexExit, recursoVars, archivoVars,
                 fsVars, caida>>

(* pop_blocked, list_find: the pid of the PCB is read before the NULL      *)
(* check, and it is this PCB that the caller pushes.                       *)
EncuentraBlocked(h) ==
  /\ en[h] = "sacaBlocked"
  /\ IF Pertenece(pcb[h], cola["blocked"])
     THEN /\ Va(h, "sacaBlocked", "indice")
          /\ UNCHANGED <<procesoVars, sem, cola, pcb, leido, mutexExit,
                         recursoVars, archivoVars, fsVars, perdidos,
                         cantBlocked, caida>>
     ELSE Cae("popBlocked")

(* list_remove_by_condition walks again, for the index; a walk that the    *)
(* other's unlink overtakes may end before it finds the pid.               *)
BuscaIndice(h) ==
  /\ \/ /\ Va(h, "indice", "quita") /\ Pertenece(pcb[h], cola["blocked"])
        /\ leido' = [leido EXCEPT ![h] = Posicion(pcb[h], cola["blocked"])]
     \/ /\ Va(h, "indice", "pushReady") /\ UNCHANGED leido
        /\ ~Pertenece(pcb[h], cola["blocked"]) \/ en[Otro(h)] = "quita"
  /\ UNCHANGED <<procesoVars, sem, cola, pcb, mutexExit, recursoVars,
                 archivoVars, fsVars, perdidos, cantBlocked, caida>>

(* Then list_remove of that index, whatever is there by now.  The place    *)
(* where E is going to store moves with it, or is the link freed.          *)
Corrida(n, k) == IF n = k THEN Liberado ELSE IF n > k THEN n - 1 ELSE n
QuitaEnlace(h) ==
  /\ Va(h, "quita", "pushReady")
  /\ leido[h] <= cantBlocked /\ leido[h] <= Len(cola["blocked"])
  /\ \/ /\ SacaPosicion("blocked", leido[h])
        /\ perdidos' = perdidos \union ({cola["blocked"][leido[h]]} \ {pcb[h]})
     \/ /\ en[Otro(h)] = "quita"     \* stored over by the other's unlink
        /\ UNCHANGED cola /\ perdidos' = perdidos \union {Nadie}
  /\ CambiaCant(h, cantBlocked - 1)
  /\ leido' = [leido EXCEPT ![h] = 0,
                 ![Otro(h)] = IF en[Otro(h)] = "enlaza"
                              THEN Corrida(@, leido[h]) ELSE @]
  /\ UNCHANGED <<procesoVars, sem, pcb, mutexExit, recursoVars, archivoVars,
                 fsVars, caida>>

(* An index that elements_count has passed by removes nothing; one that    *)
(* only the chain has passed by walks off its end.                         *)
QuitaNada(h) ==
  /\ leido[h] > cantBlocked
  /\ Va(h, "quita", "pushReady")
  /\ leido' = [leido EXCEPT ![h] = 0]
  /\ UNCHANGED <<procesoVars, sem, cola, pcb, mutexExit, recursoVars,
                 archivoVars, fsVars, perdidos, cantBlocked, caida>>
QuitaCae(h) ==
  /\ en[h] = "quita"
  /\ leido[h] <= cantBlocked /\ leido[h] > Len(cola["blocked"])
  /\ Cae("listaCorrupta")

SacaBlocked(h) == \/ EncuentraBlocked(h) \/ BuscaIndice(h)
                  \/ QuitaEnlace(h) \/ QuitaNada(h) \/ QuitaCae(h)
                  \/ CaminaSobreLiberado(h)

(* instruccion_en_IO: E itself waits for the sleep of the process.         *)
Io == /\ Responde("IO", "ubica")
      /\ UNCHANGED <<recursoVars, archivoVars, fsVars>>

(* Mutant: the sleeper ends without its sem_post.                          *)
SleepHiloSinPost ==
  /\ Va("S", "duerme", "inactivo")
  /\ UNCHANGED <<procesoVars, sem, cola, pcb, leido, mutexExit, recursoVars,
                 archivoVars, fsVars, perdidos, cantBlocked, caida>>
SleepHilo == PasoPostea("S", "duerme", "io", "inactivo")

-----------------------------------------------------------------------------
(* unblocked_pcb_after_fs.                                                 *)
RecibePidSinEnvio ==       \* mutant: no sem_wait of envio_bloqueo_fs
  /\ Va("U", "espera", "sacaBlocked") /\ desbloqueos # << >>
  /\ pcb' = [pcb EXCEPT !["U"] = Head(desbloqueos)]
  /\ desbloqueos' = Tail(desbloqueos)
  /\ UNCHANGED <<procesoVars, sem, cola, leido, mutexExit, recursoVars,
                 archivoVars, pedidosFs, respuestaFs,
                 perdidos, cantBlocked, caida>>

RecibePid ==
  /\ Va("U", "espera", "envio") /\ desbloqueos # << >>
  /\ pcb' = [pcb EXCEPT !["U"] = Head(desbloqueos)]
  /\ desbloqueos' = Tail(desbloqueos)
  /\ UNCHANGED <<procesoVars, sem, cola, leido, mutexExit, recursoVars,
                 archivoVars, pedidosFs, respuestaFs,
                 perdidos, cantBlocked, caida>>

(* stream_recv_header exits when the filesystem has closed its end.        *)
FsCerrado ==
  /\ en["F"] = "muerto" /\ desbloqueos = << >>
  /\ en["U"] = "espera" \/ en["E"] = "esperaFs"
  /\ Cae("filesystem")

DesbloqueoFs ==
  \/ RecibePid
  \/ PasoEspera("U", "envio", "envio", "sacaBlocked")
  \/ SacaBlocked("U")
  \/ PasaAReady("U")
  \/ FsCerrado

(* atenderKernel of the filesystem: one request at a time.  A READ makes   *)
(* it pack a pid as an address; WRITE and TRUNCATE may follow pointers of  *)
(* the block file that no one set.                                         *)
FsRespondeSinPid ==       \* mutant: the request is served, the pid not sent
  /\ en["F"] = "espera" /\ pedidosFs # << >>
  /\ pedidosFs' = Tail(pedidosFs)
  /\ UNCHANGED <<procesoVars, sem, cola, en, pcb, leido, mutexExit,
                 recursoVars, archivoVars, desbloqueos, respuestaFs, perdidos,
                 cantBlocked, caida>>
FsResponde ==
  /\ en["F"] = "espera" /\ pedidosFs # << >>
  /\ pedidosFs' = Tail(pedidosFs)
  /\ \/ /\ Head(pedidosFs).op = "OPEN"
        /\ respuestaFs' \in {"existe", "nuevo"} /\ UNCHANGED desbloqueos
     \/ /\ Head(pedidosFs).op = "CREATE_ARCHIVO"
        /\ respuestaFs' = "creado" /\ UNCHANGED desbloqueos
     \/ /\ Head(pedidosFs).op \in {"TRUNCATE", "WRITE"}
        /\ desbloqueos' = Append(desbloqueos, Head(pedidosFs).pid)
        /\ UNCHANGED respuestaFs
  /\ UNCHANGED <<procesoVars, sem, cola, en, pcb, leido, mutexExit,
                 recursoVars, archivoVars, perdidos, cantBlocked, caida>>

FsMuere ==
  /\ Va("F", "espera", "muerto") /\ pedidosFs # << >>
  /\ Head(pedidosFs).op \in {"READ", "WRITE", "TRUNCATE"}
  /\ UNCHANGED <<procesoVars, sem, cola, pcb, leido, mutexExit, recursoVars,
                 archivoVars, fsVars, perdidos, cantBlocked, caida>>

AtenderKernel == FsResponde \/ FsMuere

-----------------------------------------------------------------------------
Instrucciones ==
  \/ Yield \/ Termina \/ EstadoEnExit \/ Io
  \/ WaitInexistente \/ WaitConcede \/ WaitAgotado
  \/ Signal \/ SignalSinWait \/ PushSignal
  \/ CreateSegment \/ SegmentoCreado \/ EmpiezaCompactacion
  \/ FallaCompactacion \/ DeleteSegment \/ MovInvalido
  \/ Open \/ PredicadoCae \/ CreaArchivo \/ ArchivoAbierto
  \/ Close \/ CloseInexistente \/ Seek \/ PideFs \/ NoAbierto

ExecutePcb ==
  \/ PasoEspera("E", "espera", "execute", "saca")
  \/ PasoSaca("E", "execute", "cpu")
  \/ Instrucciones
  \/ Ubica \/ Enlaza
  \/ PasoEspera("E", "esperaIo", "io", "sacaBlocked")
  \/ SacaBlocked("E")
  \/ PasaAReady("E")
  \/ SigueEnExecute("E")
  \/ PasoPostea("E", "postEnvio", "envio", "libera")
  \/ PasoPostea("E", "libera", "libre", "espera")

Consola == \/ \E s \in Programas : NuevoProceso(s)
           \/ \E p \in Pid : PushNew(p) \/ PostNuevos(p)

Vivo == caida = "ninguna"

Next == /\ Vivo
        /\ \/ Consola \/ LargoPlazo \/ CortoPlazo \/ ExecutePcb
           \/ SleepHilo \/ DesbloqueoFs \/ AtenderKernel

Spec == Init /\ [][Next]_vars

(* Weak fairness per thread, as the operating system schedules them; the   *)
(* users who start consoles owe nothing, but a console thread that has     *)
(* begun goes on.                                                          *)
Fairness ==
  /\ \A p \in Pid : WF_vars(Vivo /\ (PushNew(p) \/ PostNuevos(p)))
  /\ WF_vars(Vivo /\ LargoPlazo) /\ WF_vars(Vivo /\ CortoPlazo)
  /\ WF_vars(Vivo /\ ExecutePcb) /\ WF_vars(Vivo /\ SleepHilo)
  /\ WF_vars(Vivo /\ DesbloqueoFs) /\ WF_vars(Vivo /\ AtenderKernel)

FairSpec == Spec /\ Fairness

-----------------------------------------------------------------------------
EtiquetasPop   == {"sacaBlocked", "indice", "quita"}
EtiquetasReady == {"pushReady", "cuenta", "lista", "postReady"}
Etiquetas ==
  [L |-> {"espera", "grado", "saca"} \union EtiquetasReady,
   C |-> {"espera", "libre", "saca", "pushExecute", "postExecute"},
   E |-> {"espera", "saca", "cpu", "estadoEnExit", "pushExit", "enExit",
          "pushExecute", "postExecute", "pushSignal", "memoria", "compacta",
          "esperaFs", "ubica", "enlaza", "esperaIo", "postEnvio", "libera"}
         \union EtiquetasPop \union EtiquetasReady,
   U |-> {"espera", "envio"} \union EtiquetasPop \union EtiquetasReady,
   S |-> {"inactivo", "duerme"},
   F |-> {"espera", "muerto"}]

Motivos == {"ninguna", "listaVacia", "listaCorrupta", "logReady", "popBlocked",
            "recursoAgotado", "resultadoWait", "pcbSinValor", "compactacion",
            "bufferPack", "respuestaDeCpu", "predicadoPorValor",
            "archivoNoAbierto", "filesystem"}

(* A request to F; only TRUNCATE, READ and WRITE come with a pid.          *)
Pedido == [op : {"OPEN", "CREATE_ARCHIVO"}, pid : {Nadie}]
          \union [op : {"TRUNCATE", "READ", "WRITE"}, pid : Pid]

TypeOK ==
  /\ nextPid \in 1 .. MaxProcesos + 1
  /\ hilo \in [Pid -> {"sinConexion", "creado", "enNew", "fin"}]
  /\ programa \in [Pid -> Programas \union {<< >>}]
  /\ pc \in [Pid -> Nat] /\ \A p \in Pid : pc[p] <= Len(programa[p])
  /\ sem \in [Semaforos -> Nat]
  /\ cola \in [Listas -> Seq(Pid)]
  /\ DOMAIN en = Hilos /\ \A h \in Hilos : en[h] \in Etiquetas[h]
  /\ pcb \in [Hilos -> Pid \union {Nadie}]
  /\ leido \in [Hilos -> Int] /\ \A h \in Hilos : leido[h] >= Liberado
  /\ mutexExit \in {"libre", "E"}
  /\ instancias \in [Recursos -> Int]
  /\ resultadoWait \in {"sinValor", "posicion", "noEsta"}
  /\ globales \subseteq STRING
  /\ abiertos \in [Pid -> [Archivos -> Nat]]
  /\ pedidosFs \in Seq(Pedido)
  /\ desbloqueos \in Seq(Pid)
  /\ respuestaFs \in {"nada", "existe", "nuevo", "creado"}
  /\ perdidos \subseteq Pid \union {Nadie}
  /\ cantBlocked \in Nat
  /\ caida \in Motivos

-----------------------------------------------------------------------------
En(h, S) == IF en[h] \in S THEN 1 ELSE 0

(* The cpu is one token.  While E waits for a dispatch the token is in     *)
(* execute_libre, with C from its sem_wait to its sem_post of e_execute,   *)
(* or in e_execute; while E runs a process it is nowhere else.  So at most *)
(* one process is dispatched (planificador.c:609-621), and no branch of    *)
(* the switch of execute_pcb forgets to give the cpu back or gives it      *)
(* back twice (the sem_posts of lines 155-499).                            *)
FichaUnicaDeCpu ==
  sem["libre"] + sem["execute"]
    + En("C", {"saca", "pushExecute", "postExecute"}) = En("E", {"espera"})

(* The same of the processes: while E has none, one has the cpu coming to  *)
(* it, or execute_libre says that none has; while E has one, no other has. *)
(* CREATE_SEGMENT posts e_execute once for nobody (planificador.c:925),    *)
(* which may end the kernel but never gives the cpu to two.  Of programs   *)
(* without SIGNAL, which pushes its process twice (238, 256).              *)
UnoTieneLaCpu ==
  sem["libre"] + En("C", {"saca", "pushExecute"}) + Len(cola["execute"])
    = En("E", {"espera", "saca", "postExecute"})

(* Each counting semaphore against the list it counts, with the threads    *)
(* that are between the list operation and the semaphore operation.        *)
Publicando == {"cuenta", "lista", "postReady"}

EnNew == {p \in Pid : hilo[p] = "enNew"}
NewContada ==
  Len(cola["new"]) = sem["nuevos"] + En("L", {"grado", "saca"})
                     + Cardinality(EnNew)

ReadyContada ==
  Len(cola["ready"]) >= sem["ready"] + En("C", {"libre", "saca"})
    + En("L", Publicando) + En("E", Publicando) + En("U", Publicando)

ExecuteContada ==
  Len(cola["execute"]) >= sem["execute"] + En("C", {"postExecute"})
                          + En("E", {"saca", "postExecute"})

ListasContadas == NewContada /\ ReadyContada /\ ExecuteContada

(* No thread removes the head of an empty list, which would be a NULL PCB  *)
(* (e_pop_primer_proceso and its callers never look at the result).        *)
NuncaSacaDeListaVacia ==
  /\ en["L"] = "saca" => cola["new"] # << >>
  /\ en["C"] = "saca" => cola["ready"] # << >>
  /\ en["E"] = "saca" => cola["execute"] # << >>

(* Multiprogramming degree: the processes past NEW are at most Grado.      *)
Admitidos == {p \in Pid : /\ hilo[p] \in {"enNew", "fin"}
                          /\ ~Pertenece(p, cola["new"])}
GradoRespetado == Cardinality(Admitidos) <= Grado

(* Where a process is: a list other than BLOCKED, the hands of a thread,   *)
(* or on its way through the filesystem with its pid, as a request, as an  *)
(* answer or with U.  A link in BLOCKED that an unsynchronised removal     *)
(* left behind gives nobody the process.                                   *)
EnManos(h) ==
  /\ en[h] \in CASE h = "L" -> {"pushReady"}
                 [] h = "C" -> {"pushExecute"}
                 [] h = "U" -> {"envio", "pushReady"} \union EtiquetasPop
                 [] h = "E" -> Etiquetas["E"] \ ({"espera", "saca", "enExit",
                      "postExecute", "postEnvio", "libera"} \union Publicando)
  /\ h = "E" /\ en[h] \in {"ubica", "enlaza"} => EnCurso.op = "IO"
Lugares(p) ==
  (UNION {{<<l, i>> : i \in {j \in DOMAIN cola[l] : cola[l][j] = p}} :
            l \in Listas \ {"blocked"}})
  \union {<<"pedidosFs", i>> :
            i \in {j \in DOMAIN pedidosFs : pedidosFs[j].pid = p}}
  \union {<<"desbloqueos", i>> :
            i \in {j \in DOMAIN desbloqueos : desbloqueos[j] = p}}
  \union {<<h, 0>> : h \in {t \in {"L", "C", "E", "U"} :
                            EnManos(t) /\ pcb[t] = p}}

(* A process is in one place: no interleaving of the pushes, the pops and  *)
(* the filesystem's pids hands it to two threads or puts it twice in READY.*)
(* Of FIFO without SIGNAL: next_hrrn_proceso and SIGNAL duplicate.         *)
UnSoloLugar == \A p \in Pid : Cardinality(Lugares(p)) <= 1

(* When U has taken envio_bloqueo_fs for the pid it received, E has put    *)
(* that PCB in BLOCKED, and it is there until U unlinks it, unless the     *)
(* unsynchronised list operations lost it.                                 *)
EnvioRespetaOrden ==
  en["U"] \in EtiquetasPop =>
    Pertenece(pcb["U"], cola["blocked"]) \/ pcb["U"] \in perdidos

(* A process that is BLOCKED: a sleep or the filesystem is to bring it     *)
(* back.  One that E has not linked yet is in EXECUTE until it is.         *)
PorEntrar(p) == en["E"] \in {"ubica", "enlaza"} /\ pcb["E"] = p
Bloqueado(p) ==
  /\ ~PorEntrar(p)
  /\ \/ \E i \in DOMAIN pedidosFs : pedidosFs[i].pid = p
     \/ Pertenece(p, desbloqueos)
     \/ EnManos("U") /\ pcb["U"] = p
     \/ /\ en["E"] \in {"esperaIo", "pushReady"} \union EtiquetasPop
        /\ pcb["E"] = p /\ EnCurso.op = "IO"

(* One OPEN or CREATE_ARCHIVO is outstanding exactly while E waits for an  *)
(* answer, so the answer E reads is of the request it has just made, with  *)
(* TRUNCATE, READ and WRITE of other processes on the same socket.         *)
RespuestaEsDelPedido ==
  Cardinality({i \in DOMAIN pedidosFs :
                 pedidosFs[i].op \in {"OPEN", "CREATE_ARCHIVO"}})
    + (IF respuestaFs = "nada" THEN 0 ELSE 1) = En("E", {"esperaFs"})

(* Units of r granted by WAIT and not given back by SIGNAL; the positions  *)
(* of a program are bounded by LargoMaximo.                                *)
LargoMaximo == 20
Veces(op, r) == {x \in Pid \X (1 .. LargoMaximo) :
                   /\ x[2] <= pc[x[1]]
                   /\ programa[x[1]][x[2]] = [op |-> op, arg |-> r]}
Retenidas(r) == Cardinality(Veces("WAIT", r)) - Cardinality(Veces("SIGNAL", r))

(* hay_elementos_wait tests "not negative" before it takes one, so WAIT    *)
(* gives out one unit more than there are, and never two.                  *)
ALoSumoUnaDeMas == \A r \in Recursos : Retenidas(r) <= Instancias[r] + 1

(* Before it lets memoria compact, the kernel is "Esperando fin de         *)
(* operaciones de FS" (planificador.c:906): none is under way when it has. *)
OperacionFs(r) == r.op \in {"READ", "WRITE"}
CompactaSinFs ==
  en["E"] = "compacta" =>
    \A i \in DOMAIN pedidosFs : ~OperacionFs(pedidosFs[i])

(* Once a console has connected, some process reaches the end of its       *)
(* program or the kernel dies: nothing before EXIT can leave every thread  *)
(* waiting, whatever YIELDs, sleeps and unblockings come first.            *)
Progreso == (nextPid > 1) ~> (en["E"] = "pushExit" \/ ~Vivo)

(* A process that is BLOCKED goes back to READY: its pid and               *)
(* envio_bloqueo_fs reach U, or the sleeper's post reaches E, and          *)
(* pop_blocked ends, whatever it leaves in the list.                       *)
SaleDeBlocked ==
  \A p \in Pid : Bloqueado(p) ~> (Pertenece(p, cola["ready"]) \/ ~Vivo)

(* estadoEnExit "manda el proceso completo a exit" (planificador.c:186).   *)
LlegaAExit ==
  \A p \in Pid : (en["E"] = "estadoEnExit" /\ Proceso = p) ~>
                   (Pertenece(p, cola["exit"]) \/ ~Vivo)

=============================================================================
