# TLA+ models of the TP (kernel, memoria, cpu, filesystem, consola)

The repository is a small distributed operating system in C: five processes
joined by TCP sockets.  Consoles send programs; the kernel schedules them; the
cpu runs them one at a time; memoria holds their segments; the filesystem holds
their files.  This directory models the parts whose correctness depends on the
order in which threads and processes act, checks them with TLC on small
instances and proves with TLAPS what holds of every instance.

Names in the modules are those of the code, in Spanish; comments are in English.

## 1. The system

| Part | Source | State | Operations | Talks to |
|---|---|---|---|---|
| Scheduler | `kernel/src/planificador.c`, `estado.c` | five `estado_proceso` (list, mutex, semaphore), semaphores `nuevosPcbsReady`, `grado_multiprogramacion`, `execute_libre`, `envio_bloqueo_fs`, `io`, `resourceAccess` | threads `planificador_largo_plazo`, `planificador_corto_plazo`, `execute_pcb`, `unblocked_pcb_after_fs`, `sleepHilo`, one `nuevo_pcb_new` per console | cpu, memoria, filesystem, consoles |
| HRRN | `planificador.c` 64-118 | `tiempo_de_llegada`, `rafaga_estimada` of each PCB | `next_hrrn_proceso`, `mayor_hrrn` | READY |
| Resources | `planificador.c` 172-261, 870-900 | `instancias_recursos`, `arrayRecursos` | `WAIT`, `SIGNAL` | lists |
| Open files | `planificador.c` 340-500 | `lista_global_archivos`, `tabla_de_archivos` of each PCB | `OPEN CLOSE SEEK READ WRITE TRUNCATE` | filesystem |
| Segments | `memoria/src/segmentacion.c`, `memoria_solicitudes.c` | `bitMapSegment`, `tablaSegmentos` | create, delete, compact | kernel, on one socket |
| Memory accesses | `memoria_solicitudes.c` 105-256 | bytes | `m_read m_write f_read f_write` | cpu, filesystem |
| Filesystem service | `filesystem/src/filesystem.c` | files, blocks | `atenderKernel` | kernel (two sockets), memoria |
| Blocks and FCBs | `operaciones.c`, `filesystem.c` 267-416 | bitmap, block file, FCB files | truncate, read, write | the disk |
| Cpu | `cpu/src/cpu.c` | registers of the current context | `realizar_instrucciones`, `decode` | kernel, memoria |
| Console | `consola/src` | the parsed program | send, wait for the end | kernel |
| Start-up | the four `main`s | sockets | handshakes | each other |
| Serialisation | `utils.c`, `buffer.c` | - | pack, unpack, send, recv | - |

What is hard here:

* **Threads that hand processes over.**  Every list comes with a counting
  semaphore that another thread waits for.  The PCB is in the hands of a thread
  between a pop and a push, and the push and the post are two steps.
  Correct: the cpu is given to one process at a time and never lost; no list is
  popped when empty; a process is in one place; at most
  `GRADO_MAX_MULTIPROGRAMACION` processes are past NEW; work goes on.
* **Operations with no mutex**: `pop_blocked`, `logReady`, the console threads'
  and `execute_pcb`'s messages to memoria.  Correct: what goes wrong stays
  within what the code says (a lost link, one left behind, a NULL), and messages
  are not taken for parts of one another.  The same of `tiempo_de_llegada`, which
  is renewed while `list_get_maximum` reads it.
* **Answers that come on their own time**: the filesystem's pid on its second
  socket may come before `execute_pcb` has put that process in BLOCKED; OPEN
  shares a socket with the TRUNCATEs and WRITEs of other processes.
* **Boundaries**: the counts of a resource, the bit after the last byte of a
  segment, a hole of size 0, integer division in HRRN.
* **A process that dies** in the middle of what the others do, or between two
  writes to the disk, and is launched again.
* **Bytes with no tags**: what a message means depends on the order in which
  both ends read it.  Four tables of arities must agree on each instruction,
  memoria takes its clients by the order they connect in, the kernel reads four
  messages that only their order tells apart.
* **One context that travels**: the program counter is in the PCB, in the cpu
  and in the answer; the registers are in none of them.

All the hazards, with their lines and the properties that watch them, are in
`PROJECT.json`.

## 2. Modules

| Module | What it is |
|---|---|
| `Planificador` | the scheduler, one action per step of each thread; resources; open files; the filesystem as the thread it talks to |
| `CicloDeVida` | abstract: what the kernel promises of the life of a process |
| `PlanificadorCiclo` | the refinement mapping from `Planificador` to `CicloDeVida` |
| `MCPlanificador` | the programs and resources TLC uses |
| `Hrrn` | which process HRRN takes, with the clock |
| `Memoria` | the segment allocator, and the socket that the kernel's threads share |
| `Pseudocodigo` | a program from the user's file to the cpu: the parser and every packing and unpacking of the list |
| `MCPseudocodigo` | the files TLC parses |
| `Cpu` | the cpu's loop and `decode`, with the kernel that sends contexts and the memory that serves MOVs |
| `MCCpu` | the programs TLC runs on it |
| `Archivos` | the blocks, the bitmap and the FCBs, with a death at any step and the restart |
| `TablaFcb` | abstract: the sizes of the files, what an operation and a death may do to them |
| `Arranque` | the four `main`s: connections, handshakes, kills, relaunches |
| `PlanificadorProofs` | TLAPS: types, a thread's local pcb; the cpu is one token; READY, EXECUTE and NEW against their semaphores; the degree; the units of a resource |
| `PlanificadorCicloProofs` | TLAPS: the filesystem's answers and the unblocking come for who waits for them; a process is in one place; one has the cpu; the scheduler implements `CicloDeVida` |
| `HrrnProofs` | TLAPS: types, and the bound on who is left in READY |
| `MemoriaProofs` | TLAPS: segments, bitmap, one hole; then the socket: types, the kernel's tables, the answers |
| `ArchivosProofs` | TLAPS: types, and the refinement of `TablaFcb` |
| `CpuProofs` | TLAPS: each instruction once and in order, the registers, the addresses of file operations and of MOV_OUT |
| `ArranqueProofs` | TLAPS: types, the tables in order, who is paired with whom |
| `PseudocodigoProofs` | TLAPS: types, both ends read the same list, the list is the user's program |

`CicloDeVida` <- `PlanificadorCiclo` EXTENDS `Planificador`; `MCPlanificador`
EXTENDS `PlanificadorCiclo`.  `PlanificadorCicloProofs` EXTENDS
`PlanificadorCiclo` and `PlanificadorProofs`.  `Memoria` has its own, smaller view of
`execute_pcb` and of the console threads: only their messages to memoria.
`Planificador` in turn sees memoria as an answer that comes or not, the cpu as
the answers of `Cpu`, the filesystem as the answers and the deaths of
`Archivos`.  `Archivos` implements `TablaFcb` (`INSTANCE ... WITH` at its end).

### Planificador: state and code

`en[h]` is where thread `h` is, with the threads named by a letter: `L` largo
plazo, `C` corto plazo, `E` execute_pcb, `U` unblocked_pcb_after_fs, `S`
sleepHilo, `F` the filesystem's `atenderKernel`; `hilo[p]` is the label of the
console thread of process `p`.  `pcb[h]` is the thread's local PCB pointer,
`cola[l]` the list of each `estado_proceso`, `sem[s]` the semaphores:

| `sem` | code |
|---|---|
| `nuevos` | `nuevosPcbsReady` |
| `grado` | `grado_multiprogramacion` |
| `libre` | `execute_libre` |
| `ready`, `execute` | `get_e_semaforos(e_ready)`, `(e_execute)` |
| `envio` | `envio_bloqueo_fs` |
| `io` | the semaphore `sleepHilo` posts |

A step is what a thread does between two operations others can see.  A list
operation under its mutex is one step.  Where the code takes no mutex the
operation is split.  `LogReadyCuenta` reads the size of READY, `LogReadyRecorre`
walks it.  BLOCKED, which `E` adds to and from which both `E` (after an IO) and
`U` (after the filesystem) remove, is a chain of links (`cola["blocked"]`) and its
`elements_count` (`cantBlocked`), which may drift apart:

| Step | Code | What the other thread may have done since the step before |
|---|---|---|
| `Ubica` | `list_add`: walk to the last link | the count is more than the chain: the walk ends in a NULL |
| `Enlaza` | `list_add`: store after it, `elements_count++` | that link was freed: the PCB is linked nowhere; it is no longer the last: the rest is cut off |
| `EncuentraBlocked` | `list_find` of `pop_blocked` (630) | the PCB is not in the chain: NULL, and its pid is read |
| `BuscaIndice` | `list_remove_by_condition` (631): walk again for the index | the walk is overtaken by an unlink and finds nothing |
| `QuitaEnlace`, `QuitaNada`, `QuitaCae` | `list_remove` of that index, `elements_count--` | the index is stale: another PCB is unlinked, or nothing; or the two unlinks overwrite each other |

`CambiaCant` lets the other thread's store of `elements_count` win.  `perdidos` has
the PCBs that were unlinked for another or linked nowhere, and `Nadie` when a freed
link is still in the chain (`Colgado`): a walk over it may find what it held or
fault (`CaminaSobreLiberado`); what the allocator may do with that memory later is
not followed.  So a link may stay in BLOCKED although `pop_blocked` has returned its
PCB and the caller has pushed it to READY: such a link gives nobody the process, and
`Lugares`, `Bloqueado` and the life cycle go by who is to bring the process back
(the sleeper, the filesystem with its pid, `U`) and not by the links.

The cpu enters as data: a program is the sequence of answers it gives.  The
cpu runs `SET`, `MOV_IN`, `MOV_OUT` by itself and answers once per context it
receives, so answers come in program order.  `SEG_FAULT` is the answer of an
F_READ or F_WRITE out of bounds; `MOV_INVALIDO` stands for the eight bytes it
sends after an invalid MOV.

Where the code dereferences NULL or an uninitialised pointer, or calls `exit`,
the kernel process ends: `caida` says why and no action is enabled after it.
Where the outcome depends on what is in memory (the predicates that take a
struct by value, the uninitialised `resultadoWait`, the `pcb` that
`consultar_memoria_create` is not given) both outcomes are there.

What the code cannot reach is left out, and why:

* what follows `estadoEnExit` (freeing the PCB, `estado_end_liberar`, the post
  of `grado_multiprogramacion`, the message to the console): `estadoEnExit`
  locks `e_exit->mutexEstado` and then calls `push_pcb_estado`, which locks it
  again, so `execute_pcb` never comes back;
* the branches that wake a waiter in SIGNAL and CLOSE: a SIGNAL always leaves
  the count at 1 (`=+ 1`), and nobody ever waits for a file, since OPEN never finds
  one open (its predicate takes the struct by value, 347).  CLOSE's `list_find`
  (397) does find the file; its removal (399), by value again, does not;
* the success of a compaction and of DELETE_SEGMENT: one side dies first.

Abstractions that a reader should know:

* The two sends of TRUNCATE, READ and WRITE (request, then pid on the other
  socket) are one step: `F` acts only when it has both.
* Within BLOCKED a step is a whole walk or a whole store; a walk that another
  thread's unlink overtakes may end early or fault, whatever link it was at.
* In `Planificador` HRRN takes *any* process of READY; `Hrrn` has the real
  choice.  What is checked of `Planificador` under HRRN holds of any choice.
* `posicion_puntero`, sizes, addresses, the length of a sleep and all logging
  are left out.

### Memoria

`ocupados` is the set of set bits of the bitmap, bit `TAM_MEMORIA` included;
`tabla` is `tablaSegmentos`.  `mem` is where `peticiones_kernel` is, `en` where
`execute_pcb` is, `consola[p]` where each console thread is.  `canal` and
`respuestas` are the two directions of the socket, a message being one send: a
header and an empty buffer or one int.  `peticiones_kernel` takes the parts of a
request by position, without a look at their headers, as in the code.
`ocuparBitMap` sets `base..base+limite`, one bit more than the segment has
bytes.  The table is only ever appended to, since the kernel sends no `I_EXIT`,
dies packing `DELETE_SEGMENT`, and memoria does not survive a compaction.

### Hrrn

`ready` with the clock (`ahora`), `llegada` (the `tiempo_de_llegada` of each PCB)
and the semaphore.  `L` and `E` push first and renew `tiempo_de_llegada` after
(595; 153, 820), `U` renews first (658).  `list_get_maximum` goes comparison by
comparison: `pcb["C"]` is the leader, `ready[i]` the element it has come to, and
`mayor_hrrn` is four steps, each of which reads the clock and one
`tiempo_de_llegada`.  The mutex of `e_ready` keeps pushes away meanwhile but not the
renewals, so `L` and `U` may renew a PCB that has been, or is about to be, compared.
`E` cannot: `C` only chooses after `execute_libre`, which `E` posts when it has
renewed.  The chosen process stays in the list when there is more than one, as
`list_get_maximum` does not remove.  Every estimate is `ESTIMACION_INICIAL`: nothing
ever writes `rafaga_real`.  Two history variables: `inicio`, when the choice began,
and `pisada`, whether a PCB that `C` was going by (the leader, or the one it tied
with) was renewed during it.  After such a renewal the leader keeps the lead it had
with a wait that no longer is, and the next element that is no better than its new
ratio may win over one that has waited far longer: `EsperaAcotada` says nothing of
those choices, because of those nothing holds.

### Pseudocodigo

The parser's `fscanf`s see words, not lines: `palabras` is what they have not
read.  Its one `instruccion` is reused from line to line, so its three pointers
(`ptr`: NULL, to an `opchar`, or never assigned) and the three `opchar` keep what
the lines before left.  `paquete` is the buffer, a sequence of items: an
instruction number or a length with its string; reading one as the other is to be
out of step (`desalineado`), whatever the bytes would then say.  `lugar` says who
reads the buffer: the kernel (`obtener_lista_instrucciones`), the cpu and the
kernel again with each context (`desempaquetar_lista_instrucciones`), as many
times as it travels.  `Palabra` is what a `char[20]` may hold: a word of the
file, a name, what was never assigned or what is out of step; it is a named set
because the provers do not know of a literal that it is in `STRING`.  The file may
be missing; the frees at the end of the parser
may abort (`Liberar`), since `instruc` has fewer bytes than its struct.

### Cpu

`pcb`, `cpu` and the messages in between (`aCpu`, `aKernel`) each hold a program
counter; `hechas` is a history variable that counts what really ran.  The kernel
is `execute_pcb` as the cpu sees it: it dispatches any process, waits, and takes
whatever answer comes as that process's.  `reg` says which process wrote each
register since the context came, `memoria` which process wrote each address: the
data are authors, not values.  `Basuras` is what an uninitialised segment may
say when no segment has the number asked for.  Physical addresses past the end of
the memory are written nowhere in the model (in the code, past the `malloc`).

### Archivos

`fcb`, `bitmap` and `palabra` are what a death leaves: the files of the FCBs and
the two mappings.  An FCB is absent, empty (what `open` with `O_CREAT`, or
`config_save` before it writes, leave) or complete.  Each loop is one turn a
step; `cfg` is the `t_config` in memory and `i` the loop's counter.  A request blocks
in up to three places: for the request itself, for its pid on the second socket
(`recibirPidBLoqueado`; the kernel sends it before a READ or a WRITE and after a
TRUNCATE), and for memoria's bytes in a WRITE.  `vivas` says which of the kernel and
memoria live, `llego` that what the process waits for was sent; `ConexionCortada` is
`stream_recv_buffer`, which exits when the other end has closed.  `CaerFs`, the death
of the process, may come at any point; the mappings are shared, so what was stored in
them survives it.  A machine that stops, with pages not yet written, is not
modelled.  The restart clears the bitmap, reads *any* set of FCBs, since
`leerFCBs` stops at the first `.` or `..` of the directory, and dies of an empty
one.  The words of a block are block numbers or data (`Dato`), and a word of data
taken for a pointer marks any bit or kills the process.

### Arranque

A connection is the client, the handshake it opens with and the launch it belongs
to.  `cola` is what `accept` has not returned yet, `aceptadas` what it has,
`correo` the headers on their way.  Modules are launched by hand (`Lanzar`), die
of a refused or cut connection (`Termina`), or are killed (`Caer`).  `Levantar`
may fail to bind from the second launch on, and nobody notices.

## 3. What the runs check

| Run | Question | Shows |
|---|---|---|
| `p_fifo` | FIFO, three processes, degree two, IO, TRUNCATE, CREATE_SEGMENT, YIELD | one process at a time has the cpu, also when CREATE_SEGMENT posts `e_execute` for nobody; the degree; one place per process, with two `pop_blocked` at once; and that the scheduler implements `CicloDeVida` |
| `p_live` | HRRN, where the chosen process stays in READY, with WAIT on one unit, under fairness, two processes | some program gets to its end or the kernel dies; a blocked process comes back to READY; the cpu is one token, the lists hold what their semaphores promise and none is popped empty; WAIT grants at most one unit too many |
| `p_todas` | every instruction, with each way it goes wrong | types, answers of the filesystem go to their requests, BLOCKED before its unblocking |
| `p_memoria` | two processes that create segments while consoles connect | segments disjoint, bitmap exact, one hole, the kernel's copy of the table, the segment made is the one asked for |
| `p_eleccion` | which process HRRN takes | types; nobody left in READY has waited one estimate and the time of the choice more than the chosen one, while the clock goes on and arrivals are renewed between the comparisons |
| `p_pseudo` | every short file, well written or not | of a well-formed file the kernel and the cpu get what the user wrote, and it gets there; of any file, kernel and cpu never disagree on the list once the kernel has it |
| `p_archivos` | two files, truncated, written and created, with deaths and restarts | the FCBs are a table where each request acts once and a death loses at most the FCB being saved; the service never stays in the middle of a request, whether it waits for the kernel's pid or for memoria, and whoever of them dies |
| `p_cpu` | two programs that share the cpu and the memory | each instruction once and in order; file operations inside a segment; a MOV at most one register past its end; registers of one process; every context answered |
| `p_arranque` | the four modules, in any order, killed and launched again | the servers have the clients they take them for; the tables are read in order; the right order always ends with four modules that serve |

Three runs show a disagreement between what the repository says and what the code
does; each is a finding of `PROJECT.json`:

| Run | What it shows |
|---|---|
| `v_exit` | a program that only yields and exits never reaches EXIT: `estadoEnExit` waits for a mutex it holds |
| `v_compacta` | memoria gets its go-ahead to compact while a WRITE is under way |
| `v_create` | after CREATE_SEGMENT `e_execute` is posted twice and an empty list is popped |

Other disagreements that the models contain and TLC shows when asked, and for
which no run is kept:

* a resource with n units is granted n + 1 times (`planificador.c:885`; what
  `ALoSumoUnaDeMas` bounds);
* two consoles that connect at once may interleave their two-part messages, and
  memoria ends unpacking an empty buffer (`planificador.c:543-550`);
* a tie in HRRN goes to the last arrival (`planificador.c:92`), not the first;
* an F_SEEK after an F_READ or F_WRITE is packed with three strings and read with
  two (`parsear.c:92`), and from there on the kernel misreads the list;
* a MOV whose first byte is inside the limit may end outside (`cpu.c:159`, `190`);
* a WRITE over block 0, which every file shares, leaves data where the next
  TRUNCATE reads block numbers (`operaciones.c:22`, `60`);
* a memoria that is killed and launched again takes new clients while the cpu goes
  on with its dead connection, and the kernel may then serve with a cpu whose
  memoria is gone: `ParejasBien` is therefore about the first launch of memoria.

What each property means for the code is in the comment above it.

### Bounds

| Bound | Value | Why it is enough |
|---|---|---|
| `MaxProcesos` | 2 or 3 | three is one more than the degree in `p_fifo`, so that the third waits in NEW; the races are between two threads over one or two processes |
| `Programas` (`MCPlanificador`) | 2-11 programs of 1-4 answers | each way to leave EXECUTE and come back, and each handler's error path, at least once and with another process at the same time; `ConCreate` (`p_fifo`) creates a segment after an IO and after a TRUNCATE; `ConWait` asks for more units than there are, and is joined to `MezclaCorta` in `p_live` |
| `MaxSegmentos` | 3 | reached by a program with three CREATE_SEGMENT |
| `LargoMaximo` | 20 | positions of a program, over which `Veces` counts; programs have at most 4 |
| `TamMemoria` = 10, sizes 0, 2, 3 (`Memoria`) | | fills the memory to the last byte, to the bit after it, and asks for more than is left |
| `Pid` = 1..3, `MaxReloj` = 4, `Estimacion` = 2 (`Hrrn`) | | waits of up to two estimates; ties and differences; a leader, one it ties with and a third |
| `MaxReady` = 3 | | two comparisons in one choice, with duplicates, which HRRN leaves |
| `Programas` (`MCPseudocodigo`) | all files of 0-3 of nine lines, some of 4, and the console's own file | each arity after each other one, operands that run into the next line, a word that is not an instruction, no EXIT |
| `MaxPaquete` = 45 | | the console's file is 40 items; stops the parser that finds no EXIT |
| `CantBloques` = 2, `TamBloque` = 8, `UltimaPalabra` = 3 | | sizes of 0 to 3 blocks, so that the direct block, the indirect one and the words are each used; every block is block 0 in this code |
| `TamMemoria` = 36, `TamMaxSegmento` = 16 (`Cpu`) | | segment 0, one segment per process placed everywhere it fits, one number without a segment; offsets at the limit, before it and past it, with each register size |
| `Veces` = 2, `MaxCaidas` = 1 | | each module dies and comes back once, with one death that is nobody's fault; a relaunch meets connections of both launches |

`CHECK_DEADLOCK FALSE` in every configuration, because these systems really
stop: `execute_pcb` waits for itself in `estadoEnExit`, a process dies, the
consoles are all connected, the clock reaches its bound, nobody launches a module
again.

### Fairness

* `Planificador`, `FairSpec`: weak fairness of each thread (`LargoPlazo`,
  `CortoPlazo`, `ExecutePcb`, `SleepHilo`, `DesbloqueoFs`, `AtenderKernel`) and of
  the console threads that have begun: the operating system runs a thread that can
  run, a sleep ends, the cpu and the filesystem answer or die.  Users owe no
  console, so `NuevoProceso` has none.  No strong fairness: one thread waits on
  each semaphore.  `Progreso` says nothing past the first EXIT because nothing
  happens past it (see `v_exit`).
* `Pseudocodigo` and `Cpu`: weak fairness of `Next`.  At each moment one process
  has the turn and the others wait for its message, so this is each process's own.
* `Archivos`: weak fairness of the thread that serves (`Servir` while the process
  is up), of the end of `leerFCBs`, whose directory is finite, of `execute_pcb`
  between its two sends (`EnviaPid`: nothing blocks it there while the kernel lives)
  and of memoria's answer to a read it was asked for (`MemoriaResponde`).  Neither the
  kernel's requests, nor a death of anybody, nor the restart has any.
* `Arranque`: weak fairness of each client's and each server's own steps.  Nobody
  has to launch or kill a module, or to use a connection that was cut.

## 4. What is proved

For every value of the constants that satisfies `ParametrosAssumption` and
`ProgramasAssumption` of `Planificador` (any number of consoles, any degree, any
resources, any programs, FIFO or HRRN):

* `TipoInvariante` (`PlanificadorProofs`): the inductive
  invariant `Inv1` is the types, `PcbTomado` (a thread past its pop has a pid in its
  local pcb) and `ProgramaFijado` (a pid that is not handed out yet has no program).  Types alone are not inductive: a
  push appends the thread's local pcb, which has to be a pid.
* `FichaUnica`: `FichaUnicaDeCpu`, for programs without
  CREATE_SEGMENT (`SinCreate`).  The invariant `Inv2` adds the count of EXECUTE,
  because when EXECUTE could be empty while `e_execute` is posted the token
  would die with the kernel.  The proof names each number once
  (`Conteo`) and shows for each thread which of them a step moves; the rest is
  linear arithmetic.
* `GradoInvariante`: at most `Grado` processes past NEW.
  The invariant is an equation, `sem["grado"]` plus `L` between its wait and
  its pop plus the admitted processes is `Grado`; it needs `NewUnica`, that NEW
  never holds a process twice, for the pop to admit exactly one.
* `ListasInvariante`, `ListaVaciaInvariante`: the lists hold what their
  semaphores promise, so no thread pops an empty list (without CREATE_SEGMENT;
  with it, `v_create` pops one).  `SoloExecuteVacia`: EXECUTE is the only one that
  can be; NEW and READY are never empty when they are popped, whatever the
  programs.
* `RecursosInvariante`: WAIT gives out at most one unit more than there are, for
  programs without SIGNAL (`SinSignal`).  The invariant says that the units given
  out are at most those the count has come down by, and that the count is never
  below -1.  With SIGNAL it is false: `=+ 1` sets the count to 1 whatever it was, and
  two WAITs, a SIGNAL and two more WAITs of one unit leave three given out.
* `EnvioInvariante` (`PlanificadorCicloProofs`): when `U` has taken `envio_bloqueo_fs`,
  the PCB of the pid it holds is in BLOCKED, at each step of its `pop_blocked`, or the
  races on that list lost it.  The pid of a
  TRUNCATE, READ or WRITE is in the requests, then on the second socket, then in
  `U`; the invariant bounds these, pid by pid, by BLOCKED and what `E` has
  still to push (`BlockedContada`), and all of them against the semaphore and
  what `E` has still to post (`EnvioContado`), and says that while `E` owes
  either its request is the last of the line (`UltimoEsDeE`).  `Cuantos` has one
  lemma per list operation.  Any programs, either algorithm.
* `RespuestaInvariante`: one OPEN or CREATE_ARCHIVO is on the socket, or
  answered, exactly while `E` waits for it, whatever the requests of other
  processes that share the socket.
* `LugarInvariante`: every pid is in exactly one *site*: a list other than BLOCKED,
  the hands of one thread, its way through the filesystem (request, answer, `U`), or
  outside until its console has put it in NEW; and no list has it twice.  The links of
  BLOCKED are not sites, for `pop_blocked` without a mutex may leave one behind: that
  the process is nevertheless handed on once is what the theorem says.  Each action is shown to
  be one move between two sites (`Mueve`) or none, and the invariant is read off
  the moves.  FIFO and `SinSignal`: `next_hrrn_proceso` leaves in READY the
  process it takes, and SIGNAL pushes its process twice, so of the others the
  property is false.
* `UnoInvariante`: `UnoTieneLaCpu`, for `SinSignal`, with CREATE_SEGMENT and either
  algorithm.  The semaphore `execute_libre`, `C` between its wait and its push,
  and the length of EXECUTE add up to one while `E` has no pcb, to zero while it has.  Unlike
  the token it does not speak of `e_execute`, the semaphore that CREATE_SEGMENT
  posts for nobody, so it needs no other invariant but `Inv1`.
* `CicloImplementado`: the refinement `ImplementaCiclo`, for FIFO and `SinSignal`.
  The same moves are the steps of `CicloDeVida`: each is one of its
  actions or a stutter under the mapping of `PlanificadorCiclo`, and so is `Enlaza`,
  the one step by which a process becomes blocked without a move, with
  `UnoTieneLaCpu` for one process at a time in EXECUTE, and `GradoRespetado` for the admissions.  Only the
  safety part: the abstract specification states no fairness.

For every size of the memory, of segment 0 and of the requests
(`MemoriaAssumption`), and every order of the messages:

* `SegmentosInvariante`, `MapaInvariante`, `NuncaEligeInvariante`
  (`MemoriaProofs`): the inductive invariant says that the occupied bits are
  exactly `0..Tope`, `Tope` being the end of the last segment, and that
  segments follow one another.  Then there is one hole (`UnHueco`), so
  `elegirSegunCriterio`, which has no return, is never called; a request either
  fits there (`DondeCabe`) or asks for a compaction.
* `TiposDeMemoria`, `TablasInvariante`, `PedidoInvariante`: the conversation on
  the socket, from `IInv2`.  While both processes live, the headers and the pids
  that the consoles write come in pairs, each header before its own pid though not
  next to it (`Consolas`: there is a pairing `f`), the four messages of a request
  are read in the order they were sent, whatever lies between them (`EnOrden`), and
  a request is in one phase at a time (`Fases`): being sent and read, answered in
  two messages, in one, or waiting for the compaction.  Whoever has died, what is
  on its way back is a whole answer (`Respuestas`) of the last segment of the
  table, numbered by its position (`Numerados`).  From it, the kernel's table of
  each process has memoria's segments but for the one on its way, and the segment
  of an answer is the one asked for.  Pids are from 1, as `nuevoProceso` gives
  them (`MemoriaAssumption`); the 0 of the first row of the table is nobody's.

For any files, sizes, blocks and words (`Archivos`):

* `TiposDeArchivos`, `CumpleSiempre` (`ArchivosProofs`): the filesystem implements
  `TablaFcb`.  The invariant that carries the simulation, `Marcha`, says that a
  CREATE is only ever of a file that OPEN did not find, and that in the middle of a
  TRUNCATE the FCB on disk is complete and of the size that was read, until
  `config_save` opens it.  Each action
  is then shown to be one of `Pedir`, `Hacer`, `Responder`, `Caer` or a stutter.

For any processes, programs that end in their one EXIT, segments and sizes, and
any garbage (`Cpu`):

* `TiposDeLaCpu`, `CuentaExacta`, `RegistrosPropios`, `ArchivosAdentro`
  (`CpuProofs`): the inductive invariant has the types; `Lugar`, that what the
  kernel waits for is in exactly one place (a context on its way, the cpu, or an
  answer on its way), also after the eight bytes of an invalid MOV; and
  `Contador`, that the program counter of that one place is what `hechas` counts
  and lies within the program, and that the table in the cpu is the one in the PCB,
  so that a test against the one is a test against the other (`ArchivosAdentro`).

* `RegistroDeMas`: `SePasaALoSumoUnRegistro`.  The access the cpu asks for starts
  in a segment of the PCB or at its end (`AccesoAdentro`), and a PCB never loses a
  segment (`TablasCrecen`), so what was near a segment stays near it.

For any number of launches and kills (`Arranque`):

* `TiposDeArranque` (`ArranqueProofs`): the types, with where each process may be
  at each label and what it holds there (`Inv1`).
* `TablasInvariante`: `TablasEnOrden`.  The argument is about *places*: a
  connection has one at its server from `connect` on, whether `accept` has returned
  it or not.  `Inv2` says who may be in them, that nobody is twice, that the end a
  live client has leads to that launch of the server, and that nobody has an answer
  before its greeting is read.  `LosEfectos` reduces the program's steps to nine
  effects on the places.  Then what the kernel has had from memoria and what is on
  its way are one conversation (`Conversacion`): the answer, then the tables, up to
  where memoria has sent.
* `ParejasInvariante`: `ParejasBien`.  `Inv3` adds who is paired with whom: what has
  an answer is in the place of its handshake (`Contestadas`), for which the tables
  that memoria sends to a third client that is not the kernel must never look like an
  answer (`Ajeno`: the first of them is another header); the two sockets
  of the filesystem lead to one launch of it (`Dobles`), because it exits at a
  greeting it does not wait for (`Esperadas`) and a filesystem that holds a place of
  an earlier kernel was up before this one (`Vieja`); and the cpu and the filesystem
  that the kernel reached are those in memoria's places (`Socios`).

For any processes, estimate, length of READY and instant of the clock (`Hrrn`):

* `TiposDeHrrn` (`HrrnProofs`): the types, with the position that
  `list_get_maximum` has come to within READY: nobody pushes or removes meanwhile.
* `EsperaInvariante`: `EsperaAcotada`.  The invariant follows the choice (`LiderBien`):
  unless it is `pisada`, nobody that the leader has been compared with (`Vistos`) had,
  when the choice began, a better ratio than the leader has now, nor than what `C` has
  read of it or of the other.  A renewal only lowers the ratio of the renewed, and the
  clock only raises ratios, so neither breaks it; the end of a comparison adds the one
  that lost.  At the end all of READY has been seen (`TodosVistos`).  Then a ratio
  that is no better is a wait less than one estimate longer, the ratio being an integer
  division (`Cociente`), and what waits have grown since is the time of the choice.

For any files that are sequences of words (`ProgramasAssumption` of
`Pseudocodigo`), well written or not, and however often the context travels:

* `TiposDePseudocodigo`, `AcuerdoInvariante` (`PseudocodigoProofs`): the invariant
  `Acuerdo` has the types, who has the turn (`Turnos`), and that what is left in the
  buffer is what its reader has left to read of the other's list, packed
  (`EnViaje`).  The recursive definitions over a list (`Texto`, `Empaquetada`) are taken apart by
  their pieces and rests (`EsPrefijos`, `EsRestos`, `SeSigue`), by an
  induction on numbers that goes by the least one at which a fact would fail
  (`Induccion`, from `Minimo`), since the library's theorems take an operator.  `Aridades` is the fact on which it all rests: no
  table has more than three, a context carries at least the operands that the user
  wrote, and the parser's table and the kernel's agree on every name there is.
* `ListaInvariante`: `ListaEsElPrograma`.  For a well-formed file the invariant
  adds that the parser stands at the start of a line and what it has packed are
  the lines before (`Parseando`), that the kernel has the user's lines up to where
  it has read the buffer (`Entero`, `Obteniendo`), and that every list after that
  says what the user wrote (`Fiel`).  The parser's one `instruccion` makes it subtle:
  an F_SEEK packs three strings unless `parametro3` is NULL, so the invariant says
  that it is after any line but an F_READ or F_WRITE; a well-formed file has no
  F_SEEK first, or after one of those with only F_SEEKs in between.

Every invariant that a run checks is a theorem, under the hypotheses named above,
and so are both refinements.

Only model-checked:

* The liveness properties (`Progreso`, `SaleDeBlocked`, `NoSeCuelga`,
  `LlegaElPrograma`, `SiempreResponde`, `ArrancaBien`), out of the prover's reach.
* What the hypotheses leave out.  With CREATE_SEGMENT the token and the count of
  EXECUTE (`v_create` shows that it is false).  With SIGNAL, or with HRRN, the
  places and the life cycle, where a process really is in two places; with SIGNAL,
  the units of a resource and the cpu of one process.

The project declares no RECURSIVE operator.

## 5. Not modelled

* `DELETE_SEGMENT`, the end of a process and compaction inside memoria: the
  code does not get there (above).
* Values: the contents of memory, of files and of registers, and what is written
  past the end of a register (`escribir_valor_en_registro`, `cpu.c:339`).  `Cpu`
  follows who wrote each address, `Archivos` which words are block numbers.
* The heap beyond the memory: `inicializacion_memoria` allocates
  `sizeof(memoria_configs->tam_memoria)`, four bytes, for a memory of `tam_memoria`
  (`memoria.c:96`), so that the accesses of MOV, F_READ and F_WRITE land in whatever
  the heap has there.  The models have the whole memory, as the allocator and its
  bitmap take it to be.
* What the allocator does with the link of BLOCKED that was freed while still chained,
  but for what a walk over it may find.
* `f_read` and `f_write` of memoria: a READ ends the filesystem before it asks for
  one, and of a WRITE no property speaks of the bytes.
* The other fields of a context (`archivo`, `tiempo`, `recurso`, the sizes): both
  ends pack and unpack them in one fixed order.
* A message that TCP splits: `stream_recv_buffer` makes one `recv` without
  `MSG_WAITALL`.  Messages arrive whole in the models, as they do on the local
  connections the configuration files set up.
* Once the four modules serve, the end of the others after one dies, except for
  the filesystem's in `Planificador` (`FsMuere`, `FsCerrado`), the kernel's in
  `Cpu`, and the cuts of `Arranque`.
* What the console waits for at the end: the kernel never sends it.
* `serializador.c` and the packet functions of `utils.c` (1-220) that nothing calls.

## 6. Plan

Done: `Planificador` with its fair specification; `CicloDeVida` and the
refinement; `Hrrn`; `Memoria`; `Pseudocodigo`; `Archivos` and the refinement of
`TablaFcb`; `Cpu`; `Arranque`; the theorems above.

Left, in this order:

1. `Planificador` composed with `Cpu` in place of programs as sequences of
   answers: the state space is the product, and `p_todas` is already large.
2. The socket as bytes, for `stream_recv_buffer`.
