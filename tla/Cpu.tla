-------------------------------- MODULE Cpu --------------------------------
(***************************************************************************)
(* The cpu (cpu.c) between the kernel, which sends it execution contexts   *)
(* and waits for an answer, and the memory, which serves MOV_IN and        *)
(* MOV_OUT (peticiones_cpu).  A context is the pid, the program counter    *)
(* and the table of segments of a PCB; the cpu runs SET, MOV_IN and        *)
(* MOV_OUT without answering, and answers every other instruction with the *)
(* context and what it asks for.  The registers do not travel: both ends   *)
(* pack the eight bytes of a pointer.                                      *)
(*                                                                         *)
(* Which process runs next is Planificador's matter: here the kernel takes *)
(* any, and any answer may end it (Planificador says which ones do).       *)
(* A value is as long as the register it is put in.                        *)
(***************************************************************************)
EXTENDS Integers, Sequences

CONSTANTS Pid,
          Programa,        \* per process, its list of instructions
          TamMaxSegmento,  \* TAM_MAX_SEGMENTO of cpu.cfg
          TamSegmento0,    \* limit of segment 0, which all processes share
          TamMemoria,      \* TAM_MEMORIA
          Basuras          \* what an uninitialised segment may say

Nadie == 0
SinSegmento == -1
Registros == {"AX", "EAX", "RAX"}
Dir == 0..(TamMemoria - 1)

(* The instructions, with what they need: a logical address (dir), a size or
   a segment (n), a register.  "OTRA" is any other that sends the context:
   WAIT, SIGNAL, F_OPEN, F_CLOSE, F_SEEK, F_TRUNCATE, DELETE_SEGMENT. *)
Op == {"SET", "MOV_IN", "MOV_OUT", "F_READ", "F_WRITE", "CREATE_SEGMENT",
       "OTRA", "I/O", "YIELD", "EXIT"}
Instruccion == [op : Op, dir : Nat, n : Nat, reg : Registros]
Segmento == [id : Nat, base : Nat, limite : Nat]

ASSUME PidAssumption == Pid \subseteq Nat \ {Nadie}
ASSUME ProgramaAssumption ==
    \A p \in Pid : /\ Programa[p] \in Seq(Instruccion)
                   /\ Len(Programa[p]) > 0
                   /\ \A k \in 1..Len(Programa[p]) :
                          Programa[p][k].op = "EXIT" <=> k = Len(Programa[p])
ASSUME TamaniosAssumption ==
    /\ TamMaxSegmento \in Nat \ {0} /\ TamSegmento0 \in Nat
    /\ TamMemoria \in Nat \ {0}
    /\ Basuras \subseteq [base : Nat, limite : Nat]

VARIABLES
    pcb,      \* kernel, per process: [pc, tabla]
    kernel,   \* [estado, pid]: "elige", "espera" the answer of pid, "muerto",
              \* "colgado" for ever in estadoEnExit
    aCpu,     \* contexts sent and not received
    aKernel,  \* answers sent and not received
    cpu,      \* [estado, pid, pc, tabla, inst]: "espera", "ejecuta",
              \* "memoria" (inst waits for it), "muerta"
    reg,      \* per register, who has written it since the context came
    aMemoria, \* the access the cpu asked of memory, and nobody has served
    memoria,  \* per address, who wrote it last, or SinSegmento when the cpu
              \* had not found the segment
    hechas    \* history: instructions of each process the cpu has finished

vars == <<pcb, kernel, aCpu, aKernel, cpu, reg, aMemoria, memoria, hechas>>
delKernel == <<pcb, kernel>>
delCpu == <<cpu, reg, aMemoria, hechas>>

-----------------------------------------------------------------------------
(* mutant: the default of the function, zero, stays for AX, BX, CX and DX *)
TamRegistroSinElse(r) == IF r \in {"EAX", "EBX", "ECX", "EDX"} THEN 8
                         ELSE IF r \in {"RAX", "RBX", "RCX", "RDX"} THEN 16
                         ELSE 0

(* encontrar_tamanio_registro. *)
TamRegistro(r) == IF r \in {"EAX", "EBX", "ECX", "EDX"} THEN 8
                  ELSE IF r \in {"RAX", "RBX", "RCX", "RDX"} THEN 16 ELSE 4

NumSegmento(dir) == dir \div TamMaxSegmento
Desplazamiento(dir) == dir % TamMaxSegmento

(* encontrar_segmento: the last of the table with that number, and without
   one a segment that malloc gave and nobody filled in. *)
Posiciones(tabla, num) == {k \in 1..Len(tabla) : tabla[k].id = num}
Ultimas(tabla, num) == {k \in Posiciones(tabla, num) :
                           \A j \in Posiciones(tabla, num) : j <= k}
EncontrarSegmento(tabla, num) ==
    IF Posiciones(tabla, num) = {} THEN Basuras
    ELSE {[base |-> tabla[k].base, limite |-> tabla[k].limite] :
             k \in Ultimas(tabla, num)}

(* Mutants: the test compares with the end of the memory, and not with the
   limit of the segment; the size is forgotten, as MOV forgets it. *)
EntraMovConCualquiera(s, desp) == s.base + desp < TamMemoria
EntraArchivoSinTamanio(s, desp, n) == s.limite >= desp

(* The test of MOV_IN and MOV_OUT, which leaves the size out, and the one of
   F_READ and F_WRITE. *)
EntraMov(s, desp) == s.limite >= desp
EntraArchivo(s, desp, n) == s.limite >= desp + n

-----------------------------------------------------------------------------
(* The kernel sends the context of a PCB: enviar_instruccion_cpu. *)
Despachar(p) ==
    /\ kernel.estado = "elige"
    /\ aCpu' = Append(aCpu, [pid |-> p, pc |-> pcb[p].pc,
                             tabla |-> pcb[p].tabla])
    /\ kernel' = [estado |-> "espera", pid |-> p]
    /\ UNCHANGED <<pcb, aKernel, delCpu, memoria>>

(* Where memory may put a new segment: apart from all there are. *)
Ocupado == UNION {{s.base + d : d \in 0..(s.limite - 1)} :
                     s \in UNION {{pcb[p].tabla[k] : k \in 1..Len(pcb[p].tabla)}
                                     : p \in Pid}}
Huecos(n) == {b \in Dir : /\ b + n <= TamMemoria
                          /\ \A d \in 0..(n - 1) : b + d \notin Ocupado}

(* mutant: the program counter of the answer is taken for that of the
   instruction that asked *)
RecibirRespuestaSinAvanzar ==
    /\ kernel.estado = "espera" /\ aKernel # <<>>
    /\ Head(aKernel).flag \notin {"basura", "EXIT", "SEG_FAULT"}
    /\ pcb' = [pcb EXCEPT ![kernel.pid].pc = Head(aKernel).pc - 1]
    /\ kernel' = [estado |-> "elige", pid |-> Nadie]
    /\ aKernel' = Tail(aKernel)
    /\ UNCHANGED <<aCpu, delCpu, memoria>>

(* execute_pcb takes the answer for the process it dispatched, whatever pid it
   says.  Of an answer of eight bytes it unpacks two fields and exits at the
   third (buffer_unpack).  CREATE_SEGMENT, whose answer says the number in df,
   adds what memory answers, and is an exit when the table is full. *)
RecibirRespuesta ==
    /\ kernel.estado = "espera" /\ aKernel # <<>>
    /\ LET r == Head(aKernel)
           p == kernel.pid
           Queda(e) == kernel' = [estado |-> e,
                                  pid |-> IF e = "elige" THEN Nadie ELSE p]
       IN  \/ /\ r.flag = "basura"
              /\ Queda("muerto") /\ UNCHANGED pcb
           \/ /\ r.flag = "CREATE_SEGMENT"
              /\ \E b \in Huecos(r.n) :
                    pcb' = [pcb EXCEPT ![p] = [pc |-> r.pc,
                              tabla |-> Append(@.tabla, [id |-> r.df,
                                               base |-> b, limite |-> r.n])]]
              /\ Queda("elige")
           \/ /\ r.flag # "basura"
              /\ pcb' = [pcb EXCEPT ![p] = [pc |-> r.pc, tabla |-> @.tabla]]
              /\ \E e \in IF r.flag \in {"EXIT", "SEG_FAULT"} THEN {"colgado"}
                          ELSE IF r.flag = "CREATE_SEGMENT"
                          THEN {"colgado", "muerto"} ELSE {"elige", "muerto"} :
                    Queda(e)
    /\ aKernel' = Tail(aKernel)
    /\ UNCHANGED <<aCpu, delCpu, memoria>>

-----------------------------------------------------------------------------
(* mutant: the registers of the last context are used again *)
RegistrosDelContextoAnterior(anterior) == anterior

(* desempaquetar_cpu_response: registers just given by malloc, with a pointer
   of the kernel in the first eight bytes. *)
RegistrosDelContexto(anterior) == [r \in Registros |-> Nadie]

RecibirContexto ==
    /\ cpu.estado = "espera" /\ aCpu # <<>>
    /\ cpu' = [estado |-> "ejecuta", pid |-> Head(aCpu).pid,
               pc |-> Head(aCpu).pc, tabla |-> Head(aCpu).tabla]
    /\ reg' = RegistrosDelContexto(reg)
    /\ aCpu' = Tail(aCpu)
    /\ UNCHANGED <<delKernel, aKernel, aMemoria, memoria, hechas>>

(* The kernel has gone: the next recv answers nothing and the cpu exits. *)
PerderKernel ==
    /\ cpu.estado = "espera" /\ aCpu = <<>> /\ kernel.estado = "muerto"
    /\ cpu' = [cpu EXCEPT !.estado = "muerta"]
    /\ UNCHANGED <<delKernel, aCpu, aKernel, reg, aMemoria, memoria, hechas>>

Inst == Programa[cpu.pid][cpu.pc + 1]
Ejecuta(ops) == cpu.estado = "ejecuta" /\ Inst.op \in ops
(* mutant: an instruction that does not answer leaves the program counter *)
AvanzaSiResponde(e) ==
    /\ cpu' = [cpu EXCEPT !.estado = e, !.pc = IF e = "espera" THEN @ + 1 ELSE @]
    /\ hechas' = [hechas EXCEPT ![cpu.pid] = IF e = "espera" THEN @ + 1 ELSE @]

(* The end of decode. *)
Avanza(e) == /\ cpu' = [estado |-> e, pid |-> cpu.pid, pc |-> cpu.pc + 1,
                        tabla |-> cpu.tabla]
             /\ hechas' = [hechas EXCEPT ![cpu.pid] = @ + 1]

DecodeSet ==
    /\ Ejecuta({"SET"}) /\ Avanza("ejecuta")
    /\ reg' = [reg EXCEPT ![Inst.reg] = cpu.pid]
    /\ UNCHANGED <<delKernel, aCpu, aKernel, aMemoria, memoria>>

(* In whose segment the access of Inst is. *)
Autor == IF Posiciones(cpu.tabla, NumSegmento(Inst.dir)) = {} THEN SinSegmento
         ELSE cpu.pid

(* MOV_IN and MOV_OUT inside the limit: the cpu asks memory and waits. *)
DecodeMov ==
    /\ Ejecuta({"MOV_IN", "MOV_OUT"})
    /\ \E s \in EncontrarSegmento(cpu.tabla, NumSegmento(Inst.dir)) :
          /\ EntraMov(s, Desplazamiento(Inst.dir))
          /\ aMemoria' = <<[op |-> Inst.op, pid |-> Autor,
                            df |-> s.base + Desplazamiento(Inst.dir),
                            size |-> TamRegistro(Inst.reg)]>>
    /\ cpu' = [cpu EXCEPT !.estado = "memoria"]
    /\ UNCHANGED <<delKernel, aCpu, aKernel, reg, memoria, hechas>>

(* ... and outside it: it answers the first eight bytes of the context, and
   goes on with the next instruction as if nothing had happened. *)
DecodeMovInvalido ==
    /\ Ejecuta({"MOV_IN", "MOV_OUT"})
    /\ \E s \in EncontrarSegmento(cpu.tabla, NumSegmento(Inst.dir)) :
          ~EntraMov(s, Desplazamiento(Inst.dir))
    /\ aKernel' = Append(aKernel, [flag |-> "basura", pid |-> Nadie, pc |-> 0,
                                   df |-> 0, n |-> 0])
    /\ Avanza("ejecuta")
    /\ UNCHANGED <<delKernel, aCpu, reg, aMemoria, memoria>>

(* peticiones_cpu of memory: m_read, m_write.  No test of its own. *)
ServirMemoria ==
    /\ cpu.estado = "memoria" /\ aMemoria # <<>>
    /\ LET a == Head(aMemoria) IN
       memoria' = IF a.op = "MOV_IN" THEN memoria
                  ELSE [d \in Dir |-> IF d >= a.df /\ d < a.df + a.size
                                      THEN a.pid ELSE memoria[d]]
    /\ aMemoria' = <<>>
    /\ UNCHANGED <<delKernel, aCpu, aKernel, cpu, reg, hechas>>

RecibirDeMemoria ==
    /\ cpu.estado = "memoria" /\ aMemoria = <<>> /\ Avanza("ejecuta")
    /\ reg' = IF Inst.op = "MOV_IN" THEN [reg EXCEPT ![Inst.reg] = cpu.pid]
              ELSE reg
    /\ UNCHANGED <<delKernel, aCpu, aKernel, aMemoria, memoria>>

(* The answer with the context, and the wait for the next one, of whichever
   process it is. *)
Responder(flag, df, n) ==
    /\ aKernel' = Append(aKernel, [flag |-> flag, pid |-> cpu.pid,
                                   pc |-> cpu.pc + 1, df |-> df, n |-> n])
    /\ Avanza("espera")
    /\ UNCHANGED <<delKernel, aCpu, reg, aMemoria, memoria>>

(* F_READ and F_WRITE: the physical address goes to the kernel, and from there
   to the filesystem, which asks memory for it. *)
DecodeArchivo ==
    /\ Ejecuta({"F_READ", "F_WRITE"})
    /\ \E s \in EncontrarSegmento(cpu.tabla, NumSegmento(Inst.dir)) :
          LET desp == Desplazamiento(Inst.dir)
          IN  IF EntraArchivo(s, desp, Inst.n)
              THEN Responder(Inst.op, s.base + desp, Inst.n)
              ELSE Responder("SEG_FAULT", 0, Inst.n)

(* CREATE_SEGMENT says its number and its size; the others only their flag. *)
DecodeContexto ==
    /\ Ejecuta({"CREATE_SEGMENT", "OTRA", "I/O", "YIELD", "EXIT"})
    /\ Responder(Inst.op, Inst.dir, Inst.n)

-----------------------------------------------------------------------------
SegmentoCero == [id |-> 0, base |-> 0, limite |-> TamSegmento0]

Init ==
    /\ pcb = [p \in Pid |-> [pc |-> 0, tabla |-> <<SegmentoCero>>]]
    /\ kernel = [estado |-> "elige", pid |-> Nadie]
    /\ aCpu = <<>> /\ aKernel = <<>> /\ aMemoria = <<>>
    /\ cpu = [estado |-> "espera", pid |-> Nadie, pc |-> 0, tabla |-> <<>>]
    /\ reg = [r \in Registros |-> Nadie]
    /\ memoria = [d \in Dir |-> Nadie]
    /\ hechas = [p \in Pid |-> 0]

Next ==
    \/ \E p \in Pid : Despachar(p)
    \/ RecibirRespuesta \/ RecibirContexto \/ PerderKernel
    \/ DecodeSet \/ DecodeMov \/ DecodeMovInvalido \/ ServirMemoria
    \/ RecibirDeMemoria \/ DecodeArchivo \/ DecodeContexto

Spec == Init /\ [][Next]_vars /\ WF_vars(Next)

-----------------------------------------------------------------------------
Respuesta == [flag : Op \cup {"basura", "SEG_FAULT"}, pid : Pid \cup {Nadie},
              pc : Nat, df : Nat, n : Nat]
Contexto == [pid : Pid, pc : Nat, tabla : Seq(Segmento)]
Acceso == [op : {"MOV_IN", "MOV_OUT"}, pid : Pid \cup {SinSegmento},
           df : Nat, size : {4, 8, 16}]

(* Types. *)
TypeOK ==
    /\ pcb \in [Pid -> [pc : Nat, tabla : Seq(Segmento)]]
    /\ kernel \in [estado : {"elige", "espera", "muerto", "colgado"},
                   pid : Pid \cup {Nadie}]
    /\ aCpu \in Seq(Contexto) /\ aKernel \in Seq(Respuesta)
    /\ aMemoria \in Seq(Acceso)
    /\ cpu \in [estado : {"espera", "ejecuta", "memoria", "muerta"},
                pid : Pid \cup {Nadie}, pc : Nat, tabla : Seq(Segmento)]
    /\ reg \in [Registros -> Pid \cup {Nadie}]
    /\ memoria \in [Dir -> Pid \cup {Nadie, SinSegmento}]
    /\ hechas \in [Pid -> Nat]

(* The instructions of a process run once each and in order, over any number
   of contexts: while the kernel lives, the program counter of a PCB that is
   not in the cpu counts what the cpu has done of it, and the answer on its
   way is of the process the kernel waits for. *)
NadaSeSalteaNiSeRepite ==
    kernel.estado # "muerto" =>
        /\ \A p \in Pid : p # kernel.pid => pcb[p].pc = hechas[p]
        /\ aKernel # <<>> /\ Head(aKernel).flag # "basura" =>
              /\ Head(aKernel).pid = kernel.pid
              /\ Head(aKernel).pc = hechas[kernel.pid]

(* The answer r of a file operation says an address, and a size from it, in a
   segment of the process with the number that the instruction says. *)
Adentro(r) ==
    LET num == NumSegmento(Programa[r.pid][r.pc].dir)
        tabla == pcb[r.pid].tabla
    IN  \/ Posiciones(tabla, num) = {}
        \/ \E j \in Posiciones(tabla, num) :
              /\ tabla[j].base <= r.df
              /\ r.df + r.n <= tabla[j].base + tabla[j].limite

(* What the kernel is told of the file operations is inside a segment of the
   process, from the first byte to the last, if the process has a segment
   with that number (without one the limit itself is garbage). *)
ArchivoAdentro ==
    \A k \in 1..Len(aKernel) :
        aKernel[k].flag \in {"F_READ", "F_WRITE"} => Adentro(aKernel[k])

(* MOV_IN and MOV_OUT leave the size of the register out of the test (cpu.c,
   159 and 190).  What a process writes is still in one of its segments or
   within a register (16 bytes) of its end, whatever the other processes have
   written and wherever memory put the segments. *)
SePasaALoSumoUnRegistro ==
    \A d \in Dir : memoria[d] \in Pid =>
        \E k \in 1..Len(pcb[memoria[d]].tabla) :
            LET s == pcb[memoria[d]].tabla[k]
            IN  s.base <= d /\ d < s.base + s.limite + 16

(* A register never shows a process what another one left in it. *)
RegistrosDeUnoSolo ==
    cpu.estado \in {"ejecuta", "memoria"} =>
        \A r \in Registros : reg[r] \in {cpu.pid, Nadie}

(* Every context is answered: the cpu cannot run for ever, nor wait for ever,
   while the kernel waits for it (cpu.c, 43-69). *)
SiempreResponde == kernel.estado = "espera" ~> kernel.estado # "espera"
=============================================================================
