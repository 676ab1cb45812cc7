----------------------------- MODULE CpuProofs -----------------------------
(***************************************************************************)
(* Proofs about Cpu: types, that no instruction is skipped or run twice    *)
(* over any number of contexts, that what the kernel is told of the file   *)
(* operations is inside a segment, that a register holds nothing of        *)
(* another process and that what one writes is in a segment of its own or  *)
(* within a register of it; for any processes, programs and sizes.         *)
(***************************************************************************)
EXTENDS Cpu, SequenceTheorems, TLAPS

TipoCpu == [estado : {"espera", "ejecuta", "memoria", "muerta"},
            pid : Pid \cup {Nadie}, pc : Nat, tabla : Seq(Segmento)]
Ejecutando == cpu.estado \in {"ejecuta", "memoria"}
Largo(p) == Len(Programa[p])

(* Where the context of the process the kernel waits for is: on its way to
   the cpu, in the cpu, or in the answer.  After an answer of eight bytes the
   kernel is as good as dead. *)
Yendo == /\ Len(aCpu) = 1 /\ aKernel = <<>> /\ cpu.estado = "espera"
         /\ aCpu[1].pid = kernel.pid /\ aCpu[1].pc = hechas[kernel.pid]
         /\ aCpu[1].pc < Largo(kernel.pid)
         /\ aCpu[1].tabla = pcb[kernel.pid].tabla
EnLaCpu == /\ aCpu = <<>> /\ Ejecutando /\ cpu.pid = kernel.pid
           /\ \/ aKernel = <<>>
              \/ aKernel # <<>> /\ aKernel[1].flag = "basura"
Volviendo == /\ aCpu = <<>> /\ cpu.estado = "espera" /\ aKernel # <<>>
             /\ \/ aKernel[1].flag = "basura"
                \/ /\ Len(aKernel) = 1
                   /\ aKernel[1].pid = kernel.pid
                   /\ aKernel[1].pc = hechas[kernel.pid]
                   /\ \/ aKernel[1].flag \in {"EXIT", "SEG_FAULT"}
                      \/ aKernel[1].pc < Largo(kernel.pid)

Lugar ==
    /\ kernel.estado = "elige" =>
          /\ aCpu = <<>> /\ aKernel = <<>> /\ cpu.estado = "espera"
          /\ kernel.pid = Nadie
    /\ kernel.estado = "espera" =>
          kernel.pid \in Pid /\ (Yendo \/ EnLaCpu \/ Volviendo)
    /\ kernel.estado = "colgado" =>
          aCpu = <<>> /\ aKernel = <<>> /\ cpu.estado = "espera"
    /\ kernel.estado = "muerto" => aCpu = <<>>

(* The process in the cpu is where hechas says, inside its program. *)
Contador ==
    /\ Ejecutando => /\ cpu.pid \in Pid /\ cpu.pc = hechas[cpu.pid]
                     /\ cpu.pc < Largo(cpu.pid)
                     /\ cpu.tabla = pcb[cpu.pid].tabla
    /\ cpu.estado = "memoria" => Inst.op \in {"MOV_IN", "MOV_OUT"}
    /\ kernel.estado # "muerto" =>
          \A p \in Pid : p # kernel.pid => /\ pcb[p].pc = hechas[p]
                                           /\ pcb[p].pc < Largo(p)
    /\ kernel.estado = "espera" =>
          /\ pcb[kernel.pid].pc < Largo(kernel.pid)
          /\ Yendo => pcb[kernel.pid].pc = hechas[kernel.pid]

IInv == TypeOK /\ Lugar /\ Contador

-----------------------------------------------------------------------------
LEMMA InstruccionActual ==
    ASSUME TypeOK, Contador, Ejecutando
    PROVE  /\ cpu.pid \in Pid /\ cpu.pc \in Nat /\ hechas[cpu.pid] \in Nat
           /\ Inst \in Instruccion
           /\ Inst.op = "EXIT" <=> cpu.pc + 1 = Largo(cpu.pid)
           /\ cpu.pc + 1 <= Largo(cpu.pid) /\ Largo(cpu.pid) \in Nat
<1>1. cpu.pid \in Pid /\ cpu.pc < Largo(cpu.pid)
  BY DEF Contador
<1>2. cpu.pc \in Nat /\ hechas[cpu.pid] \in Nat
  BY <1>1 DEF TypeOK
<1>3. Programa[cpu.pid] \in Seq(Instruccion) /\ Largo(cpu.pid) \in Nat
  BY <1>1, ProgramaAssumption DEF Largo
<1>4. cpu.pc + 1 \in 1..Largo(cpu.pid)
  BY <1>1, <1>2, <1>3
<1>5. Inst \in Instruccion
  BY <1>3, <1>4 DEF Inst, Largo
<1>6. Inst.op = "EXIT" <=> cpu.pc + 1 = Largo(cpu.pid)
  BY <1>1, <1>4, ProgramaAssumption DEF Inst, Largo
<1> QED
  BY <1>1, <1>2, <1>3, <1>4, <1>5, <1>6

LEMMA Direcciones ==
    ASSUME NEW dir \in Nat
    PROVE  NumSegmento(dir) \in Nat /\ Desplazamiento(dir) \in Nat
  BY TamaniosAssumption DEF NumSegmento, Desplazamiento

(* A segment that encontrar_segmento gives is one of the table, with that
   number, or nobody's. *)
LEMMA SegmentoEncontrado ==
    ASSUME NEW tabla \in Seq(Segmento), NEW num \in Nat,
           NEW s \in EncontrarSegmento(tabla, num)
    PROVE  /\ s.base \in Nat /\ s.limite \in Nat
           /\ \/ Posiciones(tabla, num) = {}
              \/ \E j \in Posiciones(tabla, num) :
                    s.base = tabla[j].base /\ s.limite = tabla[j].limite
<1>1. CASE Posiciones(tabla, num) = {}
  BY <1>1, TamaniosAssumption DEF EncontrarSegmento
<1>2. CASE Posiciones(tabla, num) # {}
  <2>1. PICK j \in Ultimas(tabla, num) :
             s = [base |-> tabla[j].base, limite |-> tabla[j].limite]
    BY <1>2 DEF EncontrarSegmento
  <2>2. j \in Posiciones(tabla, num) /\ j \in 1..Len(tabla)
    BY <2>1 DEF Ultimas, Posiciones
  <2>3. tabla[j] \in Segmento
    BY <2>2
  <2> QED
    BY <2>1, <2>2, <2>3 DEF Segmento
<1> QED
  BY <1>1, <1>2

LEMMA Tamanio == \A r \in Registros : TamRegistro(r) \in {4, 8, 16}
  BY DEF TamRegistro, Registros

-----------------------------------------------------------------------------
(* Types, and where the context is, action by action. *)
LEMMA InitInv == Init => IInv
<1> SUFFICES ASSUME Init PROVE IInv
  OBVIOUS
<1> USE DEF Init, Nadie
<1>1. <<SegmentoCero>> \in Seq(Segmento)
  BY TamaniosAssumption DEF SegmentoCero, Segmento
<1>2. TypeOK
  BY <1>1 DEF TypeOK, Registros, Dir
<1>3. Lugar
  BY DEF Lugar
<1>4. Contador
  BY ProgramaAssumption DEF Contador, Ejecutando, Largo, Yendo
<1> QED
  BY <1>2, <1>3, <1>4 DEF IInv

LEMMA DespacharInv == ASSUME IInv, NEW p \in Pid, Despachar(p) PROVE IInv'
<1> USE DEF IInv, Despachar, delCpu
<1>1. kernel.pid = Nadie /\ p # Nadie /\ aCpu = <<>> /\ aKernel = <<>>
      /\ cpu.estado = "espera"
  BY PidAssumption DEF Lugar
<1>2. pcb[p].pc = hechas[p] /\ pcb[p].pc < Largo(p)
  BY <1>1 DEF Contador
<1> DEFINE c == [pid |-> p, pc |-> pcb[p].pc, tabla |-> pcb[p].tabla]
<1>3. c \in Contexto
  BY DEF TypeOK, Contexto
<1>4. aCpu' = <<c>>
  BY <1>1
<1>5. TypeOK'
  <2>1. aCpu' \in Seq(Contexto)
    <3> HIDE DEF c
    <3> QED
      BY ONLY <1>3, <1>4
  <2>2. kernel' \in [estado : {"elige", "espera", "muerto", "colgado"},
                     pid : Pid \cup {Nadie}]
    OBVIOUS
  <2>3. UNCHANGED <<pcb, aKernel, cpu, reg, aMemoria, memoria, hechas>>
    OBVIOUS
  <2>4. TypeOK
    OBVIOUS
  <2> QED
    BY ONLY <2>1, <2>2, <2>3, <2>4 DEF TypeOK
<1>6. Yendo'
  BY <1>1, <1>2, <1>4 DEF Yendo, Largo
<1>7. Lugar'
  BY <1>6 DEF Lugar
<1>8. Contador'
  <2>1. \A q \in Pid : pcb[q].pc = hechas[q] /\ pcb[q].pc < Largo(q)
    BY <1>1, PidAssumption DEF Contador
  <2>2. ~Ejecutando' /\ cpu'.estado # "memoria"
    BY <1>1 DEF Ejecutando
  <2>3. kernel' = [estado |-> "espera", pid |-> p] /\ pcb' = pcb
        /\ hechas' = hechas
    OBVIOUS
  <2> QED
    BY <2>1, <2>2, <2>3 DEF Contador, Largo
<1> QED
  BY <1>5, <1>7, <1>8

(* The first conditions of execute_pcb: the answer is the one expected, or
   the kernel ends. *)
LEMMA RespuestaEsperada ==
    ASSUME IInv, RecibirRespuesta, aKernel[1].flag # "basura"
    PROVE  /\ Len(aKernel) = 1 /\ Tail(aKernel) = <<>>
           /\ aCpu = <<>> /\ cpu.estado = "espera"
           /\ aKernel[1] \in Respuesta
           /\ aKernel[1].pid = kernel.pid /\ kernel.pid \in Pid
           /\ aKernel[1].pc = hechas[kernel.pid]
           /\ \/ aKernel[1].flag \in {"EXIT", "SEG_FAULT"}
              \/ aKernel[1].pc < Largo(kernel.pid)
<1>1. aKernel # <<>> /\ kernel.estado = "espera" /\ aKernel \in Seq(Respuesta)
  BY DEF IInv, TypeOK, RecibirRespuesta
<1>2. Volviendo /\ kernel.pid \in Pid
  BY <1>1 DEF IInv, Lugar, Yendo, EnLaCpu, Volviendo
<1>3. /\ Len(aKernel) = 1 /\ aCpu = <<>> /\ cpu.estado = "espera"
      /\ aKernel[1].pid = kernel.pid /\ aKernel[1].pc = hechas[kernel.pid]
      /\ \/ aKernel[1].flag \in {"EXIT", "SEG_FAULT"}
         \/ aKernel[1].pc < Largo(kernel.pid)
  BY <1>2 DEF Volviendo
<1>4. aKernel[1] \in Respuesta /\ Tail(aKernel) = <<>>
  <2>1. aKernel[1] \in Respuesta /\ Tail(aKernel) \in Seq(Respuesta)
        /\ Len(Tail(aKernel)) = 0
    BY <1>1, <1>3
  <2> QED
    BY <2>1, EmptySeq
<1> QED
  BY <1>2, <1>3, <1>4

LEMMA RecibirRespuestaInv == ASSUME IInv, RecibirRespuesta PROVE IInv'
<1> DEFINE r == aKernel[1]
           p == kernel.pid
<1>1. /\ kernel.estado = "espera" /\ aKernel # <<>>
      /\ aKernel \in Seq(Respuesta) /\ r \in Respuesta
      /\ Tail(aKernel) \in Seq(Respuesta)
      /\ p \in Pid /\ p # Nadie
  <2>1. kernel.estado = "espera" /\ aKernel # <<>> /\ aKernel \in Seq(Respuesta)
    BY DEF IInv, TypeOK, RecibirRespuesta
  <2>2. r \in Respuesta /\ Tail(aKernel) \in Seq(Respuesta)
    BY <2>1
  <2>3. p \in Pid /\ p # Nadie
    BY <2>1, PidAssumption DEF IInv, Lugar
  <2> QED
    BY <2>1, <2>2, <2>3
<1>a. Head(aKernel) = r
  BY <1>1
<1>2. CASE r.flag = "basura"
  <2>1. /\ kernel' = [estado |-> "muerto", pid |-> p] /\ pcb' = pcb
        /\ aKernel' = Tail(aKernel)
        /\ UNCHANGED <<aCpu, cpu, reg, aMemoria, hechas, memoria>>
    BY <1>1, <1>a, <1>2 DEF RecibirRespuesta, delCpu
  <2>2. aCpu = <<>>
    BY <1>1, <1>2 DEF IInv, Lugar, Yendo, EnLaCpu, Volviendo
  <2>3. TypeOK'
    BY <1>1, <2>1 DEF IInv, TypeOK
  <2>4. Lugar'
    BY <2>1, <2>2 DEF Lugar
  <2>5. Contador'
    BY <2>1 DEF IInv, Contador, Ejecutando, Largo, Inst
  <2> QED
    BY <2>3, <2>4, <2>5 DEF IInv
<1>3. CASE r.flag # "basura"
  <2>1. /\ Tail(aKernel) = <<>> /\ aCpu = <<>> /\ cpu.estado = "espera"
        /\ r.pc = hechas[p]
        /\ r.flag \in {"EXIT", "SEG_FAULT"} \/ r.pc < Largo(p)
    BY <1>3, RespuestaEsperada
  <2>2. /\ aKernel' = <<>>
        /\ UNCHANGED <<aCpu, cpu, reg, aMemoria, hechas, memoria>>
    BY <2>1 DEF RecibirRespuesta, delCpu
  <2>3. PICK e \in {"elige", "colgado", "muerto"} :
             /\ kernel' = [estado |-> e, pid |-> IF e = "elige" THEN Nadie ELSE p]
             /\ e = "elige" => r.flag \notin {"EXIT", "SEG_FAULT"}
    BY <1>1, <1>a, <1>3 DEF RecibirRespuesta
  <2>4. PICK t \in Seq(Segmento) :
             pcb' = [pcb EXCEPT ![p] = [pc |-> r.pc, tabla |-> t]]
    <3>1. CASE \E b \in Huecos(r.n) :
                 pcb' = [pcb EXCEPT ![p] =
                           [pc |-> r.pc, tabla |-> Append(pcb[p].tabla,
                              [id |-> r.df, base |-> b, limite |-> r.n])]]
      <4>1. PICK b \in Huecos(r.n) :
                 pcb' = [pcb EXCEPT ![p] =
                           [pc |-> r.pc, tabla |-> Append(pcb[p].tabla,
                              [id |-> r.df, base |-> b, limite |-> r.n])]]
        BY <3>1
      <4>2. [id |-> r.df, base |-> b, limite |-> r.n] \in Segmento
        BY <1>1, TamaniosAssumption DEF Respuesta, Segmento, Huecos, Dir
      <4>3. pcb[p].tabla \in Seq(Segmento)
        BY <1>1 DEF IInv, TypeOK
      <4>4. Append(pcb[p].tabla, [id |-> r.df, base |-> b, limite |-> r.n])
              \in Seq(Segmento)
        BY <4>2, <4>3
      <4> QED
        BY <4>1, <4>4
    <3>2. CASE pcb' = [pcb EXCEPT ![p] = [pc |-> r.pc, tabla |-> pcb[p].tabla]]
      <4>1. pcb[p].tabla \in Seq(Segmento)
        BY <1>1 DEF IInv, TypeOK
      <4> QED
        BY <3>2, <4>1
    <3>3. \/ \E b \in Huecos(r.n) :
                pcb' = [pcb EXCEPT ![p] =
                           [pc |-> r.pc, tabla |-> Append(pcb[p].tabla,
                              [id |-> r.df, base |-> b, limite |-> r.n])]]
          \/ pcb' = [pcb EXCEPT ![p] = [pc |-> r.pc, tabla |-> pcb[p].tabla]]
      BY <1>1, <1>a, <1>3 DEF RecibirRespuesta, IInv, TypeOK
    <3> QED
      BY <3>1, <3>2, <3>3
  <2>5. TypeOK'
    <3>1. [pc |-> r.pc, tabla |-> t] \in [pc : Nat, tabla : Seq(Segmento)]
      BY <1>1, <2>4 DEF Respuesta
    <3>2. pcb' \in [Pid -> [pc : Nat, tabla : Seq(Segmento)]]
      BY <2>4, <3>1 DEF IInv, TypeOK
    <3>3. kernel' \in [estado : {"elige", "espera", "muerto", "colgado"},
                       pid : Pid \cup {Nadie}]
      BY <1>1, <2>3
    <3>4. aKernel' \in Seq(Respuesta)
      BY <2>2
    <3> QED
      BY <2>2, <3>2, <3>3, <3>4 DEF IInv, TypeOK
  <2>6. Lugar'
    BY <2>1, <2>2, <2>3 DEF Lugar
  <2>7. Contador'
    <3>1. kernel'.estado # "espera"
      BY <2>3
    <3>2. ~Ejecutando' /\ cpu'.estado # "memoria"
      BY <2>1, <2>2 DEF Ejecutando
    <3>3. ASSUME kernel'.estado # "muerto", NEW q \in Pid, q # kernel'.pid
          PROVE  pcb'[q].pc = hechas'[q] /\ pcb'[q].pc < Largo(q)
      <4>1. CASE q = p
        BY <1>1, <2>1, <2>2, <2>3, <2>4, <3>3, <4>1 DEF IInv, TypeOK
      <4>2. CASE q # p
        BY <1>1, <2>2, <2>4, <4>2 DEF IInv, TypeOK, Contador
      <4> QED
        BY <4>1, <4>2
    <3> QED
      BY <3>1, <3>2, <3>3 DEF Contador, Largo
  <2> QED
    BY <2>5, <2>6, <2>7 DEF IInv
<1> QED
  BY <1>2, <1>3

LEMMA RecibirContextoInv == ASSUME IInv, RecibirContexto PROVE IInv'
<1> DEFINE c == aCpu[1]
<1>1. /\ cpu.estado = "espera" /\ aCpu # <<>> /\ aCpu \in Seq(Contexto)
      /\ c \in Contexto /\ Tail(aCpu) \in Seq(Contexto) /\ Head(aCpu) = c
  BY DEF IInv, TypeOK, RecibirContexto
<1>2. /\ kernel.estado = "espera" /\ kernel.pid \in Pid /\ Yendo
  BY <1>1 DEF IInv, Lugar, EnLaCpu, Volviendo, TypeOK
<1>3. /\ Len(aCpu) = 1 /\ aKernel = <<>> /\ c.pid = kernel.pid
      /\ c.pc = hechas[kernel.pid] /\ c.pc < Largo(kernel.pid)
      /\ c.tabla = pcb[kernel.pid].tabla
  BY <1>2 DEF Yendo
<1>4. Tail(aCpu) = <<>>
  <2>1. Len(Tail(aCpu)) = 0
    BY <1>1, <1>3
  <2> QED
    BY <1>1, <2>1, EmptySeq
<1>5. /\ cpu' = [estado |-> "ejecuta", pid |-> c.pid, pc |-> c.pc,
                 tabla |-> c.tabla]
      /\ reg' = [r \in Registros |-> Nadie] /\ aCpu' = <<>>
      /\ UNCHANGED <<pcb, kernel, aKernel, aMemoria, memoria, hechas>>
  BY <1>1, <1>4 DEF RecibirContexto, RegistrosDelContexto, delKernel
<1>6. TypeOK'
  <2>1. cpu' \in TipoCpu
    BY <1>1, <1>5 DEF Contexto, TipoCpu
  <2>2. reg' \in [Registros -> Pid \cup {Nadie}] /\ aCpu' \in Seq(Contexto)
    BY <1>5
  <2> QED
    BY <1>5, <2>1, <2>2 DEF IInv, TypeOK, TipoCpu
<1>7. EnLaCpu'
  BY <1>3, <1>5 DEF EnLaCpu, Ejecutando
<1>8. Lugar'
  BY <1>2, <1>5, <1>7 DEF Lugar
<1>9. Contador'
  <2>1. ~Yendo'
    BY <1>5 DEF Yendo
  <2>2. Ejecutando' => /\ cpu'.pid \in Pid /\ cpu'.pc = hechas'[cpu'.pid]
                       /\ cpu'.pc < Largo(cpu'.pid)
                       /\ cpu'.tabla = pcb'[cpu'.pid].tabla
    BY <1>2, <1>3, <1>5
  <2> QED
    BY <1>5, <2>1, <2>2 DEF IInv, Contador, Largo
<1> QED
  BY <1>6, <1>8, <1>9 DEF IInv

LEMMA PerderKernelInv == ASSUME IInv, PerderKernel PROVE IInv'
<1>1. /\ kernel.estado = "muerto" /\ cpu' = [cpu EXCEPT !.estado = "muerta"]
      /\ UNCHANGED <<pcb, kernel, aCpu, aKernel, reg, aMemoria, memoria, hechas>>
  BY DEF PerderKernel, delKernel
<1>2. cpu'.estado = "muerta"
  BY <1>1 DEF IInv, TypeOK
<1>3. TypeOK'
  BY <1>1 DEF IInv, TypeOK
<1>4. Lugar'
  BY <1>1 DEF IInv, Lugar
<1>5. Contador'
  BY <1>1, <1>2 DEF Contador, Ejecutando
<1> QED
  BY <1>3, <1>4, <1>5 DEF IInv

(* While the cpu has a process, nothing else moves: either the kernel waits
   for that process or it is dead. *)
LEMMA KernelQuieto ==
    ASSUME IInv, Ejecutando
    PROVE  \/ kernel.estado = "muerto" /\ aCpu = <<>>
           \/ kernel.estado = "espera" /\ kernel.pid \in Pid /\ EnLaCpu
<1>1. cpu.estado # "espera"
  BY DEF Ejecutando
<1>2. kernel.estado \in {"elige", "espera", "muerto", "colgado"}
  BY DEF IInv, TypeOK
<1> QED
  BY <1>1, <1>2 DEF IInv, Lugar, Yendo, Volviendo

(* A step of the cpu that keeps the process: it finishes an instruction or
   not, it may have answered eight bytes. *)
LEMMA PasoDeLaCpu ==
    ASSUME IInv, Ejecutando, TypeOK', cpu'.estado \in {"ejecuta", "memoria"},
           cpu'.pid = cpu.pid, cpu'.tabla = cpu.tabla,
           cpu'.pc = hechas'[cpu.pid], cpu'.pc < Largo(cpu.pid),
           \A q \in Pid : q # cpu.pid => hechas'[q] = hechas[q],
           cpu'.estado = "memoria" => (Inst.op \in {"MOV_IN", "MOV_OUT"})',
           UNCHANGED <<pcb, kernel, aCpu>>,
           \/ aKernel' = aKernel
           \/ \E r \in Respuesta : r.flag = "basura"
                                   /\ aKernel' = Append(aKernel, r)
    PROVE  IInv'
<1>1. \/ kernel.estado = "muerto" /\ aCpu = <<>>
      \/ kernel.estado = "espera" /\ kernel.pid \in Pid /\ EnLaCpu
  BY KernelQuieto
<1>2. cpu.pid \in Pid
  BY DEF IInv, Contador
<1>3. EnLaCpu => EnLaCpu'
  <2> SUFFICES ASSUME EnLaCpu PROVE EnLaCpu'
    OBVIOUS
  <2>1. aKernel' = <<>> \/ (aKernel' # <<>> /\ aKernel'[1].flag = "basura")
    <3>1. CASE aKernel' = aKernel
      BY <3>1 DEF EnLaCpu
    <3>2. ASSUME NEW r \in Respuesta, r.flag = "basura",
                 aKernel' = Append(aKernel, r)
          PROVE  aKernel' # <<>> /\ aKernel'[1].flag = "basura"
      <4>1. aKernel \in Seq(Respuesta)
        BY DEF IInv, TypeOK
      <4>2. CASE aKernel = <<>>
        BY <3>2, <4>2
      <4>3. CASE aKernel # <<>> /\ aKernel[1].flag = "basura"
        BY <3>2, <4>1, <4>3
      <4> QED
        BY <4>2, <4>3 DEF EnLaCpu
    <3> QED
      BY <3>1, <3>2
  <2> QED
    BY <2>1 DEF EnLaCpu, Ejecutando
<1>4. Lugar'
  BY <1>1, <1>3 DEF Lugar
<1>5. Contador'
  <2>1. Ejecutando' => /\ cpu'.pid \in Pid /\ cpu'.pc = hechas'[cpu'.pid]
                       /\ cpu'.pc < Largo(cpu'.pid)
                       /\ cpu'.tabla = pcb'[cpu'.pid].tabla
    BY <1>2 DEF IInv, Contador
  <2>2. ~Yendo'
    BY DEF Yendo
  <2>3. kernel.estado # "muerto" => kernel.pid = cpu.pid
    BY <1>1 DEF EnLaCpu
  <2> QED
    BY <2>1, <2>2, <2>3 DEF IInv, Contador, Largo
<1> QED
  BY <1>4, <1>5 DEF IInv

(* A non-answering instruction is not the last one of the program. *)
LEMMA Avanzar ==
    ASSUME IInv, Ejecutando, Inst.op # "EXIT", Avanza("ejecuta")
    PROVE  /\ cpu' = [estado |-> "ejecuta", pid |-> cpu.pid, pc |-> cpu.pc + 1,
               tabla |-> cpu.tabla]
           /\ cpu'.estado = "ejecuta" /\ cpu'.pid = cpu.pid
           /\ cpu'.tabla = cpu.tabla /\ cpu'.pc = hechas'[cpu.pid]
           /\ cpu'.pc < Largo(cpu.pid)
           /\ \A q \in Pid : q # cpu.pid => hechas'[q] = hechas[q]
           /\ hechas' \in [Pid -> Nat]
           /\ cpu' \in TipoCpu
<1>1. /\ cpu.pid \in Pid /\ cpu.pc \in Nat /\ hechas[cpu.pid] \in Nat
      /\ cpu.pc + 1 <= Largo(cpu.pid) /\ Largo(cpu.pid) \in Nat
      /\ cpu.pc + 1 # Largo(cpu.pid)
  BY InstruccionActual DEF IInv
<1>2. cpu.pc = hechas[cpu.pid]
  BY DEF IInv, Contador
<1>3. cpu' = [estado |-> "ejecuta", pid |-> cpu.pid, pc |-> cpu.pc + 1,
               tabla |-> cpu.tabla]
      /\ hechas' = [hechas EXCEPT ![cpu.pid] = hechas[cpu.pid] + 1]
  BY DEF Avanza
<1>4. hechas \in [Pid -> Nat] /\ cpu \in TipoCpu
  BY DEF IInv, TypeOK, TipoCpu
<1>5. /\ hechas' \in [Pid -> Nat] /\ hechas'[cpu.pid] = cpu.pc + 1
      /\ \A q \in Pid : q # cpu.pid => hechas'[q] = hechas[q]
  BY <1>1, <1>2, <1>3, <1>4
<1>6. /\ cpu'.estado = "ejecuta" /\ cpu'.pid = cpu.pid
      /\ cpu'.tabla = cpu.tabla /\ cpu'.pc = cpu.pc + 1
      /\ cpu' \in TipoCpu
  BY <1>1, <1>3, <1>4 DEF TipoCpu
<1> QED
  BY <1>1, <1>3, <1>5, <1>6

LEMMA DecodeSetInv == ASSUME IInv, DecodeSet PROVE IInv'
<1>1. Ejecutando /\ Inst.op = "SET" /\ Avanza("ejecuta")
      /\ reg' = [reg EXCEPT ![Inst.reg] = cpu.pid]
      /\ UNCHANGED <<pcb, kernel, aCpu, aKernel, aMemoria, memoria>>
  BY DEF DecodeSet, Ejecuta, Ejecutando, delKernel
<1>2. cpu.pid \in Pid
  BY <1>1, InstruccionActual DEF IInv
<1>3. TypeOK'
  BY <1>1, <1>2, Avanzar DEF IInv, TypeOK, TipoCpu
<1> QED
  BY <1>1, <1>3, Avanzar, PasoDeLaCpu

LEMMA DecodeMovInv == ASSUME IInv, DecodeMov PROVE IInv'
<1>1. Ejecutando /\ Inst.op \in {"MOV_IN", "MOV_OUT"}
      /\ cpu' = [cpu EXCEPT !.estado = "memoria"]
      /\ UNCHANGED <<pcb, kernel, aCpu, aKernel, reg, memoria, hechas>>
  BY DEF DecodeMov, Ejecuta, Ejecutando, delKernel
<1>2. Inst \in Instruccion /\ cpu.pid \in Pid
      /\ cpu.pc = hechas[cpu.pid] /\ cpu.pc < Largo(cpu.pid)
  BY <1>1, InstruccionActual DEF IInv, Contador
<1> DEFINE num == NumSegmento(Inst.dir)
           desp == Desplazamiento(Inst.dir)
<1>3. num \in Nat /\ desp \in Nat
  BY <1>2, Direcciones DEF Instruccion
<1>4. PICK s \in EncontrarSegmento(cpu.tabla, num) :
         aMemoria' = <<[op |-> Inst.op, pid |-> Autor, df |-> s.base + desp,
                        size |-> TamRegistro(Inst.reg)]>>
  BY DEF DecodeMov
<1>5. s.base \in Nat
  BY <1>3, SegmentoEncontrado DEF IInv, TypeOK
<1>6. Autor \in Pid \cup {SinSegmento} /\ TamRegistro(Inst.reg) \in {4, 8, 16}
  BY <1>2, Tamanio DEF Autor, Instruccion
<1>7. aMemoria' \in Seq(Acceso)
  <2>1. s.base + desp \in Nat
    BY <1>3, <1>5
  <2> QED
    BY <1>1, <1>4, <1>6, <2>1 DEF Acceso
<1>8. /\ cpu'.estado = "memoria" /\ cpu'.pid = cpu.pid /\ cpu'.pc = cpu.pc
      /\ cpu'.tabla = cpu.tabla
  BY <1>1 DEF IInv, TypeOK
<1>9. TypeOK'
  BY <1>1, <1>7 DEF IInv, TypeOK
<1>10. (Inst.op \in {"MOV_IN", "MOV_OUT"})'
  BY <1>1, <1>8 DEF Inst
<1> QED
  BY <1>1, <1>2, <1>8, <1>9, <1>10, PasoDeLaCpu

LEMMA DecodeMovInvalidoInv == ASSUME IInv, DecodeMovInvalido PROVE IInv'
<1> DEFINE r == [flag |-> "basura", pid |-> Nadie, pc |-> 0, df |-> 0, n |-> 0]
<1>1. Ejecutando /\ Inst.op \in {"MOV_IN", "MOV_OUT"} /\ Avanza("ejecuta")
      /\ aKernel' = Append(aKernel, r)
      /\ UNCHANGED <<pcb, kernel, aCpu, reg, aMemoria, memoria>>
  BY DEF DecodeMovInvalido, Ejecuta, Ejecutando, delKernel
<1>2. r \in Respuesta /\ r.flag = "basura"
  BY DEF Respuesta
<1>3. aKernel' \in Seq(Respuesta)
  BY <1>1, <1>2 DEF IInv, TypeOK
<1>4. TypeOK'
  BY <1>1, <1>3, Avanzar DEF IInv, TypeOK, TipoCpu
<1> QED
  BY <1>1, <1>2, <1>4, Avanzar, PasoDeLaCpu

LEMMA ServirMemoriaInv == ASSUME IInv, ServirMemoria PROVE IInv'
<1> DEFINE a == aMemoria[1]
<1>1. /\ cpu.estado = "memoria" /\ aMemoria # <<>> /\ aMemoria' = <<>>
      /\ UNCHANGED <<pcb, kernel, aCpu, aKernel, cpu, reg, hechas>>
  BY DEF ServirMemoria, delKernel
<1>2. aMemoria \in Seq(Acceso) /\ a \in Acceso /\ Head(aMemoria) = a
  BY <1>1 DEF IInv, TypeOK
<1>3. memoria' = IF a.op = "MOV_IN" THEN memoria
                 ELSE [d \in Dir |-> IF d >= a.df /\ d < a.df + a.size
                                     THEN a.pid ELSE memoria[d]]
  BY <1>2 DEF ServirMemoria
<1>4. memoria' \in [Dir -> Pid \cup {Nadie, SinSegmento}]
  BY <1>2, <1>3 DEF IInv, TypeOK, Acceso
<1>5. TypeOK'
  BY <1>1, <1>4 DEF IInv, TypeOK
<1>6. Lugar' /\ Contador'
  BY <1>1 DEF IInv, Lugar, Contador, Yendo, EnLaCpu, Volviendo, Ejecutando,
              Largo, Inst
<1> QED
  BY <1>5, <1>6 DEF IInv

LEMMA RecibirDeMemoriaInv == ASSUME IInv, RecibirDeMemoria PROVE IInv'
<1>1. Ejecutando /\ Inst.op \in {"MOV_IN", "MOV_OUT"} /\ Avanza("ejecuta")
      /\ reg' = (IF Inst.op = "MOV_IN" THEN [reg EXCEPT ![Inst.reg] = cpu.pid]
                 ELSE reg)
      /\ UNCHANGED <<pcb, kernel, aCpu, aKernel, aMemoria, memoria>>
  BY DEF RecibirDeMemoria, Ejecutando, delKernel, IInv, Contador
<1>2. cpu.pid \in Pid
  BY <1>1, InstruccionActual DEF IInv
<1>3. reg' \in [Registros -> Pid \cup {Nadie}]
  BY <1>1, <1>2 DEF IInv, TypeOK
<1>4. TypeOK'
  BY <1>1, <1>3, Avanzar DEF IInv, TypeOK, TipoCpu
<1> QED
  BY <1>1, <1>4, Avanzar, PasoDeLaCpu

LEMMA ResponderInv ==
    ASSUME IInv, cpu.estado = "ejecuta",
           NEW flag \in Op \cup {"SEG_FAULT"}, NEW df \in Nat, NEW n \in Nat,
           Inst.op = "EXIT" => flag = "EXIT",
           Responder(flag, df, n)
    PROVE  IInv'
<1> DEFINE r == [flag |-> flag, pid |-> cpu.pid, pc |-> cpu.pc + 1,
                 df |-> df, n |-> n]
<1>1. Ejecutando
  BY DEF Ejecutando
<1>2. /\ cpu.pid \in Pid /\ cpu.pc \in Nat /\ cpu.pc = hechas[cpu.pid]
      /\ hechas[cpu.pid] \in Nat
      /\ flag = "EXIT" \/ cpu.pc + 1 < Largo(cpu.pid)
  BY <1>1, InstruccionActual DEF IInv, Contador
<1>3. /\ aKernel' = Append(aKernel, r)
      /\ cpu' = [estado |-> "espera", pid |-> cpu.pid, pc |-> cpu.pc + 1,
                 tabla |-> cpu.tabla]
      /\ hechas' = [hechas EXCEPT ![cpu.pid] = hechas[cpu.pid] + 1]
      /\ UNCHANGED <<pcb, kernel, aCpu, reg, aMemoria, memoria>>
  BY DEF Responder, Avanza, delKernel
<1>4. r \in Respuesta /\ aKernel' \in Seq(Respuesta)
  <2>1. r \in Respuesta
    BY <1>2 DEF Respuesta
  <2>2. aKernel \in Seq(Respuesta)
    BY DEF IInv, TypeOK
  <2> HIDE DEF r
  <2> QED
    BY <1>3, <2>1, <2>2
<1>5. TypeOK'
  <2>1. hechas' \in [Pid -> Nat]
    <3>1. hechas \in [Pid -> Nat]
      BY DEF IInv, TypeOK
    <3> QED
      BY <1>2, <1>3, <3>1
  <2>2. cpu' \in TipoCpu
    BY <1>2, <1>3 DEF IInv, TypeOK, TipoCpu
  <2> QED
    BY <1>3, <1>4, <2>1, <2>2 DEF IInv, TypeOK, TipoCpu
<1>6. cpu'.estado = "espera" /\ hechas'[cpu.pid] = cpu.pc + 1
      /\ \A q \in Pid : q # cpu.pid => hechas'[q] = hechas[q]
  BY <1>2, <1>3 DEF IInv, TypeOK
<1>7. \/ kernel.estado = "muerto" /\ aCpu = <<>>
      \/ kernel.estado = "espera" /\ kernel.pid \in Pid /\ EnLaCpu
  BY <1>1, KernelQuieto
<1>8. ASSUME EnLaCpu PROVE Volviendo'
  <2>1. cpu.pid = kernel.pid /\ aCpu = <<>>
    BY <1>8 DEF EnLaCpu
  <2>2. CASE aKernel = <<>>
    <3>1. aKernel' = <<r>>
      BY <1>3, <2>2
    <3>2. aKernel' # <<>> /\ Len(aKernel') = 1 /\ aKernel'[1] = r
      BY <3>1
    <3>3. r.pid = kernel'.pid /\ r.pc = hechas'[kernel'.pid]
          /\ (r.flag = "EXIT" \/ r.pc < Len(Programa[kernel'.pid]))
      BY <1>2, <1>3, <1>6, <2>1 DEF Largo
    <3>4. aCpu' = <<>> /\ cpu'.estado = "espera"
      BY <1>3, <1>6, <2>1
    <3> QED
      BY <3>2, <3>3, <3>4 DEF Volviendo, Largo
  <2>3. CASE aKernel # <<>> /\ aKernel[1].flag = "basura"
    <3>1. aKernel \in Seq(Respuesta)
      BY DEF IInv, TypeOK
    <3>2. aKernel' # <<>> /\ aKernel'[1].flag = "basura"
      BY <1>3, <1>4, <2>3, <3>1
    <3> QED
      BY <1>3, <1>6, <2>1, <3>2 DEF Volviendo
  <2> QED
    BY <1>8, <2>2, <2>3 DEF EnLaCpu
<1>9. Lugar'
  BY <1>3, <1>7, <1>8 DEF Lugar
<1>10. Contador'
  <2>1. ~Ejecutando' /\ cpu'.estado # "memoria"
    BY <1>6 DEF Ejecutando
  <2>2. ~Yendo'
    BY <1>3, <1>7 DEF Yendo, EnLaCpu
  <2>3. kernel.estado # "muerto" => kernel.pid = cpu.pid
    BY <1>7 DEF EnLaCpu
  <2> QED
    BY <1>3, <1>6, <2>1, <2>2, <2>3 DEF IInv, Contador, Largo
<1> QED
  BY <1>5, <1>9, <1>10 DEF IInv

LEMMA DecodeArchivoInv == ASSUME IInv, DecodeArchivo PROVE IInv'
<1> DEFINE num == NumSegmento(Inst.dir)
           desp == Desplazamiento(Inst.dir)
<1>1. cpu.estado = "ejecuta" /\ Ejecutando /\ Inst.op \in {"F_READ", "F_WRITE"}
  BY DEF DecodeArchivo, Ejecuta, Ejecutando
<1>2. Inst \in Instruccion
  BY <1>1, InstruccionActual DEF IInv
<1>3. num \in Nat /\ desp \in Nat /\ Inst.n \in Nat
  BY <1>2, Direcciones DEF Instruccion
<1>4. PICK s \in EncontrarSegmento(cpu.tabla, num) :
         \/ Responder(Inst.op, s.base + desp, Inst.n)
         \/ Responder("SEG_FAULT", 0, Inst.n)
  BY DEF DecodeArchivo
<1>5. s.base + desp \in Nat
  <2>1. cpu.tabla \in Seq(Segmento)
    BY DEF IInv, TypeOK
  <2>2. s.base \in Nat
    BY <1>3, <2>1, SegmentoEncontrado
  <2> QED
    BY <1>3, <2>2
<1> QED
  BY <1>1, <1>3, <1>4, <1>5, ResponderInv DEF Op

LEMMA DecodeContextoInv == ASSUME IInv, DecodeContexto PROVE IInv'
<1>1. cpu.estado = "ejecuta" /\ Ejecutando
      /\ Responder(Inst.op, Inst.dir, Inst.n)
  BY DEF DecodeContexto, Ejecuta, Ejecutando
<1>2. Inst.op \in Op /\ Inst.dir \in Nat /\ Inst.n \in Nat
  BY <1>1, InstruccionActual DEF IInv, Instruccion
<1> QED
  BY <1>1, <1>2, ResponderInv

LEMMA QuietoInv == ASSUME IInv, UNCHANGED vars PROVE IInv'
  BY DEF IInv, TypeOK, Lugar, Contador, Yendo, EnLaCpu, Volviendo, Ejecutando,
         Largo, Inst, vars

LEMMA PasoInv == ASSUME IInv, [Next]_vars PROVE IInv'
  BY DespacharInv, RecibirRespuestaInv, RecibirContextoInv, PerderKernelInv,
     DecodeSetInv, DecodeMovInv, DecodeMovInvalidoInv, ServirMemoriaInv,
     RecibirDeMemoriaInv, DecodeArchivoInv, DecodeContextoInv, QuietoInv
  DEF Next

THEOREM InvariantesDeLaCpu == Spec => []IInv
  BY InitInv, PasoInv, PTL DEF Spec

-----------------------------------------------------------------------------
(* Types of the cpu, the contexts and the answers. *)
THEOREM TiposDeLaCpu == Spec => []TypeOK
<1>1. IInv => TypeOK
  BY DEF IInv
<1> QED
  BY <1>1, InvariantesDeLaCpu, PTL

(* The instructions of a process run once each and in order over any number
   of contexts (NadaSeSalteaNiSeRepite): the counter of the PCB, of the
   context on its way, of the cpu and of the answer are the same one. *)
THEOREM CuentaExacta == Spec => []NadaSeSalteaNiSeRepite
<1>1. IInv => NadaSeSalteaNiSeRepite
  <2> SUFFICES ASSUME IInv, kernel.estado # "muerto"
               PROVE  /\ \A p \in Pid : p # kernel.pid => pcb[p].pc = hechas[p]
                      /\ aKernel # <<>> /\ Head(aKernel).flag # "basura" =>
                            /\ Head(aKernel).pid = kernel.pid
                            /\ Head(aKernel).pc = hechas[kernel.pid]
    BY DEF NadaSeSalteaNiSeRepite
  <2>1. \A p \in Pid : p # kernel.pid => pcb[p].pc = hechas[p]
    BY DEF IInv, Contador
  <2>2. ASSUME aKernel # <<>>, Head(aKernel).flag # "basura"
        PROVE  /\ Head(aKernel).pid = kernel.pid
               /\ Head(aKernel).pc = hechas[kernel.pid]
    <3>1. Head(aKernel) = aKernel[1]
      BY <2>2 DEF IInv, TypeOK
    <3>2. kernel.estado = "espera"
      BY <2>2 DEF IInv, TypeOK, Lugar
    <3>3. Volviendo
      BY <2>2, <3>1, <3>2 DEF IInv, Lugar, Yendo, EnLaCpu
    <3> QED
      BY <2>2, <3>1, <3>3 DEF Volviendo
  <2> QED
    BY <2>1, <2>2
<1> QED
  BY <1>1, InvariantesDeLaCpu, PTL

(* A register never shows a process what another one left in it: the cpu
   takes new ones with every context (desempaquetar_cpu_response). *)
THEOREM RegistrosPropios == Spec => []RegistrosDeUnoSolo
<1>1. Init => RegistrosDeUnoSolo
  BY DEF Init, RegistrosDeUnoSolo
<1>2. ASSUME IInv, RegistrosDeUnoSolo, [Next]_vars
      PROVE  RegistrosDeUnoSolo'
  <2>1. CASE \/ \E p \in Pid : Despachar(p)
             \/ RecibirRespuesta \/ ServirMemoria \/ UNCHANGED vars
    <3>1. reg' = reg /\ cpu' = cpu
      BY <2>1 DEF Despachar, RecibirRespuesta, ServirMemoria, delCpu, vars
    <3> QED
      BY <1>2, <3>1 DEF RegistrosDeUnoSolo
  <2>5. CASE PerderKernel \/ DecodeMov \/ DecodeMovInvalido
    <3>1. /\ reg' = reg
          /\ cpu'.estado \in {"ejecuta", "memoria"} =>
                cpu'.pid = cpu.pid /\ cpu.estado \in {"ejecuta", "memoria"}
      BY <1>2, <2>5 DEF PerderKernel, DecodeMov, DecodeMovInvalido, Avanza,
         Ejecuta, IInv, TypeOK
    <3> QED
      BY <1>2, <3>1 DEF RegistrosDeUnoSolo
  <2>2. CASE RecibirContexto
    BY <2>2 DEF RecibirContexto, RegistrosDelContexto, RegistrosDeUnoSolo
  <2>3. CASE DecodeSet \/ RecibirDeMemoria
    <3>1. /\ reg' = reg \/ reg' = [reg EXCEPT ![Inst.reg] = cpu.pid]
          /\ cpu'.pid = cpu.pid /\ cpu.estado \in {"ejecuta", "memoria"}
      BY <2>3 DEF DecodeSet, RecibirDeMemoria, Avanza, Ejecuta
    <3> QED
      BY <1>2, <3>1 DEF RegistrosDeUnoSolo, IInv, TypeOK
  <2>4. CASE DecodeArchivo \/ DecodeContexto
    <3>1. cpu'.estado = "espera"
      <4>1. \E flag, df, n : Responder(flag, df, n)
        BY <2>4 DEF DecodeArchivo, DecodeContexto
      <4> QED
        BY <4>1 DEF Responder, Avanza
    <3> QED
      BY <3>1 DEF RegistrosDeUnoSolo
  <2> QED
    BY <1>2, <2>1, <2>2, <2>3, <2>4, <2>5 DEF Next
<1> QED
  BY <1>1, <1>2, InvariantesDeLaCpu, PTL DEF Spec

LEMMA AgregarRespuesta ==
    ASSUME IInv, ArchivoAdentro, NEW r \in Respuesta,
           aKernel' = Append(aKernel, r), pcb' = pcb,
           r.flag \in {"F_READ", "F_WRITE"} => Adentro(r)
    PROVE  ArchivoAdentro'
<1> SUFFICES ASSUME NEW k \in 1..Len(aKernel'),
                    aKernel'[k].flag \in {"F_READ", "F_WRITE"}
             PROVE  Adentro(aKernel[k])'
  BY DEF ArchivoAdentro
<1>1. aKernel \in Seq(Respuesta)
  BY DEF IInv, TypeOK
<1>2. CASE k \in 1..Len(aKernel)
  <2>1. aKernel'[k] = aKernel[k]
    BY <1>1, <1>2
  <2>2. Adentro(aKernel[k])
    BY <1>2, <2>1 DEF ArchivoAdentro
  <2> QED
    BY <2>1, <2>2 DEF Adentro
<1>3. CASE k = Len(aKernel) + 1
  <2>1. aKernel'[k] = r
    BY <1>1, <1>3
  <2> QED
    BY <2>1 DEF Adentro
<1> QED
  BY <1>1, <1>2, <1>3

LEMMA RespuestaDeArchivo ==
    ASSUME IInv, DecodeArchivo, ArchivoAdentro
    PROVE  ArchivoAdentro'
<1> DEFINE num == NumSegmento(Inst.dir)
           desp == Desplazamiento(Inst.dir)
           R(f, df, n) == [flag |-> f, pid |-> cpu.pid, pc |-> cpu.pc + 1,
                           df |-> df, n |-> n]
<1>1. Ejecutando /\ Inst.op \in {"F_READ", "F_WRITE"}
  BY DEF DecodeArchivo, Ejecuta, Ejecutando
<1>2. /\ cpu.pid \in Pid /\ cpu.pc \in Nat /\ Inst \in Instruccion
      /\ cpu.tabla = pcb[cpu.pid].tabla /\ cpu.tabla \in Seq(Segmento)
  BY <1>1, InstruccionActual DEF IInv, Contador, TypeOK
<1>3. num \in Nat /\ desp \in Nat /\ Inst.n \in Nat
  BY <1>2, Direcciones DEF Instruccion
<1>4. PICK s \in EncontrarSegmento(cpu.tabla, num) :
         \/ EntraArchivo(s, desp, Inst.n)
            /\ Responder(Inst.op, s.base + desp, Inst.n)
         \/ Responder("SEG_FAULT", 0, Inst.n)
  BY DEF DecodeArchivo
<1>5. /\ s.base \in Nat /\ s.limite \in Nat
      /\ \/ Posiciones(cpu.tabla, num) = {}
         \/ \E j \in Posiciones(cpu.tabla, num) :
               s.base = cpu.tabla[j].base /\ s.limite = cpu.tabla[j].limite
  BY <1>2, <1>3, SegmentoEncontrado
<1>6. CASE EntraArchivo(s, desp, Inst.n)
           /\ Responder(Inst.op, s.base + desp, Inst.n)
  <2> DEFINE r == R(Inst.op, s.base + desp, Inst.n)
  <2>1. r \in Respuesta
    BY <1>1, <1>2, <1>3, <1>5 DEF Respuesta, Op
  <2>2. aKernel' = Append(aKernel, r) /\ pcb' = pcb
    BY <1>6 DEF Responder, delKernel
  <2>3. Adentro(r)
    <3>1. Programa[r.pid][r.pc] = Inst /\ pcb[r.pid].tabla = cpu.tabla
      BY <1>2 DEF Inst
    <3>2. s.limite >= desp + Inst.n
      BY <1>6 DEF EntraArchivo
    <3>3. r.df = s.base + desp /\ r.n = Inst.n
      OBVIOUS
    <3> HIDE DEF r
    <3>4. s.base <= r.df /\ r.df + r.n <= s.base + s.limite
      BY <1>3, <1>5, <3>2, <3>3
    <3> QED
      BY <1>5, <3>1, <3>4 DEF Adentro
  <2> HIDE DEF r
  <2> QED
    BY <2>1, <2>2, <2>3, AgregarRespuesta
<1>7. CASE Responder("SEG_FAULT", 0, Inst.n)
  <2> DEFINE r == R("SEG_FAULT", 0, Inst.n)
  <2>1. r \in Respuesta /\ r.flag = "SEG_FAULT"
    BY <1>2, <1>3 DEF Respuesta
  <2>2. aKernel' = Append(aKernel, r) /\ pcb' = pcb
    BY <1>7 DEF Responder, delKernel
  <2> HIDE DEF r
  <2> QED
    BY <2>1, <2>2, AgregarRespuesta
<1> QED
  BY <1>4, <1>6, <1>7

(* Every answer of F_READ and F_WRITE is inside a segment of its process, from
   the first byte to the last, whatever the cpu has done since (cpu.c, 219 and
   234). *)
THEOREM ArchivosAdentro == Spec => []ArchivoAdentro
<1>1. Init => ArchivoAdentro
  BY DEF Init, ArchivoAdentro
<1>2. ASSUME IInv, IInv', ArchivoAdentro, [Next]_vars
      PROVE  ArchivoAdentro'
  <2>1. CASE UNCHANGED <<pcb, aKernel>>
    BY <1>2, <2>1 DEF ArchivoAdentro, Adentro
  <2>2. CASE RecibirRespuesta
    <3>1. aKernel \in Seq(Respuesta) /\ aKernel # <<>>
          /\ aKernel' = Tail(aKernel)
      BY <1>2, <2>2 DEF RecibirRespuesta, IInv, TypeOK
    <3>2. CASE aKernel[1].flag # "basura"
      <4>1. aKernel' = <<>>
        BY <1>2, <2>2, <3>1, <3>2, RespuestaEsperada
      <4> QED
        BY <4>1 DEF ArchivoAdentro
    <3>3. CASE aKernel[1].flag = "basura"
      <4>1. pcb' = pcb
        <5>1. Head(aKernel) = aKernel[1]
          BY <3>1
        <5> QED
          BY <2>2, <3>3, <5>1 DEF RecibirRespuesta
      <4> SUFFICES ASSUME NEW k \in 1..Len(aKernel'),
                          aKernel'[k].flag \in {"F_READ", "F_WRITE"}
                   PROVE  Adentro(aKernel[k])'
        BY DEF ArchivoAdentro
      <4>2. k + 1 \in 1..Len(aKernel) /\ aKernel'[k] = aKernel[k + 1]
        BY <3>1
      <4>3. Adentro(aKernel[k + 1])
        BY <1>2, <4>2 DEF ArchivoAdentro
      <4> QED
        BY <4>1, <4>2, <4>3 DEF Adentro
    <3> QED
      BY <3>2, <3>3
  <2>3. CASE DecodeMovInvalido
    <3> DEFINE r == [flag |-> "basura", pid |-> Nadie, pc |-> 0, df |-> 0,
                     n |-> 0]
    <3>1. aKernel' = Append(aKernel, r) /\ pcb' = pcb
      BY <2>3 DEF DecodeMovInvalido, delKernel
    <3>2. r \in Respuesta /\ r.flag = "basura"
      BY DEF Respuesta
    <3> HIDE DEF r
    <3> QED
      BY <1>2, <3>1, <3>2, AgregarRespuesta
  <2>4. CASE DecodeArchivo
    BY <1>2, <2>4, RespuestaDeArchivo
  <2>5. CASE DecodeContexto
    <3> DEFINE r == [flag |-> Inst.op, pid |-> cpu.pid, pc |-> cpu.pc + 1,
                     df |-> Inst.dir, n |-> Inst.n]
    <3>1. aKernel' = Append(aKernel, r) /\ pcb' = pcb
          /\ Inst.op \notin {"F_READ", "F_WRITE"} /\ Ejecutando
      BY <2>5 DEF DecodeContexto, Responder, delKernel, Ejecuta, Ejecutando
    <3>2. r \in Respuesta /\ r.flag \notin {"F_READ", "F_WRITE"}
      BY <1>2, <3>1, InstruccionActual DEF IInv, Respuesta, Instruccion
    <3> HIDE DEF r
    <3> QED
      BY <1>2, <3>1, <3>2, AgregarRespuesta
  <2>6. CASE \/ \E p \in Pid : Despachar(p)
             \/ RecibirContexto \/ PerderKernel \/ DecodeSet \/ DecodeMov
             \/ ServirMemoria \/ RecibirDeMemoria \/ UNCHANGED vars
    <3>1. UNCHANGED <<pcb, aKernel>>
      BY <2>6 DEF Despachar, RecibirContexto, PerderKernel, DecodeSet,
         DecodeMov, ServirMemoria, RecibirDeMemoria, delKernel, vars
    <3> QED
      BY <2>1, <3>1
  <2> QED
    BY <1>2, <2>2, <2>3, <2>4, <2>5, <2>6 DEF Next
<1> QED
  BY <1>1, <1>2, InvariantesDeLaCpu, PTL DEF Spec

-----------------------------------------------------------------------------
(* Byte d is in a segment of the table, or less than n bytes after its end. *)
HastaElFin(tabla, d, n) ==
    \E k \in 1..Len(tabla) :
        tabla[k].base <= d /\ d < tabla[k].base + tabla[k].limite + n

(* The access the cpu asks for starts in a segment of the process or at its
   end, which EntraMov lets through. *)
AccesoAdentro ==
    \A k \in 1..Len(aMemoria) :
        aMemoria[k].pid \in Pid =>
            HastaElFin(pcb[aMemoria[k].pid].tabla, aMemoria[k].df, 1)

(* A PCB loses no segment: the kernel puts the new one after the others. *)
LEMMA TablasCrecen ==
    ASSUME IInv, [Next]_vars, NEW p \in Pid, NEW d, NEW n,
           HastaElFin(pcb[p].tabla, d, n)
    PROVE  HastaElFin(pcb'[p].tabla, d, n)
<1>1. PICK k \in 1..Len(pcb[p].tabla) :
         /\ pcb[p].tabla[k].base <= d
         /\ d < pcb[p].tabla[k].base + pcb[p].tabla[k].limite + n
  BY DEF HastaElFin
<1>2. pcb[p].tabla \in Seq(Segmento)
  BY DEF IInv, TypeOK
<1>3. \/ pcb'[p].tabla = pcb[p].tabla
      \/ \E x : pcb'[p].tabla = Append(pcb[p].tabla, x)
  <2>1. CASE pcb' = pcb
    BY <2>1
  <2>2. CASE RecibirRespuesta
    <3>1. \/ pcb' = pcb
          \/ \E c, x : pcb' = [pcb EXCEPT ![kernel.pid] =
                                  [pc |-> c, tabla |-> Append(@.tabla, x)]]
          \/ \E c : pcb' = [pcb EXCEPT ![kernel.pid] =
                               [pc |-> c, tabla |-> @.tabla]]
      BY <2>2 DEF RecibirRespuesta
    <3>2. p \in DOMAIN pcb
      BY DEF IInv, TypeOK
    <3>3. ASSUME NEW c, NEW l, pcb' = [pcb EXCEPT ![kernel.pid] = [pc |-> c, tabla |-> l]]
          PROVE  pcb'[p].tabla = IF p = kernel.pid THEN l ELSE pcb[p].tabla
      BY <3>2, <3>3
    <3>4. ASSUME NEW c, NEW x, pcb' = [pcb EXCEPT ![kernel.pid] =
                                        [pc |-> c, tabla |-> Append(@.tabla, x)]]
          PROVE  \/ pcb'[p].tabla = pcb[p].tabla
                 \/ \E y : pcb'[p].tabla = Append(pcb[p].tabla, y)
      BY <3>3, <3>4
    <3>5. ASSUME NEW c, pcb' = [pcb EXCEPT ![kernel.pid] = [pc |-> c, tabla |-> @.tabla]]
          PROVE  pcb'[p].tabla = pcb[p].tabla
      BY <3>3, <3>5
    <3> QED
      BY <3>1, <3>4, <3>5
  <2>3. \/ RecibirRespuesta
        \/ pcb' = pcb
    BY DEF Next, vars, Despachar, RecibirContexto, PerderKernel, DecodeSet, DecodeMov,
       DecodeMovInvalido, ServirMemoria, RecibirDeMemoria, DecodeArchivo,
       DecodeContexto, Responder, delKernel
  <2> QED
    BY <2>1, <2>2, <2>3
<1>4. k \in 1..Len(pcb'[p].tabla) /\ pcb'[p].tabla[k] = pcb[p].tabla[k]
  <2>1. CASE pcb'[p].tabla = pcb[p].tabla
    BY <2>1
  <2>2. ASSUME NEW x, pcb'[p].tabla = Append(pcb[p].tabla, x)
        PROVE  k \in 1..Len(pcb'[p].tabla) /\ pcb'[p].tabla[k] = pcb[p].tabla[k]
    BY <1>2, <2>2
  <2> QED
    BY <1>3, <2>1, <2>2
<1> QED
  BY <1>1, <1>4 DEF HastaElFin

(* The access that DecodeMov asks for. *)
LEMMA AccesoPedido ==
    ASSUME IInv, DecodeMov
    PROVE  AccesoAdentro'
<1> DEFINE num == NumSegmento(Inst.dir)
           desp == Desplazamiento(Inst.dir)
<1>1. Ejecutando
  BY DEF DecodeMov, Ejecuta, Ejecutando
<1>2. /\ cpu.pid \in Pid /\ Inst \in Instruccion
      /\ cpu.tabla = pcb[cpu.pid].tabla /\ cpu.tabla \in Seq(Segmento)
  BY <1>1, InstruccionActual DEF IInv, Contador, TypeOK
<1>3. num \in Nat /\ desp \in Nat
  BY <1>2, Direcciones DEF Instruccion
<1>4. PICK s \in EncontrarSegmento(cpu.tabla, num) :
         /\ EntraMov(s, desp)
         /\ aMemoria' = <<[op |-> Inst.op, pid |-> Autor, df |-> s.base + desp,
                           size |-> TamRegistro(Inst.reg)]>>
  BY DEF DecodeMov
<1>5. /\ s.base \in Nat /\ s.limite \in Nat
      /\ \/ Posiciones(cpu.tabla, num) = {}
         \/ \E j \in Posiciones(cpu.tabla, num) :
               s.base = cpu.tabla[j].base /\ s.limite = cpu.tabla[j].limite
  BY <1>2, <1>3, SegmentoEncontrado
<1>6. pcb' = pcb
  BY DEF DecodeMov, delKernel
<1>7. ASSUME Autor \in Pid PROVE HastaElFin(pcb[Autor].tabla, s.base + desp, 1)
  <2>1. Posiciones(cpu.tabla, num) # {} /\ Autor = cpu.pid
    BY <1>7, PidAssumption DEF Autor, SinSegmento
  <2>2. PICK j \in Posiciones(cpu.tabla, num) :
           s.base = cpu.tabla[j].base /\ s.limite = cpu.tabla[j].limite
    BY <1>5, <2>1
  <2>3. j \in 1..Len(cpu.tabla)
    BY <2>2 DEF Posiciones
  <2>4. s.base <= s.base + desp /\ s.base + desp < s.base + s.limite + 1
    BY <1>3, <1>4, <1>5 DEF EntraMov
  <2> QED
    BY <1>2, <2>1, <2>2, <2>3, <2>4 DEF HastaElFin
<1>8. ASSUME NEW k \in 1..Len(aMemoria')
      PROVE  aMemoria'[k].pid = Autor /\ aMemoria'[k].df = s.base + desp
  BY <1>4, <1>8
<1> QED
  BY <1>6, <1>7, <1>8 DEF AccesoAdentro

(* MOV_IN and MOV_OUT leave the size of the register out of the test: what a
   process writes is in one of its segments or within a register (16 bytes) of
   its end, whatever the other processes do and wherever memory puts the
   segments (cpu.c, 159 and 190). *)
THEOREM RegistroDeMas == Spec => []SePasaALoSumoUnRegistro
<1> DEFINE Escrito == \A d \in Dir : memoria[d] \in Pid =>
                         HastaElFin(pcb[memoria[d]].tabla, d, 16)
<1>1. Init => AccesoAdentro /\ Escrito
  BY PidAssumption DEF Init, AccesoAdentro, Nadie
<1>2. ASSUME IInv, AccesoAdentro, Escrito, [Next]_vars
      PROVE  AccesoAdentro' /\ Escrito'
  <2>1. ASSUME aMemoria' = aMemoria PROVE AccesoAdentro'
    <3> SUFFICES ASSUME NEW k \in 1..Len(aMemoria), aMemoria[k].pid \in Pid
                 PROVE  HastaElFin(pcb'[aMemoria[k].pid].tabla, aMemoria[k].df, 1)
      BY <2>1 DEF AccesoAdentro
    <3>1. HastaElFin(pcb[aMemoria[k].pid].tabla, aMemoria[k].df, 1)
      BY <1>2 DEF AccesoAdentro
    <3> QED
      BY <1>2, <3>1, TablasCrecen
  <2>2. ASSUME NEW d \in Dir, memoria[d] \in Pid, memoria'[d] = memoria[d]
        PROVE  HastaElFin(pcb'[memoria'[d]].tabla, d, 16)
    <3>1. HastaElFin(pcb[memoria[d]].tabla, d, 16)
      BY <1>2, <2>2
    <3> QED
      BY <1>2, <2>2, <3>1, TablasCrecen
  <2>3. CASE ServirMemoria
    <3> DEFINE a == aMemoria[1]
    <3>1. /\ aMemoria # <<>> /\ aMemoria \in Seq(Acceso) /\ aMemoria' = <<>>
          /\ a = Head(aMemoria) /\ 1 \in 1..Len(aMemoria) /\ a \in Acceso
      BY <1>2, <2>3 DEF ServirMemoria, IInv, TypeOK
    <3>2. /\ pcb' = pcb /\ a.df \in Nat /\ a.size \in {4, 8, 16}
          /\ memoria' = IF a.op = "MOV_IN" THEN memoria
                        ELSE [d \in Dir |-> IF d >= a.df /\ d < a.df + a.size
                                            THEN a.pid ELSE memoria[d]]
      BY <2>3, <3>1 DEF ServirMemoria, delKernel, Acceso
    <3>3. ASSUME NEW d \in Dir, memoria'[d] \in Pid
          PROVE  HastaElFin(pcb'[memoria'[d]].tabla, d, 16)
      <4>1. CASE memoria'[d] = memoria[d]
        BY <2>2, <3>3, <4>1
      <4>2. CASE d >= a.df /\ d < a.df + a.size /\ memoria'[d] = a.pid
        <5>1. HastaElFin(pcb[a.pid].tabla, a.df, 1)
          BY <1>2, <3>1, <3>3, <4>2 DEF AccesoAdentro
        <5>2. PICK t \in Seq(Segmento) : t = pcb[a.pid].tabla
          BY <1>2, <3>3, <4>2 DEF IInv, TypeOK
        <5>3. PICK x \in Nat : x = a.df
          BY <3>2
        <5>4. HastaElFin(t, x, 1)
          BY <5>1, <5>2, <5>3
        <5>5. PICK k \in 1..Len(t) : t[k].base <= x /\ x < t[k].base + t[k].limite + 1
          BY <5>4 DEF HastaElFin
        <5>6. t[k].base \in Nat /\ t[k].limite \in Nat
          <6>1. t[k] \in Segmento
            BY <5>2, <5>5
          <6> QED
            BY <6>1 DEF Segmento
        <5>7. \A b, l, w, y \in Nat : \A n \in {4, 8, 16} :
                 b <= w /\ w < b + l + 1 /\ y >= w /\ y < w + n
                    => b <= y /\ y < b + l + 16
          OBVIOUS
        <5>8. d \in Nat /\ d >= x /\ d < x + a.size
          BY <4>2, <5>3, TamaniosAssumption DEF Dir
        <5>9. t[k].base <= d /\ d < t[k].base + t[k].limite + 16
          BY <3>2, <5>5, <5>6, <5>7, <5>8
        <5>10. HastaElFin(t, d, 16)
          BY <5>5, <5>9 DEF HastaElFin
        <5> QED
          BY <3>2, <4>2, <5>2, <5>10
      <4> QED
        BY <3>2, <4>1, <4>2
    <3> QED
      BY <3>1, <3>3 DEF AccesoAdentro
  <2>4. CASE DecodeMov
    <3>1. memoria' = memoria
      BY <2>4 DEF DecodeMov
    <3> QED
      BY <1>2, <2>2, <2>4, <3>1, AccesoPedido
  <2>5. CASE UNCHANGED <<aMemoria, memoria>>
    BY <2>1, <2>2, <2>5
  <2>6. ServirMemoria \/ DecodeMov \/ UNCHANGED <<aMemoria, memoria>>
    BY <1>2 DEF Next, vars, Despachar, RecibirRespuesta, RecibirContexto, PerderKernel,
       DecodeSet, DecodeMovInvalido, RecibirDeMemoria, DecodeArchivo,
       DecodeContexto, Responder, delCpu
  <2> QED
    BY <2>3, <2>4, <2>5, <2>6
<1>3. Escrito => SePasaALoSumoUnRegistro
  BY DEF SePasaALoSumoUnRegistro, HastaElFin
<1> QED
  BY <1>1, <1>2, <1>3, InvariantesDeLaCpu, PTL DEF Spec
=============================================================================
