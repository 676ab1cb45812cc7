------------------------- MODULE PlanificadorProofs -------------------------
(***************************************************************************)
(* Types and counts: theorems of Planificador for any number of consoles,  *)
(* any resources and either algorithm.                                     *)
(*                                                                         *)
(* Every variable keeps its type, and a thread that is going to use its    *)
(* local pcb has one (any programs): the two are inductive together with   *)
(* ProgramaFijado; there is one lemma per handler.                         *)
(*                                                                         *)
(* Then what the scheduler counts.  First the cpu, which is one token, with*)
(* EXECUTE against its semaphore (programs without CREATE_SEGMENT, whose   *)
(* consultar_memoria_create posts e_execute for a process that is not in   *)
(* EXECUTE); the two counts are inductive together: a step that moves the  *)
(* token between a thread and a semaphore also moves a process in or out   *)
(* of the list.  Then READY against its semaphore, and NEW with the        *)
(* multiprogramming degree (any programs), from the equation GradoContado, *)
(* which needs that NEW never holds a process twice.  Last, the units of a *)
(* resource that WAIT gives out (programs without SIGNAL, which sets the   *)
(* count to 1 whatever it was, planificador.c:236).                        *)
(***************************************************************************)
EXTENDS Planificador, FiniteSetTheorems, SequenceTheorems,
        WellFoundedInduction, TLAPS

(* A thread that is going to use its local pcb has one, and the cpu has    *)
(* answered when E waits for F: execute_pcb, e_pop_primer_proceso and      *)
(* unblocked_pcb_after_fs never look at a pcb left over from before.       *)
PcbTomado ==
  /\ en["L"] = "pushReady" => pcb["L"] \in Pid
  /\ en["C"] = "pushExecute" => pcb["C"] \in Pid
  /\ en["U"] \in {"envio", "pushReady"} \union EtiquetasPop => pcb["U"] \in Pid
  /\ en["E"] \notin {"espera", "saca"} => pcb["E"] \in Pid
  /\ en["E"] = "esperaFs" => pc[pcb["E"]] > 0

(* A pid that nuevoProceso has not handed out yet has no program.          *)
ProgramaFijado == \A p \in Pid : p >= nextPid => programa[p] = << >>
Inv1 == TypeOK /\ PcbTomado /\ ProgramaFijado

(* Where the list operations on BLOCKED are going to act: list_add after   *)
(* a link of the chain (or head, or one freed), list_remove at an index.   *)
AnclaBien ==
  /\ en["E"] = "enlaza" => leido["E"] <= Len(cola["blocked"])
  /\ \A h \in {"E", "U"} : en[h] = "quita" => leido[h] >= 1

(* The labels of each thread, written out.                                 *)
LEMMA EtiquetasTipo ==
  /\ Etiquetas["L"] = {"espera", "grado", "saca"} \union EtiquetasReady
  /\ Etiquetas["C"] = {"espera", "libre", "saca", "pushExecute", "postExecute"}
  /\ Etiquetas["E"] = {"espera", "saca", "cpu", "estadoEnExit", "pushExit",
       "enExit", "pushExecute", "postExecute", "pushSignal", "memoria",
       "compacta", "esperaFs", "ubica", "enlaza", "esperaIo", "postEnvio",
       "libera"} \union EtiquetasPop \union EtiquetasReady
  /\ Etiquetas["U"] = {"espera", "envio"} \union EtiquetasPop
                       \union EtiquetasReady
  /\ Etiquetas["S"] = {"inactivo", "duerme"}
  /\ Etiquetas["F"] = {"espera", "muerto"}
  BY DEF Etiquetas

(* inicializar_planificador establishes the invariant.                     *)
LEMMA Tipo_Init == Init => Inv1
<1> SUFFICES ASSUME Init PROVE Inv1 OBVIOUS
<1>1. DOMAIN en = Hilos /\ \A h \in Hilos : en[h] \in Etiquetas[h]
  BY EtiquetasTipo DEF Init, Hilos, EtiquetasReady
<1>2. TypeOK
  BY <1>1, ParametrosAssumption DEF Init, TypeOK, Nadie, Liberado, Motivos
<1>3. PcbTomado /\ ProgramaFijado
  BY DEF Init, PcbTomado, ProgramaFijado, Hilos, EtiquetasPop
<1> QED BY <1>2, <1>3 DEF Inv1

(* A thread that goes to one of its labels keeps the labels typed.         *)
LEMMA Tipo_Va ==
  ASSUME TypeOK, NEW h \in Hilos, NEW de, NEW a \in Etiquetas[h], Va(h, de, a)
  PROVE  (DOMAIN en = Hilos /\ \A k \in Hilos : en[k] \in Etiquetas[k])'
  BY DEF TypeOK, Va

(* push_pcb_estado of a pid keeps the lists typed.                         *)
LEMMA Tipo_Agrega ==
  ASSUME TypeOK, NEW l \in Listas, NEW p \in Pid, Agrega(l, p)
  PROVE  cola' \in [Listas -> Seq(Pid)]
  BY AppendProperties DEF TypeOK, Agrega

(* A PCB holds a sequence of instructions.                                 *)
LEMMA Tipo_Programa ==
  ASSUME TypeOK, NEW p \in Pid PROVE programa[p] \in Seq(Instruccion)
<1>1. programa[p] \in Programas \/ programa[p] = << >>
  BY DEF TypeOK
<1>2. CASE programa[p] \in Programas
  BY <1>2, ProgramasAssumption DEF EsPrograma
<1>3. CASE programa[p] = << >>
  BY <1>3
<1> QED BY <1>1, <1>2, <1>3

(* The death of the kernel changes nothing but caida.                      *)
LEMMA Tipo_Cae ==
  ASSUME Inv1, NEW m \in Motivos, Cae(m)
  PROVE  Inv1'
  BY DEF Inv1, TypeOK, PcbTomado, ProgramaFijado, Cae, procesoVars, recursoVars, archivoVars, fsVars

(* A sem_wait keeps the types.                                             *)
LEMMA Tipo_Espera ==
  ASSUME TypeOK, NEW h \in Hilos, NEW de, NEW s \in Semaforos,
         NEW a \in Etiquetas[h], PasoEspera(h, de, s, a)
  PROVE  TypeOK'
  BY DEF TypeOK, PasoEspera, Va, Espera, procesoVars, recursoVars,
         archivoVars, fsVars

(* A sem_post keeps the types.                                             *)
LEMMA Tipo_Postea ==
  ASSUME TypeOK, NEW h \in Hilos, NEW de, NEW s \in Semaforos,
         NEW a \in Etiquetas[h], PasoPostea(h, de, s, a)
  PROVE  TypeOK'
  BY DEF TypeOK, PasoPostea, Va, Postea, procesoVars, recursoVars,
         archivoVars, fsVars

(* list_remove of the head gives the thread a pid.                         *)
LEMMA Tipo_Saca ==
  ASSUME Inv1, NEW h \in Hilos, NEW l \in Listas,
         NEW a \in Etiquetas[h], PasoSaca(h, l, a)
  PROVE  TypeOK' /\ ProgramaFijado' /\ (cola[l] # << >> => pcb'[h] \in Pid)
<1>1. CASE cola[l] = << >>
  BY <1>1, Tipo_Cae DEF PasoSaca, Motivos, Inv1
<1>2. CASE cola[l] # << >>
  <2>1. Head(cola[l]) \in Pid /\ Tail(cola[l]) \in Seq(Pid)
    BY <1>2, HeadTailProperties DEF TypeOK, Inv1
  <2> QED
    BY <1>2, <2>1 DEF Inv1, TypeOK, ProgramaFijado, PasoSaca, Va, Saca, procesoVars,
                      recursoVars, archivoVars, fsVars
<1> QED BY <1>1, <1>2

(* nuevoProceso.                                                           *)
LEMMA Tipo_Nuevo ==
  ASSUME Inv1, NEW s \in Programas, NuevoProceso(s) PROVE Inv1'
<1>1. s \in Seq(Instruccion)
  BY ProgramasAssumption DEF EsPrograma
<1>0. nextPid \in Pid /\ nextPid' = nextPid + 1
  BY DEF NuevoProceso
<1>2. nextPid' \in 1 .. MaxProcesos + 1
  BY <1>0, ParametrosAssumption DEF Pid
<1>4. programa' \in [Pid -> Programas \union {<< >>}] /\ hilo' \in [Pid -> {"sinConexion", "creado", "enNew", "fin"}]
  BY <1>0 DEF Inv1, TypeOK, NuevoProceso
<1>3. \A p \in Pid : pc'[p] <= Len(programa'[p])
  <2>1. Len(s) \in Nat /\ Len(<< >>) = 0 BY <1>1
  <2>2. pc[nextPid] <= Len(s)
    <3>1. nextPid \in Nat /\ programa[nextPid] = << >>
      BY <1>0 DEF Inv1, ProgramaFijado, Pid
    <3>2. pc[nextPid] \in Nat /\ pc[nextPid] <= Len(programa[nextPid])
      BY <1>0 DEF Inv1, TypeOK
    <3> QED BY <2>1, <3>1, <3>2
  <2> QED BY <2>2, <1>0 DEF Inv1, TypeOK, NuevoProceso
<1>5. TypeOK'
  BY <1>2, <1>3, <1>4 DEF Inv1, TypeOK, NuevoProceso, recursoVars, archivoVars, fsVars
<1>6. PcbTomado' /\ ProgramaFijado'
  BY <1>0 DEF Inv1, TypeOK, PcbTomado, ProgramaFijado, NuevoProceso, Pid
<1> QED BY <1>5, <1>6 DEF Inv1

(* push_new.                                                               *)
LEMMA Tipo_PushNew ==
  ASSUME Inv1, NEW p \in Pid, PushNew(p) PROVE Inv1'
<1>1. cola' \in [Listas -> Seq(Pid)]
  <2>1. cola \in [Listas -> Seq(Pid)] /\ "new" \in Listas
    BY DEF Inv1, TypeOK, Listas
  <2>2. Append(cola["new"], p) \in Seq(Pid)
    BY <2>1, AppendProperties
  <2> QED BY <2>1, <2>2 DEF PushNew, Agrega
<1>2. hilo' \in [Pid -> {"sinConexion", "creado", "enNew", "fin"}] /\ PcbTomado' /\ ProgramaFijado'
  BY  DEF Inv1, TypeOK, PcbTomado, ProgramaFijado, PushNew, Agrega
<1>3. TypeOK'
  BY <1>1, <1>2 DEF Inv1, TypeOK, PushNew, recursoVars, archivoVars, fsVars
<1> QED BY <1>2, <1>3 DEF Inv1

(* The sem_post of nuevosPcbsReady.                                        *)
LEMMA Tipo_PostNuevos ==
  ASSUME Inv1, NEW p \in Pid, PostNuevos(p) PROVE Inv1'
<1>1. /\ hilo' \in [Pid -> {"sinConexion", "creado", "enNew", "fin"}]
      /\ sem' \in [Semaforos -> Nat]
  <2>1. /\ hilo \in [Pid -> {"sinConexion", "creado", "enNew", "fin"}]
        /\ sem \in [Semaforos -> Nat]
    BY DEF Inv1, TypeOK
  <2>2. sem["nuevos"] + 1 \in Nat
    BY <2>1 DEF Semaforos
  <2> QED BY <2>1, <2>2 DEF PostNuevos, Postea
<1>2. TypeOK'
  BY <1>1 DEF Inv1, TypeOK, PostNuevos, recursoVars, archivoVars, fsVars
<1>3. PcbTomado' /\ ProgramaFijado'
  BY DEF Inv1, TypeOK, PcbTomado, ProgramaFijado, PostNuevos
<1> QED BY <1>2, <1>3 DEF Inv1

(* push_pcb_estado(e_ready, ...), logReady and the sem_post, for any       *)
(* thread.                                                                 *)
LEMMA Tipo_PasaAReady ==
  ASSUME Inv1, NEW h \in {"L", "E", "U"}, PasaAReady(h) PROVE Inv1'
<1>0. /\ h \in Hilos /\ "ready" \in Listas /\ "ready" \in Semaforos
      /\ {"espera", "cuenta", "lista", "postReady"} \subseteq Etiquetas[h]
      /\ h = "E" => "libera" \in Etiquetas[h]
  BY EtiquetasTipo DEF Hilos, Listas, Semaforos, EtiquetasReady
<1>1. CASE PushReady(h)
  <2>1. pcb[h] \in Pid
    BY <1>1 DEF Inv1, PcbTomado, PushReady, Va
  <2>2. cola' \in [Listas -> Seq(Pid)]
    BY <1>0, <1>1, <2>1, Tipo_Agrega DEF Inv1, PushReady
  <2>3. (DOMAIN en = Hilos /\ \A k \in Hilos : en[k] \in Etiquetas[k])'
    BY <1>0, <1>1, Tipo_Va DEF Inv1, PushReady
  <2>4. TypeOK'
    BY <1>1, <2>2, <2>3 DEF Inv1, TypeOK, PushReady, procesoVars, recursoVars,
       archivoVars, fsVars
  <2>5. PcbTomado' /\ ProgramaFijado'
    BY <1>0, <1>1 DEF Inv1, TypeOK, PcbTomado, ProgramaFijado, PushReady, Va, procesoVars
  <2> QED BY <2>4, <2>5 DEF Inv1
<1>2. CASE LogReadyCuenta(h)
  <2>1. leido' \in [Hilos -> Int] /\ \A k \in Hilos : leido'[k] >= Liberado
    BY <1>0, <1>2 DEF Inv1, TypeOK, Liberado, LogReadyCuenta
  <2>3. (DOMAIN en = Hilos /\ \A k \in Hilos : en[k] \in Etiquetas[k])'
    BY <1>0, <1>2, Tipo_Va DEF Inv1, LogReadyCuenta
  <2>4. TypeOK'
    BY <1>2, <2>1, <2>3 DEF Inv1, TypeOK, LogReadyCuenta, procesoVars, recursoVars,
       archivoVars, fsVars
  <2>5. PcbTomado' /\ ProgramaFijado'
    BY <1>0, <1>2 DEF Inv1, TypeOK, PcbTomado, EtiquetasPop, ProgramaFijado,
       LogReadyCuenta, Va, procesoVars
  <2> QED BY <2>4, <2>5 DEF Inv1
<1>3. CASE LogReadyRecorre(h)
  <2>1. CASE Len(cola["ready"]) < leido[h]
    BY <1>3, <2>1, Tipo_Cae DEF LogReadyRecorre, Motivos
  <2>2. CASE ~(Len(cola["ready"]) < leido[h])
    <3>. /\ Va(h, "lista", "postReady") /\ leido' = [leido EXCEPT ![h] = 0]
         /\ UNCHANGED <<procesoVars, sem, cola, pcb, mutexExit, recursoVars,
                        archivoVars, fsVars, perdidos, cantBlocked, caida>>
      BY <1>3, <2>2 DEF LogReadyRecorre
    <3>1. leido' \in [Hilos -> Int] /\ \A k \in Hilos : leido'[k] >= Liberado
      BY <1>0 DEF Inv1, TypeOK, Liberado
    <3>2. (DOMAIN en = Hilos /\ \A k \in Hilos : en[k] \in Etiquetas[k])'
      BY <1>0, Tipo_Va DEF Inv1
    <3>3. TypeOK'
      BY <3>1, <3>2 DEF Inv1, TypeOK, procesoVars, recursoVars, archivoVars, fsVars
    <3>4. PcbTomado' /\ ProgramaFijado'
      BY DEF Inv1, TypeOK, PcbTomado, EtiquetasPop, ProgramaFijado, Va, procesoVars
    <3> QED BY <3>3, <3>4 DEF Inv1
  <2> QED BY <2>1, <2>2
<1>4. CASE PostReady(h)
  <2>1. TypeOK'
    BY <1>0, <1>4, Tipo_Postea DEF Inv1, PostReady
  <2>2. PcbTomado' /\ ProgramaFijado'
    BY <1>0, <1>4 DEF Inv1, TypeOK, PcbTomado, EtiquetasPop, ProgramaFijado,
       PostReady, PasoPostea, Va, procesoVars
  <2> QED BY <2>1, <2>2 DEF Inv1
<1> QED BY <1>1, <1>2, <1>3, <1>4 DEF PasaAReady

(* planificador_largo_plazo.                                               *)
LEMMA Tipo_LargoPlazo == ASSUME Inv1, LargoPlazo PROVE Inv1'
<1>0. /\ "L" \in Hilos /\ "new" \in Listas /\ {"nuevos", "grado"} \subseteq Semaforos
      /\ {"grado", "saca", "pushReady"} \subseteq Etiquetas["L"]
  BY EtiquetasTipo DEF Hilos, Listas, Semaforos, EtiquetasReady
<1>1. CASE PasoEspera("L", "espera", "nuevos", "grado")
  <2>1. TypeOK' BY <1>0, <1>1, Tipo_Espera DEF Inv1
  <2>2. PcbTomado' /\ ProgramaFijado'
    BY <1>0, <1>1 DEF Inv1, TypeOK, PcbTomado, ProgramaFijado, PasoEspera, Va, procesoVars
  <2> QED BY <2>1, <2>2 DEF Inv1
<1>2. CASE PasoEspera("L", "grado", "grado", "saca")
  <2>1. TypeOK' BY <1>0, <1>2, Tipo_Espera DEF Inv1
  <2>2. PcbTomado' /\ ProgramaFijado'
    BY <1>0, <1>2 DEF Inv1, TypeOK, PcbTomado, ProgramaFijado, PasoEspera, Va, procesoVars
  <2> QED BY <2>1, <2>2 DEF Inv1
<1>3. CASE PasoSaca("L", "new", "pushReady")
  <2>1. TypeOK' /\ ProgramaFijado' /\ (cola["new"] # << >> => pcb'["L"] \in Pid)
    BY <1>0, <1>3, Tipo_Saca DEF Inv1
  <2>2. CASE cola["new"] = << >>
    BY <2>2, <1>3, Tipo_Cae DEF PasoSaca, Motivos
  <2>3. CASE cola["new"] # << >>
    <3>. Va("L", "saca", "pushReady") /\ pcb' = [pcb EXCEPT !["L"] = Head(cola["new"])]
         /\ UNCHANGED procesoVars
      BY <1>3, <2>3 DEF PasoSaca
    <3>1. PcbTomado'
      BY <1>0, <2>1, <2>3 DEF Inv1, TypeOK, PcbTomado, Va, procesoVars
    <3> QED BY <2>1, <3>1 DEF Inv1
  <2> QED BY <2>2, <2>3
<1>4. CASE PasaAReady("L") BY <1>4, Tipo_PasaAReady
<1> QED BY <1>1, <1>2, <1>3, <1>4 DEF LargoPlazo

(* push_pcb_estado(e_execute, ...) and its sem_post.                       *)
LEMMA Tipo_SigueEnExecute ==
  ASSUME Inv1, NEW h \in {"C", "E"}, SigueEnExecute(h) PROVE Inv1'
<1>0. /\ h \in Hilos /\ "execute" \in Listas /\ "execute" \in Semaforos
      /\ {"espera", "postExecute"} \subseteq Etiquetas[h]
  BY EtiquetasTipo DEF Hilos, Listas, Semaforos, EtiquetasReady
<1>1. CASE PushExecute(h)
  <2>. /\ Va(h, "pushExecute", "postExecute") /\ Agrega("execute", pcb[h])
       /\ UNCHANGED <<procesoVars, sem, pcb, leido, mutexExit, recursoVars,
                      archivoVars, fsVars, perdidos, cantBlocked, caida>>
    BY <1>1 DEF PushExecute
  <2>1. pcb[h] \in Pid
    BY DEF Inv1, PcbTomado, Va
  <2>2. cola' \in [Listas -> Seq(Pid)]
    BY <1>0, <2>1, Tipo_Agrega DEF Inv1
  <2>3. (DOMAIN en = Hilos /\ \A k \in Hilos : en[k] \in Etiquetas[k])'
    BY <1>0, Tipo_Va DEF Inv1
  <2>4. TypeOK'
    BY <2>2, <2>3 DEF Inv1, TypeOK, procesoVars, recursoVars, archivoVars, fsVars
  <2>5. PcbTomado' /\ ProgramaFijado'
    BY <1>0 DEF Inv1, TypeOK, PcbTomado, ProgramaFijado, Va, procesoVars
  <2> QED BY <2>4, <2>5 DEF Inv1
<1>2. CASE PasoPostea(h, "postExecute", "execute", "espera")
  <2>1. TypeOK'
    BY <1>0, <1>2, Tipo_Postea DEF Inv1
  <2>2. PcbTomado' /\ ProgramaFijado'
    BY <1>0, <1>2 DEF Inv1, TypeOK, PcbTomado, ProgramaFijado, PasoPostea, Va,
       procesoVars
  <2> QED BY <2>1, <2>2 DEF Inv1
<1> QED BY <1>1, <1>2 DEF SigueEnExecute

(* planificador_corto_plazo.                                               *)
LEMMA Tipo_CortoPlazo == ASSUME Inv1, CortoPlazo PROVE Inv1'
<1>0. /\ "C" \in Hilos /\ "ready" \in Listas /\ {"ready", "libre"} \subseteq Semaforos
      /\ {"libre", "saca", "pushExecute"} \subseteq Etiquetas["C"]
  BY EtiquetasTipo DEF Hilos, Listas, Semaforos
<1>1. CASE PasoEspera("C", "espera", "ready", "libre")
  <2>1. TypeOK'
    BY <1>0, <1>1, Tipo_Espera DEF Inv1
  <2>2. PcbTomado' /\ ProgramaFijado'
    BY <1>0, <1>1 DEF Inv1, TypeOK, PcbTomado, ProgramaFijado, PasoEspera, Va,
       procesoVars
  <2> QED BY <2>1, <2>2 DEF Inv1
<1>2. CASE PasoEspera("C", "libre", "libre", "saca")
  <2>1. TypeOK'
    BY <1>0, <1>2, Tipo_Espera DEF Inv1
  <2>2. PcbTomado' /\ ProgramaFijado'
    BY <1>0, <1>2 DEF Inv1, TypeOK, PcbTomado, ProgramaFijado, PasoEspera, Va,
       procesoVars
  <2> QED BY <2>1, <2>2 DEF Inv1
<1>3. CASE SacaHrrn
  <2>. /\ Va("C", "saca", "pushExecute")
       /\ \E i \in DOMAIN cola["ready"] :
            pcb' = [pcb EXCEPT !["C"] = cola["ready"][i]]
       /\ UNCHANGED <<procesoVars, sem, cola, leido, mutexExit, recursoVars,
                      archivoVars, fsVars, perdidos, cantBlocked, caida>>
    BY <1>3 DEF SacaHrrn
  <2>1. PICK i \in DOMAIN cola["ready"] : pcb' = [pcb EXCEPT !["C"] = cola["ready"][i]]
    OBVIOUS
  <2>2. cola["ready"][i] \in Pid
    BY <1>0, <2>1 DEF Inv1, TypeOK
  <2>3. (DOMAIN en = Hilos /\ \A k \in Hilos : en[k] \in Etiquetas[k])'
    BY <1>0, Tipo_Va DEF Inv1
  <2>4. pcb' \in [Hilos -> Pid \union {Nadie}]
    BY <1>0, <2>1, <2>2 DEF Inv1, TypeOK
  <2>5. TypeOK'
    BY <2>3, <2>4 DEF Inv1, TypeOK, procesoVars, recursoVars, archivoVars, fsVars
  <2>6. PcbTomado' /\ ProgramaFijado'
    BY <1>0, <2>1, <2>2 DEF Inv1, TypeOK, PcbTomado, ProgramaFijado, Va, procesoVars
  <2> QED BY <2>5, <2>6 DEF Inv1
<1>4. CASE PasoSaca("C", "ready", "pushExecute")
  <2>1. TypeOK' /\ ProgramaFijado' /\ (cola["ready"] # << >> => pcb'["C"] \in Pid)
    BY <1>0, <1>4, Tipo_Saca DEF Inv1
  <2>2. CASE cola["ready"] = << >>
    BY <2>2, <1>4, Tipo_Cae DEF PasoSaca, Motivos
  <2>3. CASE cola["ready"] # << >>
    <3>. Va("C", "saca", "pushExecute") /\ pcb' = [pcb EXCEPT !["C"] = Head(cola["ready"])]
         /\ UNCHANGED procesoVars
      BY <1>4, <2>3 DEF PasoSaca
    <3>1. PcbTomado'
      BY <1>0, <2>1, <2>3 DEF Inv1, TypeOK, PcbTomado, Va, procesoVars
    <3> QED BY <2>1, <3>1 DEF Inv1
  <2> QED BY <2>2, <2>3
<1>5. CASE SigueEnExecute("C")
  BY <1>5, Tipo_SigueEnExecute
<1> QED BY <1>1, <1>2, <1>3, <1>4, <1>5 DEF CortoPlazo, SacaReady

RecursosTipo == /\ instancias \in [Recursos -> Int]
                /\ resultadoWait \in {"sinValor", "posicion", "noEsta"}
ArchivosTipo == /\ globales \subseteq STRING
                /\ abiertos \in [Pid -> [Archivos -> Nat]]
FsTipo == /\ pedidosFs \in Seq(Pedido)
          /\ desbloqueos \in Seq(Pid)
          /\ respuestaFs \in {"nada", "existe", "nuevo", "creado"}

(* The groups of variables, written out.                                   *)
LEMMA Tipo_Grupos ==
  Inv1 => RecursosTipo /\ ArchivosTipo /\ FsTipo
  BY DEF Inv1, TypeOK, RecursosTipo, ArchivosTipo, FsTipo

(* An answer of the cpu moves one program_counter within its program.      *)
LEMMA Tipo_Responde ==
  ASSUME Inv1, NEW op, NEW a \in Etiquetas["E"], a \notin {"espera", "saca"},
         Responde(op, a), RecursosTipo', ArchivosTipo', FsTipo'
  PROVE  Inv1'
<1>. /\ Va("E", "cpu", a) /\ pc[Proceso] < Len(programa[Proceso])
     /\ pc' = [pc EXCEPT ![Proceso] = @ + 1]
     /\ UNCHANGED <<nextPid, hilo, programa, sem, cola, pcb, leido, mutexExit,
                    perdidos, cantBlocked, caida>>
  BY DEF Responde
<1>0. "E" \in Hilos /\ Proceso \in Pid
  BY DEF Hilos, Inv1, PcbTomado, Va, Proceso
<1>1. (DOMAIN en = Hilos /\ \A k \in Hilos : en[k] \in Etiquetas[k])'
  BY <1>0, Tipo_Va DEF Inv1
<1>2. pc' \in [Pid -> Nat] /\ pc'[Proceso] = pc[Proceso] + 1
      /\ \A p \in Pid \ {Proceso} : pc'[p] = pc[p]
  BY <1>0 DEF Inv1, TypeOK
<1>3. programa[Proceso] \in Seq(Instruccion)
  BY <1>0, Tipo_Programa DEF Inv1
<1>4. \A p \in Pid : pc'[p] <= Len(programa'[p])
  <2>1. Len(programa[Proceso]) \in Nat
    BY <1>3
  <2> QED BY <2>1, <1>0, <1>2 DEF Inv1, TypeOK
<1>5. TypeOK'
  BY <1>1, <1>2, <1>4 DEF Inv1, TypeOK, RecursosTipo, ArchivosTipo, FsTipo
<1>6. PcbTomado' /\ ProgramaFijado'
  BY <1>0, <1>2 DEF Inv1, TypeOK, PcbTomado, ProgramaFijado, Va, Proceso
<1> QED BY <1>5, <1>6 DEF Inv1

(* An answer whose handler dies.                                           *)
LEMMA Tipo_RespondeYCae ==
  ASSUME Inv1, NEW op, NEW m \in Motivos, RespondeYCae(op, m) PROVE Inv1'
  BY Tipo_Cae DEF RespondeYCae

(* The instructions that only answer and change recursos, archivos or fs.  *)
LEMMA Tipo_Siguiente ==
  ASSUME Inv1, NEW op, NEW a, Responde(op, a)
  PROVE  Proceso \in Pid /\ Siguiente \in Instruccion
<1>0. Proceso \in Pid
  BY DEF Inv1, PcbTomado, Va, Proceso, Responde
<1>1. programa[Proceso] \in Seq(Instruccion)
  BY <1>0, Tipo_Programa DEF Inv1
<1>2. pc[Proceso] \in Nat /\ pc[Proceso] < Len(programa[Proceso])
  BY <1>0 DEF Responde, Inv1, TypeOK
<1>3. pc[Proceso] + 1 \in 1 .. Len(programa[Proceso])
  BY <1>1, <1>2
<1> QED BY <1>0, <1>1, <1>3, ElementOfSeq DEF Siguiente

(* YIELD, EXIT, SEG_FAULT, IO, CREATE_SEGMENT, SEEK.                       *)
LEMMA Tipo_SoloResponde ==
  ASSUME Inv1, Yield \/ Termina \/ CreateSegment \/ Seek \/ Io PROVE Inv1'
<1>0. {"pushReady", "estadoEnExit", "memoria", "pushExecute", "ubica"}
         \subseteq Etiquetas["E"]
  BY EtiquetasTipo DEF EtiquetasReady
<1>1. RecursosTipo' /\ ArchivosTipo' /\ FsTipo'
  BY Tipo_Grupos DEF Yield, Termina, CreateSegment, Seek, Io, RecursosTipo,
     ArchivosTipo, FsTipo, recursoVars, archivoVars, fsVars
<1>2. \E op, a : /\ Responde(op, a)
                 /\ a \in {"pushReady", "estadoEnExit", "memoria", "pushExecute", "ubica"}
  BY DEF Yield, Termina, CreateSegment, Seek, Io
<1> QED BY <1>0, <1>1, <1>2, Tipo_Responde

(* WAIT and SIGNAL.                                                        *)
LEMMA Tipo_Recursos ==
  ASSUME Inv1, WaitInexistente \/ WaitConcede \/ Signal \/ SignalSinWait PROVE Inv1'
<1>0. {"estadoEnExit", "pushExecute", "pushSignal"} \subseteq Etiquetas["E"]
  BY EtiquetasTipo
<1>1. CASE SignalSinWait
  <2>1. CASE RespondeYCae("SIGNAL", "resultadoWait")
    BY <2>1, Tipo_RespondeYCae DEF Motivos
  <2>2. CASE Responde("SIGNAL", "estadoEnExit") /\ UNCHANGED <<recursoVars, archivoVars, fsVars>>
    <3>1. RecursosTipo' /\ ArchivosTipo' /\ FsTipo'
      BY <2>2, Tipo_Grupos DEF RecursosTipo, ArchivosTipo, FsTipo, recursoVars, archivoVars, fsVars
    <3> QED BY <1>0, <2>2, <3>1, Tipo_Responde
  <2> QED BY <1>1, <2>1, <2>2 DEF SignalSinWait
<1>2. CASE ~SignalSinWait
  <2>1. ArchivosTipo' /\ FsTipo'
    BY <1>2, Tipo_Grupos DEF WaitInexistente, WaitConcede, Signal, ArchivosTipo, FsTipo,
       archivoVars, fsVars
  <2>2. RecursosTipo'
    BY <1>2, Tipo_Grupos DEF WaitInexistente, WaitConcede, Signal, RecursosTipo
  <2>3. \E op, a : Responde(op, a) /\ a \in {"estadoEnExit", "pushExecute", "pushSignal"}
    BY <1>2 DEF WaitInexistente, WaitConcede, Signal
  <2> QED BY <1>0, <2>1, <2>2, <2>3, Tipo_Responde
<1> QED BY <1>1, <1>2

(* OPEN, CLOSE, TRUNCATE, READ, WRITE.                                     *)
LEMMA Tipo_Archivos ==
  ASSUME Inv1, Open \/ Close \/ PideFs PROVE Inv1'
<1>0. {"esperaFs", "pushExecute", "ubica"} \subseteq Etiquetas["E"]
  BY EtiquetasTipo
<1>1. \E op, a : Responde(op, a) /\ a \in {"esperaFs", "pushExecute", "ubica"}
  BY DEF Open, Close, PideFs
<1>2. Proceso \in Pid /\ Siguiente \in Instruccion
  BY <1>1, Tipo_Siguiente
<1>3. RecursosTipo'
  BY Tipo_Grupos DEF Open, Close, PideFs, RecursosTipo, recursoVars
<1>4. ArchivosTipo'
  <2>1. CASE Open \/ PideFs
    BY <2>1, Tipo_Grupos DEF Open, PideFs, ArchivosTipo, archivoVars
  <2>2. CASE Close
    <3> DEFINE f == abiertos[Proceso]
               n == IF f[Siguiente.arg] > 0 THEN f[Siguiente.arg] - 1 ELSE 0
    <3>1. globales' = globales
          /\ abiertos' = [abiertos EXCEPT ![Proceso] = [f EXCEPT ![Siguiente.arg] = n]]
      BY <2>2 DEF Close
    <3>2. f \in [Archivos -> Nat]
      BY <1>2, Tipo_Grupos DEF ArchivosTipo
    <3>3. Siguiente.arg \in Archivos => n \in Nat
      BY <3>2
    <3>4. [f EXCEPT ![Siguiente.arg] = n] \in [Archivos -> Nat]
      BY <3>2, <3>3
    <3> QED BY <1>2, <3>1, <3>4, Tipo_Grupos DEF ArchivosTipo
  <2> QED BY <2>1, <2>2
<1>5. FsTipo'
  <2>1. CASE Close
    BY <2>1, Tipo_Grupos DEF Close, FsTipo, fsVars
  <2>2. CASE Open
    <3>1. [op |-> "OPEN", pid |-> Nadie] \in Pedido
      BY DEF Pedido
    <3> QED BY <3>1, <2>2, Tipo_Grupos, AppendProperties DEF Open, FsTipo
  <2>3. CASE PideFs
    <3>1. PICK op \in {"TRUNCATE", "READ", "WRITE"} :
            pedidosFs' = Append(pedidosFs, [op |-> op, pid |-> Proceso])
      BY <2>3 DEF PideFs
    <3>2. [op |-> op, pid |-> Proceso] \in Pedido
      BY <1>2 DEF Pedido
    <3> QED BY <3>1, <3>2, <2>3, Tipo_Grupos, AppendProperties DEF PideFs, FsTipo
  <2> QED BY <2>1, <2>2, <2>3
<1> QED BY <1>0, <1>1, <1>3, <1>4, <1>5, Tipo_Responde

(* The answers that kill the kernel.                                       *)
LEMMA Tipo_RespuestasQueCaen ==
  ASSUME Inv1, WaitAgotado \/ DeleteSegment \/ MovInvalido \/ PredicadoCae
               \/ CloseInexistente \/ NoAbierto
  PROVE  Inv1'
<1>1. \E op, m : RespondeYCae(op, m) /\ m \in {"recursoAgotado", "bufferPack",
         "respuestaDeCpu", "predicadoPorValor", "archivoNoAbierto"}
  BY DEF WaitAgotado, DeleteSegment, MovInvalido, PredicadoCae, CloseInexistente,
         NoAbierto
<1> QED BY <1>1, Tipo_RespondeYCae DEF Motivos

(* estadoEnExit, and the first push of SIGNAL.                             *)
LEMMA Tipo_EstadoEnExit == ASSUME Inv1, EstadoEnExit \/ PushSignal PROVE Inv1'
<1>0. /\ "E" \in Hilos /\ {"exit", "execute"} \subseteq Listas
      /\ {"pushExit", "enExit", "pushExecute"} \subseteq Etiquetas["E"]
      /\ Proceso \in Pid
  BY EtiquetasTipo DEF Hilos, Listas, EstadoEnExit, PushSignal, Va, Proceso, Inv1, PcbTomado
<1>1. /\ (DOMAIN en = Hilos /\ \A k \in Hilos : en[k] \in Etiquetas[k])'
      /\ en'["E"] \in {"pushExit", "enExit", "pushExecute"}
      /\ \A k \in Hilos \ {"E"} : en'[k] = en[k]
  BY <1>0 DEF EstadoEnExit, PushSignal, Va, Inv1, TypeOK
<1>2. cola' \in [Listas -> Seq(Pid)]
  <2>1. cola' = cola \/ Agrega("exit", Proceso) \/ Agrega("execute", Proceso)
    BY DEF EstadoEnExit, PushSignal
  <2> QED BY <1>0, <2>1, Tipo_Agrega DEF Inv1, TypeOK
<1>3. mutexExit' \in {"libre", "E"}
  BY DEF EstadoEnExit, PushSignal, Inv1, TypeOK
<1>4. UNCHANGED <<procesoVars, sem, pcb, leido, recursoVars, archivoVars,
                  fsVars, perdidos, cantBlocked, caida>>
  BY DEF EstadoEnExit, PushSignal
<1>5. TypeOK'
  BY <1>1, <1>2, <1>3, <1>4 DEF Inv1, TypeOK, procesoVars, recursoVars, archivoVars, fsVars
<1>6. PcbTomado' /\ ProgramaFijado'
  BY <1>0, <1>1, <1>4 DEF Inv1, PcbTomado, ProgramaFijado, procesoVars, Hilos, Proceso
<1> QED BY <1>5, <1>6 DEF Inv1

(* The answers of memoria.                                                 *)
LEMMA Tipo_Segmentos ==
  ASSUME Inv1, SegmentoCreado \/ EmpiezaCompactacion \/ FallaCompactacion PROVE Inv1'
<1>0. /\ "E" \in Hilos /\ "execute" \in Semaforos
      /\ {"compacta", "pushExecute"} \subseteq Etiquetas["E"]
  BY EtiquetasTipo DEF Hilos, Semaforos
<1>1. CASE PasoPostea("E", "memoria", "execute", "pushExecute")
  <2>1. TypeOK'
    BY <1>0, <1>1, Tipo_Postea DEF Inv1
  <2>2. PcbTomado' /\ ProgramaFijado'
    BY <1>0, <1>1 DEF Inv1, TypeOK, PcbTomado, ProgramaFijado, PasoPostea, Va, procesoVars
  <2> QED BY <2>1, <2>2 DEF Inv1
<1>2. CASE EmpiezaCompactacion
  <2>. /\ Va("E", "memoria", "compacta")
       /\ UNCHANGED <<procesoVars, sem, cola, pcb, leido, mutexExit, recursoVars,
                      archivoVars, fsVars, perdidos, cantBlocked, caida>>
    BY <1>2 DEF EmpiezaCompactacion
  <2>1. (DOMAIN en = Hilos /\ \A k \in Hilos : en[k] \in Etiquetas[k])'
    BY <1>0, Tipo_Va DEF Inv1
  <2>2. TypeOK'
    BY <2>1 DEF Inv1, TypeOK, procesoVars, recursoVars, archivoVars, fsVars
  <2>3. PcbTomado' /\ ProgramaFijado'
    BY <1>0 DEF Inv1, TypeOK, PcbTomado, ProgramaFijado, Va, procesoVars
  <2> QED BY <2>2, <2>3 DEF Inv1
<1>3. CASE Cae("pcbSinValor") \/ Cae("compactacion")
  BY <1>3, Tipo_Cae DEF Motivos
<1> QED BY <1>1, <1>2, <1>3 DEF SegmentoCreado, FallaCompactacion

(* creacionArchivoFileSystem.                                              *)
LEMMA Tipo_CreaArchivo == ASSUME Inv1, CreaArchivo PROVE Inv1'
<1>1. FsTipo'
  <2>1. [op |-> "CREATE_ARCHIVO", pid |-> Nadie] \in Pedido
    BY DEF Pedido
  <2> QED BY <2>1, Tipo_Grupos, AppendProperties DEF CreaArchivo, FsTipo
<1>2. TypeOK'
  BY <1>1 DEF CreaArchivo, FsTipo, Inv1, TypeOK, procesoVars, recursoVars, archivoVars
<1>3. PcbTomado' /\ ProgramaFijado'
  BY DEF CreaArchivo, Inv1, PcbTomado, ProgramaFijado, procesoVars
<1> QED BY <1>2, <1>3 DEF Inv1

(* The end of OPEN.                                                        *)
LEMMA Tipo_ArchivoAbierto == ASSUME Inv1, ArchivoAbierto PROVE Inv1'
<1>. /\ Va("E", "esperaFs", "pushExecute") /\ respuestaFs' = "nada"
     /\ globales' = globales \union {EnCurso.arg}
     /\ abiertos' = [abiertos EXCEPT ![Proceso][EnCurso.arg] = @ + 1]
     /\ UNCHANGED <<procesoVars, sem, cola, pcb, leido, mutexExit, recursoVars,
                    pedidosFs, desbloqueos, perdidos, cantBlocked, caida>>
  BY DEF ArchivoAbierto
<1>0. "E" \in Hilos /\ "pushExecute" \in Etiquetas["E"]
  BY EtiquetasTipo DEF Hilos
<1>1. (DOMAIN en = Hilos /\ \A k \in Hilos : en[k] \in Etiquetas[k])'
  BY <1>0, Tipo_Va DEF Inv1
<1>2. Proceso \in Pid /\ pc[Proceso] > 0
  BY DEF Inv1, PcbTomado, Va, Proceso
<1>3. EnCurso.arg \in STRING
  <2>1. pc[Proceso] \in Nat
        /\ pc[Proceso] <= Len(programa[Proceso])
    BY <1>2 DEF Inv1, TypeOK
  <2>2. programa[Proceso] \in Seq(Instruccion)
    BY <1>2, Tipo_Programa DEF Inv1
  <2>3. pc[Proceso] \in 1 .. Len(programa[Proceso])
    BY <1>2, <2>1, <2>2
  <2>4. EnCurso \in Instruccion
    BY <2>2, <2>3, ElementOfSeq DEF EnCurso
  <2> QED BY <2>4 DEF Instruccion
<1>4. globales' \subseteq STRING
  BY <1>3 DEF Inv1, TypeOK
<1>5. abiertos' \in [Pid -> [Archivos -> Nat]]
  <2> DEFINE f == abiertos[Proceso]
  <2>1. abiertos' = [abiertos EXCEPT ![Proceso] =
                       [f EXCEPT ![EnCurso.arg] = f[EnCurso.arg] + 1]]
    OBVIOUS
  <2>2. f \in [Archivos -> Nat]
    BY <1>2 DEF Inv1, TypeOK
  <2>3. EnCurso.arg \in Archivos => f[EnCurso.arg] + 1 \in Nat
    BY <2>2
  <2>4. [f EXCEPT ![EnCurso.arg] = f[EnCurso.arg] + 1] \in [Archivos -> Nat]
    BY <2>2, <2>3
  <2> QED BY <1>2, <2>1, <2>4 DEF Inv1, TypeOK
<1>6. TypeOK'
  BY <1>1, <1>4, <1>5 DEF Inv1, TypeOK, procesoVars, recursoVars
<1>7. PcbTomado' /\ ProgramaFijado'
  BY <1>0 DEF Inv1, TypeOK, PcbTomado, ProgramaFijado, Va, procesoVars
<1> QED BY <1>6, <1>7 DEF Inv1

(* The label of a thread that acts on BLOCKED, and the pcb it acts with.   *)
LEMMA Blocked_Etiquetas ==
  ASSUME NEW h \in {"E", "U"}
  PROVE  /\ h \in Hilos /\ "blocked" \in Listas /\ Otro(h) \in {"E", "U"} \ {h}
         /\ {"indice", "quita", "pushReady"} \subseteq Etiquetas[h]
         /\ {"enlaza", "esperaIo", "postEnvio"} \subseteq Etiquetas["E"]
         /\ "duerme" \in Etiquetas["S"]
  BY EtiquetasTipo DEF Hilos, Listas, EtiquetasReady, EtiquetasPop, Otro

(* list_add and pop_blocked touch no list but BLOCKED, and move a thread   *)
(* from one of their labels to the next.                                   *)
LEMMA Pasos_Blocked ==
  ASSUME TypeOK, NEW h \in {"E", "U"}, Ubica \/ Enlaza \/ SacaBlocked(h),
         ~(\E m \in Motivos : Cae(m))
  PROVE  /\ UNCHANGED <<procesoVars, sem, pcb, mutexExit, recursoVars,
                         archivoVars, fsVars, caida>>
         /\ \A l \in Listas \ {"blocked"} : cola'[l] = cola[l]
         /\ \/ Va("E", "ubica", "enlaza")
            \/ Va(h, "sacaBlocked", "indice") \/ Va(h, "indice", "quita")
            \/ Va(h, "indice", "pushReady") \/ Va(h, "quita", "pushReady")
            \/ /\ en["E"] = "enlaza"
               /\ \/ en' = [en EXCEPT !["E"] = "esperaIo", !["S"] = "duerme"]
                  \/ en' = [en EXCEPT !["E"] = "postEnvio"]
<1>0. {"listaCorrupta", "popBlocked"} \subseteq Motivos
  BY DEF Motivos
<1>1. CASE Ubica
  BY <1>0, <1>1 DEF Ubica
<1>2. CASE Enlaza
  <2>1. \A l \in Listas \ {"blocked"} : cola'[l] = cola[l]
    BY <1>2 DEF Enlaza, TypeOK
  <2> QED BY <1>2, <2>1 DEF Enlaza
<1>3. CASE EncuentraBlocked(h)
  BY <1>0, <1>3 DEF EncuentraBlocked
<1>4. CASE BuscaIndice(h)
  BY <1>4 DEF BuscaIndice
<1>5. CASE QuitaEnlace(h)
  <2>1. \A l \in Listas \ {"blocked"} : cola'[l] = cola[l]
    BY <1>5 DEF QuitaEnlace, SacaPosicion, TypeOK
  <2> QED BY <1>5, <2>1 DEF QuitaEnlace
<1>6. CASE QuitaNada(h)
  BY <1>6 DEF QuitaNada
<1>7. CASE QuitaCae(h) \/ CaminaSobreLiberado(h)
  BY <1>0, <1>7 DEF QuitaCae, CaminaSobreLiberado
<1> QED BY <1>1, <1>2, <1>3, <1>4, <1>5, <1>6, <1>7 DEF SacaBlocked

(* What is left when one position is taken out of a sequence.              *)
LEMMA SinPosicionTipo ==
  ASSUME NEW S, NEW s \in Seq(S), NEW i \in 1 .. Len(s)
  PROVE  SinPosicion(s, i) \in Seq(S) /\ Len(SinPosicion(s, i)) = Len(s) - 1
<1> DEFINE a == SubSeq(s, 1, i - 1)
           b == SubSeq(s, i + 1, Len(s))
<1>0. Len(s) \in Nat /\ i \in Int /\ 1 <= i /\ i <= Len(s)
  OBVIOUS
<1>1. \A j \in 1 .. Len(s) : s[j] \in S
  BY ElementOfSeq
<1>2. a \in Seq(S) /\ Len(a) = i - 1
  BY <1>0, <1>1, SubSeqProperties
<1>3. b \in Seq(S) /\ Len(b) = Len(s) - i
  BY <1>0, <1>1, SubSeqProperties
<1>4. SinPosicion(s, i) = a \o b
  BY DEF SinPosicion
<1> HIDE DEF a, b
<1>5. a \o b \in Seq(S) /\ Len(a \o b) = Len(a) + Len(b)
  BY <1>2, <1>3, ConcatProperties
<1> QED BY <1>0, <1>2, <1>3, <1>4, <1>5

(* The others keep their order.                                            *)
LEMMA SinPosicionElementos ==
  ASSUME NEW S, NEW s \in Seq(S), NEW i \in 1 .. Len(s)
  PROVE  \A j \in DOMAIN SinPosicion(s, i) :
           SinPosicion(s, i)[j] = s[IF j < i THEN j ELSE j + 1]
<1> DEFINE a == SubSeq(s, 1, i - 1)
           b == SubSeq(s, i + 1, Len(s))
<1>0. Len(s) \in Nat /\ i \in Int /\ 1 <= i /\ i <= Len(s)
  OBVIOUS
<1>1. \A j \in 1 .. Len(s) : s[j] \in S
  BY ElementOfSeq
<1>2. /\ a \in Seq(S) /\ Len(a) = i - 1
      /\ \A j \in 1 .. (i - 1) - 1 + 1 : a[j] = s[1 + j - 1]
  BY <1>0, <1>1, SubSeqProperties
<1>3. /\ b \in Seq(S) /\ Len(b) = Len(s) - i
      /\ \A j \in 1 .. Len(s) - (i + 1) + 1 : b[j] = s[(i + 1) + j - 1]
  BY <1>0, <1>1, SubSeqProperties
<1>4. SinPosicion(s, i) = a \o b
  BY DEF SinPosicion
<1> HIDE DEF a, b
<1>5. /\ a \o b \in Seq(S) /\ Len(a \o b) = Len(a) + Len(b)
      /\ \A j \in 1 .. Len(a) + Len(b) :
           (a \o b)[j] = IF j <= Len(a) THEN a[j] ELSE b[j - Len(a)]
  BY <1>2, <1>3, ConcatProperties
<1>8. DOMAIN (a \o b) = 1 .. Len(s) - 1
  BY <1>0, <1>2, <1>3, <1>5
<1> SUFFICES ASSUME NEW j \in 1 .. Len(s) - 1
             PROVE  (a \o b)[j] = s[IF j < i THEN j ELSE j + 1]
  BY <1>4, <1>8
<1>6. CASE j < i
  <2>1. j \in 1 .. (i - 1) - 1 + 1 /\ 1 + j - 1 = j /\ j <= Len(a)
    BY <1>0, <1>2, <1>6
  <2> QED BY <1>0, <1>2, <1>3, <1>5, <1>6, <2>1
<1>7. CASE ~(j < i)
  <2>1. /\ j - Len(a) \in 1 .. Len(s) - (i + 1) + 1 /\ ~(j <= Len(a))
        /\ (i + 1) + (j - Len(a)) - 1 = j + 1
    BY <1>0, <1>2, <1>7
  <2>2. j \in 1 .. Len(a) + Len(b)
    BY <1>0, <1>2, <1>3
  <2>3. (a \o b)[j] = b[j - Len(a)]
    BY <1>5, <2>1, <2>2
  <2>4. b[j - Len(a)] = s[j + 1]
    BY <1>3, <2>1
  <2> QED BY <1>7, <2>3, <2>4
<1> QED BY <1>6, <1>7

(* A set of naturals that is not empty has a least element.               *)
LEMMA Minimo ==
  ASSUME NEW T \in SUBSET Nat, T # {} PROVE \E i \in T : \A j \in T : i <= j
<1> DEFINE R == OpToRel(<, Nat)
<1>1. PICK x \in T : \A y \in T : ~ (<<y, x>> \in R)
  BY WFMin, NatLessThanWellFounded
<1>2. \A y \in T : y < x => <<y, x>> \in R
  BY DEF OpToRel
<1> HIDE DEF R
<1>3. \A y \in T : ~(y < x)
  BY <1>1, <1>2
<1> QED BY <1>3

(* The first position of an element that a sequence has.                   *)
LEMMA PosicionTipo ==
  ASSUME NEW S, NEW s \in Seq(S), NEW p, Pertenece(p, s)
  PROVE  Posicion(p, s) \in DOMAIN s /\ s[Posicion(p, s)] = p
<1> DEFINE Pos == {i \in 1 .. Len(s) : s[i] = p}
<1>1. DOMAIN s = 1 .. Len(s) /\ Len(s) \in Nat
  OBVIOUS
<1>2. Pos # {} /\ Pos \subseteq Nat
  BY <1>1 DEF Pertenece
<1>3. \E i \in Pos : \A j \in Pos : i <= j
  BY <1>2, Minimo
<1>4. \E i \in DOMAIN s : s[i] = p /\ \A j \in DOMAIN s : s[j] = p => i <= j
  BY <1>1, <1>3
<1> QED BY <1>4 DEF Posicion

(* The chain, the count and the anchors after list_add and pop_blocked.    *)
LEMMA Tipo_Cadena ==
  ASSUME Inv1, AnclaBien, NEW h \in {"E", "U"}, Ubica \/ Enlaza \/ SacaBlocked(h)
  PROVE  /\ cola' \in [Listas -> Seq(Pid)]
         /\ leido' \in [Hilos -> Int] /\ \A k \in Hilos : leido'[k] >= Liberado
         /\ perdidos' \subseteq Pid \union {Nadie}
         /\ cantBlocked' \in Nat
<1>a. /\ TypeOK /\ h \in Hilos /\ {"E", "U"} \subseteq Hilos /\ "blocked" \in Listas
  BY Blocked_Etiquetas DEF Inv1, Hilos
<1>b. /\ cola["blocked"] \in Seq(Pid) /\ cantBlocked \in Nat
      /\ leido \in [Hilos -> Int] /\ \A k \in Hilos : leido[k] >= Liberado
  BY <1>a DEF TypeOK
<1>0. /\ TypeOK /\ h \in Hilos /\ {"E", "U"} \subseteq Hilos /\ "blocked" \in Listas
      /\ cola["blocked"] \in Seq(Pid) /\ cantBlocked \in Nat
      /\ leido \in [Hilos -> Int] /\ \A k \in Hilos : leido[k] >= Liberado
      /\ Len(cola["blocked"]) \in Nat /\ Liberado = -1
  BY <1>a, <1>b DEF Liberado
<1>1. CASE UNCHANGED <<cola, leido, perdidos, cantBlocked>>
  BY <1>1 DEF Inv1, TypeOK
<1>2. CASE Ubica
  <2>1. CASE Cae("listaCorrupta")
    BY <1>1, <2>1 DEF Cae
  <2>2. CASE ~Cae("listaCorrupta")
    <3>1. /\ leido' = [leido EXCEPT !["E"] = cantBlocked]
          /\ UNCHANGED <<cola, perdidos, cantBlocked>>
      BY <1>2, <2>2 DEF Ubica
    <3>2. leido' \in [Hilos -> Int] /\ \A k \in Hilos : leido'[k] >= Liberado
      BY <1>0, <3>1
    <3> QED BY <1>0, <3>1, <3>2 DEF TypeOK
  <2> QED BY <2>1, <2>2
<1>3. CASE Enlaza
  <2>0. Proceso \in Pid /\ leido["E"] \in Int /\ leido["E"] <= Len(cola["blocked"])
    BY <1>0, <1>3 DEF Enlaza, Inv1, PcbTomado, Proceso, AnclaBien
  <2>1. leido' \in [Hilos -> Int] /\ \A k \in Hilos : leido'[k] >= Liberado
    BY <1>0, <1>3 DEF Enlaza
  <2>2. cantBlocked' \in Nat
    BY <1>0, <1>3 DEF Enlaza, CambiaCant
  <2>3. CASE leido["E"] = Liberado
    BY <1>0, <1>3, <2>0, <2>1, <2>2, <2>3 DEF Enlaza, TypeOK
  <2>4. CASE leido["E"] # Liberado
    <3> DEFINE a == SubSeq(cola["blocked"], 1, leido["E"])
    <3>1. /\ cola' = [cola EXCEPT !["blocked"] = Append(a, Proceso)]
          /\ perdidos' = perdidos \union
               {cola["blocked"][i] : i \in leido["E"] + 1 .. Len(cola["blocked"])}
      BY <1>3, <2>4 DEF Enlaza
    <3>0. leido["E"] >= 0
      BY <1>0, <2>0, <2>4
    <3>2. \A i \in 1 .. Len(cola["blocked"]) : cola["blocked"][i] \in Pid
      BY <1>0, ElementOfSeq
    <3>3. a \in Seq(Pid)
      BY <1>0, <2>0, <3>0, <3>2, SubSeqProperties
    <3>4. Append(a, Proceso) \in Seq(Pid)
      BY <2>0, <3>3, AppendProperties
    <3> HIDE DEF a
    <3>5. cola' \in [Listas -> Seq(Pid)]
      BY <1>0, <3>1, <3>4 DEF TypeOK
    <3>7. \A i \in leido["E"] + 1 .. Len(cola["blocked"]) : cola["blocked"][i] \in Pid
      BY <1>0, <2>0, <3>0, <3>2
    <3>6. perdidos' \subseteq Pid \union {Nadie}
      BY <1>0, <3>1, <3>7 DEF TypeOK
    <3> QED BY <2>1, <2>2, <3>5, <3>6
  <2> QED BY <2>3, <2>4
<1>4. CASE BuscaIndice(h)
  <2>1. /\ UNCHANGED <<cola, perdidos, cantBlocked>>
        /\ \/ leido' = leido
           \/ /\ Pertenece(pcb[h], cola["blocked"])
              /\ leido' = [leido EXCEPT ![h] = Posicion(pcb[h], cola["blocked"])]
    BY <1>4 DEF BuscaIndice
  <2>2. Pertenece(pcb[h], cola["blocked"]) =>
          Posicion(pcb[h], cola["blocked"]) \in 1 .. Len(cola["blocked"])
    BY <1>0, PosicionTipo
  <2>3. leido' \in [Hilos -> Int] /\ \A k \in Hilos : leido'[k] >= Liberado
    BY <1>0, <2>1, <2>2
  <2> QED BY <2>1, <2>3 DEF Inv1, TypeOK
<1>5. CASE QuitaEnlace(h)
  <2>0. /\ leido[h] \in 1 .. Len(cola["blocked"]) /\ leido[h] <= cantBlocked
        /\ Otro(h) \in Hilos /\ Otro(h) # h
    BY <1>0, <1>5, Blocked_Etiquetas DEF QuitaEnlace, Va, AnclaBien
  <2>1. Corrida(leido[Otro(h)], leido[h]) \in Int
        /\ Corrida(leido[Otro(h)], leido[h]) >= Liberado
    <3>1. \A k \in Hilos : leido[k] \in Int /\ leido[k] >= -1
      BY <1>0
    <3>2. leido[Otro(h)] \in Int /\ leido[Otro(h)] >= -1
      BY <2>0, <3>1
    <3>3. leido[h] \in Int /\ leido[h] >= 1
      BY <1>0, <2>0
    <3> QED BY <1>0, <3>2, <3>3 DEF Corrida
  <2>2. leido' \in [Hilos -> Int] /\ \A k \in Hilos : leido'[k] >= Liberado
    <3>1. \E n \in {leido[Otro(h)], Corrida(leido[Otro(h)], leido[h])} :
            leido' = [leido EXCEPT ![h] = 0, ![Otro(h)] = n]
      BY <1>0, <1>5, <2>0 DEF QuitaEnlace
    <3> QED BY <1>0, <2>0, <2>1, <3>1
  <2>3. cantBlocked' \in Nat
    BY <1>0, <1>5, <2>0 DEF QuitaEnlace, CambiaCant
  <2>4. CASE SacaPosicion("blocked", leido[h])
             /\ perdidos' = perdidos \union ({cola["blocked"][leido[h]]} \ {pcb[h]})
    <3>1. cola["blocked"][leido[h]] \in Pid
      BY <1>0, <2>0, ElementOfSeq
    <3>2. cola' \in [Listas -> Seq(Pid)]
      BY <1>0, <2>0, <2>4, SinPosicionTipo DEF SacaPosicion, TypeOK
    <3> QED BY <2>2, <2>3, <2>4, <3>1, <3>2 DEF Inv1, TypeOK
  <2>5. CASE UNCHANGED cola /\ perdidos' = perdidos \union {Nadie}
    BY <2>2, <2>3, <2>5 DEF Inv1, TypeOK
  <2> QED BY <1>5, <2>4, <2>5 DEF QuitaEnlace
<1>6. CASE QuitaNada(h)
  BY <1>0, <1>6 DEF QuitaNada, TypeOK
<1>7. CASE EncuentraBlocked(h) \/ QuitaCae(h) \/ CaminaSobreLiberado(h)
  BY <1>1, <1>7 DEF EncuentraBlocked, QuitaCae, CaminaSobreLiberado, Cae
<1> QED BY <1>2, <1>3, <1>4, <1>5, <1>6, <1>7 DEF SacaBlocked

(* list_add on BLOCKED and pop_blocked.                                    *)
LEMMA Tipo_Blocked ==
  ASSUME Inv1, AnclaBien, NEW h \in {"E", "U"}, Ubica \/ Enlaza \/ SacaBlocked(h)
  PROVE  Inv1'
<1>1. CASE \E m \in Motivos : Cae(m)
  BY <1>1, Tipo_Cae
<1>2. CASE ~(\E m \in Motivos : Cae(m))
  <2>0. TypeOK /\ {"E", "S", "U"} \subseteq Hilos
    BY DEF Inv1, Hilos
  <2>1. /\ UNCHANGED <<procesoVars, sem, pcb, mutexExit, recursoVars,
                         archivoVars, fsVars, caida>>
        /\ \/ Va("E", "ubica", "enlaza")
           \/ Va(h, "sacaBlocked", "indice") \/ Va(h, "indice", "quita")
           \/ Va(h, "indice", "pushReady") \/ Va(h, "quita", "pushReady")
           \/ /\ en["E"] = "enlaza"
              /\ \/ en' = [en EXCEPT !["E"] = "esperaIo", !["S"] = "duerme"]
                 \/ en' = [en EXCEPT !["E"] = "postEnvio"]
    BY <1>2, <2>0, Pasos_Blocked
  <2>2. (DOMAIN en = Hilos /\ \A k \in Hilos : en[k] \in Etiquetas[k])'
    <3>1. DOMAIN en = Hilos /\ \A k \in Hilos : en[k] \in Etiquetas[k]
      BY <2>0 DEF TypeOK
    <3>2. \/ \E t \in {"E", "U"} : \E a \in Etiquetas[t] : en' = [en EXCEPT ![t] = a]
          \/ en' = [en EXCEPT !["E"] = "esperaIo", !["S"] = "duerme"]
      BY <2>1, Blocked_Etiquetas DEF Va
    <3>3. CASE \E t \in {"E", "U"} : \E a \in Etiquetas[t] : en' = [en EXCEPT ![t] = a]
      BY <2>0, <3>1, <3>3
    <3>4. CASE en' = [en EXCEPT !["E"] = "esperaIo", !["S"] = "duerme"]
      BY <2>0, <3>1, <3>4, Blocked_Etiquetas
    <3> QED BY <3>2, <3>3, <3>4
  <2>3. TypeOK'
    <3>1. /\ nextPid' \in 1 .. MaxProcesos + 1
          /\ hilo' \in [Pid -> {"sinConexion", "creado", "enNew", "fin"}]
          /\ programa' \in [Pid -> Programas \union {<< >>}]
          /\ pc' \in [Pid -> Nat] /\ \A p \in Pid : pc'[p] <= Len(programa'[p])
      BY <2>0, <2>1 DEF TypeOK, procesoVars
    <3>2. /\ sem' \in [Semaforos -> Nat]
          /\ pcb' \in [Hilos -> Pid \union {Nadie}]
          /\ mutexExit' \in {"libre", "E"} /\ caida' \in Motivos
      BY <2>0, <2>1 DEF TypeOK
    <3>3. /\ instancias' \in [Recursos -> Int]
          /\ resultadoWait' \in {"sinValor", "posicion", "noEsta"}
          /\ globales' \subseteq STRING
          /\ abiertos' \in [Pid -> [Archivos -> Nat]]
      BY <2>0, <2>1 DEF TypeOK, recursoVars, archivoVars
    <3>4. /\ pedidosFs' \in Seq(Pedido) /\ desbloqueos' \in Seq(Pid)
          /\ respuestaFs' \in {"nada", "existe", "nuevo", "creado"}
      BY <2>0, <2>1 DEF TypeOK, fsVars
    <3>5. /\ cola' \in [Listas -> Seq(Pid)]
          /\ leido' \in [Hilos -> Int] /\ \A k \in Hilos : leido'[k] >= Liberado
          /\ perdidos' \subseteq Pid \union {Nadie} /\ cantBlocked' \in Nat
      BY Tipo_Cadena
    <3> QED BY <2>2, <3>1, <3>2, <3>3, <3>4, <3>5 DEF TypeOK
  <2>4. /\ \A k \in {"L", "C"} : en'[k] = en[k]
        /\ en'["E"] # "esperaFs"
           \/ en'["E"] = en["E"]
        /\ \A k \in {"E", "U"} :
             en'[k] = en[k] \/ en[k] \in EtiquetasPop \union {"ubica", "enlaza"}
    BY <2>0, <2>1 DEF TypeOK, Va, Hilos, EtiquetasPop
  <2>5. PcbTomado'
    BY <2>1, <2>4, Blocked_Etiquetas, EtiquetasTipo
       DEF Inv1, TypeOK, PcbTomado, procesoVars, EtiquetasPop, EtiquetasReady, Hilos
  <2>6. ProgramaFijado'
    BY <2>1 DEF Inv1, ProgramaFijado, procesoVars
  <2> QED BY <2>3, <2>5, <2>6 DEF Inv1
<1> QED BY <1>1, <1>2

(* execute_pcb.                                                            *)
LEMMA Tipo_ExecutePcb == ASSUME Inv1, AnclaBien, ExecutePcb PROVE Inv1'
<1>0. /\ "E" \in Hilos /\ "execute" \in Listas
      /\ {"execute", "io", "envio", "libre"} \subseteq Semaforos
      /\ {"saca", "cpu", "sacaBlocked", "libera", "espera"} \subseteq Etiquetas["E"]
  BY EtiquetasTipo DEF Hilos, Listas, Semaforos, EtiquetasPop
<1>1. CASE \/ PasoEspera("E", "espera", "execute", "saca")
           \/ PasoEspera("E", "esperaIo", "io", "sacaBlocked")
  <2>1. TypeOK'
    BY <1>0, <1>1, Tipo_Espera DEF Inv1
  <2>2. /\ en'["E"] = "saca" \/ (en["E"] = "esperaIo" /\ en'["E"] = "sacaBlocked")
        /\ \A k \in {"L", "C", "U"} : en'[k] = en[k]
        /\ UNCHANGED <<procesoVars, pcb>>
    BY <1>0, <1>1 DEF Inv1, TypeOK, PasoEspera, Va, Hilos
  <2>3. PcbTomado' /\ ProgramaFijado'
    BY <2>2 DEF Inv1, PcbTomado, ProgramaFijado, procesoVars
  <2> QED BY <2>1, <2>3 DEF Inv1
<1>2. CASE \/ PasoPostea("E", "postEnvio", "envio", "libera")
           \/ PasoPostea("E", "libera", "libre", "espera")
  <2>1. TypeOK'
    BY <1>0, <1>2, Tipo_Postea DEF Inv1
  <2>2. /\ \/ en["E"] = "postEnvio" /\ en'["E"] = "libera"
           \/ en'["E"] = "espera"
        /\ \A k \in {"L", "C", "U"} : en'[k] = en[k]
        /\ UNCHANGED <<procesoVars, pcb>>
    BY <1>0, <1>2 DEF Inv1, TypeOK, PasoPostea, Va, Hilos
  <2>3. PcbTomado' /\ ProgramaFijado'
    BY <2>2 DEF Inv1, PcbTomado, ProgramaFijado, procesoVars
  <2> QED BY <2>1, <2>3 DEF Inv1
<1>3. CASE PasoSaca("E", "execute", "cpu")
  <2>1. TypeOK' /\ ProgramaFijado' /\ (cola["execute"] # << >> => pcb'["E"] \in Pid)
    BY <1>0, <1>3, Tipo_Saca DEF Inv1
  <2>2. CASE cola["execute"] = << >>
    BY <2>2, <1>3, Tipo_Cae DEF PasoSaca, Motivos
  <2>3. CASE cola["execute"] # << >>
    <3>. Va("E", "saca", "cpu") /\ pcb' = [pcb EXCEPT !["E"] = Head(cola["execute"])]
         /\ UNCHANGED procesoVars
      BY <1>3, <2>3 DEF PasoSaca
    <3>1. PcbTomado'
      BY <1>0, <2>1, <2>3 DEF Inv1, TypeOK, PcbTomado, Va, procesoVars
    <3> QED BY <2>1, <3>1 DEF Inv1
  <2> QED BY <2>2, <2>3
<1>4. CASE Instrucciones
  BY <1>4, Tipo_SoloResponde, Tipo_Recursos, Tipo_Archivos, Tipo_RespuestasQueCaen,
     Tipo_EstadoEnExit, Tipo_Segmentos, Tipo_CreaArchivo, Tipo_ArchivoAbierto
     DEF Instrucciones
<1>5. CASE Ubica \/ Enlaza \/ SacaBlocked("E")
  BY <1>5, Tipo_Blocked
<1>6. CASE PasaAReady("E") \/ SigueEnExecute("E")
  BY <1>6, Tipo_PasaAReady, Tipo_SigueEnExecute
<1> QED BY <1>1, <1>2, <1>3, <1>4, <1>5, <1>6 DEF ExecutePcb

(* sleepHilo.                                                              *)
LEMMA Tipo_SleepHilo == ASSUME Inv1, SleepHilo PROVE Inv1'
<1>0. "S" \in Hilos /\ "io" \in Semaforos /\ "inactivo" \in Etiquetas["S"]
  BY EtiquetasTipo DEF Hilos, Semaforos
<1>1. TypeOK'
  BY <1>0, Tipo_Postea DEF Inv1, SleepHilo
<1>2. PcbTomado' /\ ProgramaFijado'
  BY <1>0 DEF SleepHilo, Inv1, TypeOK, PcbTomado, ProgramaFijado, PasoPostea, Va,
     procesoVars
<1> QED BY <1>1, <1>2 DEF Inv1

(* unblocked_pcb_after_fs.                                                 *)
LEMMA Tipo_DesbloqueoFs == ASSUME Inv1, AnclaBien, DesbloqueoFs PROVE Inv1'
<1>0. /\ "U" \in Hilos /\ "envio" \in Semaforos
      /\ {"envio", "sacaBlocked"} \subseteq Etiquetas["U"]
  BY EtiquetasTipo DEF Hilos, Semaforos, EtiquetasPop
<1>1. CASE RecibePid
  <2>. /\ Va("U", "espera", "envio") /\ desbloqueos # << >>
       /\ pcb' = [pcb EXCEPT !["U"] = Head(desbloqueos)]
       /\ desbloqueos' = Tail(desbloqueos)
       /\ UNCHANGED <<procesoVars, sem, cola, leido, mutexExit, recursoVars,
                      archivoVars, pedidosFs, respuestaFs, perdidos, cantBlocked, caida>>
    BY <1>1 DEF RecibePid
  <2>1. Head(desbloqueos) \in Pid /\ desbloqueos' \in Seq(Pid)
    BY HeadTailProperties DEF Inv1, TypeOK
  <2>2. (DOMAIN en = Hilos /\ \A k \in Hilos : en[k] \in Etiquetas[k])'
    BY <1>0, Tipo_Va DEF Inv1
  <2>3. pcb' \in [Hilos -> Pid \union {Nadie}] /\ pcb'["U"] \in Pid
        /\ \A k \in Hilos \ {"U"} : pcb'[k] = pcb[k]
    BY <1>0, <2>1 DEF Inv1, TypeOK
  <2>4. TypeOK'
    BY <2>1, <2>2, <2>3 DEF Inv1, TypeOK, procesoVars, recursoVars, archivoVars
  <2>5. PcbTomado' /\ ProgramaFijado'
    BY <1>0, <2>3 DEF Inv1, TypeOK, PcbTomado, ProgramaFijado, Va, procesoVars, Hilos
  <2> QED BY <2>4, <2>5 DEF Inv1
<1>2. CASE PasoEspera("U", "envio", "envio", "sacaBlocked")
  <2>1. TypeOK'
    BY <1>0, <1>2, Tipo_Espera DEF Inv1
  <2>2. PcbTomado' /\ ProgramaFijado'
    BY <1>0, <1>2 DEF Inv1, TypeOK, PcbTomado, ProgramaFijado, PasoEspera, Va, procesoVars
  <2> QED BY <2>1, <2>2 DEF Inv1
<1>3. CASE SacaBlocked("U") \/ PasaAReady("U")
  BY <1>3, Tipo_Blocked, Tipo_PasaAReady
<1>4. CASE FsCerrado
  BY <1>4, Tipo_Cae DEF FsCerrado, Motivos
<1> QED BY <1>1, <1>2, <1>3, <1>4 DEF DesbloqueoFs

(* atenderKernel of the filesystem.                                        *)
LEMMA Tipo_AtenderKernel == ASSUME Inv1, AtenderKernel PROVE Inv1'
<1>1. CASE FsResponde
  <2>. /\ pedidosFs # << >> /\ pedidosFs' = Tail(pedidosFs)
       /\ UNCHANGED <<procesoVars, sem, cola, en, pcb, leido, mutexExit,
                      recursoVars, archivoVars, perdidos, cantBlocked, caida>>
    BY <1>1 DEF FsResponde
  <2>1. Head(pedidosFs) \in Pedido /\ pedidosFs' \in Seq(Pedido)
    BY HeadTailProperties DEF Inv1, TypeOK
  <2>2. Head(pedidosFs).op \in {"TRUNCATE", "WRITE"} => Head(pedidosFs).pid \in Pid
    BY <2>1 DEF Pedido
  <2>3. desbloqueos' \in Seq(Pid)
        /\ respuestaFs' \in {"nada", "existe", "nuevo", "creado"}
    <3>1. CASE UNCHANGED desbloqueos /\ respuestaFs' \in {"existe", "nuevo", "creado"}
      BY <3>1 DEF Inv1, TypeOK
    <3>2. CASE /\ Head(pedidosFs).op \in {"TRUNCATE", "WRITE"}
               /\ desbloqueos' = Append(desbloqueos, Head(pedidosFs).pid)
               /\ UNCHANGED respuestaFs
      BY <2>2, <3>2, AppendProperties DEF Inv1, TypeOK
    <3> QED BY <1>1, <3>1, <3>2 DEF FsResponde
  <2>4. TypeOK'
    BY <2>1, <2>3 DEF Inv1, TypeOK, procesoVars, recursoVars, archivoVars
  <2>5. PcbTomado' /\ ProgramaFijado'
    BY DEF Inv1, PcbTomado, ProgramaFijado, procesoVars
  <2> QED BY <2>4, <2>5 DEF Inv1
<1>2. CASE FsMuere
  <2>0. "F" \in Hilos /\ "muerto" \in Etiquetas["F"]
    BY EtiquetasTipo DEF Hilos
  <2>. /\ Va("F", "espera", "muerto")
       /\ UNCHANGED <<procesoVars, sem, cola, pcb, leido, mutexExit, recursoVars,
                      archivoVars, fsVars, perdidos, cantBlocked, caida>>
    BY <1>2 DEF FsMuere
  <2>1. (DOMAIN en = Hilos /\ \A k \in Hilos : en[k] \in Etiquetas[k])'
    BY <2>0, Tipo_Va DEF Inv1
  <2>2. TypeOK'
    BY <2>1 DEF Inv1, TypeOK, procesoVars, recursoVars, archivoVars, fsVars
  <2>3. PcbTomado' /\ ProgramaFijado'
    BY <2>0 DEF Inv1, TypeOK, PcbTomado, ProgramaFijado, Va, procesoVars
  <2> QED BY <2>2, <2>3 DEF Inv1
<1> QED BY <1>1, <1>2 DEF AtenderKernel

(* A step that does not act on BLOCKED keeps the anchors.                  *)
LEMMA Ancla_Quieta ==
  ASSUME AnclaBien, cola'["blocked"] = cola["blocked"],
         \A h \in {"E", "U"} :
           en'[h] \notin {"enlaza", "quita"}
           \/ (en'[h] = en[h] /\ leido'[h] = leido[h])
  PROVE  AnclaBien'
  BY DEF AnclaBien

(* A thread that moves elsewhere, with or without its own leido.           *)
LEMMA Ancla_Va ==
  ASSUME Inv1, AnclaBien, cola'["blocked"] = cola["blocked"],
         NEW h \in Hilos, NEW de, NEW a, Va(h, de, a), a \notin {"enlaza", "quita"},
         \A k \in Hilos \ {h} : leido'[k] = leido[k]
  PROVE  AnclaBien'
<1>1. \A k \in {"E", "U"} : \/ en'[k] \notin {"enlaza", "quita"}
                            \/ en'[k] = en[k] /\ leido'[k] = leido[k]
  BY DEF Inv1, TypeOK, Hilos, Va
<1> QED BY <1>1 DEF AnclaBien

(* The death of the kernel.                                                *)
LEMMA Ancla_Cae == ASSUME AnclaBien, NEW m, Cae(m) PROVE AnclaBien'
  BY DEF AnclaBien, Cae

(* sem_wait, sem_post, list_remove of the head of another list.            *)
LEMMA Ancla_Paso ==
  ASSUME Inv1, AnclaBien, NEW h \in Hilos, NEW de, NEW s, NEW a,
         a \notin {"enlaza", "quita"}, NEW l \in Listas \ {"blocked"},
         PasoEspera(h, de, s, a) \/ PasoPostea(h, de, s, a) \/ PasoSaca(h, l, a)
  PROVE  AnclaBien'
<1>1. CASE Cae("listaVacia")
  BY <1>1, Ancla_Cae
<1>2. CASE ~Cae("listaVacia")
  <2>1. UNCHANGED leido /\ cola'["blocked"] = cola["blocked"]
    BY <1>2 DEF PasoEspera, PasoPostea, PasoSaca, Saca, Inv1, TypeOK, Listas
  <2>2. \E d : Va(h, d, a)
    BY <1>2 DEF PasoEspera, PasoPostea, PasoSaca
  <2> QED BY <2>1, <2>2, Ancla_Va
<1> QED BY <1>1, <1>2

(* The consoles.                                                           *)
LEMMA Ancla_Consola == ASSUME Inv1, AnclaBien, Consola PROVE AnclaBien'
<1>1. UNCHANGED <<en, leido>> /\ cola'["blocked"] = cola["blocked"]
  BY DEF Consola, NuevoProceso, PushNew, PostNuevos, Agrega, Inv1, TypeOK, Listas
<1> QED BY <1>1, Ancla_Quieta

(* push_pcb_estado of READY, logReady and the sem_post.                    *)
LEMMA Ancla_PasaAReady ==
  ASSUME Inv1, AnclaBien, NEW h \in {"L", "E", "U"}, PasaAReady(h) PROVE AnclaBien'
<1>0. h \in Hilos /\ {"ready", "blocked"} \subseteq Listas /\ TypeOK
  BY DEF Hilos, Listas, Inv1
<1>1. CASE PushReady(h)
  BY <1>0, <1>1, Ancla_Va DEF PushReady, Agrega, TypeOK
<1>2. CASE LogReadyCuenta(h)
  BY <1>0, <1>2, Ancla_Va DEF LogReadyCuenta, TypeOK
<1>3. CASE LogReadyRecorre(h)
  <2>1. CASE Cae("logReady")
    BY <2>1, Ancla_Cae
  <2>2. CASE ~Cae("logReady")
    BY <1>0, <1>3, <2>2, Ancla_Va DEF LogReadyRecorre, TypeOK
  <2> QED BY <2>1, <2>2
<1>4. CASE PostReady(h)
  <2>1. "ready" \in Listas \ {"blocked"}
    BY <1>0
  <2> QED BY <1>0, <1>4, <2>1, Ancla_Paso DEF PostReady
<1> QED BY <1>1, <1>2, <1>3, <1>4 DEF PasaAReady

(* push_pcb_estado of EXECUTE and the sem_post.                            *)
LEMMA Ancla_SigueEnExecute ==
  ASSUME Inv1, AnclaBien, NEW h \in {"C", "E"}, SigueEnExecute(h) PROVE AnclaBien'
<1>0. h \in Hilos /\ {"execute", "blocked"} \subseteq Listas /\ TypeOK
      /\ "execute" \in Listas \ {"blocked"}
  BY DEF Hilos, Listas, Inv1
<1>1. CASE PushExecute(h)
  BY <1>0, <1>1, Ancla_Va DEF PushExecute, Agrega, TypeOK
<1>2. CASE PasoPostea(h, "postExecute", "execute", "espera")
  BY <1>0, <1>2, Ancla_Paso
<1> QED BY <1>1, <1>2 DEF SigueEnExecute

(* planificador_largo_plazo and planificador_corto_plazo.                  *)
LEMMA Ancla_LyC ==
  ASSUME Inv1, AnclaBien, LargoPlazo \/ CortoPlazo PROVE AnclaBien'
<1>0. /\ {"L", "C"} \subseteq Hilos
      /\ {"new", "ready"} \subseteq Listas \ {"blocked"}
  BY DEF Hilos, Listas
<1>1. CASE \/ PasoEspera("L", "espera", "nuevos", "grado")
           \/ PasoEspera("L", "grado", "grado", "saca")
           \/ PasoSaca("L", "new", "pushReady")
  BY <1>0, <1>1, Ancla_Paso
<1>2. CASE \/ PasoEspera("C", "espera", "ready", "libre")
           \/ PasoEspera("C", "libre", "libre", "saca")
           \/ PasoSaca("C", "ready", "pushExecute")
  BY <1>0, <1>2, Ancla_Paso
<1>3. CASE SacaHrrn
  BY <1>0, <1>3, Ancla_Va DEF SacaHrrn
<1>4. CASE PasaAReady("L") \/ SigueEnExecute("C")
  BY <1>4, Ancla_PasaAReady, Ancla_SigueEnExecute
<1> QED BY <1>1, <1>2, <1>3, <1>4 DEF LargoPlazo, CortoPlazo, SacaReady

(* The switch of execute_pcb.                                              *)
LEMMA Ancla_Instrucciones ==
  ASSUME Inv1, AnclaBien, Instrucciones PROVE AnclaBien'
<1>0. "E" \in Hilos /\ "blocked" \in Listas /\ TypeOK
  BY DEF Hilos, Listas, Inv1
<1>1. CASE \E op : \E a \in {"pushReady", "estadoEnExit", "memoria", "pushExecute",
                            "ubica", "pushSignal", "esperaFs"} : Responde(op, a)
  <2>1. PICK a \in {"pushReady", "estadoEnExit", "memoria", "pushExecute", "ubica",
                    "pushSignal", "esperaFs"} : \E op : Responde(op, a)
    BY <1>1
  <2>2. Va("E", "cpu", a) /\ UNCHANGED <<cola, leido>>
    BY <2>1 DEF Responde
  <2> QED BY <1>0, <2>1, <2>2, Ancla_Va
<1>2. CASE \E m : Cae(m)
  BY <1>2, Ancla_Cae
<1>3. CASE SegmentoCreado \/ EmpiezaCompactacion \/ ArchivoAbierto
  <2>1. (\E m : Cae(m)) \/ (/\ UNCHANGED <<cola, leido>>
           /\ \E d : \E a \in {"pushExecute", "compacta"} : Va("E", d, a))
    BY <1>3 DEF SegmentoCreado, EmpiezaCompactacion, ArchivoAbierto, PasoPostea
  <2> QED BY <1>0, <1>2, <2>1, Ancla_Va
<1>4. CASE CreaArchivo
  BY <1>0, <1>4, Ancla_Quieta DEF CreaArchivo
<1>5. CASE EstadoEnExit \/ PushSignal
  <2>1. cola'["blocked"] = cola["blocked"] /\ UNCHANGED leido
    BY <1>0, <1>5 DEF EstadoEnExit, PushSignal, Agrega, TypeOK
  <2>2. \E d : \E a \in {"pushExit", "enExit", "pushExecute"} : Va("E", d, a)
    BY <1>5 DEF EstadoEnExit, PushSignal, Va
  <2> QED BY <1>0, <2>1, <2>2, Ancla_Va
<1>6. CASE Yield \/ Termina \/ Io \/ WaitInexistente \/ WaitConcede \/ Signal
           \/ Open \/ Close \/ Seek \/ PideFs
  BY <1>1, <1>6 DEF Yield, Termina, Io, WaitInexistente, WaitConcede, Signal, Open,
     Close, Seek, PideFs
<1>8. CASE CreateSegment
  BY <1>1, <1>8 DEF CreateSegment
<1>7. CASE SignalSinWait \/ WaitAgotado \/ DeleteSegment \/ MovInvalido
           \/ PredicadoCae \/ CloseInexistente \/ NoAbierto \/ FallaCompactacion
  <2>1. (\E m : Cae(m)) \/ Responde("SIGNAL", "estadoEnExit")
    BY <1>7 DEF SignalSinWait, WaitAgotado, DeleteSegment, MovInvalido, PredicadoCae,
       CloseInexistente, NoAbierto, FallaCompactacion, RespondeYCae
  <2> QED BY <1>1, <1>2, <2>1
<1> QED BY <1>3, <1>4, <1>5, <1>6, <1>7, <1>8 DEF Instrucciones

(* list_add and pop_blocked: where each one leaves its place, and what an  *)
(* unlink of U does to the place of E.                                     *)
LEMMA Ancla_Blocked ==
  ASSUME Inv1, AnclaBien, NEW h \in {"E", "U"}, Ubica \/ Enlaza \/ SacaBlocked(h)
  PROVE  AnclaBien'
<1>a. /\ TypeOK /\ h \in Hilos /\ {"E", "U", "S"} \subseteq Hilos
      /\ "blocked" \in Listas /\ Otro(h) \in {"E", "U"} \ {h}
  BY Blocked_Etiquetas DEF Inv1, Hilos
<1>b. /\ leido \in [Hilos -> Int] /\ cola["blocked"] \in Seq(Pid)
      /\ cantBlocked \in Nat
  BY <1>a DEF TypeOK
<1>0. /\ TypeOK /\ h \in Hilos /\ {"E", "U", "S"} \subseteq Hilos
      /\ "blocked" \in Listas /\ leido \in [Hilos -> Int]
      /\ cola["blocked"] \in Seq(Pid) /\ Len(cola["blocked"]) \in Nat
      /\ Otro(h) \in {"E", "U"} \ {h} /\ Liberado = -1 /\ cantBlocked \in Nat
  BY <1>a, <1>b DEF Liberado
<1>1. CASE \E m : Cae(m)
  BY <1>1, Ancla_Cae
<1>2. CASE ~(\E m : Cae(m)) /\ Ubica
  BY <1>0, <1>2 DEF Ubica, Va, AnclaBien, TypeOK
<1>3. CASE Enlaza
  <2>1. en'["E"] \in {"esperaIo", "postEnvio"} /\ en'["U"] = en["U"]
        /\ leido'["U"] = leido["U"]
    BY <1>0, <1>3 DEF Enlaza, TypeOK
  <2> QED BY <2>1 DEF AnclaBien
<1>4. CASE ~(\E m : Cae(m)) /\ (EncuentraBlocked(h) \/ QuitaNada(h))
  BY <1>0, <1>4, Ancla_Va DEF EncuentraBlocked, QuitaNada
<1>5. CASE BuscaIndice(h)
  <2>1. CASE Va(h, "indice", "pushReady") /\ UNCHANGED leido
    BY <1>0, <1>5, <2>1, Ancla_Va DEF BuscaIndice
  <2>2. CASE Va(h, "indice", "quita") /\ Pertenece(pcb[h], cola["blocked"])
             /\ leido' = [leido EXCEPT ![h] = Posicion(pcb[h], cola["blocked"])]
    <3>1. Posicion(pcb[h], cola["blocked"]) \in 1 .. Len(cola["blocked"])
      BY <1>0, <2>2, PosicionTipo
    <3>2. en'[h] = "quita" /\ leido'[h] >= 1 /\ en'[Otro(h)] = en[Otro(h)]
          /\ leido'[Otro(h)] = leido[Otro(h)] /\ cola' = cola
      BY <1>0, <1>5, <2>2, <3>1 DEF BuscaIndice, Va, TypeOK
    <3> QED BY <1>0, <3>2 DEF AnclaBien
  <2> QED BY <1>5, <2>1, <2>2 DEF BuscaIndice
<1>6. CASE QuitaEnlace(h)
  <2>0. /\ leido[h] \in 1 .. Len(cola["blocked"])
        /\ en[h] = "quita" /\ en'[h] = "pushReady" /\ en'[Otro(h)] = en[Otro(h)]
    BY <1>0, <1>6 DEF QuitaEnlace, Va, AnclaBien, TypeOK
  <2>1. leido'[Otro(h)] = (IF en[Otro(h)] = "enlaza"
                           THEN Corrida(leido[Otro(h)], leido[h]) ELSE leido[Otro(h)])
    BY <1>0, <1>6 DEF QuitaEnlace
  <2>2. cola'["blocked"] = cola["blocked"]
        \/ cola'["blocked"] = SinPosicion(cola["blocked"], leido[h])
    BY <1>0, <1>6 DEF QuitaEnlace, SacaPosicion, TypeOK
  <2>3. Len(SinPosicion(cola["blocked"], leido[h])) = Len(cola["blocked"]) - 1
    BY <1>0, <2>0, SinPosicionTipo
  <2>4. ASSUME Otro(h) = "E", en["E"] = "enlaza"
        PROVE  leido'["E"] <= Len(cola'["blocked"])
    <3>1. leido["E"] \in Int /\ leido["E"] <= Len(cola["blocked"])
      BY <1>0, <2>4 DEF AnclaBien
    <3> QED BY <1>0, <2>0, <2>1, <2>2, <2>3, <2>4, <3>1 DEF Corrida
  <2>5. \A k \in {"E", "U"} : en'[k] = "quita" => leido'[k] >= 1
    BY <1>0, <2>0, <2>1 DEF AnclaBien
  <2> QED BY <1>0, <2>0, <2>4, <2>5 DEF AnclaBien
<1> QED BY <1>1, <1>2, <1>3, <1>4, <1>5, <1>6
        DEF SacaBlocked, QuitaCae, CaminaSobreLiberado

(* execute_pcb, unblocked_pcb_after_fs, the sleeper and the filesystem.    *)
LEMMA Ancla_Demas ==
  ASSUME Inv1, AnclaBien, ExecutePcb \/ DesbloqueoFs \/ SleepHilo \/ AtenderKernel
  PROVE  AnclaBien'
<1>0. /\ {"E", "U", "S", "F"} \subseteq Hilos
      /\ "execute" \in Listas \ {"blocked"}
  BY DEF Hilos, Listas
<1>1. CASE \/ PasoEspera("E", "espera", "execute", "saca")
           \/ PasoSaca("E", "execute", "cpu")
           \/ PasoEspera("E", "esperaIo", "io", "sacaBlocked")
           \/ PasoPostea("E", "postEnvio", "envio", "libera")
           \/ PasoPostea("E", "libera", "libre", "espera")
           \/ PasoEspera("U", "envio", "envio", "sacaBlocked")
           \/ SleepHilo
  BY <1>0, <1>1, Ancla_Paso DEF SleepHilo
<1>2. CASE Instrucciones \/ Ubica \/ Enlaza \/ SacaBlocked("E") \/ SacaBlocked("U")
  BY <1>2, Ancla_Instrucciones, Ancla_Blocked
<1>3. CASE PasaAReady("E") \/ PasaAReady("U") \/ SigueEnExecute("E")
  BY <1>3, Ancla_PasaAReady, Ancla_SigueEnExecute
<1>4. CASE RecibePid \/ FsMuere
  BY <1>0, <1>4, Ancla_Va DEF RecibePid, FsMuere
<1>5. CASE FsCerrado
  BY <1>5, Ancla_Cae DEF FsCerrado
<1>6. CASE FsResponde
  BY <1>6, Ancla_Quieta DEF FsResponde
<1> QED BY <1>1, <1>2, <1>3, <1>4, <1>5, <1>6 DEF ExecutePcb, DesbloqueoFs, AtenderKernel

(* The invariant holds in every state of every behaviour.                  *)
LEMMA AnclaInvariante == Spec => [](Inv1 /\ AnclaBien)
<1>1. Inv1 /\ AnclaBien /\ [Next]_vars => Inv1'
  <2> SUFFICES ASSUME Inv1, AnclaBien, [Next]_vars PROVE Inv1'
    OBVIOUS
  <2>1. CASE Consola
    <3>1. ASSUME NEW s \in Programas, NuevoProceso(s) PROVE Inv1'
      BY <3>1, Tipo_Nuevo
    <3>2. ASSUME NEW p \in Pid, PushNew(p) \/ PostNuevos(p) PROVE Inv1'
      BY <3>2, Tipo_PushNew, Tipo_PostNuevos
    <3> QED BY <2>1, <3>1, <3>2 DEF Consola
  <2>2. CASE LargoPlazo \/ CortoPlazo \/ ExecutePcb
    BY <2>2, Tipo_LargoPlazo, Tipo_CortoPlazo, Tipo_ExecutePcb
  <2>3. CASE SleepHilo \/ DesbloqueoFs \/ AtenderKernel
    BY <2>3, Tipo_SleepHilo, Tipo_DesbloqueoFs, Tipo_AtenderKernel
  <2>4. CASE UNCHANGED vars
    BY <2>4 DEF vars, procesoVars, recursoVars, archivoVars, fsVars, Inv1, TypeOK,
       PcbTomado, ProgramaFijado
  <2> QED BY <2>1, <2>2, <2>3, <2>4 DEF Next
<1>2. Inv1 /\ AnclaBien /\ [Next]_vars => AnclaBien'
  <2> SUFFICES ASSUME Inv1, AnclaBien, [Next]_vars PROVE AnclaBien'
    OBVIOUS
  <2>1. CASE UNCHANGED vars
    BY <2>1 DEF vars, AnclaBien
  <2> QED BY <2>1, Ancla_Consola, Ancla_LyC, Ancla_Demas DEF Next
<1>3. Init => AnclaBien
  BY DEF Init, AnclaBien, Hilos
<1> QED BY <1>1, <1>2, <1>3, Tipo_Init, PTL DEF Spec

(* The types alone.                                                        *)
LEMMA Inv1Invariante == Spec => []Inv1
<1>1. Inv1 /\ AnclaBien => Inv1
  OBVIOUS
<1> QED BY <1>1, AnclaInvariante, PTL

(* Every variable of the scheduler keeps its type: semaphores never go     *)
(* below zero, program counters stay within the program, a request to the  *)
(* filesystem carries a pid exactly when someone waits for it.             *)
THEOREM TipoInvariante == Spec => []TypeOK
<1>1. Inv1 => TypeOK
  BY DEF Inv1
<1> QED BY <1>1, Inv1Invariante, PTL

-----------------------------------------------------------------------------
(* The cpu token.                                                          *)

(* The programs without CREATE_SEGMENT.                                    *)
SinCreate == \A s \in Programas : \A i \in DOMAIN s : s[i].op # "CREATE_SEGMENT"

(* With SinCreate, E never waits for an answer of memoria.                 *)
Inv2 == FichaUnicaDeCpu /\ ExecuteContada /\ en["E"] # "memoria"

(* The numbers that the token, READY and EXECUTE relate, each with a name, *)
(* so that the arithmetic of a step does not see the labels they come from.*)
SLibre   == sem["libre"]
SExecute == sem["execute"]
SReady   == sem["ready"]
LReady   == Len(cola["ready"])
LExecute == Len(cola["execute"])
CFicha   == En("C", {"saca", "pushExecute", "postExecute"})
CListo   == En("C", {"libre", "saca"})
CPost    == En("C", {"postExecute"})
EEspera  == En("E", {"espera"})
ECuenta  == En("E", {"saca", "postExecute"})
PubL     == En("L", Publicando)
PubE     == En("E", Publicando)
PubU     == En("U", Publicando)
Conteo == /\ SLibre + SExecute + CFicha = EEspera
          /\ LExecute >= SExecute + CPost + ECuenta

DeSem    == <<SLibre, SExecute, SReady>>
DeListas == <<LReady, LExecute>>
DeC      == <<CFicha, CListo, CPost>>
DeE      == <<EEspera, ECuenta, PubE>>
DeLU     == <<PubL, PubU>>

(* Inv2 is the relation of the numbers.                                    *)
LEMMA Ficha_Conteo == Inv2 <=> Conteo /\ en["E"] # "memoria"
  BY DEF Inv2, FichaUnicaDeCpu, ExecuteContada, Conteo, SLibre, SExecute, LExecute,
     CFicha, CPost, EEspera, ECuenta

(* The same of the next state.                                             *)
LEMMA Ficha_ConteoPrima == Inv2' <=> Conteo' /\ en'["E"] # "memoria"
  BY DEF Inv2, FichaUnicaDeCpu, ExecuteContada, Conteo, SLibre, SExecute, LExecute,
     CFicha, CPost, EEspera, ECuenta

(* The numbers that count labels are naturals, whatever the labels.        *)
LEMMA Ficha_CuentasPrima ==
  /\ CFicha' \in Nat /\ CListo' \in Nat /\ CPost' \in Nat
  /\ EEspera' \in Nat /\ ECuenta' \in Nat
  /\ PubL' \in Nat /\ PubE' \in Nat /\ PubU' \in Nat
  BY DEF En, CFicha, CListo, CPost, EEspera, ECuenta, PubL, PubE, PubU

(* All the numbers are naturals.                                           *)
LEMMA Ficha_Naturales ==
  ASSUME TypeOK
  PROVE  /\ SLibre \in Nat /\ SExecute \in Nat /\ SReady \in Nat
         /\ LReady \in Nat /\ LExecute \in Nat
         /\ CFicha \in Nat /\ CListo \in Nat /\ CPost \in Nat
         /\ EEspera \in Nat /\ ECuenta \in Nat
         /\ PubL \in Nat /\ PubE \in Nat /\ PubU \in Nat
<1>1. SLibre \in Nat /\ SExecute \in Nat /\ SReady \in Nat
  BY DEF TypeOK, Semaforos, SLibre, SExecute, SReady
<1>2. cola["ready"] \in Seq(Pid) /\ cola["execute"] \in Seq(Pid)
  BY DEF TypeOK, Listas
<1>3. LReady \in Nat /\ LExecute \in Nat
  BY <1>2 DEF LReady, LExecute
<1>4. CFicha \in Nat /\ CListo \in Nat /\ CPost \in Nat /\ EEspera \in Nat
  BY DEF En, CFicha, CListo, CPost, EEspera
<1>5. ECuenta \in Nat /\ PubL \in Nat /\ PubE \in Nat /\ PubU \in Nat
  BY DEF En, ECuenta, PubL, PubE, PubU
<1> QED BY <1>1, <1>3, <1>4, <1>5

(* What the move of a thread does to the numbers that count its labels.    *)
LEMMA Mueve_C ==
  ASSUME TypeOK, NEW de, NEW a, Va("C", de, a)
  PROVE  /\ UNCHANGED <<DeE, DeLU>> /\ en'["E"] = en["E"]
         /\ CFicha = (IF de \in {"saca", "pushExecute", "postExecute"} THEN 1 ELSE 0)
         /\ CFicha' = (IF a \in {"saca", "pushExecute", "postExecute"} THEN 1 ELSE 0)
         /\ CListo = (IF de \in {"libre", "saca"} THEN 1 ELSE 0)
         /\ CListo' = (IF a \in {"libre", "saca"} THEN 1 ELSE 0)
         /\ CPost = (IF de = "postExecute" THEN 1 ELSE 0)
         /\ CPost' = (IF a = "postExecute" THEN 1 ELSE 0)
  BY DEF TypeOK, Hilos, Va, En, DeE, DeLU, CFicha, CListo, CPost, EEspera, ECuenta,
     PubL, PubE, PubU

(* E counts while it waits, publishes, or holds a place of EXECUTE.        *)
LEMMA Mueve_E ==
  ASSUME TypeOK, NEW de, NEW a, Va("E", de, a)
  PROVE  /\ UNCHANGED <<DeC, DeLU>> /\ en'["E"] = a
         /\ EEspera = (IF de = "espera" THEN 1 ELSE 0)
         /\ EEspera' = (IF a = "espera" THEN 1 ELSE 0)
         /\ ECuenta = (IF de \in {"saca", "postExecute"} THEN 1 ELSE 0)
         /\ ECuenta' = (IF a \in {"saca", "postExecute"} THEN 1 ELSE 0)
         /\ PubE = (IF de \in Publicando THEN 1 ELSE 0)
         /\ PubE' = (IF a \in Publicando THEN 1 ELSE 0)
  BY DEF TypeOK, Hilos, Va, En, DeC, DeLU, CFicha, CListo, CPost, EEspera, ECuenta,
     PubL, PubE, PubU

(* L and U only count while they publish a process in READY.               *)
LEMMA Mueve_LU ==
  ASSUME TypeOK, NEW h \in {"L", "U"}, NEW de, NEW a, Va(h, de, a)
  PROVE  /\ UNCHANGED <<DeC, DeE>> /\ en'["E"] = en["E"]
         /\ PubL' + PubU' = PubL + PubU - (IF de \in Publicando THEN 1 ELSE 0)
                                        + (IF a \in Publicando THEN 1 ELSE 0)
<1>1. UNCHANGED <<DeC, DeE>> /\ en'["E"] = en["E"]
  BY DEF TypeOK, Hilos, Va, En, DeC, DeE, CFicha, CListo, CPost, EEspera, ECuenta, PubE
<1>2. \A k \in {"L", "U"} :
        /\ k # h => En(k, Publicando)' = En(k, Publicando)
        /\ k = h => /\ En(k, Publicando) = (IF de \in Publicando THEN 1 ELSE 0)
                    /\ En(k, Publicando)' = (IF a \in Publicando THEN 1 ELSE 0)
  BY DEF TypeOK, Hilos, Va, En
<1> QED BY <1>1, <1>2, Ficha_Naturales, Ficha_CuentasPrima DEF PubL, PubU

(* The sleeper and the filesystem do not count.                            *)
LEMMA Mueve_SF ==
  ASSUME TypeOK, NEW h \in {"S", "F"}, NEW de, NEW a, Va(h, de, a)
  PROVE  UNCHANGED <<DeC, DeE, DeLU>> /\ en'["E"] = en["E"]
  BY DEF TypeOK, Hilos, Va, En, DeC, DeE, DeLU, CFicha, CListo, CPost, EEspera,
     ECuenta, PubL, PubE, PubU

(* A step that leaves every number alone keeps the invariant.              *)
LEMMA Quieto ==
  ASSUME Inv2, UNCHANGED <<DeSem, DeListas, DeC, DeE, DeLU>>, en'["E"] # "memoria"
  PROVE  Inv2'
  BY Ficha_Conteo, Ficha_ConteoPrima DEF DeSem, DeListas, DeC, DeE, DeLU, Conteo

(* inicializar_planificador: one token, in execute_libre.                  *)
LEMMA Ficha_Init == Init => Inv2
<1> SUFFICES ASSUME Init PROVE Inv2 OBVIOUS
<1>1. /\ sem["libre"] = 1 /\ sem["execute"] = 0 /\ Len(cola["execute"]) = 0
      /\ en["C"] = "espera" /\ en["E"] = "espera"
  BY DEF Init, Semaforos, Hilos, Listas
<1> QED BY <1>1 DEF Inv2, FichaUnicaDeCpu, ExecuteContada, En

(* list_add makes its list one longer and leaves the others; removing the  *)
(* head of a list makes it one shorter.                                    *)
LEMMA Largo_Agrega ==
  ASSUME TypeOK, NEW l \in Listas, NEW p, Agrega(l, p)
  PROVE  /\ Len(cola'[l]) = Len(cola[l]) + 1
         /\ \A k \in Listas \ {l} : cola'[k] = cola[k]
  BY DEF TypeOK, Agrega

(* The length after list_remove of the head.                               *)
LEMMA Largo_Saca ==
  ASSUME TypeOK, NEW l \in Listas, Saca(l), cola[l] # << >>
  PROVE  /\ Len(cola'[l]) = Len(cola[l]) - 1 /\ Len(cola[l]) > 0
         /\ \A k \in Listas \ {l} : cola'[k] = cola[k]
<1>1. cola[l] \in Seq(Pid) /\ cola'[l] = Tail(cola[l])
  BY DEF TypeOK, Saca
<1> QED BY <1>1, EmptySeq, HeadTailProperties DEF TypeOK, Saca

(* The death of the kernel moves nothing.                                  *)
LEMMA Ficha_Cae ==
  ASSUME Inv2, NEW m, Cae(m) PROVE Inv2'
  BY Quieto DEF Cae, Inv2, DeSem, DeListas, DeC, DeE, DeLU, SLibre, SExecute, SReady,
     LReady, LExecute, CFicha, CListo, CPost, EEspera, ECuenta, PubL, PubE, PubU, En

(* A console thread touches NEW only.                                      *)
LEMMA Ficha_Consola ==
  ASSUME Inv1, Inv2, Consola PROVE Inv2'
<1>1. UNCHANGED en
  BY DEF Consola, NuevoProceso, PushNew, PostNuevos
<1>2. UNCHANGED DeSem
  BY DEF Consola, NuevoProceso, PushNew, PostNuevos, Postea, Inv1, TypeOK, Semaforos,
     DeSem, SLibre, SExecute, SReady
<1>3. UNCHANGED DeListas
  BY DEF Consola, NuevoProceso, PushNew, PostNuevos, Agrega, Inv1, TypeOK, Listas,
     DeListas, LReady, LExecute
<1>4. UNCHANGED <<DeC, DeE, DeLU>>
  BY <1>1 DEF DeC, DeE, DeLU, CFicha, CListo, CPost, EEspera, ECuenta, PubL, PubE,
     PubU, En
<1> QED BY <1>1, <1>2, <1>3, <1>4, Quieto DEF Inv2

(* push_pcb_estado(e_ready, ...) and the sem_post of e_ready.              *)
LEMMA Ficha_PasaAReady ==
  ASSUME Inv1, Inv2, NEW h \in {"L", "E", "U"}, PasaAReady(h) PROVE Inv2'
<1>0. TypeOK
  BY DEF Inv1
<1>1. CASE \E m : Cae(m)
  BY <1>1, Ficha_Cae
<1>2. CASE ~\E m : Cae(m)
  <2>1. \E de, a : /\ Va(h, de, a) /\ de \in EtiquetasReady
                   /\ a \in EtiquetasReady \union {IF h = "E" THEN "libera" ELSE "espera"}
    BY <1>2 DEF PasaAReady, PushReady, LogReadyCuenta, LogReadyRecorre, PostReady,
       PasoPostea, EtiquetasReady
  <2>2. UNCHANGED <<SLibre, SExecute, LExecute>>
    BY <1>0, <1>2 DEF PasaAReady, PushReady, LogReadyCuenta, LogReadyRecorre, PostReady,
       PasoPostea, Postea, Agrega, TypeOK, Listas, Semaforos, SLibre, SExecute, LExecute
  <2>3. UNCHANGED <<DeC, EEspera, ECuenta>> /\ en'["E"] # "memoria"
    <3>1. CASE h = "E"
      BY <1>0, <2>1, <3>1, Mueve_E DEF EtiquetasReady
    <3>2. CASE h \in {"L", "U"}
      BY <1>0, <2>1, <3>2, Mueve_LU DEF DeE, Inv2
    <3> QED BY <3>1, <3>2
  <2>4. Conteo'
    BY <2>2, <2>3, Ficha_Conteo DEF Conteo, DeC
  <2> QED BY <2>3, <2>4, Ficha_ConteoPrima
<1> QED BY <1>1, <1>2

(* push_pcb_estado(e_execute, ...) comes before its sem_post, and the      *)
(* sem_post hands the token over.                                          *)
LEMMA Ficha_SigueEnExecute ==
  ASSUME Inv1, Inv2, NEW h \in {"C", "E"}, SigueEnExecute(h) PROVE Inv2'
<1>0. TypeOK
  BY DEF Inv1
<1>1. CASE PushExecute(h)
  <2>1. LExecute' = LExecute + 1 /\ LReady' = LReady /\ UNCHANGED DeSem
    BY <1>0, <1>1, Largo_Agrega DEF PushExecute, LReady, LExecute, Listas, DeSem, SLibre,
       SExecute, SReady
  <2>2. Va(h, "pushExecute", "postExecute")
    BY <1>1 DEF PushExecute
  <2>3. /\ UNCHANGED <<DeLU, PubE, EEspera, CFicha, CListo>> /\ en'["E"] # "memoria"
        /\ CPost' + ECuenta' = CPost + ECuenta + 1
    <3>1. CASE h = "C"
      BY <1>0, <2>2, <3>1, Mueve_C, Ficha_Naturales, Ficha_CuentasPrima DEF DeE, Inv2
    <3>2. CASE h = "E"
      BY <1>0, <2>2, <3>2, Mueve_E, Ficha_Naturales, Ficha_CuentasPrima DEF DeC, Publicando
    <3> QED BY <3>1, <3>2
  <2>4. Conteo'
    BY <1>0, <2>1, <2>3, Ficha_Naturales, Ficha_CuentasPrima, Ficha_Conteo
       DEF Conteo, DeSem, DeLU
  <2> QED BY <2>3, <2>4, Ficha_ConteoPrima
<1>2. CASE PasoPostea(h, "postExecute", "execute", "espera")
  <2>1. /\ SExecute' = SExecute + 1 /\ UNCHANGED <<SLibre, SReady, DeListas>>
        /\ Va(h, "postExecute", "espera")
    BY <1>0, <1>2 DEF PasoPostea, Postea, TypeOK, Semaforos, SLibre, SExecute, SReady,
       DeListas, LReady, LExecute
  <2>2. /\ UNCHANGED <<DeLU, PubE, CListo>> /\ en'["E"] # "memoria"
        /\ CPost' + ECuenta' = CPost + ECuenta - 1
        /\ CFicha' + EEspera + 1 = CFicha + EEspera'
    <3>1. CASE h = "C"
      BY <1>0, <2>1, <3>1, Mueve_C, Ficha_Naturales, Ficha_CuentasPrima DEF DeE, Inv2
    <3>2. CASE h = "E"
      BY <1>0, <2>1, <3>2, Mueve_E, Ficha_Naturales, Ficha_CuentasPrima DEF DeC, Publicando
    <3> QED BY <3>1, <3>2
  <2>3. Conteo'
    BY <1>0, <2>1, <2>2, Ficha_Naturales, Ficha_CuentasPrima, Ficha_Conteo
       DEF Conteo, DeListas, DeLU
  <2> QED BY <2>2, <2>3, Ficha_ConteoPrima
<1> QED BY <1>1, <1>2 DEF SigueEnExecute

(* A step of L or U that touches neither the numbers nor the labels.       *)
LEMMA Quieto_LU ==
  ASSUME TypeOK, Inv2, NEW h \in {"L", "U"}, NEW de, NEW a, Va(h, de, a),
         UNCHANGED <<DeSem, DeListas>>, de \notin Publicando, a \notin Publicando
  PROVE  Inv2'
<1>1. UNCHANGED <<DeC, DeE>> /\ en'["E"] = en["E"] /\ PubL' + PubU' = PubL + PubU
  BY Mueve_LU, Ficha_Naturales, Ficha_CuentasPrima
<1>2. Conteo'
  BY <1>1, Ficha_Naturales, Ficha_CuentasPrima, Ficha_Conteo
     DEF Conteo, DeC, DeE, DeSem, DeListas
<1> QED BY <1>1, <1>2, Ficha_ConteoPrima DEF Inv2

(* The same of a step of E.                                                *)
LEMMA Quieto_E ==
  ASSUME TypeOK, Inv2, NEW de, NEW a, Va("E", de, a), UNCHANGED <<DeSem, DeListas>>,
         de \notin Publicando \union {"espera", "saca", "postExecute"},
         a \notin Publicando \union {"espera", "saca", "postExecute", "memoria"}
  PROVE  Inv2'
<1>1. UNCHANGED <<DeC, DeE, DeLU>> /\ en'["E"] # "memoria"
  BY Mueve_E DEF DeE
<1> QED BY <1>1, Quieto

(* planificador_largo_plazo.                                               *)
LEMMA Ficha_LargoPlazo ==
  ASSUME Inv1, Inv2, LargoPlazo PROVE Inv2'
<1>0. TypeOK
  BY DEF Inv1
<1>1. CASE PasoEspera("L", "espera", "nuevos", "grado")
  <2>1. UNCHANGED <<DeSem, DeListas>> /\ Va("L", "espera", "grado")
    BY <1>0, <1>1 DEF PasoEspera, Espera, TypeOK, Semaforos, DeSem, DeListas, SLibre,
       SExecute, SReady, LReady, LExecute
  <2> QED BY <1>0, <2>1, Quieto_LU DEF Publicando
<1>2. CASE PasoEspera("L", "grado", "grado", "saca")
  <2>1. UNCHANGED <<DeSem, DeListas>> /\ Va("L", "grado", "saca")
    BY <1>0, <1>2 DEF PasoEspera, Espera, TypeOK, Semaforos, DeSem, DeListas, SLibre,
       SExecute, SReady, LReady, LExecute
  <2> QED BY <1>0, <2>1, Quieto_LU DEF Publicando
<1>3. CASE PasoSaca("L", "new", "pushReady")
  <2>1. CASE cola["new"] = << >>
    BY <1>3, <2>1, Ficha_Cae DEF PasoSaca
  <2>2. CASE cola["new"] # << >>
    <3>1. Va("L", "saca", "pushReady") /\ Saca("new") /\ sem' = sem
      BY <1>3, <2>2 DEF PasoSaca
    <3>2. UNCHANGED <<DeSem, DeListas>>
      BY <1>0, <3>1, <2>2, Largo_Saca DEF Listas, DeSem, DeListas, SLibre, SExecute,
         SReady, LReady, LExecute
    <3> QED BY <1>0, <3>1, <3>2, Quieto_LU DEF Publicando
  <2> QED BY <2>1, <2>2
<1>4. CASE PasaAReady("L")
  BY <1>4, Ficha_PasaAReady
<1> QED BY <1>1, <1>2, <1>3, <1>4 DEF LargoPlazo

(* planificador_corto_plazo takes the token from execute_libre.            *)
LEMMA Ficha_CortoPlazo ==
  ASSUME Inv1, Inv2, CortoPlazo PROVE Inv2'
<1>0. TypeOK
  BY DEF Inv1
<1>1. CASE PasoEspera("C", "espera", "ready", "libre")
  <2>1. /\ SReady' = SReady - 1 /\ UNCHANGED <<SLibre, SExecute, DeListas>>
        /\ Va("C", "espera", "libre")
    BY <1>0, <1>1 DEF PasoEspera, Espera, TypeOK, Semaforos, SLibre, SExecute, SReady,
       DeListas, LReady, LExecute
  <2>2. /\ UNCHANGED <<DeE, DeLU, CFicha, CPost>> /\ en'["E"] # "memoria"
        /\ CListo' = CListo + 1
    BY <1>0, <2>1, Mueve_C DEF Inv2
  <2>3. Conteo'
    BY <1>0, <2>1, <2>2, Ficha_Naturales, Ficha_CuentasPrima, Ficha_Conteo
       DEF Conteo, DeListas, DeLU, DeE
  <2> QED BY <2>2, <2>3, Ficha_ConteoPrima
<1>2. CASE PasoEspera("C", "libre", "libre", "saca")
  <2>1. /\ SLibre' = SLibre - 1 /\ UNCHANGED <<SReady, SExecute, DeListas>>
        /\ Va("C", "libre", "saca")
    BY <1>0, <1>2 DEF PasoEspera, Espera, TypeOK, Semaforos, SLibre, SExecute, SReady,
       DeListas, LReady, LExecute
  <2>2. /\ UNCHANGED <<DeE, DeLU, CListo, CPost>> /\ en'["E"] # "memoria"
        /\ CFicha' = CFicha + 1
    BY <1>0, <2>1, Mueve_C DEF Inv2
  <2>3. Conteo'
    BY <1>0, <2>1, <2>2, Ficha_Naturales, Ficha_CuentasPrima, Ficha_Conteo
       DEF Conteo, DeListas, DeLU, DeE
  <2> QED BY <2>2, <2>3, Ficha_ConteoPrima
<1>3. ASSUME Va("C", "saca", "pushExecute"), UNCHANGED <<DeSem, LExecute>>,
             LReady' = LReady \/ LReady' = LReady - 1
      PROVE  Inv2'
  <2>1. /\ UNCHANGED <<DeE, DeLU, CFicha, CPost>> /\ en'["E"] # "memoria"
        /\ CListo' = CListo - 1
    BY <1>0, <1>3, Mueve_C DEF Inv2
  <2>2. Conteo'
    BY <1>0, <1>3, <2>1, Ficha_Naturales, Ficha_CuentasPrima, Ficha_Conteo
       DEF Conteo, DeSem, DeLU, DeE
  <2> QED BY <2>1, <2>2, Ficha_ConteoPrima
<1>4. CASE SacaHrrn
  BY <1>3, <1>4 DEF SacaHrrn, DeSem, SLibre, SExecute, SReady, LReady, LExecute
<1>5. CASE PasoSaca("C", "ready", "pushExecute")
  <2>1. CASE cola["ready"] = << >>
    BY <1>5, <2>1, Ficha_Cae DEF PasoSaca
  <2>2. CASE cola["ready"] # << >>
    <3>1. Va("C", "saca", "pushExecute") /\ Saca("ready") /\ sem' = sem
      BY <1>5, <2>2 DEF PasoSaca
    <3>2. LReady' = LReady - 1 /\ UNCHANGED <<DeSem, LExecute>>
      BY <1>0, <3>1, <2>2, Largo_Saca DEF Listas, DeSem, SLibre, SExecute, SReady,
         LReady, LExecute
    <3> QED BY <1>3, <3>1, <3>2
  <2> QED BY <2>1, <2>2
<1>6. CASE SigueEnExecute("C")
  BY <1>6, Ficha_SigueEnExecute
<1> QED BY <1>1, <1>2, <1>4, <1>5, <1>6 DEF CortoPlazo, SacaReady

(* The label to which the answer of the cpu sends E.                       *)
LEMMA Ficha_Responde ==
  ASSUME Inv1, Inv2, NEW op, NEW a, Responde(op, a),
         a \notin Publicando \union {"espera", "saca", "postExecute", "memoria"}
  PROVE  Inv2'
<1>1. Va("E", "cpu", a) /\ UNCHANGED <<sem, cola>>
  BY DEF Responde
<1>2. UNCHANGED <<DeSem, DeListas>>
  BY <1>1 DEF DeSem, DeListas, SLibre, SExecute, SReady, LReady, LExecute
<1> QED BY <1>1, <1>2, Quieto_E DEF Inv1, Publicando

(* No answer is a CREATE_SEGMENT.                                          *)
LEMMA SinCreate_Responde ==
  ASSUME SinCreate, Inv1, NEW op, NEW a, Responde(op, a) PROVE op # "CREATE_SEGMENT"
<1>1. Proceso \in Pid /\ pc[Proceso] < Len(programa[Proceso]) /\ Siguiente.op = op
  BY Tipo_Siguiente DEF Responde
<1>2. programa[Proceso] \in Seq(Instruccion) /\ pc[Proceso] \in Nat
  BY <1>1, Tipo_Programa DEF Inv1, TypeOK
<1>3. pc[Proceso] + 1 \in DOMAIN programa[Proceso]
  BY <1>1, <1>2
<1>4. programa[Proceso] \in Programas
  BY <1>1, <1>3, <1>2 DEF Inv1, TypeOK
<1> QED BY <1>1, <1>3, <1>4 DEF SinCreate, Siguiente

(* The branches of the switch of execute_pcb up to the common ends.        *)
LEMMA Ficha_Instrucciones ==
  ASSUME SinCreate, Inv1, Inv2, Instrucciones PROVE Inv2'
<1>0. TypeOK
  BY DEF Inv1
<1>1. CASE Yield \/ Termina \/ Io \/ WaitInexistente \/ WaitConcede \/ Signal
           \/ Open \/ Close \/ Seek \/ PideFs
  <2>1. \E op, a : /\ Responde(op, a)
                   /\ a \in {"pushReady", "estadoEnExit", "ubica", "pushExecute",
                             "pushSignal", "esperaFs"}
    BY <1>1 DEF Yield, Termina, Io, WaitInexistente, WaitConcede, Signal, Open, Close,
       Seek, PideFs
  <2> QED BY <2>1, Ficha_Responde DEF Publicando
<1>2. CASE SignalSinWait
  <2>1. CASE Responde("SIGNAL", "estadoEnExit")
    BY <2>1, Ficha_Responde DEF Publicando
  <2>2. CASE RespondeYCae("SIGNAL", "resultadoWait")
    BY <2>2, Ficha_Cae DEF RespondeYCae
  <2> QED BY <1>2, <2>1, <2>2 DEF SignalSinWait
<1>3. CASE WaitAgotado \/ DeleteSegment \/ MovInvalido \/ PredicadoCae
           \/ CloseInexistente \/ NoAbierto
  <2>1. \E op, m : RespondeYCae(op, m)
    BY <1>3 DEF WaitAgotado, DeleteSegment, MovInvalido, PredicadoCae,
       CloseInexistente, NoAbierto
  <2> QED BY <2>1, Ficha_Cae DEF RespondeYCae
<1>4. CASE CreateSegment
  BY <1>4, SinCreate_Responde DEF CreateSegment
<1>5. CASE SegmentoCreado \/ EmpiezaCompactacion
  BY <1>5, Ficha_Cae DEF SegmentoCreado, EmpiezaCompactacion, PasoPostea, Va, Inv2
<1>6. CASE FallaCompactacion
  BY <1>6, Ficha_Cae DEF FallaCompactacion
<1>7. CASE CreaArchivo
  BY <1>7, Quieto DEF CreaArchivo, Inv2, DeSem, DeListas, DeC, DeE, DeLU, SLibre,
     SExecute, SReady, LReady, LExecute, CFicha, CListo, CPost, EEspera, ECuenta,
     PubL, PubE, PubU, En
<1>8. CASE ArchivoAbierto
  <2>1. Va("E", "esperaFs", "pushExecute") /\ UNCHANGED <<DeSem, DeListas>>
    BY <1>8 DEF ArchivoAbierto, DeSem, DeListas, SLibre, SExecute, SReady, LReady,
       LExecute
  <2> QED BY <1>0, <2>1, Quieto_E DEF Publicando
<1>9. CASE EstadoEnExit
  <2>1. /\ Va("E", "estadoEnExit", "pushExit") \/ Va("E", "pushExit", "enExit")
        /\ cola' = cola \/ Agrega("exit", Proceso)
        /\ sem' = sem
    BY <1>9 DEF EstadoEnExit, Va
  <2>2. UNCHANGED <<DeSem, DeListas>>
    BY <1>0, <2>1, Largo_Agrega DEF Listas, DeSem, DeListas, SLibre, SExecute, SReady,
       LReady, LExecute
  <2> QED BY <1>0, <2>1, <2>2, Quieto_E DEF Publicando
<1>10. CASE PushSignal
  <2>1. LExecute' = LExecute + 1 /\ LReady' = LReady /\ UNCHANGED DeSem
    BY <1>0, <1>10, Largo_Agrega DEF PushSignal, LReady, LExecute, Listas, DeSem, SLibre,
       SExecute, SReady
  <2>2. UNCHANGED <<DeC, DeE, DeLU>> /\ en'["E"] # "memoria"
    BY <1>0, <1>10, Mueve_E DEF PushSignal, DeE, Publicando
  <2>3. Conteo'
    BY <1>0, <2>1, <2>2, Ficha_Naturales, Ficha_CuentasPrima, Ficha_Conteo
       DEF Conteo, DeSem, DeC, DeE, DeLU
  <2> QED BY <2>2, <2>3, Ficha_ConteoPrima
<1> QED BY <1>1, <1>2, <1>3, <1>4, <1>5, <1>6, <1>7, <1>8, <1>9, <1>10 DEF Instrucciones

(* A step that only writes BLOCKED.                                        *)
LEMMA Ficha_Blocked ==
  ASSUME Inv1, Inv2, NEW h \in {"E", "U"}, Ubica \/ Enlaza \/ SacaBlocked(h)
  PROVE  Inv2'
<1>0. TypeOK
  BY DEF Inv1
<1>1. CASE \E m \in Motivos : Cae(m)
  BY <1>1, Ficha_Cae
<1>2. CASE ~(\E m \in Motivos : Cae(m))
  <2>1. /\ sem' = sem /\ \A l \in Listas \ {"blocked"} : cola'[l] = cola[l]
        /\ \/ Va("E", "ubica", "enlaza")
           \/ Va(h, "sacaBlocked", "indice") \/ Va(h, "indice", "quita")
           \/ Va(h, "indice", "pushReady") \/ Va(h, "quita", "pushReady")
           \/ /\ en["E"] = "enlaza"
              /\ \/ en' = [en EXCEPT !["E"] = "esperaIo", !["S"] = "duerme"]
                 \/ en' = [en EXCEPT !["E"] = "postEnvio"]
    BY <1>0, <1>2, Pasos_Blocked
  <2>2. UNCHANGED <<DeSem, DeListas>>
    BY <2>1 DEF Listas, DeSem, DeListas, SLibre, SExecute, SReady, LReady, LExecute
  <2>3. CASE \/ Va("E", "ubica", "enlaza")
             \/ Va("E", "sacaBlocked", "indice") \/ Va("E", "indice", "quita")
             \/ Va("E", "indice", "pushReady") \/ Va("E", "quita", "pushReady")
    BY <1>0, <2>2, <2>3, Quieto_E DEF Publicando
  <2>4. CASE \/ Va("U", "sacaBlocked", "indice") \/ Va("U", "indice", "quita")
             \/ Va("U", "indice", "pushReady") \/ Va("U", "quita", "pushReady")
    BY <1>0, <2>2, <2>4, Quieto_LU DEF Publicando
  <2>5. CASE /\ en["E"] = "enlaza"
             /\ \/ en' = [en EXCEPT !["E"] = "esperaIo", !["S"] = "duerme"]
                \/ en' = [en EXCEPT !["E"] = "postEnvio"]
    <3>1. en'["E"] \in {"esperaIo", "postEnvio"} /\ \A k \in {"L", "C", "U"} : en'[k] = en[k]
      BY <1>0, <2>5 DEF TypeOK, Hilos
    <3>2. UNCHANGED <<DeC, DeE, DeLU>>
      BY <2>5, <3>1 DEF DeC, DeE, DeLU, CFicha, CListo, CPost, EEspera, ECuenta, PubL,
         PubE, PubU, En, Publicando
    <3> QED BY <2>2, <3>1, <3>2, Quieto
  <2> QED BY <2>1, <2>3, <2>4, <2>5
<1> QED BY <1>1, <1>2

(* execute_pcb takes the token from e_execute and gives it back once.      *)
LEMMA Ficha_ExecutePcb ==
  ASSUME SinCreate, Inv1, Inv2, ExecutePcb PROVE Inv2'
<1>0. TypeOK
  BY DEF Inv1
<1>1. CASE PasoEspera("E", "espera", "execute", "saca")
  <2>1. /\ SExecute' = SExecute - 1 /\ UNCHANGED <<SLibre, SReady, DeListas>>
        /\ Va("E", "espera", "saca")
    BY <1>0, <1>1 DEF PasoEspera, Espera, TypeOK, Semaforos, SLibre, SExecute, SReady,
       DeListas, LReady, LExecute
  <2>2. /\ UNCHANGED <<DeC, DeLU, PubE>> /\ en'["E"] # "memoria"
        /\ EEspera = 1 /\ EEspera' = 0 /\ ECuenta = 0 /\ ECuenta' = 1
    BY <1>0, <2>1, Mueve_E DEF Publicando
  <2>3. Conteo'
    BY <1>0, <2>1, <2>2, Ficha_Naturales, Ficha_CuentasPrima, Ficha_Conteo
       DEF Conteo, DeListas, DeLU, DeC
  <2> QED BY <2>2, <2>3, Ficha_ConteoPrima
<1>2. CASE PasoSaca("E", "execute", "cpu")
  <2>1. CASE cola["execute"] = << >>
    BY <1>2, <2>1, Ficha_Cae DEF PasoSaca
  <2>2. CASE cola["execute"] # << >>
    <3>1. Va("E", "saca", "cpu") /\ Saca("execute") /\ sem' = sem
      BY <1>2, <2>2 DEF PasoSaca
    <3>2. LExecute' = LExecute - 1 /\ UNCHANGED <<DeSem, LReady>>
      BY <1>0, <3>1, <2>2, Largo_Saca DEF Listas, DeSem, SLibre, SExecute, SReady,
         LReady, LExecute
    <3>3. /\ UNCHANGED <<DeC, DeLU, PubE, EEspera>> /\ en'["E"] # "memoria"
          /\ ECuenta = 1 /\ ECuenta' = 0
      BY <1>0, <3>1, Mueve_E DEF Publicando
    <3>4. Conteo'
      BY <1>0, <3>2, <3>3, Ficha_Naturales, Ficha_CuentasPrima, Ficha_Conteo
         DEF Conteo, DeSem, DeLU, DeC
    <3> QED BY <3>3, <3>4, Ficha_ConteoPrima
  <2> QED BY <2>1, <2>2
<1>3. CASE Instrucciones
  BY <1>3, Ficha_Instrucciones
<1>4. CASE Ubica \/ Enlaza \/ SacaBlocked("E")
  BY <1>4, Ficha_Blocked
<1>5. CASE PasoEspera("E", "esperaIo", "io", "sacaBlocked")
  <2>1. UNCHANGED <<DeSem, DeListas>> /\ Va("E", "esperaIo", "sacaBlocked")
    BY <1>0, <1>5 DEF PasoEspera, Espera, TypeOK, Semaforos, DeSem, DeListas, SLibre,
       SExecute, SReady, LReady, LExecute
  <2> QED BY <1>0, <2>1, Quieto_E DEF Publicando
<1>6. CASE PasaAReady("E") \/ SigueEnExecute("E")
  BY <1>6, Ficha_PasaAReady, Ficha_SigueEnExecute
<1>7. CASE PasoPostea("E", "postEnvio", "envio", "libera")
  <2>1. UNCHANGED <<DeSem, DeListas>> /\ Va("E", "postEnvio", "libera")
    BY <1>0, <1>7 DEF PasoPostea, Postea, TypeOK, Semaforos, DeSem, DeListas, SLibre,
       SExecute, SReady, LReady, LExecute
  <2> QED BY <1>0, <2>1, Quieto_E DEF Publicando
<1>8. CASE PasoPostea("E", "libera", "libre", "espera")
  <2>1. /\ SLibre' = SLibre + 1 /\ UNCHANGED <<SExecute, SReady, DeListas>>
        /\ Va("E", "libera", "espera")
    BY <1>0, <1>8 DEF PasoPostea, Postea, TypeOK, Semaforos, SLibre, SExecute, SReady,
       DeListas, LReady, LExecute
  <2>2. /\ UNCHANGED <<DeC, DeLU, PubE, ECuenta>> /\ en'["E"] # "memoria"
        /\ EEspera = 0 /\ EEspera' = 1
    BY <1>0, <2>1, Mueve_E DEF Publicando
  <2>3. Conteo'
    BY <1>0, <2>1, <2>2, Ficha_Naturales, Ficha_CuentasPrima, Ficha_Conteo
       DEF Conteo, DeListas, DeLU, DeC
  <2> QED BY <2>2, <2>3, Ficha_ConteoPrima
<1> QED BY <1>1, <1>2, <1>3, <1>4, <1>5, <1>6, <1>7, <1>8 DEF ExecutePcb

(* sleepHilo.                                                              *)
LEMMA Ficha_SleepHilo ==
  ASSUME Inv1, Inv2, SleepHilo PROVE Inv2'
<1>1. UNCHANGED <<DeSem, DeListas>> /\ Va("S", "duerme", "inactivo")
  BY DEF SleepHilo, PasoPostea, Postea, Inv1, TypeOK, Semaforos, DeSem, DeListas,
     SLibre, SExecute, SReady, LReady, LExecute
<1>2. UNCHANGED <<DeC, DeE, DeLU>> /\ en'["E"] = en["E"]
  BY <1>1, Mueve_SF DEF Inv1
<1> QED BY <1>1, <1>2, Quieto DEF Inv2

(* unblocked_pcb_after_fs.                                                 *)
LEMMA Ficha_DesbloqueoFs ==
  ASSUME Inv1, Inv2, DesbloqueoFs PROVE Inv2'
<1>0. TypeOK
  BY DEF Inv1
<1>1. CASE RecibePid
  <2>1. Va("U", "espera", "envio") /\ UNCHANGED <<DeSem, DeListas>>
    BY <1>1 DEF RecibePid, DeSem, DeListas, SLibre, SExecute, SReady, LReady, LExecute
  <2> QED BY <1>0, <2>1, Quieto_LU DEF Publicando
<1>2. CASE PasoEspera("U", "envio", "envio", "sacaBlocked")
  <2>1. UNCHANGED <<DeSem, DeListas>> /\ Va("U", "envio", "sacaBlocked")
    BY <1>0, <1>2 DEF PasoEspera, Espera, TypeOK, Semaforos, DeSem, DeListas, SLibre,
       SExecute, SReady, LReady, LExecute
  <2> QED BY <1>0, <2>1, Quieto_LU DEF Publicando
<1>3. CASE SacaBlocked("U")
  BY <1>3, Ficha_Blocked
<1>4. CASE PasaAReady("U")
  BY <1>4, Ficha_PasaAReady
<1>5. CASE FsCerrado
  BY <1>5, Ficha_Cae DEF FsCerrado
<1> QED BY <1>1, <1>2, <1>3, <1>4, <1>5 DEF DesbloqueoFs

(* atenderKernel of the filesystem.                                        *)
LEMMA Ficha_AtenderKernel ==
  ASSUME Inv1, Inv2, AtenderKernel PROVE Inv2'
<1>1. UNCHANGED <<sem, cola>> /\ (en' = en \/ Va("F", "espera", "muerto"))
  BY DEF AtenderKernel, FsResponde, FsMuere
<1>2. UNCHANGED <<DeSem, DeListas>>
  BY <1>1 DEF DeSem, DeListas, SLibre, SExecute, SReady, LReady, LExecute
<1>3. UNCHANGED <<DeC, DeE, DeLU>> /\ en'["E"] = en["E"]
  <2>1. CASE en' = en
    BY <2>1 DEF DeC, DeE, DeLU, CFicha, CListo, CPost, EEspera, ECuenta, PubL, PubE,
       PubU, En
  <2>2. CASE Va("F", "espera", "muerto")
    BY <2>2, Mueve_SF DEF Inv1
  <2> QED BY <1>1, <2>1, <2>2
<1> QED BY <1>2, <1>3, Quieto DEF Inv2

(* Every step keeps the counts.                                            *)
LEMMA Ficha_Paso ==
  ASSUME SinCreate, Inv1, Inv2, [Next]_vars PROVE Inv2'
<1>1. CASE Consola \/ LargoPlazo \/ CortoPlazo \/ ExecutePcb
  BY <1>1, Ficha_Consola, Ficha_LargoPlazo, Ficha_CortoPlazo, Ficha_ExecutePcb
<1>2. CASE SleepHilo \/ DesbloqueoFs \/ AtenderKernel
  BY <1>2, Ficha_SleepHilo, Ficha_DesbloqueoFs, Ficha_AtenderKernel
<1>3. CASE UNCHANGED vars
  BY <1>3, Quieto DEF vars, Inv2, DeSem, DeListas, DeC, DeE, DeLU, SLibre, SExecute,
     SReady, LReady, LExecute, CFicha, CListo, CPost, EEspera, ECuenta, PubL, PubE,
     PubU, En
<1> QED BY <1>1, <1>2, <1>3 DEF Next

(* The counts hold in every state of every behaviour.                      *)
LEMMA Inv2Invariante == ASSUME SinCreate PROVE Spec => [](Inv1 /\ Inv2)
<1>1. Init => Inv2
  BY Ficha_Init
<1>2. Inv1 /\ Inv2 /\ [Next]_vars => Inv2'
  BY Ficha_Paso
<1> QED BY <1>1, <1>2, Inv1Invariante, PTL DEF Spec

(* The cpu token is never lost nor doubled: at most one process is         *)
(* dispatched, and every branch of execute_pcb gives the cpu back exactly  *)
(* once, for any programs without CREATE_SEGMENT.                          *)
THEOREM FichaUnica == ASSUME SinCreate PROVE Spec => []FichaUnicaDeCpu
<1>1. Inv1 /\ Inv2 => FichaUnicaDeCpu
  BY DEF Inv2
<1> QED BY <1>1, Inv2Invariante, PTL

-----------------------------------------------------------------------------
(* READY against its semaphore.                                            *)

(* The numbers of ReadyContada.                                            *)
LEMMA Listo_Numeros ==
  /\ ReadyContada <=> LReady >= SReady + CListo + PubL + PubE + PubU
  /\ ReadyContada' <=> LReady' >= SReady' + CListo' + PubL' + PubE' + PubU'
  BY DEF ReadyContada, LReady, SReady, CListo, PubL, PubE, PubU

(* What the move of a thread does to those that count labels.              *)
LEMMA Listo_Mueve ==
  ASSUME TypeOK, NEW h \in Hilos, NEW de, NEW a, Va(h, de, a)
  PROVE  /\ h # "C" => CListo' = CListo
         /\ h = "C" => /\ CListo = (IF de \in {"libre", "saca"} THEN 1 ELSE 0)
                       /\ CListo' = (IF a \in {"libre", "saca"} THEN 1 ELSE 0)
         /\ h \notin {"L", "E", "U"} => UNCHANGED <<PubL, PubE, PubU>>
         /\ h \in {"L", "E", "U"} =>
              PubL' + PubE' + PubU' = PubL + PubE + PubU
                - (IF de \in Publicando THEN 1 ELSE 0)
                + (IF a \in Publicando THEN 1 ELSE 0)
<1>1. CASE h = "C"
  BY <1>1, Mueve_C DEF DeE, DeLU
<1>2. CASE h = "E"
  BY <1>2, Mueve_E, Ficha_Naturales, Ficha_CuentasPrima DEF DeC, DeLU
<1>3. CASE h \in {"L", "U"}
  BY <1>3, Mueve_LU, Ficha_Naturales, Ficha_CuentasPrima DEF DeC, DeE
<1>4. CASE h \in {"S", "F"}
  BY <1>4, Mueve_SF DEF DeC, DeE, DeLU
<1> QED BY <1>1, <1>2, <1>3, <1>4 DEF Hilos

(* A step that moves none of the numbers.                                  *)
LEMMA Listo_Quieto ==
  ASSUME ReadyContada, UNCHANGED <<cola["ready"], sem["ready"], en>>
  PROVE  ReadyContada'
  BY DEF ReadyContada, En

(* A thread moves, neither to nor from the labels that count.              *)
LEMMA Listo_Va ==
  ASSUME Inv1, ReadyContada, NEW h \in Hilos, NEW de, NEW a, Va(h, de, a),
         h = "C" => (de \in {"libre", "saca"} <=> a \in {"libre", "saca"}),
         h \in {"L", "E", "U"} => (de \in Publicando <=> a \in Publicando),
         cola'["ready"] = cola["ready"], sem'["ready"] = sem["ready"]
  PROVE  ReadyContada'
<1>0. TypeOK
  BY DEF Inv1
<1>1. LReady' = LReady /\ SReady' = SReady
  BY DEF LReady, SReady
<1>2. CListo' = CListo
  BY <1>0, Listo_Mueve
<1>3. PubL' + PubE' + PubU' = PubL + PubE + PubU
  BY <1>0, Listo_Mueve, Ficha_Naturales
<1> QED BY <1>0, <1>1, <1>2, <1>3, Listo_Numeros, Ficha_Naturales, Ficha_CuentasPrima

(* The semaphores other than that of READY.                                *)
LEMMA Listo_Semaforo ==
  ASSUME Inv1, ReadyContada, NEW h \in Hilos, NEW de, NEW a,
         NEW s \in Semaforos \ {"ready"},
         PasoEspera(h, de, s, a) \/ PasoPostea(h, de, s, a),
         h = "C" => (de \in {"libre", "saca"} <=> a \in {"libre", "saca"}),
         h \in {"L", "E", "U"} => (de \in Publicando <=> a \in Publicando)
  PROVE  ReadyContada'
<1>1. Va(h, de, a) /\ cola' = cola /\ sem'["ready"] = sem["ready"]
  BY DEF PasoEspera, PasoPostea, Espera, Postea, Inv1, TypeOK, Semaforos
<1> QED BY <1>1, Listo_Va

(* The death of the kernel.                                                *)
LEMMA Listo_Cae == ASSUME ReadyContada, NEW m, Cae(m) PROVE ReadyContada'
  BY Listo_Quieto DEF Cae

(* push_pcb_estado(e_ready, ...) comes before the sem_post of e_ready.     *)
LEMMA Listo_PasaAReady ==
  ASSUME Inv1, ReadyContada, NEW h \in {"L", "E", "U"}, PasaAReady(h)
  PROVE  ReadyContada'
<1>0. TypeOK /\ h \in Hilos
  BY DEF Inv1, Hilos
<1>a. LReady >= SReady + CListo + PubL + PubE + PubU
  BY Listo_Numeros
<1>1. CASE PushReady(h)
  <2>1. LReady' = LReady + 1 /\ SReady' = SReady /\ Va(h, "pushReady", "cuenta")
    BY <1>0, <1>1, Largo_Agrega DEF PushReady, LReady, SReady, Listas
  <2>2. CListo' = CListo /\ PubL' + PubE' + PubU' = PubL + PubE + PubU + 1
    BY <1>0, <2>1, Listo_Mueve, Ficha_Naturales DEF Publicando
  <2> QED BY <1>0, <1>a, <2>1, <2>2, Listo_Numeros, Ficha_Naturales, Ficha_CuentasPrima
<1>2. CASE LogReadyCuenta(h) \/ LogReadyRecorre(h)
  <2>1. CASE Cae("logReady")
    BY <2>1, Listo_Cae
  <2>2. CASE /\ Va(h, "cuenta", "lista") \/ Va(h, "lista", "postReady")
             /\ UNCHANGED <<sem, cola>>
    BY <1>0, <2>2, Listo_Va DEF Publicando
  <2> QED BY <1>2, <2>1, <2>2 DEF LogReadyCuenta, LogReadyRecorre
<1>3. CASE PostReady(h)
  <2>1. /\ LReady' = LReady /\ SReady' = SReady + 1
        /\ Va(h, "postReady", IF h = "E" THEN "libera" ELSE "espera")
    BY <1>0, <1>3 DEF PostReady, PasoPostea, Postea, LReady, SReady, TypeOK, Semaforos
  <2>2. CListo' = CListo /\ PubL' + PubE' + PubU' = PubL + PubE + PubU - 1
    BY <1>0, <2>1, Listo_Mueve, Ficha_Naturales DEF Publicando
  <2> QED BY <1>0, <1>a, <2>1, <2>2, Listo_Numeros, Ficha_Naturales, Ficha_CuentasPrima
<1> QED BY <1>1, <1>2, <1>3 DEF PasaAReady

(* push_pcb_estado(e_execute, ...).                                        *)
LEMMA Listo_SigueEnExecute ==
  ASSUME Inv1, ReadyContada, NEW h \in {"C", "E"}, SigueEnExecute(h)
  PROVE  ReadyContada'
<1>0. TypeOK /\ h \in Hilos
  BY DEF Inv1, Hilos
<1>1. CASE PushExecute(h)
  <2>1. /\ Va(h, "pushExecute", "postExecute") /\ sem' = sem
        /\ cola'["ready"] = cola["ready"]
    BY <1>0, <1>1, Largo_Agrega DEF PushExecute, Listas
  <2> QED BY <1>0, <2>1, Listo_Va DEF Publicando
<1>2. CASE PasoPostea(h, "postExecute", "execute", "espera")
  BY <1>0, <1>2, Listo_Semaforo DEF Semaforos, Publicando
<1> QED BY <1>1, <1>2 DEF SigueEnExecute

(* planificador_corto_plazo takes a unit of e_ready and then a process.    *)
LEMMA Listo_CortoPlazo == ASSUME Inv1, ReadyContada, CortoPlazo PROVE ReadyContada'
<1>0. "C" \in Hilos /\ TypeOK
  BY DEF Hilos, Inv1
<1>a. LReady >= SReady + CListo + PubL + PubE + PubU
  BY Listo_Numeros
<1>1. CASE PasoEspera("C", "espera", "ready", "libre")
  <2>1. LReady' = LReady /\ SReady' = SReady - 1 /\ Va("C", "espera", "libre")
    BY <1>0, <1>1 DEF PasoEspera, Espera, TypeOK, Semaforos, SReady, LReady
  <2>2. CListo = 0 /\ CListo' = 1 /\ UNCHANGED <<PubL, PubE, PubU>>
    BY <1>0, <2>1, Listo_Mueve
  <2> QED BY <1>0, <1>a, <2>1, <2>2, Listo_Numeros, Ficha_Naturales
<1>2. CASE PasoEspera("C", "libre", "libre", "saca")
  BY <1>0, <1>2, Listo_Semaforo DEF Semaforos
<1>3. ASSUME Va("C", "saca", "pushExecute"), SReady' = SReady,
             LReady' = LReady \/ LReady' = LReady - 1
      PROVE  ReadyContada'
  <2>1. CListo = 1 /\ CListo' = 0 /\ UNCHANGED <<PubL, PubE, PubU>>
    BY <1>0, <1>3, Listo_Mueve
  <2> QED BY <1>0, <1>a, <1>3, <2>1, Listo_Numeros, Ficha_Naturales
<1>4. CASE SacaHrrn
  BY <1>3, <1>4 DEF SacaHrrn, SReady, LReady
<1>5. CASE PasoSaca("C", "ready", "pushExecute")
  <2>1. CASE cola["ready"] = << >>
    BY <1>5, <2>1, Listo_Cae DEF PasoSaca
  <2>2. CASE cola["ready"] # << >>
    <3>1. Va("C", "saca", "pushExecute") /\ Saca("ready") /\ SReady' = SReady
      BY <1>5, <2>2 DEF PasoSaca, SReady
    <3>2. LReady' = LReady - 1
      BY <1>0, <3>1, <2>2, Largo_Saca DEF Listas, LReady
    <3> QED BY <1>3, <3>1, <3>2
  <2> QED BY <2>1, <2>2
<1>6. CASE SigueEnExecute("C")
  BY <1>6, Listo_SigueEnExecute
<1> QED BY <1>1, <1>2, <1>4, <1>5, <1>6 DEF CortoPlazo, SacaReady

(* The branches of the switch of execute_pcb.                              *)
LEMMA Listo_Instrucciones ==
  ASSUME Inv1, ReadyContada, Instrucciones PROVE ReadyContada'
<1>0. "E" \in Hilos /\ TypeOK
  BY DEF Hilos, Inv1
<1>1. CASE \E m : Cae(m)
  BY <1>1, Listo_Cae
<1>2. ASSUME NEW de, NEW a, Va("E", de, a), sem' = sem, cola'["ready"] = cola["ready"],
             de \notin Publicando, a \notin Publicando
      PROVE  ReadyContada'
  BY <1>0, <1>2, Listo_Va
<1>3. ASSUME NEW op, NEW a, Responde(op, a), a \notin Publicando PROVE ReadyContada'
  BY <1>2, <1>3 DEF Responde, Publicando
<1>4. CASE \/ Yield \/ Termina \/ Io \/ WaitInexistente \/ WaitConcede \/ Signal
           \/ Open \/ Close \/ Seek \/ PideFs \/ CreateSegment
  <2>1. \E op, a : /\ Responde(op, a)
                   /\ a \in {"pushReady", "estadoEnExit", "ubica", "pushExecute",
                             "pushSignal", "esperaFs", "memoria"}
    <3>1. CASE CreateSegment
      BY <3>1 DEF CreateSegment
    <3>2. CASE ~CreateSegment
      BY <1>4, <3>2 DEF Yield, Termina, Io, WaitInexistente, WaitConcede, Signal, Open,
         Close, Seek, PideFs
    <3> QED BY <3>1, <3>2
  <2> QED BY <1>3, <2>1 DEF Publicando
<1>5. CASE \/ WaitAgotado \/ SignalSinWait \/ DeleteSegment \/ MovInvalido
           \/ PredicadoCae \/ CloseInexistente \/ NoAbierto \/ FallaCompactacion
  <2>1. (\E m : Cae(m)) \/ Responde("SIGNAL", "estadoEnExit")
    BY <1>5 DEF WaitAgotado, SignalSinWait, DeleteSegment, MovInvalido, PredicadoCae,
       CloseInexistente, NoAbierto, FallaCompactacion, RespondeYCae
  <2> QED BY <1>1, <1>3, <2>1 DEF Publicando
<1>6. CASE SegmentoCreado
  BY <1>0, <1>1, <1>6, Listo_Semaforo DEF SegmentoCreado, Semaforos, Publicando
<1>7. CASE EmpiezaCompactacion \/ ArchivoAbierto
  BY <1>2, <1>7 DEF EmpiezaCompactacion, ArchivoAbierto, Publicando
<1>8. CASE EstadoEnExit \/ PushSignal
  <2>1. cola' = cola \/ Agrega("exit", Proceso) \/ Agrega("execute", Proceso)
    BY <1>8 DEF EstadoEnExit, PushSignal
  <2>2. cola'["ready"] = cola["ready"]
    BY <1>0, <2>1, Largo_Agrega DEF Listas
  <2>3. /\ \/ Va("E", "estadoEnExit", "pushExit") \/ Va("E", "pushExit", "enExit")
           \/ Va("E", "pushSignal", "pushExecute")
        /\ sem' = sem
    BY <1>8 DEF EstadoEnExit, PushSignal, Va
  <2> QED BY <1>2, <2>2, <2>3 DEF Publicando
<1>9. CASE CreaArchivo
  BY <1>9, Listo_Quieto DEF CreaArchivo
<1> QED BY <1>4, <1>5, <1>6, <1>7, <1>8, <1>9 DEF Instrucciones

(* list_add on BLOCKED and pop_blocked.                                    *)
LEMMA Listo_Blocked ==
  ASSUME Inv1, ReadyContada, NEW h \in {"E", "U"}, Ubica \/ Enlaza \/ SacaBlocked(h)
  PROVE  ReadyContada'
<1>1. CASE \E m \in Motivos : Cae(m)
  BY <1>1, Listo_Cae
<1>2. CASE ~(\E m \in Motivos : Cae(m))
  <2>0. TypeOK /\ {"E", "S", "U"} \subseteq Hilos
    BY DEF Inv1, Hilos
  <2>1. /\ sem' = sem /\ cola'["ready"] = cola["ready"]
        /\ \/ Va("E", "ubica", "enlaza")
           \/ Va(h, "sacaBlocked", "indice") \/ Va(h, "indice", "quita")
           \/ Va(h, "indice", "pushReady") \/ Va(h, "quita", "pushReady")
           \/ /\ en["E"] = "enlaza"
              /\ \/ en' = [en EXCEPT !["E"] = "esperaIo", !["S"] = "duerme"]
                 \/ en' = [en EXCEPT !["E"] = "postEnvio"]
    BY <1>2, <2>0, Pasos_Blocked DEF Listas
  <2>2. CASE en["E"] = "enlaza"
             /\ \/ en' = [en EXCEPT !["E"] = "esperaIo", !["S"] = "duerme"]
                \/ en' = [en EXCEPT !["E"] = "postEnvio"]
    <3>1. en'["E"] \in {"esperaIo", "postEnvio"} /\ \A k \in {"L", "C", "U"} : en'[k] = en[k]
      BY <2>0, <2>2 DEF TypeOK, Hilos
    <3>2. UNCHANGED <<LReady, SReady, CListo, PubL, PubE, PubU>>
      BY <2>1, <2>2, <3>1 DEF LReady, SReady, CListo, PubL, PubE, PubU, En, Publicando
    <3> QED BY <3>2, Listo_Numeros
  <2>3. CASE Va("E", "ubica", "enlaza")
    BY <2>0, <2>1, <2>3, Listo_Va DEF Publicando
  <2>4. CASE \/ Va(h, "sacaBlocked", "indice") \/ Va(h, "indice", "quita")
             \/ Va(h, "indice", "pushReady") \/ Va(h, "quita", "pushReady")
    BY <2>0, <2>1, <2>4, Listo_Va DEF Publicando
  <2> QED BY <2>1, <2>2, <2>3, <2>4
<1> QED BY <1>1, <1>2

(* execute_pcb.                                                            *)
LEMMA Listo_ExecutePcb == ASSUME Inv1, ReadyContada, ExecutePcb PROVE ReadyContada'
<1>0. "E" \in Hilos /\ TypeOK
  BY DEF Hilos, Inv1
<1>1. CASE \/ PasoEspera("E", "espera", "execute", "saca")
           \/ PasoEspera("E", "esperaIo", "io", "sacaBlocked")
           \/ PasoPostea("E", "postEnvio", "envio", "libera")
           \/ PasoPostea("E", "libera", "libre", "espera")
  BY <1>0, <1>1, Listo_Semaforo DEF Semaforos, Publicando
<1>2. CASE PasoSaca("E", "execute", "cpu")
  <2>1. CASE cola["execute"] = << >>
    BY <1>2, <2>1, Listo_Cae DEF PasoSaca
  <2>2. CASE cola["execute"] # << >>
    <3>1. Va("E", "saca", "cpu") /\ Saca("execute") /\ sem' = sem
      BY <1>2, <2>2 DEF PasoSaca
    <3>2. cola'["ready"] = cola["ready"]
      BY <1>0, <2>2, <3>1, Largo_Saca DEF Listas
    <3> QED BY <1>0, <3>1, <3>2, Listo_Va DEF Publicando
  <2> QED BY <2>1, <2>2
<1>3. CASE Instrucciones \/ PasaAReady("E") \/ SigueEnExecute("E")
  BY <1>3, Listo_Instrucciones, Listo_PasaAReady, Listo_SigueEnExecute
<1>4. CASE Ubica \/ Enlaza \/ SacaBlocked("E")
  BY <1>4, Listo_Blocked
<1> QED BY <1>1, <1>2, <1>3, <1>4 DEF ExecutePcb

(* The other threads.                                                      *)
LEMMA Listo_Demas ==
  ASSUME Inv1, ReadyContada,
         Consola \/ LargoPlazo \/ SleepHilo \/ DesbloqueoFs \/ AtenderKernel
  PROVE  ReadyContada'
<1>0. {"L", "U", "S", "F"} \subseteq Hilos /\ TypeOK
  BY DEF Hilos, Inv1
<1>1. CASE Consola
  BY <1>0, <1>1, Listo_Quieto DEF Consola, NuevoProceso, PushNew, PostNuevos, Agrega,
     Postea, TypeOK, Listas, Semaforos
<1>2. CASE \/ PasoEspera("L", "espera", "nuevos", "grado")
           \/ PasoEspera("L", "grado", "grado", "saca")
           \/ SleepHilo
           \/ PasoEspera("U", "envio", "envio", "sacaBlocked")
  BY <1>0, <1>2, Listo_Semaforo DEF SleepHilo, Semaforos, Publicando
<1>3. CASE PasoSaca("L", "new", "pushReady")
  <2>1. CASE cola["new"] = << >>
    BY <1>3, <2>1, Listo_Cae DEF PasoSaca
  <2>2. CASE cola["new"] # << >>
    <3>1. Va("L", "saca", "pushReady") /\ Saca("new") /\ sem' = sem
      BY <1>3, <2>2 DEF PasoSaca
    <3>2. cola'["ready"] = cola["ready"]
      BY <1>0, <2>2, <3>1, Largo_Saca DEF Listas
    <3> QED BY <1>0, <3>1, <3>2, Listo_Va DEF Publicando
  <2> QED BY <2>1, <2>2
<1>4. CASE PasaAReady("L") \/ PasaAReady("U")
  BY <1>4, Listo_PasaAReady
<1>5. CASE RecibePid \/ FsMuere
  BY <1>0, <1>5, Listo_Va DEF RecibePid, FsMuere, Publicando
<1>6. CASE FsResponde
  BY <1>6, Listo_Quieto DEF FsResponde
<1>7. CASE FsCerrado
  BY <1>7, Listo_Cae DEF FsCerrado
<1>8. CASE SacaBlocked("U")
  BY <1>8, Listo_Blocked
<1> QED BY <1>1, <1>2, <1>3, <1>4, <1>5, <1>6, <1>7, <1>8
       DEF LargoPlazo, DesbloqueoFs, AtenderKernel

(* READY holds what e_ready promises, whatever the programs do and         *)
(* whichever algorithm chooses.                                            *)
LEMMA ReadyInvariante == Spec => [](Inv1 /\ ReadyContada)
<1>1. Init => ReadyContada
  <2> SUFFICES ASSUME Init PROVE ReadyContada OBVIOUS
  <2>1. /\ sem["ready"] = 0 /\ Len(cola["ready"]) = 0
        /\ \A h \in {"L", "C", "E", "U"} : en[h] = "espera"
    BY DEF Init, Semaforos, Hilos, Listas
  <2> QED BY <2>1 DEF ReadyContada, En, Publicando
<1>2. Inv1 /\ ReadyContada /\ [Next]_vars => ReadyContada'
  <2> SUFFICES ASSUME Inv1, ReadyContada, [Next]_vars PROVE ReadyContada'
    OBVIOUS
  <2>1. CASE CortoPlazo \/ ExecutePcb
    BY <2>1, Listo_CortoPlazo, Listo_ExecutePcb
  <2>2. CASE Consola \/ LargoPlazo \/ SleepHilo \/ DesbloqueoFs \/ AtenderKernel
    BY <2>2, Listo_Demas
  <2>3. CASE UNCHANGED vars
    BY <2>3, Listo_Quieto DEF vars
  <2> QED BY <2>1, <2>2, <2>3 DEF Next
<1> QED BY <1>1, <1>2, Inv1Invariante, PTL DEF Spec

-----------------------------------------------------------------------------
(* The degree.                                                             *)

(* NEW has no process twice, and none whose console has not put it there;  *)
(* a pid not handed out yet has no thread.                                 *)
NewUnica == /\ \A i, j \in DOMAIN cola["new"] :
                 cola["new"][i] = cola["new"][j] => i = j
            /\ \A i \in DOMAIN cola["new"] : hilo[cola["new"][i]] \in {"enNew", "fin"}
            /\ \A p \in Pid : p >= nextPid => hilo[p] = "sinConexion"

(* grado_multiprogramacion counts down the admitted processes: nobody      *)
(* posts it.                                                               *)
GradoContado == sem["grado"] + En("L", {"saca"}) + Cardinality(Admitidos) = Grado

Inv3 == NewContada /\ NewUnica /\ GradoContado

(* The numbers of NewContada.                                              *)
NLargo   == Len(cola["new"])
NNuevos  == sem["nuevos"]
NPedido  == En("L", {"grado", "saca"})
NConsola == Cardinality(EnNew)

(* What Inv3 looks at.                                                     *)
DeNew == <<hilo, nextPid, cola["new"], sem["nuevos"], sem["grado"], en["L"]>>

(* A step that leaves all of it alone keeps the invariant.                 *)
LEMMA Grado_Quieto == ASSUME Inv3, UNCHANGED DeNew PROVE Inv3'
  BY DEF Inv3, DeNew, NewContada, NewUnica, GradoContado, En, EnNew, Admitidos,
     Pertenece

(* NewContada is the relation of the numbers.                              *)
LEMMA New_Numeros ==
  /\ NewContada <=> NLargo = NNuevos + NPedido + NConsola
  /\ NewContada' <=> NLargo' = NNuevos' + NPedido' + NConsola'
  /\ NPedido \in Nat
  BY DEF NewContada, NLargo, NNuevos, NPedido, NConsola, En

(* The processes are finitely many.                                        *)
LEMMA Pid_Finito ==
  /\ IsFiniteSet(Pid)
  /\ \A S \in SUBSET Pid : IsFiniteSet(S) /\ Cardinality(S) \in Nat
<1>1. IsFiniteSet(Pid)
  BY ParametrosAssumption, FS_Interval DEF Pid
<1> QED BY <1>1, FS_Subset, FS_CardinalityType

(* inicializar_planificador: NEW is empty and the degree whole.            *)
LEMMA Grado_Init == Init => Inv3
<1> SUFFICES ASSUME Init PROVE Inv3 OBVIOUS
<1>1. /\ sem["nuevos"] = 0 /\ sem["grado"] = Grado /\ en["L"] = "espera"
      /\ cola["new"] = << >> /\ \A p \in Pid : hilo[p] = "sinConexion"
  BY DEF Init, Semaforos, Hilos, Listas
<1>2. EnNew = {} /\ Admitidos = {} /\ Cardinality({}) = 0
  BY <1>1, FS_EmptySet DEF Admitidos, EnNew
<1>3. Len(cola["new"]) = 0 /\ DOMAIN cola["new"] = {}
  BY <1>1
<1>4. En("L", {"saca"}) = 0 /\ En("L", {"grado", "saca"}) = 0
  BY <1>1 DEF En
<1> QED BY <1>1, <1>2, <1>3, <1>4, ParametrosAssumption
        DEF Inv3, NewContada, NewUnica, GradoContado

(* nuevoProceso uses a pid whose thread has not begun.                     *)
LEMMA Grado_NuevoProceso ==
  ASSUME Inv1, Inv3, NEW s, NuevoProceso(s) PROVE Inv3'
<1>1. /\ nextPid \in Pid /\ nextPid' = nextPid + 1 /\ hilo[nextPid] = "sinConexion"
      /\ hilo' = [hilo EXCEPT ![nextPid] = "creado"]
      /\ UNCHANGED <<cola, sem, en>>
  BY DEF NuevoProceso, Inv3, NewUnica, Pid
<1>2. hilo \in [Pid -> {"sinConexion", "creado", "enNew", "fin"}] /\ cola["new"] \in Seq(Pid)
  BY DEF Inv1, TypeOK, Listas
<1>3. /\ EnNew' = EnNew /\ Admitidos' = Admitidos
  BY <1>1, <1>2 DEF EnNew, Admitidos
<1>4. NewUnica'
  <2>1. \A i \in DOMAIN cola["new"] : hilo'[cola["new"][i]] \in {"enNew", "fin"}
    BY <1>1, <1>2 DEF Inv3, NewUnica
  <2>2. \A p \in Pid : p >= nextPid' => hilo'[p] = "sinConexion"
    BY <1>1, <1>2 DEF Inv3, NewUnica, Pid
  <2> QED BY <1>1, <2>1, <2>2 DEF Inv3, NewUnica
<1> QED BY <1>1, <1>3, <1>4 DEF Inv3, NewContada, GradoContado, EnNew, En

(* push_new: the process is new to NEW, and not admitted yet.              *)
LEMMA Grado_PushNew ==
  ASSUME Inv1, Inv3, NEW p \in Pid, PushNew(p) PROVE Inv3'
<1>1. /\ hilo[p] = "creado" /\ hilo' = [hilo EXCEPT ![p] = "enNew"]
      /\ cola'["new"] = Append(cola["new"], p)
      /\ UNCHANGED <<nextPid, sem, en>>
  BY DEF PushNew, Agrega, Inv1, TypeOK, Listas
<1>2. /\ hilo \in [Pid -> {"sinConexion", "creado", "enNew", "fin"}]
      /\ cola["new"] \in Seq(Pid) /\ sem["nuevos"] \in Nat
  BY DEF Inv1, TypeOK, Listas, Semaforos
<1>3. EnNew' = EnNew \union {p} /\ p \notin EnNew
  BY <1>1, <1>2 DEF EnNew
<1>4. Cardinality(EnNew') = Cardinality(EnNew) + 1 /\ Cardinality(EnNew) \in Nat
  BY <1>3, Pid_Finito, FS_AddElement DEF EnNew
<1>5. /\ Len(cola'["new"]) = Len(cola["new"]) + 1
      /\ DOMAIN cola'["new"] = DOMAIN cola["new"] \union {Len(cola["new"]) + 1}
      /\ \A i \in DOMAIN cola["new"] : cola'["new"][i] = cola["new"][i]
      /\ cola'["new"][Len(cola["new"]) + 1] = p
      /\ Len(cola["new"]) + 1 \notin DOMAIN cola["new"]
  BY <1>1, <1>2, AppendProperties
<1>6. \A i \in DOMAIN cola["new"] : cola["new"][i] # p
  BY <1>1 DEF Inv3, NewUnica
<1>7. NewUnica'
  <2>1. \A i, j \in DOMAIN cola'["new"] : cola'["new"][i] = cola'["new"][j] => i = j
    BY <1>5, <1>6 DEF Inv3, NewUnica
  <2>2. \A i \in DOMAIN cola'["new"] : hilo'[cola'["new"][i]] \in {"enNew", "fin"}
    BY <1>1, <1>2, <1>5, <1>6 DEF Inv3, NewUnica
  <2>3. \A q \in Pid : q >= nextPid' => hilo'[q] = "sinConexion"
    BY <1>1, <1>2 DEF Inv3, NewUnica
  <2> QED BY <2>1, <2>2, <2>3 DEF NewUnica
<1>8. Admitidos' = Admitidos
  <2>1. \A q \in Pid \ {p} : hilo'[q] = hilo[q]
                             /\ (Pertenece(q, cola["new"])' <=> Pertenece(q, cola["new"]))
    BY <1>1, <1>2, <1>5 DEF Pertenece
  <2>2. hilo[p] \notin {"enNew", "fin"} /\ Pertenece(p, cola["new"])'
    BY <1>1, <1>5 DEF Pertenece
  <2> QED BY <2>1, <2>2 DEF Admitidos
<1>9. NewContada'
  <2>1. /\ NNuevos' = NNuevos /\ NLargo' = NLargo + 1 /\ NConsola' = NConsola + 1
        /\ NNuevos \in Nat /\ NConsola \in Nat /\ NPedido' = NPedido
    BY <1>1, <1>2, <1>4, <1>5 DEF NNuevos, NLargo, NConsola, NPedido, En
  <2> QED BY <2>1, New_Numeros DEF Inv3
<1> QED BY <1>1, <1>7, <1>8, <1>9 DEF Inv3, GradoContado, En

(* The sem_post of nuevosPcbsReady.                                        *)
LEMMA Grado_PostNuevos ==
  ASSUME Inv1, Inv3, NEW p \in Pid, PostNuevos(p) PROVE Inv3'
<1>1. /\ hilo[p] = "enNew" /\ hilo' = [hilo EXCEPT ![p] = "fin"]
      /\ sem'["nuevos"] = sem["nuevos"] + 1 /\ sem'["grado"] = sem["grado"]
      /\ UNCHANGED <<nextPid, cola, en>>
  BY DEF PostNuevos, Postea, Inv1, TypeOK, Semaforos
<1>2. /\ hilo \in [Pid -> {"sinConexion", "creado", "enNew", "fin"}]
      /\ cola["new"] \in Seq(Pid) /\ sem["nuevos"] \in Nat
  BY DEF Inv1, TypeOK, Listas, Semaforos
<1>3. EnNew' = EnNew \ {p} /\ p \in EnNew
  BY <1>1, <1>2 DEF EnNew
<1>4. Cardinality(EnNew') = Cardinality(EnNew) - 1 /\ Cardinality(EnNew) \in Nat
  BY <1>3, Pid_Finito, FS_RemoveElement DEF EnNew
<1>5. NewUnica' /\ Admitidos' = Admitidos
  BY <1>1, <1>2 DEF Inv3, NewUnica, Admitidos
<1>6. NewContada'
  <2>1. /\ NNuevos' = NNuevos + 1 /\ NLargo' = NLargo /\ NConsola' = NConsola - 1
        /\ NNuevos \in Nat /\ NConsola \in Nat /\ NPedido' = NPedido
    BY <1>1, <1>2, <1>4 DEF NNuevos, NLargo, NConsola, NPedido, En
  <2> QED BY <2>1, New_Numeros DEF Inv3
<1> QED BY <1>1, <1>5, <1>6 DEF Inv3, GradoContado, En

(* The death of the kernel moves nothing.                                  *)
LEMMA Grado_Cae == ASSUME Inv3, NEW m, Cae(m) PROVE Inv3'
  BY Grado_Quieto DEF Cae, DeNew, procesoVars

(* push_pcb_estado(e_ready, ...) leaves NEW alone.                         *)
LEMMA Grado_PasaAReady ==
  ASSUME Inv1, Inv3, NEW h \in {"L", "E", "U"}, PasaAReady(h) PROVE Inv3'
<1>1. CASE \E m : Cae(m)
  BY <1>1, Grado_Cae
<1>2. ASSUME NEW de, NEW a, Va(h, de, a), de \notin {"grado", "saca"},
             a \notin {"grado", "saca"}
      PROVE  En("L", {"saca"})' = En("L", {"saca"})
             /\ En("L", {"grado", "saca"})' = En("L", {"grado", "saca"})
  BY <1>2 DEF Va, En, Inv1, TypeOK, Hilos
<1>3. CASE ~\E m : Cae(m)
  <2>1. /\ UNCHANGED <<hilo, nextPid>> /\ cola'["new"] = cola["new"]
        /\ sem'["nuevos"] = sem["nuevos"] /\ sem'["grado"] = sem["grado"]
    BY <1>3 DEF PasaAReady, PushReady, LogReadyCuenta, LogReadyRecorre, PostReady,
       PasoPostea, Postea, Agrega, procesoVars, Inv1, TypeOK, Semaforos, Listas
  <2>2. \E de, a : /\ Va(h, de, a) /\ de \notin {"grado", "saca"}
                   /\ a \notin {"grado", "saca"}
    BY <1>3 DEF PasaAReady, PushReady, LogReadyCuenta, LogReadyRecorre, PostReady,
       PasoPostea
  <2>3. /\ En("L", {"saca"})' = En("L", {"saca"})
        /\ En("L", {"grado", "saca"})' = En("L", {"grado", "saca"})
    BY <1>2, <2>2
  <2> QED BY <2>1, <2>3 DEF Inv3, NewContada, NewUnica, GradoContado, EnNew,
                            Admitidos, Pertenece
<1> QED BY <1>1, <1>3

(* planificador_largo_plazo: one unit of the degree, one process out of    *)
(* NEW.                                                                    *)
LEMMA Grado_LargoPlazo == ASSUME Inv1, Inv3, LargoPlazo PROVE Inv3'
<1>0. sem["nuevos"] \in Nat /\ sem["grado"] \in Nat /\ cola["new"] \in Seq(Pid)
  BY DEF Inv1, TypeOK, Semaforos, Listas
<1>a. Cardinality(EnNew) \in Nat /\ Cardinality(Admitidos) \in Nat
  BY Pid_Finito DEF EnNew, Admitidos
<1>1. CASE PasoEspera("L", "espera", "nuevos", "grado")
  <2>1. /\ sem'["nuevos"] = sem["nuevos"] - 1 /\ sem'["grado"] = sem["grado"]
        /\ UNCHANGED <<hilo, nextPid, cola>> /\ en["L"] = "espera" /\ en'["L"] = "grado"
    BY <1>1 DEF PasoEspera, Espera, Va, procesoVars, Inv1, TypeOK, Semaforos, Hilos
  <2>2. UNCHANGED <<EnNew, Admitidos>> /\ NewUnica'
    BY <2>1 DEF EnNew, Admitidos, Inv3, NewUnica
  <2> QED BY <1>0, <1>a, <2>1, <2>2 DEF Inv3, NewContada, GradoContado, En, EnNew
<1>2. CASE PasoEspera("L", "grado", "grado", "saca")
  <2>1. /\ sem'["nuevos"] = sem["nuevos"] /\ sem'["grado"] = sem["grado"] - 1
        /\ UNCHANGED <<hilo, nextPid, cola>> /\ en["L"] = "grado" /\ en'["L"] = "saca"
    BY <1>2 DEF PasoEspera, Espera, Va, procesoVars, Inv1, TypeOK, Semaforos, Hilos
  <2>2. UNCHANGED <<EnNew, Admitidos>> /\ NewUnica'
    BY <2>1 DEF EnNew, Admitidos, Inv3, NewUnica
  <2> QED BY <1>0, <1>a, <2>1, <2>2 DEF Inv3, NewContada, GradoContado, En, EnNew
<1>3. CASE PasoSaca("L", "new", "pushReady")
  <2>1. CASE cola["new"] = << >>
    BY <1>3, <2>1, Grado_Cae DEF PasoSaca
  <2>2. CASE cola["new"] # << >>
    <3> DEFINE s == cola["new"]
               t == cola'["new"]
               q == Head(s)
    <3>1. /\ t = Tail(s) /\ UNCHANGED <<hilo, nextPid, sem>>
          /\ en["L"] = "saca" /\ en'["L"] = "pushReady"
      BY <1>3, <2>2 DEF PasoSaca, Saca, Va, procesoVars, Inv1, TypeOK, Listas, Hilos
    <3>2. /\ Len(s) \in Nat /\ Len(s) > 0 /\ Len(t) = Len(s) - 1
          /\ DOMAIN s = 1 .. Len(s) /\ DOMAIN t = 1 .. Len(s) - 1
          /\ \A i \in DOMAIN t : t[i] = s[i + 1]
          /\ q = s[1] /\ q \in Pid
      BY <1>0, <2>2, <3>1, EmptySeq, HeadTailProperties
    <3>3. hilo[q] \in {"enNew", "fin"} /\ Pertenece(q, s)
      BY <3>2 DEF Inv3, NewUnica, Pertenece
    <3>4. \A i \in DOMAIN t : t[i] # q
      <4>1. \A i \in DOMAIN t : i \in Int /\ i + 1 \in DOMAIN s /\ i + 1 # 1 /\ 1 \in DOMAIN s
        BY <3>2
      <4> QED BY <3>2, <4>1 DEF Inv3, NewUnica
    <3>5. \A p \in Pid \ {q} : Pertenece(p, t) <=> Pertenece(p, s)
      <4>1. ASSUME NEW p \in Pid \ {q}, NEW i \in DOMAIN s, s[i] = p
            PROVE  i - 1 \in DOMAIN t /\ t[i - 1] = p
        <5>1. i \in 1 .. Len(s) /\ i # 1
          BY <3>2, <4>1
        <5>2. i - 1 \in 1 .. Len(s) - 1 /\ (i - 1) + 1 = i
          BY <3>2, <5>1
        <5>3. i - 1 \in DOMAIN t /\ t[i - 1] = s[(i - 1) + 1]
          BY <3>2, <5>2
        <5> QED BY <4>1, <5>2, <5>3
      <4>2. ASSUME NEW p \in Pid \ {q}, NEW i \in DOMAIN t, t[i] = p
            PROVE  i + 1 \in DOMAIN s /\ s[i + 1] = p
        BY <3>2, <4>2
      <4> QED BY <4>1, <4>2 DEF Pertenece
    <3>6. Admitidos' = Admitidos \union {q} /\ q \notin Admitidos
      <4>1. Admitidos' = {p \in Pid : hilo[p] \in {"enNew", "fin"} /\ ~Pertenece(p, t)}
        BY <3>1 DEF Admitidos, Pertenece
      <4>2. ~Pertenece(q, t)
        BY <3>4 DEF Pertenece
      <4> QED BY <4>1, <4>2, <3>2, <3>3, <3>5 DEF Admitidos
    <3>7. Cardinality(Admitidos') = Cardinality(Admitidos) + 1
      BY <3>6, Pid_Finito, FS_AddElement DEF Admitidos
    <3>8. NewUnica'
      <4>1. \A i, j \in DOMAIN t : t[i] = t[j] => i = j
        <5>1. ASSUME NEW i \in DOMAIN t, NEW j \in DOMAIN t, t[i] = t[j] PROVE i = j
          <6>1. i \in Int /\ j \in Int /\ i + 1 \in DOMAIN s /\ j + 1 \in DOMAIN s
                /\ s[i + 1] = s[j + 1]
            <7>1. i \in Int /\ j \in Int /\ i + 1 \in DOMAIN s /\ j + 1 \in DOMAIN s
              BY <3>2
            <7> QED BY <3>2, <5>1, <7>1
          <6>2. i + 1 = j + 1
            BY <6>1 DEF Inv3, NewUnica
          <6> QED BY <6>1, <6>2
        <5> QED BY <5>1
      <4>2. \A i \in DOMAIN t : hilo[t[i]] \in {"enNew", "fin"}
        BY <3>2 DEF Inv3, NewUnica
      <4> QED BY <3>1, <4>1, <4>2 DEF Inv3, NewUnica
    <3>9. NewContada'
      BY <1>0, <1>a, <3>1, <3>2 DEF Inv3, NewContada, En, EnNew
    <3>10. GradoContado'
      BY <1>0, <1>a, <3>1, <3>7 DEF Inv3, GradoContado, En
    <3> QED BY <3>8, <3>9, <3>10 DEF Inv3
  <2> QED BY <2>1, <2>2
<1>4. CASE PasaAReady("L")
  BY <1>4, Grado_PasaAReady
<1> QED BY <1>1, <1>2, <1>3, <1>4 DEF LargoPlazo

(* C, E, S, U and F leave NEW, its semaphores and L alone.                 *)
LEMMA Grado_Espera ==
  ASSUME TypeOK, NEW h \in Hilos \ {"L"}, NEW de, NEW a,
         NEW s \in Semaforos \ {"nuevos", "grado"},
         PasoEspera(h, de, s, a) \/ PasoPostea(h, de, s, a)
  PROVE  UNCHANGED DeNew
<1>1. UNCHANGED <<hilo, nextPid, cola>> /\ Va(h, de, a) /\ (Espera(s) \/ Postea(s))
  BY DEF PasoEspera, PasoPostea, procesoVars
<1>2. sem'["nuevos"] = sem["nuevos"] /\ sem'["grado"] = sem["grado"]
  BY <1>1 DEF Espera, Postea, TypeOK, Semaforos
<1>3. en'["L"] = en["L"]
  BY <1>1 DEF Va, TypeOK
<1> QED BY <1>1, <1>2, <1>3 DEF DeNew

(* Another thread than L moves.                                            *)
LEMMA Grado_Mueve ==
  ASSUME TypeOK, NEW h \in Hilos \ {"L"}, NEW de, NEW a, Va(h, de, a)
  PROVE  en'["L"] = en["L"]
  BY DEF Va, TypeOK

(* Another list than NEW grows.                                            *)
LEMMA Grado_Agrega ==
  ASSUME TypeOK, NEW l \in Listas \ {"new"}, NEW p, Agrega(l, p)
  PROVE  cola'["new"] = cola["new"]
  BY DEF Agrega, TypeOK, Listas

(* planificador_corto_plazo.                                               *)
LEMMA Grado_CortoPlazo == ASSUME Inv1, Inv3, CortoPlazo PROVE Inv3'
<1>0. TypeOK
  BY DEF Inv1
<1>1. CASE \/ PasoEspera("C", "espera", "ready", "libre")
           \/ PasoEspera("C", "libre", "libre", "saca")
           \/ PasoPostea("C", "postExecute", "execute", "espera")
  BY <1>0, <1>1, Grado_Espera, Grado_Quieto DEF Hilos, Semaforos
<1>2. CASE PushExecute("C")
  BY <1>0, <1>2, Grado_Quieto, Grado_Mueve, Grado_Agrega
     DEF PushExecute, DeNew, procesoVars, Hilos, Listas
<1>3. CASE SacaHrrn
  BY <1>0, <1>3, Grado_Quieto, Grado_Mueve DEF SacaHrrn, DeNew, procesoVars, Hilos
<1>4. CASE PasoSaca("C", "ready", "pushExecute")
  <2>1. CASE cola["ready"] = << >>
    BY <1>4, <2>1, Grado_Cae DEF PasoSaca
  <2>2. CASE cola["ready"] # << >>
    BY <1>0, <1>4, <2>2, Grado_Quieto, Grado_Mueve, Largo_Saca
       DEF PasoSaca, DeNew, procesoVars, Hilos, Listas
  <2> QED BY <2>1, <2>2
<1> QED BY <1>1, <1>2, <1>3, <1>4 DEF CortoPlazo, SacaReady, SigueEnExecute

(* An answer of the cpu.                                                   *)
LEMMA Grado_Responde ==
  ASSUME TypeOK, NEW op, NEW a, Responde(op, a) PROVE UNCHANGED DeNew
  BY Grado_Mueve DEF Responde, DeNew, Hilos

(* The branches of the switch of execute_pcb.                              *)
LEMMA Grado_Instrucciones == ASSUME Inv1, Inv3, Instrucciones PROVE Inv3'
<1>0. TypeOK
  BY DEF Inv1
<1>1. CASE \E op, a : Responde(op, a)
  BY <1>0, <1>1, Grado_Responde, Grado_Quieto
<1>2. CASE \E m : Cae(m)
  BY <1>2, Grado_Cae
<1>3. CASE SegmentoCreado \/ EmpiezaCompactacion
  <2>1. CASE PasoPostea("E", "memoria", "execute", "pushExecute")
    BY <1>0, <2>1, Grado_Espera, Grado_Quieto DEF Hilos, Semaforos
  <2>2. CASE EmpiezaCompactacion
    BY <1>0, <2>2, Grado_Quieto, Grado_Mueve
       DEF EmpiezaCompactacion, DeNew, procesoVars, Hilos
  <2> QED BY <1>2, <1>3, <2>1, <2>2 DEF SegmentoCreado
<1>4. CASE CreaArchivo \/ ArchivoAbierto
  BY <1>0, <1>4, Grado_Quieto, Grado_Mueve
     DEF CreaArchivo, ArchivoAbierto, DeNew, procesoVars, Hilos
<1>5. CASE EstadoEnExit
  <2>1. /\ UNCHANGED <<hilo, nextPid, sem>> /\ cola'["new"] = cola["new"]
        /\ en'["L"] = en["L"]
    BY <1>0, <1>5 DEF EstadoEnExit, procesoVars, TypeOK, Hilos, Listas, Agrega
  <2> QED BY <2>1, Grado_Quieto DEF DeNew
<1>6. CASE PushSignal
  BY <1>0, <1>6, Grado_Quieto, Grado_Mueve, Grado_Agrega
     DEF PushSignal, DeNew, procesoVars, Hilos, Listas
<1>7. \/ \E op, a : Responde(op, a)
      \/ \E m : Cae(m)
      \/ SegmentoCreado \/ EmpiezaCompactacion \/ CreaArchivo \/ ArchivoAbierto
      \/ EstadoEnExit \/ PushSignal
  <2>1. CASE Yield \/ Termina \/ Io \/ WaitInexistente \/ WaitConcede \/ Signal
             \/ Open \/ Close \/ Seek \/ PideFs \/ CreateSegment
    BY <2>1 DEF Yield, Termina, Io, WaitInexistente, WaitConcede, Signal, Open, Close,
       Seek, PideFs, CreateSegment
  <2>2. CASE SignalSinWait \/ WaitAgotado \/ DeleteSegment \/ MovInvalido
             \/ PredicadoCae \/ CloseInexistente \/ NoAbierto \/ FallaCompactacion
    BY <2>2 DEF SignalSinWait, WaitAgotado, DeleteSegment, MovInvalido, PredicadoCae,
       CloseInexistente, NoAbierto, FallaCompactacion, RespondeYCae
  <2> QED BY <2>1, <2>2 DEF Instrucciones
<1> QED BY <1>1, <1>2, <1>3, <1>4, <1>5, <1>6, <1>7

(* list_add on BLOCKED and pop_blocked.                                    *)
LEMMA Grado_Blocked ==
  ASSUME Inv1, Inv3, NEW h \in {"E", "U"}, Ubica \/ Enlaza \/ SacaBlocked(h)
  PROVE  Inv3'
<1>0. TypeOK
  BY DEF Inv1
<1>1. CASE \E m : Cae(m)
  BY <1>1, Grado_Cae
<1>2. CASE ~(\E m : Cae(m))
  <2>1. /\ UNCHANGED <<procesoVars, sem>>
        /\ \A l \in Listas \ {"blocked"} : cola'[l] = cola[l]
        /\ \/ \E de, a : Va(h, de, a) \/ Va("E", de, a)
           \/ en' = [en EXCEPT !["E"] = "esperaIo", !["S"] = "duerme"]
           \/ en' = [en EXCEPT !["E"] = "postEnvio"]
    BY <1>0, <1>2, Pasos_Blocked
  <2>2. UNCHANGED <<hilo, nextPid, sem>> /\ cola'["new"] = cola["new"]
    BY <2>1 DEF procesoVars, Listas
  <2>3. en'["L"] = en["L"]
    BY <1>0, <2>1 DEF TypeOK, Hilos, Va
  <2> QED BY <2>2, <2>3, Grado_Quieto DEF DeNew
<1> QED BY <1>1, <1>2

(* execute_pcb.                                                            *)
LEMMA Grado_ExecutePcb == ASSUME Inv1, Inv3, ExecutePcb PROVE Inv3'
<1>0. TypeOK
  BY DEF Inv1
<1>1. CASE \/ PasoEspera("E", "espera", "execute", "saca")
           \/ PasoEspera("E", "esperaIo", "io", "sacaBlocked")
           \/ PasoPostea("E", "postEnvio", "envio", "libera")
           \/ PasoPostea("E", "libera", "libre", "espera")
           \/ PasoPostea("E", "postExecute", "execute", "espera")
  BY <1>0, <1>1, Grado_Espera, Grado_Quieto DEF Hilos, Semaforos
<1>2. CASE PasoSaca("E", "execute", "cpu")
  <2>1. CASE cola["execute"] = << >>
    BY <1>2, <2>1, Grado_Cae DEF PasoSaca
  <2>2. CASE cola["execute"] # << >>
    BY <1>0, <1>2, <2>2, Grado_Quieto, Grado_Mueve, Largo_Saca
       DEF PasoSaca, DeNew, procesoVars, Hilos, Listas
  <2> QED BY <2>1, <2>2
<1>3. CASE Instrucciones \/ PasaAReady("E") \/ Ubica \/ Enlaza \/ SacaBlocked("E")
  BY <1>3, Grado_Instrucciones, Grado_PasaAReady, Grado_Blocked
<1>4. CASE PushExecute("E")
  BY <1>0, <1>4, Grado_Quieto, Grado_Mueve, Grado_Agrega
     DEF PushExecute, DeNew, procesoVars, Hilos, Listas
<1> QED BY <1>1, <1>2, <1>3, <1>4 DEF ExecutePcb, SigueEnExecute

(* sleepHilo, unblocked_pcb_after_fs and the filesystem.                   *)
LEMMA Grado_Demas ==
  ASSUME Inv1, Inv3, SleepHilo \/ DesbloqueoFs \/ AtenderKernel PROVE Inv3'
<1>0. TypeOK
  BY DEF Inv1
<1>1. CASE SleepHilo \/ PasoEspera("U", "envio", "envio", "sacaBlocked")
  BY <1>0, <1>1, Grado_Espera, Grado_Quieto DEF SleepHilo, Hilos, Semaforos
<1>2. CASE RecibePid \/ FsResponde \/ FsMuere
  BY <1>0, <1>2, Grado_Quieto, Grado_Mueve
     DEF RecibePid, FsResponde, FsMuere, DeNew, procesoVars, Hilos
<1>3. CASE SacaBlocked("U") \/ PasaAReady("U")
  BY <1>3, Grado_Blocked, Grado_PasaAReady
<1>4. CASE FsCerrado
  BY <1>4, Grado_Cae DEF FsCerrado
<1> QED BY <1>1, <1>2, <1>3, <1>4 DEF DesbloqueoFs, AtenderKernel

(* The equations hold in every state of every behaviour.                   *)
LEMMA Inv3Invariante == Spec => [](Inv1 /\ Inv3)
<1>1. Inv1 /\ Inv3 /\ [Next]_vars => Inv3'
  <2> SUFFICES ASSUME Inv1, Inv3, [Next]_vars PROVE Inv3'
    OBVIOUS
  <2>1. CASE Consola
    BY <2>1, Grado_NuevoProceso, Grado_PushNew, Grado_PostNuevos DEF Consola
  <2>2. CASE LargoPlazo \/ CortoPlazo \/ ExecutePcb
    BY <2>2, Grado_LargoPlazo, Grado_CortoPlazo, Grado_ExecutePcb
  <2>3. CASE SleepHilo \/ DesbloqueoFs \/ AtenderKernel
    BY <2>3, Grado_Demas
  <2>4. CASE UNCHANGED vars
    BY <2>4, Grado_Quieto DEF vars, procesoVars, DeNew
  <2> QED BY <2>1, <2>2, <2>3, <2>4 DEF Next
<1> QED BY <1>1, Grado_Init, Inv1Invariante, PTL DEF Spec

(* At most GRADO_MAX_MULTIPROGRAMACION processes ever leave NEW.           *)
THEOREM GradoInvariante == Spec => []GradoRespetado
<1>1. Inv1 /\ Inv3 => GradoRespetado
  <2> SUFFICES ASSUME Inv1, Inv3 PROVE GradoRespetado OBVIOUS
  <2>1. Cardinality(Admitidos) \in Nat /\ sem["grado"] \in Nat
    BY Pid_Finito DEF Admitidos, Inv1, TypeOK, Semaforos
  <2>2. En("L", {"saca"}) \in Nat
    BY DEF En
  <2> QED BY <2>1, <2>2, ParametrosAssumption DEF Inv3, GradoContado, GradoRespetado
<1> QED BY <1>1, Inv3Invariante, PTL

(* Each counting semaphore of the scheduler promises no more than its list *)
(* holds, whatever thread is between the two.                              *)
THEOREM ListasInvariante == ASSUME SinCreate PROVE Spec => []ListasContadas
<1>1. Inv2 /\ ReadyContada /\ Inv3 => ListasContadas
  BY DEF Inv2, Inv3, ListasContadas
<1> QED BY <1>1, Inv2Invariante, ReadyInvariante, Inv3Invariante, PTL

(* READY and NEW are not empty when a thread pops them.                    *)
LEMMA Llenas ==
  ASSUME Inv1, ReadyContada, Inv3
  PROVE  /\ en["L"] = "saca" => cola["new"] # << >>
         /\ en["C"] = "saca" => cola["ready"] # << >>
<1>0. TypeOK
  BY DEF Inv1
<1>1. ASSUME en["L"] = "saca" PROVE cola["new"] # << >>
  <2>1. Cardinality(EnNew) \in Nat /\ sem["nuevos"] \in Nat
    BY <1>0, Pid_Finito DEF EnNew, TypeOK, Semaforos
  <2>2. En("L", {"grado", "saca"}) = 1
    BY <1>1 DEF En
  <2>3. Len(cola["new"]) >= 1
    BY <2>1, <2>2 DEF Inv3, NewContada
  <2> QED BY <2>3
<1>2. ASSUME en["C"] = "saca" PROVE cola["ready"] # << >>
  <2>1. CListo = 1
    BY <1>2 DEF CListo, En
  <2>2. LReady >= 1
    BY <1>0, <2>1, Ficha_Naturales, Listo_Numeros
  <2> QED BY <2>2 DEF LReady
<1> QED BY <1>1, <1>2

(* e_pop_primer_proceso never meets an empty list, so the PCB it returns,  *)
(* which no caller tests, is never NULL.                                   *)
THEOREM ListaVaciaInvariante == ASSUME SinCreate PROVE Spec => []NuncaSacaDeListaVacia
<1>1. Inv1 /\ Inv2 /\ ReadyContada /\ Inv3 => NuncaSacaDeListaVacia
  <2> SUFFICES ASSUME Inv1, Inv2, ReadyContada, Inv3 PROVE NuncaSacaDeListaVacia OBVIOUS
  <2>1. ASSUME en["E"] = "saca" PROVE cola["execute"] # << >>
    <3>1. ECuenta = 1
      BY <2>1 DEF ECuenta, En
    <3>2. LExecute >= 1
      BY <3>1, Ficha_Naturales, Ficha_Conteo DEF Conteo, Inv1
    <3> QED BY <3>2 DEF LExecute
  <2> QED BY <2>1, Llenas DEF NuncaSacaDeListaVacia
<1> QED BY <1>1, Inv2Invariante, ReadyInvariante, Inv3Invariante, PTL

(* With any programs, CREATE_SEGMENT included, and either algorithm, the   *)
(* only list that a thread may pop when it is empty is EXECUTE: one        *)
(* sem_post of e_execute is for nobody (planificador.c:925), but those of  *)
(* nuevosPcbsReady and of e_ready all come after a push.                   *)
THEOREM SoloExecuteVacia ==
  Spec => [](/\ en["L"] = "saca" => cola["new"] # << >>
             /\ en["C"] = "saca" => cola["ready"] # << >>)
BY Llenas, ReadyInvariante, Inv3Invariante, PTL

-----------------------------------------------------------------------------
(* The resources.                                                          *)

(* The programs that WAIT and never SIGNAL.                                *)
SinSignal == \A s \in Programas : \A i \in DOMAIN s : s[i].op # "SIGNAL"

(* The units out are at most those the count has come down by, and the     *)
(* count never passes -1.                                                  *)
NoMasDeUna ==
  \A r \in Recursos : /\ Cardinality(Veces("WAIT", r)) <= Instancias[r] - instancias[r]
                      /\ instancias[r] >= -1

(* The positions of the programs are finitely many.                        *)
LEMMA Veces_Finita ==
  ASSUME NEW op, NEW r
  PROVE  /\ IsFiniteSet(Veces(op, r)) /\ Cardinality(Veces(op, r)) \in Nat
         /\ Cardinality(Veces(op, r))' \in Nat
<1>1. IsFiniteSet(Pid) /\ IsFiniteSet(1 .. LargoMaximo)
  <2>1. MaxProcesos \in Int /\ LargoMaximo \in Int /\ 1 \in Int
    BY ParametrosAssumption DEF LargoMaximo
  <2> QED BY <2>1, FS_Interval DEF Pid
<1>2. IsFiniteSet(Pid \X (1 .. LargoMaximo))
  BY <1>1, FS_Product
<1>3. Veces(op, r) \subseteq Pid \X (1 .. LargoMaximo)
  BY DEF Veces
<1>4. Veces(op, r)' \subseteq Pid \X (1 .. LargoMaximo)
  BY DEF Veces
<1> QED BY <1>2, <1>3, <1>4, FS_Subset, FS_CardinalityType

(* While the program counters stay, so does what they have passed: a       *)
(* console fills the program of a pid whose counter is 0.                  *)
LEMMA Veces_Quieta ==
  ASSUME Inv1, UNCHANGED pc, programa' = programa \/ \E s : NuevoProceso(s),
         NEW op, NEW r
  PROVE  Veces(op, r)' = Veces(op, r)
<1>1. \A x \in Pid \X (1 .. LargoMaximo) :
        x[2] <= pc[x[1]] => programa'[x[1]] = programa[x[1]]
  <2>1. ASSUME NEW s, NuevoProceso(s), NEW p \in Pid, NEW n \in 1 .. LargoMaximo, n <= pc[p]
        PROVE  programa'[p] = programa[p]
    <3>1. /\ programa[nextPid] = << >> /\ nextPid \in Pid
          /\ programa' = [programa EXCEPT ![nextPid] = s]
      BY <2>1 DEF NuevoProceso, Inv1, ProgramaFijado, Pid
    <3>2. p # nextPid
      <4>1. pc[nextPid] \in Nat /\ pc[nextPid] <= Len(programa[nextPid])
        BY <3>1 DEF Inv1, TypeOK
      <4>2. Len(programa[nextPid]) = 0
        BY <3>1
      <4> QED BY <2>1, <4>1, <4>2
    <3> QED BY <3>1, <3>2 DEF Inv1, TypeOK
  <2> QED BY <2>1
<1> QED BY <1>1 DEF Veces

(* An answer of the cpu passes one instruction of one program.             *)
LEMMA Veces_Responde ==
  ASSUME Inv1, NEW op, NEW a, Responde(op, a), NEW r
  PROVE  /\ Cardinality(Veces("WAIT", r))' <= Cardinality(Veces("WAIT", r)) + 1
         /\ op # "WAIT" \/ Siguiente.arg # r => Veces("WAIT", r)' = Veces("WAIT", r)
<1> DEFINE x == <<Proceso, pc[Proceso] + 1>>
           V == Veces("WAIT", r)
<1>1. /\ Proceso \in Pid /\ pc' = [pc EXCEPT ![Proceso] = @ + 1] /\ programa' = programa
      /\ Siguiente.op = op
  BY Tipo_Siguiente DEF Responde
<1>2. pc \in [Pid -> Nat]
  BY DEF Inv1, TypeOK
<1>3. \A p \in Pid, n \in 1 .. LargoMaximo :
        n <= pc'[p] <=> n <= pc[p] \/ <<p, n>> = x
  BY <1>1, <1>2
<1>4. /\ V' \subseteq V \union {x}
      /\ programa[Proceso][pc[Proceso] + 1] # [op |-> "WAIT", arg |-> r] => V' = V
  BY <1>1, <1>3 DEF Veces
<1>5. Siguiente # [op |-> "WAIT", arg |-> r] => V' = V
  BY <1>4 DEF Siguiente
<1>6. op # "WAIT" \/ Siguiente.arg # r => V' = V
  BY <1>1, <1>5
<1>7. Cardinality(V') <= Cardinality(V) + 1
  <2>1. IsFiniteSet(V) /\ Cardinality(V) \in Nat
    BY Veces_Finita
  <2> HIDE DEF V, x
  <2>2. IsFiniteSet(V \union {x}) /\ Cardinality(V \union {x}) <= Cardinality(V) + 1
    BY <2>1, FS_AddElement
  <2>3. Cardinality(V') <= Cardinality(V \union {x}) /\ Cardinality(V') \in Nat
    BY <1>4, <2>2, FS_Subset, FS_CardinalityType
  <2> QED BY <2>1, <2>2, <2>3, FS_CardinalityType
<1> QED BY <1>6, <1>7

(* No answer is a SIGNAL.                                                  *)
LEMMA SinSignal_Responde ==
  ASSUME SinSignal, Inv1, NEW op, NEW a, Responde(op, a) PROVE op # "SIGNAL"
<1>1. Proceso \in Pid /\ pc[Proceso] < Len(programa[Proceso]) /\ Siguiente.op = op
  BY Tipo_Siguiente DEF Responde
<1>2. programa[Proceso] \in Seq(Instruccion) /\ pc[Proceso] \in Nat
  BY <1>1, Tipo_Programa DEF Inv1, TypeOK
<1>3. pc[Proceso] + 1 \in DOMAIN programa[Proceso]
  BY <1>1, <1>2
<1>4. programa[Proceso] \in Programas
  BY <1>1, <1>3, <1>2 DEF Inv1, TypeOK
<1> QED BY <1>1, <1>3, <1>4 DEF SinSignal, Siguiente

(* Nor has any program passed one.                                         *)
LEMMA SinSignal_Veces == ASSUME SinSignal, Inv1, NEW r PROVE Veces("SIGNAL", r) = {}
<1> SUFFICES ASSUME NEW p \in Pid, NEW n \in 1 .. LargoMaximo, n <= pc[p],
                    programa[p][n] = [op |-> "SIGNAL", arg |-> r]
             PROVE  FALSE
  BY DEF Veces
<1>1. programa[p] \in Seq(Instruccion) /\ pc[p] \in Nat /\ pc[p] <= Len(programa[p])
  BY Tipo_Programa DEF Inv1, TypeOK
<1>2. n \in DOMAIN programa[p]
  BY <1>1
<1>3. programa[p] \in Programas
  BY <1>1, <1>2 DEF Inv1, TypeOK
<1> QED BY <1>2, <1>3 DEF SinSignal

(* A step that moves neither the counters nor the counts.                  *)
LEMMA Recursos_Quieto ==
  ASSUME Inv1, NoMasDeUna, UNCHANGED <<pc, instancias>>,
         programa' = programa \/ \E s : NuevoProceso(s)
  PROVE  NoMasDeUna'
  BY Veces_Quieta DEF NoMasDeUna

(* The branches of the switch of execute_pcb.                              *)
LEMMA Recursos_Instrucciones ==
  ASSUME SinSignal, Inv1, NoMasDeUna, Instrucciones PROVE NoMasDeUna'
<1>1. CASE WaitConcede
  <2> DEFINE q == Siguiente.arg
  <2>1. /\ Responde("WAIT", "pushExecute") /\ q \in Recursos /\ instancias[q] >= 0
        /\ instancias' = [instancias EXCEPT ![q] = @ - 1]
    BY <1>1 DEF WaitConcede
  <2>2. instancias \in [Recursos -> Int] /\ Instancias \in [Recursos -> Nat]
    BY ParametrosAssumption DEF Inv1, TypeOK
  <2>3. ASSUME NEW r \in Recursos
        PROVE  /\ Cardinality(Veces("WAIT", r))' <= Instancias[r] - instancias'[r]
               /\ instancias'[r] >= -1
    <3> DEFINE c == Cardinality(Veces("WAIT", r))
    <3>1. c \in Nat /\ c' \in Nat /\ c' <= c + 1 /\ (q # r => c' = c)
      BY <2>1, Veces_Finita, Veces_Responde
    <3>2. c <= Instancias[r] - instancias[r] /\ instancias[r] >= -1
      BY DEF NoMasDeUna
    <3>3. /\ instancias[r] \in Int /\ Instancias[r] \in Int
          /\ q = r => instancias'[r] = instancias[r] - 1 /\ instancias[r] >= 0
          /\ q # r => instancias'[r] = instancias[r]
      BY <2>1, <2>2
    <3> HIDE DEF c
    <3>4. c' <= Instancias[r] - instancias'[r] /\ instancias'[r] >= -1
      BY <3>1, <3>2, <3>3
    <3> QED BY <3>4 DEF c
  <2> QED BY <2>3 DEF NoMasDeUna
<1>2. CASE \/ Yield \/ Termina \/ Io \/ WaitInexistente \/ CreateSegment
           \/ Open \/ Close \/ Seek \/ PideFs
  <2>1. \E op, a : /\ Responde(op, a) /\ instancias' = instancias
                   /\ op = "WAIT" => Siguiente.arg \notin Recursos
    BY <1>2 DEF Yield, Termina, Io, WaitInexistente, CreateSegment, Open, Close, Seek,
       PideFs, recursoVars
  <2>2. \A r \in Recursos : Veces("WAIT", r)' = Veces("WAIT", r)
    BY <2>1, Veces_Responde
  <2> QED BY <2>1, <2>2 DEF NoMasDeUna
<1>3. CASE Signal \/ Responde("SIGNAL", "estadoEnExit")
  BY <1>3, SinSignal_Responde DEF Signal
<1>4. CASE \E m : Cae(m)
  BY <1>4, Recursos_Quieto DEF Cae, procesoVars, recursoVars
<1>5. CASE ~\E m : Cae(m)
  <2>1. CASE EstadoEnExit \/ PushSignal \/ SegmentoCreado \/ EmpiezaCompactacion
             \/ CreaArchivo \/ ArchivoAbierto
    BY <1>5, <2>1, Recursos_Quieto DEF EstadoEnExit, PushSignal, SegmentoCreado,
       EmpiezaCompactacion, CreaArchivo, ArchivoAbierto, PasoPostea, procesoVars,
       recursoVars
  <2>2. CASE \/ WaitAgotado \/ SignalSinWait \/ DeleteSegment \/ MovInvalido
             \/ PredicadoCae \/ CloseInexistente \/ NoAbierto \/ FallaCompactacion
    BY <1>3, <1>5, <2>2 DEF WaitAgotado, SignalSinWait, DeleteSegment, MovInvalido,
       PredicadoCae, CloseInexistente, NoAbierto, FallaCompactacion, RespondeYCae
  <2> QED BY <1>1, <1>2, <1>3, <2>1, <2>2 DEF Instrucciones
<1> QED BY <1>4, <1>5

(* list_add on BLOCKED and pop_blocked move no counter.                    *)
LEMMA Recursos_Blocked ==
  ASSUME Inv1, NoMasDeUna, NEW h \in {"E", "U"}, Ubica \/ Enlaza \/ SacaBlocked(h)
  PROVE  NoMasDeUna'
<1>1. CASE \E m \in Motivos : Cae(m)
  BY <1>1, Recursos_Quieto DEF Cae, procesoVars, recursoVars
<1>2. CASE ~(\E m \in Motivos : Cae(m))
  <2>1. UNCHANGED <<procesoVars, recursoVars>>
    BY <1>2, Pasos_Blocked DEF Inv1
  <2> QED BY <2>1, Recursos_Quieto DEF procesoVars, recursoVars
<1> QED BY <1>1, <1>2

(* Only WAIT and SIGNAL write a count, and only an answer of the cpu moves *)
(* a program counter.                                                      *)
LEMMA Recursos_Paso ==
  ASSUME SinSignal, Inv1, NoMasDeUna, [Next]_vars PROVE NoMasDeUna'
<1>1. CASE Instrucciones
  BY <1>1, Recursos_Instrucciones
<1>2. CASE Consola
  BY <1>2, Recursos_Quieto DEF Consola, NuevoProceso, PushNew, PostNuevos, recursoVars
<1>3. CASE (\E m : Cae(m)) \/ UNCHANGED vars
  BY <1>3, Recursos_Quieto DEF Cae, vars, procesoVars, recursoVars
<1>4. CASE ~(\E m : Cae(m)) /\ ~Instrucciones /\ ~Consola /\ Next
  <2>1. CASE LargoPlazo \/ CortoPlazo
    BY <1>4, <2>1, Recursos_Quieto DEF LargoPlazo, CortoPlazo, PasoEspera, PasoSaca,
       PasaAReady, PushReady, LogReadyCuenta, LogReadyRecorre, PostReady, PasoPostea,
       SacaReady, SacaHrrn, SigueEnExecute, PushExecute, procesoVars, recursoVars
  <2>2. CASE ExecutePcb
    BY <1>4, <2>2, Recursos_Quieto, Recursos_Blocked DEF ExecutePcb, PasoEspera, PasoSaca,
       PasaAReady, PushReady, LogReadyCuenta, LogReadyRecorre, PostReady, PasoPostea,
       SigueEnExecute, PushExecute, procesoVars, recursoVars
  <2>3. CASE SleepHilo \/ DesbloqueoFs \/ AtenderKernel
    BY <1>4, <2>3, Recursos_Quieto, Recursos_Blocked DEF SleepHilo, DesbloqueoFs,
       AtenderKernel, PasoEspera, PasaAReady, PushReady, LogReadyCuenta, LogReadyRecorre,
       PostReady, PasoPostea, RecibePid, FsCerrado, FsResponde, FsMuere,
       procesoVars, recursoVars
  <2> QED BY <1>4, <2>1, <2>2, <2>3 DEF Next
<1> QED BY <1>1, <1>2, <1>3, <1>4

(* WAIT gives out at most one unit more than there are, for any programs   *)
(* without SIGNAL, whatever the interleaving of the processes.             *)
THEOREM RecursosInvariante == ASSUME SinSignal PROVE Spec => []ALoSumoUnaDeMas
<1>1. Init => NoMasDeUna
  <2> SUFFICES ASSUME Init, NEW r \in Recursos
               PROVE  /\ Cardinality(Veces("WAIT", r)) <= Instancias[r] - instancias[r]
                      /\ instancias[r] >= -1
    BY DEF NoMasDeUna
  <2>1. Veces("WAIT", r) = {}
    BY DEF Init, Veces, LargoMaximo
  <2>2. instancias[r] = Instancias[r] /\ Instancias[r] \in Nat
    BY ParametrosAssumption DEF Init
  <2> QED BY <2>1, <2>2, FS_EmptySet
<1>2. Inv1 /\ NoMasDeUna /\ [Next]_vars => NoMasDeUna'
  BY Recursos_Paso
<1>3. Inv1 /\ NoMasDeUna => ALoSumoUnaDeMas
  <2> SUFFICES ASSUME Inv1, NoMasDeUna, NEW r \in Recursos
               PROVE  Retenidas(r) <= Instancias[r] + 1
    BY DEF ALoSumoUnaDeMas
  <2>1. Cardinality(Veces("SIGNAL", r)) = 0
    BY SinSignal_Veces, FS_EmptySet
  <2>2. Cardinality(Veces("WAIT", r)) \in Nat
    BY Veces_Finita
  <2>3. instancias[r] \in Int /\ Instancias[r] \in Int
    BY ParametrosAssumption DEF Inv1, TypeOK
  <2> QED BY <2>1, <2>2, <2>3 DEF NoMasDeUna, Retenidas
<1> QED BY <1>1, <1>2, <1>3, Inv1Invariante, PTL DEF Spec
=============================================================================
