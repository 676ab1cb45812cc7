-------------------------------- MODULE Hrrn --------------------------------
(***************************************************************************)
(* Which process next_hrrn_proceso takes from READY (planificador.c).      *)
(*                                                                         *)
(* rafaga_estimada and rafaga_real start as ESTIMACION_INICIAL and nothing *)
(* writes rafaga_real, so every estimate is ESTIMACION_INICIAL whatever    *)
(* HRRN_ALFA is (it reaches get_estimado_rafaga_proceso as an int).        *)
(*                                                                         *)
(* C chooses with the mutex of e_ready held, so nobody pushes meanwhile.   *)
(* But every comparison reads the clock and the tiempo_de_llegada of two   *)
(* PCBs anew, and L and U write that field with no mutex: between any two  *)
(* reads of C the clock may tick and an arrival may be renewed.            *)
(***************************************************************************)
EXTENDS Integers, Sequences

CONSTANTS Pid,
          Estimacion,  \* ESTIMACION_INICIAL
          MaxReloj,    \* bound: the last instant of the clock
          MaxReady     \* bound: length of READY

ASSUME HrrnAssumption == /\ Estimacion \in Nat \ {0} /\ MaxReloj \in Nat
                         /\ MaxReady \in Nat

VARIABLES
  ahora,       \* the clock of t_temporal
  llegada,     \* when tiempo_de_llegada of each PCB was created
  ready,       \* listaDeProcesos of e_ready
  semReady,    \* semaphore of e_ready
  nuevos,      \* processes of NEW, for L
  bloqueados,  \* processes of BLOCKED, in the order their pids reach U
  en, pcb,     \* label and local pcb of L, C, E and U
  i,           \* C: position of the element list_get_maximum has come to
  leido,       \* C: what mayor_hrrn has read of the first PCB
  inicio,      \* history: when the choice began
  pisada       \* history: a PCB of Medidos was renewed in this choice

eleccionVars == <<i, leido, inicio, pisada>>
vars == <<ahora, llegada, ready, semReady, nuevos, bloqueados, en, pcb,
          eleccionVars>>
Nadie == 0
Hilos == {"L", "C", "E", "U"}

-----------------------------------------------------------------------------
Espera(p)    == ahora - llegada[p]               \* get_waiting_time_proceso
Prioridad(p) == 1 + Espera(p) \div Estimacion    \* get_hrrn_proceso

(* C is in list_get_maximum: the leader so far is its pcb, the other one   *)
(* the element it has come to.                                             *)
Eligiendo == en["C"] # "espera"
Otro      == ready[i]

(* The PCBs whose waits C has read and still goes by.                      *)
Medidos == IF ~Eligiendo THEN {}
           ELSE {pcb["C"]} \union
                (IF en["C"] \in {"espera1", "espera2"} THEN {Otro} ELSE {})

Init ==
  /\ ahora = 0 /\ llegada = [p \in Pid |-> 0]
  /\ ready = << >> /\ semReady = 0
  /\ nuevos = Pid /\ bloqueados = << >>
  /\ en = [h \in Hilos |-> "espera"] /\ pcb = [h \in Hilos |-> Nadie]
  /\ i = 0 /\ leido = 0 /\ inicio = 0 /\ pisada = FALSE

Va(h, de, a) == en[h] = de /\ en' = [en EXCEPT ![h] = a]

-----------------------------------------------------------------------------
(* L, E and U take a process to READY: they push it, give it a new         *)
(* tiempo_de_llegada and post e_ready; U renews the arrival first.         *)
TomaNuevo == \E p \in nuevos :
  /\ Va("L", "espera", "push")
  /\ pcb' = [pcb EXCEPT !["L"] = p] /\ nuevos' = nuevos \ {p}
  /\ UNCHANGED <<ahora, llegada, ready, semReady, bloqueados, eleccionVars>>

TomaBloqueado ==
  /\ Va("U", "espera", "renueva") /\ bloqueados # << >>
  /\ pcb' = [pcb EXCEPT !["U"] = Head(bloqueados)]
  /\ bloqueados' = Tail(bloqueados)
  /\ UNCHANGED <<ahora, llegada, ready, semReady, nuevos, eleccionVars>>

PushReady(h) ==
  /\ Va(h, "push", IF h = "U" THEN "post" ELSE "renueva")
  /\ ~Eligiendo /\ Len(ready) < MaxReady
  /\ ready' = Append(ready, pcb[h])
  /\ UNCHANGED <<ahora, llegada, semReady, nuevos, bloqueados, pcb,
                 eleccionVars>>

CreaTemporal(h) ==
  /\ Va(h, "renueva", IF h = "U" THEN "push" ELSE "post")
  /\ llegada' = [llegada EXCEPT ![pcb[h]] = ahora]
  /\ pisada' = (pisada \/ pcb[h] \in Medidos)
  /\ UNCHANGED <<ahora, ready, semReady, nuevos, bloqueados, pcb, i, leido,
                 inicio>>

PostReady(h) ==
  /\ Va(h, "post", "espera") /\ semReady' = semReady + 1
  /\ pcb' = [pcb EXCEPT ![h] = Nadie]
  /\ UNCHANGED <<ahora, llegada, ready, nuevos, bloqueados, eleccionVars>>

(* What E does with the process it runs: IO and YIELD bring it back to     *)
(* READY, TRUNCATE and WRITE leave it to the filesystem and to U.          *)
VuelveAReady ==
  /\ Va("E", "ejecuta", "push")
  /\ UNCHANGED <<ahora, llegada, ready, semReady, nuevos, bloqueados, pcb,
                 eleccionVars>>
Bloquea ==
  /\ Va("E", "ejecuta", "espera") /\ pcb' = [pcb EXCEPT !["E"] = Nadie]
  /\ bloqueados' = Append(bloqueados, pcb["E"])
  /\ UNCHANGED <<ahora, llegada, ready, semReady, nuevos, eleccionVars>>

-----------------------------------------------------------------------------
(* C has waited for e_ready and for execute_libre, which E posts when it   *)
(* has nothing more to run.  A process alone in READY is removed and       *)
(* dispatched to E.                                                        *)
NextUnico ==
  /\ en["C"] = "espera" /\ Va("E", "espera", "ejecuta")
  /\ semReady > 0 /\ semReady' = semReady - 1
  /\ Len(ready) = 1 /\ ready' = << >>
  /\ pcb' = [pcb EXCEPT !["E"] = ready[1]]
  /\ UNCHANGED <<ahora, llegada, nuevos, bloqueados, eleccionVars>>

(* Of several the maximum is found, and stays in the list.                 *)
NextHrrnSinEsperar ==       \* mutant: it does not wait for e_ready
  /\ Va("C", "espera", "razon1") /\ en["E"] = "espera"
  /\ semReady' = semReady - 1
  /\ Len(ready) > 1
  /\ pcb' = [pcb EXCEPT !["C"] = ready[1]] /\ i' = 2 /\ inicio' = ahora
  /\ UNCHANGED <<ahora, llegada, ready, nuevos, bloqueados, leido, pisada>>
NextHrrn ==
  /\ Va("C", "espera", "razon1") /\ en["E"] = "espera"
  /\ semReady > 0 /\ semReady' = semReady - 1
  /\ Len(ready) > 1
  /\ pcb' = [pcb EXCEPT !["C"] = ready[1]] /\ i' = 2 /\ inicio' = ahora
  /\ UNCHANGED <<ahora, llegada, ready, nuevos, bloqueados, leido, pisada>>

(* The end of one mayor_hrrn, which returned p: list_get_maximum goes on   *)
(* with the next element, or has chosen.                                   *)
Gana(p) ==
  /\ pcb' = [pcb EXCEPT !["C"] = p] /\ leido' = 0
  /\ IF i < Len(ready)
     THEN en' = [en EXCEPT !["C"] = "razon1"] /\ i' = i + 1
     ELSE en' = [en EXCEPT !["C"] = "elegido"] /\ UNCHANGED i

(* mayor_hrrn(pcb, Otro): two ratios, and when they tie two waits, each    *)
(* read at its own moment.                                                 *)
LeePrimero(de, a, x) ==
  /\ Va("C", de, a) /\ leido' = x
  /\ UNCHANGED <<ahora, llegada, ready, semReady, nuevos, bloqueados, pcb, i,
                 inicio, pisada>>

ComparaRazonAlReves ==       \* mutant: the comparisons are swapped
  /\ en["C"] = "razon2"
  /\ \/ leido < Prioridad(Otro) /\ Gana(pcb["C"])
     \/ leido > Prioridad(Otro) /\ Gana(Otro)
     \/ /\ leido = Prioridad(Otro)
        /\ Va("C", "razon2", "espera1")
        /\ UNCHANGED <<pcb, i, leido>>
  /\ UNCHANGED <<ahora, llegada, ready, semReady, nuevos, bloqueados, inicio,
                 pisada>>
ComparaRazon ==
  /\ en["C"] = "razon2"
  /\ \/ leido > Prioridad(Otro) /\ Gana(pcb["C"])
     \/ leido < Prioridad(Otro) /\ Gana(Otro)
     \/ /\ leido = Prioridad(Otro)
        /\ Va("C", "razon2", "espera1")
        /\ UNCHANGED <<pcb, i, leido>>
  /\ UNCHANGED <<ahora, llegada, ready, semReady, nuevos, bloqueados, inicio,
                 pisada>>

ComparaEspera ==
  /\ en["C"] = "espera2"
  /\ Gana(IF leido < Espera(Otro) THEN pcb["C"] ELSE Otro)
  /\ UNCHANGED <<ahora, llegada, ready, semReady, nuevos, bloqueados, inicio,
                 pisada>>

MayorHrrn == \/ LeePrimero("razon1", "razon2", Prioridad(pcb["C"]))
             \/ ComparaRazon
             \/ LeePrimero("espera1", "espera2", Espera(pcb["C"]))
             \/ ComparaEspera

(* The mutex is given back and the chosen one dispatched.                  *)
Despacha ==
  /\ en["C"] = "elegido"
  /\ en' = [en EXCEPT !["C"] = "espera", !["E"] = "ejecuta"]
  /\ pcb' = [pcb EXCEPT !["C"] = Nadie, !["E"] = pcb["C"]]
  /\ i' = 0 /\ inicio' = 0 /\ pisada' = FALSE
  /\ UNCHANGED <<ahora, llegada, ready, semReady, nuevos, bloqueados, leido>>

PasaTiempo ==
  /\ ahora < MaxReloj /\ ahora' = ahora + 1
  /\ UNCHANGED <<llegada, ready, semReady, nuevos, bloqueados, en, pcb,
                 eleccionVars>>

Next == \/ TomaNuevo \/ TomaBloqueado \/ VuelveAReady \/ Bloquea
        \/ \E h \in {"L", "E", "U"} :
             PushReady(h) \/ CreaTemporal(h) \/ PostReady(h)
        \/ NextUnico \/ NextHrrn \/ MayorHrrn \/ Despacha \/ PasaTiempo

Spec == Init /\ [][Next]_vars

-----------------------------------------------------------------------------
Etiquetas == [L |-> {"espera", "push", "renueva", "post"},
              C |-> {"espera", "razon1", "razon2", "espera1", "espera2",
                    "elegido"},
              E |-> {"espera", "ejecuta", "push", "renueva", "post"},
              U |-> {"espera", "renueva", "push", "post"}]

(* Types: nobody arrived after now, so that no wait is negative; a thread  *)
(* that is not waiting has a process; while C chooses the element it has   *)
(* come to is one of READY.                                                *)
TypeOK ==
  /\ ahora \in 0 .. MaxReloj /\ inicio \in 0 .. ahora
  /\ llegada \in [Pid -> 0 .. MaxReloj] /\ \A p \in Pid : llegada[p] <= ahora
  /\ ready \in Seq(Pid) /\ Len(ready) <= MaxReady
  /\ semReady \in Nat
  /\ nuevos \subseteq Pid /\ bloqueados \in Seq(Pid)
  /\ DOMAIN en = Hilos /\ \A h \in Hilos : en[h] \in Etiquetas[h]
  /\ pcb \in [Hilos -> Pid \union {Nadie}]
  /\ \A h \in Hilos : en[h] # "espera" => pcb[h] \in Pid
  /\ i \in Nat /\ (Eligiendo => i \in 2 .. Len(ready))
  /\ leido \in Nat /\ pisada \in BOOLEAN

EnReady == {ready[j] : j \in DOMAIN ready}

(* Ratio and arrival never disagree by more than one estimate and the time *)
(* the choice took: no process of READY has waited that much more than the *)
(* chosen one, although C reads two PCBs at four different moments, while  *)
(* others are renewed, and some still have the tiempo_de_llegada of their  *)
(* last visit (mayor_hrrn, planificador.c:83-98).  It says nothing of a    *)
(* choice during which the leader, or the one C found to tie with it, was  *)
(* itself renewed: then C goes on from a wait that no longer is.           *)
EsperaAcotada ==
  en["C"] = "elegido" /\ ~pisada =>
    \A p \in EnReady :
      Espera(p) < Espera(pcb["C"]) + Estimacion + (ahora - inicio)
=============================================================================
