-------------------------- MODULE PlanificadorCiclo --------------------------
(***************************************************************************)
(* The scheduler implements the life cycle: the state of a process, and    *)
(* the READY queue, as functions of the scheduler's lists and threads.     *)
(* Holds of FIFO, of programs without SIGNAL.                              *)
(***************************************************************************)
EXTENDS Planificador

(* A PCB that L holds has not left NEW; one that no list but BLOCKED has   *)
(* and that is not BLOCKED is in EXECUTE, as is one in e_execute.          *)
EstadoDe(p) ==
  CASE hilo[p] \in {"sinConexion", "creado"}                 -> "SIN_CREAR"
    [] Pertenece(p, cola["new"]) \/ (EnManos("L") /\ pcb["L"] = p) -> "NEW"
    [] Pertenece(p, cola["ready"])                           -> "READY"
    [] Pertenece(p, cola["exit"])                            -> "EXIT"
    [] Bloqueado(p)                                          -> "BLOCKED"
    [] OTHER                                                 -> "EXECUTE"

Ciclo == INSTANCE CicloDeVida
           WITH Procesos <- Pid, Grado <- Grado,
                estado <- [p \in Pid |-> EstadoDe(p)], ready <- cola["ready"]

(* Every step of every thread of the scheduler is one change of state of   *)
(* one process that the life cycle allows, or none.                        *)
ImplementaCiclo == Ciclo!Spec
=============================================================================
