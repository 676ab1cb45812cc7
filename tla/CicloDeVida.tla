----------------------------- MODULE CicloDeVida -----------------------------
(***************************************************************************)
(* What the kernel promises of the life of a process, in one step per      *)
(* change of state: NEW, READY, EXECUTE, BLOCKED, EXIT, with one process   *)
(* in EXECUTE, READY served in order of arrival, and at most Grado         *)
(* processes admitted and not yet ended.                                   *)
(***************************************************************************)
EXTENDS Integers, Sequences, FiniteSets

CONSTANTS Procesos, Grado

VARIABLES estado,   \* of each process
          ready     \* the READY processes, in order of arrival

vars == <<estado, ready>>

EnEstado(e) == {p \in Procesos : estado[p] = e}
Activos     == UNION {EnEstado(e) : e \in {"READY", "EXECUTE", "BLOCKED"}}

Init == estado = [p \in Procesos |-> "SIN_CREAR"] /\ ready = << >>

Cambia(p, de, a) == estado[p] = de /\ estado' = [estado EXCEPT ![p] = a]
AlFinal(p)       == ready' = Append(ready, p)

Llega(p)      == UNCHANGED ready /\ Cambia(p, "SIN_CREAR", "NEW")
Admite(p)     == /\ AlFinal(p) /\ Cambia(p, "NEW", "READY")
                 /\ Cardinality(Activos) < Grado
Despacha      == /\ ready # << >> /\ ready' = Tail(ready)
                 /\ Cambia(Head(ready), "READY", "EXECUTE")
                 /\ EnEstado("EXECUTE") = {}
Desaloja(p)   == AlFinal(p) /\ Cambia(p, "EXECUTE", "READY")
Bloquea(p)    == UNCHANGED ready /\ Cambia(p, "EXECUTE", "BLOCKED")
Desbloquea(p) == AlFinal(p) /\ Cambia(p, "BLOCKED", "READY")
Termina(p)    == UNCHANGED ready /\ Cambia(p, "EXECUTE", "EXIT")

Next == \/ \E p \in Procesos : \/ Llega(p) \/ Admite(p) \/ Desaloja(p)
                               \/ Bloquea(p) \/ Desbloquea(p) \/ Termina(p)
        \/ Despacha

Spec == Init /\ [][Next]_vars
=============================================================================
