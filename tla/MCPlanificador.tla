--------------------------- MODULE MCPlanificador ---------------------------
(* Instances of Planificador for TLC: the programs and the resources.      *)
EXTENDS PlanificadorCiclo

I(op)    == [op |-> op, arg |-> ""]
A(op, x) == [op |-> op, arg |-> x]
Fin      == << I("EXIT") >>

UnRecurso     == [r \in {"DISCO"} |-> 1]
SinRecursos   == [r \in {} |-> 0]

(* Scheduling: out of EXECUTE by an IO, a file operation and a YIELD.      *)
MezclaCorta == { << I("IO") >> \o Fin,
                 << A("TRUNCATE", "f"), I("YIELD") >> \o Fin }

(* Resources: two processes that take two units each.                      *)
ConWait == { << A("WAIT", "DISCO"), I("YIELD"), A("WAIT", "DISCO") >> \o Fin,
             << I("YIELD"), A("WAIT", "OTRO") >> \o Fin }

(* A program that only yields and exits.                                   *)
CedeYTermina == { << I("YIELD") >> \o Fin }

(* Scheduling and resources, for the liveness run.                         *)
MezclaYWait == MezclaCorta \union ConWait

(* The filesystem: files opened and not, with a file operation of another  *)
(* process on the same socket.                                             *)
ConArchivos ==
  { << A("OPEN", "f"), A("SEEK", "f"), A("READ", "f") >> \o Fin,
    << A("OPEN", "f"), A("WRITE", "f"), A("CLOSE", "f") >> \o Fin,
    << A("TRUNCATE", "f"), A("OPEN", "f"), A("CLOSE", "f") >> \o Fin,
    << A("SEEK", "f") >> \o Fin }

(* The other instructions, each with the way it goes wrong.                *)
Resto ==
  { << A("SIGNAL", "DISCO"), A("WAIT", "DISCO"), A("SIGNAL", "DISCO") >> \o Fin,
    << A("WAIT", "DISCO"), A("WAIT", "DISCO"), A("WAIT", "DISCO") >> \o Fin,
    << I("CREATE_SEGMENT"), I("YIELD"), I("CREATE_SEGMENT"),
       I("CREATE_SEGMENT") >> \o Fin,
    << A("OPEN", "f"), A("WRITE", "f") >> \o Fin,
    << I("DELETE_SEGMENT") >> \o Fin,
    << I("YIELD"), I("MOV_INVALIDO") >>, << I("IO"), I("SEG_FAULT") >> }

(* The ways out of EXECUTE, and a segment created.                          *)
ConCreate == { << I("IO") >> \o Fin,
               << A("TRUNCATE", "f"), I("CREATE_SEGMENT"), I("YIELD") >> \o Fin }

ArchivosYResto == ConArchivos \union Resto
=============================================================================
