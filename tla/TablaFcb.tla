------------------------------ MODULE TablaFcb ------------------------------
(***************************************************************************)
(* What the filesystem promises of its files, without bitmap, blocks or    *)
(* the steps of a save: a table that says which files exist and how long   *)
(* each is.  A request changes one file at once and is answered after the  *)
(* change; a crash loses at most the file of a request that had not been   *)
(* carried out, and a lost file stays lost.                                *)
(***************************************************************************)
EXTENDS Naturals

CONSTANTS Archivo,  \* the names of files
          Tamanios  \* the sizes F_TRUNCATE asks for

VARIABLES archivo,  \* per file: [estado, tam]
          pedido    \* the request being served: a set of at most one
                    \* [tipo, f, tam, hecho]

varsTabla == <<archivo, pedido>>

Ausente == [estado |-> "ausente", tam |-> 0]
Ilegible == [estado |-> "ilegible", tam |-> 0]
Completo(n) == [estado |-> "completo", tam |-> n]

InitTabla == /\ archivo \in [Archivo -> {Ausente} \cup
                                        {Completo(n) : n \in Tamanios}]
             /\ pedido = {}

Pedir(tipo, f, n) ==
    /\ pedido = {}
    /\ pedido' = {[tipo |-> tipo, f |-> f, tam |-> n, hecho |-> FALSE]}
    /\ UNCHANGED archivo

(* The file changes: CREATE makes it, empty; TRUNCATE gives it its size. *)
Hacer(p) ==
    /\ p \in pedido /\ ~p.hecho
    /\ archivo[p.f].estado = IF p.tipo = "CREATE" THEN "ausente"
                             ELSE "completo"
    /\ archivo' = [archivo EXCEPT ![p.f] = Completo(p.tam)]
    /\ pedido' = {[p EXCEPT !.hecho = TRUE]}

Responder(p) ==
    p \in pedido /\ p.hecho /\ pedido' = {} /\ UNCHANGED archivo

(* The process ends, with or without the file it was changing. *)
Caer ==
    /\ pedido' = {}
    /\ \/ UNCHANGED archivo
       \/ \E p \in pedido : /\ ~p.hecho
                            /\ archivo' = [archivo EXCEPT ![p.f] = Ilegible]

NextTabla ==
    \/ \E f \in Archivo, n \in Tamanios : Pedir("TRUNCATE", f, n)
    \/ \E f \in Archivo : Pedir("CREATE", f, 0)
    \/ \E p \in pedido : Hacer(p) \/ Responder(p)
    \/ Caer

SpecTabla == InitTabla /\ [][NextTabla]_varsTabla
=============================================================================
