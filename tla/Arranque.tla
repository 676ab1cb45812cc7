------------------------------ MODULE Arranque ------------------------------
(***************************************************************************)
(* The start of the system: the four modules are launched by hand, in any  *)
(* order, and connect to each other.  memoria accepts exactly three        *)
(* clients and takes them for cpu, filesystem and kernel by the order they *)
(* arrive in; cpu accepts one client and filesystem two, all the kernel's. *)
(* A module exits when a connection it needs is refused, cut or answered   *)
(* with another header, and may be killed at any step; whoever is down may *)
(* be launched again.  A connection is [de, hs, vez]: the client, the      *)
(* handshake it opens with and the launch of the client it belongs to.     *)
(***************************************************************************)
EXTENDS Integers, SequencesExt

CONSTANTS Veces,      \* bound: launches of each module
          MaxCaidas   \* bound: kills

ASSUME CotasAssumption == Veces \in Nat /\ MaxCaidas \in Nat

Modulos == {"memoria", "cpu", "fs", "kernel"}
Clientes == {"cpu", "fs", "kernel"}
Servidores == {"memoria", "cpu", "fs"}

EnlacesBloqueadosPrimero ==
    [cpu |-> <<[a |-> "memoria", hs |-> "hs_cpu"]>>,
     fs |-> <<[a |-> "memoria", hs |-> "hs_filesystem"]>>,
     kernel |-> <<[a |-> "cpu", hs |-> "hs_cpu"],
                  [a |-> "memoria", hs |-> "hs_kernel"],
                  [a |-> "fs", hs |-> "hs_fs_blocked"],
                  [a |-> "fs", hs |-> "hs_filesystem"]>>]

(* The connections each client opens, in order: the server and the         *)
(* handshake it sends to it.                                               *)
Enlaces == [cpu |-> <<[a |-> "memoria", hs |-> "hs_cpu"]>>,
            fs |-> <<[a |-> "memoria", hs |-> "hs_filesystem"]>>,
            kernel |-> <<[a |-> "cpu", hs |-> "hs_cpu"],
                         [a |-> "memoria", hs |-> "hs_kernel"],
                         [a |-> "fs", hs |-> "hs_filesystem"],
                         [a |-> "fs", hs |-> "hs_fs_blocked"]>>]

(* The handshakes each server waits for, one per client it accepts. *)
Espera == [memoria |-> <<"hs_cpu", "hs_filesystem", "hs_kernel">>,
           cpu |-> <<"hs_cpu">>,
           fs |-> <<"hs_filesystem", "hs_fs_blocked">>]

(* What memoria sends to its third client once it has accepted it: the     *)
(* announcement of buscarSegmentoSegunTamanio that there was room for      *)
(* segment zero, segment zero, cant_segmentos and the table.               *)
Tablas == <<"header_general", "hs_kernel", "hs_aux", "hs_aux">>

VARIABLES
    pc,         \* where each process is
    vez,        \* how many times each module has been launched
    paso,       \* the connection of Enlaces each client is opening
    oye,        \* the server listens at the port of its configuration
    cola,       \* connections that its accept has not returned yet
    aceptadas,  \* connections that its accept has returned
    saludos,    \* connections on which the client has sent its handshake
    con,        \* the launch of the server each client is connected to
    correo,     \* headers on their way to each client, by connection
    mandados,   \* how much of Tablas memoria has sent
    leidos,     \* what the kernel has read of Tablas
    caidas      \* kills so far

vars == <<pc, vez, paso, oye, cola, aceptadas, saludos, con, correo,
          mandados, leidos, caidas>>
servidor == <<oye, cola, aceptadas, mandados>>

Hs == {"hs_cpu", "hs_filesystem", "hs_kernel", "hs_fs_blocked"}
Cabecera == {"header_general", "hs_kernel", "hs_aux"}
Conexion == [de : Clientes, hs : Hs, vez : Nat]
Enlace == Clientes \X Hs

Init ==
    /\ pc = [m \in Modulos |-> "caido"]
    /\ vez = [m \in Modulos |-> 0]
    /\ paso = [m \in Clientes |-> 1]
    /\ oye = [s \in Servidores |-> FALSE]
    /\ cola = [s \in Servidores |-> <<>>]
    /\ aceptadas = [s \in Servidores |-> <<>>]
    /\ saludos = {}
    /\ con = [e \in Enlace |-> 0]
    /\ correo = [e \in Enlace |-> <<>>]
    /\ mandados = 0 /\ leidos = <<>> /\ caidas = 0

Vivo(m) == pc[m] # "caido"
Ir(m, e) == pc' = [pc EXCEPT ![m] = e]

(* The process ends, whoever ends it: its sockets close with it. *)
Termina(m) ==
    /\ Ir(m, "caido")
    /\ oye' = [s \in Servidores |-> s # m /\ oye[s]]
    /\ cola' = [s \in Servidores |-> IF s = m THEN <<>> ELSE cola[s]]
    /\ aceptadas' = [s \in Servidores |-> IF s = m THEN <<>> ELSE aceptadas[s]]
    /\ con' = [e \in Enlace |-> IF e[1] = m THEN 0 ELSE con[e]]
    /\ correo' = [e \in Enlace |-> IF e[1] = m THEN <<>> ELSE correo[e]]
    /\ mandados' = IF m = "memoria" THEN 0 ELSE mandados
    /\ leidos' = IF m = "kernel" THEN <<>> ELSE leidos
    /\ UNCHANGED <<vez, paso, saludos>>

Lanzar(m) ==
    /\ pc[m] = "caido" /\ vez[m] < Veces
    /\ vez' = [vez EXCEPT ![m] = @ + 1]
    /\ Ir(m, IF m = "memoria" THEN "levanta" ELSE "conecta")
    /\ paso' = [c \in Clientes |-> IF c = m THEN 1 ELSE paso[c]]
    /\ UNCHANGED <<servidor, saludos, con, correo, leidos, caidas>>

Caer(m) ==
    /\ Vivo(m) /\ caidas < MaxCaidas
    /\ Termina(m) /\ caidas' = caidas + 1

-----------------------------------------------------------------------------
(* Clients. *)
Abre(m) == Enlaces[m][paso[m]]
EsteEnlace(m) == <<m, Abre(m).hs>>
NuevaConexion(m) == [de |-> m, hs |-> Abre(m).hs, vez |-> vez[m]]

(* connect.  The kernel does not look at the result of its fourth one:     *)
(* what it does with the descriptor -1 ends in the exit of                 *)
(* stream_recv_buffer.                                                     *)
Conectar(m) ==
    LET s == Abre(m).a IN
    /\ pc[m] = "conecta"
    /\ IF oye[s]
       THEN /\ con' = [con EXCEPT ![EsteEnlace(m)] = vez[s]]
            /\ cola' = [cola EXCEPT ![s] = Append(@, NuevaConexion(m))]
            /\ Ir(m, "saluda")
            /\ UNCHANGED <<vez, paso, oye, aceptadas, saludos, correo,
                           mandados, leidos>>
       ELSE Termina(m)
    /\ UNCHANGED caidas

Saludar(m) ==
    /\ pc[m] = "saluda"
    /\ saludos' = saludos \cup {NuevaConexion(m)}
    /\ Ir(m, "responde")
    /\ UNCHANGED <<vez, paso, servidor, con, correo, leidos, caidas>>

(* The process at the other end of the connection is gone. *)
Cortado(e, s) == pc[s] = "caido" \/ vez[s] # con[e]

(* Once its last connection is answered, a client goes on to be a server,  *)
(* or, the kernel, to read the tables.                                     *)
Sigue(m) == IF paso[m] < Len(Enlaces[m]) THEN "conecta"
            ELSE IF m = "kernel" THEN "tablas" ELSE "levanta"

RecibirSaludo(m) ==
    LET e == EsteEnlace(m) IN
    /\ pc[m] = "responde"
    /\ \/ /\ correo[e] # <<>> /\ Head(correo[e]) = "hs_aux"
          /\ correo' = [correo EXCEPT ![e] = Tail(@)]
          /\ Ir(m, Sigue(m))
          /\ paso' = [paso EXCEPT ![m] =
                        IF @ < Len(Enlaces[m]) THEN @ + 1 ELSE @]
          /\ UNCHANGED <<vez, servidor, saludos, con, leidos>>
       \/ /\ correo[e] # <<>> /\ Head(correo[e]) # "hs_aux"
          /\ Termina(m)
       \/ /\ correo[e] = <<>> /\ Cortado(e, Abre(m).a)
          /\ Termina(m)
    /\ UNCHANGED caidas

MemoriaDelKernel == <<"kernel", "hs_kernel">>

(* The four messages: a header that is not the expected one is logged and  *)
(* nothing else; a cut ends the kernel.                                    *)
RecibirTabla ==
    /\ pc["kernel"] = "tablas"
    /\ \/ /\ correo[MemoriaDelKernel] # <<>>
          /\ leidos' = Append(leidos, Head(correo[MemoriaDelKernel]))
          /\ correo' = [correo EXCEPT ![MemoriaDelKernel] = Tail(@)]
          /\ Ir("kernel", IF Len(leidos') = Len(Tablas) THEN "sirve"
                          ELSE "tablas")
          /\ UNCHANGED <<vez, paso, servidor, saludos, con>>
       \/ /\ correo[MemoriaDelKernel] = <<>>
          /\ Cortado(MemoriaDelKernel, "memoria")
          /\ Termina("kernel")
    /\ UNCHANGED caidas

(* While it serves, a client learns that a server is gone when it uses the *)
(* connection, which may be never.                                         *)
NotarElCorte(m) ==
    /\ pc[m] = "sirve"
    /\ \E i \in DOMAIN Enlaces[m] :
           Cortado(<<m, Enlaces[m][i].hs>>, Enlaces[m][i].a)
    /\ Termina(m)
    /\ UNCHANGED caidas

-----------------------------------------------------------------------------
(* Servers. *)

(* iniciar_servidor does not look at the result of bind, which fails while *)
(* connections of the previous launch linger on the port: it then listens  *)
(* at a port that nobody knows.                                            *)
Levantar(s) ==
    /\ pc[s] = "levanta"
    /\ \E puerto \in BOOLEAN :
           /\ vez[s] = 1 => puerto
           /\ oye' = [oye EXCEPT ![s] = puerto]
    /\ Ir(s, "acepta")
    /\ UNCHANGED <<vez, paso, cola, aceptadas, saludos, con, correo, mandados,
                   leidos, caidas>>

Aceptar(s) ==
    /\ pc[s] = "acepta" /\ cola[s] # <<>>
    /\ aceptadas' = [aceptadas EXCEPT ![s] = Append(@, Head(cola[s]))]
    /\ cola' = [cola EXCEPT ![s] = Tail(@)]
    /\ Ir(s, "saludo")
    /\ UNCHANGED <<vez, paso, oye, saludos, con, correo, mandados, leidos,
                   caidas>>

ClienteVivo(x) == Vivo(x.de) /\ vez[x.de] = x.vez

(* A send: lost when the process at the other end is gone. *)
Enviar(x, h) ==
    correo' = IF ClienteVivo(x)
              THEN [correo EXCEPT ![<<x.de, x.hs>>] = Append(@, h)]
              ELSE correo

EsElEsperadoSinMirar(s) == Len(aceptadas[s]) <= Len(Espera[s])

EsElEsperado(s) == Last(aceptadas[s]).hs = Espera[s][Len(aceptadas[s])]

TrasElSaludoVuelve(s) ==
    IF s = "memoria" /\ Len(aceptadas[s]) = 3 THEN "manda" ELSE "acepta"

TrasElSaludo(s) ==
    IF Len(aceptadas[s]) < Len(Espera[s]) THEN "acepta"
    ELSE IF s = "memoria" THEN "manda" ELSE "sirve"

(* The handshake of the client just accepted.  cpu and filesystem exit     *)
(* when it is not the one they wait for; memoria does not look at the      *)
(* result of handshake(), which answers nothing, and keeps the client in   *)
(* that place.  Every one of them exits if the client goes without it.     *)
LeerSaludo(s) ==
    LET x == Last(aceptadas[s]) IN
    /\ pc[s] = "saludo"
    /\ \/ /\ x \in saludos /\ EsElEsperado(s)
          /\ Enviar(x, "hs_aux")
          /\ Ir(s, TrasElSaludo(s))
          /\ UNCHANGED <<vez, paso, servidor, saludos, con, leidos>>
       \/ /\ x \in saludos /\ ~EsElEsperado(s) /\ s = "memoria"
          /\ Ir(s, TrasElSaludo(s))
          /\ UNCHANGED <<vez, paso, servidor, saludos, con, correo, leidos>>
       \/ /\ x \in saludos /\ ~EsElEsperado(s) /\ s # "memoria"
          /\ Termina(s)
       \/ /\ x \notin saludos /\ ~ClienteVivo(x)
          /\ Termina(s)
    /\ UNCHANGED caidas

MandarTablaSinAnuncio ==
    LET x == Last(aceptadas["memoria"]) IN
    /\ pc["memoria"] = "manda" /\ mandados < 3
    /\ Enviar(x, Tablas[mandados + 2])
    /\ mandados' = mandados + 1
    /\ Ir("memoria", IF mandados' = 3 THEN "sirve" ELSE "manda")
    /\ UNCHANGED <<vez, paso, oye, cola, aceptadas, saludos, con, leidos, caidas>>

(* memoria sends the tables to its third client, whoever it is; a second   *)
(* send to a client that is gone may end memoria (SIGPIPE).                *)
MandarTabla ==
    LET x == Last(aceptadas["memoria"]) IN
    /\ pc["memoria"] = "manda"
    /\ \/ /\ Enviar(x, Tablas[mandados + 1])
          /\ mandados' = mandados + 1
          /\ Ir("memoria", IF mandados' = Len(Tablas) THEN "sirve" ELSE "manda")
          /\ UNCHANGED <<vez, paso, oye, cola, aceptadas, saludos, con, leidos>>
       \/ /\ ~ClienteVivo(x) /\ mandados > 0
          /\ Termina("memoria")
    /\ UNCHANGED caidas

(* The thread that reads the kernel ends its process at the cut: in cpu,   *)
(* filesystem (the first of its two sockets) and memoria (its third).      *)
DelKernel == [cpu |-> 1, fs |-> 1, memoria |-> 3]

AtenderElCorte(s) ==
    /\ pc[s] = "sirve"
    /\ ~ClienteVivo(aceptadas[s][DelKernel[s]])
    /\ Termina(s)
    /\ UNCHANGED caidas

(* The threads of memoria's first two clients read an uninitialised header *)
(* at the cut: one of a request ends in the exit of stream_recv_buffer,    *)
(* any other leaves the thread looping.                                    *)
CabeceraSinLeer ==
    /\ Vivo("memoria")
    /\ \E i \in {1, 2} :
           /\ i <= Len(aceptadas["memoria"])
           /\ i = Len(aceptadas["memoria"]) => pc["memoria"] # "saludo"
           /\ ~ClienteVivo(aceptadas["memoria"][i])
    /\ Termina("memoria")
    /\ UNCHANGED caidas

-----------------------------------------------------------------------------
Avanzar ==
    \/ \E m \in Clientes : Conectar(m) \/ Saludar(m) \/ RecibirSaludo(m)
    \/ RecibirTabla
    \/ \E s \in Servidores :
           Levantar(s) \/ Aceptar(s) \/ LeerSaludo(s) \/ AtenderElCorte(s)
    \/ MandarTabla

Next ==
    \/ Avanzar
    \/ \E m \in Modulos : Lanzar(m) \/ Caer(m)
    \/ \E m \in Clientes : NotarElCorte(m)
    \/ CabeceraSinLeer

Spec == Init /\ [][Next]_vars

(* A process that is not blocked is scheduled; nobody has to launch or to  *)
(* kill one, nor to use a connection that was cut.                         *)
SpecJusta ==
    /\ Spec
    /\ \A m \in Clientes :
           WF_vars(Conectar(m) \/ Saludar(m) \/ RecibirSaludo(m))
    /\ WF_vars(RecibirTabla)
    /\ \A s \in Servidores :
           WF_vars(Levantar(s) \/ Aceptar(s) \/ LeerSaludo(s)
                       \/ AtenderElCorte(s))
    /\ WF_vars(MandarTabla)

-----------------------------------------------------------------------------
(* Types; and no server has accepted more clients than it waits for. *)
TypeOK ==
    /\ pc \in [Modulos -> {"caido", "conecta", "saluda", "responde", "levanta",
                           "acepta", "saludo", "manda", "tablas", "sirve"}]
    /\ vez \in [Modulos -> 0..Veces]
    /\ paso \in [Clientes -> 1..4]
    /\ \A m \in Clientes : paso[m] <= Len(Enlaces[m])
    /\ oye \in [Servidores -> BOOLEAN]
    /\ cola \in [Servidores -> Seq(Conexion)]
    /\ aceptadas \in [Servidores -> Seq(Conexion)]
    /\ \A s \in Servidores : Len(aceptadas[s]) <= Len(Espera[s])
    /\ saludos \subseteq Conexion
    /\ con \in [Enlace -> Nat]
    /\ correo \in [Enlace -> Seq(Cabecera)]
    /\ mandados \in 0..Len(Tablas) /\ leidos \in Seq(Cabecera)
    /\ caidas \in 0..MaxCaidas

Propia(m, i) == [de |-> m, hs |-> Enlaces[m][i].hs, vez |-> vez[m]]

(* Whoever was launched when, and whoever was killed: a kernel that serves *)
(* is the only client of the cpu and of the two sockets of the filesystem, *)
(* and memoria, if it is up, has those very launches of cpu and filesystem *)
(* in their places and this kernel in the third (memoria.c:50-68,          *)
(* kernel.c:63-131): the requests of one process never reach two systems.  *)
(* Of the first launch of memoria only: relaunched alone, it takes clients *)
(* while the cpu goes on with the connection to the one that died.         *)
ParejasBien ==
    vez["memoria"] = 1 /\ pc["kernel"] = "sirve" =>
        /\ con[<<"kernel", "hs_filesystem">>] = con[<<"kernel", "hs_fs_blocked">>]
        /\ ~Cortado(<<"kernel", "hs_cpu">>, "cpu") =>
               aceptadas["cpu"] = <<Propia("kernel", 1)>>
        /\ ~Cortado(<<"kernel", "hs_filesystem">>, "fs") =>
               aceptadas["fs"] = <<Propia("kernel", 3), Propia("kernel", 4)>>
        /\ ~Cortado(MemoriaDelKernel, "memoria") =>
               aceptadas["memoria"] =
                   <<[de |-> "cpu", hs |-> "hs_cpu",
                      vez |-> con[<<"kernel", "hs_cpu">>]],
                     [de |-> "fs", hs |-> "hs_filesystem",
                      vez |-> con[<<"kernel", "hs_filesystem">>]],
                     Propia("kernel", 2)>>

(* The kernel never logs "agarro mal el header" at its start: what it      *)
(* reads after its handshakes is the tables, whole and in memoria's order, *)
(* though nothing but the order tells them from the answer to its greeting *)
(* (kernel.c:135-167).                                                     *)
TablasEnOrden ==
    /\ pc["kernel"] \in {"tablas", "sirve"} =>
           IsPrefix(leidos \o correo[MemoriaDelKernel], Tablas)
    /\ pc["kernel"] = "sirve" => leidos = Tablas

(* cpu and filesystem, in memoria's order, are up and wait for the kernel, *)
(* which was just launched; memoria waits for its third client.            *)
Listos ==
    /\ \A s \in {"cpu", "fs"} :
           /\ pc[s] = "acepta" /\ oye[s]
           /\ cola[s] = <<>> /\ aceptadas[s] = <<>>
    /\ pc["memoria"] = "acepta" /\ Len(aceptadas["memoria"]) = 2
    /\ cola["memoria"] = <<>>
    /\ pc["kernel"] = "conecta" /\ paso["kernel"] = 1

(* Launched in that order, whatever happened before, the four end up       *)
(* serving unless one is killed meanwhile: no handshake waits for another  *)
(* in a circle.                                                            *)
ArrancaBien ==
    \A k \in 0..MaxCaidas :
        (Listos /\ caidas = k) ~>
            ((\A m \in Modulos : pc[m] = "sirve") \/ caidas # k)
=============================================================================
