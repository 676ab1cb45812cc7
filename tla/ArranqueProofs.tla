--------------------------- MODULE ArranqueProofs ---------------------------
(***************************************************************************)
(* The start of the four modules, for any number of launches and kills of  *)
(* each: theorems of Arranque.  Every invariant is about a connection and  *)
(* the place it has at its server, whether accept has returned it or not.  *)
(***************************************************************************)
EXTENDS Arranque, TLAPS, SequenceTheorems

(* Connection i of client m: how many it opens, the server, the handshake  *)
(* and the link.                                                           *)
N(m)    == Len(Enlaces[m])
A(m, i) == Enlaces[m][i].a
H(m, i) == Enlaces[m][i].hs
L(m, i) == <<m, H(m, i)>>

(* What m has opened in this launch, and what it has read the answer to.   *)
Abierta(m, i)    == /\ Vivo(m)
                    /\ i < paso[m] \/ (i = paso[m] /\ pc[m] # "conecta")
Respondida(m, i) == /\ Vivo(m)
                    /\ \/ i < paso[m]
                       \/ i = paso[m] /\ pc[m] \notin {"conecta", "saluda", "responde"}

(* Where each process may be, and what it holds there.                     *)
Etapas ==
  /\ \A s \in Servidores :
       /\ pc[s] \in {"caido", "conecta", "saluda", "responde", "levanta"} =>
            aceptadas[s] = << >> /\ cola[s] = << >> /\ ~oye[s]
       /\ pc[s] = "acepta" => Len(aceptadas[s]) < Len(Espera[s])
       /\ pc[s] = "saludo" => Len(aceptadas[s]) >= 1
       /\ pc[s] \in {"manda", "sirve"} => Len(aceptadas[s]) = Len(Espera[s])
       /\ pc[s] # "tablas" /\ (pc[s] = "manda" => s = "memoria")
  /\ pc["kernel"] \notin {"levanta", "acepta", "saludo", "manda"}
  /\ pc["memoria"] \notin {"conecta", "saluda", "responde"}
Avances ==
  /\ pc["memoria"] = "manda" => mandados < 4
  /\ pc["memoria"] \notin {"manda", "sirve"} => mandados = 0
  /\ pc["kernel"] \notin {"tablas", "sirve"} => leidos = << >>
  /\ pc["kernel"] = "tablas" => Len(leidos) < 4
  /\ pc["kernel"] = "sirve" => Len(leidos) = 4
  /\ \A m \in Clientes :
       pc[m] \notin {"caido", "conecta", "saluda", "responde"} => paso[m] = N(m)
  /\ \A m \in Modulos : Vivo(m) => vez[m] >= 1

Inv1 == TypeOK /\ Etapas /\ Avances

-----------------------------------------------------------------------------
(* The tables of the source.                                               *)
LEMMA LosEnlaces ==
  /\ N("cpu") = 1 /\ A("cpu", 1) = "memoria" /\ H("cpu", 1) = "hs_cpu"
  /\ N("fs") = 1 /\ A("fs", 1) = "memoria" /\ H("fs", 1) = "hs_filesystem"
  /\ N("kernel") = 4
  /\ A("kernel", 1) = "cpu" /\ H("kernel", 1) = "hs_cpu"
  /\ A("kernel", 2) = "memoria" /\ H("kernel", 2) = "hs_kernel"
  /\ A("kernel", 3) = "fs" /\ H("kernel", 3) = "hs_filesystem"
  /\ A("kernel", 4) = "fs" /\ H("kernel", 4) = "hs_fs_blocked"
<1>1. N("cpu") = 1 /\ A("cpu", 1) = "memoria" /\ H("cpu", 1) = "hs_cpu"
  BY DEF N, A, H, Enlaces
<1>2. N("fs") = 1 /\ A("fs", 1) = "memoria" /\ H("fs", 1) = "hs_filesystem"
  BY DEF N, A, H, Enlaces
<1>3. /\ N("kernel") = 4
      /\ A("kernel", 1) = "cpu" /\ H("kernel", 1) = "hs_cpu"
      /\ A("kernel", 2) = "memoria" /\ H("kernel", 2) = "hs_kernel"
  BY DEF N, A, H, Enlaces
<1>4. /\ A("kernel", 3) = "fs" /\ H("kernel", 3) = "hs_filesystem"
      /\ A("kernel", 4) = "fs" /\ H("kernel", 4) = "hs_fs_blocked"
  BY DEF A, H, Enlaces
<1>. QED BY <1>1, <1>2, <1>3, <1>4

LEMMA UnEnlace ==
  ASSUME NEW m \in Clientes, NEW i \in 1 .. N(m)
  PROVE  \/ m = "cpu" /\ i = 1
         \/ m = "fs" /\ i = 1
         \/ m = "kernel" /\ i = 1
         \/ m = "kernel" /\ i = 2
         \/ m = "kernel" /\ i = 3
         \/ m = "kernel" /\ i = 4
  BY LosEnlaces DEF Clientes

LEMMA Enlazados ==
  ASSUME NEW m \in Clientes
  PROVE  /\ N(m) \in 1 .. 4 /\ m \in Modulos
         /\ \A i \in 1 .. N(m) :
              /\ A(m, i) \in Servidores /\ A(m, i) \in Modulos /\ A(m, i) # m
              /\ H(m, i) \in Hs /\ L(m, i) \in Enlace
              /\ \A j \in 1 .. N(m) : H(m, i) = H(m, j) => i = j
<1>1. N(m) \in 1 .. 4 /\ m \in Modulos
  BY LosEnlaces DEF Clientes, Modulos
<1>. SUFFICES ASSUME NEW i \in 1 .. N(m)
              PROVE  /\ A(m, i) \in Servidores /\ A(m, i) \in Modulos /\ A(m, i) # m
                     /\ H(m, i) \in Hs /\ L(m, i) \in Enlace
                     /\ \A j \in 1 .. N(m) : H(m, i) = H(m, j) => i = j
  BY <1>1
<1>2. A(m, i) \in Servidores /\ A(m, i) \in Modulos /\ A(m, i) # m /\ H(m, i) \in Hs
  BY UnEnlace, LosEnlaces DEF Servidores, Modulos, Hs
<1>3. ASSUME NEW j \in 1 .. N(m), H(m, i) = H(m, j) PROVE i = j
  <2>1. CASE m # "kernel"
    BY <2>1, UnEnlace
  <2>2. CASE m = "kernel"
    <3>1. i \in {1, 2, 3, 4} /\ j \in {1, 2, 3, 4}
      BY <2>2, UnEnlace
    <3>. QED BY <1>3, <2>2, <3>1, LosEnlaces
  <2>. QED BY <2>1, <2>2
<1>. QED BY <1>2, <1>3 DEF L, Enlace

LEMMA LasEsperas ==
  /\ Len(Espera["memoria"]) = 3 /\ Len(Espera["cpu"]) = 1 /\ Len(Espera["fs"]) = 2
  /\ Espera["memoria"][1] = "hs_cpu" /\ Espera["memoria"][2] = "hs_filesystem"
  /\ Espera["memoria"][3] = "hs_kernel" /\ Espera["cpu"][1] = "hs_cpu"
  /\ Espera["fs"][1] = "hs_filesystem" /\ Espera["fs"][2] = "hs_fs_blocked"
<1>1. /\ Len(Espera["memoria"]) = 3 /\ Espera["memoria"][1] = "hs_cpu"
      /\ Espera["memoria"][2] = "hs_filesystem" /\ Espera["memoria"][3] = "hs_kernel"
  BY DEF Espera
<1>2. Len(Espera["cpu"]) = 1 /\ Espera["cpu"][1] = "hs_cpu"
  BY DEF Espera
<1>3. /\ Len(Espera["fs"]) = 2 /\ Espera["fs"][1] = "hs_filesystem"
      /\ Espera["fs"][2] = "hs_fs_blocked"
  BY DEF Espera
<1>. QED BY <1>1, <1>2, <1>3

LEMMA LasTablas ==
  /\ Len(Tablas) = 4 /\ Tablas[1] = "header_general" /\ Tablas[2] = "hs_kernel"
  /\ Tablas[3] = "hs_aux" /\ Tablas[4] = "hs_aux"
  /\ Tablas \in Seq(Cabecera)
<1>1. /\ Len(Tablas) = 4 /\ Tablas[1] = "header_general" /\ Tablas[2] = "hs_kernel"
      /\ Tablas[3] = "hs_aux" /\ Tablas[4] = "hs_aux"
  BY DEF Tablas
<1>2. Tablas \in Seq(Cabecera)
  BY DEF Tablas, Cabecera
<1>. QED BY <1>1, <1>2

(* The connection a client is opening.                                     *)
LEMMA EnPaso ==
  ASSUME Inv1, NEW m \in Clientes
  PROVE  /\ paso[m] \in 1 .. N(m) /\ m \in Modulos
         /\ Abre(m).a = A(m, paso[m]) /\ Abre(m).hs = H(m, paso[m])
         /\ EsteEnlace(m) = L(m, paso[m])
         /\ NuevaConexion(m) = Propia(m, paso[m])
         /\ NuevaConexion(m) \in Conexion
<1>1. paso[m] \in 1 .. 4 /\ paso[m] <= N(m) /\ N(m) \in 1 .. 4 /\ m \in Modulos
  BY Enlazados DEF Inv1, TypeOK, N
<1>2. paso[m] \in 1 .. N(m)
  BY <1>1
<1>3. /\ Abre(m).a = A(m, paso[m]) /\ Abre(m).hs = H(m, paso[m])
      /\ EsteEnlace(m) = L(m, paso[m])
      /\ NuevaConexion(m) = Propia(m, paso[m])
  BY DEF Abre, A, H, L, EsteEnlace, NuevaConexion, Propia
<1>4. NuevaConexion(m) \in Conexion
  <2>1. H(m, paso[m]) \in Hs
    BY <1>2, Enlazados
  <2>2. vez[m] \in Nat
    BY <1>1 DEF Inv1, TypeOK
  <2>. QED BY <1>3, <2>1, <2>2 DEF NuevaConexion, Conexion
<1>. QED BY <1>1, <1>2, <1>3, <1>4

-----------------------------------------------------------------------------
(* Types and stages.                                                       *)
LEMMA Inv1_Init == Init => Inv1
<1>. SUFFICES ASSUME Init PROVE Inv1
  OBVIOUS
<1>. USE CotasAssumption DEF Init
<1>1. \A S : << >> \in Seq(S)
  OBVIOUS
<1>2. /\ \A m \in Clientes : paso[m] = 1
      /\ \A s \in Servidores : s \in Modulos /\ pc[s] = "caido"
      /\ \A m \in Clientes : m \in Modulos /\ pc[m] = "caido"
      /\ "kernel" \in Modulos /\ "memoria" \in Modulos
  BY DEF Clientes, Servidores, Modulos
<1>3. TypeOK
  <2>1. paso \in [Clientes -> 1 .. 4] /\ \A m \in Clientes : paso[m] <= Len(Enlaces[m])
    <3>2. paso = [m \in Clientes |-> 1] /\ 1 \in 1 .. 4
      OBVIOUS
    <3>3. paso \in [Clientes -> 1 .. 4]
      BY <3>2
    <3>4. ASSUME NEW m \in Clientes PROVE paso[m] <= Len(Enlaces[m])
      <4>1. paso[m] = 1 /\ N(m) \in 1 .. 4
        BY <1>2, Enlazados
      <4>2. paso[m] <= N(m)
        BY <4>1
      <4>. QED BY <4>2 DEF N
    <3>. QED BY <3>3, <3>4
  <2>2. /\ cola \in [Servidores -> Seq(Conexion)]
        /\ aceptadas \in [Servidores -> Seq(Conexion)]
        /\ correo \in [Enlace -> Seq(Cabecera)] /\ leidos \in Seq(Cabecera)
    BY <1>1
  <2>3. \A s \in Servidores : Len(aceptadas[s]) <= Len(Espera[s])
    <3>1. \A s \in Servidores : Len(Espera[s]) \in {1, 2, 3}
      BY LasEsperas DEF Servidores
    <3>2. \A s \in Servidores : Len(aceptadas[s]) = 0
      OBVIOUS
    <3>. QED BY <3>1, <3>2
  <2>4. mandados \in 0 .. Len(Tablas)
    BY LasTablas
  <2>. QED BY <2>1, <2>2, <2>3, <2>4 DEF TypeOK
<1>4. Etapas
  BY <1>2 DEF Etapas
<1>5. Avances
  BY <1>2 DEF Avances, Vivo
<1>. QED BY <1>3, <1>4, <1>5 DEF Inv1

(* A process ends, whoever ends it.                                        *)
LEMMA Inv1_Termina ==
  ASSUME Inv1, NEW m \in Modulos, Termina(m), caidas' \in 0 .. MaxCaidas
  PROVE  Inv1'
<1>. USE DEF Inv1
<1>1. /\ pc'[m] = "caido" /\ \A n \in Modulos \ {m} : pc'[n] = pc[n]
      /\ pc' \in [Modulos -> {"caido", "conecta", "saluda", "responde", "levanta",
                              "acepta", "saludo", "manda", "tablas", "sirve"}]
  BY DEF Termina, Ir, TypeOK
<1>2. /\ \A s \in Servidores \ {m} :
           /\ aceptadas'[s] = aceptadas[s] /\ cola'[s] = cola[s] /\ oye'[s] = oye[s]
      /\ m \in Servidores => aceptadas'[m] = << >> /\ cola'[m] = << >> /\ oye'[m] = FALSE
  BY DEF Termina, TypeOK
<1>3. /\ "kernel" \in Modulos /\ "memoria" \in Modulos /\ Servidores \subseteq Modulos
      /\ Clientes \subseteq Modulos
  BY DEF Clientes, Servidores, Modulos
<1>4. UNCHANGED <<vez, paso, saludos>>
  BY DEF Termina
<1>5. TypeOK'
  <2>1. \A S : << >> \in Seq(S) /\ Len(<< >>) = 0
    OBVIOUS
  <2>2. \A s \in Servidores : Len(Espera[s]) \in {1, 2, 3}
    BY LasEsperas DEF Servidores
  <2>3. \A s \in Servidores : Len(aceptadas'[s]) <= Len(Espera[s])
    <3>1. ASSUME NEW s \in Servidores, s = m PROVE Len(aceptadas'[s]) <= Len(Espera[s])
      <4>1. aceptadas'[s] = << >>
        BY <1>2, <3>1
      <4>2. Len(aceptadas'[s]) = 0
        BY <2>1, <4>1
      <4>. QED BY <2>2, <4>2
    <3>2. ASSUME NEW s \in Servidores, s # m PROVE Len(aceptadas'[s]) <= Len(Espera[s])
      BY <1>2, <3>2 DEF TypeOK
    <3>. QED BY <3>1, <3>2
  <2>4. oye' \in [Servidores -> BOOLEAN]
    BY DEF Termina, TypeOK
  <2>5. /\ cola' \in [Servidores -> Seq(Conexion)]
        /\ aceptadas' \in [Servidores -> Seq(Conexion)]
    BY <2>1 DEF Termina, TypeOK
  <2>6. correo' \in [Enlace -> Seq(Cabecera)] /\ leidos' \in Seq(Cabecera)
    BY <2>1 DEF Termina, TypeOK
  <2>7. con' \in [Enlace -> Nat]
    BY DEF Termina, TypeOK
  <2>8. mandados' \in 0 .. Len(Tablas)
    BY LasTablas DEF Termina, TypeOK
  <2>. QED BY <1>1, <1>4, <2>3, <2>4, <2>5, <2>6, <2>7, <2>8 DEF TypeOK
<1>6. Etapas'
  <2>1. ASSUME NEW s \in Servidores
        PROVE  /\ pc'[s] \in {"caido", "conecta", "saluda", "responde", "levanta"} =>
                    aceptadas'[s] = << >> /\ cola'[s] = << >> /\ ~oye'[s]
               /\ pc'[s] = "acepta" => Len(aceptadas'[s]) < Len(Espera[s])
               /\ pc'[s] = "saludo" => Len(aceptadas'[s]) >= 1
               /\ pc'[s] \in {"manda", "sirve"} => Len(aceptadas'[s]) = Len(Espera[s])
               /\ pc'[s] # "tablas" /\ (pc'[s] = "manda" => s = "memoria")
    <3>1. CASE s = m
      BY <1>1, <1>2, <3>1
    <3>2. CASE s # m
      BY <1>1, <1>2, <1>3, <3>2 DEF Etapas
    <3>. QED BY <3>1, <3>2
  <2>2. /\ pc'["kernel"] \notin {"levanta", "acepta", "saludo", "manda"}
        /\ pc'["memoria"] \notin {"conecta", "saluda", "responde"}
    BY <1>1, <1>3 DEF Etapas
  <2>. QED BY <2>1, <2>2 DEF Etapas
<1>7. Avances'
  <2>1. /\ pc'["memoria"] = "manda" => mandados' < 4
        /\ pc'["memoria"] \notin {"manda", "sirve"} => mandados' = 0
    BY <1>1, <1>3 DEF Avances, Termina
  <2>2. /\ pc'["kernel"] \notin {"tablas", "sirve"} => leidos' = << >>
        /\ pc'["kernel"] = "tablas" => Len(leidos') < 4
        /\ pc'["kernel"] = "sirve" => Len(leidos') = 4
    BY <1>1, <1>3 DEF Avances, Termina
  <2>3. \A n \in Clientes :
          pc'[n] \notin {"caido", "conecta", "saluda", "responde"} => paso'[n] = N(n)
    BY <1>1, <1>3, <1>4 DEF Avances
  <2>4. \A n \in Modulos : Vivo(n)' => vez'[n] >= 1
    BY <1>1, <1>4 DEF Avances, Vivo
  <2>. QED BY <2>1, <2>2, <2>3, <2>4 DEF Avances
<1>. QED BY <1>5, <1>6, <1>7

(* A process is launched.                                                  *)
LEMMA Inv1_Lanzar ==
  ASSUME Inv1, NEW m \in Modulos, Lanzar(m) PROVE Inv1'
<1>. USE DEF Inv1
<1>1. /\ pc'[m] = (IF m = "memoria" THEN "levanta" ELSE "conecta") /\ pc[m] = "caido"
      /\ \A n \in Modulos \ {m} : pc'[n] = pc[n] /\ vez'[n] = vez[n]
      /\ pc' \in [Modulos -> {"caido", "conecta", "saluda", "responde", "levanta",
                              "acepta", "saludo", "manda", "tablas", "sirve"}]
  BY DEF Lanzar, Ir, TypeOK
<1>2. vez'[m] = vez[m] + 1 /\ vez[m] \in 0 .. Veces /\ vez' \in [Modulos -> 0 .. Veces]
  <2>1. vez[m] \in 0 .. Veces /\ vez[m] < Veces /\ Veces \in Nat
    BY CotasAssumption DEF Lanzar, TypeOK
  <2>2. vez[m] + 1 \in 0 .. Veces
    BY <2>1
  <2>3. vez' = [vez EXCEPT ![m] = vez[m] + 1] /\ vez \in [Modulos -> 0 .. Veces]
    BY DEF Lanzar, TypeOK
  <2>. QED BY <2>1, <2>2, <2>3
<1>3. /\ \A c \in Clientes : c # m => paso'[c] = paso[c]
      /\ m \in Clientes => paso'[m] = 1
      /\ paso' \in [Clientes -> 1 .. 4]
  BY DEF Lanzar, TypeOK
<1>4. UNCHANGED <<oye, cola, aceptadas, mandados, saludos, con, correo, leidos, caidas>>
  BY DEF Lanzar, servidor
<1>5. /\ "kernel" \in Modulos /\ "memoria" \in Modulos /\ Servidores \subseteq Modulos
      /\ Clientes \subseteq Modulos
  BY DEF Clientes, Servidores, Modulos
<1>6. TypeOK'
  <2>1. \A c \in Clientes : paso'[c] <= Len(Enlaces[c])
    <3>. SUFFICES ASSUME NEW c \in Clientes PROVE paso'[c] <= N(c)
      BY DEF N
    <3>1. N(c) \in 1 .. 4 /\ paso[c] <= N(c)
      BY Enlazados DEF TypeOK, N
    <3>. QED BY <1>3, <3>1
  <2>. QED BY <1>1, <1>2, <1>3, <1>4, <2>1 DEF TypeOK
<1>7. Etapas'
  <2>1. ASSUME NEW s \in Servidores
        PROVE  /\ pc'[s] \in {"caido", "conecta", "saluda", "responde", "levanta"} =>
                    aceptadas'[s] = << >> /\ cola'[s] = << >> /\ ~oye'[s]
               /\ pc'[s] = "acepta" => Len(aceptadas'[s]) < Len(Espera[s])
               /\ pc'[s] = "saludo" => Len(aceptadas'[s]) >= 1
               /\ pc'[s] \in {"manda", "sirve"} => Len(aceptadas'[s]) = Len(Espera[s])
               /\ pc'[s] # "tablas" /\ (pc'[s] = "manda" => s = "memoria")
    <3>1. CASE s = m
      BY <1>1, <1>4, <3>1 DEF Etapas
    <3>2. CASE s # m
      BY <1>1, <1>4, <1>5, <3>2 DEF Etapas
    <3>. QED BY <3>1, <3>2
  <2>2. /\ pc'["kernel"] \notin {"levanta", "acepta", "saludo", "manda"}
        /\ pc'["memoria"] \notin {"conecta", "saluda", "responde"}
    BY <1>1, <1>5 DEF Etapas
  <2>. QED BY <2>1, <2>2 DEF Etapas
<1>8. Avances'
  <2>1. /\ pc'["memoria"] = "manda" => mandados' < 4
        /\ pc'["memoria"] \notin {"manda", "sirve"} => mandados' = 0
    BY <1>1, <1>4, <1>5 DEF Avances
  <2>2. /\ pc'["kernel"] \notin {"tablas", "sirve"} => leidos' = << >>
        /\ pc'["kernel"] = "tablas" => Len(leidos') < 4
        /\ pc'["kernel"] = "sirve" => Len(leidos') = 4
    BY <1>1, <1>4, <1>5 DEF Avances
  <2>3. ASSUME NEW n \in Clientes,
               pc'[n] \notin {"caido", "conecta", "saluda", "responde"}
        PROVE  paso'[n] = N(n)
    <3>1. n # m
      BY <1>1, <2>3 DEF Clientes
    <3>. QED BY <1>1, <1>3, <1>5, <2>3, <3>1 DEF Avances
  <2>4. ASSUME NEW n \in Modulos, Vivo(n)' PROVE vez'[n] >= 1
    <3>1. CASE n = m
      BY <1>2, <3>1
    <3>2. CASE n # m
      BY <1>1, <2>4, <3>2 DEF Avances, Vivo
    <3>. QED BY <3>1, <3>2
  <2>. QED BY <2>1, <2>2, <2>3, <2>4 DEF Avances
<1>. QED BY <1>6, <1>7, <1>8

LEMMA LosModulos ==
  /\ "kernel" \in Modulos /\ "memoria" \in Modulos /\ "kernel" \in Clientes
  /\ "memoria" \in Servidores /\ "memoria" \notin Clientes /\ "kernel" \notin Servidores
  /\ Servidores \subseteq Modulos /\ Clientes \subseteq Modulos
  BY DEF Clientes, Servidores, Modulos

(* connect, with the server at its port.                                   *)
LEMMA Inv1_Conectar ==
  ASSUME Inv1, NEW m \in Clientes, Conectar(m), oye[Abre(m).a] PROVE Inv1'
<1>. USE LosModulos DEF Inv1
<1>1. PICK s \in Servidores : s = Abre(m).a
  <2>. QED BY EnPaso, Enlazados
<1>2. /\ pc[m] = "conecta" /\ pc' = [pc EXCEPT ![m] = "saluda"] /\ oye[s]
      /\ con' = [con EXCEPT ![EsteEnlace(m)] = vez[s]]
      /\ cola' = [cola EXCEPT ![s] = Append(@, NuevaConexion(m))]
      /\ UNCHANGED <<vez, paso, oye, aceptadas, saludos, correo, mandados, leidos, caidas>>
  BY <1>1 DEF Conectar, Ir
<1>3. TypeOK'
  <2>1. NuevaConexion(m) \in Conexion
    BY EnPaso
  <2>2. cola' \in [Servidores -> Seq(Conexion)]
    <3>1. Append(cola[s], NuevaConexion(m)) \in Seq(Conexion)
      BY <2>1 DEF TypeOK
    <3>. QED BY <1>2, <3>1 DEF TypeOK
  <2>3. con' \in [Enlace -> Nat]
    <3>1. vez[s] \in Nat
      BY DEF TypeOK
    <3>. QED BY <1>2, <3>1 DEF TypeOK
  <2>4. pc' \in [Modulos -> {"caido", "conecta", "saluda", "responde", "levanta",
                             "acepta", "saludo", "manda", "tablas", "sirve"}]
    BY <1>2 DEF TypeOK
  <2>. QED BY <1>2, <2>2, <2>3, <2>4 DEF TypeOK
<1>4. Etapas'
  <2>1. ASSUME NEW r \in Servidores
        PROVE  /\ pc'[r] \in {"caido", "conecta", "saluda", "responde", "levanta"} =>
                    aceptadas'[r] = << >> /\ cola'[r] = << >> /\ ~oye'[r]
               /\ pc'[r] = "acepta" => Len(aceptadas'[r]) < Len(Espera[r])
               /\ pc'[r] = "saludo" => Len(aceptadas'[r]) >= 1
               /\ pc'[r] \in {"manda", "sirve"} => Len(aceptadas'[r]) = Len(Espera[r])
               /\ pc'[r] # "tablas" /\ (pc'[r] = "manda" => r = "memoria")
    <3>1. r = s => pc'[r] = pc[r]
      BY <1>2 DEF Etapas, TypeOK
    <3>2. r # s => cola'[r] = cola[r]
      BY <1>2 DEF TypeOK
    <3>3. pc'[r] = pc[r] \/ (r = m /\ pc[r] = "conecta" /\ pc'[r] = "saluda")
      BY <1>2 DEF TypeOK
    <3>4. aceptadas'[r] = aceptadas[r] /\ oye'[r] = oye[r]
      BY <1>2
    <3>5. CASE r = s
      BY <1>2, <3>1, <3>4, <3>5 DEF Etapas
    <3>6. CASE r # s
      BY <3>2, <3>3, <3>4, <3>6 DEF Etapas
    <3>. QED BY <3>5, <3>6
  <2>2. /\ pc'["kernel"] \notin {"levanta", "acepta", "saludo", "manda"}
        /\ pc'["memoria"] \notin {"conecta", "saluda", "responde"}
    BY <1>2 DEF Etapas, TypeOK
  <2>. QED BY <2>1, <2>2 DEF Etapas
<1>5. Avances'
  BY <1>2 DEF Avances, TypeOK, Vivo
<1>. QED BY <1>3, <1>4, <1>5

(* A step that leaves the server state of everybody alone and moves one    *)
(* client from one stage to another.                                       *)
LEMMA EtapasDeCliente ==
  ASSUME Inv1, NEW m \in Clientes, NEW e,
         pc' = [pc EXCEPT ![m] = e],
         pc[m] \in {"conecta", "saluda", "responde", "tablas"},
         e \in {"conecta", "saluda", "responde", "levanta", "tablas", "sirve"},
         e = "levanta" => m # "kernel",
         e \in {"tablas", "sirve"} => m = "kernel",
         UNCHANGED <<oye, cola, aceptadas>>
  PROVE  Etapas'
<1>. USE LosModulos DEF Inv1
<1>1. ASSUME NEW r \in Servidores
      PROVE  /\ pc'[r] \in {"caido", "conecta", "saluda", "responde", "levanta"} =>
                  aceptadas'[r] = << >> /\ cola'[r] = << >> /\ ~oye'[r]
             /\ pc'[r] = "acepta" => Len(aceptadas'[r]) < Len(Espera[r])
             /\ pc'[r] = "saludo" => Len(aceptadas'[r]) >= 1
             /\ pc'[r] \in {"manda", "sirve"} => Len(aceptadas'[r]) = Len(Espera[r])
             /\ pc'[r] # "tablas" /\ (pc'[r] = "manda" => r = "memoria")
  <2>1. CASE r = m
    <3>1. pc'[r] = e
      BY <2>1 DEF TypeOK
    <3>2. pc'[r] \in {"conecta", "saluda", "responde", "levanta"}
      BY <2>1, <3>1
    <3>3. aceptadas'[r] = << >> /\ cola'[r] = << >> /\ ~oye'[r]
      BY <2>1 DEF Etapas
    <3>. QED BY <3>2, <3>3
  <2>2. CASE r # m
    BY <2>2 DEF Etapas, TypeOK
  <2>. QED BY <2>1, <2>2
<1>2. /\ pc'["kernel"] \notin {"levanta", "acepta", "saludo", "manda"}
      /\ pc'["memoria"] \notin {"conecta", "saluda", "responde"}
  <2>1. pc'["memoria"] = pc["memoria"]
    BY DEF TypeOK
  <2>2. pc'["kernel"] = pc["kernel"] \/ (m = "kernel" /\ pc'["kernel"] = e)
    BY DEF TypeOK
  <2>. QED BY <2>1, <2>2 DEF Etapas
<1>. QED BY <1>1, <1>2 DEF Etapas

LEMMA Inv1_Saludar ==
  ASSUME Inv1, NEW m \in Clientes, Saludar(m) PROVE Inv1'
<1>. USE LosModulos DEF Inv1
<1>1. /\ pc[m] = "saluda" /\ pc' = [pc EXCEPT ![m] = "responde"]
      /\ saludos' = saludos \cup {NuevaConexion(m)}
      /\ UNCHANGED <<vez, paso, oye, cola, aceptadas, mandados, con, correo, leidos, caidas>>
  BY DEF Saludar, Ir, servidor
<1>2. NuevaConexion(m) \in Conexion
  BY EnPaso
<1>3. TypeOK'
  BY <1>1, <1>2 DEF TypeOK
<1>4. Etapas'
  BY <1>1, EtapasDeCliente
<1>5. Avances'
  BY <1>1 DEF Avances, TypeOK, Vivo
<1>. QED BY <1>3, <1>4, <1>5

(* The answer to the greeting of m, taken from its link.                   *)
Saluda(m) ==
  /\ pc[m] = "responde"
  /\ correo[EsteEnlace(m)] # << >> /\ Head(correo[EsteEnlace(m)]) = "hs_aux"
  /\ correo' = [correo EXCEPT ![EsteEnlace(m)] = Tail(@)]
  /\ Ir(m, Sigue(m))
  /\ paso' = [paso EXCEPT ![m] = IF @ < Len(Enlaces[m]) THEN @ + 1 ELSE @]
  /\ UNCHANGED <<vez, servidor, saludos, con, leidos, caidas>>

LEMMA Inv1_Saluda ==
  ASSUME Inv1, NEW m \in Clientes, Saluda(m) PROVE Inv1'
<1>. USE LosModulos DEF Inv1
<1>1. UNCHANGED <<vez, oye, cola, aceptadas, mandados, saludos, con, leidos, caidas>>
  BY DEF Saluda, servidor
<1>2. /\ paso[m] \in 1 .. N(m) /\ N(m) \in 1 .. 4 /\ EsteEnlace(m) \in Enlace
      /\ N(m) = 4 <=> m = "kernel"
  BY EnPaso, Enlazados, LosEnlaces DEF Clientes
<1>3. /\ pc[m] = "responde" /\ pc' = [pc EXCEPT ![m] = Sigue(m)]
      /\ paso' = [paso EXCEPT ![m] = IF paso[m] < N(m) THEN paso[m] + 1 ELSE paso[m]]
      /\ Sigue(m) = IF paso[m] < N(m) THEN "conecta"
                    ELSE IF m = "kernel" THEN "tablas" ELSE "levanta"
  BY DEF Saluda, Ir, N, Sigue
<1>4. /\ paso'[m] \in 1 .. N(m) /\ (paso[m] < N(m) => paso'[m] = paso[m] + 1)
      /\ ~(paso[m] < N(m)) => paso'[m] = N(m)
      /\ \A n \in Clientes \ {m} : paso'[n] = paso[n]
  <2>1. paso \in [Clientes -> 1 .. 4]
    BY DEF TypeOK
  <2>2. /\ paso'[m] = IF paso[m] < N(m) THEN paso[m] + 1 ELSE paso[m]
        /\ \A n \in Clientes \ {m} : paso'[n] = paso[n]
    BY <1>3, <2>1
  <2>3. \A b \in 1 .. 4 : \A a \in 1 .. b :
          /\ a < b => a + 1 \in 1 .. b
          /\ ~(a < b) => a = b
    OBVIOUS
  <2>. QED BY <1>2, <2>2, <2>3
<1>5. TypeOK'
  <2>1. \A n \in Clientes : paso'[n] <= Len(Enlaces[n])
    <3>1. \A n \in Clientes : paso[n] <= N(n)
      BY DEF TypeOK, N
    <3>2. \A n \in Clientes : paso'[n] <= N(n)
      BY <1>2, <1>4, <3>1
    <3>. QED BY <3>2 DEF N
  <2>2. paso' \in [Clientes -> 1 .. 4]
    <3>1. paso \in [Clientes -> 1 .. 4] /\ paso[m] \in 1 .. 4
      BY DEF TypeOK
    <3>2. \A a, b \in 1 .. 4 : (IF a < b THEN a + 1 ELSE a) \in 1 .. 4
      OBVIOUS
    <3>3. (IF paso[m] < N(m) THEN paso[m] + 1 ELSE paso[m]) \in 1 .. 4
      BY <1>2, <3>1, <3>2
    <3>. QED BY <1>3, <3>1, <3>3
  <2>3. correo' \in [Enlace -> Seq(Cabecera)]
    <3>1. Tail(correo[EsteEnlace(m)]) \in Seq(Cabecera)
      BY <1>2 DEF TypeOK, Saluda
    <3>. QED BY <3>1 DEF TypeOK, Saluda
  <2>4. pc' \in [Modulos -> {"caido", "conecta", "saluda", "responde", "levanta",
                             "acepta", "saludo", "manda", "tablas", "sirve"}]
    BY <1>3 DEF TypeOK
  <2>. QED BY <1>1, <2>1, <2>2, <2>3, <2>4 DEF TypeOK
<1>6. Etapas'
  BY <1>1, <1>3, EtapasDeCliente
<1>7. Avances'
  <2>1. /\ pc'["memoria"] = pc["memoria"] /\ \A n \in Modulos \ {m} : pc'[n] = pc[n]
        /\ pc'[m] = Sigue(m)
    BY <1>3 DEF TypeOK
  <2>2. /\ pc'["kernel"] \notin {"tablas", "sirve"} => leidos' = << >>
        /\ pc'["kernel"] = "tablas" => Len(leidos') < 4
        /\ pc'["kernel"] = "sirve" => Len(leidos') = 4
    <3>1. CASE m = "kernel"
      BY <1>1, <1>3, <2>1, <3>1 DEF Avances
    <3>2. CASE m # "kernel"
      BY <1>1, <2>1, <3>2 DEF Avances
    <3>. QED BY <3>1, <3>2
  <2>3. ASSUME NEW n \in Clientes, pc'[n] \notin {"caido", "conecta", "saluda", "responde"}
        PROVE  paso'[n] = N(n)
    <3>1. CASE n = m
      BY <1>3, <1>4, <2>1, <2>3, <3>1
    <3>2. CASE n # m
      BY <1>4, <2>1, <2>3, <3>2 DEF Avances
    <3>. QED BY <3>1, <3>2
  <2>. QED BY <1>1, <1>3, <2>1, <2>2, <2>3 DEF Avances, Vivo
<1>. QED BY <1>5, <1>6, <1>7

(* One more header of the tables, read by the kernel.                      *)
Lee ==
  /\ pc["kernel"] = "tablas" /\ correo[MemoriaDelKernel] # << >>
  /\ leidos' = Append(leidos, Head(correo[MemoriaDelKernel]))
  /\ correo' = [correo EXCEPT ![MemoriaDelKernel] = Tail(@)]
  /\ Ir("kernel", IF Len(leidos') = Len(Tablas) THEN "sirve" ELSE "tablas")
  /\ UNCHANGED <<vez, paso, servidor, saludos, con, caidas>>

LEMMA ElKernel ==
  /\ MemoriaDelKernel = L("kernel", 2) /\ MemoriaDelKernel \in Enlace
  /\ 2 \in 1 .. N("kernel")
<1>1. MemoriaDelKernel = L("kernel", 2)
  BY LosEnlaces DEF MemoriaDelKernel, L
<1>2. 2 \in 1 .. N("kernel") /\ "kernel" \in Clientes
  BY LosEnlaces, LosModulos
<1>. QED BY <1>1, <1>2, Enlazados

LEMMA Inv1_Lee == ASSUME Inv1, Lee PROVE Inv1'
<1>. USE LosModulos DEF Inv1
<1>1. /\ pc["kernel"] = "tablas"
      /\ pc' = [pc EXCEPT !["kernel"] = IF Len(leidos') = 4 THEN "sirve" ELSE "tablas"]
      /\ UNCHANGED <<vez, paso, oye, cola, aceptadas, mandados, saludos, con, caidas>>
  BY LasTablas DEF Lee, Ir, servidor
<1>2. /\ Head(correo[MemoriaDelKernel]) \in Cabecera
      /\ Tail(correo[MemoriaDelKernel]) \in Seq(Cabecera)
  BY ElKernel DEF Lee, TypeOK
<1>3. /\ leidos' \in Seq(Cabecera) /\ Len(leidos') = Len(leidos) + 1
      /\ Len(leidos) \in Nat /\ Len(leidos) < 4
  BY <1>2 DEF Lee, TypeOK, Avances
<1>4. TypeOK'
  <2>1. correo' \in [Enlace -> Seq(Cabecera)]
    BY <1>2 DEF Lee, TypeOK
  <2>2. pc' \in [Modulos -> {"caido", "conecta", "saluda", "responde", "levanta",
                             "acepta", "saludo", "manda", "tablas", "sirve"}]
    BY <1>1 DEF TypeOK
  <2>. QED BY <1>1, <1>3, <2>1, <2>2 DEF TypeOK
<1>5. Etapas'
  BY <1>1, EtapasDeCliente
<1>6. Avances'
  <2>1. /\ \A n \in Modulos \ {"kernel"} : pc'[n] = pc[n]
        /\ pc'["kernel"] = IF Len(leidos') = 4 THEN "sirve" ELSE "tablas"
    BY <1>1 DEF TypeOK
  <2>2. /\ pc'["kernel"] \notin {"tablas", "sirve"} => leidos' = << >>
        /\ pc'["kernel"] = "tablas" => Len(leidos') < 4
        /\ pc'["kernel"] = "sirve" => Len(leidos') = 4
    BY <1>3, <2>1
  <2>. QED BY <1>1, <2>1, <2>2 DEF Avances, Vivo
<1>. QED BY <1>4, <1>5, <1>6

(* A step of a server that goes from one stage to another, and neither     *)
(* answers for itself as a client nor touches another server.              *)
LEMMA EtapasDeServidor ==
  ASSUME Inv1, NEW s \in Servidores, NEW e,
         pc' = [pc EXCEPT ![s] = e],
         e \in {"acepta", "saludo", "manda", "sirve"},
         e = "manda" => s = "memoria",
         e = "acepta" => Len(aceptadas'[s]) < Len(Espera[s]),
         e = "saludo" => Len(aceptadas'[s]) >= 1,
         e \in {"manda", "sirve"} => Len(aceptadas'[s]) = Len(Espera[s]),
         \A r \in Servidores \ {s} : /\ aceptadas'[r] = aceptadas[r]
                                     /\ cola'[r] = cola[r] /\ oye'[r] = oye[r]
  PROVE  Etapas'
<1>. USE LosModulos DEF Inv1
<1>1. ASSUME NEW r \in Servidores
      PROVE  /\ pc'[r] \in {"caido", "conecta", "saluda", "responde", "levanta"} =>
                  aceptadas'[r] = << >> /\ cola'[r] = << >> /\ ~oye'[r]
             /\ pc'[r] = "acepta" => Len(aceptadas'[r]) < Len(Espera[r])
             /\ pc'[r] = "saludo" => Len(aceptadas'[r]) >= 1
             /\ pc'[r] \in {"manda", "sirve"} => Len(aceptadas'[r]) = Len(Espera[r])
             /\ pc'[r] # "tablas" /\ (pc'[r] = "manda" => r = "memoria")
  <2>1. CASE r = s
    <3>1. pc'[r] = e
      BY <2>1 DEF TypeOK
    <3>. QED BY <2>1, <3>1
  <2>2. CASE r # s
    <3>1. pc'[r] = pc[r] /\ aceptadas'[r] = aceptadas[r] /\ cola'[r] = cola[r] /\ oye'[r] = oye[r]
      BY <2>2 DEF TypeOK
    <3>. QED BY <3>1 DEF Etapas
  <2>. QED BY <2>1, <2>2
<1>2. /\ pc'["kernel"] \notin {"levanta", "acepta", "saludo", "manda"}
      /\ pc'["memoria"] \notin {"conecta", "saluda", "responde"}
  <2>1. pc'["kernel"] = pc["kernel"]
    BY DEF TypeOK
  <2>2. pc'["memoria"] = pc["memoria"] \/ pc'["memoria"] = e
    BY DEF TypeOK
  <2>. QED BY <2>1, <2>2 DEF Etapas
<1>. QED BY <1>1, <1>2 DEF Etapas

LEMMA AvancesDeServidor ==
  ASSUME Inv1, NEW s \in Servidores, NEW e,
         pc' = [pc EXCEPT ![s] = e],
         e \in {"acepta", "saludo", "manda", "sirve"},
         pc[s] \in {"levanta", "acepta", "saludo", "manda"},
         s = "memoria" /\ e \notin {"manda", "sirve"} => mandados' = 0,
         s = "memoria" /\ e = "manda" => mandados' < 4,
         s # "memoria" => mandados' = mandados,
         UNCHANGED <<vez, paso, leidos>>
  PROVE  Avances'
<1>. USE LosModulos DEF Inv1
<1>1. pc'[s] = e /\ \A n \in Modulos \ {s} : pc'[n] = pc[n]
  BY DEF TypeOK
<1>2. /\ pc'["memoria"] = "manda" => mandados' < 4
      /\ pc'["memoria"] \notin {"manda", "sirve"} => mandados' = 0
  <2>1. CASE s = "memoria"
    BY <1>1, <2>1
  <2>2. CASE s # "memoria"
    BY <1>1, <2>2 DEF Avances
  <2>. QED BY <2>1, <2>2
<1>3. /\ pc'["kernel"] \notin {"tablas", "sirve"} => leidos' = << >>
      /\ pc'["kernel"] = "tablas" => Len(leidos') < 4
      /\ pc'["kernel"] = "sirve" => Len(leidos') = 4
  BY <1>1 DEF Avances
<1>4. \A m \in Clientes :
        pc'[m] \notin {"caido", "conecta", "saluda", "responde"} => paso'[m] = N(m)
  BY <1>1 DEF Avances
<1>5. \A m \in Modulos : Vivo(m)' => vez'[m] >= 1
  BY <1>1 DEF Avances, Vivo
<1>. QED BY <1>2, <1>3, <1>4, <1>5 DEF Avances

LEMMA Inv1_Levantar ==
  ASSUME Inv1, NEW s \in Servidores, Levantar(s) PROVE Inv1'
<1>. USE LosModulos DEF Inv1
<1>1. PICK puerto \in BOOLEAN : oye' = [oye EXCEPT ![s] = puerto]
  BY DEF Levantar
<1>2. /\ pc[s] = "levanta" /\ pc' = [pc EXCEPT ![s] = "acepta"]
      /\ UNCHANGED <<vez, paso, cola, aceptadas, mandados, saludos, con, correo, leidos, caidas>>
  BY DEF Levantar, Ir
<1>3. TypeOK'
  BY <1>1, <1>2 DEF TypeOK
<1>4. Etapas'
  <2>1. Len(aceptadas'[s]) < Len(Espera[s])
    <3>1. aceptadas'[s] = << >> /\ Len(<< >>) = 0
      BY <1>2 DEF Etapas
    <3>2. Len(Espera[s]) \in 1 .. 3
      BY LasEsperas DEF Servidores
    <3>3. Len(aceptadas'[s]) = 0
      BY <3>1
    <3>4. \A a, b : a = 0 /\ b \in 1 .. 3 => a < b
      OBVIOUS
    <3>. QED BY <3>2, <3>3, <3>4
  <2>. QED BY <1>1, <1>2, <2>1, EtapasDeServidor DEF TypeOK
<1>5. Avances'
  BY <1>2, AvancesDeServidor DEF Avances
<1>. QED BY <1>3, <1>4, <1>5

LEMMA Inv1_Aceptar ==
  ASSUME Inv1, NEW s \in Servidores, Aceptar(s) PROVE Inv1'
<1>. USE LosModulos DEF Inv1
<1>1. /\ pc[s] = "acepta" /\ pc' = [pc EXCEPT ![s] = "saludo"] /\ cola[s] # << >>
      /\ aceptadas' = [aceptadas EXCEPT ![s] = Append(@, Head(cola[s]))]
      /\ cola' = [cola EXCEPT ![s] = Tail(@)]
      /\ UNCHANGED <<vez, paso, oye, mandados, saludos, con, correo, leidos, caidas>>
  BY DEF Aceptar, Ir
<1>2. /\ Head(cola[s]) \in Conexion /\ Tail(cola[s]) \in Seq(Conexion)
      /\ aceptadas[s] \in Seq(Conexion)
  BY <1>1 DEF TypeOK
<1>3. /\ aceptadas'[s] \in Seq(Conexion) /\ Len(aceptadas'[s]) = Len(aceptadas[s]) + 1
      /\ Len(aceptadas[s]) \in Nat
  BY <1>1, <1>2 DEF TypeOK
<1>4. Len(aceptadas[s]) < Len(Espera[s]) /\ Len(Espera[s]) \in {1, 2, 3}
  BY <1>1, LasEsperas DEF Etapas, Servidores
<1>5. TypeOK'
  <2>1. /\ cola' \in [Servidores -> Seq(Conexion)]
        /\ aceptadas' \in [Servidores -> Seq(Conexion)]
    BY <1>1, <1>2, <1>3 DEF TypeOK
  <2>2. ASSUME NEW r \in Servidores PROVE Len(aceptadas'[r]) <= Len(Espera[r])
    <3>1. CASE r = s
      BY <1>3, <1>4, <3>1
    <3>2. CASE r # s
      BY <1>1, <3>2 DEF TypeOK
    <3>. QED BY <3>1, <3>2
  <2>. QED BY <1>1, <2>1, <2>2 DEF TypeOK
<1>6. Etapas'
  <2>1. Len(aceptadas'[s]) >= 1
    BY <1>3
  <2>2. \A r \in Servidores \ {s} : /\ aceptadas'[r] = aceptadas[r]
                                    /\ cola'[r] = cola[r] /\ oye'[r] = oye[r]
    BY <1>1 DEF TypeOK
  <2>. QED BY <1>1, <2>1, <2>2, EtapasDeServidor
<1>7. Avances'
  BY <1>1, AvancesDeServidor DEF Avances
<1>. QED BY <1>5, <1>6, <1>7

LEMMA Ultima ==
  ASSUME Inv1, NEW s \in Servidores, Len(aceptadas[s]) >= 1
  PROVE  /\ Last(aceptadas[s]) = aceptadas[s][Len(aceptadas[s])]
         /\ Last(aceptadas[s]) \in Conexion
         /\ <<Last(aceptadas[s]).de, Last(aceptadas[s]).hs>> \in Enlace
<1>1. aceptadas[s] \in Seq(Conexion) /\ Len(aceptadas[s]) \in Nat
  BY DEF Inv1, TypeOK
<1>2. Last(aceptadas[s]) = aceptadas[s][Len(aceptadas[s])]
  BY DEF Last
<1>3. aceptadas[s][Len(aceptadas[s])] \in Conexion
  BY <1>1
<1>. QED BY <1>2, <1>3 DEF Conexion, Enlace

LEMMA EnvioTipo ==
  ASSUME Inv1, NEW x \in Conexion, NEW h \in Cabecera, Enviar(x, h)
  PROVE  correo' \in [Enlace -> Seq(Cabecera)]
<1>1. <<x.de, x.hs>> \in Enlace
  BY DEF Conexion, Enlace
<1>2. Append(correo[<<x.de, x.hs>>], h) \in Seq(Cabecera)
  BY <1>1 DEF Inv1, TypeOK
<1>3. CASE ClienteVivo(x)
  BY <1>1, <1>2, <1>3 DEF Inv1, TypeOK, Enviar
<1>4. CASE ~ClienteVivo(x)
  BY <1>4 DEF Inv1, TypeOK, Enviar
<1>. QED BY <1>3, <1>4

(* The greeting of the client just accepted: answered when it is the one   *)
(* that s waits for in that place; ignored, by memoria only, when not.     *)
Contesta(s) ==
  /\ pc[s] = "saludo" /\ Last(aceptadas[s]) \in saludos /\ EsElEsperado(s)
  /\ Enviar(Last(aceptadas[s]), "hs_aux")
  /\ Ir(s, TrasElSaludo(s))
  /\ UNCHANGED <<vez, paso, servidor, saludos, con, leidos, caidas>>
Ignora ==
  /\ pc["memoria"] = "saludo" /\ ~EsElEsperado("memoria")
  /\ Ir("memoria", TrasElSaludo("memoria"))
  /\ UNCHANGED <<vez, paso, servidor, saludos, con, correo, leidos, caidas>>

LEMMA Inv1_Saludo ==
  ASSUME Inv1, NEW s \in Servidores, pc[s] = "saludo", Ir(s, TrasElSaludo(s)),
         correo' \in [Enlace -> Seq(Cabecera)],
         UNCHANGED <<vez, paso, servidor, saludos, con, leidos, caidas>>
  PROVE  Inv1'
<1>. USE LosModulos DEF Inv1
<1>. DEFINE e == TrasElSaludo(s)
<1>1. /\ pc' = [pc EXCEPT ![s] = e]
      /\ UNCHANGED <<vez, paso, oye, cola, aceptadas, mandados, saludos, con, leidos, caidas>>
  BY DEF Ir, servidor
<1>2. /\ Len(aceptadas[s]) <= Len(Espera[s]) /\ Len(aceptadas[s]) \in Nat
      /\ Len(Espera[s]) \in Nat
  <2>1. Len(aceptadas[s]) <= Len(Espera[s]) /\ Len(aceptadas[s]) \in Nat
    BY DEF TypeOK
  <2>2. Len(Espera[s]) \in 1 .. 3
    BY LasEsperas DEF Servidores
  <2>. QED BY <2>1, <2>2
<1>3. /\ e \in {"acepta", "manda", "sirve"}
      /\ e = "acepta" => Len(aceptadas[s]) < Len(Espera[s])
      /\ e # "acepta" => ~(Len(aceptadas[s]) < Len(Espera[s]))
      /\ e = "manda" => s = "memoria"
      /\ s = "memoria" => e # "sirve"
  BY DEF TrasElSaludo
<1>4. e # "acepta" => Len(aceptadas[s]) = Len(Espera[s])
  BY <1>2, <1>3
<1>. HIDE DEF e
<1>5. TypeOK'
  BY <1>1, <1>3 DEF TypeOK
<1>6. Etapas'
  BY <1>1, <1>3, <1>4, EtapasDeServidor
<1>7. Avances'
  <2>1. s = "memoria" => mandados' = 0
    BY <1>1 DEF Avances
  <2>2. s = "memoria" /\ e = "manda" => mandados' < 4
    BY <2>1
  <2>. QED BY <1>1, <1>3, <2>1, <2>2, AvancesDeServidor
<1>. QED BY <1>5, <1>6, <1>7

LEMMA Inv1_Contesta ==
  ASSUME Inv1, NEW s \in Servidores, Contesta(s) PROVE Inv1'
<1>1. Len(aceptadas[s]) >= 1
  BY DEF Inv1, Etapas, Contesta
<1>2. "hs_aux" \in Cabecera
  BY DEF Cabecera
<1>3. correo' \in [Enlace -> Seq(Cabecera)]
  BY <1>1, <1>2, Ultima, EnvioTipo DEF Contesta
<1>. QED BY <1>3, Inv1_Saludo DEF Contesta

LEMMA Inv1_Ignora ==
  ASSUME Inv1, Ignora PROVE Inv1'
<1>1. correo' \in [Enlace -> Seq(Cabecera)]
  BY DEF Ignora, Inv1, TypeOK
<1>. QED BY <1>1, Inv1_Saludo, LosModulos DEF Ignora

(* One more message of the tables, sent to the third client.               *)
Manda ==
  /\ pc["memoria"] = "manda"
  /\ Enviar(Last(aceptadas["memoria"]), Tablas[mandados + 1])
  /\ mandados' = mandados + 1
  /\ Ir("memoria", IF mandados' = Len(Tablas) THEN "sirve" ELSE "manda")
  /\ UNCHANGED <<vez, paso, oye, cola, aceptadas, saludos, con, leidos, caidas>>

LEMMA Inv1_Manda ==
  ASSUME Inv1, Manda PROVE Inv1'
<1>. USE LosModulos DEF Inv1
<1>. DEFINE e == IF mandados' = 4 THEN "sirve" ELSE "manda"
<1>1. Len(aceptadas["memoria"]) = 3
  BY LasEsperas DEF Manda, Etapas
<1>2. mandados \in 0 .. 3 /\ mandados' = mandados + 1
  BY LasTablas DEF Manda, TypeOK, Avances
<1>3. Tablas[mandados + 1] \in Cabecera
  <2>1. mandados + 1 \in 1 .. Len(Tablas)
    BY <1>2, LasTablas
  <2>. QED BY <2>1, LasTablas, ElementOfSeq
<1>4. correo' \in [Enlace -> Seq(Cabecera)]
  <2>1. Last(aceptadas["memoria"]) \in Conexion
    <3>1. ASSUME NEW s \in Servidores, s = "memoria" PROVE Last(aceptadas[s]) \in Conexion
      <4>0. \A a : a = 3 => a >= 1
        OBVIOUS
      <4>1. Len(aceptadas[s]) >= 1
        BY <1>1, <3>1, <4>0
      <4>. QED BY <4>1, Ultima
    <3>. QED BY <3>1
  <2>2. Enviar(Last(aceptadas["memoria"]), Tablas[mandados + 1])
    BY DEF Manda
  <2>. QED BY <1>3, <2>1, <2>2, EnvioTipo
<1>5. /\ pc' = [pc EXCEPT !["memoria"] = e] /\ pc["memoria"] = "manda"
      /\ UNCHANGED <<vez, paso, oye, cola, aceptadas, saludos, con, leidos, caidas>>
  BY LasTablas DEF Manda, Ir
<1>6. TypeOK'
  <2>1. mandados' \in 0 .. Len(Tablas)
    BY <1>2, LasTablas
  <2>2. pc' \in [Modulos -> {"caido", "conecta", "saluda", "responde", "levanta",
                             "acepta", "saludo", "manda", "tablas", "sirve"}]
    BY <1>5 DEF TypeOK
  <2>. QED BY <1>4, <1>5, <2>1, <2>2 DEF TypeOK
<1>7. e \in {"manda", "sirve"} /\ (e = "manda" => mandados' < 4)
  BY <1>2
<1>8. Etapas'
  <2>1. Len(aceptadas'["memoria"]) = Len(Espera["memoria"])
    BY <1>1, <1>5, LasEsperas
  <2>. HIDE DEF e
  <2>. QED BY <1>5, <1>7, <2>1, EtapasDeServidor
<1>9. Avances'
  <2>. HIDE DEF e
  <2>. QED BY <1>5, <1>7, AvancesDeServidor
<1>. QED BY <1>6, <1>8, <1>9

-----------------------------------------------------------------------------
(* A process that ends, by its own exit or by a kill; and the step of each *)
(* one that does not.                                                      *)
Muere(m) == Vivo(m) /\ Termina(m) /\ caidas' \in 0 .. MaxCaidas
Conecta(m) == Conectar(m) /\ oye[Abre(m).a]

Pasos ==
  \/ \E m \in Modulos : Muere(m) \/ Lanzar(m)
  \/ \E m \in Clientes : Conecta(m) \/ Saludar(m) \/ Saluda(m)
  \/ \E s \in Servidores : Levantar(s) \/ Aceptar(s) \/ Contesta(s)
  \/ Lee \/ Ignora \/ Manda
  \/ UNCHANGED vars

LEMMA LosPasos == Inv1 /\ [Next]_vars => Pasos
<1>. SUFFICES ASSUME Inv1, [Next]_vars PROVE Pasos
  OBVIOUS
<1>. USE LosModulos
<1>0. caidas \in 0 .. MaxCaidas
  BY DEF Inv1, TypeOK
<1>1. ASSUME NEW m \in Modulos, Vivo(m), Termina(m), caidas' = caidas PROVE Pasos
  BY <1>0, <1>1 DEF Pasos, Muere
<1>2. ASSUME NEW m \in Clientes, Conectar(m) PROVE Pasos
  <2>1. CASE oye[Abre(m).a]
    BY <1>2, <2>1 DEF Pasos, Conecta
  <2>2. CASE ~oye[Abre(m).a]
    BY <1>1, <1>2, <2>2 DEF Conectar, Vivo
  <2>. QED BY <2>1, <2>2
<1>3. ASSUME NEW m \in Clientes, Saludar(m) PROVE Pasos
  BY <1>3 DEF Pasos
<1>4. ASSUME NEW m \in Clientes, RecibirSaludo(m) PROVE Pasos
  <2>1. CASE Termina(m)
    BY <1>1, <1>4, <2>1 DEF RecibirSaludo, Vivo
  <2>2. CASE ~Termina(m)
    <3>1. Saluda(m)
      BY <1>4, <2>2 DEF RecibirSaludo, Saluda
    <3>. QED BY <3>1 DEF Pasos
  <2>. QED BY <2>1, <2>2
<1>5. ASSUME RecibirTabla PROVE Pasos
  <2>1. CASE Termina("kernel")
    BY <1>1, <1>5, <2>1 DEF RecibirTabla, Vivo
  <2>2. CASE ~Termina("kernel")
    <3>1. Lee
      BY <1>5, <2>2 DEF RecibirTabla, Lee
    <3>. QED BY <3>1 DEF Pasos
  <2>. QED BY <2>1, <2>2
<1>6. ASSUME NEW s \in Servidores, Levantar(s) \/ Aceptar(s) PROVE Pasos
  BY <1>6 DEF Pasos
<1>7. ASSUME NEW s \in Servidores, LeerSaludo(s) PROVE Pasos
  <2>1. CASE Termina(s)
    BY <1>1, <1>7, <2>1 DEF LeerSaludo, Vivo
  <2>2. CASE ~Termina(s)
    <3>1. Contesta(s) \/ (s = "memoria" /\ Ignora)
      BY <1>7, <2>2 DEF LeerSaludo, Contesta, Ignora
    <3>. QED BY <3>1 DEF Pasos
  <2>. QED BY <2>1, <2>2
<1>8. ASSUME NEW s \in Servidores, AtenderElCorte(s) PROVE Pasos
  BY <1>1, <1>8 DEF AtenderElCorte, Vivo
<1>9. ASSUME MandarTabla PROVE Pasos
  <2>1. CASE Termina("memoria")
    BY <1>1, <1>9, <2>1 DEF MandarTabla, Vivo
  <2>2. CASE ~Termina("memoria")
    <3>1. Manda
      BY <1>9, <2>2 DEF MandarTabla, Manda
    <3>. QED BY <3>1 DEF Pasos
  <2>. QED BY <2>1, <2>2
<1>10. ASSUME NEW m \in Modulos, Lanzar(m) PROVE Pasos
  BY <1>10 DEF Pasos
<1>11. ASSUME NEW m \in Modulos, Caer(m) PROVE Pasos
  <2>1. caidas' \in 0 .. MaxCaidas
    BY <1>0, <1>11, CotasAssumption DEF Caer
  <2>. QED BY <1>11, <2>1 DEF Caer, Pasos, Muere
<1>12. ASSUME NEW m \in Clientes, NotarElCorte(m) PROVE Pasos
  BY <1>1, <1>12 DEF NotarElCorte, Vivo
<1>13. ASSUME CabeceraSinLeer PROVE Pasos
  BY <1>1, <1>13 DEF CabeceraSinLeer
<1>14. CASE UNCHANGED vars
  BY <1>14 DEF Pasos
<1>. QED BY <1>2, <1>3, <1>4, <1>5, <1>6, <1>7, <1>8, <1>9, <1>10, <1>11, <1>12, <1>13, <1>14
        DEF Next, Avanzar

LEMMA Inv1_Next == Inv1 /\ [Next]_vars => Inv1'
<1>. SUFFICES ASSUME Inv1, [Next]_vars PROVE Inv1'
  OBVIOUS
<1>1. Pasos
  BY LosPasos
<1>2. CASE UNCHANGED vars
  BY <1>2 DEF vars, Inv1, TypeOK, Etapas, Avances, Vivo
<1>. QED BY <1>1, <1>2, Inv1_Termina, Inv1_Lanzar, Inv1_Conectar, Inv1_Saludar, Inv1_Saluda,
        Inv1_Lee, Inv1_Levantar, Inv1_Aceptar, Inv1_Contesta, Inv1_Ignora, Inv1_Manda
        DEF Pasos, Muere, Conecta

LEMMA Inv1_Siempre == Spec => []Inv1
<1>. QED BY Inv1_Init, Inv1_Next, PTL DEF Spec

(* Types; no server accepts more clients than it waits for, no client opens *)
(* more connections than it has (kernel.c:63-131, memoria.c:50-68).        *)
THEOREM TiposDeArranque == Spec => []TypeOK
<1>1. Inv1 => TypeOK
  BY DEF Inv1
<1>. QED BY <1>1, Inv1_Siempre, PTL

-----------------------------------------------------------------------------
(* The places of a server: the connections that accept has returned, then  *)
(* the ones it has not; and how many of their greetings it has read.       *)
Largo(s) == Len(aceptadas[s]) + Len(cola[s])
Fila(s)  == [k \in 1 .. Largo(s) |->
                IF k <= Len(aceptadas[s]) THEN aceptadas[s][k]
                ELSE cola[s][k - Len(aceptadas[s])]]
Saludadas(s) == IF pc[s] = "saludo" THEN Len(aceptadas[s]) - 1 ELSE Len(aceptadas[s])

LEMMA LosLugares ==
  ASSUME Inv1, NEW s \in Servidores
  PROVE  /\ Largo(s) \in Nat /\ Len(aceptadas[s]) \in 0 .. Largo(s)
         /\ Saludadas(s) \in 0 .. Len(aceptadas[s]) /\ Saludadas(s) <= Len(Espera[s])
         /\ Len(Espera[s]) \in 1 .. 3 /\ Len(aceptadas[s]) <= Len(Espera[s])
         /\ \A k \in 1 .. Largo(s) : Fila(s)[k] \in Conexion
         /\ ~Vivo(s) => Largo(s) = 0
<1>1. /\ aceptadas[s] \in Seq(Conexion) /\ Len(aceptadas[s]) \in Nat
      /\ cola[s] \in Seq(Conexion) /\ Len(cola[s]) \in Nat
  BY DEF Inv1, TypeOK
<1>2. Len(Espera[s]) \in 1 .. 3
  BY LasEsperas DEF Servidores
<1>3. Len(aceptadas[s]) <= Len(Espera[s])
  BY DEF Inv1, TypeOK
<1>4. pc[s] = "saludo" => Len(aceptadas[s]) >= 1
  BY DEF Inv1, Etapas
<1>5. Saludadas(s) \in 0 .. Len(aceptadas[s])
  BY <1>1, <1>4 DEF Saludadas
<1>6. Largo(s) \in Nat /\ Len(aceptadas[s]) \in 0 .. Largo(s)
  <2>1. \A a, b \in Nat : a + b \in Nat /\ a \in 0 .. a + b
    OBVIOUS
  <2>. QED BY <1>1, <2>1 DEF Largo
<1>7. ASSUME NEW k \in 1 .. Largo(s) PROVE Fila(s)[k] \in Conexion
  <2>1. Fila(s)[k] = IF k <= Len(aceptadas[s]) THEN aceptadas[s][k]
                     ELSE cola[s][k - Len(aceptadas[s])]
    BY DEF Fila
  <2>2. CASE k <= Len(aceptadas[s])
    BY <1>1, <1>6, <2>1, <2>2
  <2>3. CASE ~(k <= Len(aceptadas[s]))
    <3>1. k - Len(aceptadas[s]) \in 1 .. Len(cola[s])
      <4>1. \A a, b \in Nat : \A j \in 1 .. a + b : ~(j <= a) => j - a \in 1 .. b
        OBVIOUS
      <4>. QED BY <1>1, <2>3, <4>1 DEF Largo
    <3>. QED BY <1>1, <2>1, <2>3, <3>1
  <2>. QED BY <2>2, <2>3
<1>8. ASSUME ~Vivo(s) PROVE Largo(s) = 0
  <2>1. aceptadas[s] = << >> /\ cola[s] = << >>
    BY <1>8 DEF Inv1, Etapas, Vivo
  <2>. QED BY <2>1 DEF Largo
<1>9. Saludadas(s) <= Len(Espera[s])
  BY <1>1, <1>2, <1>3, <1>5
<1>. QED BY <1>2, <1>3, <1>5, <1>6, <1>7, <1>8, <1>9

(* The last connection that accept returned, and its place.                *)
LEMMA UltimoLugar ==
  ASSUME Inv1, NEW s \in Servidores, Len(aceptadas[s]) >= 1
  PROVE  /\ Last(aceptadas[s]) = Fila(s)[Len(aceptadas[s])]
         /\ Len(aceptadas[s]) \in 1 .. Largo(s)
<1>1. Len(aceptadas[s]) \in 1 .. Largo(s)
  BY LosLugares
<1>2. Fila(s)[Len(aceptadas[s])] = aceptadas[s][Len(aceptadas[s])]
  BY <1>1 DEF Fila
<1>. QED BY <1>1, <1>2, Ultima

(* memoria has taken its three clients when it has read the three greetings. *)
LEMMA Completa ==
  ASSUME Inv1
  PROVE  /\ Saludadas("memoria") = 3 <=> pc["memoria"] \in {"manda", "sirve"}
         /\ Saludadas("memoria") = 3 => Len(aceptadas["memoria"]) = 3
         /\ Saludadas("memoria") # 3 => mandados = 0
<1>. USE LosModulos, LasEsperas DEF Inv1
<1>1. Len(aceptadas["memoria"]) \in 0 .. 3 /\ Saludadas("memoria") \in 0 .. Len(aceptadas["memoria"])
  <2>1. ASSUME NEW s \in Servidores, s = "memoria"
        PROVE  Len(aceptadas[s]) \in 0 .. 3 /\ Saludadas(s) \in 0 .. Len(aceptadas[s])
    <3>1. Len(aceptadas[s]) <= Len(Espera[s]) /\ Len(aceptadas[s]) \in 0 .. Largo(s)
      BY LosLugares
    <3>2. Saludadas(s) \in 0 .. Len(aceptadas[s]) /\ Largo(s) \in Nat
      BY LosLugares
    <3>3. Len(aceptadas[s]) <= 3
      BY <2>1, <3>1
    <3>4. \A a \in Nat : \A b \in 0 .. a : b <= 3 => b \in 0 .. 3
      OBVIOUS
    <3>. QED BY <3>1, <3>2, <3>3, <3>4
  <2>. QED BY <2>1
<1>2. ASSUME pc["memoria"] \in {"manda", "sirve"}
      PROVE Saludadas("memoria") = 3 /\ Len(aceptadas["memoria"]) = 3
  <2>1. Len(aceptadas["memoria"]) = 3
    BY <1>2 DEF Etapas
  <2>. QED BY <1>2, <2>1 DEF Saludadas
<1>3. ASSUME pc["memoria"] \notin {"manda", "sirve"} PROVE Saludadas("memoria") # 3
  <2>1. CASE pc["memoria"] = "saludo"
    <3>1. \A a \in 0 .. 3 : a - 1 # 3
      OBVIOUS
    <3>. QED BY <1>1, <2>1, <3>1 DEF Saludadas
  <2>2. CASE pc["memoria"] = "acepta"
    BY <1>1, <2>2 DEF Saludadas, Etapas
  <2>3. CASE pc["memoria"] \in {"caido", "conecta", "saluda", "responde", "levanta"}
    <3>1. aceptadas["memoria"] = << >>
      BY <2>3 DEF Etapas
    <3>2. Len(aceptadas["memoria"]) = 0
      BY <3>1
    <3>. QED BY <1>1, <3>2
  <2>. QED BY <1>3, <2>1, <2>2, <2>3 DEF TypeOK, Etapas
<1>. QED BY <1>2, <1>3 DEF Avances

-----------------------------------------------------------------------------
(* What each step does to the places and to the connections.               *)
MismosProcesos  == vez' = vez /\ \A m \in Modulos : Vivo(m)' <=> Vivo(m)
MismaFila(s)    == Largo(s)' = Largo(s) /\ Fila(s)' = Fila(s)
MismasFilas     == \A s \in Servidores : MismaFila(s)
MismosSaludos   == \A s \in Servidores : Saludadas(s)' = Saludadas(s)
MismasAbiertas  == \A m \in Clientes : \A i \in 1 .. N(m) : Abierta(m, i)' <=> Abierta(m, i)
MismasRespuestas ==
  \A m \in Clientes : \A i \in 1 .. N(m) : Respondida(m, i)' <=> Respondida(m, i)

LEMMA FilaIgual ==
  ASSUME NEW s \in Servidores, aceptadas'[s] = aceptadas[s], cola'[s] = cola[s]
  PROVE  MismaFila(s)
<1>1. Largo(s)' = Largo(s)
  BY DEF Largo
<1>. QED BY <1>1 DEF MismaFila, Fila

(* Steps that only move a process: the greeting that a client writes, the  *)
(* listen and the accept of a server, and stuttering.                      *)
Quieto ==
  /\ MismosProcesos /\ MismasFilas /\ MismosSaludos /\ MismasAbiertas /\ MismasRespuestas
  /\ UNCHANGED <<con, correo, leidos, mandados>>

LEMMA EfectoSaludar ==
  ASSUME Inv1, NEW m \in Clientes, Saludar(m) PROVE Quieto
<1>. USE LosModulos DEF Inv1
<1>1. /\ pc[m] = "saluda" /\ pc' = [pc EXCEPT ![m] = "responde"]
      /\ UNCHANGED <<vez, paso, oye, cola, aceptadas, mandados, con, correo, leidos>>
  BY DEF Saludar, Ir, servidor
<1>2. MismosProcesos
  BY <1>1 DEF MismosProcesos, Vivo, TypeOK
<1>3. MismasFilas
  BY <1>1, FilaIgual DEF MismasFilas
<1>4. MismosSaludos
  BY <1>1 DEF MismosSaludos, Saludadas, TypeOK
<1>5. MismasAbiertas
  BY <1>1 DEF MismasAbiertas, Abierta, Vivo, TypeOK
<1>6. MismasRespuestas
  BY <1>1 DEF MismasRespuestas, Respondida, Vivo, TypeOK
<1>. QED BY <1>1, <1>2, <1>3, <1>4, <1>5, <1>6 DEF Quieto

LEMMA EfectoLevantar ==
  ASSUME Inv1, NEW s \in Servidores, Levantar(s) PROVE Quieto
<1>. USE LosModulos DEF Inv1
<1>1. /\ pc[s] = "levanta" /\ pc' = [pc EXCEPT ![s] = "acepta"]
      /\ UNCHANGED <<vez, paso, cola, aceptadas, mandados, con, correo, leidos>>
  BY DEF Levantar, Ir
<1>2. MismosProcesos
  BY <1>1 DEF MismosProcesos, Vivo, TypeOK
<1>3. MismasFilas
  BY <1>1, FilaIgual DEF MismasFilas
<1>4. MismosSaludos
  BY <1>1 DEF MismosSaludos, Saludadas, TypeOK
<1>5. MismasAbiertas
  BY <1>1 DEF MismasAbiertas, Abierta, Vivo, TypeOK
<1>6. MismasRespuestas
  BY <1>1 DEF MismasRespuestas, Respondida, Vivo, TypeOK
<1>. QED BY <1>1, <1>2, <1>3, <1>4, <1>5, <1>6 DEF Quieto

LEMMA EfectoAceptar ==
  ASSUME Inv1, NEW s \in Servidores, Aceptar(s) PROVE Quieto
<1>. USE LosModulos DEF Inv1
<1>1. /\ pc[s] = "acepta" /\ pc' = [pc EXCEPT ![s] = "saludo"] /\ cola[s] # << >>
      /\ aceptadas' = [aceptadas EXCEPT ![s] = Append(aceptadas[s], Head(cola[s]))]
      /\ cola' = [cola EXCEPT ![s] = Tail(cola[s])]
      /\ UNCHANGED <<vez, paso, mandados, con, correo, leidos>>
  BY DEF Aceptar, Ir
<1>2. MismosProcesos
  BY <1>1 DEF MismosProcesos, Vivo, TypeOK
<1>3. ASSUME NEW r \in Servidores, r # s PROVE MismaFila(r)
  <2>1. aceptadas'[r] = aceptadas[r] /\ cola'[r] = cola[r]
    BY <1>1, <1>3 DEF TypeOK
  <2>. QED BY <2>1, FilaIgual
<1>4. MismaFila(s)
  <2>. DEFINE a == aceptadas[s]
              c == cola[s]
  <2>1. a \in Seq(Conexion) /\ c \in Seq(Conexion) /\ c # << >>
    BY <1>1 DEF TypeOK
  <2>2. aceptadas'[s] = Append(a, Head(c)) /\ cola'[s] = Tail(c)
    BY <1>1 DEF TypeOK
  <2>3. Largo(s) = Len(a) + Len(c) /\ Largo(s)' = Len(aceptadas'[s]) + Len(cola'[s])
    BY DEF Largo
  <2>4. Fila(s) = [k \in 1 .. Largo(s) |-> IF k <= Len(a) THEN a[k] ELSE c[k - Len(a)]]
    BY DEF Fila
  <2>5. Fila(s)' = [k \in 1 .. Largo(s)' |->
                      IF k <= Len(aceptadas'[s]) THEN aceptadas'[s][k]
                      ELSE cola'[s][k - Len(aceptadas'[s])]]
    BY DEF Fila
  <2>. HIDE DEF a, c
  <2>6. Len(a) \in Nat /\ Len(c) \in Nat /\ Len(c) >= 1 /\ Head(c) = c[1]
    BY <2>1
  <2>7. /\ Len(aceptadas'[s]) = Len(a) + 1 /\ Len(cola'[s]) = Len(c) - 1
        /\ \A k \in 1 .. Len(a) : aceptadas'[s][k] = a[k]
        /\ aceptadas'[s][Len(a) + 1] = c[1]
        /\ \A k \in 1 .. Len(c) - 1 : cola'[s][k] = c[k + 1]
    BY <2>1, <2>2, <2>6
  <2>8. Largo(s)' = Largo(s)
    BY <2>3, <2>6, <2>7
  <2>9. ASSUME NEW k \in 1 .. Largo(s)
        PROVE  (IF k <= Len(aceptadas'[s]) THEN aceptadas'[s][k]
                ELSE cola'[s][k - Len(aceptadas'[s])])
               = (IF k <= Len(a) THEN a[k] ELSE c[k - Len(a)])
    <3>1. CASE k <= Len(a)
      BY <2>6, <2>7, <3>1
    <3>2. CASE k = Len(a) + 1
      BY <2>6, <2>7, <3>2
    <3>3. CASE ~(k <= Len(a)) /\ k # Len(a) + 1
      <4>1. k \in 1 .. Len(a) + Len(c)
        BY <2>3
      <4>2. ~(k <= Len(a) + 1) /\ k - (Len(a) + 1) \in 1 .. Len(c) - 1
            /\ (k - (Len(a) + 1)) + 1 = k - Len(a)
        BY <2>6, <3>3, <4>1
      <4>3. cola'[s][k - (Len(a) + 1)] = c[(k - (Len(a) + 1)) + 1]
        BY <2>7, <4>2
      <4>. QED BY <2>7, <3>3, <4>2, <4>3
    <3>. QED BY <3>1, <3>2, <3>3
  <2>. QED BY <2>4, <2>5, <2>8, <2>9 DEF MismaFila
<1>5. MismosSaludos
  <2>1. Saludadas(s)' = Saludadas(s)
    <3>1. aceptadas[s] \in Seq(Conexion) /\ Head(cola[s]) \in Conexion
      BY <1>1 DEF TypeOK
    <3>2. Len(aceptadas'[s]) = Len(aceptadas[s]) + 1 /\ Len(aceptadas[s]) \in Nat
      BY <1>1, <3>1 DEF TypeOK
    <3>3. pc'[s] = "saludo" /\ pc[s] = "acepta"
      BY <1>1 DEF TypeOK
    <3>. QED BY <3>2, <3>3 DEF Saludadas
  <2>2. ASSUME NEW r \in Servidores, r # s PROVE Saludadas(r)' = Saludadas(r)
    BY <1>1, <2>2 DEF Saludadas, TypeOK
  <2>. QED BY <2>1, <2>2 DEF MismosSaludos
<1>6. MismasAbiertas
  BY <1>1 DEF MismasAbiertas, Abierta, Vivo, TypeOK
<1>7. MismasRespuestas
  BY <1>1 DEF MismasRespuestas, Respondida, Vivo, TypeOK
<1>. QED BY <1>1, <1>2, <1>3, <1>4, <1>5, <1>6, <1>7 DEF Quieto, MismasFilas

LEMMA EfectoNada == UNCHANGED vars => Quieto
  BY FilaIgual DEF vars, Quieto, MismosProcesos, MismasFilas, MismosSaludos, MismasAbiertas,
     MismasRespuestas, Vivo, Saludadas, Abierta, Respondida

(* connect: connection i of m is open and in the last place of s.          *)
Abrio(m, i, s) ==
  /\ ~Abierta(m, i) /\ Abierta(m, i)' /\ Vivo(s) /\ Vivo(m)
  /\ Largo(s)' = Largo(s) + 1 /\ Fila(s)'[Largo(s) + 1] = Propia(m, i)
  /\ \A k \in 1 .. Largo(s) : Fila(s)'[k] = Fila(s)[k]
  /\ \A r \in Servidores \ {s} : MismaFila(r)
  /\ \A n \in Clientes : \A j \in 1 .. N(n) :
        n # m \/ j # i => /\ Abierta(n, j)' <=> Abierta(n, j)
                          /\ con'[L(n, j)] = con[L(n, j)]
  /\ con'[L(m, i)] = vez[s]
  /\ \A j \in 1 .. N(m) : j > i => ~Abierta(m, j)
  /\ s \in Clientes => \A j \in 1 .. N(s) : Respondida(s, j)
  /\ MismosProcesos /\ MismosSaludos /\ MismasRespuestas
  /\ UNCHANGED <<correo, leidos, mandados>>

(* Two connections are two links.                                          *)
LEMMA DosEnlaces ==
  ASSUME NEW m \in Clientes, NEW i \in 1 .. N(m), NEW n \in Clientes, NEW j \in 1 .. N(n),
         L(m, i) = L(n, j)
  PROVE  m = n /\ i = j
<1>1. m = n /\ H(m, i) = H(n, j)
  BY DEF L
<1>. QED BY <1>1, Enlazados

LEMMA EfectoConecta ==
  ASSUME Inv1, NEW m \in Clientes, Conecta(m)
  PROVE  \E i \in 1 .. N(m) : i = paso[m] /\ Abrio(m, i, A(m, i))
<1>. USE LosModulos DEF Inv1
<1>0. PICK i \in 1 .. N(m), s \in Servidores : i = paso[m] /\ s = A(m, i)
  BY EnPaso, Enlazados
<1>1. /\ i \in 1 .. N(m) /\ s \in Servidores /\ s # m /\ Abre(m).a = s
      /\ EsteEnlace(m) = L(m, i) /\ NuevaConexion(m) = Propia(m, i) /\ N(m) \in 1 .. 4
      /\ L(m, i) \in Enlace /\ i \in Int
  BY <1>0, EnPaso, Enlazados
<1>2. /\ pc[m] = "conecta" /\ pc' = [pc EXCEPT ![m] = "saluda"] /\ oye[s]
      /\ con' = [con EXCEPT ![L(m, i)] = vez[s]]
      /\ cola' = [cola EXCEPT ![s] = Append(cola[s], Propia(m, i))]
      /\ UNCHANGED <<vez, paso, aceptadas, correo, mandados, leidos>>
  BY <1>1 DEF Conecta, Conectar, Ir
<1>3. paso[m] = i
  BY <1>0
<1>4. /\ pc'[m] = "saluda" /\ \A n \in Modulos \ {m} : pc'[n] = pc[n]
      /\ \A n \in Modulos : pc'[n] = pc[n] \/ (n = m /\ pc'[n] = "saluda" /\ pc[n] = "conecta")
  BY <1>2 DEF TypeOK
<1>5. /\ ~Abierta(m, i) /\ Abierta(m, i)' /\ Vivo(m)
      /\ \A j \in 1 .. N(m) : j > i => ~Abierta(m, j)
  <2>1. ~Abierta(m, i)
    BY <1>1, <1>2, <1>3 DEF Abierta
  <2>2. Vivo(m) /\ Vivo(m)'
    BY <1>2, <1>4 DEF Vivo
  <2>3. Abierta(m, i)'
    BY <1>2, <1>3, <1>4, <2>2 DEF Abierta
  <2>4. ASSUME NEW j \in 1 .. N(m), j > i PROVE ~Abierta(m, j)
    BY <1>1, <1>3, <2>4 DEF Abierta
  <2>. QED BY <2>1, <2>2, <2>3, <2>4
<1>6. Vivo(s)
  BY <1>1, <1>2 DEF Etapas, Vivo
<1>7. ASSUME NEW r \in Servidores \ {s} PROVE MismaFila(r)
  BY <1>2, FilaIgual DEF TypeOK
<1>8. /\ Largo(s)' = Largo(s) + 1 /\ Fila(s)'[Largo(s) + 1] = Propia(m, i)
      /\ \A k \in 1 .. Largo(s) : Fila(s)'[k] = Fila(s)[k]
  <2>. DEFINE a == aceptadas[s]
              c == cola[s]
              x == Propia(m, i)
  <2>1. a \in Seq(Conexion) /\ c \in Seq(Conexion)
    BY <1>1 DEF TypeOK
  <2>2. aceptadas'[s] = a /\ cola'[s] = Append(c, x)
    BY <1>1, <1>2 DEF TypeOK
  <2>3. Largo(s) = Len(a) + Len(c) /\ Largo(s)' = Len(a) + Len(cola'[s])
    BY <2>2 DEF Largo
  <2>4. Fila(s) = [k \in 1 .. Largo(s) |-> IF k <= Len(a) THEN a[k] ELSE c[k - Len(a)]]
    BY DEF Fila
  <2>5. Fila(s)' = [k \in 1 .. Largo(s)' |->
                      IF k <= Len(a) THEN a[k] ELSE cola'[s][k - Len(a)]]
    BY <2>2 DEF Fila
  <2>. HIDE DEF a, c, x
  <2>6. Len(a) \in Nat /\ Len(c) \in Nat
    BY <2>1
  <2>7. /\ Len(cola'[s]) = Len(c) + 1 /\ cola'[s][Len(c) + 1] = x
        /\ \A k \in 1 .. Len(c) : cola'[s][k] = c[k]
    BY <2>1, <2>2, <2>6
  <2>8. Largo(s)' = Largo(s) + 1 /\ Largo(s) \in Nat
    BY <2>3, <2>6, <2>7
  <2>9. ASSUME NEW k \in 1 .. Largo(s) PROVE Fila(s)'[k] = Fila(s)[k]
    <3>1. k \in 1 .. Largo(s)'
      BY <2>8
    <3>2. CASE k <= Len(a)
      BY <2>4, <2>5, <3>1, <3>2
    <3>3. CASE ~(k <= Len(a))
      <4>1. k - Len(a) \in 1 .. Len(c)
        BY <2>3, <2>6, <3>3
      <4>2. cola'[s][k - Len(a)] = c[k - Len(a)]
        BY <2>7, <4>1
      <4>. QED BY <2>4, <2>5, <3>1, <3>3, <4>2
    <3>. QED BY <3>2, <3>3
  <2>10. Fila(s)'[Largo(s) + 1] = x
    <3>1. Largo(s) + 1 \in 1 .. Largo(s)' /\ ~(Largo(s) + 1 <= Len(a))
          /\ (Largo(s) + 1) - Len(a) = Len(c) + 1
      BY <2>3, <2>6, <2>8
    <3>. QED BY <2>5, <2>7, <3>1
  <2>. QED BY <2>8, <2>9, <2>10 DEF x
<1>9. ASSUME NEW n \in Clientes, NEW j \in 1 .. N(n), n # m \/ j # i
      PROVE  /\ Abierta(n, j)' <=> Abierta(n, j)
             /\ con'[L(n, j)] = con[L(n, j)]
  <2>1. con'[L(n, j)] = con[L(n, j)]
    <3>1. L(n, j) # L(m, i) /\ L(n, j) \in Enlace
      BY <1>9, DosEnlaces, Enlazados
    <3>. QED BY <1>2, <3>1 DEF TypeOK
  <2>2. CASE n # m
    BY <1>2, <1>4, <2>1, <2>2 DEF Abierta, Vivo
  <2>3. CASE n = m
    BY <1>2, <1>3, <1>4, <1>9, <2>1, <2>3 DEF Abierta, Vivo
  <2>. QED BY <2>2, <2>3
<1>10. con'[L(m, i)] = vez[s]
  BY <1>1, <1>2 DEF TypeOK
<1>11. MismosProcesos
  BY <1>2, <1>4 DEF MismosProcesos, Vivo
<1>12. MismosSaludos
  BY <1>2, <1>4 DEF MismosSaludos, Saludadas
<1>13. MismasRespuestas
  BY <1>2, <1>4 DEF MismasRespuestas, Respondida, Vivo
<1>14. ASSUME s \in Clientes, NEW j \in 1 .. N(s) PROVE Respondida(s, j)
  <2>1. pc[s] \notin {"caido", "conecta", "saluda", "responde"}
    BY <1>2 DEF Etapas
  <2>2. paso[s] = N(s) /\ (j < N(s) \/ j = N(s))
    BY <1>14, <2>1, Enlazados DEF Avances
  <2>. QED BY <2>1, <2>2 DEF Respondida, Vivo
<1>. QED BY <1>0, <1>2, <1>5, <1>6, <1>7, <1>8, <1>9, <1>10, <1>11, <1>12, <1>13, <1>14 DEF Abrio

(* The answer to the greeting of connection i of m, read.                  *)
Leyo(m, i) ==
  /\ ~Respondida(m, i) /\ Respondida(m, i)' /\ Abierta(m, i) /\ Vivo(m)
  /\ correo[L(m, i)] # << >> /\ Head(correo[L(m, i)]) = "hs_aux"
  /\ correo' = [correo EXCEPT ![L(m, i)] = Tail(correo[L(m, i)])]
  /\ \A n \in Clientes : \A j \in 1 .. N(n) :
        n # m \/ j # i => Respondida(n, j)' <=> Respondida(n, j)
  /\ MismosProcesos /\ MismasFilas /\ MismosSaludos /\ MismasAbiertas
  /\ UNCHANGED <<con, leidos, mandados>>

LEMMA EfectoSaluda ==
  ASSUME Inv1, NEW m \in Clientes, Saluda(m)
  PROVE  \E i \in 1 .. N(m) : Leyo(m, i)
<1>. USE LosModulos DEF Inv1
<1>0. PICK i \in 1 .. N(m) : i = paso[m]
  BY EnPaso
<1>1. /\ EsteEnlace(m) = L(m, i) /\ N(m) \in 1 .. 4 /\ L(m, i) \in Enlace /\ i \in Int
  BY <1>0, EnPaso, Enlazados
<1>2. /\ pc[m] = "responde"
      /\ UNCHANGED <<vez, aceptadas, cola, mandados, con, leidos>>
      /\ correo[L(m, i)] # << >> /\ Head(correo[L(m, i)]) = "hs_aux"
      /\ correo' = [correo EXCEPT ![L(m, i)] = Tail(correo[L(m, i)])]
  BY <1>1 DEF Saluda, servidor
<1>3. /\ pc'[m] = IF i < N(m) THEN "conecta" ELSE IF m = "kernel" THEN "tablas" ELSE "levanta"
      /\ \A n \in Modulos \ {m} : pc'[n] = pc[n]
  BY <1>0 DEF Saluda, Ir, Sigue, N, TypeOK
<1>4. /\ i < N(m) => paso'[m] = i + 1
      /\ ~(i < N(m)) => paso'[m] = i
      /\ \A n \in Clientes \ {m} : paso'[n] = paso[n]
  BY <1>0 DEF Saluda, N, TypeOK
<1>5. MismosProcesos
  BY <1>2, <1>3 DEF MismosProcesos, Vivo
<1>6. MismasFilas
  BY <1>2, FilaIgual DEF MismasFilas
<1>7. MismosSaludos
  BY <1>2, <1>3 DEF MismosSaludos, Saludadas
<1>8. MismasAbiertas
  <2>1. ASSUME NEW j \in 1 .. N(m) PROVE Abierta(m, j)' <=> Abierta(m, j)
    <3>1. Vivo(m) /\ Vivo(m)' /\ j \in Int
      BY <1>1, <1>2, <1>3 DEF Vivo
    <3>2. Abierta(m, j) <=> j <= i
      BY <1>0, <1>1, <1>2, <3>1 DEF Abierta
    <3>3. Abierta(m, j)' <=> j <= i
      <4>1. CASE i < N(m)
        <5>1. Abierta(m, j)' <=> j < i + 1
          BY <1>3, <1>4, <3>1, <4>1 DEF Abierta
        <5>. QED BY <1>1, <3>1, <5>1
      <4>2. CASE ~(i < N(m))
        <5>1. Abierta(m, j)' <=> (j < i \/ j = i)
          BY <1>3, <1>4, <3>1, <4>2 DEF Abierta
        <5>. QED BY <1>1, <3>1, <5>1
      <4>. QED BY <4>1, <4>2
    <3>. QED BY <3>2, <3>3
  <2>2. ASSUME NEW n \in Clientes, n # m, NEW j \in 1 .. N(n)
        PROVE  Abierta(n, j)' <=> Abierta(n, j)
    BY <1>3, <1>4, <2>2 DEF Abierta, Vivo
  <2>. QED BY <2>1, <2>2 DEF MismasAbiertas
<1>9. /\ ~Respondida(m, i) /\ Respondida(m, i)' /\ Abierta(m, i) /\ Vivo(m)
      /\ \A n \in Clientes : \A j \in 1 .. N(n) :
           n # m \/ j # i => Respondida(n, j)' <=> Respondida(n, j)
  <2>1. Vivo(m) /\ Vivo(m)'
    BY <1>2, <1>3 DEF Vivo
  <2>2. ~Respondida(m, i) /\ Abierta(m, i)
    BY <1>0, <1>1, <1>2, <2>1 DEF Respondida, Abierta
  <2>3. ASSUME NEW j \in 1 .. N(m)
        PROVE  (Respondida(m, j) <=> j < i) /\ (Respondida(m, j)' <=> j <= i)
    <3>0. j \in Int
      OBVIOUS
    <3>1. Respondida(m, j) <=> j < i
      BY <1>0, <1>1, <1>2, <2>1, <3>0 DEF Respondida
    <3>2. CASE i < N(m)
      <4>1. Respondida(m, j)' <=> j < i + 1
        BY <1>3, <1>4, <2>1, <3>2 DEF Respondida
      <4>. QED BY <1>1, <3>0, <3>1, <4>1
    <3>3. CASE ~(i < N(m))
      <4>1. Respondida(m, j)' <=> (j < i \/ j = i)
        BY <1>3, <1>4, <2>1, <3>3 DEF Respondida
      <4>. QED BY <1>1, <3>0, <3>1, <4>1
    <3>. QED BY <3>2, <3>3
  <2>4. Respondida(m, i)'
    BY <1>1, <2>3
  <2>5. ASSUME NEW j \in 1 .. N(m), j # i PROVE Respondida(m, j)' <=> Respondida(m, j)
    <3>1. j \in Int
      OBVIOUS
    <3>. QED BY <1>1, <2>3, <2>5, <3>1
  <2>6. ASSUME NEW n \in Clientes, n # m, NEW j \in 1 .. N(n)
        PROVE  Respondida(n, j)' <=> Respondida(n, j)
    BY <1>3, <1>4, <2>6 DEF Respondida, Vivo
  <2>. QED BY <2>1, <2>2, <2>4, <2>5, <2>6
<1>. QED BY <1>2, <1>5, <1>6, <1>7, <1>8, <1>9 DEF Leyo

(* One message of the tables, read.                                        *)
LeyoTabla ==
  /\ Respondida("kernel", 2) /\ Vivo("kernel") /\ Len(leidos) < 4
  /\ correo[MemoriaDelKernel] # << >>
  /\ leidos' = Append(leidos, Head(correo[MemoriaDelKernel]))
  /\ correo' = [correo EXCEPT ![MemoriaDelKernel] = Tail(correo[MemoriaDelKernel])]
  /\ MismosProcesos /\ MismasFilas /\ MismosSaludos /\ MismasAbiertas /\ MismasRespuestas
  /\ UNCHANGED <<con, mandados>>

LEMMA EfectoLee == ASSUME Inv1, Lee PROVE LeyoTabla
<1>. USE LosModulos DEF Inv1
<1>. DEFINE e == IF Len(leidos') = Len(Tablas) THEN "sirve" ELSE "tablas"
<1>1. /\ pc["kernel"] = "tablas" /\ pc' = [pc EXCEPT !["kernel"] = e]
      /\ e \in {"sirve", "tablas"}
      /\ UNCHANGED <<vez, paso, aceptadas, cola, con, mandados>>
  BY DEF Lee, Ir, servidor
<1>. HIDE DEF e
<1>2. paso["kernel"] = 4
  BY <1>1, LosEnlaces DEF Avances
<1>3. Respondida("kernel", 2) /\ Vivo("kernel")
  BY <1>1, <1>2 DEF Respondida, Vivo
<1>4. MismosProcesos
  BY <1>1 DEF MismosProcesos, Vivo, TypeOK
<1>5. MismasFilas
  BY <1>1, FilaIgual DEF MismasFilas
<1>6. MismosSaludos
  BY <1>1 DEF MismosSaludos, Saludadas, TypeOK
<1>7. MismasAbiertas
  BY <1>1 DEF MismasAbiertas, Abierta, Vivo, TypeOK
<1>8. MismasRespuestas
  BY <1>1 DEF MismasRespuestas, Respondida, Vivo, TypeOK
<1>. QED BY <1>1, <1>3, <1>4, <1>5, <1>6, <1>7, <1>8 DEF LeyoTabla, Lee, Avances

(* A send to the client of a place: it arrives at the connection that is   *)
(* there, if its process is up.                                            *)
Mando(x, h) ==
  \A m \in Clientes : \A i \in 1 .. N(m) :
     correo'[L(m, i)] = IF x = Propia(m, i) /\ Vivo(m) THEN Append(correo[L(m, i)], h)
                        ELSE correo[L(m, i)]

LEMMA EsPropia ==
  ASSUME NEW m \in Clientes, NEW i \in 1 .. N(m), NEW x \in Conexion
  PROVE  x = Propia(m, i) <=> x.de = m /\ x.hs = H(m, i) /\ x.vez = vez[m]
<1>1. x = [de |-> x.de, hs |-> x.hs, vez |-> x.vez]
  BY DEF Conexion
<1>. QED BY <1>1 DEF Propia, H

LEMMA EfectoEnviar ==
  ASSUME Inv1, NEW x \in Conexion, NEW h \in Cabecera, Enviar(x, h) PROVE Mando(x, h)
<1>. SUFFICES ASSUME NEW m \in Clientes, NEW i \in 1 .. N(m)
              PROVE  correo'[L(m, i)] =
                       IF x = Propia(m, i) /\ Vivo(m) THEN Append(correo[L(m, i)], h)
                       ELSE correo[L(m, i)]
  BY DEF Mando
<1>1. <<x.de, x.hs>> = L(m, i) <=> x.de = m /\ x.hs = H(m, i)
  BY DEF L
<1>2. L(m, i) \in Enlace /\ correo \in [Enlace -> Seq(Cabecera)] /\ <<x.de, x.hs>> \in Enlace
  BY Enlazados DEF Inv1, TypeOK, Conexion, Enlace
<1>3. CASE ClienteVivo(x)
  <2>1. correo' = [correo EXCEPT ![<<x.de, x.hs>>] = Append(correo[<<x.de, x.hs>>], h)]
    BY <1>3 DEF Enviar
  <2>2. x = Propia(m, i) /\ Vivo(m) <=> <<x.de, x.hs>> = L(m, i)
    BY <1>1, <1>3, EsPropia DEF ClienteVivo
  <2>. QED BY <1>2, <2>1, <2>2
<1>4. CASE ~ClienteVivo(x)
  <2>1. correo' = correo
    BY <1>4 DEF Enviar
  <2>2. ~(x = Propia(m, i) /\ Vivo(m))
    BY <1>4, EsPropia DEF ClienteVivo
  <2>. QED BY <2>1, <2>2
<1>. QED BY <1>3, <1>4

(* The greeting of place k of s, read.                                     *)
Atendio(s, k) ==
  /\ k \in 1 .. Largo(s) /\ Saludadas(s) + 1 = k /\ Saludadas(s)' = k
  /\ k \in 1 .. Len(Espera[s])
  /\ \A r \in Servidores : r # s => Saludadas(r)' = Saludadas(r)
  /\ s = "memoria" => mandados = 0
  /\ MismosProcesos /\ MismasFilas /\ MismasAbiertas /\ MismasRespuestas
  /\ UNCHANGED <<con, leidos, mandados>>

LEMMA EfectoAtender ==
  ASSUME Inv1, NEW s \in Servidores, pc[s] = "saludo", Ir(s, TrasElSaludo(s)),
         UNCHANGED <<vez, paso, servidor, saludos, con, leidos, caidas>>
  PROVE  \E k \in 1 .. Largo(s) :
           /\ Atendio(s, k) /\ k = Len(aceptadas[s]) /\ Last(aceptadas[s]) = Fila(s)[k]
<1>. USE LosModulos DEF Inv1
<1>. DEFINE e == TrasElSaludo(s)
<1>1. /\ pc' = [pc EXCEPT ![s] = e] /\ e \in {"acepta", "manda", "sirve"}
      /\ UNCHANGED <<vez, paso, aceptadas, cola, con, leidos, mandados>>
  BY DEF Ir, servidor, TrasElSaludo
<1>. HIDE DEF e
<1>2. Len(aceptadas[s]) >= 1
  BY DEF Etapas
<1>3. PICK k \in 1 .. Largo(s) : k = Len(aceptadas[s]) /\ Last(aceptadas[s]) = Fila(s)[k]
  BY <1>2, UltimoLugar
<1>4. k \in 1 .. Len(Espera[s])
  BY <1>2, <1>3, LosLugares
<1>5. /\ Saludadas(s) + 1 = k /\ Saludadas(s)' = k
      /\ \A r \in Servidores : r # s => Saludadas(r)' = Saludadas(r)
  <2>1. pc'[s] = e /\ \A r \in Servidores : r # s => pc'[r] = pc[r]
    BY <1>1 DEF TypeOK
  <2>2. Saludadas(s) = k - 1
    BY <1>3 DEF Saludadas
  <2>3. Saludadas(s)' = k
    BY <1>1, <1>3, <2>1 DEF Saludadas
  <2>4. \A r \in Servidores : r # s => Saludadas(r)' = Saludadas(r)
    BY <1>1, <2>1 DEF Saludadas
  <2>. QED BY <1>4, <2>2, <2>3, <2>4
<1>6. s = "memoria" => mandados = 0
  BY DEF Avances
<1>7. MismosProcesos
  BY <1>1 DEF MismosProcesos, Vivo, TypeOK
<1>8. MismasFilas
  BY <1>1, FilaIgual DEF MismasFilas
<1>9. MismasAbiertas
  BY <1>1 DEF MismasAbiertas, Abierta, Vivo, TypeOK
<1>10. MismasRespuestas
  BY <1>1 DEF MismasRespuestas, Respondida, Vivo, TypeOK
<1>. QED BY <1>1, <1>3, <1>4, <1>5, <1>6, <1>7, <1>8, <1>9, <1>10 DEF Atendio

LEMMA EfectoContesta ==
  ASSUME Inv1, NEW s \in Servidores, Contesta(s)
  PROVE  \E k \in 1 .. Largo(s) :
           /\ Atendio(s, k) /\ Fila(s)[k].hs = Espera[s][k] /\ Mando(Fila(s)[k], "hs_aux")
<1>1. PICK k \in 1 .. Largo(s) :
           /\ Atendio(s, k) /\ k = Len(aceptadas[s]) /\ Last(aceptadas[s]) = Fila(s)[k]
  BY EfectoAtender DEF Contesta
<1>2. Fila(s)[k].hs = Espera[s][k]
  BY <1>1 DEF Contesta, EsElEsperado
<1>3. Fila(s)[k] \in Conexion /\ "hs_aux" \in Cabecera
  BY LosLugares DEF Cabecera
<1>4. Mando(Fila(s)[k], "hs_aux")
  BY <1>1, <1>3, EfectoEnviar DEF Contesta
<1>. QED BY <1>1, <1>2, <1>4

LEMMA EfectoIgnora ==
  ASSUME Inv1, Ignora
  PROVE  \E k \in 1 .. Largo("memoria") :
           /\ Atendio("memoria", k) /\ Fila("memoria")[k].hs # Espera["memoria"][k]
           /\ correo' = correo
<1>1. PICK k \in 1 .. Largo("memoria") :
           /\ Atendio("memoria", k) /\ k = Len(aceptadas["memoria"])
           /\ Last(aceptadas["memoria"]) = Fila("memoria")[k]
  BY LosModulos, EfectoAtender DEF Ignora
<1>2. Fila("memoria")[k].hs # Espera["memoria"][k]
  BY <1>1 DEF Ignora, EsElEsperado
<1>. QED BY <1>1, <1>2 DEF Ignora

(* One message of the tables, sent to the third place.                     *)
MandoTabla ==
  /\ Saludadas("memoria") = 3 /\ 3 \in 1 .. Largo("memoria") /\ mandados \in 0 .. 3
  /\ mandados' = mandados + 1 /\ Mando(Fila("memoria")[3], Tablas[mandados + 1])
  /\ MismosProcesos /\ MismasFilas /\ MismosSaludos /\ MismasAbiertas /\ MismasRespuestas
  /\ UNCHANGED <<con, leidos>>

LEMMA EfectoManda == ASSUME Inv1, Manda PROVE MandoTabla
<1>. USE LosModulos DEF Inv1
<1>. DEFINE e == IF mandados' = Len(Tablas) THEN "sirve" ELSE "manda"
<1>1. /\ pc["memoria"] = "manda" /\ pc' = [pc EXCEPT !["memoria"] = e]
      /\ e \in {"sirve", "manda"} /\ mandados' = mandados + 1
      /\ UNCHANGED <<vez, paso, aceptadas, cola, con, leidos>>
  BY DEF Manda, Ir
<1>. HIDE DEF e
<1>2. Saludadas("memoria") = 3 /\ Len(aceptadas["memoria"]) = 3
  BY <1>1, Completa
<1>3. mandados \in 0 .. 3
  BY <1>1, LasTablas DEF TypeOK, Avances
<1>4. PICK s \in Servidores, k \in {3} : s = "memoria" /\ k = Len(aceptadas[s])
  BY <1>2
<1>5. Last(aceptadas[s]) = Fila(s)[k] /\ k \in 1 .. Largo(s)
  <2>0. \A a : a = 3 => a >= 1
    OBVIOUS
  <2>1. Len(aceptadas[s]) >= 1
    BY <1>4, <2>0
  <2>. QED BY <1>4, <2>1, UltimoLugar
<1>6. Tablas[mandados + 1] \in Cabecera
  <2>1. mandados + 1 \in 1 .. Len(Tablas)
    BY <1>3, LasTablas
  <2>. QED BY <2>1, LasTablas, ElementOfSeq
<1>7. Mando(Fila(s)[k], Tablas[mandados + 1])
  <2>1. Fila(s)[k] \in Conexion
    BY <1>5, LosLugares
  <2>2. Enviar(Fila(s)[k], Tablas[mandados + 1])
    BY <1>4, <1>5 DEF Manda
  <2>. QED BY <1>6, <2>1, <2>2, EfectoEnviar
<1>8. MismosProcesos
  BY <1>1 DEF MismosProcesos, Vivo, TypeOK
<1>9. MismasFilas
  BY <1>1, FilaIgual DEF MismasFilas
<1>10. MismosSaludos
  BY <1>1 DEF MismosSaludos, Saludadas, TypeOK
<1>11. MismasAbiertas
  BY <1>1 DEF MismasAbiertas, Abierta, Vivo, TypeOK
<1>12. MismasRespuestas
  BY <1>1 DEF MismasRespuestas, Respondida, Vivo, TypeOK
<1>. QED BY <1>1, <1>2, <1>3, <1>4, <1>5, <1>7, <1>8, <1>9, <1>10, <1>11, <1>12 DEF MandoTabla

(* A process gone: its places are empty and its connections closed.        *)
Murio(m) ==
  /\ vez' = vez /\ ~Vivo(m)'
  /\ \A n \in Modulos : n # m => Vivo(n)' <=> Vivo(n)
  /\ m \in Servidores => Largo(m)' = 0 /\ Saludadas(m)' = 0
  /\ \A s \in Servidores : s # m => MismaFila(s) /\ Saludadas(s)' = Saludadas(s)
  /\ \A i \in 1 .. 4 : ~Abierta(m, i)' /\ ~Respondida(m, i)'
  /\ m \in Clientes => \A i \in 1 .. N(m) : con'[L(m, i)] = 0 /\ correo'[L(m, i)] = << >>
  /\ \A n \in Clientes : n # m => \A i \in 1 .. N(n) :
        /\ Abierta(n, i)' <=> Abierta(n, i)
        /\ Respondida(n, i)' <=> Respondida(n, i)
        /\ con'[L(n, i)] = con[L(n, i)] /\ correo'[L(n, i)] = correo[L(n, i)]
  /\ leidos' = IF m = "kernel" THEN << >> ELSE leidos
  /\ m # "memoria" => mandados' = mandados

LEMMA EfectoMuere == ASSUME Inv1, NEW m \in Modulos, Muere(m) PROVE Murio(m)
<1>. USE LosModulos DEF Inv1
<1>1. /\ pc'[m] = "caido" /\ \A n \in Modulos \ {m} : pc'[n] = pc[n]
      /\ UNCHANGED <<vez, paso>>
  BY DEF Muere, Termina, Ir, TypeOK
<1>2. /\ \A s \in Servidores \ {m} : aceptadas'[s] = aceptadas[s] /\ cola'[s] = cola[s]
      /\ m \in Servidores => aceptadas'[m] = << >> /\ cola'[m] = << >>
  BY DEF Muere, Termina, TypeOK
<1>3. ~Vivo(m)' /\ \A n \in Modulos : n # m => Vivo(n)' <=> Vivo(n)
  BY <1>1 DEF Vivo
<1>4. m \in Servidores => Largo(m)' = 0 /\ Saludadas(m)' = 0
  <2>1. Len(<< >>) = 0
    OBVIOUS
  <2>2. \A a, b : a = 0 /\ b = 0 => a + b = 0
    OBVIOUS
  <2>3. ASSUME m \in Servidores PROVE Len(aceptadas'[m]) = 0 /\ Len(cola'[m]) = 0
    BY <1>2, <2>1, <2>3
  <2>4. ASSUME m \in Servidores PROVE Largo(m)' = 0
    BY <2>2, <2>3, <2>4 DEF Largo
  <2>5. ASSUME m \in Servidores PROVE Saludadas(m)' = 0
    BY <1>1, <2>3, <2>5 DEF Saludadas
  <2>. QED BY <2>4, <2>5
<1>5. \A s \in Servidores : s # m => MismaFila(s) /\ Saludadas(s)' = Saludadas(s)
  BY <1>1, <1>2, FilaIgual DEF Saludadas
<1>6. \A i \in 1 .. 4 : ~Abierta(m, i)' /\ ~Respondida(m, i)'
  BY <1>3 DEF Abierta, Respondida
<1>7. ASSUME m \in Clientes, NEW i \in 1 .. N(m)
      PROVE  con'[L(m, i)] = 0 /\ correo'[L(m, i)] = << >>
  <2>1. L(m, i) \in Enlace /\ L(m, i)[1] = m
    BY <1>7, Enlazados DEF L
  <2>. QED BY <2>1 DEF Muere, Termina
<1>8. ASSUME NEW n \in Clientes, n # m, NEW i \in 1 .. N(n)
      PROVE  /\ Abierta(n, i)' <=> Abierta(n, i)
             /\ Respondida(n, i)' <=> Respondida(n, i)
             /\ con'[L(n, i)] = con[L(n, i)] /\ correo'[L(n, i)] = correo[L(n, i)]
  <2>1. L(n, i) \in Enlace /\ L(n, i)[1] = n
    BY Enlazados DEF L
  <2>2. con'[L(n, i)] = con[L(n, i)] /\ correo'[L(n, i)] = correo[L(n, i)]
    BY <1>8, <2>1 DEF Muere, Termina
  <2>. QED BY <1>1, <1>8, <2>2 DEF Abierta, Respondida, Vivo
<1>9. /\ leidos' = IF m = "kernel" THEN << >> ELSE leidos
      /\ m # "memoria" => mandados' = mandados
  BY DEF Muere, Termina
<1>. QED BY <1>1, <1>3, <1>4, <1>5, <1>6, <1>7, <1>8, <1>9 DEF Murio

(* A process launched: nobody has heard of it yet.                         *)
Nacio(m) ==
  /\ vez'[m] = vez[m] + 1 /\ \A n \in Modulos : n # m => vez'[n] = vez[n]
  /\ ~Vivo(m) /\ Vivo(m)'
  /\ \A n \in Modulos : n # m => Vivo(n)' <=> Vivo(n)
  /\ MismasFilas /\ MismosSaludos /\ MismasAbiertas /\ MismasRespuestas
  /\ m \in Clientes => \A i \in 1 .. N(m) : ~Abierta(m, i) /\ ~Respondida(m, i)
  /\ UNCHANGED <<con, correo, leidos, mandados>>

LEMMA EfectoLanzar == ASSUME Inv1, NEW m \in Modulos, Lanzar(m) PROVE Nacio(m)
<1>. USE LosModulos DEF Inv1
<1>1. /\ pc'[m] = (IF m = "memoria" THEN "levanta" ELSE "conecta") /\ pc[m] = "caido"
      /\ \A n \in Modulos \ {m} : pc'[n] = pc[n] /\ vez'[n] = vez[n]
      /\ vez'[m] = vez[m] + 1
      /\ \A n \in Clientes \ {m} : paso'[n] = paso[n]
      /\ m \in Clientes => paso'[m] = 1
      /\ UNCHANGED <<aceptadas, cola, con, correo, leidos, mandados>>
  BY DEF Lanzar, Ir, TypeOK, servidor
<1>2. ~Vivo(m) /\ Vivo(m)' /\ \A n \in Modulos : n # m => Vivo(n)' <=> Vivo(n)
  BY <1>1 DEF Vivo
<1>3. MismasFilas
  BY <1>1, FilaIgual DEF MismasFilas
<1>4. MismosSaludos
  BY <1>1 DEF MismosSaludos, Saludadas
<1>5. ASSUME NEW n \in Clientes, NEW i \in 1 .. N(n), n # m
      PROVE  (Abierta(n, i)' <=> Abierta(n, i)) /\ (Respondida(n, i)' <=> Respondida(n, i))
  BY <1>1, <1>5 DEF Abierta, Respondida, Vivo
<1>6. ASSUME m \in Clientes, NEW i \in 1 .. N(m)
      PROVE  ~Abierta(m, i) /\ ~Respondida(m, i) /\ ~Abierta(m, i)' /\ ~Respondida(m, i)'
  <2>1. ~Abierta(m, i) /\ ~Respondida(m, i)
    BY <1>2 DEF Abierta, Respondida
  <2>2. pc'[m] = "conecta" /\ paso'[m] = 1 /\ ~(i < 1)
    <3>1. N(m) \in 1 .. 4
      BY <1>6, Enlazados
    <3>. QED BY <1>1, <1>6, <3>1
  <2>3. ~Abierta(m, i)' /\ ~Respondida(m, i)'
    BY <2>2 DEF Abierta, Respondida
  <2>. QED BY <2>1, <2>3
<1>7. MismasAbiertas /\ MismasRespuestas
  BY <1>5, <1>6 DEF MismasAbiertas, MismasRespuestas
<1>. QED BY <1>1, <1>2, <1>3, <1>4, <1>6, <1>7 DEF Nacio

-----------------------------------------------------------------------------
(* The steps by what they do.                                              *)
Efectos ==
  \/ Quieto
  \/ \E m \in Modulos : Murio(m) \/ Nacio(m)
  \/ \E m \in Clientes : \E i \in 1 .. N(m) : Abrio(m, i, A(m, i)) \/ Leyo(m, i)
  \/ LeyoTabla \/ MandoTabla
  \/ \E s \in Servidores : \E k \in 1 .. Largo(s) :
       Atendio(s, k) /\ Fila(s)[k].hs = Espera[s][k] /\ Mando(Fila(s)[k], "hs_aux")
  \/ \E k \in 1 .. Largo("memoria") :
       /\ Atendio("memoria", k) /\ Fila("memoria")[k].hs # Espera["memoria"][k]
       /\ correo' = correo

LEMMA LosEfectos == Inv1 /\ [Next]_vars => Efectos
<1>. SUFFICES ASSUME Inv1, [Next]_vars PROVE Efectos
  OBVIOUS
<1>1. Pasos
  BY LosPasos
<1>2. ASSUME NEW m \in Modulos, Muere(m) \/ Lanzar(m) PROVE Efectos
  BY <1>2, EfectoMuere, EfectoLanzar DEF Efectos
<1>3. ASSUME NEW m \in Clientes, Conecta(m) PROVE Efectos
  BY <1>3, EfectoConecta DEF Efectos
<1>4. ASSUME NEW m \in Clientes, Saludar(m) PROVE Efectos
  BY <1>4, EfectoSaludar DEF Efectos
<1>5. ASSUME NEW m \in Clientes, Saluda(m) PROVE Efectos
  BY <1>5, EfectoSaluda DEF Efectos
<1>6. ASSUME NEW s \in Servidores, Levantar(s) \/ Aceptar(s) PROVE Efectos
  BY <1>6, EfectoLevantar, EfectoAceptar DEF Efectos
<1>7. ASSUME NEW s \in Servidores, Contesta(s) PROVE Efectos
  BY <1>7, EfectoContesta DEF Efectos
<1>8. CASE Lee \/ Manda
  BY <1>8, EfectoLee, EfectoManda DEF Efectos
<1>9. CASE Ignora
  BY <1>9, EfectoIgnora DEF Efectos
<1>10. CASE UNCHANGED vars
  BY <1>10, EfectoNada DEF Efectos
<1>. QED BY <1>1, <1>2, <1>3, <1>4, <1>5, <1>6, <1>7, <1>8, <1>9, <1>10 DEF Pasos

-----------------------------------------------------------------------------
(* Who is in the places: a launch of one of the clients of that server,    *)
(* with the handshake it opens there; if it is the one that is up, its end *)
(* of the connection leads to this launch of the server.                   *)
DeCliente(s, k, m, i) ==
  /\ Fila(s)[k].de = m /\ Fila(s)[k].hs = H(m, i) /\ A(m, i) = s
  /\ Fila(s)[k].vez \in 1 .. vez[m]
  /\ Vivo(m) /\ Fila(s)[k].vez = vez[m] => Abierta(m, i) /\ con[L(m, i)] = vez[s]
Filas == \A s \in Servidores : \A k \in 1 .. Largo(s) :
           \E m \in Clientes : \E i \in 1 .. N(m) : DeCliente(s, k, m, i)

(* No connection is in two places.                                         *)
UnaVez == \A s \in Servidores : \A k, l \in 1 .. Largo(s) : Fila(s)[k] = Fila(s)[l] => k = l

(* A connection leads to a launch of its server; one that is not open, to  *)
(* none, and nothing is on its way to it.                                  *)
Vinculos == \A m \in Clientes : \A i \in 1 .. N(m) :
  /\ Abierta(m, i) => con[L(m, i)] \in 1 .. vez[A(m, i)]
  /\ ~Abierta(m, i) => con[L(m, i)] = 0 /\ correo[L(m, i)] = << >>

(* Nobody has an answer before the server reads its greeting.              *)
SinSaludar == \A m \in Clientes : \A i \in 1 .. N(m) :
  \A k \in Saludadas(A(m, i)) + 1 .. Largo(A(m, i)) :
     Fila(A(m, i))[k] = Propia(m, i) /\ Vivo(m) => correo[L(m, i)] = << >> /\ ~Respondida(m, i)

Inv2 == Inv1 /\ Filas /\ UnaVez /\ Vinculos /\ SinSaludar

LEMMA PropiaIgual ==
  ASSUME NEW m \in Clientes, NEW i \in 1 .. N(m), vez'[m] = vez[m]
  PROVE  Propia(m, i)' = Propia(m, i)
  BY DEF Propia

LEMMA PropiaConexion ==
  ASSUME Inv1, NEW m \in Clientes, NEW i \in 1 .. N(m)
  PROVE  /\ Propia(m, i) \in Conexion /\ Propia(m, i).de = m /\ Propia(m, i).hs = H(m, i)
         /\ Propia(m, i).vez = vez[m] /\ vez[m] \in Nat
<1>1. H(m, i) \in Hs /\ m \in Modulos
  BY Enlazados
<1>2. vez[m] \in Nat
  BY <1>1 DEF Inv1, TypeOK
<1>. QED BY <1>1, <1>2 DEF Propia, Conexion, H

LEMMA RespondidaAbierta ==
  ASSUME NEW m \in Clientes, NEW i \in 1 .. N(m), Respondida(m, i)
  PROVE  Abierta(m, i) /\ Vivo(m)
  BY DEF Respondida, Abierta

(* Whose the connection of a place is.                                     *)
LEMMA DeQuien ==
  ASSUME Inv1, Filas, NEW s \in Servidores, NEW k \in 1 .. Largo(s),
         NEW m \in Clientes, NEW i \in 1 .. N(m), Fila(s)[k] = Propia(m, i)
  PROVE  /\ A(m, i) = s
         /\ Vivo(m) => Abierta(m, i) /\ con[L(m, i)] = vez[s]
<1>1a. PICK n \in Clientes : \E j \in 1 .. N(n) : DeCliente(s, k, n, j)
  BY DEF Filas
<1>1. PICK j \in 1 .. N(n) : DeCliente(s, k, n, j)
  BY <1>1a
<1>2. n = m /\ H(n, j) = H(m, i) /\ Fila(s)[k].vez = vez[m]
  BY <1>1, PropiaConexion DEF DeCliente
<1>3. j = i
  BY <1>2, Enlazados
<1>. QED BY <1>1, <1>2, <1>3 DEF DeCliente

(* Steps that leave who is where and who is connected to whom.             *)
Estable == MismosProcesos /\ MismasFilas /\ MismasAbiertas /\ con' = con

LEMMA LosEstables ==
  /\ Quieto => Estable
  /\ \A m \in Clientes : \A i \in 1 .. N(m) : Leyo(m, i) => Estable
  /\ LeyoTabla \/ MandoTabla => Estable
  /\ \A s \in Servidores : \A k \in 1 .. Largo(s) : Atendio(s, k) => Estable
  BY DEF Estable, Quieto, Leyo, LeyoTabla, MandoTabla, Atendio

LEMMA Filas_Next ==
  ASSUME Inv1, Filas, Efectos PROVE Filas'
<1>. USE LosModulos
<1>1. CASE Estable
  <2>. SUFFICES ASSUME NEW s \in Servidores, NEW k \in 1 .. Largo(s)'
                PROVE  \E m \in Clientes : \E i \in 1 .. N(m) : DeCliente(s, k, m, i)'
    BY DEF Filas
  <2>1. k \in 1 .. Largo(s) /\ Fila(s)'[k] = Fila(s)[k]
    BY <1>1 DEF Estable, MismasFilas, MismaFila
  <2>2a. PICK m \in Clientes : \E i \in 1 .. N(m) : DeCliente(s, k, m, i)
    BY <2>1 DEF Filas
  <2>2. PICK i \in 1 .. N(m) : DeCliente(s, k, m, i)
    BY <2>2a
  <2>3. /\ Vivo(m)' <=> Vivo(m)
        /\ Abierta(m, i)' <=> Abierta(m, i)
        /\ con' = con /\ vez' = vez
    BY <1>1 DEF Estable, MismosProcesos, MismasAbiertas
  <2>4. DeCliente(s, k, m, i)'
    BY <2>1, <2>2, <2>3 DEF DeCliente
  <2>. QED BY <2>4
<1>2. ASSUME NEW m \in Modulos, Murio(m) PROVE Filas'
  <2>. SUFFICES ASSUME NEW s \in Servidores, NEW k \in 1 .. Largo(s)'
                PROVE  \E n \in Clientes : \E i \in 1 .. N(n) : DeCliente(s, k, n, i)'
    BY DEF Filas
  <2>1. s # m
    BY <1>2 DEF Murio
  <2>2. k \in 1 .. Largo(s) /\ Fila(s)'[k] = Fila(s)[k]
    BY <1>2, <2>1 DEF Murio, MismaFila
  <2>3a. PICK n \in Clientes : \E i \in 1 .. N(n) : DeCliente(s, k, n, i)
    BY <2>2 DEF Filas
  <2>3. PICK i \in 1 .. N(n) : DeCliente(s, k, n, i)
    BY <2>3a
  <2>4. vez' = vez
    BY <1>2 DEF Murio
  <2>5. CASE n = m
    <3>1. ~Vivo(n)'
      BY <1>2, <2>5 DEF Murio
    <3>2. DeCliente(s, k, n, i)'
      BY <2>2, <2>3, <2>4, <3>1 DEF DeCliente
    <3>. QED BY <3>2
  <2>6. CASE n # m
    <3>1. /\ Vivo(n)' <=> Vivo(n)
          /\ Abierta(n, i)' <=> Abierta(n, i)
          /\ con'[L(n, i)] = con[L(n, i)]
      BY <1>2, <2>6 DEF Murio
    <3>2. DeCliente(s, k, n, i)'
      BY <2>2, <2>3, <2>4, <3>1 DEF DeCliente
    <3>. QED BY <3>2
  <2>. QED BY <2>5, <2>6
<1>3. ASSUME NEW m \in Modulos, Nacio(m) PROVE Filas'
  <2>. SUFFICES ASSUME NEW s \in Servidores, NEW k \in 1 .. Largo(s)'
                PROVE  \E n \in Clientes : \E i \in 1 .. N(n) : DeCliente(s, k, n, i)'
    BY DEF Filas
  <2>1. k \in 1 .. Largo(s) /\ Fila(s)'[k] = Fila(s)[k]
    BY <1>3 DEF Nacio, MismasFilas, MismaFila
  <2>2. s # m
    <3>1. Vivo(s)
      BY <2>1, LosLugares
    <3>. QED BY <1>3, <3>1 DEF Nacio
  <2>3. vez'[s] = vez[s]
    BY <1>3, <2>2 DEF Nacio
  <2>4a. PICK n \in Clientes : \E i \in 1 .. N(n) : DeCliente(s, k, n, i)
    BY <2>1 DEF Filas
  <2>4. PICK i \in 1 .. N(n) : DeCliente(s, k, n, i)
    BY <2>4a
  <2>5. CASE n = m
    <3>1. vez'[n] = vez[n] + 1 /\ vez[n] \in Nat
      BY <1>3, <2>5 DEF Nacio, Inv1, TypeOK
    <3>2. Fila(s)'[k].vez \in 1 .. vez'[n] /\ Fila(s)'[k].vez # vez'[n]
      BY <2>1, <2>4, <3>1 DEF DeCliente
    <3>3. DeCliente(s, k, n, i)'
      BY <2>1, <2>4, <3>2 DEF DeCliente
    <3>. QED BY <3>3
  <2>6. CASE n # m
    <3>1. /\ Vivo(n)' <=> Vivo(n)
          /\ Abierta(n, i)' <=> Abierta(n, i)
          /\ con' = con /\ vez'[n] = vez[n]
      BY <1>3, <2>6 DEF Nacio, MismasAbiertas
    <3>2. DeCliente(s, k, n, i)'
      BY <2>1, <2>3, <2>4, <3>1 DEF DeCliente
    <3>. QED BY <3>2
  <2>. QED BY <2>5, <2>6
<1>4. ASSUME NEW m \in Clientes, NEW i \in 1 .. N(m), Abrio(m, i, A(m, i)) PROVE Filas'
  <2>. SUFFICES ASSUME NEW s \in Servidores, NEW k \in 1 .. Largo(s)'
                PROVE  \E n \in Clientes : \E j \in 1 .. N(n) : DeCliente(s, k, n, j)'
    BY DEF Filas
  <2>1. /\ vez' = vez /\ \A n \in Modulos : Vivo(n)' <=> Vivo(n)
        /\ Vivo(m) /\ ~Abierta(m, i) /\ Abierta(m, i)'
        /\ con'[L(m, i)] = vez[A(m, i)] /\ A(m, i) \in Servidores
    BY <1>4, Enlazados DEF Abrio, MismosProcesos
  <2>2. CASE k \in 1 .. Largo(s)
    <3>1. Fila(s)'[k] = Fila(s)[k]
      BY <1>4, <2>2 DEF Abrio, MismaFila
    <3>2a. PICK n \in Clientes : \E j \in 1 .. N(n) : DeCliente(s, k, n, j)
      BY <2>2 DEF Filas
    <3>2. PICK j \in 1 .. N(n) : DeCliente(s, k, n, j)
      BY <3>2a
    <3>3. CASE n = m /\ j = i
      <4>1. DeCliente(s, k, n, j)'
        BY <2>1, <3>1, <3>2, <3>3 DEF DeCliente
      <4>. QED BY <4>1
    <3>4. CASE n # m \/ j # i
      <4>1. (Abierta(n, j)' <=> Abierta(n, j)) /\ con'[L(n, j)] = con[L(n, j)]
        BY <1>4, <3>4 DEF Abrio
      <4>2. DeCliente(s, k, n, j)'
        BY <2>1, <3>1, <3>2, <4>1 DEF DeCliente
      <4>. QED BY <4>2
    <3>. QED BY <3>3, <3>4
  <2>3. CASE k \notin 1 .. Largo(s)
    <3>1. s = A(m, i)
      BY <1>4, <2>3 DEF Abrio, MismaFila
    <3>2. Largo(s) \in Nat /\ Largo(s)' = Largo(s) + 1 /\ Fila(s)'[Largo(s) + 1] = Propia(m, i)
      BY <1>4, <3>1, LosLugares DEF Abrio
    <3>3. k = Largo(s) + 1
      BY <2>3, <3>2
    <3>4. vez[m] \in 1 .. vez[m]
      BY <2>1 DEF Inv1, TypeOK, Avances
    <3>5. DeCliente(s, k, m, i)'
      BY <2>1, <3>1, <3>2, <3>3, <3>4, PropiaConexion DEF DeCliente
    <3>. QED BY <3>5
  <2>. QED BY <2>2, <2>3
<1>. QED BY <1>1, <1>2, <1>3, <1>4, LosEstables DEF Efectos

LEMMA UnaVez_Next ==
  ASSUME Inv1, Filas, UnaVez, Efectos PROVE UnaVez'
<1>. USE LosModulos
<1>. SUFFICES ASSUME NEW s \in Servidores, NEW k \in 1 .. Largo(s)', NEW l \in 1 .. Largo(s)',
                     Fila(s)'[k] = Fila(s)'[l]
              PROVE  k = l
  BY DEF UnaVez
<1>1. CASE MismaFila(s)
  <2>1. k \in 1 .. Largo(s) /\ l \in 1 .. Largo(s) /\ Fila(s)[k] = Fila(s)[l]
    BY <1>1 DEF MismaFila
  <2>. QED BY <2>1 DEF UnaVez
<1>2. ASSUME NEW m \in Modulos, Murio(m) \/ Nacio(m) PROVE k = l
  <2>1. CASE MismaFila(s)
    BY <1>1, <2>1
  <2>2. CASE ~MismaFila(s)
    <3>1. Largo(s)' = 0
      BY <1>2, <2>2 DEF Murio, Nacio, MismasFilas
    <3>. QED BY <3>1
  <2>. QED BY <2>1, <2>2
<1>3. ASSUME NEW m \in Clientes, NEW i \in 1 .. N(m), Abrio(m, i, A(m, i)) PROVE k = l
  <2>1. CASE s # A(m, i)
    BY <1>1, <1>3, <2>1 DEF Abrio
  <2>2. CASE s = A(m, i)
    <3>1. /\ Largo(s) \in Nat /\ Largo(s)' = Largo(s) + 1
          /\ Fila(s)'[Largo(s) + 1] = Propia(m, i)
          /\ \A j \in 1 .. Largo(s) : Fila(s)'[j] = Fila(s)[j]
      BY <1>3, <2>2, LosLugares DEF Abrio
    <3>2. \A j \in 1 .. Largo(s) : Fila(s)[j] # Propia(m, i)
      BY <1>3, DeQuien DEF Abrio
    <3>3. /\ k \in 1 .. Largo(s) \/ k = Largo(s) + 1
          /\ l \in 1 .. Largo(s) \/ l = Largo(s) + 1
      BY <3>1
    <3>4. CASE k \in 1 .. Largo(s) /\ l \in 1 .. Largo(s)
      BY <3>1, <3>4 DEF UnaVez
    <3>5. CASE ~(k \in 1 .. Largo(s) /\ l \in 1 .. Largo(s))
      BY <3>1, <3>2, <3>3, <3>5
    <3>. QED BY <3>4, <3>5
  <2>. QED BY <2>1, <2>2
<1>4. CASE Estable
  BY <1>1, <1>4 DEF Estable, MismasFilas
<1>. QED BY <1>2, <1>3, <1>4, LosEstables DEF Efectos

(* What a send to place k of s can change.                                 *)
LEMMA SoloALaSuya ==
  ASSUME Inv1, Filas, NEW s \in Servidores, NEW k \in 1 .. Largo(s), NEW h,
         Mando(Fila(s)[k], h), NEW m \in Clientes, NEW i \in 1 .. N(m),
         correo'[L(m, i)] # correo[L(m, i)]
  PROVE  /\ Fila(s)[k] = Propia(m, i) /\ Vivo(m) /\ A(m, i) = s /\ Abierta(m, i)
         /\ con[L(m, i)] = vez[s]
         /\ correo'[L(m, i)] = Append(correo[L(m, i)], h)
<1>1. /\ Fila(s)[k] = Propia(m, i) /\ Vivo(m)
      /\ correo'[L(m, i)] = Append(correo[L(m, i)], h)
  BY DEF Mando
<1>. QED BY <1>1, DeQuien

LEMMA Vinculos_Next ==
  ASSUME Inv1, Filas, Vinculos, Efectos PROVE Vinculos'
<1>. USE LosModulos
<1>. SUFFICES ASSUME NEW m \in Clientes, NEW i \in 1 .. N(m)
              PROVE  /\ Abierta(m, i)' => con'[L(m, i)] \in 1 .. vez'[A(m, i)]
                     /\ ~Abierta(m, i)' => con'[L(m, i)] = 0 /\ correo'[L(m, i)] = << >>
  BY DEF Vinculos
<1>0. /\ Abierta(m, i) => con[L(m, i)] \in 1 .. vez[A(m, i)]
      /\ ~Abierta(m, i) => con[L(m, i)] = 0 /\ correo[L(m, i)] = << >>
      /\ A(m, i) \in Servidores /\ L(m, i) \in Enlace
      /\ correo \in [Enlace -> Seq(Cabecera)]
  BY Enlazados DEF Vinculos, Inv1, TypeOK
<1>1. ASSUME Estable, ~Abierta(m, i) => correo'[L(m, i)] = correo[L(m, i)]
      PROVE  /\ Abierta(m, i)' => con'[L(m, i)] \in 1 .. vez'[A(m, i)]
             /\ ~Abierta(m, i)' => con'[L(m, i)] = 0 /\ correo'[L(m, i)] = << >>
  BY <1>0, <1>1 DEF Estable, MismosProcesos, MismasAbiertas
<1>2. CASE Quieto
  BY <1>1, <1>2, LosEstables DEF Quieto
<1>3. ASSUME NEW n \in Clientes, NEW j \in 1 .. N(n), Leyo(n, j)
      PROVE  ~Abierta(m, i) => correo'[L(m, i)] = correo[L(m, i)]
  <2>1. CASE L(m, i) = L(n, j)
    BY <1>3, <2>1, DosEnlaces DEF Leyo
  <2>2. CASE L(m, i) # L(n, j)
    BY <1>0, <1>3, <2>2 DEF Leyo
  <2>. QED BY <2>1, <2>2
<1>4. ASSUME LeyoTabla PROVE ~Abierta(m, i) => correo'[L(m, i)] = correo[L(m, i)]
  <2>1. CASE L(m, i) = MemoriaDelKernel
    <3>1. m = "kernel" /\ i = 2
      BY <2>1, ElKernel, DosEnlaces
    <3>. QED BY <1>4, <3>1, RespondidaAbierta DEF LeyoTabla
  <2>2. CASE L(m, i) # MemoriaDelKernel
    BY <1>0, <1>4, <2>2 DEF LeyoTabla
  <2>. QED BY <2>1, <2>2
<1>5. ASSUME NEW s \in Servidores, NEW k \in 1 .. Largo(s), NEW h, Mando(Fila(s)[k], h)
      PROVE  ~Abierta(m, i) => correo'[L(m, i)] = correo[L(m, i)]
  BY <1>5, SoloALaSuya
<1>6. ASSUME NEW n \in Modulos, Murio(n)
      PROVE  /\ Abierta(m, i)' => con'[L(m, i)] \in 1 .. vez'[A(m, i)]
             /\ ~Abierta(m, i)' => con'[L(m, i)] = 0 /\ correo'[L(m, i)] = << >>
  <2>1. CASE n = m
    <3>1. i \in 1 .. 4
      BY Enlazados
    <3>. QED BY <1>6, <2>1, <3>1 DEF Murio
  <2>2. CASE n # m
    BY <1>0, <1>6, <2>2 DEF Murio
  <2>. QED BY <2>1, <2>2
<1>7. ASSUME NEW n \in Modulos, Nacio(n)
      PROVE  /\ Abierta(m, i)' => con'[L(m, i)] \in 1 .. vez'[A(m, i)]
             /\ ~Abierta(m, i)' => con'[L(m, i)] = 0 /\ correo'[L(m, i)] = << >>
  <2>1. (Abierta(m, i)' <=> Abierta(m, i)) /\ con' = con /\ correo' = correo
    BY <1>7 DEF Nacio, MismasAbiertas
  <2>2. vez[A(m, i)] \in Nat /\ (vez'[A(m, i)] = vez[A(m, i)] \/ vez'[A(m, i)] = vez[A(m, i)] + 1)
    <3>1. A(m, i) \in Modulos
      BY <1>0
    <3>2. vez[A(m, i)] \in Nat
      BY <3>1, CotasAssumption DEF Inv1, TypeOK
    <3>3. \A r \in Modulos : vez'[r] = vez[r] \/ vez'[r] = vez[r] + 1
      BY <1>7 DEF Nacio
    <3>. QED BY <3>1, <3>2, <3>3
  <2>3. \A a : a \in 1 .. vez[A(m, i)] => a \in 1 .. vez'[A(m, i)]
    BY <2>2
  <2>. QED BY <1>0, <2>1, <2>3
<1>8. ASSUME NEW n \in Clientes, NEW j \in 1 .. N(n), Abrio(n, j, A(n, j))
      PROVE  /\ Abierta(m, i)' => con'[L(m, i)] \in 1 .. vez'[A(m, i)]
             /\ ~Abierta(m, i)' => con'[L(m, i)] = 0 /\ correo'[L(m, i)] = << >>
  <2>0. vez' = vez /\ correo' = correo
    BY <1>8 DEF Abrio, MismosProcesos
  <2>1. CASE m = n /\ i = j
    <3>1. vez[A(m, i)] >= 1 /\ vez[A(m, i)] \in Nat
      BY <1>0, <1>8, <2>1 DEF Abrio, Inv1, TypeOK, Avances
    <3>2. Abierta(m, i)' /\ con'[L(m, i)] = vez[A(m, i)]
      BY <1>8, <2>1 DEF Abrio
    <3>. QED BY <2>0, <3>1, <3>2
  <2>2. CASE m # n \/ i # j
    <3>1. (Abierta(m, i)' <=> Abierta(m, i)) /\ con'[L(m, i)] = con[L(m, i)]
      BY <1>8, <2>2 DEF Abrio
    <3>. QED BY <1>0, <2>0, <3>1
  <2>. QED BY <2>1, <2>2
<1>9. CASE MandoTabla
  <2>1. 3 \in 1 .. Largo("memoria") /\ Mando(Fila("memoria")[3], Tablas[mandados + 1])
    BY <1>9 DEF MandoTabla
  <2>. QED BY <1>1, <1>5, <1>9, <2>1, LosEstables
<1>10. ASSUME NEW s \in Servidores, NEW k \in 1 .. Largo(s), Atendio(s, k),
              Mando(Fila(s)[k], "hs_aux") \/ correo' = correo
       PROVE  /\ Abierta(m, i)' => con'[L(m, i)] \in 1 .. vez'[A(m, i)]
              /\ ~Abierta(m, i)' => con'[L(m, i)] = 0 /\ correo'[L(m, i)] = << >>
  BY <1>1, <1>5, <1>10, LosEstables
<1>11. ASSUME NEW n \in Clientes, NEW j \in 1 .. N(n), Leyo(n, j)
       PROVE  /\ Abierta(m, i)' => con'[L(m, i)] \in 1 .. vez'[A(m, i)]
              /\ ~Abierta(m, i)' => con'[L(m, i)] = 0 /\ correo'[L(m, i)] = << >>
  BY <1>1, <1>3, <1>11, LosEstables
<1>12. CASE LeyoTabla
  BY <1>1, <1>4, <1>12, LosEstables
<1>. QED BY <1>2, <1>6, <1>7, <1>8, <1>9, <1>10, <1>11, <1>12 DEF Efectos

LEMMA SinSaludar_Next ==
  ASSUME Inv2, Efectos PROVE SinSaludar'
<1>. USE LosModulos DEF Inv2
<1>. SUFFICES ASSUME NEW m \in Clientes, NEW i \in 1 .. N(m),
                     NEW k \in Saludadas(A(m, i))' + 1 .. Largo(A(m, i))',
                     Fila(A(m, i))'[k] = Propia(m, i)', Vivo(m)'
              PROVE  correo'[L(m, i)] = << >> /\ ~Respondida(m, i)'
  BY DEF SinSaludar
<1>0. PICK s \in Servidores : s = A(m, i)
  BY Enlazados
<1>1. /\ k \in Saludadas(s)' + 1 .. Largo(s)' /\ Fila(s)'[k] = Propia(m, i)'
      /\ L(m, i) \in Enlace /\ correo \in [Enlace -> Seq(Cabecera)] /\ s # m /\ s \in Modulos
      /\ Largo(s) \in Nat /\ Saludadas(s) \in Nat /\ Saludadas(s) <= Largo(s)
  <2>1. Largo(s) \in Nat /\ Saludadas(s) \in Nat /\ Saludadas(s) <= Largo(s)
    <3>1. Largo(s) \in Nat /\ Len(aceptadas[s]) \in 0 .. Largo(s)
          /\ Saludadas(s) \in 0 .. Len(aceptadas[s])
      BY LosLugares
    <3>. QED BY <3>1
  <2>. QED BY <1>0, <2>1, Enlazados DEF Inv1, TypeOK
<1>2. ASSUME vez'[m] = vez[m], k \in Saludadas(s) + 1 .. Largo(s), Fila(s)'[k] = Fila(s)[k],
             Vivo(m)
      PROVE  k \in 1 .. Largo(s) /\ Fila(s)[k] = Propia(m, i) /\ correo[L(m, i)] = << >>
             /\ ~Respondida(m, i)
  <2>1. Fila(s)[k] = Propia(m, i)
    BY <1>1, <1>2, PropiaIgual
  <2>2. k \in 1 .. Largo(s)
    BY <1>1, <1>2
  <2>. QED BY <1>0, <1>2, <2>1, <2>2 DEF SinSaludar
<1>3. ASSUME Estable, Saludadas(s)' = Saludadas(s) \/ Saludadas(s)' = Saludadas(s) + 1
      PROVE  /\ k \in 1 .. Largo(s) /\ Fila(s)[k] = Propia(m, i) /\ correo[L(m, i)] = << >>
             /\ ~Respondida(m, i) /\ Vivo(m) /\ k # Saludadas(s)
             /\ Saludadas(s)' = Saludadas(s) + 1 => k # Saludadas(s) + 1
  <2>1. vez'[m] = vez[m] /\ Vivo(m) /\ Fila(s)' = Fila(s) /\ Largo(s)' = Largo(s)
    BY <1>3 DEF Estable, MismosProcesos, MismasFilas, MismaFila
  <2>2. k \in Saludadas(s) + 1 .. Largo(s) /\ k # Saludadas(s)
        /\ (Saludadas(s)' = Saludadas(s) + 1 => k # Saludadas(s) + 1)
    BY <1>1, <1>3, <2>1
  <2>. QED BY <1>2, <2>1, <2>2
<1>4. CASE Quieto
  BY <1>3, <1>4, LosEstables DEF Quieto, MismosSaludos, MismasRespuestas
<1>5. ASSUME NEW n \in Clientes, NEW j \in 1 .. N(n), Leyo(n, j)
      PROVE  correo'[L(m, i)] = << >> /\ ~Respondida(m, i)'
  <2>1. correo[L(m, i)] = << >> /\ ~Respondida(m, i)
    BY <1>3, <1>5, LosEstables DEF Leyo, MismosSaludos
  <2>2. L(m, i) # L(n, j)
    BY <1>5, <2>1 DEF Leyo
  <2>3. n # m \/ j # i
    BY <2>2
  <2>. QED BY <1>1, <1>5, <2>1, <2>2, <2>3 DEF Leyo
<1>6. CASE LeyoTabla
  <2>1. correo[L(m, i)] = << >> /\ ~Respondida(m, i)
    BY <1>3, <1>6, LosEstables DEF LeyoTabla, MismosSaludos
  <2>2. L(m, i) # MemoriaDelKernel
    BY <1>6, <2>1 DEF LeyoTabla
  <2>. QED BY <1>1, <1>6, <2>1, <2>2 DEF LeyoTabla, MismasRespuestas
<1>7. CASE MandoTabla
  <2>1. /\ k \in 1 .. Largo(s) /\ Fila(s)[k] = Propia(m, i) /\ correo[L(m, i)] = << >>
        /\ ~Respondida(m, i) /\ k # Saludadas(s)
    BY <1>3, <1>7, LosEstables DEF MandoTabla, MismosSaludos
  <2>2. 3 \in 1 .. Largo("memoria") /\ Mando(Fila("memoria")[3], Tablas[mandados + 1])
        /\ Saludadas("memoria") = 3
    BY <1>7 DEF MandoTabla
  <2>3. correo'[L(m, i)] = correo[L(m, i)]
    <3>1. ASSUME correo'[L(m, i)] # correo[L(m, i)] PROVE FALSE
      <4>1. Fila("memoria")[3] = Propia(m, i) /\ A(m, i) = "memoria"
        <5>1. ASSUME NEW r \in Servidores, NEW l \in 1 .. Largo(r), NEW h, Mando(Fila(r)[l], h)
              PROVE  Fila(r)[l] = Propia(m, i) /\ A(m, i) = r
          BY <3>1, <5>1, SoloALaSuya
        <5>. QED BY <2>2, <5>1
      <4>2. k = 3
        BY <1>0, <2>1, <2>2, <4>1 DEF UnaVez
      <4>. QED BY <1>0, <2>1, <2>2, <4>1, <4>2
    <3>. QED BY <3>1
  <2>. QED BY <1>7, <2>1, <2>3 DEF MandoTabla, MismasRespuestas
<1>8. ASSUME NEW r \in Servidores, NEW l \in 1 .. Largo(r), Atendio(r, l),
             Mando(Fila(r)[l], "hs_aux") \/ correo' = correo
      PROVE  correo'[L(m, i)] = << >> /\ ~Respondida(m, i)'
  <2>1. Saludadas(s)' = Saludadas(s) \/ (s = r /\ Saludadas(s)' = Saludadas(s) + 1)
    BY <1>8 DEF Atendio
  <2>2. /\ k \in 1 .. Largo(s) /\ Fila(s)[k] = Propia(m, i) /\ correo[L(m, i)] = << >>
        /\ ~Respondida(m, i)
        /\ Saludadas(s)' = Saludadas(s) + 1 => k # Saludadas(s) + 1
    BY <1>3, <1>8, <2>1, LosEstables
  <2>3. correo'[L(m, i)] = correo[L(m, i)]
    <3>1. ASSUME correo'[L(m, i)] # correo[L(m, i)] PROVE FALSE
      <4>1. Fila(r)[l] = Propia(m, i) /\ A(m, i) = r
        BY <1>8, <3>1, SoloALaSuya
      <4>2. k = l
        BY <1>0, <2>2, <4>1 DEF UnaVez
      <4>3. Saludadas(s)' = Saludadas(s) + 1 /\ l = Saludadas(s) + 1
        BY <1>0, <1>8, <4>1 DEF Atendio
      <4>. QED BY <2>2, <4>2, <4>3
    <3>. QED BY <3>1
  <2>. QED BY <1>8, <2>2, <2>3 DEF Atendio, MismasRespuestas
<1>9. ASSUME NEW n \in Modulos, Murio(n)
      PROVE  correo'[L(m, i)] = << >> /\ ~Respondida(m, i)'
  <2>1. n # m
    BY <1>9 DEF Murio
  <2>2. n # s
    <3>1. CASE n = s
      <4>1. Largo(s)' = 0 /\ Saludadas(s)' = 0
        BY <1>9, <3>1 DEF Murio
      <4>. QED BY <1>1, <4>1
    <3>. QED BY <3>1
  <2>3. /\ vez'[m] = vez[m] /\ Vivo(m) /\ Saludadas(s)' = Saludadas(s)
        /\ Largo(s)' = Largo(s) /\ Fila(s)' = Fila(s)
    BY <1>9, <2>1, <2>2 DEF Murio, MismaFila
  <2>. QED BY <1>1, <1>2, <1>9, <2>1, <2>3 DEF Murio
<1>10. ASSUME NEW n \in Modulos, Nacio(n)
       PROVE  correo'[L(m, i)] = << >> /\ ~Respondida(m, i)'
  <2>1. /\ Saludadas(s)' = Saludadas(s) /\ Largo(s)' = Largo(s) /\ Fila(s)' = Fila(s)
        /\ correo' = correo /\ (Respondida(m, i)' <=> Respondida(m, i))
    BY <1>10 DEF Nacio, MismosSaludos, MismasFilas, MismaFila, MismasRespuestas
  <2>2. CASE n = m
    <3>1. k \in 1 .. Largo(s) /\ Fila(s)[k] = Propia(m, i)'
      BY <1>1, <2>1
    <3>2. Fila(s)[k].vez = vez[m] + 1 /\ Fila(s)[k].de = m
      BY <1>10, <2>2, <3>1 DEF Propia, Nacio
    <3>3. Fila(s)[k].vez \in 1 .. vez[m]
      BY <3>1, <3>2 DEF Filas, DeCliente
    <3>4. vez[m] \in Nat
      BY DEF Inv1, TypeOK
    <3>. QED BY <3>2, <3>3, <3>4
  <2>3. CASE n # m
    <3>1. vez'[m] = vez[m] /\ Vivo(m)
      BY <1>10, <2>3 DEF Nacio
    <3>. QED BY <1>1, <1>2, <2>1, <3>1
  <2>. QED BY <2>2, <2>3
<1>11. ASSUME NEW n \in Clientes, NEW j \in 1 .. N(n), Abrio(n, j, A(n, j))
       PROVE  correo'[L(m, i)] = << >> /\ ~Respondida(m, i)'
  <2>1. /\ Saludadas(s)' = Saludadas(s) /\ vez' = vez /\ Vivo(m)
        /\ correo' = correo /\ (Respondida(m, i)' <=> Respondida(m, i))
    BY <1>11 DEF Abrio, MismosSaludos, MismosProcesos, MismasRespuestas
  <2>2. CASE n = m /\ j = i
    <3>1. ~Abierta(m, i)
      BY <1>11, <2>2 DEF Abrio
    <3>. QED BY <2>1, <3>1, RespondidaAbierta DEF Vinculos
  <2>3. CASE n # m \/ j # i
    <3>1. k \in 1 .. Largo(s) /\ Fila(s)'[k] = Fila(s)[k]
      <4>1. CASE s # A(n, j)
        <5>1. Largo(s)' = Largo(s) /\ Fila(s)' = Fila(s)
          BY <1>11, <4>1 DEF Abrio, MismaFila
        <5>2. k \in Saludadas(s) + 1 .. Largo(s)
          BY <1>1, <2>1, <5>1
        <5>. QED BY <1>1, <5>1, <5>2
      <4>2. CASE s = A(n, j)
        <5>1. /\ Largo(s)' = Largo(s) + 1 /\ Fila(s)'[Largo(s) + 1] = Propia(n, j)
              /\ \A l \in 1 .. Largo(s) : Fila(s)'[l] = Fila(s)[l]
          BY <1>11, <4>2 DEF Abrio
        <5>2. Propia(n, j) # Propia(m, i) /\ Propia(m, i)' = Propia(m, i)
          <6>1. ASSUME Propia(n, j) = Propia(m, i) PROVE FALSE
            BY <2>3, <6>1, PropiaConexion, Enlazados
          <6>. QED BY <2>1, <6>1, PropiaIgual
        <5>3. k # Largo(s) + 1
          BY <1>1, <5>1, <5>2
        <5>4. k \in Saludadas(s) + 1 .. Largo(s) + 1
          BY <1>1, <2>1, <5>1
        <5>5. k \in 1 .. Largo(s)
          BY <1>1, <5>3, <5>4
        <5>. QED BY <5>1, <5>5
      <4>. QED BY <4>1, <4>2
    <3>. QED BY <1>1, <1>2, <2>1, <3>1
  <2>. QED BY <2>2, <2>3
<1>. QED BY <1>4, <1>5, <1>6, <1>7, <1>8, <1>9, <1>10, <1>11 DEF Efectos

LEMMA Inv2_Init == Init => Filas /\ UnaVez /\ Vinculos /\ SinSaludar
<1>. SUFFICES ASSUME Init PROVE Filas /\ UnaVez /\ Vinculos /\ SinSaludar
  OBVIOUS
<1>. USE LosModulos
<1>1. Inv1
  BY Inv1_Init
<1>2. \A m \in Modulos : ~Vivo(m)
  BY DEF Init, Vivo
<1>3. \A s \in Servidores : Largo(s) = 0 /\ 1 .. Largo(s) = {}
  BY <1>1, <1>2, LosLugares
<1>4. Filas /\ UnaVez
  BY <1>3 DEF Filas, UnaVez
<1>5. Vinculos
  <2>1. ASSUME NEW m \in Clientes, NEW i \in 1 .. N(m)
        PROVE  ~Abierta(m, i) /\ con[L(m, i)] = 0 /\ correo[L(m, i)] = << >>
    <3>1. L(m, i) \in Enlace
      BY Enlazados
    <3>. QED BY <1>2, <3>1 DEF Abierta, Init
  <2>. QED BY <2>1 DEF Vinculos
<1>6. SinSaludar
  BY <1>2 DEF SinSaludar
<1>. QED BY <1>4, <1>5, <1>6

LEMMA Inv2_Next == Inv2 /\ [Next]_vars => Inv2'
<1>. SUFFICES ASSUME Inv2, [Next]_vars PROVE Inv2'
  OBVIOUS
<1>1. Inv1' /\ Efectos
  BY Inv1_Next, LosEfectos DEF Inv2
<1>2. Filas' /\ UnaVez' /\ Vinculos'
  BY <1>1, Filas_Next, UnaVez_Next, Vinculos_Next DEF Inv2
<1>3. SinSaludar'
  BY <1>1, SinSaludar_Next
<1>. QED BY <1>1, <1>2, <1>3 DEF Inv2

LEMMA Inv2_Siempre == Spec => []Inv2
<1>1. Init => Inv2
  BY Inv1_Init, Inv2_Init DEF Inv2
<1>. QED BY <1>1, Inv2_Next, PTL DEF Spec

-----------------------------------------------------------------------------
(* What memoria says to the kernel: the answer to its greeting, then the   *)
(* tables.  With r of it read, c is what may be on its way.                *)
Todo(n)    == IF n = 1 THEN "hs_aux" ELSE Tablas[n - 1]
Dice(r, c) == r + Len(c) <= 5 /\ \A i \in 1 .. Len(c) : c[i] = Todo(r + i)

LEMMA DiceUnoMas ==
  ASSUME NEW r \in Nat, NEW c \in Seq(Cabecera), Dice(r, c), r + Len(c) < 5,
         NEW h \in Cabecera, h = Todo(r + Len(c) + 1)
  PROVE  Dice(r, Append(c, h)) /\ Len(Append(c, h)) = Len(c) + 1
<1>1. /\ Len(c) \in Nat /\ Len(Append(c, h)) = Len(c) + 1
      /\ Append(c, h)[Len(c) + 1] = h
      /\ \A i \in 1 .. Len(c) : Append(c, h)[i] = c[i]
  OBVIOUS
<1>2. r + (Len(c) + 1) <= 5 /\ r + Len(c) + 1 = r + (Len(c) + 1)
  BY <1>1
<1>3. ASSUME NEW i \in 1 .. Len(c) + 1 PROVE Append(c, h)[i] = Todo(r + i)
  <2>1. CASE i \in 1 .. Len(c)
    BY <1>1, <2>1 DEF Dice
  <2>2. CASE i = Len(c) + 1
    BY <1>1, <1>2, <2>2
  <2>. QED BY <1>1, <2>1, <2>2
<1>. QED BY <1>1, <1>2, <1>3 DEF Dice

LEMMA DiceUnoMenos ==
  ASSUME NEW r \in Nat, NEW c \in Seq(Cabecera), Dice(r, c), c # << >>
  PROVE  Head(c) = Todo(r + 1) /\ Dice(r + 1, Tail(c)) /\ Len(Tail(c)) + 1 = Len(c)
<1>1. /\ Len(c) \in Nat /\ Len(c) >= 1 /\ Len(Tail(c)) = Len(c) - 1 /\ Head(c) = c[1]
      /\ \A i \in 1 .. Len(c) - 1 : Tail(c)[i] = c[i + 1]
  OBVIOUS
<1>2. (r + 1) + (Len(c) - 1) <= 5
  BY <1>1 DEF Dice
<1>3. ASSUME NEW i \in 1 .. Len(c) - 1 PROVE Tail(c)[i] = Todo((r + 1) + i)
  <2>1. i + 1 \in 1 .. Len(c) /\ r + (i + 1) = (r + 1) + i
    BY <1>1
  <2>2. c[i + 1] = Todo(r + (i + 1))
    BY <2>1 DEF Dice
  <2>. QED BY <1>1, <2>1, <2>2
<1>4. Head(c) = Todo(r + 1)
  BY <1>1 DEF Dice
<1>. QED BY <1>1, <1>2, <1>3, <1>4 DEF Dice

(* How much of it the kernel has read, and what is on its way to it; once  *)
(* memoria has its three clients, all that it has said is one or the other *)
(* if the third is the kernel.                                             *)
Recibido == (IF Respondida("kernel", 2) THEN 1 ELSE 0) + Len(leidos)
EnCamino == correo[MemoriaDelKernel]
Conversacion ==
  /\ \A i \in 1 .. Len(leidos) : leidos[i] = Tablas[i]
  /\ Vivo("kernel") =>
       /\ Dice(Recibido, EnCamino)
       /\ Saludadas("memoria") = 3 /\ Fila("memoria")[3] = Propia("kernel", 2) =>
            Recibido + Len(EnCamino) = 1 + mandados

LEMMA LoLeido ==
  ASSUME Inv2
  PROVE  /\ ~Respondida("kernel", 2) => leidos = << >> /\ Recibido = 0
         /\ Recibido \in Nat /\ Len(leidos) \in Nat
         /\ EnCamino \in Seq(Cabecera) /\ Len(EnCamino) \in Nat
<1>1. leidos \in Seq(Cabecera) /\ Len(leidos) \in Nat /\ Len(<< >>) = 0
  BY DEF Inv2, Inv1, TypeOK
<1>2. ASSUME ~Respondida("kernel", 2) PROVE leidos = << >>
  <2>1. pc["kernel"] \notin {"tablas", "sirve"}
    BY <1>2, LosEnlaces, LosModulos DEF Inv2, Inv1, Avances, Respondida, Vivo
  <2>. QED BY <2>1 DEF Inv2, Inv1, Avances
<1>3. Recibido \in Nat
  BY <1>1 DEF Recibido
<1>4. EnCamino \in Seq(Cabecera)
  BY ElKernel DEF EnCamino, Inv2, Inv1, TypeOK
<1>5. Len(EnCamino) \in Nat
  BY <1>4
<1>6. ~Respondida("kernel", 2) => Recibido = 0
  BY <1>1, <1>2 DEF Recibido
<1>. QED BY <1>1, <1>2, <1>3, <1>4, <1>5, <1>6

LEMMA ConversacionIgual ==
  ASSUME Inv2, Conversacion, Vivo("kernel")' => Vivo("kernel"), leidos' = leidos,
         EnCamino' = EnCamino, Respondida("kernel", 2)' <=> Respondida("kernel", 2),
         Vivo("kernel")' /\ Saludadas("memoria")' = 3 /\ Fila("memoria")'[3] = Propia("kernel", 2)'
           => /\ Saludadas("memoria") = 3 /\ Fila("memoria")[3] = Propia("kernel", 2)
              /\ mandados' = mandados
  PROVE  Conversacion'
<1>1. Recibido' = Recibido
  BY DEF Recibido
<1>. QED BY <1>1 DEF Conversacion, Dice

LEMMA Conversacion_Next ==
  ASSUME Inv2, Conversacion, Efectos PROVE Conversacion'
<1>. USE LosModulos
<1>0. /\ L("kernel", 2) = MemoriaDelKernel /\ MemoriaDelKernel \in Enlace
      /\ "kernel" \in Clientes /\ 2 \in 1 .. N("kernel") /\ A("kernel", 2) = "memoria"
      /\ H("kernel", 2) = "hs_kernel"
      /\ correo \in [Enlace -> Seq(Cabecera)] /\ mandados \in Nat
  BY ElKernel, LosEnlaces, LasTablas DEF Inv2, Inv1, TypeOK
<1>1. ASSUME Estable
      PROVE  /\ Vivo("kernel")' <=> Vivo("kernel")
             /\ Propia("kernel", 2)' = Propia("kernel", 2)
             /\ Fila("memoria")' = Fila("memoria")
  BY <1>0, <1>1, PropiaIgual DEF Estable, MismosProcesos, MismasFilas, MismaFila
<1>2. ASSUME Saludadas("memoria") = 3 PROVE 3 \in 1 .. Largo("memoria")
  <2>1. ASSUME NEW s \in Servidores, Saludadas(s) = 3 PROVE 3 \in 1 .. Largo(s)
    <3>1. Largo(s) \in Nat /\ Len(aceptadas[s]) \in 0 .. Largo(s)
          /\ Saludadas(s) \in 0 .. Len(aceptadas[s])
      BY LosLugares DEF Inv2
    <3>. QED BY <2>1, <3>1
  <2>. QED BY <1>2, <2>1
<1>3. CASE Quieto
  BY <1>1, <1>3, <1>0, ConversacionIgual, LosEstables
     DEF Quieto, MismosSaludos, MismasRespuestas, EnCamino
<1>4. ASSUME NEW m \in Modulos, Murio(m) PROVE Conversacion'
  <2>1. CASE m = "kernel"
    <3>1. leidos' = << >> /\ Len(<< >>) = 0 /\ ~Vivo("kernel")'
      BY <1>4, <2>1 DEF Murio
    <3>. QED BY <3>1 DEF Conversacion
  <2>2. CASE m = "memoria"
    <3>1. Saludadas("memoria")' = 0
      BY <1>4, <2>2 DEF Murio
    <3>2. /\ Vivo("kernel")' <=> Vivo("kernel")
          /\ leidos' = leidos /\ EnCamino' = EnCamino
          /\ Respondida("kernel", 2)' <=> Respondida("kernel", 2)
      BY <1>0, <1>4, <2>2 DEF Murio, EnCamino
    <3>. QED BY <3>1, <3>2, ConversacionIgual
  <2>3. CASE m # "kernel" /\ m # "memoria"
    <3>1. /\ Vivo("kernel")' <=> Vivo("kernel")
          /\ leidos' = leidos /\ EnCamino' = EnCamino /\ mandados' = mandados
          /\ Respondida("kernel", 2)' <=> Respondida("kernel", 2)
          /\ Saludadas("memoria")' = Saludadas("memoria") /\ Fila("memoria")' = Fila("memoria")
          /\ Propia("kernel", 2)' = Propia("kernel", 2)
      BY <1>0, <1>4, <2>3, PropiaIgual DEF Murio, MismaFila, EnCamino
    <3>. QED BY <3>1, ConversacionIgual
  <2>. QED BY <2>1, <2>2, <2>3
<1>5. ASSUME NEW m \in Modulos, Nacio(m) PROVE Conversacion'
  <2>1. /\ leidos' = leidos /\ EnCamino' = EnCamino /\ mandados' = mandados
        /\ Respondida("kernel", 2)' <=> Respondida("kernel", 2)
        /\ Saludadas("memoria")' = Saludadas("memoria") /\ Fila("memoria")' = Fila("memoria")
    BY <1>0, <1>5 DEF Nacio, MismasFilas, MismaFila, MismosSaludos, MismasRespuestas, EnCamino
  <2>2. CASE m = "kernel"
    <3>1. ~Respondida("kernel", 2) /\ ~Abierta("kernel", 2)
      BY <1>0, <1>5, <2>2 DEF Nacio
    <3>2. leidos' = << >> /\ EnCamino' = << >> /\ ~Respondida("kernel", 2)' /\ Len(<< >>) = 0
      BY <1>0, <2>1, <3>1, LoLeido DEF Inv2, Vinculos, EnCamino
    <3>3. Dice(Recibido, EnCamino)'
      BY <3>2 DEF Recibido, Dice
    <3>4. ASSUME Saludadas("memoria")' = 3, Fila("memoria")'[3] = Propia("kernel", 2)' PROVE FALSE
      <4>1. 3 \in 1 .. Largo("memoria") /\ Fila("memoria")[3] = Propia("kernel", 2)'
        BY <1>2, <2>1, <3>4
      <4>2. Fila("memoria")[3].vez = vez["kernel"] + 1 /\ Fila("memoria")[3].de = "kernel"
        BY <1>5, <2>2, <4>1 DEF Propia, Nacio
      <4>3. Fila("memoria")[3].vez \in 1 .. vez["kernel"]
        BY <4>1, <4>2 DEF Inv2, Filas, DeCliente
      <4>4. vez["kernel"] \in Nat
        BY DEF Inv2, Inv1, TypeOK
      <4>. QED BY <4>2, <4>3, <4>4
    <3>. QED BY <3>2, <3>3, <3>4 DEF Conversacion
  <2>3. CASE m # "kernel"
    <3>1. (Vivo("kernel")' <=> Vivo("kernel")) /\ Propia("kernel", 2)' = Propia("kernel", 2)
      BY <1>0, <1>5, <2>3, PropiaIgual DEF Nacio
    <3>. QED BY <2>1, <3>1, ConversacionIgual
  <2>. QED BY <2>2, <2>3
<1>6. ASSUME NEW m \in Clientes, NEW i \in 1 .. N(m), Abrio(m, i, A(m, i)) PROVE Conversacion'
  <2>1. /\ Vivo("kernel")' <=> Vivo("kernel")
        /\ leidos' = leidos /\ EnCamino' = EnCamino /\ mandados' = mandados
        /\ Respondida("kernel", 2)' <=> Respondida("kernel", 2)
        /\ Saludadas("memoria")' = Saludadas("memoria")
        /\ Propia("kernel", 2)' = Propia("kernel", 2)
    BY <1>0, <1>6, PropiaIgual
       DEF Abrio, MismosProcesos, MismosSaludos, MismasRespuestas, EnCamino
  <2>2. ASSUME 3 \in 1 .. Largo("memoria") PROVE Fila("memoria")'[3] = Fila("memoria")[3]
    <3>1. CASE A(m, i) = "memoria"
      BY <1>6, <2>2, <3>1 DEF Abrio
    <3>2. CASE A(m, i) # "memoria"
      BY <1>6, <3>2 DEF Abrio, MismaFila
    <3>. QED BY <3>1, <3>2
  <2>. QED BY <1>2, <2>1, <2>2, ConversacionIgual
<1>7. ASSUME NEW m \in Clientes, NEW i \in 1 .. N(m), Leyo(m, i) PROVE Conversacion'
  <2>1. /\ (Vivo("kernel")' <=> Vivo("kernel")) /\ Propia("kernel", 2)' = Propia("kernel", 2)
        /\ Fila("memoria")' = Fila("memoria") /\ Saludadas("memoria")' = Saludadas("memoria")
        /\ leidos' = leidos /\ mandados' = mandados
    BY <1>1, <1>7, LosEstables DEF Leyo, MismosSaludos
  <2>2. CASE m = "kernel" /\ i = 2
    <3>1. /\ Vivo("kernel") /\ ~Respondida("kernel", 2) /\ Respondida("kernel", 2)'
          /\ EnCamino # << >> /\ EnCamino' = Tail(EnCamino)
      BY <1>0, <1>7, <2>2 DEF Leyo, EnCamino
    <3>2. Recibido' = Recibido + 1 /\ Recibido \in Nat /\ EnCamino \in Seq(Cabecera)
      BY <2>1, <3>1, LoLeido DEF Recibido
    <3>3. Dice(Recibido + 1, Tail(EnCamino)) /\ Len(Tail(EnCamino)) + 1 = Len(EnCamino)
      BY <3>1, <3>2, DiceUnoMenos DEF Conversacion
    <3>4. Dice(Recibido, EnCamino)'
      BY <3>1, <3>2, <3>3 DEF Dice
    <3>5. Recibido' + Len(EnCamino') = Recibido + Len(EnCamino)
      <4>1. Len(Tail(EnCamino)) \in Nat
        BY <3>1, <3>2
      <4>. QED BY <3>1, <3>2, <3>3, <4>1
    <3>. QED BY <2>1, <3>1, <3>4, <3>5 DEF Conversacion
  <2>3. CASE m # "kernel" \/ i # 2
    <3>1. L(m, i) # L("kernel", 2)
      BY <1>0, <2>3, DosEnlaces
    <3>2. EnCamino' = EnCamino /\ (Respondida("kernel", 2)' <=> Respondida("kernel", 2))
      BY <1>0, <1>7, <2>3, <3>1 DEF Leyo, EnCamino
    <3>. QED BY <2>1, <3>2, ConversacionIgual
  <2>. QED BY <2>2, <2>3
<1>8. CASE LeyoTabla
  <2>1. /\ (Vivo("kernel")' <=> Vivo("kernel")) /\ Propia("kernel", 2)' = Propia("kernel", 2)
        /\ Fila("memoria")' = Fila("memoria") /\ Saludadas("memoria")' = Saludadas("memoria")
        /\ mandados' = mandados /\ Vivo("kernel")
        /\ Respondida("kernel", 2) /\ Respondida("kernel", 2)'
        /\ EnCamino # << >> /\ EnCamino' = Tail(EnCamino)
        /\ leidos' = Append(leidos, Head(EnCamino))
    BY <1>0, <1>1, <1>8, LosEstables DEF LeyoTabla, MismosSaludos, MismasRespuestas, EnCamino
  <2>2. leidos \in Seq(Cabecera) /\ EnCamino \in Seq(Cabecera) /\ Head(EnCamino) \in Cabecera
        /\ Len(leidos) \in Nat
    BY <2>1, LoLeido DEF Inv2, Inv1, TypeOK
  <2>3. Recibido = 1 + Len(leidos) /\ Recibido \in Nat
    BY <2>1, <2>2 DEF Recibido
  <2>4. /\ Len(leidos') = Len(leidos) + 1 /\ leidos'[Len(leidos) + 1] = Head(EnCamino)
        /\ \A i \in 1 .. Len(leidos) : leidos'[i] = leidos[i]
    BY <2>1, <2>2
  <2>5. Recibido' = Recibido + 1
    BY <2>1, <2>2, <2>3, <2>4 DEF Recibido
  <2>6. /\ Head(EnCamino) = Todo(Recibido + 1) /\ Dice(Recibido + 1, Tail(EnCamino))
        /\ Len(Tail(EnCamino)) + 1 = Len(EnCamino) /\ Len(Tail(EnCamino)) \in Nat
    <3>1. /\ Head(EnCamino) = Todo(Recibido + 1) /\ Dice(Recibido + 1, Tail(EnCamino))
          /\ Len(Tail(EnCamino)) + 1 = Len(EnCamino)
      BY <2>1, <2>2, <2>3, DiceUnoMenos DEF Conversacion
    <3>2. Len(Tail(EnCamino)) \in Nat
      BY <2>1, <2>2
    <3>. QED BY <3>1, <3>2
  <2>7. Head(EnCamino) = Tablas[Len(leidos) + 1]
    <3>1. Recibido + 1 # 1 /\ (Recibido + 1) - 1 = Len(leidos) + 1
      BY <2>2, <2>3
    <3>. QED BY <2>6, <3>1 DEF Todo
  <2>8. \A i \in 1 .. Len(leidos') : leidos'[i] = Tablas[i]
    <3>1. \A i \in 1 .. Len(leidos) : leidos'[i] = Tablas[i]
      BY <2>4 DEF Conversacion
    <3>2. leidos'[Len(leidos) + 1] = Tablas[Len(leidos) + 1]
      BY <2>4, <2>7
    <3>3. \A i \in 1 .. Len(leidos) + 1 : i \in 1 .. Len(leidos) \/ i = Len(leidos) + 1
      BY <2>2
    <3>. QED BY <2>4, <3>1, <3>2, <3>3
  <2>9. Dice(Recibido, EnCamino)'
    BY <2>1, <2>5, <2>6 DEF Dice
  <2>10. Recibido' + Len(EnCamino') = Recibido + Len(EnCamino)
    BY <2>1, <2>3, <2>5, <2>6
  <2>. QED BY <2>1, <2>8, <2>9, <2>10 DEF Conversacion
<1>9. CASE MandoTabla
  <2>1. /\ (Vivo("kernel")' <=> Vivo("kernel")) /\ Propia("kernel", 2)' = Propia("kernel", 2)
        /\ Fila("memoria")' = Fila("memoria") /\ Saludadas("memoria")' = Saludadas("memoria")
        /\ leidos' = leidos /\ (Respondida("kernel", 2)' <=> Respondida("kernel", 2))
        /\ mandados \in 0 .. 3 /\ mandados' = mandados + 1 /\ Saludadas("memoria") = 3
        /\ Mando(Fila("memoria")[3], Tablas[mandados + 1])
    BY <1>0, <1>1, <1>9, LosEstables DEF MandoTabla, MismosSaludos, MismasRespuestas
  <2>2. CASE Fila("memoria")[3] = Propia("kernel", 2) /\ Vivo("kernel")
    <3>. DEFINE h == Tablas[mandados + 1]
    <3>1. EnCamino' = Append(EnCamino, h)
      BY <1>0, <2>1, <2>2 DEF Mando, EnCamino
    <3>2. Recibido + Len(EnCamino) = 1 + mandados /\ Dice(Recibido, EnCamino)
      BY <2>1, <2>2 DEF Conversacion
    <3>3. /\ Recibido \in Nat /\ EnCamino \in Seq(Cabecera) /\ Len(EnCamino) \in Nat
          /\ h \in Cabecera
      <4>1. mandados + 1 \in 1 .. Len(Tablas)
        BY <2>1, LasTablas
      <4>. QED BY <4>1, LoLeido, LasTablas, ElementOfSeq
    <3>4. /\ Recibido + Len(EnCamino) < 5 /\ Recibido + Len(EnCamino) + 1 = mandados + 2
          /\ mandados + 2 # 1 /\ (mandados + 2) - 1 = mandados + 1
      BY <2>1, <3>2, <3>3
    <3>5. h = Todo(Recibido + Len(EnCamino) + 1)
      BY <3>4 DEF Todo
    <3>. HIDE DEF h
    <3>6. Dice(Recibido, Append(EnCamino, h)) /\ Len(Append(EnCamino, h)) = Len(EnCamino) + 1
      BY <3>2, <3>3, <3>4, <3>5, DiceUnoMas
    <3>7. Recibido' = Recibido
      BY <2>1 DEF Recibido
    <3>8. Recibido' + Len(EnCamino') = 1 + mandados'
      BY <2>1, <3>1, <3>2, <3>3, <3>6, <3>7
    <3>9. Dice(Recibido, EnCamino)'
      BY <3>1, <3>6, <3>7 DEF Dice
    <3>. QED BY <2>1, <2>2, <3>8, <3>9 DEF Conversacion
  <2>3. CASE ~(Fila("memoria")[3] = Propia("kernel", 2) /\ Vivo("kernel"))
    <3>1. EnCamino' = EnCamino
      BY <1>0, <2>1, <2>3 DEF Mando, EnCamino
    <3>. QED BY <2>1, <2>3, <3>1, ConversacionIgual
  <2>. QED BY <2>2, <2>3
<1>10. ASSUME NEW s \in Servidores, NEW k \in 1 .. Largo(s), Atendio(s, k),
              \/ Mando(Fila(s)[k], "hs_aux") /\ Fila(s)[k].hs = Espera[s][k]
              \/ correo' = correo /\ Fila(s)[k].hs # Espera[s][k] /\ s = "memoria"
       PROVE  Conversacion'
  <2>1. /\ (Vivo("kernel")' <=> Vivo("kernel")) /\ Propia("kernel", 2)' = Propia("kernel", 2)
        /\ Fila("memoria")' = Fila("memoria") /\ leidos' = leidos /\ mandados' = mandados
        /\ Respondida("kernel", 2)' <=> Respondida("kernel", 2)
    BY <1>0, <1>1, <1>10, LosEstables DEF Atendio, MismasRespuestas
  <2>2. CASE Fila(s)[k] = Propia("kernel", 2) /\ Vivo("kernel")
    <3>1. s = "memoria" /\ Fila(s)[k].hs = "hs_kernel"
      BY <1>0, <2>2, DeQuien, PropiaConexion DEF Inv2
    <3>2. k \in {1, 2, 3} /\ (Espera["memoria"][k] = "hs_kernel" <=> k = 3)
      BY <1>10, <3>1, LasEsperas DEF Atendio
    <3>3. CASE correo' = correo /\ Fila(s)[k].hs # Espera[s][k]
      <4>1. k # 3 /\ Saludadas("memoria")' = k
        BY <1>10, <3>1, <3>2, <3>3 DEF Atendio
      <4>. QED BY <2>1, <3>3, <4>1, ConversacionIgual DEF EnCamino
    <3>4. CASE Mando(Fila(s)[k], "hs_aux") /\ Fila(s)[k].hs = Espera[s][k]
      <4>1. k = 3 /\ Saludadas("memoria") + 1 = 3 /\ mandados = 0
        BY <1>10, <3>1, <3>2, <3>4 DEF Atendio
      <4>2. correo[L("kernel", 2)] = << >> /\ ~Respondida("kernel", 2)
        <5>1. k \in Saludadas("memoria") + 1 .. Largo("memoria")
          BY <3>1, <4>1
        <5>. QED BY <1>0, <2>2, <3>1, <5>1 DEF Inv2, SinSaludar
      <4>3. EnCamino = << >> /\ EnCamino' = Append(<< >>, "hs_aux")
        BY <1>0, <2>2, <3>4, <4>2 DEF Mando, EnCamino
      <4>4. leidos = << >> /\ Recibido = 0
        BY <4>2, LoLeido
      <4>5. Recibido' = 0
        BY <2>1, <4>4 DEF Recibido
      <4>6. Len(EnCamino') = 1 /\ EnCamino'[1] = "hs_aux" /\ Len(leidos') = 0
        BY <2>1, <4>3, <4>4
      <4>7. Dice(Recibido, EnCamino)'
        <5>1. \A i \in 1 .. 1 : i = 1
          OBVIOUS
        <5>2. 0 + 1 = 1 /\ 0 + 1 <= 5
          OBVIOUS
        <5>. QED BY <4>5, <4>6, <5>1, <5>2 DEF Dice, Todo
      <4>. QED BY <2>1, <4>1, <4>5, <4>6, <4>7 DEF Conversacion
    <3>. QED BY <1>10, <3>3, <3>4
  <2>3. CASE ~(Fila(s)[k] = Propia("kernel", 2) /\ Vivo("kernel"))
    <3>1. EnCamino' = EnCamino
      BY <1>0, <1>10, <2>3 DEF Mando, EnCamino
    <3>2. ASSUME Vivo("kernel"), Saludadas("memoria")' = 3,
                 Fila("memoria")[3] = Propia("kernel", 2)
          PROVE  Saludadas("memoria") = 3
      <4>1. CASE s = "memoria"
        BY <1>10, <2>3, <3>2, <4>1 DEF Atendio
      <4>2. CASE s # "memoria"
        BY <1>10, <3>2, <4>2 DEF Atendio
      <4>. QED BY <4>1, <4>2
    <3>. QED BY <2>1, <3>1, <3>2, ConversacionIgual
  <2>. QED BY <2>2, <2>3
<1>. QED BY <1>3, <1>4, <1>5, <1>6, <1>7, <1>8, <1>9, <1>10 DEF Efectos

LEMMA Conversacion_Siempre == Spec => [](Inv2 /\ Conversacion)
<1>1. Init => Inv2 /\ Conversacion
  <2>1. ASSUME Init PROVE leidos = << >> /\ Len(<< >>) = 0 /\ ~Vivo("kernel")
    BY <2>1, LosModulos DEF Init, Vivo
  <2>. QED BY <2>1, Inv1_Init, Inv2_Init DEF Inv2, Conversacion
<1>2. Inv2 /\ Conversacion /\ [Next]_vars => (Inv2 /\ Conversacion)'
  <2>1. ASSUME Inv2, Conversacion, [Next]_vars PROVE Conversacion'
    BY <2>1, LosEfectos, Conversacion_Next DEF Inv2
  <2>. QED BY <2>1, Inv2_Next
<1>. QED BY <1>1, <1>2, PTL DEF Spec

(* What the kernel reads after its handshakes, and what is on its way to   *)
(* it, is the tables in memoria's order; a kernel that serves has read     *)
(* them whole (kernel.c:135-167).                                          *)
THEOREM TablasInvariante == Spec => []TablasEnOrden
<1>1. Inv2 /\ Conversacion => TablasEnOrden
  <2>. SUFFICES ASSUME Inv2, Conversacion, pc["kernel"] \in {"tablas", "sirve"}
                PROVE  /\ IsPrefix(leidos \o correo[MemoriaDelKernel], Tablas)
                       /\ pc["kernel"] = "sirve" => leidos = Tablas
    BY DEF TablasEnOrden
  <2>. USE LosModulos
  <2>. DEFINE s == leidos \o EnCamino
  <2>1. Respondida("kernel", 2) /\ Vivo("kernel")
    BY LosEnlaces DEF Inv2, Inv1, Avances, Respondida, Vivo
  <2>2. /\ leidos \in Seq(Cabecera) /\ Len(leidos) \in Nat
        /\ EnCamino \in Seq(Cabecera) /\ Len(EnCamino) \in Nat
        /\ Recibido = 1 + Len(leidos)
    BY <2>1, LoLeido DEF Recibido, Inv2, Inv1, TypeOK
  <2>3. /\ \A i \in 1 .. Len(leidos) : leidos[i] = Tablas[i]
        /\ Recibido + Len(EnCamino) <= 5
        /\ \A i \in 1 .. Len(EnCamino) : EnCamino[i] = Todo(Recibido + i)
    BY <2>1 DEF Conversacion, Dice
  <2>4. /\ s \in Seq(Cabecera) /\ Len(s) = Len(leidos) + Len(EnCamino) /\ Len(s) \in Nat
        /\ Len(s) <= 4
    BY <2>2, <2>3
  <2>5. ASSUME NEW i \in 1 .. Len(s) PROVE s[i] = Tablas[i]
    <3>1. CASE i \in 1 .. Len(leidos)
      BY <2>2, <2>3, <3>1
    <3>2. CASE i \notin 1 .. Len(leidos)
      <4>. DEFINE j == i - Len(leidos)
      <4>1. j \in 1 .. Len(EnCamino) /\ Recibido + j = i + 1 /\ i + 1 # 1 /\ (i + 1) - 1 = i
        BY <2>2, <2>4, <3>2
      <4>2. s[i] = EnCamino[j]
        BY <2>2, <2>4, <3>2
      <4>3. EnCamino[j] = Todo(i + 1)
        BY <2>3, <4>1
      <4>. QED BY <4>1, <4>2, <4>3 DEF Todo
    <3>. QED BY <3>1, <3>2
  <2>. HIDE DEF s
  <2>6. Tablas \in Seq(Cabecera) /\ Len(Tablas) = 4
    BY LasTablas
  <2>7. SubSeq(s, 1, Len(s)) = SubSeq(Tablas, 1, Len(s))
    <3>1. \A i \in 1 .. Len(s) : i \in 1 .. Len(Tablas)
      BY <2>4, <2>6
    <3>. QED BY <2>4, <2>5, <2>6, <3>1
  <2>8. IsPrefix(s, Tablas)
    BY <2>4, <2>6, <2>7 DEF IsPrefix
  <2>9. ASSUME pc["kernel"] = "sirve" PROVE leidos = Tablas
    <3>1. Len(leidos) = 4
      BY <2>9 DEF Inv2, Inv1, Avances
    <3>. QED BY <2>2, <2>3, <2>6, <3>1, SeqEqual
  <2>. QED BY <2>8, <2>9 DEF s, EnCamino
<1>. QED BY <1>1, Conversacion_Siempre, PTL

-----------------------------------------------------------------------------
(* Who is paired with whom.                                                *)

(* The connection leads to a server that is up.                            *)
Vale(m, i) == Abierta(m, i) /\ con[L(m, i)] = vez[A(m, i)] /\ Vivo(A(m, i))

(* What has an answer is in the place that its handshake has at the server. *)
Contestada(m, i) == Respondida(m, i) \/ (correo[L(m, i)] # << >> /\ Head(correo[L(m, i)]) = "hs_aux")
EnSuLugar(m, i) == \E k \in 1 .. Saludadas(A(m, i)) :
                     Fila(A(m, i))[k] = Propia(m, i) /\ Espera[A(m, i)][k] = H(m, i)
Contestadas == \A m \in Clientes : \A i \in 1 .. N(m) :
                 Vale(m, i) /\ Contestada(m, i) => EnSuLugar(m, i)

(* One that memoria takes for the kernel's and is not receives the tables, *)
(* and never an answer: the first of them is not the one it waits for.     *)
EsAjena(m, i) == /\ A(m, i) = "memoria" /\ Vivo(m) /\ Saludadas("memoria") = 3
                 /\ Fila("memoria")[3] = Propia(m, i) /\ H(m, i) # "hs_kernel"
SinRespuesta(m, i) ==
  /\ ~Respondida(m, i)
  /\ mandados = 0 => correo[L(m, i)] = << >>
  /\ mandados # 0 => correo[L(m, i)] # << >> /\ Head(correo[L(m, i)]) = "header_general"
Ajeno == \A m \in Clientes : \A i \in 1 .. N(m) : EsAjena(m, i) => SinRespuesta(m, i)

(* cpu and filesystem exit at a greeting that is not the one of the place. *)
Esperadas == \A s \in {"cpu", "fs"} : \A k \in 1 .. Saludadas(s) : Fila(s)[k].hs = Espera[s][k]

(* A filesystem with a place of an earlier kernel was up before this one.  *)
Vieja == Vivo("kernel") /\ (\E k \in 1 .. Largo("fs") : Fila("fs")[k].vez < vez["kernel"]) =>
           \A i \in {3, 4} : con[L("kernel", i)] \in {0, vez["fs"]}

(* The two sockets of the filesystem lead to the same launch of it.        *)
Dobles == Abierta("kernel", 4) /\ (Respondida("kernel", 4) \/ correo[L("kernel", 4)] # << >>) =>
            con[L("kernel", 3)] = con[L("kernel", 4)]

(* The cpu and the filesystem that the kernel is connected to are the ones *)
(* in memoria's places, if it is its first launch.                         *)
Socio(i, k, m) == Abierta("kernel", i) =>
  /\ vez["memoria"] >= 1
  /\ vez["memoria"] = 1 /\ Vivo("memoria") =>
       /\ Saludadas("memoria") >= k
       /\ Fila("memoria")[k] = [de |-> m, hs |-> H(m, 1), vez |-> con[L("kernel", i)]]
Socios == Socio(1, 1, "cpu") /\ Socio(3, 2, "fs")

Inv3 == Inv2 /\ Contestadas /\ Ajeno /\ Esperadas /\ Vieja /\ Dobles /\ Socios

(* A place whose greeting was read is a place.                             *)
LEMMA SaludadaEsLugar ==
  ASSUME Inv1, NEW s \in Servidores
  PROVE  /\ 1 .. Saludadas(s) \subseteq 1 .. Largo(s) /\ Saludadas(s) \in Nat /\ Largo(s) \in Nat
         /\ Saludadas(s) <= Largo(s) /\ 1 .. Saludadas(s) \subseteq 1 .. Len(Espera[s])
<1>1. /\ Largo(s) \in Nat /\ Len(aceptadas[s]) \in 0 .. Largo(s)
      /\ Saludadas(s) \in 0 .. Len(aceptadas[s]) /\ Saludadas(s) <= Len(Espera[s])
      /\ Len(Espera[s]) \in 1 .. 3
  BY LosLugares
<1>. QED BY <1>1

(* No earlier place is of a launch to come.                                *)
LEMMA NadieAntes ==
  ASSUME Inv2, NEW m \in Clientes, Nacio(m), NEW i \in 1 .. N(m),
         NEW s \in Servidores, NEW k \in 1 .. Largo(s)
  PROVE  Fila(s)[k] # Propia(m, i)'
<1>. SUFFICES ASSUME Fila(s)[k] = Propia(m, i)' PROVE FALSE
  OBVIOUS
<1>1. Fila(s)[k].vez = vez[m] + 1 /\ Fila(s)[k].de = m
  BY LosModulos DEF Propia, Nacio
<1>2. Fila(s)[k].vez \in 1 .. vez[m]
  BY <1>1 DEF Inv2, Filas, DeCliente
<1>3. vez[m] \in Nat
  BY LosModulos DEF Inv2, Inv1, TypeOK
<1>. QED BY <1>1, <1>2, <1>3

(* The places that a step other than an end leaves as they were.           *)
LEMMA LugaresIguales ==
  ASSUME Inv1, Efectos, NEW s \in Servidores, ~Murio(s), NEW k \in 1 .. Largo(s)
  PROVE  Fila(s)'[k] = Fila(s)[k] /\ k \in 1 .. Largo(s)' /\ Saludadas(s)' \in {Saludadas(s), Saludadas(s) + 1}
<1>0. Largo(s) \in Nat /\ Saludadas(s) \in Nat
  BY SaludadaEsLugar
<1>1. ASSUME MismaFila(s), Saludadas(s)' = Saludadas(s) \/ Saludadas(s)' = Saludadas(s) + 1
      PROVE  Fila(s)'[k] = Fila(s)[k] /\ k \in 1 .. Largo(s)' /\ Saludadas(s)' \in {Saludadas(s), Saludadas(s) + 1}
  BY <1>0, <1>1 DEF MismaFila
<1>2. CASE Quieto \/ LeyoTabla \/ MandoTabla
  BY <1>1, <1>2 DEF Quieto, LeyoTabla, MandoTabla, MismasFilas, MismosSaludos
<1>3. ASSUME NEW m \in Modulos, Murio(m) \/ Nacio(m)
      PROVE  Fila(s)'[k] = Fila(s)[k] /\ k \in 1 .. Largo(s)' /\ Saludadas(s)' \in {Saludadas(s), Saludadas(s) + 1}
  BY <1>1, <1>3 DEF Murio, Nacio, MismasFilas, MismosSaludos
<1>4. ASSUME NEW m \in Clientes, NEW i \in 1 .. N(m), Abrio(m, i, A(m, i))
      PROVE  Fila(s)'[k] = Fila(s)[k] /\ k \in 1 .. Largo(s)' /\ Saludadas(s)' \in {Saludadas(s), Saludadas(s) + 1}
  <2>1. Saludadas(s)' = Saludadas(s)
    BY <1>4 DEF Abrio, MismosSaludos
  <2>2. CASE s = A(m, i)
    BY <1>0, <1>4, <2>1, <2>2 DEF Abrio
  <2>3. CASE s # A(m, i)
    BY <1>1, <1>4, <2>1, <2>3 DEF Abrio
  <2>. QED BY <2>2, <2>3
<1>5. ASSUME NEW m \in Clientes, NEW i \in 1 .. N(m), Leyo(m, i)
      PROVE  Fila(s)'[k] = Fila(s)[k] /\ k \in 1 .. Largo(s)' /\ Saludadas(s)' \in {Saludadas(s), Saludadas(s) + 1}
  BY <1>1, <1>5 DEF Leyo, MismasFilas, MismosSaludos
<1>6. ASSUME NEW r \in Servidores, NEW l \in 1 .. Largo(r), Atendio(r, l)
      PROVE  Fila(s)'[k] = Fila(s)[k] /\ k \in 1 .. Largo(s)' /\ Saludadas(s)' \in {Saludadas(s), Saludadas(s) + 1}
  BY <1>1, <1>6 DEF Atendio, MismasFilas
<1>. QED BY <1>2, <1>3, <1>4, <1>5, <1>6, LosModulos DEF Efectos

LEMMA MismaVez ==
  ASSUME Efectos, NEW m \in Modulos, ~Nacio(m) PROVE vez'[m] = vez[m]
  BY DEF Efectos, Quieto, Murio, Nacio, Abrio, Leyo, LeyoTabla, MandoTabla, Atendio, MismosProcesos

LEMMA SigueEnSuLugar ==
  ASSUME Inv1, Efectos, NEW m \in Clientes, NEW i \in 1 .. N(m), ~Murio(A(m, i)), ~Nacio(m),
         EnSuLugar(m, i)
  PROVE  EnSuLugar(m, i)'
<1>1. PICK s \in Servidores : s = A(m, i)
  BY Enlazados
<1>2. PICK k \in 1 .. Saludadas(s) : Fila(s)[k] = Propia(m, i) /\ Espera[s][k] = H(m, i)
  BY <1>1 DEF EnSuLugar
<1>3. k \in 1 .. Largo(s) /\ Saludadas(s) \in Nat
  BY SaludadaEsLugar
<1>4. Fila(s)'[k] = Fila(s)[k] /\ k \in 1 .. Largo(s)' /\ Saludadas(s)' \in {Saludadas(s), Saludadas(s) + 1}
  BY <1>1, <1>3, LugaresIguales
<1>5. Propia(m, i)' = Propia(m, i)
  BY LosModulos, MismaVez, PropiaIgual
<1>6. k \in 1 .. Saludadas(s)'
  BY <1>3, <1>4
<1>. QED BY <1>1, <1>2, <1>4, <1>5, <1>6 DEF EnSuLugar

(* A connection that leads to its server did so before, or was just opened. *)
LEMMA YaValia ==
  ASSUME Inv2, Efectos, NEW m \in Clientes, NEW i \in 1 .. N(m), Vale(m, i)'
  PROVE  /\ Vale(m, i) \/ Abrio(m, i, A(m, i))
         /\ ~Murio(m) /\ ~Murio(A(m, i)) /\ ~Nacio(m)
<1>. USE LosModulos
<1>0. A(m, i) \in Servidores /\ A(m, i) \in Modulos /\ i \in 1 .. 4
  BY Enlazados
<1>1. ~Murio(m) /\ ~Murio(A(m, i))
  BY <1>0 DEF Vale, Murio
<1>2. ~Nacio(m)
  BY <1>0 DEF Vale, Nacio, MismasAbiertas
<1>3. ASSUME Estable PROVE Vale(m, i)
  <2>1. /\ Vivo(A(m, i))' <=> Vivo(A(m, i))
        /\ Abierta(m, i)' <=> Abierta(m, i)
        /\ con' = con /\ vez' = vez
    BY <1>0, <1>3 DEF Estable, MismosProcesos, MismasAbiertas
  <2>. QED BY <2>1 DEF Vale
<1>4. ASSUME NEW n \in Modulos, Murio(n) PROVE Vale(m, i)
  <2>1. n # m /\ n # A(m, i)
    BY <1>1, <1>4
  <2>. QED BY <1>0, <1>4, <2>1 DEF Vale, Murio
<1>5. ASSUME NEW n \in Modulos, Nacio(n) PROVE Vale(m, i)
  <2>1. Abierta(m, i) /\ con' = con
    BY <1>5 DEF Vale, Nacio, MismasAbiertas
  <2>2. n # A(m, i)
    <3>1. CASE n = A(m, i)
      <4>1. con[L(m, i)] \in 1 .. vez[n] /\ vez'[n] = vez[n] + 1 /\ vez[n] \in Nat
        BY <1>5, <2>1, <3>1 DEF Inv2, Vinculos, Nacio, Inv1, TypeOK
      <4>2. con[L(m, i)] = vez[n] + 1
        BY <2>1, <3>1, <4>1 DEF Vale
      <4>. QED BY <4>1, <4>2
    <3>. QED BY <3>1
  <2>. QED BY <1>0, <1>5, <2>1, <2>2 DEF Vale, Nacio
<1>6. ASSUME NEW n \in Clientes, NEW j \in 1 .. N(n), Abrio(n, j, A(n, j))
      PROVE  Vale(m, i) \/ Abrio(m, i, A(m, i))
  <2>1. CASE n = m /\ j = i
    BY <1>6, <2>1
  <2>2. CASE n # m \/ j # i
    <3>1. (Abierta(m, i)' <=> Abierta(m, i)) /\ con'[L(m, i)] = con[L(m, i)]
      BY <1>6, <2>2 DEF Abrio
    <3>2. vez' = vez /\ Vivo(A(m, i))' <=> Vivo(A(m, i))
      BY <1>0, <1>6 DEF Abrio, MismosProcesos
    <3>3. vez' = vez
      BY <1>6 DEF Abrio, MismosProcesos
    <3>. QED BY <3>1, <3>2, <3>3 DEF Vale
  <2>. QED BY <2>1, <2>2
<1>. QED BY <1>1, <1>2, <1>3, <1>4, <1>5, <1>6, LosEstables DEF Efectos

LEMMA Contestadas_Next ==
  ASSUME Inv2, Contestadas, Ajeno, Efectos PROVE Contestadas'
<1>. USE LosModulos DEF Inv2
<1>. SUFFICES ASSUME NEW m \in Clientes, NEW i \in 1 .. N(m), Vale(m, i)', Contestada(m, i)'
              PROVE  EnSuLugar(m, i)'
  BY DEF Contestadas
<1>0. /\ A(m, i) \in Servidores /\ L(m, i) \in Enlace
      /\ correo \in [Enlace -> Seq(Cabecera)] /\ correo[L(m, i)] \in Seq(Cabecera)
  BY Enlazados DEF Inv1, TypeOK
<1>1. /\ Vale(m, i) \/ Abrio(m, i, A(m, i))
      /\ ~Murio(m) /\ ~Murio(A(m, i)) /\ ~Nacio(m)
  BY YaValia
<1>2. ASSUME Vale(m, i), Contestada(m, i) PROVE EnSuLugar(m, i)'
  BY <1>1, <1>2, SigueEnSuLugar DEF Contestadas
<1>3. ASSUME correo'[L(m, i)] = correo[L(m, i)], Respondida(m, i)' <=> Respondida(m, i)
      PROVE  Contestada(m, i)
  BY <1>3 DEF Contestada
<1>4. CASE Abrio(m, i, A(m, i))
  <2>1. ~Abierta(m, i) /\ correo' = correo /\ (Respondida(m, i)' <=> Respondida(m, i))
    BY <1>4 DEF Abrio, MismasRespuestas
  <2>2. correo[L(m, i)] = << >> /\ ~Respondida(m, i)
    BY <2>1, RespondidaAbierta DEF Vinculos
  <2>. QED BY <1>3, <2>1, <2>2 DEF Contestada
<1>5. CASE Vale(m, i)
  <2>1. CASE Quieto
    BY <1>2, <1>3, <1>5, <2>1 DEF Quieto, MismasRespuestas
  <2>2. ASSUME NEW n \in Modulos, Murio(n) PROVE EnSuLugar(m, i)'
    <3>1. n # m
      BY <1>1, <2>2
    <3>. QED BY <1>2, <1>3, <1>5, <2>2, <3>1 DEF Murio
  <2>3. ASSUME NEW n \in Modulos, Nacio(n) PROVE EnSuLugar(m, i)'
    BY <1>2, <1>3, <1>5, <2>3 DEF Nacio, MismasRespuestas
  <2>4. ASSUME NEW n \in Clientes, NEW j \in 1 .. N(n), Abrio(n, j, A(n, j))
        PROVE  EnSuLugar(m, i)'
    BY <1>2, <1>3, <1>5, <2>4 DEF Abrio, MismasRespuestas
  <2>5. ASSUME NEW n \in Clientes, NEW j \in 1 .. N(n), Leyo(n, j) PROVE EnSuLugar(m, i)'
    <3>1. CASE n = m /\ j = i
      <4>1. Contestada(m, i)
        BY <2>5, <3>1 DEF Leyo, Contestada
      <4>. QED BY <1>2, <1>5, <4>1
    <3>2. CASE n # m \/ j # i
      <4>1. L(m, i) # L(n, j)
        BY <3>2, DosEnlaces
      <4>2. correo'[L(m, i)] = correo[L(m, i)] /\ (Respondida(m, i)' <=> Respondida(m, i))
        BY <1>0, <2>5, <3>2, <4>1 DEF Leyo
      <4>. QED BY <1>2, <1>3, <1>5, <4>2
    <3>. QED BY <3>1, <3>2
  <2>6. CASE LeyoTabla
    <3>1. CASE m = "kernel" /\ i = 2
      <4>1. Contestada(m, i)
        BY <2>6, <3>1 DEF LeyoTabla, Contestada
      <4>. QED BY <1>2, <1>5, <4>1
    <3>2. CASE m # "kernel" \/ i # 2
      <4>1. L(m, i) # MemoriaDelKernel
        BY <3>2, ElKernel, DosEnlaces
      <4>2. correo'[L(m, i)] = correo[L(m, i)] /\ (Respondida(m, i)' <=> Respondida(m, i))
        BY <1>0, <2>6, <4>1 DEF LeyoTabla, MismasRespuestas
      <4>. QED BY <1>2, <1>3, <1>5, <4>2
    <3>. QED BY <3>1, <3>2
  <2>7. CASE MandoTabla
    <3>1. (Respondida(m, i)' <=> Respondida(m, i)) /\ Saludadas("memoria") = 3
          /\ 3 \in 1 .. Largo("memoria") /\ Mando(Fila("memoria")[3], Tablas[mandados + 1])
      BY <2>7 DEF MandoTabla, MismasRespuestas
    <3>2. CASE correo'[L(m, i)] = correo[L(m, i)]
      BY <1>2, <1>3, <1>5, <3>1, <3>2
    <3>3. CASE correo'[L(m, i)] # correo[L(m, i)]
      <4>1. /\ Fila("memoria")[3] = Propia(m, i) /\ Vivo(m) /\ A(m, i) = "memoria"
            /\ correo'[L(m, i)] = Append(correo[L(m, i)], Tablas[mandados + 1])
        <5>1. /\ Fila("memoria")[3] = Propia(m, i) /\ Vivo(m)
              /\ correo'[L(m, i)] = Append(correo[L(m, i)], Tablas[mandados + 1])
          BY <3>1, <3>3 DEF Mando
        <5>. QED BY <3>1, <5>1, DeQuien
      <4>2. CASE H(m, i) = "hs_kernel"
        <5>1. EnSuLugar(m, i)
          BY <3>1, <4>1, <4>2, LasEsperas DEF EnSuLugar
        <5>. QED BY <1>1, <5>1, SigueEnSuLugar
      <4>3. CASE H(m, i) # "hs_kernel"
        <5>1. SinRespuesta(m, i)
          BY <3>1, <4>1, <4>3 DEF Ajeno, EsAjena
        <5>2. Head(correo'[L(m, i)]) = "header_general"
          <6>1. CASE mandados = 0
            BY <4>1, <5>1, <6>1, LasTablas DEF SinRespuesta
          <6>2. CASE mandados # 0
            BY <1>0, <4>1, <5>1, <6>2 DEF SinRespuesta
          <6>. QED BY <6>1, <6>2
        <5>. QED BY <3>1, <5>1, <5>2 DEF SinRespuesta, Contestada
      <4>. QED BY <4>2, <4>3
    <3>. QED BY <3>2, <3>3
  <2>8. ASSUME NEW s \in Servidores, NEW k \in 1 .. Largo(s), Atendio(s, k),
               \/ Mando(Fila(s)[k], "hs_aux") /\ Fila(s)[k].hs = Espera[s][k]
               \/ correo' = correo
        PROVE  EnSuLugar(m, i)'
    <3>1. Respondida(m, i)' <=> Respondida(m, i)
      BY <2>8 DEF Atendio, MismasRespuestas
    <3>2. CASE correo'[L(m, i)] = correo[L(m, i)]
      BY <1>2, <1>3, <1>5, <3>1, <3>2
    <3>3. CASE correo'[L(m, i)] # correo[L(m, i)]
      <4>1. /\ Fila(s)[k] = Propia(m, i) /\ A(m, i) = s /\ Fila(s)[k].hs = Espera[s][k]
        BY <2>8, <3>3, SoloALaSuya
      <4>2. Espera[s][k] = H(m, i) /\ Saludadas(s)' = k /\ Fila(s)'[k] = Fila(s)[k]
            /\ Propia(m, i)' = Propia(m, i) /\ k \in 1 .. k
        <5>1. Saludadas(s)' = k /\ Fila(s)'[k] = Fila(s)[k] /\ vez' = vez /\ k \in 1 .. k
          BY <2>8 DEF Atendio, MismasFilas, MismaFila, MismosProcesos
        <5>. QED BY <4>1, <5>1, PropiaIgual, PropiaConexion
      <4>. QED BY <4>1, <4>2 DEF EnSuLugar
    <3>. QED BY <3>2, <3>3
  <2>. QED BY <2>1, <2>2, <2>3, <2>4, <2>5, <2>6, <2>7, <2>8 DEF Efectos
<1>. QED BY <1>1, <1>4, <1>5

(* The third place, when it is there.                                      *)
LEMMA ElTercero ==
  ASSUME Inv1, Saludadas("memoria") = 3 PROVE 3 \in 1 .. Largo("memoria")
<1>1. ASSUME NEW s \in Servidores, Saludadas(s) = 3 PROVE 3 \in 1 .. Largo(s)
  <2>1. Largo(s) \in Nat /\ Saludadas(s) <= Largo(s)
    BY SaludadaEsLugar
  <2>. QED BY <1>1, <2>1
<1>. QED BY <1>1, LosModulos

LEMMA Ajeno_Next ==
  ASSUME Inv2, Ajeno, Efectos PROVE Ajeno'
<1>. USE LosModulos DEF Inv2
<1>. SUFFICES ASSUME NEW m \in Clientes, NEW i \in 1 .. N(m), EsAjena(m, i)'
              PROVE  SinRespuesta(m, i)'
  BY DEF Ajeno
<1>0. /\ A(m, i) = "memoria" /\ Saludadas("memoria")' = 3 /\ H(m, i) # "hs_kernel"
      /\ Fila("memoria")'[3] = Propia(m, i)' /\ Vivo(m)' /\ L(m, i) \in Enlace
      /\ correo \in [Enlace -> Seq(Cabecera)] /\ correo[L(m, i)] \in Seq(Cabecera)
      /\ mandados \in Nat
  BY Enlazados, LasTablas DEF EsAjena, Inv1, TypeOK
<1>1. ASSUME Saludadas("memoria") = 3, Fila("memoria")[3] = Propia(m, i), Vivo(m),
             correo'[L(m, i)] = correo[L(m, i)], Respondida(m, i)' <=> Respondida(m, i),
             mandados' = mandados
      PROVE  SinRespuesta(m, i)'
  BY <1>0, <1>1 DEF Ajeno, EsAjena, SinRespuesta
<1>2. ASSUME Estable, Saludadas("memoria")' = Saludadas("memoria")
      PROVE  /\ Saludadas("memoria") = 3 /\ Fila("memoria")[3] = Propia(m, i) /\ Vivo(m)
             /\ SinRespuesta(m, i) /\ 3 \in 1 .. Largo("memoria")
  <2>1. /\ Fila("memoria")' = Fila("memoria") /\ Vivo(m) /\ vez' = vez
    BY <1>0, <1>2 DEF Estable, MismosProcesos, MismasFilas, MismaFila
  <2>2. Fila("memoria")[3] = Propia(m, i) /\ Saludadas("memoria") = 3
    BY <1>0, <1>2, <2>1, PropiaIgual
  <2>. QED BY <1>0, <2>1, <2>2, ElTercero DEF Ajeno, EsAjena
<1>3. CASE Quieto
  BY <1>1, <1>2, <1>3, LosEstables DEF Quieto, MismosSaludos, MismasRespuestas
<1>4. ASSUME NEW n \in Modulos, Murio(n) PROVE SinRespuesta(m, i)'
  <2>1. n # m /\ n # "memoria"
    BY <1>0, <1>4 DEF Murio
  <2>2. /\ vez' = vez /\ Vivo(m) /\ MismaFila("memoria")
        /\ Saludadas("memoria")' = Saludadas("memoria")
        /\ correo'[L(m, i)] = correo[L(m, i)] /\ (Respondida(m, i)' <=> Respondida(m, i))
        /\ mandados' = mandados
    BY <1>0, <1>4, <2>1 DEF Murio
  <2>3. Propia(m, i)' = Propia(m, i)
    BY <2>2, PropiaIgual
  <2>. QED BY <1>0, <1>1, <2>2, <2>3 DEF MismaFila
<1>5. ASSUME NEW n \in Modulos, Nacio(n) PROVE SinRespuesta(m, i)'
  <2>1. /\ Fila("memoria")' = Fila("memoria") /\ Saludadas("memoria")' = Saludadas("memoria")
        /\ correo' = correo /\ (Respondida(m, i)' <=> Respondida(m, i)) /\ mandados' = mandados
    BY <1>5 DEF Nacio, MismasFilas, MismaFila, MismosSaludos, MismasRespuestas
  <2>2. n # m
    <3>1. 3 \in 1 .. Largo("memoria") /\ Fila("memoria")[3] = Propia(m, i)'
      BY <1>0, <2>1, ElTercero
    <3>2. ASSUME NEW s \in Servidores, NEW k \in 1 .. Largo(s), n = m
          PROVE  Fila(s)[k] # Propia(m, i)'
      BY <1>5, <3>2, NadieAntes
    <3>. QED BY <3>1, <3>2
  <2>3. Vivo(m) /\ Propia(m, i)' = Propia(m, i)
    BY <1>0, <1>5, <2>2, PropiaIgual DEF Nacio
  <2>. QED BY <1>0, <1>1, <2>1, <2>3
<1>6. ASSUME NEW n \in Clientes, NEW j \in 1 .. N(n), Abrio(n, j, A(n, j))
      PROVE  SinRespuesta(m, i)'
  <2>1. /\ Saludadas("memoria")' = Saludadas("memoria") /\ vez' = vez /\ Vivo(m)
        /\ correo' = correo /\ (Respondida(m, i)' <=> Respondida(m, i)) /\ mandados' = mandados
    BY <1>0, <1>6 DEF Abrio, MismosProcesos, MismosSaludos, MismasRespuestas
  <2>2. 3 \in 1 .. Largo("memoria") /\ Propia(m, i)' = Propia(m, i)
    BY <1>0, <2>1, ElTercero, PropiaIgual
  <2>3. Fila("memoria")'[3] = Fila("memoria")[3]
    BY <1>6, <2>2 DEF Abrio, MismaFila
  <2>. QED BY <1>0, <1>1, <2>1, <2>2, <2>3
<1>7. ASSUME NEW n \in Clientes, NEW j \in 1 .. N(n), Leyo(n, j) PROVE SinRespuesta(m, i)'
  <2>1. /\ Saludadas("memoria") = 3 /\ Fila("memoria")[3] = Propia(m, i) /\ Vivo(m)
        /\ SinRespuesta(m, i)
    BY <1>2, <1>7, LosEstables DEF Leyo, MismosSaludos
  <2>2. L(m, i) # L(n, j)
    <3>1. CASE L(m, i) = L(n, j)
      <4>1. correo[L(m, i)] # << >> /\ Head(correo[L(m, i)]) = "hs_aux"
        BY <1>7, <3>1 DEF Leyo
      <4>. QED BY <2>1, <4>1 DEF SinRespuesta
    <3>. QED BY <3>1
  <2>3. n # m \/ j # i
    BY <2>2
  <2>4. correo'[L(m, i)] = correo[L(m, i)] /\ (Respondida(m, i)' <=> Respondida(m, i))
        /\ mandados' = mandados
    BY <1>0, <1>7, <2>2, <2>3 DEF Leyo
  <2>. QED BY <1>1, <2>1, <2>4
<1>8. CASE LeyoTabla
  <2>1. /\ Saludadas("memoria") = 3 /\ Fila("memoria")[3] = Propia(m, i) /\ Vivo(m)
    BY <1>2, <1>8, LosEstables DEF LeyoTabla, MismosSaludos
  <2>2. L(m, i) # MemoriaDelKernel
    BY <1>0, ElKernel, LosEnlaces DEF L
  <2>. QED BY <1>0, <1>1, <1>8, <2>1, <2>2 DEF LeyoTabla, MismasRespuestas
<1>9. CASE MandoTabla
  <2>1. /\ Fila("memoria")[3] = Propia(m, i) /\ Vivo(m) /\ SinRespuesta(m, i)
    BY <1>2, <1>9, LosEstables DEF MandoTabla, MismosSaludos
  <2>2. /\ correo'[L(m, i)] = Append(correo[L(m, i)], Tablas[mandados + 1])
        /\ mandados' = mandados + 1 /\ (Respondida(m, i)' <=> Respondida(m, i))
    BY <1>9, <2>1 DEF MandoTabla, Mando, MismasRespuestas
  <2>3. mandados' # 0 /\ correo'[L(m, i)] # << >>
    BY <1>0, <2>2
  <2>4. Head(correo'[L(m, i)]) = "header_general"
    <3>1. CASE mandados = 0
      BY <2>1, <2>2, <3>1, LasTablas DEF SinRespuesta
    <3>2. CASE mandados # 0
      BY <1>0, <2>1, <2>2, <3>2 DEF SinRespuesta
    <3>. QED BY <3>1, <3>2
  <2>. QED BY <2>1, <2>2, <2>3, <2>4 DEF SinRespuesta
<1>10. ASSUME NEW s \in Servidores, NEW k \in 1 .. Largo(s), Atendio(s, k),
              \/ Mando(Fila(s)[k], "hs_aux") /\ Fila(s)[k].hs = Espera[s][k]
              \/ correo' = correo
       PROVE  SinRespuesta(m, i)'
  <2>1. /\ Fila("memoria")' = Fila("memoria") /\ vez' = vez /\ Vivo(m) /\ mandados' = mandados
        /\ Respondida(m, i)' <=> Respondida(m, i)
    BY <1>0, <1>10 DEF Atendio, MismosProcesos, MismasFilas, MismaFila, MismasRespuestas
  <2>2. Fila("memoria")[3] = Propia(m, i)
    BY <1>0, <2>1, PropiaIgual
  <2>3. CASE s = "memoria"
    <3>1. k = 3 /\ Saludadas("memoria") + 1 = 3 /\ mandados = 0
      BY <1>0, <1>10, <2>3 DEF Atendio
    <3>2. correo[L(m, i)] = << >> /\ ~Respondida(m, i)
      <4>1. k \in Saludadas("memoria") + 1 .. Largo("memoria")
        BY <2>3, <3>1
      <4>. QED BY <1>0, <2>1, <2>2, <2>3, <3>1, <4>1 DEF SinSaludar
    <3>3. Fila(s)[k].hs # Espera[s][k]
      BY <1>0, <2>2, <2>3, <3>1, LasEsperas, PropiaConexion
    <3>4. correo' = correo
      BY <1>10, <3>3
    <3>. QED BY <2>1, <3>1, <3>2, <3>4 DEF SinRespuesta
  <2>4. CASE s # "memoria"
    <3>1. Saludadas("memoria") = 3
      BY <1>0, <1>10, <2>4 DEF Atendio
    <3>2. correo'[L(m, i)] = correo[L(m, i)]
      <4>1. A(m, i) # s
        BY <1>0, <2>4
      <4>2. CASE correo' = correo
        BY <4>2
      <4>3. CASE Mando(Fila(s)[k], "hs_aux")
        <5>1. k \in 1 .. Largo(s) /\ Inv1 /\ Filas
          OBVIOUS
        <5>. QED BY <4>1, <4>3, <5>1, SoloALaSuya
      <4>. QED BY <1>10, <4>2, <4>3
    <3>. QED BY <1>1, <2>1, <2>2, <3>1, <3>2
  <2>. QED BY <2>3, <2>4
<1>. QED BY <1>3, <1>4, <1>5, <1>6, <1>7, <1>8, <1>9, <1>10 DEF Efectos

LEMMA Esperadas_Next ==
  ASSUME Inv1, Esperadas, Efectos PROVE Esperadas'
<1>. USE LosModulos
<1>. SUFFICES ASSUME NEW s \in {"cpu", "fs"}, NEW k \in 1 .. Saludadas(s)'
              PROVE  Fila(s)'[k].hs = Espera[s][k]
  BY DEF Esperadas
<1>0. s \in Servidores /\ s \in Modulos /\ s # "memoria"
      /\ Largo(s) \in Nat /\ Saludadas(s) \in Nat /\ Saludadas(s) <= Largo(s)
  BY SaludadaEsLugar DEF Servidores
<1>1. ~Murio(s)
  BY <1>0 DEF Murio
<1>2. CASE k \in 1 .. Saludadas(s)
  <2>1. k \in 1 .. Largo(s)
    BY <1>0, <1>2
  <2>2. Fila(s)'[k] = Fila(s)[k]
    BY <1>0, <1>1, <2>1, LugaresIguales
  <2>. QED BY <1>2, <2>2 DEF Esperadas
<1>3. CASE k \notin 1 .. Saludadas(s)
  <2>0. Saludadas(s)' # Saludadas(s)
    BY <1>3
  <2>1. \E l \in 1 .. Largo(s) : Atendio(s, l) /\ Fila(s)[l].hs = Espera[s][l]
    <3>1. ~Quieto /\ ~LeyoTabla /\ ~MandoTabla
      BY <1>0, <2>0 DEF Quieto, LeyoTabla, MandoTabla, MismosSaludos
    <3>2. \A n \in Modulos : ~Murio(n) /\ ~Nacio(n)
      BY <1>0, <1>1, <2>0 DEF Murio, Nacio, MismosSaludos
    <3>3. \A n \in Clientes : \A j \in 1 .. N(n) : ~Abrio(n, j, A(n, j)) /\ ~Leyo(n, j)
      BY <1>0, <2>0 DEF Abrio, Leyo, MismosSaludos
    <3>4. \A r \in Servidores : \A l \in 1 .. Largo(r) : Atendio(r, l) => r = s
      BY <1>0, <2>0 DEF Atendio
    <3>. QED BY <1>0, <3>1, <3>2, <3>3, <3>4 DEF Efectos
  <2>2. PICK l \in 1 .. Largo(s) : Atendio(s, l) /\ Fila(s)[l].hs = Espera[s][l]
    BY <2>1
  <2>3. k = l /\ Fila(s)' = Fila(s)
    BY <1>0, <1>3, <2>2 DEF Atendio, MismasFilas, MismaFila
  <2>. QED BY <2>2, <2>3
<1>. QED BY <1>2, <1>3

LEMMA LosDelKernel ==
  /\ "kernel" \in Clientes /\ 1 .. N("kernel") = 1 .. 4 /\ {1, 3, 4} \subseteq 1 .. N("kernel")
  /\ "fs" \in Servidores /\ "cpu" \in Servidores /\ "fs" \in Clientes /\ "cpu" \in Clientes
  /\ "fs" \in Modulos /\ "cpu" \in Modulos /\ "kernel" \in Modulos
  /\ \A m \in Clientes : \A i \in 1 .. N(m) : A(m, i) = "fs" <=> m = "kernel" /\ i \in {3, 4}
<1>1. /\ "kernel" \in Clientes /\ 1 .. N("kernel") = 1 .. 4 /\ {1, 3, 4} \subseteq 1 .. N("kernel")
      /\ "fs" \in Servidores /\ "cpu" \in Servidores /\ "fs" \in Clientes /\ "cpu" \in Clientes
      /\ "fs" \in Modulos /\ "cpu" \in Modulos /\ "kernel" \in Modulos
  BY LosEnlaces DEF Clientes, Servidores, Modulos
<1>2. ASSUME NEW m \in Clientes, NEW i \in 1 .. N(m)
      PROVE  A(m, i) = "fs" <=> m = "kernel" /\ i \in {3, 4}
  BY UnEnlace, LosEnlaces
<1>. QED BY <1>1, <1>2

LEMMA Vieja_Next ==
  ASSUME Inv2, Vieja, Efectos PROVE Vieja'
<1>. USE LosDelKernel DEF Inv2
<1>. SUFFICES ASSUME Vivo("kernel")', NEW k \in 1 .. Largo("fs")',
                     Fila("fs")'[k].vez < vez'["kernel"], NEW i \in {3, 4}
              PROVE  con'[L("kernel", i)] \in {0, vez'["fs"]}
  BY DEF Vieja
<1>0. /\ i \in 1 .. N("kernel") /\ A("kernel", i) = "fs"
      /\ Largo("fs") \in Nat /\ vez["kernel"] \in Nat
  <2>1. i \in 1 .. N("kernel")
    OBVIOUS
  <2>2. A("kernel", i) = "fs"
    BY <2>1
  <2>3. Largo("fs") \in Nat
    BY SaludadaEsLugar
  <2>4. vez["kernel"] \in Nat
    BY DEF Inv1, TypeOK
  <2>. QED BY <2>1, <2>2, <2>3, <2>4
<1>1. ASSUME Vivo("kernel"), k \in 1 .. Largo("fs"), Fila("fs")[k].vez < vez["kernel"]
      PROVE  con[L("kernel", i)] \in {0, vez["fs"]}
  BY <1>1 DEF Vieja
<1>2. CASE Estable
  BY <1>1, <1>2 DEF Estable, MismosProcesos, MismasFilas, MismaFila
<1>3. ASSUME NEW n \in Modulos, Murio(n) PROVE con'[L("kernel", i)] \in {0, vez'["fs"]}
  <2>1. n # "kernel"
    BY <1>3 DEF Murio
  <2>2. n # "fs"
    <3>1. CASE n = "fs"
      <4>1. Largo("fs")' = 0
        BY <1>3, <3>1 DEF Murio
      <4>. QED BY <4>1
    <3>. QED BY <3>1
  <2>3. /\ Vivo("kernel") /\ MismaFila("fs") /\ vez' = vez
        /\ con'[L("kernel", i)] = con[L("kernel", i)]
    BY <1>0, <1>3, <2>1, <2>2 DEF Murio
  <2>. QED BY <1>1, <2>3 DEF MismaFila
<1>4. ASSUME NEW n \in Modulos, Nacio(n) PROVE con'[L("kernel", i)] \in {0, vez'["fs"]}
  <2>0. con' = con /\ MismaFila("fs")
    BY <1>4 DEF Nacio, MismasFilas
  <2>1. CASE n = "kernel"
    <3>1. ~Abierta("kernel", i)
      BY <1>0, <1>4, <2>1 DEF Nacio
    <3>. QED BY <1>0, <2>0, <3>1 DEF Vinculos
  <2>2. CASE n = "fs"
    <3>1. Largo("fs") = 0
      BY <1>4, <2>2, LosLugares DEF Nacio
    <3>. QED BY <2>0, <3>1 DEF MismaFila
  <2>3. CASE n # "kernel" /\ n # "fs"
    <3>1. Vivo("kernel") /\ vez'["kernel"] = vez["kernel"] /\ vez'["fs"] = vez["fs"]
      BY <1>4, <2>3 DEF Nacio
    <3>. QED BY <1>1, <2>0, <3>1 DEF MismaFila
  <2>. QED BY <2>1, <2>2, <2>3
<1>5. ASSUME NEW n \in Clientes, NEW j \in 1 .. N(n), Abrio(n, j, A(n, j))
      PROVE  con'[L("kernel", i)] \in {0, vez'["fs"]}
  <2>1. vez' = vez /\ Vivo("kernel")
    BY <1>5 DEF Abrio, MismosProcesos
  <2>2. k \in 1 .. Largo("fs") /\ Fila("fs")'[k] = Fila("fs")[k]
    <3>1. CASE A(n, j) # "fs"
      BY <1>5, <3>1 DEF Abrio, MismaFila
    <3>2. CASE A(n, j) = "fs"
      <4>1. n = "kernel"
        BY <3>2
      <4>2. /\ Largo("fs")' = Largo("fs") + 1 /\ Fila("fs")'[Largo("fs") + 1] = Propia(n, j)
            /\ \A l \in 1 .. Largo("fs") : Fila("fs")'[l] = Fila("fs")[l]
        BY <1>5, <3>2 DEF Abrio
      <4>3. k # Largo("fs") + 1
        <5>1. Propia(n, j).vez = vez["kernel"]
          BY <4>1 DEF Propia
        <5>2. ~(vez["kernel"] < vez["kernel"])
          BY <1>0
        <5>. QED BY <2>1, <4>2, <5>1, <5>2
      <4>. QED BY <1>0, <4>2, <4>3
    <3>. QED BY <3>1, <3>2
  <2>3. con[L("kernel", i)] \in {0, vez["fs"]}
    BY <1>1, <2>1, <2>2
  <2>4. con'[L("kernel", i)] \in {con[L("kernel", i)], vez["fs"]}
    <3>1. CASE n = "kernel" /\ j = i
      BY <1>0, <1>5, <3>1 DEF Abrio
    <3>2. CASE n # "kernel" \/ j # i
      BY <1>0, <1>5, <3>2 DEF Abrio
    <3>. QED BY <3>1, <3>2
  <2>. QED BY <2>1, <2>3, <2>4
<1>. QED BY <1>2, <1>3, <1>4, <1>5, LosEstables, LosModulos DEF Efectos

LEMMA Dobles_Next ==
  ASSUME Inv2, Esperadas, Vieja, Dobles, Efectos PROVE Dobles'
<1>. USE LosDelKernel DEF Inv2
<1>. SUFFICES ASSUME Abierta("kernel", 4)', Respondida("kernel", 4)' \/ correo'[L("kernel", 4)] # << >>
              PROVE  con'[L("kernel", 3)] = con'[L("kernel", 4)]
  BY DEF Dobles
<1>0. /\ 3 \in 1 .. N("kernel") /\ 4 \in 1 .. N("kernel")
      /\ A("kernel", 3) = "fs" /\ A("kernel", 4) = "fs"
      /\ L("kernel", 4) \in Enlace /\ correo \in [Enlace -> Seq(Cabecera)]
      /\ H("kernel", 3) = "hs_filesystem" /\ H("kernel", 4) = "hs_fs_blocked"
  BY Enlazados, LosEnlaces DEF Inv1, TypeOK
<1>1. ASSUME Abierta("kernel", 4), Respondida("kernel", 4) \/ correo[L("kernel", 4)] # << >>,
             con'[L("kernel", 3)] = con[L("kernel", 3)],
             con'[L("kernel", 4)] = con[L("kernel", 4)]
      PROVE  con'[L("kernel", 3)] = con'[L("kernel", 4)]
  BY <1>1 DEF Dobles
<1>2. CASE Quieto
  BY <1>0, <1>1, <1>2 DEF Quieto, MismasAbiertas, MismasRespuestas
<1>3. ASSUME NEW n \in Modulos, Murio(n) PROVE con'[L("kernel", 3)] = con'[L("kernel", 4)]
  <2>1. n # "kernel"
    BY <1>0, <1>3 DEF Murio
  <2>. QED BY <1>0, <1>1, <1>3, <2>1 DEF Murio
<1>4. ASSUME NEW n \in Modulos, Nacio(n) PROVE con'[L("kernel", 3)] = con'[L("kernel", 4)]
  BY <1>0, <1>1, <1>4 DEF Nacio, MismasAbiertas, MismasRespuestas
<1>5. ASSUME NEW n \in Clientes, NEW j \in 1 .. N(n), Abrio(n, j, A(n, j))
      PROVE  con'[L("kernel", 3)] = con'[L("kernel", 4)]
  <2>1. correo' = correo /\ (Respondida("kernel", 4)' <=> Respondida("kernel", 4))
    BY <1>0, <1>5 DEF Abrio, MismasRespuestas
  <2>2. Abierta("kernel", 4)
    BY <1>0, <2>1, RespondidaAbierta DEF Vinculos
  <2>3. ~(n = "kernel" /\ j \in {3, 4})
    <3>1. ASSUME n = "kernel", j = 3 PROVE FALSE
      <4>1. 4 > 3
        OBVIOUS
      <4>. QED BY <1>0, <1>5, <2>2, <3>1, <4>1 DEF Abrio
    <3>2. ASSUME n = "kernel", j = 4 PROVE FALSE
      BY <1>5, <2>2, <3>2 DEF Abrio
    <3>. QED BY <3>1, <3>2
  <2>4. /\ con'[L("kernel", 3)] = con[L("kernel", 3)]
        /\ con'[L("kernel", 4)] = con[L("kernel", 4)]
    BY <1>0, <1>5, <2>3 DEF Abrio
  <2>. QED BY <1>1, <2>1, <2>2, <2>4
<1>6. ASSUME NEW n \in Clientes, NEW j \in 1 .. N(n), Leyo(n, j)
      PROVE  con'[L("kernel", 3)] = con'[L("kernel", 4)]
  <2>1. Abierta("kernel", 4) /\ con' = con
    BY <1>0, <1>6 DEF Leyo, MismasAbiertas
  <2>2. CASE n = "kernel" /\ j = 4
    BY <1>1, <1>6, <2>1, <2>2 DEF Leyo
  <2>3. CASE n # "kernel" \/ j # 4
    <3>1. L("kernel", 4) # L(n, j)
      BY <1>0, <2>3, DosEnlaces
    <3>2. correo'[L("kernel", 4)] = correo[L("kernel", 4)]
          /\ (Respondida("kernel", 4)' <=> Respondida("kernel", 4))
      BY <1>0, <1>6, <2>3, <3>1 DEF Leyo
    <3>. QED BY <1>1, <2>1, <3>2
  <2>. QED BY <2>2, <2>3
<1>7. CASE LeyoTabla
  <2>1. L("kernel", 4) # MemoriaDelKernel
    BY <1>0, ElKernel, LosEnlaces DEF L
  <2>2. correo'[L("kernel", 4)] = correo[L("kernel", 4)]
    BY <1>0, <1>7, <2>1 DEF LeyoTabla
  <2>. QED BY <1>0, <1>1, <1>7, <2>2 DEF LeyoTabla, MismasAbiertas, MismasRespuestas
<1>8. ASSUME NEW s \in Servidores, NEW k \in 1 .. Largo(s), NEW h,
             Mando(Fila(s)[k], h), s # "fs"
      PROVE  correo'[L("kernel", 4)] = correo[L("kernel", 4)]
  <2>1. ASSUME Fila(s)[k] = Propia("kernel", 4) PROVE FALSE
    BY <1>0, <1>8, <2>1, DeQuien
  <2>. QED BY <1>0, <1>8, <2>1 DEF Mando
<1>9. CASE MandoTabla
  <2>1. correo'[L("kernel", 4)] = correo[L("kernel", 4)]
    <3>1. /\ 3 \in 1 .. Largo("memoria") /\ "memoria" \in Servidores
          /\ Mando(Fila("memoria")[3], Tablas[mandados + 1])
      BY <1>9, LosModulos DEF MandoTabla
    <3>. QED BY <1>8, <3>1
  <2>. QED BY <1>0, <1>1, <1>9, <2>1 DEF MandoTabla, MismasAbiertas, MismasRespuestas
<1>10. ASSUME NEW s \in Servidores, NEW k \in 1 .. Largo(s), Atendio(s, k),
              \/ Mando(Fila(s)[k], "hs_aux") /\ Fila(s)[k].hs = Espera[s][k]
              \/ correo' = correo
       PROVE  con'[L("kernel", 3)] = con'[L("kernel", 4)]
  <2>1. /\ con' = con /\ Abierta("kernel", 4)
        /\ Respondida("kernel", 4)' <=> Respondida("kernel", 4)
    BY <1>0, <1>10 DEF Atendio, MismasAbiertas, MismasRespuestas
  <2>2. CASE correo'[L("kernel", 4)] = correo[L("kernel", 4)]
    BY <1>1, <2>1, <2>2
  <2>3. CASE correo'[L("kernel", 4)] # correo[L("kernel", 4)]
    <3>1. /\ Fila(s)[k] = Propia("kernel", 4) /\ Vivo("kernel") /\ s = "fs"
          /\ con[L("kernel", 4)] = vez["fs"] /\ Fila(s)[k].hs = Espera[s][k]
      <4>1. Fila(s)[k] = Propia("kernel", 4) /\ Vivo("kernel") /\ Fila(s)[k].hs = Espera[s][k]
        BY <1>0, <1>10, <2>3 DEF Mando
      <4>. QED BY <1>0, <4>1, DeQuien
    <3>2. Espera["fs"][k] = "hs_fs_blocked" /\ k \in {1, 2}
      BY <1>0, <1>10, <3>1, PropiaConexion, LasEsperas DEF Atendio
    <3>3. Saludadas("fs") + 1 = 2 /\ k = 2
      BY <1>10, <3>1, <3>2, LasEsperas DEF Atendio
    <3>4. Saludadas("fs") = 1 /\ 1 \in 1 .. Saludadas("fs") /\ 1 \in 1 .. Largo("fs")
      BY <3>1, <3>3, SaludadaEsLugar
    <3>5. Fila("fs")[1].hs = "hs_filesystem"
      BY <3>4, LasEsperas DEF Esperadas
    <3>6a. PICK n \in Clientes : \E j \in 1 .. N(n) : DeCliente("fs", 1, n, j)
      BY <3>4 DEF Filas
    <3>6. PICK j \in 1 .. N(n) : DeCliente("fs", 1, n, j)
      BY <3>6a
    <3>7. n = "kernel" /\ j = 3
      BY <1>0, <3>5, <3>6, LosEnlaces DEF DeCliente
    <3>8. con[L("kernel", 3)] = vez["fs"]
      <4>1. CASE Fila("fs")[1].vez = vez["kernel"]
        BY <3>1, <3>6, <3>7, <4>1 DEF DeCliente
      <4>2. CASE Fila("fs")[1].vez # vez["kernel"]
        <5>1. Fila("fs")[1].vez < vez["kernel"]
          <6>1. Fila("fs")[1].vez \in 1 .. vez["kernel"] /\ vez["kernel"] \in Nat
            BY <3>6, <3>7 DEF DeCliente, Inv1, TypeOK
          <6>. QED BY <4>2, <6>1
        <5>2. con[L("kernel", 3)] \in {0, vez["fs"]}
          BY <3>1, <3>4, <5>1 DEF Vieja
        <5>3. Abierta("kernel", 3)
          <6>1. paso["kernel"] \in 1 .. 4
            BY DEF Inv1, TypeOK
          <6>. QED BY <2>1, <6>1 DEF Abierta
        <5>4. con[L("kernel", 3)] # 0
          <6>1. con[L("kernel", 3)] \in 1 .. vez["fs"]
            BY <1>0, <5>3 DEF Vinculos
          <6>. QED BY <6>1
        <5>. QED BY <5>2, <5>4
      <4>. QED BY <4>1, <4>2
    <3>. QED BY <2>1, <3>1, <3>8
  <2>. QED BY <2>2, <2>3
<1>. QED BY <1>2, <1>3, <1>4, <1>5, <1>6, <1>7, <1>9, <1>10, LosModulos DEF Efectos

(* What is open was open already, to the same launch, or was just opened.  *)
LEMMA YaAbierta ==
  ASSUME Efectos, NEW m \in Clientes, NEW i \in 1 .. N(m), Abierta(m, i)'
  PROVE  \/ Abrio(m, i, A(m, i))
         \/ Abierta(m, i) /\ con'[L(m, i)] = con[L(m, i)]
<1>0. i \in 1 .. 4
  BY Enlazados
<1>1. ASSUME Estable PROVE Abierta(m, i) /\ con'[L(m, i)] = con[L(m, i)]
  BY <1>1 DEF Estable, MismasAbiertas
<1>2. ASSUME NEW n \in Modulos, Murio(n) PROVE Abierta(m, i) /\ con'[L(m, i)] = con[L(m, i)]
  <2>1. n # m
    BY <1>0, <1>2 DEF Murio
  <2>. QED BY <1>2, <2>1 DEF Murio
<1>3. ASSUME NEW n \in Modulos, Nacio(n) PROVE Abierta(m, i) /\ con'[L(m, i)] = con[L(m, i)]
  BY <1>3 DEF Nacio, MismasAbiertas
<1>4. ASSUME NEW n \in Clientes, NEW j \in 1 .. N(n), Abrio(n, j, A(n, j))
      PROVE  \/ Abrio(m, i, A(m, i))
             \/ Abierta(m, i) /\ con'[L(m, i)] = con[L(m, i)]
  <2>1. CASE n = m /\ j = i
    BY <1>4, <2>1
  <2>2. CASE n # m \/ j # i
    BY <1>4, <2>2 DEF Abrio
  <2>. QED BY <2>1, <2>2
<1>. QED BY <1>1, <1>2, <1>3, <1>4, LosEstables, LosModulos DEF Efectos

LEMMA YaVivo ==
  ASSUME Efectos, NEW m \in Modulos, Vivo(m)', ~Nacio(m) PROVE Vivo(m) /\ ~Murio(m)
<1>1. ~Murio(m)
  BY DEF Murio
<1>2. ASSUME MismosProcesos PROVE Vivo(m)
  BY <1>2 DEF MismosProcesos
<1>3. ASSUME NEW n \in Modulos, Murio(n) \/ Nacio(n) PROVE Vivo(m)
  BY <1>1, <1>3 DEF Murio, Nacio
<1>. QED BY <1>1, <1>2, <1>3 DEF Efectos, Quieto, Abrio, Leyo, LeyoTabla, MandoTabla, Atendio

LEMMA Socio_Next ==
  ASSUME Inv2, Contestadas, Efectos, NEW i \in 1 .. N("kernel"), NEW k \in 1 .. 3,
         NEW m \in Clientes, A("kernel", i) = m, 1 \in 1 .. N(m), A(m, 1) = "memoria",
         \A l \in 1 .. 3 : Espera["memoria"][l] = H(m, 1) => l = k,
         Socio(i, k, m)
  PROVE  Socio(i, k, m)'
<1>. USE LosModulos DEF Inv2
<1>. SUFFICES ASSUME Abierta("kernel", i)'
              PROVE  /\ vez'["memoria"] >= 1
                     /\ vez'["memoria"] = 1 /\ Vivo("memoria")' =>
                          /\ Saludadas("memoria")' >= k
                          /\ Fila("memoria")'[k] =
                               [de |-> m, hs |-> H(m, 1), vez |-> con'[L("kernel", i)]]
  BY DEF Socio
<1>0. vez["memoria"] \in Nat /\ Saludadas("memoria") \in Nat /\ Largo("memoria") \in Nat
      /\ Saludadas("memoria") <= Largo("memoria")
      /\ 1 .. Saludadas("memoria") \subseteq 1 .. 3
  <2>1. vez["memoria"] \in Nat
    BY DEF Inv1, TypeOK
  <2>. QED BY <2>1, SaludadaEsLugar, LasEsperas
<1>1. ASSUME k \in 1 .. Saludadas("memoria"), ~Murio("memoria")
      PROVE  Saludadas("memoria")' >= k /\ Fila("memoria")'[k] = Fila("memoria")[k]
  <2>1. k \in 1 .. Largo("memoria")
    BY <1>0, <1>1
  <2>2. /\ Saludadas("memoria")' \in {Saludadas("memoria"), Saludadas("memoria") + 1}
        /\ Fila("memoria")'[k] = Fila("memoria")[k]
    BY <1>1, <2>1, LugaresIguales
  <2>. QED BY <1>0, <1>1, <2>2
<1>2. CASE Abrio("kernel", i, m)
  <2>1. /\ Respondida(m, 1) /\ con'[L("kernel", i)] = vez[m] /\ vez' = vez
        /\ Vivo("memoria")' <=> Vivo("memoria")
    BY <1>2 DEF Abrio, MismosProcesos
  <2>2. Abierta(m, 1) /\ con[L(m, 1)] \in 1 .. vez["memoria"]
    BY <2>1, RespondidaAbierta DEF Vinculos
  <2>3. vez["memoria"] >= 1
    BY <1>0, <2>2
  <2>4. ASSUME vez["memoria"] = 1, Vivo("memoria")
        PROVE  /\ Saludadas("memoria")' >= k
               /\ Fila("memoria")'[k] = [de |-> m, hs |-> H(m, 1), vez |-> con'[L("kernel", i)]]
    <3>1. Vale(m, 1)
      BY <2>2, <2>4 DEF Vale
    <3>2. EnSuLugar(m, 1)
      BY <2>1, <3>1 DEF Contestadas, Contestada
    <3>3. PICK l \in 1 .. Saludadas("memoria") :
            Fila("memoria")[l] = Propia(m, 1) /\ Espera["memoria"][l] = H(m, 1)
      BY <3>2 DEF EnSuLugar
    <3>4. l = k
      BY <1>0, <3>3
    <3>5. ~Murio("memoria")
      BY <2>1, <2>4 DEF Murio
    <3>6. Saludadas("memoria")' >= k /\ Fila("memoria")'[k] = Propia(m, 1)
      BY <1>1, <3>3, <3>4, <3>5
    <3>. QED BY <2>1, <3>6 DEF Propia, H
  <2>. QED BY <2>1, <2>3, <2>4
<1>3. CASE Abierta("kernel", i) /\ con'[L("kernel", i)] = con[L("kernel", i)]
  <2>1. /\ vez["memoria"] >= 1
        /\ vez["memoria"] = 1 /\ Vivo("memoria") =>
             /\ Saludadas("memoria") >= k
             /\ Fila("memoria")[k] = [de |-> m, hs |-> H(m, 1), vez |-> con[L("kernel", i)]]
    BY <1>3 DEF Socio
  <2>2. CASE Nacio("memoria")
    BY <1>0, <2>1, <2>2 DEF Nacio
  <2>3. CASE ~Nacio("memoria")
    <3>1. vez'["memoria"] = vez["memoria"]
      BY <2>3, MismaVez
    <3>2. ASSUME vez'["memoria"] = 1, Vivo("memoria")'
          PROVE  /\ Saludadas("memoria")' >= k
                 /\ Fila("memoria")'[k] = [de |-> m, hs |-> H(m, 1), vez |-> con'[L("kernel", i)]]
      <4>1. Vivo("memoria") /\ ~Murio("memoria")
        BY <2>3, <3>2, YaVivo
      <4>2. /\ Saludadas("memoria") >= k
            /\ Fila("memoria")[k] = [de |-> m, hs |-> H(m, 1), vez |-> con[L("kernel", i)]]
        BY <2>1, <3>1, <3>2, <4>1
      <4>3. k \in 1 .. Saludadas("memoria")
        BY <1>0, <4>2
      <4>. QED BY <1>1, <1>3, <4>1, <4>2, <4>3
    <3>. QED BY <2>1, <3>1, <3>2
  <2>. QED BY <2>2, <2>3
<1>. QED BY <1>2, <1>3, YaAbierta

LEMMA Socios_Next ==
  ASSUME Inv2, Contestadas, Socios, Efectos PROVE Socios'
<1>. USE LosDelKernel, LosEnlaces
<1>1. \A l \in 1 .. 3 : l = 1 \/ l = 2 \/ l = 3
  OBVIOUS
<1>2. Socio(1, 1, "cpu")'
  <2>1. \A l \in 1 .. 3 : Espera["memoria"][l] = H("cpu", 1) => l = 1
    BY <1>1, LasEsperas
  <2>2. 1 \in 1 .. N("cpu") /\ A("kernel", 1) = "cpu" /\ A("cpu", 1) = "memoria" /\ 1 \in 1 .. 3
        /\ 1 \in 1 .. N("kernel")
    OBVIOUS
  <2>. QED BY <2>1, <2>2, Socio_Next DEF Socios
<1>3. Socio(3, 2, "fs")'
  <2>1. \A l \in 1 .. 3 : Espera["memoria"][l] = H("fs", 1) => l = 2
    BY <1>1, LasEsperas
  <2>2. 1 \in 1 .. N("fs") /\ A("kernel", 3) = "fs" /\ A("fs", 1) = "memoria" /\ 2 \in 1 .. 3
        /\ 3 \in 1 .. N("kernel")
    OBVIOUS
  <2>. QED BY <2>1, <2>2, Socio_Next DEF Socios
<1>. QED BY <1>2, <1>3 DEF Socios

LEMMA Inv3_Init == Init => Inv3
<1>. SUFFICES ASSUME Init PROVE Inv3
  OBVIOUS
<1>. USE LosDelKernel
<1>1. Inv2
  BY Inv1_Init, Inv2_Init DEF Inv2
<1>2. /\ \A m \in Modulos : ~Vivo(m)
      /\ \A m \in Clientes : \A i \in 1 .. N(m) : ~Abierta(m, i)
  BY Enlazados DEF Init, Vivo, Abierta
<1>3. \A s \in Servidores : Largo(s) = 0 /\ Saludadas(s) = 0
  <2>1. ASSUME NEW s \in Servidores PROVE Largo(s) = 0 /\ Saludadas(s) = 0
    <3>1. s \in Modulos
      BY DEF Servidores, Modulos
    <3>2. Largo(s) = 0 /\ Saludadas(s) \in Nat /\ Saludadas(s) <= Largo(s)
      BY <1>1, <1>2, <3>1, LosLugares, SaludadaEsLugar DEF Inv2
    <3>. QED BY <3>2
  <2>. QED BY <2>1
<1>4. Contestadas /\ Ajeno
  BY <1>2, Enlazados DEF Contestadas, Vale, Ajeno, EsAjena
<1>5. Esperadas
  <2>1. \A s \in {"cpu", "fs"} : Saludadas(s) = 0
    BY <1>3 DEF Servidores
  <2>2. 1 .. 0 = {}
    OBVIOUS
  <2>. QED BY <2>1, <2>2 DEF Esperadas
<1>6. Vieja
  BY <1>2, LosModulos DEF Vieja
<1>7. Dobles /\ Socios
  <2>1. ~Abierta("kernel", 1) /\ ~Abierta("kernel", 3) /\ ~Abierta("kernel", 4)
    BY <1>2, LosModulos DEF Abierta
  <2>. QED BY <2>1 DEF Dobles, Socios, Socio
<1>. QED BY <1>1, <1>4, <1>5, <1>6, <1>7 DEF Inv3

LEMMA Inv3_Next == Inv3 /\ [Next]_vars => Inv3'
<1>. SUFFICES ASSUME Inv3, [Next]_vars PROVE Inv3'
  OBVIOUS
<1>1. Inv1 /\ Inv2 /\ Contestadas /\ Ajeno /\ Esperadas /\ Vieja /\ Dobles /\ Socios
  BY DEF Inv3, Inv2
<1>2. Inv2' /\ Efectos
  BY <1>1, Inv2_Next, LosEfectos
<1>3. Contestadas' /\ Ajeno' /\ Esperadas'
  BY <1>1, <1>2, Contestadas_Next, Ajeno_Next, Esperadas_Next
<1>4. Vieja' /\ Dobles' /\ Socios'
  BY <1>1, <1>2, Vieja_Next, Dobles_Next, Socios_Next
<1>. QED BY <1>2, <1>3, <1>4 DEF Inv3

LEMMA Inv3_Siempre == Spec => []Inv3
  BY Inv3_Init, Inv3_Next, PTL DEF Spec

(* A kernel that serves, on a connection that was not cut, is in the place *)
(* of its handshake.                                                       *)
LEMMA ElKernelEnSuLugar ==
  ASSUME Inv3, pc["kernel"] = "sirve", NEW i \in 1 .. N("kernel"),
         NEW s \in Servidores, s = A("kernel", i), ~Cortado(L("kernel", i), s)
  PROVE  \E k \in 1 .. Saludadas(s) :
            /\ aceptadas[s][k] = Propia("kernel", i) /\ Espera[s][k] = H("kernel", i)
            /\ k \in 1 .. Len(aceptadas[s]) /\ k \in 1 .. Len(Espera[s])
<1>. USE LosModulos DEF Inv3, Inv2
<1>1. Respondida("kernel", i) /\ Abierta("kernel", i)
  <2>1. paso["kernel"] = N("kernel") /\ N("kernel") = 4 /\ Vivo("kernel")
    BY LosEnlaces DEF Inv1, Avances, Vivo
  <2>2. i < paso["kernel"] \/ i = paso["kernel"]
    BY <2>1
  <2>. QED BY <2>1, <2>2 DEF Respondida, Abierta
<1>2. Vale("kernel", i) /\ Contestada("kernel", i)
  BY <1>1 DEF Vale, Contestada, Cortado, Vivo
<1>3. PICK k \in 1 .. Saludadas(s) : Fila(s)[k] = Propia("kernel", i) /\ Espera[s][k] = H("kernel", i)
  BY <1>2 DEF Contestadas, EnSuLugar
<1>4. k \in 1 .. Len(aceptadas[s]) /\ k \in 1 .. Len(Espera[s]) /\ k \in 1 .. Largo(s)
  BY LosLugares
<1>5. Fila(s)[k] = aceptadas[s][k]
  BY <1>4 DEF Fila
<1>. QED BY <1>3, <1>4, <1>5

(* Whoever was launched when, and whoever was killed: while memoria is at  *)
(* its first launch, a kernel that serves is the only client of the cpu    *)
(* and of the two sockets of the filesystem, and memoria, if it is up, has *)
(* those launches of cpu and filesystem in their places and this kernel in *)
(* the third (memoria.c:50-68, kernel.c:63-131).                           *)
THEOREM ParejasInvariante == Spec => []ParejasBien
<1>1. Inv3 => ParejasBien
  <2>. SUFFICES ASSUME Inv3, vez["memoria"] = 1, pc["kernel"] = "sirve" PROVE ParejasBien
    BY DEF ParejasBien
  <2>. USE LosDelKernel, LosEnlaces, LasEsperas
  <2>1. /\ Inv1 /\ 1 \in 1 .. N("kernel") /\ 2 \in 1 .. N("kernel")
        /\ 3 \in 1 .. N("kernel") /\ 4 \in 1 .. N("kernel")
        /\ "cpu" \in Servidores /\ "fs" \in Servidores /\ "memoria" \in Servidores
    BY DEF Inv3, Inv2, Servidores
  <2>2. /\ L("kernel", 1) = <<"kernel", "hs_cpu">> /\ L("kernel", 2) = MemoriaDelKernel
        /\ L("kernel", 3) = <<"kernel", "hs_filesystem">>
        /\ L("kernel", 4) = <<"kernel", "hs_fs_blocked">>
    BY DEF L, MemoriaDelKernel
  <2>3. \A i \in 1 .. N("kernel") : Respondida("kernel", i) /\ Abierta("kernel", i)
    <3>1. paso["kernel"] = 4 /\ Vivo("kernel")
      BY DEF Inv3, Inv2, Inv1, Avances, Vivo
    <3>2. \A i \in 1 .. 4 : i < 4 \/ i = 4
      OBVIOUS
    <3>. QED BY <3>1, <3>2 DEF Respondida, Abierta
  <2>4. con[L("kernel", 3)] = con[L("kernel", 4)]
    BY <2>1, <2>3 DEF Inv3, Dobles
  <2>5. /\ Len(aceptadas["cpu"]) \in Nat /\ Len(aceptadas["cpu"]) <= 1
        /\ Len(aceptadas["fs"]) \in Nat /\ Len(aceptadas["fs"]) <= 2
        /\ aceptadas["cpu"] \in Seq(Conexion) /\ aceptadas["fs"] \in Seq(Conexion)
        /\ aceptadas["memoria"] \in Seq(Conexion)
    <3>1. /\ aceptadas["cpu"] \in Seq(Conexion) /\ aceptadas["fs"] \in Seq(Conexion)
          /\ aceptadas["memoria"] \in Seq(Conexion)
      BY <2>1 DEF Inv1, TypeOK
    <3>2. \A s \in Servidores : Len(aceptadas[s]) <= Len(Espera[s])
      BY <2>1 DEF Inv1, TypeOK
    <3>3. Len(aceptadas["cpu"]) <= 1 /\ Len(aceptadas["fs"]) <= 2
      BY <2>1, <3>2
    <3>. QED BY <3>1, <3>3
  <2>0. \A j \in 1 .. 2 : \A a \in Nat : j \in 1 .. a => (a <= j => a = j)
    OBVIOUS
  <2>6. ASSUME ~Cortado(<<"kernel", "hs_cpu">>, "cpu")
        PROVE  aceptadas["cpu"] = <<Propia("kernel", 1)>>
    <3>1. PICK k \in 1 .. Saludadas("cpu") :
            /\ aceptadas["cpu"][k] = Propia("kernel", 1)
            /\ k \in 1 .. Len(aceptadas["cpu"]) /\ k \in 1 .. 1
      BY <2>1, <2>2, <2>6, ElKernelEnSuLugar
    <3>2. \A j \in 1 .. 1 : j = 1 /\ j \in 1 .. 2
      OBVIOUS
    <3>3. k = 1 /\ k \in 1 .. 2
      BY <3>1, <3>2
    <3>4. Len(aceptadas["cpu"]) = 1
      BY <2>0, <2>5, <3>1, <3>3
    <3>. QED BY <2>5, <3>1, <3>3, <3>4
  <2>7. ASSUME ~Cortado(<<"kernel", "hs_filesystem">>, "fs")
        PROVE  aceptadas["fs"] = <<Propia("kernel", 3), Propia("kernel", 4)>>
    <3>1. PICK k \in 1 .. Saludadas("fs") :
            /\ aceptadas["fs"][k] = Propia("kernel", 3) /\ Espera["fs"][k] = "hs_filesystem"
            /\ k \in 1 .. Len(aceptadas["fs"]) /\ k \in 1 .. 2
      BY <2>1, <2>2, <2>7, ElKernelEnSuLugar
    <3>2. ~Cortado(L("kernel", 4), "fs")
      BY <2>2, <2>4, <2>7 DEF Cortado
    <3>3. PICK l \in 1 .. Saludadas("fs") :
            /\ aceptadas["fs"][l] = Propia("kernel", 4) /\ Espera["fs"][l] = "hs_fs_blocked"
            /\ l \in 1 .. Len(aceptadas["fs"]) /\ l \in 1 .. 2
      BY <2>1, <3>2, ElKernelEnSuLugar
    <3>4. \A j \in 1 .. 2 : j = 1 \/ j = 2
      OBVIOUS
    <3>5. k = 1 /\ l = 2
      BY <3>1, <3>3, <3>4
    <3>6. Len(aceptadas["fs"]) = 2
      BY <2>0, <2>5, <3>3, <3>5
    <3>. QED BY <2>5, <3>1, <3>3, <3>5, <3>6
  <2>8. ASSUME ~Cortado(MemoriaDelKernel, "memoria")
        PROVE  aceptadas["memoria"] =
                 <<[de |-> "cpu", hs |-> "hs_cpu", vez |-> con[<<"kernel", "hs_cpu">>]],
                   [de |-> "fs", hs |-> "hs_filesystem",
                    vez |-> con[<<"kernel", "hs_filesystem">>]],
                   Propia("kernel", 2)>>
    <3>1. PICK k \in 1 .. Saludadas("memoria") :
            /\ aceptadas["memoria"][k] = Propia("kernel", 2) /\ Espera["memoria"][k] = "hs_kernel"
            /\ k \in 1 .. Len(aceptadas["memoria"]) /\ k \in 1 .. 3
      BY <2>1, <2>2, <2>8, ElKernelEnSuLugar
    <3>2. \A j \in 1 .. 3 : j = 1 \/ j = 2 \/ j = 3
      OBVIOUS
    <3>3. k = 3
      BY <3>1, <3>2
    <3>4. Saludadas("memoria") = 3 /\ Len(aceptadas["memoria"]) = 3
      <4>1. Saludadas("memoria") \in Nat /\ Saludadas("memoria") <= Len(Espera["memoria"])
        BY <2>1, SaludadaEsLugar, LosLugares
      <4>2. Saludadas("memoria") = 3
        BY <3>1, <3>3, <4>1
      <4>. QED BY <2>1, <4>2, Completa
    <3>5. Vivo("memoria")
      BY <2>8 DEF Cortado, Vivo
    <3>6. /\ Fila("memoria")[1] = [de |-> "cpu", hs |-> "hs_cpu", vez |-> con[L("kernel", 1)]]
          /\ Fila("memoria")[2] = [de |-> "fs", hs |-> "hs_filesystem", vez |-> con[L("kernel", 3)]]
      BY <2>1, <2>3, <3>5 DEF Inv3, Socios, Socio
    <3>7. Fila("memoria")[1] = aceptadas["memoria"][1] /\ Fila("memoria")[2] = aceptadas["memoria"][2]
      <4>1. 1 \in 1 .. Largo("memoria") /\ 2 \in 1 .. Largo("memoria")
        BY <2>1, <3>4, LosLugares
      <4>. QED BY <3>4, <4>1 DEF Fila
    <3>8. \A q \in Seq(Conexion) : Len(q) = 3 => q = <<q[1], q[2], q[3]>>
      OBVIOUS
    <3>9. /\ aceptadas["memoria"][1] = [de |-> "cpu", hs |-> "hs_cpu", vez |-> con[<<"kernel", "hs_cpu">>]]
          /\ aceptadas["memoria"][2] = [de |-> "fs", hs |-> "hs_filesystem",
                                       vez |-> con[<<"kernel", "hs_filesystem">>]]
          /\ aceptadas["memoria"][3] = Propia("kernel", 2)
      BY <2>2, <3>1, <3>3, <3>6, <3>7
    <3>10. aceptadas["memoria"] =
             <<aceptadas["memoria"][1], aceptadas["memoria"][2], aceptadas["memoria"][3]>>
      BY <2>5, <3>4, <3>8
    <3>. QED BY ONLY <3>9, <3>10
  <2>. QED BY <2>2, <2>4, <2>6, <2>7, <2>8 DEF ParejasBien
<1>. QED BY <1>1, Inv3_Siempre, PTL
=============================================================================
