--------------------------- MODULE ArchivosProofs ---------------------------
(***************************************************************************)
(* Proofs about Archivos: types, and that the filesystem keeps the promise *)
(* of TablaFcb, for any files, sizes, positions and block sizes.           *)
(***************************************************************************)
EXTENDS Archivos, TLAPS

USE DEF red

(* What the position of the process says of the request and of its FCB. *)
EnBucle == {"achica", "agranda", "guarda"}
MarchaCrear ==
    /\ \A f \in porCrear : fcb[f].estado = "ausente"
    /\ estado = "atiende" /\ ped.op = "CREATE" =>
           ped.f \in porCrear
    /\ estado = "atiende" /\ porCrear # {} => ped.op = "CREATE"
    /\ estado \in EnCurso \ {"atiende"} => porCrear = {}
    /\ estado \in EnCurso /\ ped.op = "CREATE" => ped.n = 0
    /\ estado = "crea" => ped.op = "CREATE" /\ fcb[ped.f].estado = "vacio"
    /\ estado \in {"pid", "memoria"} => ped.op \in ConPid
MarchaTruncar ==
    /\ estado \in EnBucle => /\ ped.op = "TRUNCATE"
                             /\ fcb[ped.f].estado = "completo"
                             /\ cfg.tam = fcb[ped.f].tam
    /\ estado = "escribe" => ped.op = "TRUNCATE" /\ fcb[ped.f].estado = "vacio"
    /\ estado = "responde" => ped.op \in {"CREATE", "TRUNCATE", "WRITE"}
Marcha == MarchaCrear /\ MarchaTruncar

-----------------------------------------------------------------------------
LEMMA Constantes ==
    /\ 0 \in Tamanios /\ Tamanios \subseteq Nat /\ 0 \in Bloque
    /\ SinFcb \in TipoFcb /\ Vacio \in TipoFcb
    /\ \A n \in Tamanios, d, e \in Bloque : Fcb(n, d, e) \in TipoFcb
<1>1. 0 \in Bloque
  BY TamanosAssumption DEF Bloque
<1> QED
  BY <1>1, TamanosAssumption DEF SinFcb, Vacio, Fcb, TipoFcb

LEMMA OlvidarTipos ==
    ASSUME TypeOK, Olvida
    PROVE  /\ ped' \in [op : Operaciones, f : Archivo, n : Tamanios,
                        p : Posiciones \cup {0}]
           /\ cfg' \in TipoFcb /\ i' \in Nat
  BY Constantes DEF TypeOK, Olvida, SinPedido, Operaciones

(* Any death of the process keeps the types of what is in memory. *)
LEMMA MorirTipos ==
    ASSUME TypeOK, Muere, fcb' \in [Archivo -> TipoFcb],
           bitmap' \in [Bloque -> BOOLEAN],
           palabra' \in [Palabras -> Bloque \cup {Dato}]
    PROVE  TypeOK'
  BY OlvidarTipos DEF TypeOK, Muere, Olvida

LEMMA InitTipos == Init => TypeOK
<1> SUFFICES ASSUME Init PROVE TypeOK
  OBVIOUS
<1>1. fcb \in [Archivo -> TipoFcb] /\ cfg \in TipoFcb
  BY Constantes DEF Init
<1>2. palabra \in [Palabras -> Bloque \cup {Dato}]
  BY Constantes DEF Init
<1>3. ped \in [op : Operaciones, f : Archivo, n : Tamanios,
               p : Posiciones \cup {0}]
  BY Constantes DEF Init, SinPedido, Operaciones
<1> QED
  BY <1>1, <1>2, <1>3 DEF Init, TypeOK

LEMMA ArranqueTipos ==
    ASSUME TypeOK,
           Arrancar \/ TerminarLectura \/ \E f \in Archivo : LeerFcb(f)
    PROVE  TypeOK'
<1>1. CASE Arrancar
  BY <1>1 DEF Arrancar, TypeOK
<1>2. CASE TerminarLectura
  BY <1>2 DEF TerminarLectura, TypeOK, disco
<1>3. ASSUME NEW f \in Archivo, LeerFcb(f) PROVE TypeOK'
  <2>1. CASE Muere /\ UNCHANGED disco
    BY <2>1, MorirTipos DEF disco, TypeOK
  <2>2. CASE /\ UNCHANGED <<fcb, palabra, estado, ped, cfg, i, porCrear, red>>
             /\ bitmap' \in [Bloque -> BOOLEAN]
    BY <2>2 DEF TypeOK
  <2>3. CASE UNCHANGED <<fcb, palabra, estado, ped, cfg, i, porCrear, red, bitmap>>
    BY <2>3 DEF TypeOK
  <2> QED
    BY <1>3, <2>1, <2>2, <2>3 DEF LeerFcb
<1> QED
  BY <1>1, <1>2, <1>3

LEMMA CrearTipos ==
    ASSUME TypeOK, CrearFcbAbre \/ CrearFcbGuarda \/ GuardarAbre
                   \/ GuardarEscribe
    PROVE  TypeOK'
<1>1. fcb' \in [Archivo -> TipoFcb]
  <2>1. PICK c \in TipoFcb : fcb' = [fcb EXCEPT ![ped.f] = c]
    <3>1. CASE CrearFcbAbre
      <4>1. fcb[ped.f] \in TipoFcb
        BY DEF TypeOK
      <4> QED
        BY <3>1, <4>1, Constantes DEF CrearFcbAbre
    <3>2. CASE CrearFcbGuarda
      BY <3>2, Constantes DEF CrearFcbGuarda
    <3>3. CASE GuardarAbre
      BY <3>3, Constantes DEF GuardarAbre
    <3>4. CASE GuardarEscribe
      <4>1. ped.n \in Tamanios /\ cfg.directo \in Bloque
            /\ cfg.indirecto \in Bloque
        BY DEF TypeOK, TipoFcb
      <4> QED
        BY <3>4, <4>1, Constantes DEF GuardarEscribe
    <3> QED
      BY <3>1, <3>2, <3>3, <3>4
  <2> QED
    BY <2>1 DEF TypeOK
<1> QED
  BY <1>1 DEF TypeOK, CrearFcbAbre, CrearFcbGuarda, GuardarAbre,
              GuardarEscribe, EnCurso

LEMMA BucleTipos ==
    ASSUME TypeOK, TruncarLee \/ Achicar \/ Agrandar \/ TerminarBucle
    PROVE  TypeOK'
<1>1. CASE TruncarLee
  <2>1. CASE Muere /\ UNCHANGED disco
    BY <2>1, MorirTipos DEF disco, TypeOK
  <2>2. CASE ~(Muere /\ UNCHANGED disco)
    <3>1. /\ UNCHANGED <<fcb, bitmap, palabra, ped, porCrear, vivas, llego>>
          /\ cfg' = fcb[ped.f] /\ i' = 0
          /\ estado' \in {"achica", "agranda", "guarda"}
      BY <1>1, <2>2 DEF TruncarLee, disco
    <3>2. cfg' \in TipoFcb
      BY <3>1 DEF TypeOK
    <3> QED
      BY <3>1, <3>2 DEF TypeOK, EnCurso
  <2> QED
    BY <2>1, <2>2
<1>2. CASE Achicar
  <2>1. CASE Muere /\ UNCHANGED disco
    BY <2>1, MorirTipos DEF disco, TypeOK
  <2>2. CASE ~(Muere /\ UNCHANGED disco)
    <3>1. bitmap' \in [Bloque -> BOOLEAN] /\ i' \in Nat
      <4>1. i' = i + 1
        BY <1>2, <2>2 DEF Achicar
      <4>2. \E b, v : bitmap' = [bitmap EXCEPT ![b] = v] /\ v \in BOOLEAN
        BY <1>2, <2>2 DEF Achicar
      <4>3. bitmap' \in [Bloque -> BOOLEAN]
        BY <4>2 DEF TypeOK
      <4>4. i' \in Nat
        BY <4>1 DEF TypeOK
      <4> QED
        BY <4>3, <4>4
    <3> QED
      BY <1>2, <2>2, <3>1 DEF Achicar, TypeOK
  <2> QED
    BY <2>1, <2>2
<1>3. CASE Agrandar
  <2>1. CASE Muere /\ UNCHANGED disco
    BY <2>1, MorirTipos DEF disco, TypeOK
  <2>2. CASE ~(Muere /\ UNCHANGED disco)
    <3>1. bitmap' \in [Bloque -> BOOLEAN] /\ i' \in Nat
      <4>1. i' = i + 1
        BY <1>3, <2>2 DEF Agrandar
      <4>2. \E b, v : bitmap' = [bitmap EXCEPT ![b] = v] /\ v \in BOOLEAN
        BY <1>3, <2>2 DEF Agrandar
      <4>3. bitmap' \in [Bloque -> BOOLEAN]
        BY <4>2 DEF TypeOK
      <4>4. i' \in Nat
        BY <4>1 DEF TypeOK
      <4> QED
        BY <4>3, <4>4
    <3>2. cfg' \in TipoFcb
      <4>1. \E d, e : /\ d \in {cfg.directo, 0} /\ e \in {cfg.indirecto, 0}
                     /\ cfg' = [cfg EXCEPT !.directo = d, !.indirecto = e]
        BY <1>3, <2>2 DEF Agrandar, BuscarProximoBloqueLibre
      <4>2. cfg \in TipoFcb /\ 0 \in Bloque
        BY Constantes DEF TypeOK
      <4> QED
        BY <4>1, <4>2 DEF TipoFcb
    <3>3. palabra' \in [Palabras -> Bloque \cup {Dato}]
      <4>1. \/ palabra' = palabra
            \/ \E w : palabra' = [palabra EXCEPT ![w] = 0]
        BY <1>3, <2>2 DEF Agrandar, BuscarProximoBloqueLibre
      <4> QED
        BY <4>1, Constantes DEF TypeOK
    <3> QED
      BY <1>3, <2>2, <3>1, <3>2, <3>3 DEF Agrandar, TypeOK
  <2> QED
    BY <2>1, <2>2
<1>4. CASE TerminarBucle
  BY <1>4 DEF TerminarBucle, TypeOK, disco, EnCurso
<1> QED
  BY <1>1, <1>2, <1>3, <1>4

LEMMA EscribirTipos ==
    ASSUME TypeOK, Escribir
    PROVE  TypeOK'
<1>1. CASE Muere /\ UNCHANGED disco
  BY <1>1, MorirTipos DEF disco, TypeOK
<1>2. CASE ~(Muere /\ UNCHANGED disco)
  <2>1. palabra' \in [Palabras -> Bloque \cup {Dato}]
    <3>1. DOMAIN palabra' = Palabras /\ palabra' = [w \in Palabras |-> palabra'[w]]
      BY <1>2 DEF Escribir
    <3>2. \A w \in Palabras : palabra'[w] \in {Dato, palabra[w]}
      BY <1>2 DEF Escribir
    <3> QED
      BY <3>1, <3>2 DEF TypeOK
  <2>2. CASE Muere /\ UNCHANGED <<fcb, bitmap>>
    BY <2>1, <2>2, MorirTipos DEF TypeOK
  <2>3. CASE estado' = "responde" /\ UNCHANGED <<fcb, bitmap, ped, cfg, i,
                                                 porCrear, red>>
    BY <2>1, <2>3 DEF TypeOK, EnCurso
  <2> QED
    BY <1>2, <2>2, <2>3 DEF Escribir
<1> QED
  BY <1>1, <1>2

LEMMA EsperarTipos ==
    ASSUME TypeOK, RecibirPid \/ RecibirDatos \/ EnviaPid \/ MemoriaResponde
                   \/ MuereOtro \/ ConexionCortada
    PROVE  TypeOK'
<1>1. CASE ConexionCortada
  BY <1>1, MorirTipos DEF ConexionCortada, TypeOK, disco
<1>2. CASE MuereOtro
  BY <1>2 DEF MuereOtro, TypeOK, disco
<1>3. CASE RecibirPid \/ RecibirDatos \/ EnviaPid \/ MemoriaResponde
  BY <1>3 DEF RecibirPid, RecibirDatos, EnviaPid, MemoriaResponde, TypeOK,
              EnCurso, disco
<1> QED
  BY <1>1, <1>2, <1>3

LEMMA PasoTipos == TypeOK /\ [Next]_vars => TypeOK'
<1> SUFFICES ASSUME TypeOK, [Next]_vars PROVE TypeOK'
  OBVIOUS
<1>1. CASE Pedidos
  <2>1. ASSUME NEW op \in Operaciones, NEW f \in Archivo, NEW n \in Tamanios,
               NEW p \in Posiciones \cup {0}, Recibir(op, f, n, p)
        PROVE  TypeOK'
    <3>1. ped' \in [op : Operaciones, f : Archivo, n : Tamanios,
                    p : Posiciones \cup {0}]
      BY <2>1 DEF Recibir
    <3> QED
      BY <2>1, <3>1 DEF Recibir, TypeOK, disco, EnCurso
  <2> QED
    BY <1>1, <2>1, Constantes DEF Pedidos, Operaciones
<1>2. CASE Abrir
  BY <1>2, OlvidarTipos DEF Abrir, TypeOK, disco
<1>3. CASE ResponderPedido
  BY <1>3, OlvidarTipos DEF ResponderPedido, TypeOK, disco
<1>4. CASE Leer \/ CaerFs
  BY <1>4, MorirTipos DEF Leer, CaerFs, TypeOK, disco
<1>5. CASE UNCHANGED vars
  BY <1>5 DEF vars, disco, TypeOK
<1> QED
  BY <1>1, <1>2, <1>3, <1>4, <1>5, ArranqueTipos, CrearTipos, BucleTipos,
     EscribirTipos, EsperarTipos DEF Next, Servir, Otros

(* The types of the filesystem's state, on disk and in memory. *)
THEOREM TiposDeArchivos == Spec => []TypeOK
  BY InitTipos, PasoTipos, PTL DEF Spec

-----------------------------------------------------------------------------
LEMMA InitMarcha == Init => Marcha
  BY DEF Init, Marcha, MarchaCrear, MarchaTruncar, EnCurso, EnBucle

LEMMA MorirMarcha ==
    ASSUME Muere PROVE Marcha'
  BY DEF Muere, Marcha, MarchaCrear, MarchaTruncar, EnCurso, EnBucle

LEMMA BucleMarcha ==
    ASSUME TypeOK, Marcha, TruncarLee \/ Achicar \/ Agrandar \/ TerminarBucle
    PROVE  Marcha'
<1> USE DEF Marcha, MarchaCrear, MarchaTruncar, EnCurso, EnBucle
<1>1. CASE TruncarLee
  <2>1. CASE Muere
    BY <2>1, MorirMarcha
  <2>2. CASE ~Muere
    BY <1>1, <2>2 DEF TruncarLee, disco, Atiende
  <2> QED
    BY <2>1, <2>2
<1>2. CASE Achicar
  <2>1. CASE Muere
    BY <2>1, MorirMarcha
  <2>2. CASE ~Muere
    BY <1>2, <2>2 DEF Achicar
  <2> QED
    BY <2>1, <2>2
<1>3. CASE Agrandar
  <2>1. CASE Muere
    BY <2>1, MorirMarcha
  <2>2. CASE ~Muere
    <3>1. cfg'.tam = cfg.tam
      BY <1>3, <2>2 DEF Agrandar, TypeOK, TipoFcb
    <3> QED
      BY <1>3, <2>2, <3>1 DEF Agrandar
  <2> QED
    BY <2>1, <2>2
<1>4. CASE TerminarBucle
  BY <1>4 DEF TerminarBucle, disco
<1> QED
  BY <1>1, <1>2, <1>3, <1>4

LEMMA GuardarMarcha ==
    ASSUME TypeOK, Marcha, CrearFcbAbre \/ CrearFcbGuarda \/ GuardarAbre
                           \/ GuardarEscribe
    PROVE  Marcha'
<1> USE DEF Marcha, MarchaCrear, MarchaTruncar, EnCurso, EnBucle
<1> ped.f \in Archivo /\ fcb \in [Archivo -> TipoFcb]
  BY DEF TypeOK
<1>1. CASE CrearFcbAbre
  <2>1. fcb[ped.f].estado = "ausente"
    BY <1>1 DEF CrearFcbAbre, Atiende
  <2>2. fcb'[ped.f].estado = "vacio"
    BY <1>1, <2>1 DEF CrearFcbAbre, Vacio, SinFcb
  <2> QED
    BY <1>1, <2>2 DEF CrearFcbAbre, Atiende
<1>2. CASE CrearFcbGuarda
  BY <1>2 DEF CrearFcbGuarda
<1>3. CASE GuardarAbre
  <2>1. fcb'[ped.f].estado = "vacio"
    BY <1>3 DEF GuardarAbre, Vacio, SinFcb
  <2> QED
    BY <1>3, <2>1 DEF GuardarAbre
<1>4. CASE GuardarEscribe
  BY <1>4 DEF GuardarEscribe
<1> QED
  BY <1>1, <1>2, <1>3, <1>4

LEMMA PasoMarcha == TypeOK /\ Marcha /\ [Next]_vars => Marcha'
<1> SUFFICES ASSUME TypeOK, Marcha, [Next]_vars PROVE Marcha'
  OBVIOUS
<1> USE DEF Marcha, MarchaCrear, MarchaTruncar, EnCurso, EnBucle
<1>1. CASE Pedidos
  <2>1. ASSUME NEW op, NEW f \in Archivo, NEW n, NEW p,
               Recibir(op, f, n, p), op = "CREATE" => n = 0
        PROVE  Marcha'
    BY <2>1 DEF Recibir, disco, ConPid
  <2> QED
    BY <1>1, <2>1 DEF Pedidos
<1>2. CASE Arrancar \/ TerminarLectura
  BY <1>2 DEF Arrancar, TerminarLectura, disco
<1>3. ASSUME NEW f \in Archivo, LeerFcb(f) PROVE Marcha'
  <2>1. CASE Muere
    BY <2>1, MorirMarcha
  <2>2. CASE ~Muere
    BY <1>3, <2>2 DEF LeerFcb
  <2> QED
    BY <2>1, <2>2
<1>4. CASE Abrir
  <2>1. \A f \in porCrear' : fcb'[f].estado = "ausente"
    BY <1>4 DEF Abrir, disco
  <2> QED
    BY <1>4, <2>1 DEF Abrir, disco, Atiende
<1>5. CASE ResponderPedido
  BY <1>5 DEF ResponderPedido, disco
<1>6. CASE Escribir
  <2>1. CASE Muere
    BY <2>1, MorirMarcha
  <2>2. CASE ~Muere
    BY <1>6, <2>2 DEF Escribir, Atiende
  <2> QED
    BY <2>1, <2>2
<1>7. CASE Leer \/ CaerFs
  BY <1>7, MorirMarcha DEF Leer, CaerFs
<1>8. CASE UNCHANGED vars
  BY <1>8 DEF vars, disco
<1>9. CASE RecibirPid \/ RecibirDatos \/ EnviaPid \/ MemoriaResponde
           \/ MuereOtro
  BY <1>9 DEF RecibirPid, RecibirDatos, EnviaPid, MemoriaResponde, MuereOtro,
              disco, ConPid
<1>10. CASE ConexionCortada
  BY <1>10, MorirMarcha DEF ConexionCortada
<1> QED
  BY <1>1, <1>2, <1>3, <1>4, <1>5, <1>6, <1>7, <1>8, <1>9, <1>10, BucleMarcha,
     GuardarMarcha DEF Next, Servir, Otros

-----------------------------------------------------------------------------
(* The step simulation.  First the steps the table does not see. *)
LEMMA VistaIgual ==
    ASSUME \A f \in Archivo : TablaDe(f)' = TablaDe(f)
    PROVE  TablaVista' = TablaVista
  BY DEF TablaVista

LEMMA MorirTabla ==
    ASSUME TypeOK, Marcha, Muere, UNCHANGED fcb
    PROVE  Tabla!Caer
<1> USE DEF Marcha, MarchaCrear, MarchaTruncar, EnCurso
<1> ped.f \in Archivo /\ fcb \in [Archivo -> TipoFcb]
  BY DEF TypeOK
<1>1. PedidoDe' = {}
  BY DEF PedidoDe, Muere
<1>2. CASE estado \in {"crea", "escribe"}
  <2> DEFINE p == [tipo |-> ped.op, f |-> ped.f, tam |-> ped.n,
                   hecho |-> estado = "responde"]
  <2>1. p \in PedidoDe /\ ~p.hecho /\ p.f = ped.f
    BY <1>2 DEF PedidoDe
  <2>2. \A f \in Archivo : TablaDe(f)' = IF f = ped.f THEN Tabla!Ilegible
                                         ELSE TablaDe(f)
    BY <1>2 DEF TablaDe, Muere, Fila, Tabla!Ilegible
  <2>3. TablaVista' = [TablaVista EXCEPT ![p.f] = Tabla!Ilegible]
    BY <2>1, <2>2 DEF TablaVista
  <2> QED
    BY <1>1, <2>1, <2>3 DEF Tabla!Caer
<1>3. CASE estado \notin {"crea", "escribe"}
  <2>1. \A f \in Archivo : TablaDe(f)' = TablaDe(f)
    BY <1>3 DEF TablaDe, Muere
  <2> QED
    BY <1>1, <2>1, VistaIgual DEF Tabla!Caer
<1> QED
  BY <1>2, <1>3

(* A request is carried out when its FCB has been saved. *)
LEMMA HacerTabla ==
    ASSUME TypeOK, Marcha, CrearFcbGuarda \/ GuardarEscribe
    PROVE  \E p \in PedidoDe : Tabla!Hacer(p)
<1> USE DEF Marcha, MarchaCrear, MarchaTruncar, EnCurso
<1> ped.f \in Archivo /\ fcb \in [Archivo -> TipoFcb]
  BY DEF TypeOK
<1> DEFINE p == [tipo |-> ped.op, f |-> ped.f, tam |-> ped.n, hecho |-> FALSE]
<1>1. /\ estado \in {"crea", "escribe"} /\ estado' = "responde" /\ ped' = ped
      /\ ped.op = IF estado = "crea" THEN "CREATE" ELSE "TRUNCATE"
  BY DEF CrearFcbGuarda, GuardarEscribe
<1>2. PedidoDe = {p} /\ PedidoDe' = {[p EXCEPT !.hecho = TRUE]}
  <2>1. (estado = "responde") = FALSE /\ (estado' = "responde") = TRUE
    BY <1>1
  <2>2. PedidoDe = {p}
    BY <1>1, <2>1 DEF PedidoDe
  <2>3. PedidoDe' = {[tipo |-> ped.op, f |-> ped.f, tam |-> ped.n,
                      hecho |-> TRUE]}
    BY <1>1, <2>1 DEF PedidoDe
  <2> QED
    BY <2>2, <2>3
<1>3. /\ fcb'[ped.f].estado = "completo" /\ fcb'[ped.f].tam = ped.n
      /\ \A f \in Archivo \ {ped.f} : fcb'[f] = fcb[f]
  BY DEF CrearFcbGuarda, GuardarEscribe, Fcb
<1>4. \A f \in Archivo : TablaDe(f)' = IF f = ped.f
                                       THEN Tabla!Completo(ped.n)
                                       ELSE TablaDe(f)
  BY <1>1, <1>3 DEF TablaDe, Fila, Tabla!Completo
<1>5. TablaVista' = [TablaVista EXCEPT ![p.f] = Tabla!Completo(p.tam)]
  BY <1>4 DEF TablaVista
<1>6. TablaVista[p.f].estado = IF p.tipo = "CREATE" THEN "ausente"
                               ELSE "completo"
  BY <1>1 DEF TablaVista, TablaDe, Fila
<1> QED
  BY <1>2, <1>5, <1>6 DEF Tabla!Hacer

LEMMA PedirTabla ==
    ASSUME TypeOK, Marcha, Pedidos
    PROVE  [Tabla!NextTabla]_(Tabla!varsTabla)
<1> USE DEF Marcha, MarchaCrear, MarchaTruncar, EnCurso
<1>1. ASSUME NEW op, NEW f \in Archivo, NEW n \in Tamanios, NEW p,
             Recibir(op, f, n, p), op = "CREATE" => n = 0
      PROVE  [Tabla!NextTabla]_(Tabla!varsTabla)
  <2>1. TablaVista' = TablaVista
    <3>1. \A g \in Archivo : TablaDe(g)' = TablaDe(g)
      BY <1>1 DEF Recibir, TablaDe, disco
    <3> QED
      BY <3>1, VistaIgual
  <2>2. PedidoDe = {}
    BY <1>1 DEF PedidoDe, Recibir
  <2>3. CASE op \in {"CREATE", "TRUNCATE"}
    <3>1. PedidoDe' = {[tipo |-> op, f |-> f, tam |-> n, hecho |-> FALSE]}
      BY <1>1, <2>3 DEF PedidoDe, Recibir
    <3>2. Tabla!Pedir(op, f, n)
      BY <2>1, <2>2, <3>1 DEF Tabla!Pedir
    <3> QED
      BY <1>1, <2>3, <3>2 DEF Tabla!NextTabla
  <2>4. CASE op \notin {"CREATE", "TRUNCATE"}
    <3>1. PedidoDe' = {}
      BY <1>1, <2>4 DEF PedidoDe, Recibir
    <3> QED
      BY <2>1, <2>2, <3>1 DEF Tabla!varsTabla
  <2> QED
    BY <2>3, <2>4
<1> QED
  BY <1>1, Constantes DEF Pedidos

(* What the process does without the table changing. *)
LEMMA CallarTabla ==
    ASSUME TypeOK, Marcha,
           \/ Arrancar \/ TerminarLectura \/ Abrir \/ CrearFcbAbre
           \/ TerminarBucle \/ GuardarAbre \/ UNCHANGED vars
           \/ RecibirPid \/ RecibirDatos \/ Otros \/ MuereOtro
           \/ /\ (\E f \in Archivo : LeerFcb(f)) \/ TruncarLee \/ Achicar
                 \/ Agrandar \/ Escribir
              /\ ~Muere
    PROVE  UNCHANGED Tabla!varsTabla
<1> USE DEF Marcha, MarchaCrear, MarchaTruncar, EnCurso, EnBucle
<1> ped.f \in Archivo /\ fcb \in [Archivo -> TipoFcb]
  BY DEF TypeOK
<1> SUFFICES PedidoDe' = PedidoDe /\ \A f \in Archivo : TablaDe(f)' = TablaDe(f)
  BY VistaIgual DEF Tabla!varsTabla
<1>1. CASE Arrancar \/ TerminarLectura \/ Abrir \/ TerminarBucle
  BY <1>1 DEF Arrancar, TerminarLectura, Abrir, TerminarBucle, disco,
              PedidoDe, TablaDe, Atiende
<1>2. CASE CrearFcbAbre
  <2>1. fcb[ped.f].estado = "ausente"
    BY <1>2 DEF CrearFcbAbre, Atiende
  <2>2. \A f \in Archivo : f # ped.f => fcb'[f] = fcb[f]
    BY <1>2 DEF CrearFcbAbre
  <2> QED
    BY <1>2, <2>1, <2>2 DEF CrearFcbAbre, PedidoDe, TablaDe, Atiende, Fila
<1>3. CASE GuardarAbre
  <2>1. \A f \in Archivo : f # ped.f => fcb'[f] = fcb[f]
    BY <1>3 DEF GuardarAbre
  <2> QED
    BY <1>3, <2>1 DEF GuardarAbre, PedidoDe, TablaDe, Fila
<1>4. ASSUME NEW f \in Archivo, LeerFcb(f), ~Muere
      PROVE  PedidoDe' = PedidoDe /\ \A g \in Archivo : TablaDe(g)' = TablaDe(g)
  BY <1>4 DEF LeerFcb, PedidoDe, TablaDe
<1>5. CASE TruncarLee /\ ~Muere
  BY <1>5 DEF TruncarLee, PedidoDe, TablaDe, disco, Atiende
<1>6. CASE Achicar /\ ~Muere
  BY <1>6 DEF Achicar, PedidoDe, TablaDe
<1>7. CASE Agrandar /\ ~Muere
  BY <1>7 DEF Agrandar, PedidoDe, TablaDe
<1>8. CASE Escribir /\ ~Muere
  BY <1>8 DEF Escribir, PedidoDe, TablaDe, Atiende
<1>9. CASE UNCHANGED vars
  BY <1>9 DEF vars, disco, PedidoDe, TablaDe
<1>10. CASE RecibirPid \/ RecibirDatos \/ Otros \/ MuereOtro
  BY <1>10 DEF RecibirPid, RecibirDatos, Otros, EnviaPid, MemoriaResponde,
               MuereOtro, disco, PedidoDe, TablaDe
<1> QED
  BY <1>1, <1>2, <1>3, <1>4, <1>5, <1>6, <1>7, <1>8, <1>9, <1>10

LEMMA ResponderTabla ==
    ASSUME TypeOK, Marcha, ResponderPedido
    PROVE  [Tabla!NextTabla]_(Tabla!varsTabla)
<1> USE DEF Marcha, MarchaCrear, MarchaTruncar, EnCurso
<1>1. TablaVista' = TablaVista
  <2>1. \A f \in Archivo : TablaDe(f)' = TablaDe(f)
    BY DEF ResponderPedido, TablaDe, disco
  <2> QED
    BY <2>1, VistaIgual
<1>2. PedidoDe' = {}
  BY DEF ResponderPedido, PedidoDe
<1>3. CASE ped.op = "WRITE"
  <2>1. PedidoDe = {}
    BY <1>3 DEF PedidoDe
  <2> QED
    BY <1>1, <1>2, <2>1 DEF Tabla!varsTabla
<1>4. CASE ped.op \in {"CREATE", "TRUNCATE"}
  <2>1. \E p \in PedidoDe : p.hecho
    BY <1>4 DEF PedidoDe, ResponderPedido
  <2>2. \E p \in PedidoDe : Tabla!Responder(p)
    BY <1>1, <1>2, <2>1 DEF Tabla!Responder
  <2> QED
    BY <2>2 DEF Tabla!NextTabla
<1> QED
  BY <1>3, <1>4 DEF ResponderPedido

LEMMA PasoTabla ==
    TypeOK /\ Marcha /\ [Next]_vars => [Tabla!NextTabla]_(Tabla!varsTabla)
<1> SUFFICES ASSUME TypeOK, Marcha, [Next]_vars
             PROVE  [Tabla!NextTabla]_(Tabla!varsTabla)
  OBVIOUS
<1>1. CASE Muere /\ UNCHANGED fcb
  BY <1>1, MorirTabla DEF Tabla!NextTabla
<1>2. CASE CrearFcbGuarda \/ GuardarEscribe
  BY <1>2, HacerTabla DEF Tabla!NextTabla
<1>3. CASE ~(Muere /\ UNCHANGED fcb) /\ ~(CrearFcbGuarda \/ GuardarEscribe)
  <2>1. CASE Leer \/ CaerFs \/ ConexionCortada
    BY <1>3, <2>1 DEF Leer, CaerFs, ConexionCortada, disco
  <2>2. ASSUME Muere, (\E f \in Archivo : LeerFcb(f)) \/ TruncarLee \/ Achicar
                      \/ Agrandar \/ Escribir
        PROVE  UNCHANGED fcb
    BY <2>2 DEF LeerFcb, TruncarLee, Achicar, Agrandar, Escribir, disco
  <2> QED
    BY <1>3, <2>1, <2>2, CallarTabla, PedirTabla, ResponderTabla
       DEF Next, Servir
<1> QED
  BY <1>1, <1>2, <1>3

LEMMA InitTabla == Init => Tabla!InitTabla
<1> SUFFICES ASSUME Init PROVE Tabla!InitTabla
  OBVIOUS
<1>1. PedidoDe = {}
  BY DEF Init, PedidoDe, EnCurso
<1>2. ASSUME NEW f \in Archivo
      PROVE  TablaDe(f) \in {Tabla!Ausente} \cup
                            {Tabla!Completo(n) : n \in Tamanios}
  BY DEF Init, TablaDe, SinFcb, Fcb, Fila, Tabla!Ausente, Tabla!Completo
<1> QED
  BY <1>1, <1>2 DEF Tabla!InitTabla, TablaVista

(* The filesystem keeps its promise over crashes: each behaviour of Archivos,
   seen through the table, is one of TablaFcb. *)
THEOREM CumpleSiempre == Spec => CumpleLaTabla
<1>1. Spec => [](TypeOK /\ Marcha)
  BY InitTipos, PasoTipos, InitMarcha, PasoMarcha, PTL DEF Spec
<1>2. [Next]_vars /\ TypeOK /\ Marcha => [Tabla!NextTabla]_(Tabla!varsTabla)
  BY PasoTabla
<1> QED
  BY <1>1, <1>2, InitTabla, PTL DEF Spec, CumpleLaTabla, Tabla!SpecTabla
=============================================================================
