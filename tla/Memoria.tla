------------------------------- MODULE Memoria -------------------------------
(***************************************************************************)
(* The segments of memoria and the kernel's requests for them: memoria/src *)
(* memoria_solicitudes.c (thread peticiones_kernel) and segmentacion.c,    *)
(* with the kernel threads that write on the one socket to memoria, with   *)
(* no mutex: execute_pcb and a nuevo_pcb_new per console.                  *)
(*                                                                         *)
(* A message is a header and a buffer, one send; a buffer is empty or      *)
(* holds one int.  The system starts after the handshakes, with segment 0  *)
(* in place (segmento_zero).  The kernel sends no I_EXIT, and dies of its  *)
(* own DELETE_SEGMENT, so segments are only ever created.  When one of the *)
(* two processes dies the other's next send or recv ends it too.           *)
(***************************************************************************)
EXTENDS Integers, Sequences, FiniteSets

CONSTANTS Pid,           \* pids of the processes whose consoles connect
          TamMemoria,    \* TAM_MEMORIA
          TamSegmento0,  \* TAM_SEGMENTO_0
          CantSegmentos, \* CANT_SEGMENTOS
          Tamanios, Ids  \* sizes and ids the programs' CREATE_SEGMENT give

ASSUME MemoriaAssumption ==
  /\ TamMemoria \in Nat /\ TamSegmento0 \in Nat /\ TamSegmento0 <= TamMemoria
  /\ TamMemoria > 0 /\ CantSegmentos \in Nat
  /\ Tamanios \subseteq Nat /\ Ids \subseteq Nat /\ Pid \subseteq Nat \ {0}

VARIABLES
  ocupados,   \* set bits of bitMapSegment, bit TamMemoria included
  tabla,      \* tablaSegmentos
  mem,        \* label of peticiones_kernel
  recibido,   \* the ints it has received of the current request
  canal,      \* kernel -> memoria
  respuestas, \* memoria -> kernel
  consola,    \* label of each nuevo_pcb_new
  en, pedido, \* label of execute_pcb, and the request it is making
  tablaPcb,   \* tabla_de_segmentos of each PCB, after segment 0
  kernelVivo  \* FALSE: execute_pcb dereferenced a bad pointer

memVars    == <<ocupados, tabla, mem, recibido>>
kernelVars == <<consola, en, pedido, tablaPcb, kernelVivo>>
vars       == <<memVars, canal, respuestas, kernelVars>>

Vacio == << >>
Msg(h, d)    == [h |-> h, d |-> d]
Manda(h, d)  == canal' = Append(canal, Msg(h, d))
NoPedido     == [pid |-> 0, limite |-> 0, id |-> 0]

-----------------------------------------------------------------------------
(* segmentacion.c.  buscarSegmentoDisponible: the maximal runs of clear    *)
(* bits, plus an empty one at the end when the last byte is taken.         *)
Libre(b)    == b \in 0 .. TamMemoria - 1 /\ b \notin ocupados
Inicios     == {b \in 0 .. TamMemoria - 1 : Libre(b) /\ ~Libre(b - 1)}
               \union {b \in {TamMemoria} : ~Libre(b - 1)}
FinDesde(b) == CHOOSE f \in b .. TamMemoria :
                 ~Libre(f) /\ \A i \in b .. f - 1 : Libre(i)
Huecos      == {[base |-> b, limite |-> FinDesde(b) - b] : b \in Inicios}

(* puedenGuardar.                                                          *)
Posibles(n) == {h \in Huecos : h.limite >= n}

(* ocuparBitMap: the last index of the loop is base + limite, so a segment *)
(* takes one more bit than it has bytes.                                   *)
NoOcupar(b, n)     == ocupados                        \* mutant: not called
OcuparJusto(b, n)  == ocupados \union b .. b + n - 1   \* mutant: i < base + limite
OcuparDesdeUno(b, n) == ocupados \union b + 1 .. b + n \* mutant: i = base + 1
OcuparDeMas(b, n)  == ocupados \union b .. b + n + 1   \* mutant: i <= base + limite + 1
OcuparBitMap(b, n) == ocupados \union b .. b + n

(* tablaSegmentoCrear.  tablaConPid maps instead of filtering: the "table  *)
(* of the pid" is as long as the whole table.                              *)
Segmento(id, b, n, p) ==
  [id |-> id, base |-> b, limite |-> n, pid |-> p,
   idSegPcb |-> IF tabla = << >> THEN 0 ELSE Len(tabla) + 1]

-----------------------------------------------------------------------------
Init ==
  /\ ocupados = 0 .. TamSegmento0
  /\ tabla = << [id |-> 0, base |-> 0, limite |-> TamSegmento0, pid |-> 0,
                 idSegPcb |-> 0] >>
  /\ mem = "pedido" /\ recibido = << >>
  /\ canal = << >> /\ respuestas = << >>
  /\ consola = [p \in Pid |-> "conecta"]
  /\ en = "libre" /\ pedido = NoPedido
  /\ tablaPcb = [p \in Pid |-> << >>]
  /\ kernelVivo = TRUE

-----------------------------------------------------------------------------
(* nuevo_pcb_new: the two messages of CREAR_PROCESO, then push and post.   *)
AvisaProceso(p) ==
  /\ consola[p] = "conecta"
  /\ consola' = [consola EXCEPT ![p] = "avisado"]
  /\ Manda("CREAR_PROCESO", Vacio)
  /\ UNCHANGED <<memVars, respuestas, en, pedido, tablaPcb, kernelVivo>>

MandaPid(p) ==
  /\ consola[p] = "avisado"
  /\ consola' = [consola EXCEPT ![p] = "fin"]
  /\ Manda("CREAR_PROCESO", <<p>>)
  /\ UNCHANGED <<memVars, respuestas, en, pedido, tablaPcb, kernelVivo>>

-----------------------------------------------------------------------------
(* execute_pcb, case I_CREATE_SEGMENT, of a process that is past NEW.      *)
(* tablaPcb leaves segment 0 out.                                          *)
Alcanzado(p) == Len(tablaPcb[p]) + 1 = CantSegmentos

PideSegmento(p) ==
  /\ en = "libre" /\ consola[p] = "fin" /\ ~Alcanzado(p)
  /\ \E n \in Tamanios, i \in Ids :
       pedido' = [pid |-> p, limite |-> n, id |-> i]
  /\ en' = "mandaPid"
  /\ Manda("I_CREATE_SEGMENT", Vacio)
  /\ UNCHANGED <<memVars, respuestas, consola, tablaPcb, kernelVivo>>

(* With the table full the process goes to estadoEnExit, which never comes *)
(* back.                                                                   *)
MaximoAlcanzado(p) ==
  /\ en = "libre" /\ consola[p] = "fin" /\ Alcanzado(p)
  /\ en' = "enExit"
  /\ UNCHANGED <<memVars, canal, respuestas, consola, pedido, tablaPcb,
                 kernelVivo>>

MandaDatosAlReves ==       \* mutant: the size goes before the pid
  /\ \/ en = "mandaPid" /\ en' = "mandaTamanio"
        /\ Manda("header_resultado", <<pedido.limite>>)
     \/ en = "mandaTamanio" /\ en' = "mandaId"
        /\ Manda("header_resultado", <<pedido.pid>>)
     \/ en = "mandaId" /\ en' = "esperaHeader"
        /\ Manda("header_resultado", <<pedido.id>>)
  /\ UNCHANGED <<memVars, respuestas, consola, pedido, tablaPcb, kernelVivo>>
MandaDatos ==
  /\ \/ en = "mandaPid" /\ en' = "mandaTamanio"
        /\ Manda("header_resultado", <<pedido.pid>>)
     \/ en = "mandaTamanio" /\ en' = "mandaId"
        /\ Manda("header_resultado", <<pedido.limite>>)
     \/ en = "mandaId" /\ en' = "esperaHeader"
        /\ Manda("header_resultado", <<pedido.id>>)
  /\ UNCHANGED <<memVars, respuestas, consola, pedido, tablaPcb, kernelVivo>>

(* consultar_memoria_create stores through a pcb it was not given.         *)
RecibeHeader ==
  /\ en = "esperaHeader" /\ respuestas # << >>
  /\ respuestas' = Tail(respuestas)
  /\ \/ Head(respuestas).h = "header_general" /\ en' = "esperaSegmento"
        /\ UNCHANGED <<canal, kernelVivo>>
     \/ Head(respuestas).h = "header_general" /\ kernelVivo' = FALSE
        /\ UNCHANGED <<canal, en>>
     \/ Head(respuestas).h = "header_compactacion" /\ en' = "compacta"
        /\ Manda("hs_aux", Vacio) /\ UNCHANGED kernelVivo
  /\ UNCHANGED <<memVars, consola, pedido, tablaPcb>>

RecibeSegmento ==
  /\ en = "esperaSegmento" /\ respuestas # << >>
  /\ respuestas' = Tail(respuestas)
  /\ tablaPcb' = [tablaPcb EXCEPT ![pedido.pid] =
                    @ \o Head(respuestas).d]
  /\ en' = "libre" /\ pedido' = NoPedido
  /\ UNCHANGED <<memVars, canal, consola, kernelVivo>>

(* DELETE_SEGMENT: the header goes out, then buffer_pack takes the id as   *)
(* an address.                                                             *)
BorraSegmento(p) ==
  /\ en = "libre" /\ consola[p] = "fin"
  /\ Manda("I_DELETE_SEGMENT", Vacio)
  /\ kernelVivo' = FALSE
  /\ UNCHANGED <<memVars, respuestas, consola, en, pedido, tablaPcb>>

-----------------------------------------------------------------------------
(* peticiones_kernel.  A header other than these two is "instruccion       *)
(* invalida" and the loop goes on.                                         *)
LeePedido ==
  /\ mem = "pedido" /\ canal # << >>
  /\ canal' = Tail(canal)
  /\ mem' = CASE Head(canal).h = "I_CREATE_SEGMENT" -> "pid"
              [] Head(canal).h = "CREAR_PROCESO"    -> "proceso"
              [] OTHER                              -> "pedido"
  /\ UNCHANGED <<ocupados, tabla, recibido, respuestas, kernelVars>>

(* The header of the message is not looked at.  buffer_unpack of an empty  *)
(* buffer is exit(-1).                                                     *)
Tras(m) == CASE m = "pid"     -> "tamanio" [] m = "tamanio" -> "id"
             [] m = "id"      -> "crea"    [] m = "proceso" -> "pedido"
LeeDatoSinMirar ==       \* mutant: an empty buffer is taken for an int
  /\ mem \in {"pid", "tamanio", "id", "proceso"} /\ canal # << >>
  /\ canal' = Tail(canal)
  /\ mem' = Tras(mem)
  /\ recibido' = IF mem = "proceso" THEN << >>
                 ELSE recibido \o (IF Head(canal).d = Vacio THEN <<0>>
                                   ELSE Head(canal).d)
  /\ UNCHANGED <<ocupados, tabla, respuestas, kernelVars>>
LeeDato ==
  /\ mem \in {"pid", "tamanio", "id", "proceso"} /\ canal # << >>
  /\ canal' = Tail(canal)
  /\ IF Head(canal).d = Vacio
     THEN mem' = "bufferVacio" /\ UNCHANGED recibido
     ELSE /\ mem' = Tras(mem)
          /\ recibido' = IF mem = "proceso" THEN << >>
                         ELSE recibido \o Head(canal).d
  /\ UNCHANGED <<ocupados, tabla, respuestas, kernelVars>>

(* crear_nuevo_segmento in the only hole where the size fits, and the two  *)
(* answers.  With several, elegirSegunCriterio returns no value at all.    *)
CreaSegmento ==
  /\ mem = "crea" /\ Posibles(recibido[2]) # {}
  /\ recibido' = << >>
  /\ IF \E h \in Posibles(recibido[2]) : Posibles(recibido[2]) = {h}
     THEN \E h \in Posibles(recibido[2]) :
            LET s == Segmento(recibido[3], h.base, recibido[2], recibido[1])
            IN /\ ocupados' = OcuparBitMap(h.base, recibido[2])
               /\ tabla' = Append(tabla, s)
               /\ respuestas' = respuestas \o
                    << Msg("header_general", Vacio), Msg("header_general", <<s>>) >>
               /\ mem' = "pedido"
     ELSE mem' = "elige" /\ UNCHANGED <<ocupados, tabla, respuestas>>
  /\ UNCHANGED <<canal, kernelVars>>

(* buscarSegmentoSegunTamanio with no hole for the size.                   *)
PideCompactar ==
  /\ mem = "crea" /\ Posibles(recibido[2]) = {}
  /\ mem' = "compacta"
  /\ respuestas' = Append(respuestas, Msg("header_compactacion", Vacio))
  /\ UNCHANGED <<ocupados, tabla, recibido, canal, kernelVars>>

(* Any header but hs_aux is exit(-1); after hs_aux comes compact, which    *)
(* frees every entry of the table twice, and a buffer_pack of the size as  *)
(* an address: memoria ends either way.                                    *)
Compacta ==
  /\ mem = "compacta" /\ canal # << >>
  /\ canal' = Tail(canal)
  /\ mem' = IF Head(canal).h = "hs_aux" THEN "compactada" ELSE "noEsHsAux"
  /\ UNCHANGED <<ocupados, tabla, recibido, respuestas, kernelVars>>

-----------------------------------------------------------------------------
Consola    == \E p \in Pid : AvisaProceso(p) \/ MandaPid(p)
ExecutePcb == \/ \E p \in Pid : \/ PideSegmento(p) \/ MaximoAlcanzado(p)
                                \/ BorraSegmento(p)
              \/ MandaDatos \/ RecibeHeader \/ RecibeSegmento
PeticionesKernel == \/ LeePedido \/ LeeDato \/ CreaSegmento \/ PideCompactar
                    \/ Compacta

Muertes == {"bufferVacio", "elige", "compactada", "noEsHsAux"}
Vivos   == kernelVivo /\ mem \notin Muertes

Next == Vivos /\ (Consola \/ ExecutePcb \/ PeticionesKernel)

Spec == Init /\ [][Next]_vars

-----------------------------------------------------------------------------
Cabeceras == {"CREAR_PROCESO", "I_CREATE_SEGMENT", "I_DELETE_SEGMENT",
              "header_resultado", "hs_aux"}

Entrada == [id : Nat, base : Nat, limite : Nat, pid : Nat, idSegPcb : Nat]

TypeOK ==
  /\ ocupados \subseteq 0 .. TamMemoria
  /\ tabla \in Seq(Entrada)
  /\ tablaPcb \in [Pid -> Seq(Entrada)]
  /\ respuestas \in Seq([h : {"header_general", "header_compactacion"},
                        d : Seq(Entrada)])
  /\ mem \in {"pedido", "pid", "tamanio", "id", "proceso", "crea", "compacta"}
             \union Muertes
  /\ recibido \in Seq(Nat)
  /\ canal \in Seq([h : Cabeceras, d : Seq(Nat)])
  /\ \A i \in DOMAIN canal : Len(canal[i].d) <= 1
  /\ pedido \in [pid : Nat, limite : Nat, id : Nat]
  /\ consola \in [Pid -> {"conecta", "avisado", "fin"}]
  /\ en \in {"libre", "mandaPid", "mandaTamanio", "mandaId", "esperaHeader",
             "esperaSegmento", "compacta", "enExit"}
  /\ kernelVivo \in BOOLEAN

(* Segments share no byte and lie in the memory (create_segmento), with    *)
(* the bitmap one bit per segment ahead of the bytes.                      *)
Bytes(s) == s.base .. s.base + s.limite - 1
SegmentosDisjuntos ==
  /\ \A i, j \in DOMAIN tabla :
       i # j => Bytes(tabla[i]) \intersect Bytes(tabla[j]) = {}
  /\ \A i \in DOMAIN tabla : tabla[i].base + tabla[i].limite <= TamMemoria

(* The bitmap is what the table says: each segment's bytes and the bit     *)
(* after them, so no free byte is lost and none is given twice.            *)
MapaExacto ==
  ocupados = UNION {s.base .. s.base + s.limite :
                    s \in {tabla[i] : i \in DOMAIN tabla}}

(* elegirSegunCriterio, which falls off its end without a return, is never *)
(* reached: there is always one hole, whatever the algorithm configured.   *)
NuncaElige == mem # "elige"

(* The kernel's copy of a process's segments is memoria's, in the order    *)
(* memoria made them, up to a segment whose answer is on its way, which is *)
(* newer than all of them (execute_pcb:331, tablaSegmentoCrear).           *)
Elementos(q) == {q[i] : i \in DOMAIN q}
EnVuelo == {m.d[1] : m \in {x \in Elementos(respuestas) : x.d # Vacio}}
TablasCoinciden ==
  \A p \in Pid :
    /\ {s \in Elementos(tabla) : s.pid = p}
         = Elementos(tablaPcb[p]) \union {s \in EnVuelo : s.pid = p}
    /\ \A i, j \in DOMAIN tablaPcb[p] :
         i < j => tablaPcb[p][i].idSegPcb < tablaPcb[p][j].idSegPcb
    /\ \A s \in EnVuelo, i \in DOMAIN tablaPcb[p] :
         tablaPcb[p][i].idSegPcb < s.idSegPcb

(* Whatever other threads send on the socket, the segment memoria makes is *)
(* the one execute_pcb asked for: a message of another thread in between   *)
(* ends memoria before it can be taken for part of the request.            *)
SegmentoPedido ==
  \A s \in EnVuelo : /\ s.pid = pedido.pid /\ s.id = pedido.id
                     /\ s.limite = pedido.limite
=============================================================================
