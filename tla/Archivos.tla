------------------------------ MODULE Archivos ------------------------------
(***************************************************************************)
(* The filesystem's disk under crashes and restarts (operaciones.c and     *)
(* filesystem.c): the FCB of each file, a text file that config_save       *)
(* empties and writes again; the bitmap and the file of blocks, both       *)
(* mapped MAP_SHARED, so that what is stored there survives the process.   *)
(* One process serves one request of the kernel at a time; it may die at   *)
(* any step, and the next start reads whatever it left.                    *)
(*                                                                         *)
(* A request blocks in up to three places: until the kernel's next request *)
(* comes, until its pid comes on the other socket, and, for F_WRITE, until *)
(* memoria answers.  The kernel and memoria may die; a recv on a cut       *)
(* connection ends the process (stream_recv_buffer).                       *)
(*                                                                         *)
(* Sizes and positions are bytes; the file of blocks is seen as words of   *)
(* four bytes, each a block number or data of a file (Dato).               *)
(***************************************************************************)
EXTENDS Integers

CONSTANTS Archivo, Tamanios,  \* names; sizes F_TRUNCATE and F_WRITE ask for
          Posiciones,         \* positions of the pointer F_WRITE starts at
          TamBloque, CantBloques,  \* BLOCK_SIZE and BLOCK_COUNT
          UltimaPalabra       \* bound: words of the block file followed

ASSUME TamanosAssumption ==
    /\ Tamanios \subseteq Nat /\ 0 \in Tamanios /\ Posiciones \subseteq Nat
    /\ TamBloque \in Nat \ {0} /\ CantBloques \in Nat \ {0}
    /\ UltimaPalabra \in Nat

VARIABLES
    fcb,      \* on disk, per file: [estado, tam, directo, indirecto], estado
              \* being "ausente", "vacio" (a file without keys), "completo"
    bitmap,   \* mapped: the block is marked
    palabra,  \* mapped: the words of the file of blocks
    estado,   \* where the process is
    ped,      \* the request it serves: [op, f, n, p]
    cfg,      \* the t_config of the FCB it has in memory
    i,        \* the counter of its loop
    porCrear, \* the file OPEN has just said that does not exist: the kernel
              \* answers with CREATE
    vivas,    \* the processes at the other ends that are alive
    llego     \* what the process is waiting for has been sent

disco == <<fcb, bitmap, palabra>>
red == <<vivas, llego>>
vars == <<disco, estado, ped, cfg, i, porCrear, red>>

Dato == -1
Palabras == 0..UltimaPalabra
Bloque == 0..(CantBloques - 1)
Bloques(n) == n \div TamBloque

SinFcb == [estado |-> "ausente", tam |-> 0, directo |-> 0, indirecto |-> 0]
Vacio == [SinFcb EXCEPT !.estado = "vacio"]
Fcb(n, d, ind) == [estado |-> "completo", tam |-> n, directo |-> d,
                   indirecto |-> ind]
SinPedido(f) == [op |-> "ninguno", f |-> f, n |-> 0, p |-> 0]

(* The process ends: of its own, or because something kills it.  What is in
   memory is lost; the disk and both mappings stay. *)
Olvida == ped' = SinPedido(ped.f) /\ cfg' = SinFcb /\ i' = 0
Muere == /\ estado' = "caido" /\ porCrear' = {} /\ Olvida
         /\ llego' = FALSE /\ UNCHANGED vivas

-----------------------------------------------------------------------------
(* The start, of the whole system, for a kernel that lost its filesystem ends.
   crearBitMap clears every bit, whatever the file had. *)
Arrancar ==
    /\ estado = "caido" /\ estado' = "leeFcbs"
    /\ bitmap' = [b \in Bloque |-> FALSE]
    /\ vivas' = {"kernel", "memoria"}
    /\ UNCHANGED <<fcb, palabra, ped, cfg, i, porCrear, llego>>

(* marcarBloques: the direct block, the indirect one, and the blocks that the
   first words of the indirect one point to. *)
Apuntados(c) == {palabra[(c.indirecto * TamBloque) \div 4 + k] :
                    k \in {k \in 0..(Bloques(c.tam) - 2) :
                        (c.indirecto * TamBloque) \div 4 + k \in Palabras}}
Marcados(c) == {c.directo, c.indirecto} \cup Apuntados(c)

(* One turn of leerFCBs: the next entry of the directory, in no known order.
   An FCB without keys ends the process (strdup of NULL); a word that is data
   marks any bit, if the process survives the address it makes. *)
LeerFcb(f) ==
    /\ estado = "leeFcbs" /\ fcb[f].estado # "ausente"
    /\ \/ fcb[f].estado = "vacio" /\ Muere /\ UNCHANGED disco
       \/ /\ fcb[f].estado = "completo"
          /\ UNCHANGED <<fcb, palabra, estado, ped, cfg, i, porCrear, red>>
          /\ IF fcb[f].tam = 0 THEN UNCHANGED bitmap
             ELSE \E extra \in IF Dato \in Marcados(fcb[f])
                               THEN SUBSET Bloque ELSE {{}} :
                     bitmap' = [b \in Bloque |-> \/ bitmap[b]
                                                 \/ b \in Marcados(fcb[f])
                                                 \/ b \in extra]
       \/ /\ fcb[f].estado = "completo" /\ fcb[f].tam > 0
          /\ Dato \in Marcados(fcb[f]) /\ Muere /\ UNCHANGED disco

(* It stops at the first "." or "..", wherever the directory has them, and
   waits for the kernel. *)
TerminarLectura ==
    /\ estado = "leeFcbs" /\ estado' = "espera"
    /\ UNCHANGED <<disco, ped, cfg, i, porCrear, red>>

-----------------------------------------------------------------------------
(* A request arrives.  After "it does not exist" the next one is the CREATE
   of that file; CREATE comes from nowhere else.  The kernel sends the pid of
   F_READ and F_WRITE before the request, that of F_TRUNCATE after it. *)
ConPid == {"TRUNCATE", "READ", "WRITE"}
Recibir(op, f, n, p) ==
    /\ estado = "espera" /\ "kernel" \in vivas
    /\ estado' = IF op \in ConPid THEN "pid" ELSE "atiende"
    /\ op = "CREATE" <=> f \in porCrear
    /\ porCrear # {} => op = "CREATE"
    /\ ped' = [op |-> op, f |-> f, n |-> n, p |-> p]
    /\ llego' = (op \in {"READ", "WRITE"})
    /\ UNCHANGED <<disco, cfg, i, porCrear, vivas>>

(* mutant: the kernel's case of F_TRUNCATE sends no pid *)
EnviaPidNunca == FALSE

(* streamPcbFS of the kernel, after the request of F_TRUNCATE. *)
EnviaPid ==
    /\ estado = "pid" /\ ~llego /\ "kernel" \in vivas
    /\ llego' = TRUE
    /\ UNCHANGED <<disco, estado, ped, cfg, i, porCrear, vivas>>

(* recibirPidBLoqueado; F_WRITE asks memoria for the bytes then. *)
RecibirPid ==
    /\ estado = "pid" /\ llego /\ llego' = FALSE
    /\ estado' = IF ped.op = "WRITE" THEN "memoria" ELSE "atiende"
    /\ UNCHANGED <<disco, ped, cfg, i, porCrear, vivas>>

(* f_read of memoria, and its answer. *)
MemoriaResponde ==
    /\ estado = "memoria" /\ ~llego /\ "memoria" \in vivas
    /\ llego' = TRUE
    /\ UNCHANGED <<disco, estado, ped, cfg, i, porCrear, vivas>>
RecibirDatos ==
    /\ estado = "memoria" /\ llego /\ llego' = FALSE
    /\ estado' = "atiende"
    /\ UNCHANGED <<disco, ped, cfg, i, porCrear, vivas>>

(* The end of the one the process waits for; the death of one it does not
   wait for shows only when it comes to wait for it. *)
Espera == IF estado = "memoria" THEN "memoria" ELSE "kernel"
EsperandoA == estado \in {"espera", "pid", "memoria"} /\ ~llego
MuereOtro ==
    /\ EsperandoA /\ vivas' = vivas \ {Espera} /\ vivas' # vivas
    /\ UNCHANGED <<disco, estado, ped, cfg, i, porCrear, llego>>

(* stream_recv_header ignores that the connection is cut, stream_recv_buffer
   exits. *)
ConexionCortada ==
    EsperandoA /\ Espera \notin vivas /\ Muere /\ UNCHANGED disco

Atiende(op) == estado = "atiende" /\ ped.op = op

(* OPEN: buscarArchivo only looks for the name in the directory. *)
Abrir ==
    /\ Atiende("OPEN") /\ estado' = "espera"
    /\ porCrear' = IF fcb[ped.f].estado = "ausente" THEN {ped.f} ELSE {}
    /\ Olvida /\ UNCHANGED <<disco, red>>

(* crearFCB: open with O_CREAT makes an empty file; config_save fills it. *)
CrearFcbAbre ==
    /\ Atiende("CREATE") /\ estado' = "crea" /\ porCrear' = {}
    /\ fcb' = [fcb EXCEPT ![ped.f] =
                  IF @.estado = "ausente" THEN Vacio ELSE @]
    /\ UNCHANGED <<bitmap, palabra, ped, cfg, i, red>>
CrearFcbGuarda ==
    /\ estado = "crea" /\ estado' = "responde"
    /\ fcb' = [fcb EXCEPT ![ped.f] = Fcb(0, 0, 0)]
    /\ UNCHANGED <<bitmap, palabra, ped, cfg, i, porCrear, red>>

(* The answer leaves: hs_aux for CREATE, the pid for the others. *)
ResponderPedido ==
    /\ estado = "responde" /\ estado' = "espera"
    /\ Olvida /\ UNCHANGED <<disco, porCrear, red>>

-----------------------------------------------------------------------------
(* truncar_archivo reads the FCB.  Without a file, or without keys, the
   config functions take a NULL. *)
TruncarLee ==
    /\ Atiende("TRUNCATE") /\ UNCHANGED disco
    /\ IF fcb[ped.f].estado # "completo" THEN Muere
       ELSE /\ cfg' = fcb[ped.f] /\ i' = 0
            /\ estado' = IF cfg'.tam > ped.n THEN "achica"
                         ELSE IF cfg'.tam < ped.n THEN "agranda"
                         ELSE "guarda"
            /\ UNCHANGED <<ped, porCrear, red>>

(* The word of the indirect block at k. *)
PalabraDe(k) == (cfg.indirecto * TamBloque) \div 4 + k

(* Shrinking: from the word of the last block backwards, clear the bit each
   word names.  A word of data names any bit, or an address outside. *)
Achicar ==
    /\ estado = "achica" /\ i < Bloques(cfg.tam) - Bloques(ped.n)
    /\ LET w == PalabraDe(Bloques(cfg.tam) - i)
           v == IF w \in Palabras THEN palabra[w] ELSE Dato
       IN  \/ /\ i' = i + 1
              /\ \E b \in IF v = Dato THEN Bloque ELSE {v} :
                     bitmap' = [bitmap EXCEPT ![b] = FALSE]
              /\ UNCHANGED <<fcb, palabra, estado, ped, cfg, porCrear, red>>
           \/ v = Dato /\ Muere /\ UNCHANGED disco

(* mutant: the number after the last one *)
BuscarProximoBloqueLibrePasado == CantBloques

(* buscar_proximo_bloque_libre: its loop asks for estado = 1 and estado starts
   at 0, so that it never looks at the bitmap. *)
BuscarProximoBloqueLibre == 0

(* Growing: a block per turn, stored where the number of blocks the file had
   before says, which does not change in the loop. *)
Agrandar ==
    /\ estado = "agranda" /\ i < Bloques(ped.n) - Bloques(cfg.tam)
    /\ LET libre == BuscarProximoBloqueLibre
           b == Bloques(cfg.tam)
           w == PalabraDe(b + i)
       IN  \/ /\ i' = i + 1
              /\ bitmap' = [bitmap EXCEPT ![libre] = TRUE]
              /\ cfg' = [cfg EXCEPT !.directo = IF b = 0 THEN libre ELSE @,
                                    !.indirecto = IF b = 1 THEN libre ELSE @]
              /\ palabra' = IF b > 1 /\ w \in Palabras
                            THEN [palabra EXCEPT ![w] = libre] ELSE palabra
              /\ UNCHANGED <<fcb, estado, ped, porCrear, red>>
           \/ b > 1 /\ w \notin Palabras /\ Muere /\ UNCHANGED disco

TerminarBucle ==
    /\ \/ estado = "achica" /\ i >= Bloques(cfg.tam) - Bloques(ped.n)
       \/ estado = "agranda" /\ i >= Bloques(ped.n) - Bloques(cfg.tam)
    /\ estado' = "guarda"
    /\ UNCHANGED <<disco, ped, cfg, i, porCrear, red>>

(* config_save: fopen empties the file, then the keys are written. *)
GuardarAbre ==
    /\ estado = "guarda" /\ estado' = "escribe"
    /\ fcb' = [fcb EXCEPT ![ped.f] = Vacio]
    /\ UNCHANGED <<bitmap, palabra, ped, cfg, i, porCrear, red>>

(* mutant: the size is left out of what is saved *)
GuardarEscribeSinTamanio ==
    /\ estado = "escribe" /\ estado' = "responde"
    /\ fcb' = [fcb EXCEPT ![ped.f] = cfg]
    /\ UNCHANGED <<bitmap, palabra, ped, cfg, i, porCrear, red>>

GuardarEscribe ==
    /\ estado = "escribe" /\ estado' = "responde"
    /\ fcb' = [fcb EXCEPT ![ped.f] =
                  Fcb(ped.n, cfg.directo, cfg.indirecto)]
    /\ UNCHANGED <<bitmap, palabra, ped, cfg, i, porCrear, red>>

-----------------------------------------------------------------------------
(* escribir_archivo.  From the position to the end of its block everything is
   written, whatever the size is.  What is left (the size less the offset), or
   a position past the first block, goes where encontrar_bloque_n says: it
   copies the address of the word and not the word, so that the block is any
   number - the process dies, or a word somewhere becomes data. *)
PalabrasEscritas(c, p) ==
    {w \in Palabras : /\ w >= (c.directo * TamBloque + p) \div 4
                      /\ 4 * w < (c.directo + 1) * TamBloque}
Escribir ==
    /\ Atiende("WRITE")
    /\ LET c == fcb[ped.f]
           enElDirecto == ped.p < TamBloque
           seDesvia == ~enElDirecto \/ ped.n > ped.p % TamBloque
           datos == IF enElDirecto THEN PalabrasEscritas(c, ped.p) ELSE {}
       IN  \/ /\ c.estado # "completo" /\ Muere /\ UNCHANGED disco
           \/ /\ c.estado = "completo"
              /\ \E otras \in IF seDesvia THEN {{}} \cup {{w} : w \in Palabras}
                              ELSE {{}} :
                    palabra' = [w \in Palabras |->
                                   IF w \in datos \cup otras THEN Dato
                                   ELSE palabra[w]]
              /\ estado' = "responde"
              /\ UNCHANGED <<fcb, bitmap, ped, cfg, i, porCrear, red>>
           \/ /\ c.estado = "completo" /\ seDesvia /\ Muere
              /\ palabra' = [w \in Palabras |->
                                IF w \in datos THEN Dato ELSE palabra[w]]
              /\ UNCHANGED <<fcb, bitmap>>

(* READ: leer_archivo, and then buffer_pack takes the pid for an address. *)
Leer == Atiende("READ") /\ Muere /\ UNCHANGED disco

(* The process is killed.  The mappings are the machine's: nothing in the code
   syncs them, and a machine that stops is not in the model. *)
CaerFs == estado # "caido" /\ Muere /\ UNCHANGED disco

-----------------------------------------------------------------------------
(* The first start finds what somebody left: files of any size, or nothing,
   all their pointers 0 as the repository's own FCB has, and no data. *)
Init ==
    /\ fcb \in [Archivo -> {SinFcb} \cup {Fcb(n, 0, 0) : n \in Tamanios}]
    /\ bitmap = [b \in Bloque |-> FALSE]
    /\ palabra = [w \in Palabras |-> 0]
    /\ estado = "caido" /\ i = 0 /\ cfg = SinFcb /\ porCrear = {}
    /\ vivas = {"kernel", "memoria"} /\ llego = FALSE
    /\ ped \in {SinPedido(f) : f \in Archivo}

Pedidos ==
    \E f \in Archivo :
        \/ Recibir("OPEN", f, 0, 0) \/ Recibir("CREATE", f, 0, 0)
        \/ \E n \in Tamanios : \/ Recibir("TRUNCATE", f, n, 0)
                               \/ \E p \in Posiciones :
                                      \/ Recibir("WRITE", f, n, p)
                                      \/ Recibir("READ", f, n, p)

(* What the process does by itself. *)
Servir ==
    \/ Arrancar \/ TerminarLectura \/ \E f \in Archivo : LeerFcb(f)
    \/ RecibirPid \/ RecibirDatos \/ ConexionCortada
    \/ Abrir \/ CrearFcbAbre \/ CrearFcbGuarda \/ ResponderPedido
    \/ TruncarLee \/ Achicar \/ Agrandar \/ TerminarBucle
    \/ GuardarAbre \/ GuardarEscribe \/ Escribir \/ Leer

Otros == EnviaPid \/ MemoriaResponde

Next == Pedidos \/ Servir \/ Otros \/ MuereOtro \/ CaerFs

Spec == Init /\ [][Next]_vars

(* With fairness: the thread that serves goes on; so does execute_pcb of the
   kernel between its two sends, and memoria with the read it was asked for,
   unless they die.  Nothing in the code starts the process again, so that
   Arrancar is not fair. *)
SpecJusta == Spec /\ WF_vars(Servir /\ estado # "caido")
                  /\ WF_vars(TerminarLectura)
                  /\ WF_vars(EnviaPid) /\ WF_vars(MemoriaResponde)

-----------------------------------------------------------------------------
(* The table of TablaFcb: what is on disk, but the FCB that is being saved
   counts for what it was until its keys are written. *)
Fila(e, n) == [estado |-> e, tam |-> n]
TablaDe(f) ==
    IF f = ped.f /\ estado = "crea" THEN Fila("ausente", 0)
    ELSE IF f = ped.f /\ estado = "escribe" THEN Fila("completo", cfg.tam)
    ELSE CASE fcb[f].estado = "completo" -> Fila("completo", fcb[f].tam)
           [] fcb[f].estado = "vacio" -> Fila("ilegible", 0)
           [] OTHER -> Fila("ausente", 0)

TablaVista == [f \in Archivo |-> TablaDe(f)]

EnCurso == {"pid", "memoria", "atiende", "crea", "agranda", "achica", "guarda",
            "escribe", "responde"}
PedidoDe ==
    IF estado \in EnCurso /\ ped.op \in {"CREATE", "TRUNCATE"}
    THEN {[tipo |-> ped.op, f |-> ped.f, tam |-> ped.n,
           hecho |-> estado = "responde"]}
    ELSE {}

Tabla == INSTANCE TablaFcb WITH archivo <- TablaVista, pedido <- PedidoDe

-----------------------------------------------------------------------------
TipoFcb == [estado : {"ausente", "vacio", "completo"}, tam : Tamanios,
            directo : Bloque, indirecto : Bloque]
Operaciones == {"ninguno", "OPEN", "CREATE", "TRUNCATE", "WRITE", "READ"}

(* Types. *)
TypeOK ==
    /\ fcb \in [Archivo -> TipoFcb]
    /\ bitmap \in [Bloque -> BOOLEAN]
    /\ palabra \in [Palabras -> Bloque \cup {Dato}]
    /\ estado \in EnCurso \cup {"caido", "leeFcbs", "espera"}
    /\ ped \in [op : Operaciones, f : Archivo, n : Tamanios,
                p : Posiciones \cup {0}]
    /\ cfg \in TipoFcb /\ i \in Nat /\ porCrear \in SUBSET Archivo
    /\ vivas \subseteq {"kernel", "memoria"} /\ llego \in BOOLEAN

(* The filesystem keeps the promise of TablaFcb over any crash and restart: a
   file changes once per request and before the answer, CREATE never empties
   a file that exists, and a crash loses only the file whose FCB config_save
   had open (operaciones.c, 49; filesystem.c, 370). *)
CumpleLaTabla == Tabla!SpecTabla

(* The process never stays in the middle of a request or of its start,
   whatever it waits for and whoever dies meanwhile: again and again it waits
   for a kernel that is alive, or is dead (filesystem.c, 93-175). *)
NoSeCuelga ==
    []<>(estado = "caido" \/ (estado = "espera" /\ "kernel" \in vivas))
=============================================================================
