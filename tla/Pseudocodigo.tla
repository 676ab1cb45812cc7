---------------------------- MODULE Pseudocodigo ----------------------------
(***************************************************************************)
(* The way of a program from the user's file to the cpu: the console reads *)
(* it word by word with fscanf and packs it (parsear.c), the kernel        *)
(* unpacks the list (obtener_lista_instrucciones), and from then on the    *)
(* list travels inside the execution context, from the kernel to the cpu   *)
(* and back, each time packed and unpacked by utils.c.                     *)
(*                                                                         *)
(* Nothing in a buffer says what comes next: four tables must agree on how *)
(* many parameters each instruction has - the pointers the parser leaves   *)
(* NULL, the switch of the kernel, and cuantosParametros on both ends of   *)
(* the context.  A buffer is a sequence of items: an instruction number    *)
(* (op) or a length with its string (txt).                                 *)
(***************************************************************************)
EXTENDS Integers, Sequences, FiniteSets

CONSTANTS Programas,    \* what users write: sequences of [nombre, args],
                        \* nombre and the members of args being words
          MaxPaquete    \* bound: items the parser packs.  It never stops
                        \* by itself when the file has no EXIT

Nombres == {"F_READ", "F_WRITE", "SET", "MOV_IN", "MOV_OUT", "F_TRUNCATE",
            "F_SEEK", "CREATE_SEGMENT", "I/O", "WAIT", "SIGNAL", "F_OPEN",
            "F_CLOSE", "DELETE_SEGMENT", "EXIT", "YIELD"}

Basura == "basura"          \* what an uninitialised char[20] holds
SinIniciar == "sin_iniciar" \* an instruccion_nombre nobody has assigned

(* What a char[20] may hold: what a user writes, or what was there before. *)
Palabra == STRING \cup Nombres \cup {Basura, SinIniciar}

ASSUME ProgramasAssumption ==
    Programas \subseteq Seq([nombre : Palabra, args : Seq(Palabra)])
ASSUME MaxPaqueteAssumption == MaxPaquete \in Nat

VARIABLES
    programa,   \* what the user wrote
    palabras,   \* the words of the file fscanf has not read yet
    instruc,    \* the parser's instruccion, *instruc and opchar1..3
    consola,    \* "parsea", "sin_archivo", "libera", "envio", "muerta"
    paquete,    \* the buffer on its way: a sequence of items
    lugar,      \* who holds it: "consola", "kernel", "cpu", or the kernel
                \* again, as the answer of the cpu: "respuesta"
    lector,     \* the reader of paquete: its parametro1..3 and how many
                \* instructions of the list it still expects
    lista,      \* the lists of instructions: the PCB's, the cpu's, and the
                \* one in the answer
    kernel      \* "espera", "obtiene", "corre", "desalineado"

vars == <<programa, palabras, instruc, consola, paquete, lugar, lector,
          lista, kernel>>

-----------------------------------------------------------------------------
Op(n) == [t |-> "op", v |-> n]
Txt(s) == [t |-> "txt", v |-> s]

(* The words of the file, in order: fscanf("%s") does not see lines. *)
Linea(ins) == <<ins.nombre>> \o ins.args
Texto(p) ==
    LET f[i \in 0..Len(p)] ==
            IF i = 0 THEN <<>> ELSE f[i - 1] \o Linea(p[i])
    IN  f[Len(p)]

(* How many words each branch of the parser reads with one fscanf. *)
Operandos(n) ==
    CASE n \in {"F_READ", "F_WRITE"} -> 3
      [] n \in {"SET", "MOV_IN", "MOV_OUT", "F_TRUNCATE", "F_SEEK",
                "CREATE_SEGMENT"} -> 2
      [] n \in {"EXIT", "YIELD"} -> 0
      [] OTHER -> 1

(* mutant: the branch of WAIT forgets to make parametro2 NULL *)
PunterosSinAnularEnWait(n, viejo) ==
    [j \in 1..3 |-> IF j <= Operandos(n) THEN "opchar"
                    ELSE IF n = "WAIT" THEN viejo[j]
                    ELSE IF n = "F_SEEK" THEN viejo[j] ELSE "nulo"]

(* The three pointers after the branch of n: those of its operands point to
   opchar1..3, the rest are NULL - but F_SEEK does not assign parametro3. *)
Punteros(n, viejo) ==
    [j \in 1..3 |-> IF j <= Operandos(n) THEN "opchar"
                    ELSE IF n = "F_SEEK" THEN viejo[j] ELSE "nulo"]

(* empaquetar_instruccion: it decides how many strings follow by looking for
   the first NULL pointer. *)
CuantosEmpaqueta(ptr) ==
    IF ptr[1] = "nulo" THEN 0 ELSE IF ptr[2] = "nulo" THEN 1
    ELSE IF ptr[3] = "nulo" THEN 2 ELSE 3
EmpaquetarInstruccion(ins) ==
    <<Op(ins.nombre)>> \o
    [j \in 1..CuantosEmpaqueta(ins.ptr) |->
        Txt(IF ins.ptr[j] = "suelto" THEN Basura ELSE ins.opchar[j])]
(* It takes the strlen of a pointer nobody has assigned: the console dies, or
   packs whatever it points to. *)
PunteroSuelto(ins) ==
    \E j \in 1..CuantosEmpaqueta(ins.ptr) : ins.ptr[j] = "suelto"

-----------------------------------------------------------------------------
(* One turn of the parser's loop, before it packs: the word it reads (the old
   one again at the end of the file: fscanf answers EOF, which is not 0), and
   the operands, of which those missing keep their old contents.  An unknown
   word leaves the instruction as it was. *)
Leida ==
    LET p == IF palabras = <<>> THEN instruc.palabra ELSE Head(palabras)
        r == IF palabras = <<>> THEN <<>> ELSE Tail(palabras)
        k == IF p \in Nombres THEN Operandos(p) ELSE 0
        n == IF k < Len(r) THEN k ELSE Len(r)
    IN  [resto |-> SubSeq(r, n + 1, Len(r)),
         ins   |-> [palabra |-> p,
                    nombre  |-> IF p \in Nombres THEN p ELSE instruc.nombre,
                    opchar  |-> [j \in 1..3 |-> IF j <= n THEN r[j]
                                                ELSE instruc.opchar[j]],
                    ptr     |-> IF p \in Nombres
                                THEN Punteros(p, instruc.ptr)
                                ELSE instruc.ptr]]

Parsear ==
    /\ consola = "parsea" /\ Len(paquete) < MaxPaquete
    /\ LET l == Leida IN
       /\ palabras' = l.resto /\ instruc' = l.ins
       /\ \/ /\ paquete' = paquete \o EmpaquetarInstruccion(l.ins)
             /\ consola' = IF l.ins.palabra = "EXIT" THEN "libera"
                           ELSE "parsea"
          \/ /\ PunteroSuelto(l.ins)
             /\ consola' = "muerta" /\ UNCHANGED paquete
    /\ UNCHANGED <<programa, lugar, lector, lista, kernel>>

(* fopen failed: the log says so and fscanf gets a NULL file. *)
SinArchivo ==
    /\ consola = "sin_archivo" /\ consola' = "muerta"
    /\ UNCHANGED <<programa, palabras, instruc, paquete, lugar, lector,
                   lista, kernel>>

(* The frees.  instruc was given malloc(sizeof(instruccion)), fewer bytes than
   the struct has: parametro3 lies over the header of a neighbouring chunk,
   and free may find it broken and abort. *)
Liberar ==
    /\ consola = "libera" /\ consola' \in {"envio", "muerta"}
    /\ UNCHANGED <<programa, palabras, instruc, paquete, lugar, lector,
                   lista, kernel>>

(* mutant: the loop over the list stops one instruction early *)
LectorNuevoSinLaUltima(n) ==
    [param |-> [j \in 1..3 |-> Basura], faltan |-> n - 1]

(* The parametro1..3 a reader starts with are uninitialised. *)
LectorNuevo(n) == [param |-> [j \in 1..3 |-> Basura], faltan |-> n]

(* send_instruccion_consola_kernel; the kernel receives the whole list. *)
EnviarInstrucciones ==
    /\ consola = "envio" /\ lugar = "consola"
    /\ lugar' = "kernel" /\ kernel' = "obtiene" /\ lector' = LectorNuevo(0)
    /\ UNCHANGED <<programa, palabras, instruc, consola, paquete, lista>>

-----------------------------------------------------------------------------
(* mutant: the case of SIGNAL unpacks two strings, as its neighbours do *)
ParametrosDelKernelSignalConDos(n) ==
    IF n \in {"F_READ", "F_WRITE"} THEN 3
    ELSE IF n \in {"I/O", "WAIT", "F_OPEN", "F_CLOSE",
                   "DELETE_SEGMENT"} THEN 1
    ELSE IF n \in {"EXIT", "YIELD", SinIniciar} THEN 0 ELSE 2

(* The switch of obtener_lista_instrucciones. *)
ParametrosDelKernel(n) ==
    IF n \in {"F_READ", "F_WRITE"} THEN 3
    ELSE IF n \in {"I/O", "WAIT", "SIGNAL", "F_OPEN", "F_CLOSE",
                   "DELETE_SEGMENT"} THEN 1
    ELSE IF n \in {"EXIT", "YIELD", SinIniciar} THEN 0 ELSE 2

(* mutant: F_READ is left out of the instructions with three parameters *)
cuantosParametrosSinRead(n) ==
    CASE n = "F_WRITE" -> 3
      [] n \in {"I/O", "WAIT", "SIGNAL", "F_OPEN", "DELETE_SEGMENT",
                "F_CLOSE"} -> 1
      [] n \in {"EXIT", "YIELD"} -> 0
      [] OTHER -> 2

cuantosParametros(n) ==
    CASE n \in {"F_READ", "F_WRITE"} -> 3
      [] n \in {"I/O", "WAIT", "SIGNAL", "F_OPEN", "DELETE_SEGMENT",
                "F_CLOSE"} -> 1
      [] n \in {"EXIT", "YIELD"} -> 0
      [] OTHER -> 2

(* The next k + 1 items are an instruction and k strings. *)
Alineado(k) ==
    /\ Len(paquete) > k /\ paquete[1].t = "op"
    /\ \A j \in 1..k : paquete[j + 1].t = "txt"

(* Unpacking one instruction with k parameters: the pointers of the others
   still point to what an earlier instruction left (armar_instruccion). *)
Desarmada(k) ==
    [nombre |-> paquete[1].v,
     param  |-> [j \in 1..3 |-> IF j <= k THEN paquete[j + 1].v
                                ELSE lector.param[j]]]
Consumir(k) == paquete' = SubSeq(paquete, k + 2, Len(paquete))

(* One turn of the loop of obtener_lista_instrucciones.  It ends at EXIT. *)
ObtenerInstruccion ==
    /\ lugar = "kernel" /\ kernel = "obtiene"
    /\ LET k == IF paquete = <<>> \/ paquete[1].t # "op" THEN 0
                ELSE ParametrosDelKernel(paquete[1].v)
       IN  IF ~Alineado(k)
           THEN /\ kernel' = "desalineado"
                /\ UNCHANGED <<lista, lector, paquete>>
           ELSE /\ Consumir(k)
                /\ lector' = [lector EXCEPT !.param = Desarmada(k).param]
                /\ lista' = [lista EXCEPT !.kernel =
                                Append(@, Desarmada(k))]
                /\ kernel' = IF paquete[1].v = "EXIT" THEN "corre"
                             ELSE "obtiene"
    /\ UNCHANGED <<programa, palabras, instruc, consola, lugar>>

(* empaquetar_lista_instrucciones, inside the context. *)
Empaque(ins) ==
    <<Op(ins.nombre)>> \o
    [j \in 1..cuantosParametros(ins.nombre) |-> Txt(ins.param[j])]
Empaquetada(l) ==
    LET f[i \in 0..Len(l)] ==
            IF i = 0 THEN <<>> ELSE f[i - 1] \o Empaque(l[i])
    IN  f[Len(l)]

(* The context goes from de to a, the list with its length, and who receives
   it builds a new list.  The kernel always sends the list of the PCB: what the
   cpu answers it unpacks and leaves alone. *)
EnviarContexto(de, a) ==
    /\ kernel = "corre" /\ lector.faltan = 0
    /\ paquete' = Empaquetada(lista[de])
    /\ lector' = LectorNuevo(Len(lista[de]))
    /\ lista' = [lista EXCEPT ![a] = <<>>]
    /\ lugar' = a
    /\ UNCHANGED <<programa, palabras, instruc, consola, kernel>>

EnviarInstruccionCpu ==
    lugar \in {"kernel", "respuesta"} /\ EnviarContexto("kernel", "cpu")
EnviarInstruccionKernel ==
    lugar = "cpu" /\ EnviarContexto("cpu", "respuesta")

(* One turn of desempaquetar_lista_instrucciones. *)
DesempaquetarInstruccion ==
    /\ kernel = "corre" /\ lector.faltan > 0
    /\ LET k == IF paquete = <<>> \/ paquete[1].t # "op" THEN 0
                ELSE cuantosParametros(paquete[1].v)
       IN  IF ~Alineado(k)
           THEN kernel' = "desalineado" /\ UNCHANGED <<lista, lector, paquete>>
           ELSE /\ Consumir(k)
                /\ lector' = [param  |-> Desarmada(k).param,
                              faltan |-> lector.faltan - 1]
                /\ lista' = [lista EXCEPT ![lugar] = Append(@, Desarmada(k))]
                /\ UNCHANGED kernel
    /\ UNCHANGED <<programa, palabras, instruc, consola, lugar>>

-----------------------------------------------------------------------------
(* *instruc is malloc'ed and not initialised: its number is none of the enum,
   or 0, which is F_READ; parametro3 is not even inside the chunk. *)
Init ==
    /\ programa \in Programas
    /\ palabras = Texto(programa)
    /\ \E n \in {SinIniciar, "F_READ"}, s, s3 \in {"nulo", "suelto"} :
           instruc = [palabra |-> Basura, nombre |-> n,
                      opchar |-> [j \in 1..3 |-> Basura],
                      ptr |-> [j \in 1..3 |-> IF j = 3 THEN s3 ELSE s]]
    /\ consola \in {"parsea", "sin_archivo"}
    /\ paquete = <<>> /\ lugar = "consola"
    /\ lector = [param |-> [j \in 1..3 |-> Basura], faltan |-> 0]
    /\ lista = [kernel |-> <<>>, cpu |-> <<>>, respuesta |-> <<>>]
    /\ kernel = "espera"

Next ==
    \/ Parsear \/ SinArchivo \/ Liberar \/ EnviarInstrucciones
    \/ ObtenerInstruccion \/ DesempaquetarInstruccion
    \/ EnviarInstruccionCpu \/ EnviarInstruccionKernel

Spec == Init /\ [][Next]_vars /\ WF_vars(Next)

-----------------------------------------------------------------------------
(* What a careful user writes: known instructions with their operands, EXIT
   at the end and nowhere else, and no F_SEEK while parametro3 still points
   somewhere: before it there is an instruction that made it NULL. *)
AnulaTercero(n) == n \notin {"F_READ", "F_WRITE", "F_SEEK"}
BienFormado(p) ==
    /\ Len(p) > 0 /\ \A i \in 1..Len(p) : /\ p[i].nombre \in Nombres
                                          /\ Len(p[i].args) = Operandos(p[i].nombre)
                                          /\ p[i].nombre = "EXIT" <=> i = Len(p)
    /\ \A i \in 1..Len(p) : p[i].nombre = "F_SEEK" =>
           \E j \in 1..(i - 1) : /\ AnulaTercero(p[j].nombre)
                                 /\ \A h \in (j + 1)..(i - 1) :
                                        p[h].nombre = "F_SEEK"

(* What an instruction of a list says: its stale parameters are never used. *)
Usada(ins) == <<ins.nombre, SubSeq(ins.param, 1, Operandos(ins.nombre))>>
Escrita(ins) == <<ins.nombre, ins.args>>

Item == [t : {"op", "txt"}, v : Palabra]
InstruccionArmada == [nombre : Palabra, param : [1..3 -> Palabra]]

(* Types. *)
TypeOK ==
    /\ programa \in Programas /\ palabras \in Seq(Palabra)
    /\ instruc \in [palabra : Palabra, nombre : Palabra,
                    opchar : [1..3 -> Palabra],
                    ptr : [1..3 -> {"nulo", "opchar", "suelto"}]]
    /\ consola \in {"parsea", "sin_archivo", "libera", "envio", "muerta"}
    /\ paquete \in Seq(Item) /\ lugar \in {"consola", "kernel", "cpu", "respuesta"}
    /\ lector \in [param : [1..3 -> Palabra], faltan : Nat]
    /\ lista \in [kernel : Seq(InstruccionArmada), cpu : Seq(InstruccionArmada),
                  respuesta : Seq(InstruccionArmada)]
    /\ kernel \in {"espera", "obtiene", "corre", "desalineado"}

(* The kernel and the cpu run what the user wrote: of a well-formed program,
   each list is at any time a prefix of it, the kernel's the whole of it once
   the process runs, and the reader is never out of step with the buffer
   (parsear.c against utils.c, 538 and 857). *)
ListaEsElPrograma ==
    BienFormado(programa) =>
        /\ kernel # "desalineado"
        /\ kernel = "corre" => Len(lista.kernel) = Len(programa)
        /\ \A k \in {"kernel", "cpu", "respuesta"} :
              /\ Len(lista[k]) <= Len(programa)
              /\ \A i \in 1..Len(lista[k]) :
                    Usada(lista[k][i]) = Escrita(programa[i])

(* Whatever the user wrote, well formed or not: only the first reading, of
   what the console packed, can lose its place.  From then on the two ends of
   every context agree, there and back, as many times as it travels, although
   each fills the parameters an instruction does not use with what it has. *)
LosDosLeenLoMismo ==
    /\ kernel = "desalineado" => lugar = "kernel"
    /\ kernel = "corre" /\ lugar \in {"cpu", "respuesta"} =>
          LET otro == IF lugar = "cpu" THEN "kernel" ELSE "cpu"
          IN  /\ Len(lista[lugar]) + lector.faltan = Len(lista[otro])
              /\ \A i \in 1..Len(lista[lugar]) :
                    Usada(lista[lugar][i]) = Usada(lista[otro][i])

(* A well-formed program reaches the cpu, whole, unless the console dies in
   its frees or has no file. *)
LlegaElPrograma ==
    BienFormado(programa) ~>
        \/ consola = "muerta"
        \/ [i \in 1..Len(lista.cpu) |-> Usada(lista.cpu[i])] =
           [i \in 1..Len(programa) |-> Escrita(programa[i])]
=============================================================================
