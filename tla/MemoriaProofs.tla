---------------------------- MODULE MemoriaProofs ----------------------------
(***************************************************************************)
(* The segment table and its bitmap, for every size of memory and every    *)
(* sequence of requests, whatever order the kernel's threads send in.      *)
(***************************************************************************)
EXTENDS Memoria, TLAPS, SequenceTheorems

(* What the tables and the two readers hold, as far as the table needs it. *)
Tipos ==
  /\ ocupados \subseteq Nat
  /\ tabla \in Seq(Entrada) /\ tabla # << >>
  /\ recibido \in Seq(Nat)
  /\ canal \in Seq([h : Cabeceras, d : Seq(Nat)])
  /\ \A i \in DOMAIN canal : Len(canal[i].d) <= 1
  /\ pedido \in [pid : Nat, limite : Nat, id : Nat]

(* How many ints of the request have arrived, by the reader's label.       *)
Recibidos ==
  /\ mem \in {"pedido", "pid", "proceso"} => Len(recibido) = 0
  /\ mem = "tamanio" => Len(recibido) = 1
  /\ mem = "id"      => Len(recibido) = 2
  /\ mem = "crea"    => Len(recibido) = 3

(* The last segment ends at Tope, everything up to it is taken, and each   *)
(* segment ends before the next begins.                                    *)
Tope == tabla[Len(tabla)].base + tabla[Len(tabla)].limite
Apilados ==
  /\ Tope <= TamMemoria
  /\ ocupados = 0 .. Tope
  /\ \A i, j \in DOMAIN tabla :
       i < j => tabla[i].base + tabla[i].limite <= tabla[j].base

IInv == Tipos /\ Recibidos /\ Apilados /\ MapaExacto /\ NuncaElige

-----------------------------------------------------------------------------
(* With the bits up to t taken and the rest clear, the search for free     *)
(* space finds one hole: all that is left, or the empty one at the end.    *)
BaseLibre(t) == IF t < TamMemoria THEN t + 1 ELSE TamMemoria

LEMMA UnHueco ==
  ASSUME NEW t \in Nat, t <= TamMemoria, ocupados = 0 .. t
  PROVE  Huecos = {[base   |-> BaseLibre(t),
                    limite |-> TamMemoria - BaseLibre(t)]}
<1>. USE MemoriaAssumption
<1>. DEFINE b == BaseLibre(t)
<1>1. b \in Nat /\ b <= TamMemoria /\ b > 0 BY DEF BaseLibre
<1>2. \A x \in Int : Libre(x) <=> (t < x /\ x < TamMemoria)
  BY DEF Libre
<1>3. Inicios = {b}
  <2>1. \A x \in Inicios : x = b BY <1>1, <1>2 DEF Inicios, BaseLibre
  <2>2. b \in Inicios BY <1>1, <1>2 DEF Inicios, BaseLibre
  <2>. QED BY <2>1, <2>2
<1>4. FinDesde(b) = TamMemoria
  <2>1. ~Libre(TamMemoria) /\ \A i \in b .. TamMemoria - 1 : Libre(i)
    BY <1>1, <1>2 DEF BaseLibre
  <2>2. ASSUME NEW f \in b .. TamMemoria, ~Libre(f) PROVE f = TamMemoria
    BY <1>1, <1>2, <2>2 DEF BaseLibre
  <2>3. TamMemoria \in b .. TamMemoria BY <1>1
  <2>. QED BY <2>1, <2>2, <2>3 DEF FinDesde
<1>. QED BY <1>3, <1>4 DEF Huecos

(* The next request is served at the first clear byte, or not at all.      *)
LEMMA DondeCabe ==
  ASSUME NEW t \in Nat, t <= TamMemoria, ocupados = 0 .. t, NEW n \in Nat,
         NEW h \in Posibles(n)
  PROVE  /\ Posibles(n) = {h}
         /\ h.base = BaseLibre(t) /\ h.base + n <= TamMemoria
<1>1. Huecos = {[base |-> BaseLibre(t), limite |-> TamMemoria - BaseLibre(t)]}
  BY UnHueco
<1>2. h = [base |-> BaseLibre(t), limite |-> TamMemoria - BaseLibre(t)]
  BY <1>1 DEF Posibles
<1>3. h.limite >= n BY DEF Posibles
<1>. QED BY <1>1, <1>2, <1>3, MemoriaAssumption DEF Posibles, BaseLibre

-----------------------------------------------------------------------------
LEMMA Inicial == Init => IInv
<1>. SUFFICES ASSUME Init PROVE IInv OBVIOUS
<1>. USE MemoriaAssumption DEF Init
<1>1. Tipos BY DEF Tipos, Entrada, NoPedido
<1>2. Recibidos BY DEF Recibidos
<1>3. Apilados BY DEF Apilados, Tope
<1>4. MapaExacto
  <2>1. {tabla[i] : i \in DOMAIN tabla} = {tabla[1]} OBVIOUS
  <2>. QED BY <2>1 DEF MapaExacto
<1>5. NuncaElige BY DEF NuncaElige
<1>. QED BY <1>1, <1>2, <1>3, <1>4, <1>5 DEF IInv

(* Two facts about the short sequences of the messages.                    *)
LEMMA UnInt ==
  ASSUME NEW q \in Seq(Nat), Len(q) <= 1, q # << >> PROVE Len(q) = 1
<1>1. Len(q) \in Nat \ {0} BY EmptySeq
<1>2. \A k \in Nat \ {0} : k <= 1 => k = 1 OBVIOUS
<1>. QED BY <1>1, <1>2

LEMMA Agregado ==
  ASSUME NEW r \in Seq(Nat), NEW q \in Seq(Nat), Len(q) = 1
  PROVE  r \o q \in Seq(Nat) /\ Len(r \o q) = Len(r) + 1
<1>1. r \o q \in Seq(Nat) /\ Len(r \o q) = Len(r) + Len(q)
  BY ConcatProperties
<1>. QED BY <1>1

(* Messages: what is appended to the channel has at most one int.          *)
LEMMA AlCanal ==
  ASSUME Tipos, NEW h \in Cabeceras, NEW d \in Seq(Nat), Len(d) <= 1, Manda(h, d)
  PROVE  /\ canal' \in Seq([h : Cabeceras, d : Seq(Nat)])
         /\ \A i \in DOMAIN canal' : Len(canal'[i].d) <= 1
<1>1. Msg(h, d) \in [h : Cabeceras, d : Seq(Nat)] /\ Msg(h, d).d = d BY DEF Msg
<1>. QED BY <1>1 DEF Tipos, Manda

LEMMA DelCanal ==
  ASSUME Tipos, canal # << >>
  PROVE  /\ Head(canal).d \in Seq(Nat) /\ Len(Head(canal).d) <= 1
         /\ Tail(canal) \in Seq([h : Cabeceras, d : Seq(Nat)])
         /\ \A i \in DOMAIN Tail(canal) : Len(Tail(canal)[i].d) <= 1
<1>. DEFINE M == [h : Cabeceras, d : Seq(Nat)]
<1>1. canal \in Seq(M) /\ DOMAIN canal = 1 .. Len(canal)
  BY LenProperties DEF Tipos
<1>2. /\ Tail(canal) \in Seq(M) /\ Len(Tail(canal)) = Len(canal) - 1
      /\ \A i \in 1 .. Len(Tail(canal)) : Tail(canal)[i] = canal[i + 1]
  BY <1>1, HeadTailProperties
<1>3. Len(canal) \in Nat \ {0} /\ Head(canal) = canal[1]
  BY <1>1, EmptySeq
<1>4. 1 \in DOMAIN canal /\ Head(canal) \in M
  <2>1. 1 \in 1 .. Len(canal) BY <1>3
  <2>. QED BY <1>1, <2>1, <1>3, HeadTailProperties
<1>5. \A i \in DOMAIN Tail(canal) : Len(Tail(canal)[i].d) <= 1
  <2>. SUFFICES ASSUME NEW i \in DOMAIN Tail(canal)
                PROVE  Len(Tail(canal)[i].d) <= 1
    OBVIOUS
  <2>1. i \in 1 .. Len(Tail(canal)) BY <1>2, LenProperties
  <2>2. i + 1 \in DOMAIN canal BY <1>1, <1>2, <1>3, <2>1
  <2>. QED BY <1>2, <2>1, <2>2 DEF Tipos
<1>. QED BY <1>2, <1>3, <1>4, <1>5 DEF Tipos

(* The threads of the kernel touch neither the table nor the reader.       *)
LEMMA PasoKernel ==
  ASSUME IInv, Consola \/ ExecutePcb PROVE IInv'
<1>. USE DEF IInv
<1>. DEFINE Canal == /\ canal' \in Seq([h : Cabeceras, d : Seq(Nat)])
                     /\ \A i \in DOMAIN canal' : Len(canal'[i].d) <= 1
            Pedido == pedido' \in [pid : Nat, limite : Nat, id : Nat]
<1>1. UNCHANGED memVars
  BY DEF Consola, ExecutePcb, AvisaProceso, MandaPid, PideSegmento,
         MaximoAlcanzado, BorraSegmento, MandaDatos, RecibeHeader,
         RecibeSegmento
<1>2. Canal /\ Pedido
  <2>1. << >> \in Seq(Nat) /\ Len(<< >>) <= 1 OBVIOUS
  <2>2. \A n \in Nat : <<n>> \in Seq(Nat) /\ Len(<<n>>) <= 1 OBVIOUS
  <2>3. \A h \in Cabeceras : Manda(h, << >>) => Canal BY <2>1, AlCanal
  <2>4. \A h \in Cabeceras, n \in Nat : Manda(h, <<n>>) => Canal
    BY <2>2, AlCanal
  <2>5. UNCHANGED canal => Canal BY DEF Tipos
  <2>6. UNCHANGED pedido => Pedido BY DEF Tipos
  <2>7. pedido.pid \in Nat /\ pedido.limite \in Nat /\ pedido.id \in Nat
    BY DEF Tipos
  <2>. HIDE DEF Canal, Pedido
  <2>. USE DEF Cabeceras, Vacio
  <2>8. ASSUME NEW p \in Pid, AvisaProceso(p) \/ MandaPid(p)
        PROVE  Canal /\ Pedido
    BY <2>3, <2>4, <2>6, <2>8, MemoriaAssumption DEF AvisaProceso, MandaPid
  <2>9. ASSUME NEW p \in Pid, PideSegmento(p) PROVE Canal /\ Pedido
    <3>1. Pedido BY <2>9, MemoriaAssumption DEF PideSegmento, Pedido
    <3>. QED BY <3>1, <2>3, <2>9 DEF PideSegmento
  <2>10. ASSUME NEW p \in Pid, MaximoAlcanzado(p) PROVE Canal /\ Pedido
    BY <2>5, <2>6, <2>10 DEF MaximoAlcanzado
  <2>11. ASSUME NEW p \in Pid, BorraSegmento(p) PROVE Canal /\ Pedido
    BY <2>3, <2>6, <2>11 DEF BorraSegmento
  <2>12. ASSUME MandaDatos PROVE Canal /\ Pedido
    BY <2>4, <2>6, <2>7, <2>12 DEF MandaDatos
  <2>13. ASSUME RecibeHeader PROVE Canal /\ Pedido
    BY <2>3, <2>5, <2>6, <2>13 DEF RecibeHeader
  <2>14. ASSUME RecibeSegmento PROVE Canal /\ Pedido
    BY <2>5, <2>14 DEF RecibeSegmento, NoPedido, Pedido
  <2>. QED BY <2>8, <2>9, <2>10, <2>11, <2>12, <2>13, <2>14
           DEF Consola, ExecutePcb
<1>3. UNCHANGED <<ocupados, tabla, mem, recibido>> BY <1>1 DEF memVars
<1>4. Tipos' BY <1>2, <1>3 DEF Tipos
<1>5. Recibidos' /\ NuncaElige' BY <1>3 DEF Recibidos, NuncaElige
<1>6. Apilados' /\ MapaExacto' BY <1>3 DEF Apilados, Tope, MapaExacto
<1>. QED BY <1>4, <1>5, <1>6

(* Reading a message changes only the reader.                              *)
LEMMA PasoLee ==
  ASSUME IInv, LeePedido \/ LeeDato \/ Compacta PROVE IInv'
<1>. USE DEF IInv
<1>1. canal # << >> /\ canal' = Tail(canal)
      /\ UNCHANGED <<ocupados, tabla, pedido>>
  BY DEF LeePedido, LeeDato, Compacta, kernelVars
<1>2. Apilados' /\ MapaExacto' BY <1>1 DEF Apilados, Tope, MapaExacto
<1>3. NuncaElige' BY DEF NuncaElige, LeePedido, LeeDato, Compacta, Tras
<1>4. recibido' \in Seq(Nat) /\ Recibidos'
  <2>1. CASE LeePedido
    BY <2>1 DEF LeePedido, Recibidos, Tipos
  <2>2. CASE Compacta
    BY <2>2 DEF Compacta, Recibidos, Tipos
  <2>3. CASE LeeDato
    <3>. DEFINE d == Head(canal).d
    <3>1. d \in Seq(Nat) /\ Len(d) <= 1 BY <1>1, DelCanal
    <3>2. CASE d = Vacio
      BY <2>3, <3>2 DEF LeeDato, Recibidos, Tipos
    <3>3. CASE d # Vacio
      <4>1. Len(d) = 1
        BY <3>1, <3>3, UnInt DEF Vacio
      <4>2. /\ recibido \o d \in Seq(Nat)
            /\ Len(recibido \o d) = Len(recibido) + 1
        BY <3>1, <4>1, Agregado DEF Tipos
      <4>3. mem \in {"pid", "tamanio", "id", "proceso"} /\ mem' = Tras(mem)
        BY <2>3, <3>3 DEF LeeDato
      <4>4. recibido' = IF mem = "proceso" THEN << >> ELSE recibido \o d
        BY <2>3, <3>3 DEF LeeDato
      <4>5. CASE mem = "proceso"
        BY <4>3, <4>4, <4>5 DEF Recibidos, Tras
      <4>6. CASE mem \in {"pid", "tamanio", "id"}
        <5>1. recibido' \in Seq(Nat) /\ Len(recibido') = Len(recibido) + 1
          BY <4>2, <4>4, <4>6
        <5>2. CASE mem = "pid"
          <6>1. mem' = "tamanio" BY <4>3, <5>2 DEF Tras
          <6>. QED BY <5>1, <5>2, <6>1 DEF Recibidos
        <5>3. CASE mem = "tamanio"
          <6>1. mem' = "id" BY <4>3, <5>3 DEF Tras
          <6>2. Len(recibido) = 1 BY <5>3 DEF Recibidos
          <6>3. Len(recibido') = 2 BY <5>1, <6>2
          <6>. QED BY <5>1, <6>1, <6>3 DEF Recibidos
        <5>4. CASE mem = "id"
          <6>1. mem' = "crea" BY <4>3, <5>4 DEF Tras
          <6>2. Len(recibido) = 2 BY <5>4 DEF Recibidos
          <6>3. Len(recibido') = 3 BY <5>1, <6>2
          <6>. QED BY <5>1, <6>1, <6>3 DEF Recibidos
        <5>. QED BY <4>6, <5>2, <5>3, <5>4
      <4>. QED BY <4>3, <4>5, <4>6
    <3>. QED BY <3>2, <3>3
  <2>. QED BY <2>1, <2>2, <2>3
<1>5. Tipos' BY <1>1, <1>4, DelCanal DEF Tipos
<1>. QED BY <1>2, <1>3, <1>4, <1>5
(* A new segment goes on top of the last one.                              *)
LEMMA PasoCrea ==
  ASSUME IInv, CreaSegmento PROVE IInv'
<1>. USE DEF IInv
<1>. DEFINE n == recibido[2]
<1>1. /\ recibido[1] \in Nat /\ n \in Nat /\ recibido[3] \in Nat
  <2>1. Len(recibido) = 3 BY DEF CreaSegmento, Recibidos
  <2>2. recibido \in Seq(Nat) BY DEF Tipos
  <2>3. \A i \in 1 .. 3 : recibido[i] \in Nat BY <2>1, <2>2, LenProperties
  <2>. QED BY <2>3
<1>2. /\ Len(tabla) \in Nat \ {0} /\ DOMAIN tabla = 1 .. Len(tabla)
      /\ \A i \in 1 .. Len(tabla) : /\ tabla[i] \in Entrada
                                   /\ tabla[i].base \in Nat
                                   /\ tabla[i].limite \in Nat
  <2>1. tabla \in Seq(Entrada) /\ tabla # << >> BY DEF Tipos
  <2>2. Len(tabla) \in Nat \ {0} /\ DOMAIN tabla = 1 .. Len(tabla)
    BY <2>1, EmptySeq, LenProperties
  <2>3. \A i \in 1 .. Len(tabla) : tabla[i] \in Entrada
    BY <2>1, ElementOfSeq
  <2>. QED BY <2>2, <2>3 DEF Entrada
<1>3. Tope \in Nat /\ Tope <= TamMemoria /\ ocupados = 0 .. Tope
  BY <1>2 DEF Apilados, Tope
<1>4. PICK h \in Posibles(n) : TRUE BY DEF CreaSegmento
<1>5. /\ Posibles(n) = {h} /\ h.base = BaseLibre(Tope)
      /\ h.base + n <= TamMemoria
  BY <1>1, <1>3, <1>4, DondeCabe
<1>6. h.base \in Nat /\ Tope <= h.base /\ h.base <= Tope + 1
  BY <1>3, <1>5, MemoriaAssumption DEF BaseLibre
<1>. DEFINE s == Segmento(recibido[3], h.base, n, recibido[1])
<1>7. /\ ocupados' = OcuparBitMap(h.base, n) /\ tabla' = Append(tabla, s)
      /\ mem' = "pedido" /\ recibido' = << >>
      /\ UNCHANGED <<canal, pedido>>
  BY <1>4, <1>5 DEF CreaSegmento, kernelVars
<1>8. s \in Entrada /\ s.base = h.base /\ s.limite = n
  BY <1>1, <1>2, <1>6 DEF Segmento, Entrada
<1>. HIDE DEF s, n
<1>9. /\ tabla' \in Seq(Entrada) /\ Len(tabla') = Len(tabla) + 1
      /\ DOMAIN tabla' = 1 .. Len(tabla) + 1
      /\ \A i \in 1 .. Len(tabla) : tabla'[i] = tabla[i]
      /\ tabla'[Len(tabla) + 1] = s
  BY <1>7, <1>8 DEF Tipos
<1>10. ocupados' = 0 .. h.base + n
  BY <1>1, <1>3, <1>5, <1>6, <1>7 DEF OcuparBitMap
<1>11. Tipos'
  <2>1. tabla' # << >> BY <1>2, <1>9, EmptySeq
  <2>2. ocupados' \subseteq Nat BY <1>1, <1>6, <1>10
  <2>. QED BY <1>7, <1>9, <2>1, <2>2 DEF Tipos
<1>12. Recibidos' BY <1>7 DEF Recibidos
<1>13. Apilados'
  <2>1. Tope' = h.base + n BY <1>8, <1>9 DEF Tope
  <2>2. \A i \in 1 .. Len(tabla) : tabla[i].base + tabla[i].limite <= Tope
    <3>. SUFFICES ASSUME NEW i \in 1 .. Len(tabla)
                  PROVE  tabla[i].base + tabla[i].limite <= Tope
      OBVIOUS
    <3>1. CASE i = Len(tabla) BY <1>2, <3>1 DEF Tope
    <3>2. CASE i < Len(tabla)
      <4>1. tabla[i].base + tabla[i].limite <= tabla[Len(tabla)].base
        BY <1>2, <3>2 DEF Apilados
      <4>. QED BY <1>2, <4>1 DEF Tope
    <3>3. Len(tabla) \in Nat BY <1>2
    <3>. QED BY <3>1, <3>2, <3>3
  <2>3. ASSUME NEW i \in DOMAIN tabla', NEW j \in DOMAIN tabla', i < j
        PROVE  tabla'[i].base + tabla'[i].limite <= tabla'[j].base
    <3>1. i \in 1 .. Len(tabla) BY <1>2, <1>9, <2>3
    <3>2. CASE j = Len(tabla) + 1
      <4>1. tabla[i].base + tabla[i].limite <= h.base
        BY <1>2, <1>3, <1>6, <2>2, <3>1
      <4>. QED BY <1>8, <1>9, <3>1, <3>2, <4>1
    <3>3. CASE j \in 1 .. Len(tabla)
      BY <1>2, <1>9, <2>3, <3>1, <3>3 DEF Apilados
    <3>. QED BY <1>2, <1>9, <3>2, <3>3
  <2>. QED BY <1>5, <1>10, <2>1, <2>3 DEF Apilados
<1>14. MapaExacto'
  <2>1. {tabla'[i] : i \in DOMAIN tabla'}
          = {tabla[i] : i \in DOMAIN tabla} \union {s}
    <3>1. DOMAIN tabla' = DOMAIN tabla \union {Len(tabla) + 1}
      BY <1>2, <1>9
    <3>2. \A i \in DOMAIN tabla : tabla'[i] = tabla[i]
      BY <1>2, <1>9
    <3>. QED BY <1>9, <3>1, <3>2
  <2>2. ocupados' = ocupados \union (s.base .. s.base + s.limite)
    BY <1>7, <1>8 DEF OcuparBitMap
  <2>. QED BY <2>1, <2>2 DEF MapaExacto
<1>15. NuncaElige' BY <1>7 DEF NuncaElige
<1>. QED BY <1>11, <1>12, <1>13, <1>14, <1>15

LEMMA PasoPideCompactar ==
  ASSUME IInv, PideCompactar PROVE IInv'
<1>. USE DEF IInv
<1>1. UNCHANGED <<ocupados, tabla, recibido, canal, pedido>> /\ mem' = "compacta"
  BY DEF PideCompactar, kernelVars
<1>2. Tipos' BY <1>1 DEF Tipos
<1>3. Recibidos' BY <1>1 DEF Recibidos
<1>4. Apilados' /\ MapaExacto' BY <1>1 DEF Apilados, Tope, MapaExacto
<1>5. NuncaElige' BY <1>1 DEF NuncaElige
<1>. QED BY <1>2, <1>3, <1>4, <1>5

THEOREM MemoriaInv == Spec => []IInv
<1>1. IInv /\ [Next]_vars => IInv'
  <2>. SUFFICES ASSUME IInv, [Next]_vars PROVE IInv' OBVIOUS
  <2>1. CASE UNCHANGED vars
    <3>. USE DEF IInv
    <3>1. UNCHANGED <<ocupados, tabla, mem, recibido, canal, pedido>>
      BY <2>1 DEF vars, memVars, kernelVars
    <3>2. Tipos' BY <3>1 DEF Tipos
    <3>3. Recibidos' /\ NuncaElige' BY <3>1 DEF Recibidos, NuncaElige
    <3>4. Apilados' /\ MapaExacto' BY <3>1 DEF Apilados, Tope, MapaExacto
    <3>. QED BY <3>2, <3>3, <3>4
  <2>2. CASE Next
    <3>1. CASE Consola \/ ExecutePcb BY <3>1, PasoKernel
    <3>2. CASE LeePedido \/ LeeDato \/ Compacta BY <3>2, PasoLee
    <3>3. CASE CreaSegmento BY <3>3, PasoCrea
    <3>4. CASE PideCompactar BY <3>4, PasoPideCompactar
    <3>. QED BY <2>2, <3>1, <3>2, <3>3, <3>4 DEF Next, PeticionesKernel
  <2>. QED BY <2>1, <2>2
<1>. QED BY <1>1, Inicial, PTL DEF Spec

(* Segments never share a byte nor leave the memory.                       *)
THEOREM SegmentosInvariante == Spec => []SegmentosDisjuntos
<1>1. IInv => SegmentosDisjuntos
  <2>. SUFFICES ASSUME IInv PROVE SegmentosDisjuntos OBVIOUS
  <2>. USE DEF IInv
  <2>1. /\ Len(tabla) \in Nat \ {0} /\ DOMAIN tabla = 1 .. Len(tabla)
        /\ \A i \in 1 .. Len(tabla) : /\ tabla[i].base \in Nat
                                     /\ tabla[i].limite \in Nat
    <3>1. tabla \in Seq(Entrada) /\ tabla # << >> BY DEF Tipos
    <3>2. Len(tabla) \in Nat \ {0} /\ DOMAIN tabla = 1 .. Len(tabla)
      BY <3>1, EmptySeq, LenProperties
    <3>3. \A i \in 1 .. Len(tabla) : tabla[i] \in Entrada
      BY <3>1, ElementOfSeq
    <3>. QED BY <3>2, <3>3 DEF Entrada
  <2>2. ASSUME NEW i \in DOMAIN tabla, NEW j \in DOMAIN tabla, i < j
        PROVE  Bytes(tabla[i]) \intersect Bytes(tabla[j]) = {}
    <3>1. tabla[i].base + tabla[i].limite <= tabla[j].base
      BY <2>2 DEF Apilados
    <3>2. /\ tabla[i].base \in Nat /\ tabla[i].limite \in Nat
          /\ tabla[j].base \in Nat /\ tabla[j].limite \in Nat
      BY <2>1, <2>2
    <3>. HIDE DEF IInv
    <3>. SUFFICES ASSUME NEW x \in Bytes(tabla[i]), x \in Bytes(tabla[j])
                  PROVE  FALSE
      OBVIOUS
    <3>3. x \in Int /\ x <= tabla[i].base + tabla[i].limite - 1
      BY <3>2 DEF Bytes
    <3>4. x >= tabla[j].base
      BY <3>2 DEF Bytes
    <3>. QED BY <3>1, <3>2, <3>3, <3>4
  <2>3. ASSUME NEW i \in DOMAIN tabla
        PROVE  tabla[i].base + tabla[i].limite <= TamMemoria
    <3>1. CASE i = Len(tabla) BY <3>1 DEF Apilados, Tope
    <3>2. CASE i < Len(tabla)
      <4>1. tabla[i].base + tabla[i].limite <= tabla[Len(tabla)].base
        BY <2>1, <3>2 DEF Apilados
      <4>. QED BY <2>1, <4>1, MemoriaAssumption DEF Apilados, Tope
    <3>. QED BY <2>1, <3>1, <3>2
  <2>. QED BY <2>1, <2>2, <2>3 DEF SegmentosDisjuntos
<1>. QED BY <1>1, MemoriaInv, PTL

(* The bitmap is exactly what the table says.                              *)
THEOREM MapaInvariante == Spec => []MapaExacto
<1>1. IInv => MapaExacto BY DEF IInv
<1>. QED BY <1>1, MemoriaInv, PTL

(* The choice among several holes is never made.                           *)
THEOREM NuncaEligeInvariante == Spec => []NuncaElige
<1>1. IInv => NuncaElige BY DEF IInv
<1>. QED BY <1>1, MemoriaInv, PTL

-----------------------------------------------------------------------------
(* The socket.  CREAR_PROCESO comes in two messages, a notice and a number,*)
(* and a request in four; both are read by a memoria that looks at headers *)
(* only between two of them.                                               *)
Mensaje   == [h : Cabeceras, d : Seq(Nat)]
Aviso     == Msg("CREAR_PROCESO", Vacio)
Numero(p) == Msg("CREAR_PROCESO", <<p>>)

(* Every console whose number is not yet sent, or not yet read, has a      *)
(* notice of its own before that number: one in the channel, at f[p], or   *)
(* (f[p] = 0) the one memoria has just read.                               *)
Pendiente(p) == consola[p] = "avisado" \/ \E i \in DOMAIN canal : canal[i] = Numero(p)
Emparejadas(f) ==
  /\ \A p \in Pid : Pendiente(p) =>
       IF f[p] = 0 THEN mem = "proceso"
       ELSE f[p] \in DOMAIN canal /\ canal[f[p]] = Aviso
  /\ \A p, q \in Pid : Pendiente(p) /\ Pendiente(q) /\ f[p] = f[q] => p = q
  /\ \A p \in Pid, i \in DOMAIN canal : canal[i] = Numero(p) => f[p] < i
Numeros ==
  /\ \A p \in Pid, i \in DOMAIN canal : canal[i] = Numero(p) =>
       /\ consola[p] = "fin"
       /\ \A j \in DOMAIN canal : canal[j] = Numero(p) => i = j
  /\ \A i \in DOMAIN canal : canal[i].h = "CREAR_PROCESO" =>
       canal[i] = Aviso \/ \E p \in Pid : canal[i] = Numero(p)
Consolas == Numeros /\ \E f \in [Pid -> Int] : Emparejadas(f)

(* Message k of the request, and the place g[k] of the ones that memoria   *)
(* has still to read: those after the c-th, up to the e-th, in their order *)
(* and with no other message of execute_pcb among them.                    *)
MsgE(k) == CASE k = 1 -> Msg("I_CREATE_SEGMENT", Vacio)
             [] k = 2 -> Msg("header_resultado", <<pedido.pid>>)
             [] k = 3 -> Msg("header_resultado", <<pedido.limite>>)
             [] k = 4 -> Msg("header_resultado", <<pedido.id>>)
Ordenados(g, c, e) ==
  /\ \A k \in c + 1 .. e : g[k] \in DOMAIN canal /\ canal[g[k]] = MsgE(k)
  /\ \A k, l \in c + 1 .. e : k < l => g[k] < g[l]
  /\ \A i \in DOMAIN canal :
       canal[i].h # "CREAR_PROCESO" => \E k \in c + 1 .. e : i = g[k]
EnOrden(c, e) == c <= e /\ \E g \in [1 .. 4 -> Int] : Ordenados(g, c, e)
SinPedidos == \A i \in DOMAIN canal : canal[i].h = "CREAR_PROCESO"

(* How many of them memoria has read and execute_pcb has sent, and what    *)
(* memoria has kept.                                                       *)
Leidos   == CASE mem \in {"pedido", "proceso"} -> 0
              [] mem = "pid" -> 1 [] mem = "tamanio" -> 2
              [] mem = "id"  -> 3 [] mem = "crea"    -> 4
Mandados == CASE en = "mandaPid" -> 1 [] en = "mandaTamanio" -> 2
              [] en = "mandaId"  -> 3 [] en = "esperaHeader" -> 4
Datos == CASE mem \in {"pedido", "proceso", "pid"} -> << >>
           [] mem = "tamanio" -> <<pedido.pid>>
           [] mem = "id"      -> <<pedido.pid, pedido.limite>>
           [] mem = "crea"    -> <<pedido.pid, pedido.limite, pedido.id>>

(* The answers: the segment that was made is the last of the table and is  *)
(* the one asked for.                                                      *)
Ultimo   == tabla[Len(tabla)]
Pedido   == /\ Ultimo.pid = pedido.pid /\ Ultimo.id = pedido.id
            /\ Ultimo.limite = pedido.limite
Creado   == Msg("header_general", <<Ultimo>>)
DosRtas  == respuestas = <<Msg("header_general", Vacio), Creado>> /\ Pedido
UnaRta   == respuestas = <<Creado>> /\ Pedido
Compactar == respuestas = <<Msg("header_compactacion", Vacio)>>
Callada  == respuestas = << >>

(* The phases of a request, while both processes live.                     *)
Leyendo  == {"pedido", "proceso", "pid", "tamanio", "id", "crea"}
Pidiendo == {"mandaPid", "mandaTamanio", "mandaId", "esperaHeader"}
Oyendo   == mem \in {"pedido", "proceso"} /\ SinPedidos
Fases ==
  \/ en \in {"libre", "enExit"} /\ Callada /\ Oyendo
  \/ /\ en \in Pidiendo /\ Callada /\ mem \in Leyendo
     /\ EnOrden(Leidos, Mandados) /\ recibido = Datos
  \/ en = "esperaHeader" /\ DosRtas /\ Oyendo
  \/ en = "esperaSegmento" /\ UnaRta /\ Oyendo
  \/ en = "esperaHeader" /\ Compactar /\ mem = "compacta"
  \/ en = "compacta" /\ Callada /\ mem = "compacta"

(* What holds whoever has died.                                            *)
Respuestas == /\ Callada \/ DosRtas \/ UnaRta \/ Compactar
              /\ en \in Pidiendo \union {"esperaSegmento"} => pedido.pid \in Pid
Numerados  == \A i \in DOMAIN tabla : tabla[i].idSegPcb = IF i = 1 THEN 0 ELSE i
Etiquetas  ==
  /\ tablaPcb \in [Pid -> Seq(Entrada)]
  /\ mem \in Leyendo \union {"compacta"} \union Muertes
  /\ consola \in [Pid -> {"conecta", "avisado", "fin"}]
  /\ en \in Pidiendo \union {"libre", "esperaSegmento", "compacta", "enExit"}
  /\ kernelVivo \in BOOLEAN

IInv2 == /\ Vivos => Consolas /\ Fases
         /\ Respuestas /\ Numerados /\ Etiquetas /\ TablasCoinciden

-----------------------------------------------------------------------------
(* A message at the end of the channel.                                    *)
LEMMA Canal_Agrega ==
  ASSUME Tipos, NEW m, canal' = Append(canal, m)
  PROVE  /\ Len(canal) \in Nat /\ DOMAIN canal = 1 .. Len(canal)
         /\ DOMAIN canal' = 1 .. Len(canal) + 1
         /\ \A i \in 1 .. Len(canal) : canal'[i] = canal[i]
         /\ canal'[Len(canal) + 1] = m
  BY DEF Tipos

(* The first message of the channel is read.                               *)
LEMMA Canal_Saca ==
  ASSUME Tipos, canal # << >>, canal' = Tail(canal)
  PROVE  /\ Len(canal) \in Nat /\ Len(canal) >= 1 /\ DOMAIN canal = 1 .. Len(canal)
         /\ DOMAIN canal' = 1 .. Len(canal) - 1
         /\ \A i \in 1 .. Len(canal) - 1 : canal'[i] = canal[i + 1]
         /\ Head(canal) = canal[1] /\ 1 \in DOMAIN canal
<1>1. canal \in Seq(Mensaje)
  BY DEF Tipos, Mensaje
<1>2. Len(canal) \in Nat /\ Len(canal) # 0 /\ DOMAIN canal = 1 .. Len(canal)
  BY <1>1, EmptySeq, LenProperties
<1>3. /\ Tail(canal) \in Seq(Mensaje) /\ Len(Tail(canal)) = Len(canal) - 1
      /\ \A i \in 1 .. Len(Tail(canal)) : Tail(canal)[i] = canal[i + 1]
      /\ Head(canal) = canal[1]
  BY <1>1, HeadTailProperties
<1>4. DOMAIN Tail(canal) = 1 .. Len(canal) - 1
  BY <1>3, LenProperties
<1>. QED BY <1>2, <1>3, <1>4

(* Notices and numbers are told apart.                                     *)
LEMMA Avisos ==
  /\ Aviso.h = "CREAR_PROCESO" /\ Aviso.d = Vacio
  /\ \A p : /\ Numero(p).h = "CREAR_PROCESO" /\ Numero(p).d = <<p>>
            /\ Numero(p) # Aviso
  /\ \A p, q : Numero(p) = Numero(q) => p = q
<1>1. \A p : <<p>> # << >> /\ <<p>>[1] = p
  BY Z3
<1>. QED BY <1>1 DEF Aviso, Numero, Msg, Vacio

(* execute_pcb sends: the consoles' messages keep their places.            *)
LEMMA Consolas_Otro ==
  ASSUME Tipos, Consolas, NEW m, m.h # "CREAR_PROCESO", canal' = Append(canal, m),
         UNCHANGED <<consola, mem>>
  PROVE  Consolas'
<1>. DEFINE n == Len(canal)
<1>1. /\ n \in Nat /\ DOMAIN canal = 1 .. n /\ DOMAIN canal' = 1 .. n + 1
      /\ \A i \in 1 .. n : canal'[i] = canal[i] /\ canal'[n + 1] = m
  BY Canal_Agrega
<1>2. \A i \in 1 .. n + 1 : i \in 1 .. n \/ i = n + 1
  BY <1>1
<1>3. \A i \in 1 .. n : i \in 1 .. n + 1
  BY <1>1
<1>. HIDE DEF n
<1>4. \A p : canal'[n + 1] # Numero(p)
  BY <1>1, Avisos
<1>5. Numeros'
  BY <1>1, <1>2, <1>4 DEF Consolas, Numeros
<1>6. PICK f \in [Pid -> Int] : Emparejadas(f)
  BY DEF Consolas
<1>7. \A p \in Pid : Pendiente(p)' => Pendiente(p)
  BY <1>1, <1>2, <1>4 DEF Pendiente
<1>8. Emparejadas(f)'
  BY <1>1, <1>2, <1>3, <1>4, <1>6, <1>7 DEF Emparejadas
<1>. QED BY <1>5, <1>8 DEF Consolas

(* A console sends its notice.                                             *)
LEMMA Consolas_Aviso ==
  ASSUME Tipos, Etiquetas, Consolas, NEW p \in Pid, consola[p] = "conecta",
         consola' = [consola EXCEPT ![p] = "avisado"], canal' = Append(canal, Aviso),
         UNCHANGED mem
  PROVE  Consolas'
<1>. DEFINE n == Len(canal)
<1>1. /\ n \in Nat /\ DOMAIN canal = 1 .. n /\ DOMAIN canal' = 1 .. n + 1
      /\ \A i \in 1 .. n : canal'[i] = canal[i] /\ canal'[n + 1] = Aviso
  BY Canal_Agrega
<1>2. \A i \in 1 .. n + 1 : i \in 1 .. n \/ i = n + 1
  BY <1>1
<1>3. /\ \A i \in 1 .. n : i \in 1 .. n + 1 /\ i # n + 1 /\ i < n + 1
      /\ n + 1 \in 1 .. n + 1 /\ n + 1 # 0 /\ n + 1 \in Int /\ 0 \notin 1 .. n
  BY <1>1
<1>. HIDE DEF n
<1>4. \A q : canal'[n + 1] # Numero(q)
  BY <1>1, Avisos
<1>5. consola'[p] = "avisado" /\ \A q \in Pid \ {p} : consola'[q] = consola[q]
  BY DEF Etiquetas
<1>6. \A i \in 1 .. n : canal[i] # Numero(p)
  BY <1>1 DEF Consolas, Numeros
<1>7. Numeros'
  <2>1. \A q \in Pid, i \in DOMAIN canal' : canal'[i] = Numero(q) =>
          /\ consola'[q] = "fin"
          /\ \A j \in DOMAIN canal' : canal'[j] = Numero(q) => i = j
    BY <1>1, <1>2, <1>4, <1>5, <1>6 DEF Consolas, Numeros
  <2>2. \A i \in DOMAIN canal' : canal'[i].h = "CREAR_PROCESO" =>
          canal'[i] = Aviso \/ \E q \in Pid : canal'[i] = Numero(q)
    BY <1>1, <1>2 DEF Consolas, Numeros
  <2>. QED BY <2>1, <2>2 DEF Numeros
<1>8. PICK f \in [Pid -> Int] : Emparejadas(f)
  BY DEF Consolas
<1>9. PICK g \in [Pid -> Int] : g[p] = n + 1 /\ \A q \in Pid \ {p} : g[q] = f[q]
  <2>. DEFINE h == [f EXCEPT ![p] = n + 1]
  <2>1. h \in [Pid -> Int] /\ h[p] = n + 1 /\ \A q \in Pid \ {p} : h[q] = f[q]
    BY <1>3
  <2>. HIDE DEF h
  <2>. QED BY <2>1
<1>10. \A q \in Pid \ {p} : Pendiente(q)' => Pendiente(q)
  BY <1>1, <1>2, <1>4, <1>5 DEF Pendiente
<1>11. \A q \in Pid \ {p} : Pendiente(q) => f[q] = 0 \/ f[q] \in 1 .. n
  BY <1>1, <1>8 DEF Emparejadas
<1>12. Emparejadas(g)'
  <2>1. ASSUME NEW q \in Pid, Pendiente(q)'
        PROVE  IF g[q] = 0 THEN mem' = "proceso"
               ELSE g[q] \in DOMAIN canal' /\ canal'[g[q]] = Aviso
    <3>1. CASE q = p
      BY <1>1, <1>3, <1>9, <3>1
    <3>2. CASE q # p
      BY <1>1, <1>3, <1>8, <1>9, <1>10, <1>11, <2>1, <3>2 DEF Emparejadas
    <3>. QED BY <3>1, <3>2
  <2>2. ASSUME NEW q \in Pid, NEW r \in Pid, Pendiente(q)', Pendiente(r)', g[q] = g[r]
        PROVE  q = r
    BY <1>3, <1>8, <1>9, <1>10, <1>11, <2>2 DEF Emparejadas
  <2>3. ASSUME NEW q \in Pid, NEW i \in DOMAIN canal', canal'[i] = Numero(q)
        PROVE  g[q] < i
    BY <1>1, <1>2, <1>4, <1>6, <1>8, <1>9, <2>3 DEF Emparejadas
  <2>. QED BY <2>1, <2>2, <2>3 DEF Emparejadas
<1>. QED BY <1>7, <1>9, <1>12 DEF Consolas

(* A console sends its number: its notice is before it.                    *)
LEMMA Consolas_Numero ==
  ASSUME Tipos, Etiquetas, Consolas, NEW p \in Pid, consola[p] = "avisado",
         consola' = [consola EXCEPT ![p] = "fin"], canal' = Append(canal, Numero(p)),
         UNCHANGED mem
  PROVE  Consolas'
<1>. DEFINE n == Len(canal)
<1>1. /\ n \in Nat /\ DOMAIN canal = 1 .. n /\ DOMAIN canal' = 1 .. n + 1
      /\ \A i \in 1 .. n : canal'[i] = canal[i] /\ canal'[n + 1] = Numero(p)
  BY Canal_Agrega
<1>2. \A i \in 1 .. n + 1 : i \in 1 .. n \/ i = n + 1
  BY <1>1
<1>3. /\ \A i \in 1 .. n : i \in 1 .. n + 1 /\ i # n + 1 /\ i < n + 1
      /\ n + 1 \in 1 .. n + 1 /\ 0 < n + 1
  BY <1>1
<1>. HIDE DEF n
<1>4. consola'[p] = "fin" /\ \A q \in Pid \ {p} : consola'[q] = consola[q]
  BY DEF Etiquetas
<1>5. \A i \in 1 .. n : canal[i] # Numero(p)
  BY <1>1 DEF Consolas, Numeros
<1>6. Numeros'
  <2>1. \A q \in Pid, i \in DOMAIN canal' : canal'[i] = Numero(q) =>
          /\ consola'[q] = "fin"
          /\ \A j \in DOMAIN canal' : canal'[j] = Numero(q) => i = j
    BY <1>1, <1>2, <1>4, <1>5, Avisos DEF Consolas, Numeros
  <2>2. \A i \in DOMAIN canal' : canal'[i].h = "CREAR_PROCESO" =>
          canal'[i] = Aviso \/ \E q \in Pid : canal'[i] = Numero(q)
    BY <1>1, <1>2 DEF Consolas, Numeros
  <2>. QED BY <2>1, <2>2 DEF Numeros
<1>7. PICK f \in [Pid -> Int] : Emparejadas(f)
  BY DEF Consolas
<1>8. \A q \in Pid : Pendiente(q)' => Pendiente(q)
  BY <1>1, <1>2, <1>4, Avisos DEF Pendiente
<1>9. Emparejadas(f)'
  <2>1. ASSUME NEW q \in Pid, Pendiente(q)'
        PROVE  IF f[q] = 0 THEN mem' = "proceso"
               ELSE f[q] \in DOMAIN canal' /\ canal'[f[q]] = Aviso
    BY <1>1, <1>3, <1>7, <1>8, <2>1 DEF Emparejadas
  <2>2. ASSUME NEW q \in Pid, NEW i \in DOMAIN canal', canal'[i] = Numero(q)
        PROVE  f[q] < i
    <3>1. CASE i \in 1 .. n
      BY <1>1, <1>7, <2>2, <3>1 DEF Emparejadas
    <3>2. CASE i = n + 1
      <4>1. q = p /\ Pendiente(p)
        BY <1>1, <2>2, <3>2, Avisos DEF Pendiente
      <4>. QED BY <1>1, <1>3, <1>7, <3>2, <4>1 DEF Emparejadas
    <3>. QED BY <1>1, <1>2, <3>1, <3>2
  <2>3. \A q, r \in Pid : Pendiente(q)' /\ Pendiente(r)' /\ f[q] = f[r] => q = r
    BY <1>7, <1>8 DEF Emparejadas
  <2>. QED BY <2>1, <2>2, <2>3 DEF Emparejadas
<1>. QED BY <1>6, <1>9 DEF Consolas

(* memoria reads a message; the notice of the console it is of, if it is a *)
(* number, was the one memoria had read before.                            *)
LEMMA Consolas_Lee ==
  ASSUME Tipos, Etiquetas, Consolas, canal # << >>, canal' = Tail(canal),
         UNCHANGED consola,
         \/ /\ mem # "proceso" /\ Head(canal) = Aviso /\ mem' = "proceso"
         \/ /\ mem # "proceso" /\ Head(canal).h # "CREAR_PROCESO" /\ mem' # "proceso"
         \/ /\ mem = "proceso" /\ Head(canal).h = "CREAR_PROCESO" /\ Head(canal) # Aviso
            /\ mem' # "proceso"
  PROVE  Consolas'
<1>. DEFINE n == Len(canal)
<1>1. /\ n \in Nat /\ n >= 1 /\ DOMAIN canal = 1 .. n /\ DOMAIN canal' = 1 .. n - 1
      /\ \A i \in 1 .. n - 1 : canal'[i] = canal[i + 1]
      /\ Head(canal) = canal[1] /\ 1 \in DOMAIN canal
  BY Canal_Saca
<1>2. /\ \A i \in 1 .. n - 1 : i + 1 \in 1 .. n /\ i + 1 # 1
      /\ \A i \in 1 .. n : i # 1 => i - 1 \in 1 .. n - 1 /\ (i - 1) + 1 = i
      /\ \A i, j \in 1 .. n - 1 : i + 1 = j + 1 => i = j
  BY <1>1
<1>. HIDE DEF n
<1>3. Numeros'
  BY <1>1, <1>2 DEF Consolas, Numeros
<1>4. PICK f \in [Pid -> Int] : Emparejadas(f)
  BY DEF Consolas
<1>5. PICK g \in [Pid -> Int] : \A p \in Pid : g[p] = f[p] - 1
  <2>. DEFINE h == [p \in Pid |-> f[p] - 1]
  <2>1. h \in [Pid -> Int] /\ \A p \in Pid : h[p] = f[p] - 1
    OBVIOUS
  <2>. HIDE DEF h
  <2>. QED BY <2>1
<1>6. ASSUME NEW p \in Pid, Pendiente(p)' PROVE Pendiente(p) /\ f[p] # 0
  <2>1. Pendiente(p)
    BY <1>1, <1>2, <1>6 DEF Pendiente
  <2>2. f[p] # 0
    <3>. SUFFICES ASSUME f[p] = 0 PROVE FALSE
      OBVIOUS
    <3>1. mem = "proceso"
      BY <1>4, <2>1 DEF Emparejadas
    <3>2. PICK q \in Pid : canal[1] = Numero(q)
      <4>1. canal[1].h = "CREAR_PROCESO" /\ canal[1] # Aviso
        BY <1>1, <3>1
      <4>. QED BY <1>1, <4>1 DEF Consolas, Numeros
    <3>3. f[q] < 1 /\ Pendiente(q)
      BY <1>1, <1>4, <3>2 DEF Emparejadas, Pendiente
    <3>4. f[q] = 0
      <4>1. f[q] = 0 \/ f[q] \in 1 .. n
        BY <1>1, <1>4, <3>3 DEF Emparejadas
      <4>. QED BY <1>1, <3>3, <4>1
    <3>5. p = q
      BY <1>4, <2>1, <3>3, <3>4 DEF Emparejadas
    <3>6. \E i \in DOMAIN canal : i # 1 /\ canal[i] = Numero(p)
      <4>1. consola[p] = "fin"
        BY <1>1, <3>2, <3>5 DEF Consolas, Numeros
      <4>. QED BY <1>1, <1>2, <1>6, <4>1 DEF Pendiente
    <3>7. \A i \in DOMAIN canal : canal[i] = Numero(p) => i = 1
      BY <1>1, <3>2, <3>5 DEF Consolas, Numeros
    <3>. QED BY <3>6, <3>7
  <2>. QED BY <2>1, <2>2
<1>7. ASSUME NEW p \in Pid, Pendiente(p)'
      PROVE  IF g[p] = 0 THEN mem' = "proceso"
             ELSE g[p] \in DOMAIN canal' /\ canal'[g[p]] = Aviso
  <2>1. f[p] \in 1 .. n /\ canal[f[p]] = Aviso
    BY <1>1, <1>4, <1>6, <1>7 DEF Emparejadas
  <2>2. CASE f[p] = 1
    <3>1. Head(canal) = Aviso /\ g[p] = 0
      BY <1>1, <1>5, <2>1, <2>2
    <3>. QED BY <3>1, Avisos
  <2>3. CASE f[p] # 1
    <3>1. g[p] \in 1 .. n - 1 /\ g[p] + 1 = f[p]
      BY <1>2, <1>5, <2>1, <2>3
    <3>2. g[p] # 0
      BY <1>1, <3>1
    <3>. QED BY <1>1, <2>1, <3>1, <3>2
  <2>. QED BY <2>2, <2>3
<1>8. ASSUME NEW p \in Pid, NEW q \in Pid, Pendiente(p)', Pendiente(q)', g[p] = g[q]
      PROVE  p = q
  <2>1. f[p] = f[q]
    BY <1>5, <1>8
  <2>. QED BY <1>4, <1>6, <1>8, <2>1 DEF Emparejadas
<1>9. ASSUME NEW p \in Pid, NEW i \in DOMAIN canal', canal'[i] = Numero(p)
      PROVE  g[p] < i
  <2>1. f[p] < i + 1 /\ i \in Int
    BY <1>1, <1>2, <1>4, <1>9 DEF Emparejadas
  <2>. QED BY <1>5, <2>1
<1>10. Emparejadas(g)'
  BY <1>7, <1>8, <1>9 DEF Emparejadas
<1>. QED BY <1>3, <1>10 DEF Consolas

(* A number is read only after its notice.                                 *)
LEMMA Consolas_Cabeza ==
  ASSUME Tipos, Consolas, canal # << >>, mem # "proceso",
         Head(canal).h = "CREAR_PROCESO", canal' = Tail(canal)
  PROVE  Head(canal) = Aviso
<1>1. Head(canal) = canal[1] /\ 1 \in DOMAIN canal /\ DOMAIN canal = 1 .. Len(canal)
  BY Canal_Saca
<1>2. PICK f \in [Pid -> Int] : Emparejadas(f)
  BY DEF Consolas
<1>3. ASSUME NEW p \in Pid, canal[1] = Numero(p) PROVE FALSE
  <2>1. f[p] < 1 /\ Pendiente(p)
    BY <1>1, <1>2, <1>3 DEF Emparejadas, Pendiente
  <2>2. f[p] \in 1 .. Len(canal)
    BY <1>1, <1>2, <2>1 DEF Emparejadas
  <2>. QED BY <2>1, <2>2
<1>. QED BY <1>1, <1>3 DEF Consolas, Numeros

(* A step that leaves the channel and the consoles alone.                  *)
LEMMA Consolas_Quietas ==
  ASSUME Consolas, UNCHANGED <<canal, consola>>, mem = "proceso" => mem' = "proceso"
  PROVE  Consolas'
<1>1. PICK f \in [Pid -> Int] : Emparejadas(f)
  BY DEF Consolas
<1>2. Numeros' /\ \A p \in Pid : Pendiente(p)' <=> Pendiente(p)
  BY DEF Consolas, Numeros, Pendiente
<1>3. Emparejadas(f)'
  BY <1>1, <1>2 DEF Emparejadas
<1>. QED BY <1>2, <1>3 DEF Consolas

-----------------------------------------------------------------------------
(* The messages of execute_pcb.                                            *)

(* Intervals of numbers, one longer or one further on.                     *)
LEMMA Intervalo_Crece ==
  ASSUME NEW c \in Int, NEW e \in Int, c <= e
  PROVE  /\ \A k \in c + 1 .. e + 1 : k \in c + 1 .. e \/ k = e + 1
         /\ \A k \in c + 1 .. e : k \in c + 1 .. e + 1 /\ k < e + 1 /\ ~(e + 1 < k)
         /\ e + 1 \in c + 1 .. e + 1 /\ ~(e + 1 < e + 1)
<1>1. \A k \in c + 1 .. e + 1 : k \in c + 1 .. e \/ k = e + 1
  OBVIOUS
<1>2. \A k \in c + 1 .. e : k \in c + 1 .. e + 1 /\ k < e + 1 /\ ~(e + 1 < k)
  OBVIOUS
<1>3. e + 1 \in c + 1 .. e + 1 /\ ~(e + 1 < e + 1)
  OBVIOUS
<1>. QED BY <1>1, <1>2, <1>3

(* An interval without its first number.                                   *)
LEMMA Intervalo_Cola ==
  ASSUME NEW c \in 0 .. 4, NEW e \in 0 .. 4
  PROVE  /\ \A l \in c + 2 .. e : l \in c + 1 .. e /\ c + 1 < l /\ l \in 1 .. 4
         /\ \A l \in c + 1 .. e : l # c + 1 => l \in c + 2 .. e
         /\ (c + 1) + 1 = c + 2
<1>1. \A l \in c + 2 .. e : l \in c + 1 .. e /\ c + 1 < l
  OBVIOUS
<1>2. \A l \in c + 2 .. e : l \in 1 .. 4
  OBVIOUS
<1>3. \A l \in c + 1 .. e : l # c + 1 => l \in c + 2 .. e
  OBVIOUS
<1>4. (c + 1) + 1 = c + 2
  OBVIOUS
<1>. QED BY <1>1, <1>2, <1>3, <1>4

(* Places in the channel, when they all go down by one.                    *)
LEMMA Lugar_Antes ==
  ASSUME NEW a \in Int, NEW b \in Int
  PROVE  /\ a < b => a - 1 < b - 1
         /\ a + 1 = b => b - 1 = a
  OBVIOUS

(* The messages of a console do not disturb those of a request.            *)
LEMMA Orden_Consola ==
  ASSUME Tipos, NEW c \in 0 .. 4, NEW e \in 0 .. 4, EnOrden(c, e), NEW m,
         m.h = "CREAR_PROCESO", canal' = Append(canal, m), UNCHANGED pedido
  PROVE  EnOrden(c, e)'
<1>1. /\ Len(canal) \in Nat /\ DOMAIN canal = 1 .. Len(canal)
      /\ DOMAIN canal' = 1 .. Len(canal) + 1
      /\ \A i \in 1 .. Len(canal) : canal'[i] = canal[i]
      /\ canal'[Len(canal) + 1] = m
  BY Canal_Agrega
<1>2. PICK g \in [1 .. 4 -> Int] : Ordenados(g, c, e)
  BY DEF EnOrden
<1>3. \A k : MsgE(k)' = MsgE(k)
  BY DEF MsgE
<1>4. \A i \in DOMAIN canal' : i \in DOMAIN canal \/ i = Len(canal) + 1
  BY <1>1
<1>5. DOMAIN canal \subseteq DOMAIN canal'
  BY <1>1
<1>6. Ordenados(g, c, e)'
  BY <1>1, <1>2, <1>3, <1>4, <1>5 DEF Ordenados
<1>. QED BY <1>6 DEF EnOrden

(* execute_pcb sends the next one.                                         *)
LEMMA Orden_Agrega ==
  ASSUME Tipos, NEW c \in 0 .. 4, NEW e \in 0 .. 3, EnOrden(c, e),
         canal' = Append(canal, MsgE(e + 1)), UNCHANGED pedido
  PROVE  EnOrden(c, e + 1)'
<1>. DEFINE n == Len(canal)
            m == MsgE(e + 1)
<1>1. /\ n \in Nat /\ DOMAIN canal = 1 .. n
      /\ DOMAIN canal' = 1 .. n + 1
      /\ \A i \in 1 .. n : canal'[i] = canal[i]
      /\ canal'[n + 1] = m
  BY Canal_Agrega
<1>. HIDE DEF n
<1>2. c <= e /\ \E g \in [1 .. 4 -> Int] : Ordenados(g, c, e)
  BY DEF EnOrden
<1>3. PICK f \in [1 .. 4 -> Int] : Ordenados(f, c, e)
  BY <1>2
<1>4. PICK g \in [1 .. 4 -> Int] : g[e + 1] = n + 1 /\ \A k \in c + 1 .. e : g[k] = f[k]
  <2>. DEFINE h == [f EXCEPT ![e + 1] = n + 1]
  <2>1. e + 1 \in 1 .. 4 /\ \A k \in c + 1 .. e : k \in 1 .. 4 /\ k # e + 1
    OBVIOUS
  <2>2. h \in [1 .. 4 -> Int] /\ h[e + 1] = n + 1 /\ \A k \in c + 1 .. e : h[k] = f[k]
    BY <1>1, <2>1
  <2>. HIDE DEF h
  <2>. QED BY <2>2
<1>5. \A k : MsgE(k)' = MsgE(k)
  BY DEF MsgE
<1>6. /\ \A k \in c + 1 .. e + 1 : k \in c + 1 .. e \/ k = e + 1
      /\ \A k \in c + 1 .. e : k \in c + 1 .. e + 1 /\ k < e + 1 /\ ~(e + 1 < k)
      /\ e + 1 \in c + 1 .. e + 1 /\ ~(e + 1 < e + 1)
  <2>1. c \in Int /\ e \in Int /\ c <= e
    BY <1>2
  <2>. QED BY <2>1, Intervalo_Crece
<1>7. /\ \A i \in DOMAIN canal' : i \in DOMAIN canal \/ i = n + 1
      /\ n + 1 \in DOMAIN canal'
      /\ \A i \in DOMAIN canal : i \in DOMAIN canal' /\ i < n + 1
  <2>1. /\ \A i \in 1 .. n + 1 : i \in 1 .. n \/ i = n + 1
        /\ n + 1 \in 1 .. n + 1
    BY <1>1
  <2>2. \A i \in 1 .. n : i \in 1 .. n + 1 /\ i < n + 1
    BY <1>1
  <2>. QED BY <1>1, <2>1, <2>2
<1>8. \A k \in c + 1 .. e + 1 : g[k] \in DOMAIN canal' /\ canal'[g[k]] = MsgE(k)
  BY <1>1, <1>3, <1>4, <1>6, <1>7 DEF Ordenados
<1>9. \A k, l \in c + 1 .. e + 1 : k < l => g[k] < g[l]
  <2>. SUFFICES ASSUME NEW k \in c + 1 .. e + 1, NEW l \in c + 1 .. e + 1, k < l
                PROVE  g[k] < g[l]
    OBVIOUS
  <2>1. k \in c + 1 .. e
    BY <1>6
  <2>2. CASE l = e + 1
    BY <1>3, <1>4, <1>7, <2>1, <2>2 DEF Ordenados
  <2>3. CASE l \in c + 1 .. e
    BY <1>3, <1>4, <2>1, <2>3 DEF Ordenados
  <2>. QED BY <1>6, <2>2, <2>3
<1>10. ASSUME NEW i \in DOMAIN canal', canal'[i].h # "CREAR_PROCESO"
       PROVE  \E k \in c + 1 .. e + 1 : i = g[k]
  <2>1. CASE i = n + 1
    BY <1>4, <1>6, <2>1
  <2>2. CASE i \in DOMAIN canal
    <3>1. canal[i].h # "CREAR_PROCESO"
      BY <1>1, <1>10, <2>2
    <3>2. PICK k \in c + 1 .. e : i = f[k]
      BY <1>3, <2>2, <3>1 DEF Ordenados
    <3>. QED BY <1>4, <1>6, <3>2
  <2>. QED BY <1>7, <2>1, <2>2
<1>11. Ordenados(g, c, e + 1)'
  BY <1>5, <1>8, <1>9, <1>10 DEF Ordenados
<1>12. c <= e + 1
  BY <1>2
<1>. QED BY <1>11, <1>12 DEF EnOrden

(* execute_pcb begins a request, with none in the channel.                 *)
LEMMA Orden_Empieza ==
  ASSUME Tipos, SinPedidos, canal' = Append(canal, Msg("I_CREATE_SEGMENT", Vacio))
  PROVE  EnOrden(0, 1)'
<1>. DEFINE n == Len(canal)
<1>1. /\ n \in Nat /\ DOMAIN canal = 1 .. n
      /\ DOMAIN canal' = 1 .. n + 1
      /\ \A i \in 1 .. n : canal'[i] = canal[i]
      /\ canal'[n + 1] = Msg("I_CREATE_SEGMENT", Vacio)
  BY Canal_Agrega
<1>. HIDE DEF n
<1>2. PICK g \in [1 .. 4 -> Int] : g[1] = n + 1
  <2>. DEFINE h == [k \in 1 .. 4 |-> n + 1]
  <2>1. h \in [1 .. 4 -> Int] /\ h[1] = n + 1
    BY <1>1
  <2>. HIDE DEF h
  <2>. QED BY <2>1
<1>3. MsgE(1)' = Msg("I_CREATE_SEGMENT", Vacio)
  BY DEF MsgE
<1>4. \A k : k \in 0 + 1 .. 1 <=> k = 1
  OBVIOUS
<1>5. \A i \in DOMAIN canal' : canal'[i].h # "CREAR_PROCESO" => i = n + 1
  BY <1>1 DEF SinPedidos
<1>6. Ordenados(g, 0, 1)'
  BY <1>1, <1>2, <1>3, <1>4, <1>5 DEF Ordenados
<1>. QED BY <1>6 DEF EnOrden

(* The first message of the channel, if it is not a console's, is the next *)
(* one of the request.                                                     *)
LEMMA Orden_Cabeza ==
  ASSUME Tipos, NEW c \in 0 .. 4, NEW e \in 0 .. 4, EnOrden(c, e), canal # << >>,
         Head(canal).h # "CREAR_PROCESO", canal' = Tail(canal), UNCHANGED pedido
  PROVE  c < e /\ Head(canal) = MsgE(c + 1) /\ EnOrden(c + 1, e)'
<1>. DEFINE n == Len(canal)
<1>1. /\ n \in Nat /\ n >= 1 /\ DOMAIN canal = 1 .. n /\ DOMAIN canal' = 1 .. n - 1
      /\ \A i \in 1 .. n - 1 : canal'[i] = canal[i + 1]
      /\ Head(canal) = canal[1] /\ 1 \in DOMAIN canal
  BY Canal_Saca
<1>. HIDE DEF n
<1>2. PICK f \in [1 .. 4 -> Int] : Ordenados(f, c, e)
  BY DEF EnOrden
<1>3. PICK k \in c + 1 .. e : f[k] = 1
  BY <1>1, <1>2 DEF Ordenados
<1>4. k = c + 1
  <2>. SUFFICES ASSUME k # c + 1 PROVE FALSE
    OBVIOUS
  <2>1. c + 1 \in c + 1 .. e /\ c + 1 < k
    OBVIOUS
  <2>2. f[c + 1] < 1 /\ f[c + 1] \in 1 .. n
    BY <1>1, <1>2, <1>3, <2>1 DEF Ordenados
  <2>. QED BY <1>1, <2>2
<1>5. c < e /\ c + 1 \in c + 1 .. e /\ f[c + 1] = 1
  BY <1>3, <1>4
<1>6. canal[1] = MsgE(c + 1)
  BY <1>2, <1>5 DEF Ordenados
<1>7. PICK g \in [1 .. 4 -> Int] : \A l \in 1 .. 4 : g[l] = f[l] - 1
  <2>. DEFINE h == [l \in 1 .. 4 |-> f[l] - 1]
  <2>1. h \in [1 .. 4 -> Int] /\ \A l \in 1 .. 4 : h[l] = f[l] - 1
    OBVIOUS
  <2>. HIDE DEF h
  <2>. QED BY <2>1
<1>8. \A l : MsgE(l)' = MsgE(l)
  BY DEF MsgE
<1>9. /\ \A l \in c + 2 .. e : l \in c + 1 .. e /\ c + 1 < l /\ l \in 1 .. 4
      /\ \A l \in c + 1 .. e : l # c + 1 => l \in c + 2 .. e
      /\ (c + 1) + 1 = c + 2
  BY Intervalo_Cola
<1>10. /\ \A i \in 1 .. n - 1 : i + 1 \in 1 .. n /\ i + 1 # 1
       /\ \A i \in 1 .. n : 1 < i => i - 1 \in 1 .. n - 1 /\ (i - 1) + 1 = i
  BY <1>1
<1>11. \A l \in c + 2 .. e : g[l] \in DOMAIN canal' /\ canal'[g[l]] = MsgE(l)
  <2>. SUFFICES ASSUME NEW l \in c + 2 .. e
                PROVE  g[l] \in DOMAIN canal' /\ canal'[g[l]] = MsgE(l)
    OBVIOUS
  <2>1. f[l] \in 1 .. n /\ canal[f[l]] = MsgE(l) /\ f[c + 1] < f[l]
    BY <1>1, <1>2, <1>5, <1>9 DEF Ordenados
  <2>2. g[l] = f[l] - 1 /\ 1 < f[l]
    BY <1>5, <1>7, <1>9, <2>1
  <2>. QED BY <1>1, <1>10, <2>1, <2>2
<1>12. \A l, r \in c + 2 .. e : l < r => g[l] < g[r]
  <2>. TAKE l, r \in c + 2 .. e
  <2>. HAVE l < r
  <2>1. f[l] < f[r] /\ l \in 1 .. 4 /\ r \in 1 .. 4
    BY <1>2, <1>9 DEF Ordenados
  <2>2. f[l] \in Int /\ f[r] \in Int /\ g[l] = f[l] - 1 /\ g[r] = f[r] - 1
    BY <1>7, <2>1
  <2>. QED BY <2>1, <2>2, Lugar_Antes
<1>13. ASSUME NEW i \in DOMAIN canal', canal'[i].h # "CREAR_PROCESO"
       PROVE  \E l \in c + 2 .. e : i = g[l]
  <2>1. i \in Int /\ i + 1 \in DOMAIN canal /\ i + 1 # 1
        /\ canal[i + 1].h # "CREAR_PROCESO"
    <3>1. i \in 1 .. n - 1
      BY <1>1, <1>13
    <3>2. i \in Int /\ i + 1 \in 1 .. n /\ i + 1 # 1
      BY <1>10, <3>1
    <3>3. canal'[i] = canal[i + 1]
      BY <1>1, <3>1
    <3>. QED BY <1>1, <1>13, <3>2, <3>3
  <2>2. PICK l \in c + 1 .. e : i + 1 = f[l]
    BY <1>2, <2>1 DEF Ordenados
  <2>3. l \in c + 2 .. e /\ l \in 1 .. 4
    BY <1>5, <1>9, <2>1, <2>2
  <2>4. f[l] \in Int /\ g[l] = f[l] - 1
    BY <1>7, <2>3
  <2>5. g[l] = i
    BY <2>1, <2>2, <2>4, Lugar_Antes
  <2>. QED BY <2>3, <2>5
<1>14. Ordenados(g, c + 1, e)'
  BY <1>8, <1>9, <1>11, <1>12, <1>13 DEF Ordenados
<1>15. c + 1 <= e
  BY <1>5
<1>. QED BY <1>1, <1>5, <1>6, <1>14, <1>15 DEF EnOrden

(* A message of a console is read.                                         *)
LEMMA Orden_LeeConsola ==
  ASSUME Tipos, NEW c \in 0 .. 4, NEW e \in 0 .. 4, EnOrden(c, e), canal # << >>,
         Head(canal).h = "CREAR_PROCESO", canal' = Tail(canal), UNCHANGED pedido
  PROVE  EnOrden(c, e)'
<1>. DEFINE n == Len(canal)
<1>1. /\ n \in Nat /\ n >= 1 /\ DOMAIN canal = 1 .. n /\ DOMAIN canal' = 1 .. n - 1
      /\ \A i \in 1 .. n - 1 : canal'[i] = canal[i + 1]
      /\ Head(canal) = canal[1] /\ 1 \in DOMAIN canal
  BY Canal_Saca
<1>. HIDE DEF n
<1>2. PICK f \in [1 .. 4 -> Int] : Ordenados(f, c, e)
  BY DEF EnOrden
<1>3. PICK g \in [1 .. 4 -> Int] : \A l \in 1 .. 4 : g[l] = f[l] - 1
  <2>. DEFINE h == [l \in 1 .. 4 |-> f[l] - 1]
  <2>1. h \in [1 .. 4 -> Int] /\ \A l \in 1 .. 4 : h[l] = f[l] - 1
    OBVIOUS
  <2>. HIDE DEF h
  <2>. QED BY <2>1
<1>4. \A l : MsgE(l)' = MsgE(l) /\ MsgE(1).h # "CREAR_PROCESO"
  BY DEF MsgE, Msg
<1>5. \A l \in c + 1 .. e : l \in 1 .. 4 /\ MsgE(l).h # "CREAR_PROCESO"
  <2>1. \A l \in c + 1 .. e : l = 1 \/ l = 2 \/ l = 3 \/ l = 4
    OBVIOUS
  <2>2. \A l \in {1, 2, 3, 4} : MsgE(l).h # "CREAR_PROCESO"
    BY DEF MsgE, Msg
  <2>. QED BY <2>1, <2>2
<1>6. /\ \A i \in 1 .. n - 1 : i + 1 \in 1 .. n /\ i + 1 # 1
      /\ \A i \in 1 .. n : i # 1 => i - 1 \in 1 .. n - 1 /\ (i - 1) + 1 = i
  BY <1>1
<1>7. \A l \in c + 1 .. e : g[l] \in DOMAIN canal' /\ canal'[g[l]] = MsgE(l)
  <2>. SUFFICES ASSUME NEW l \in c + 1 .. e
                PROVE  g[l] \in DOMAIN canal' /\ canal'[g[l]] = MsgE(l)
    OBVIOUS
  <2>1. f[l] \in 1 .. n /\ canal[f[l]] = MsgE(l) /\ g[l] = f[l] - 1
    BY <1>1, <1>2, <1>3, <1>5 DEF Ordenados
  <2>2. f[l] # 1
    BY <1>1, <1>5, <2>1
  <2>. QED BY <1>1, <1>6, <2>1, <2>2
<1>8. \A l, r \in c + 1 .. e : l < r => g[l] < g[r]
  <2>. TAKE l, r \in c + 1 .. e
  <2>. HAVE l < r
  <2>1. f[l] < f[r] /\ l \in 1 .. 4 /\ r \in 1 .. 4
    BY <1>2, <1>5 DEF Ordenados
  <2>2. f[l] \in Int /\ f[r] \in Int /\ g[l] = f[l] - 1 /\ g[r] = f[r] - 1
    BY <1>3, <2>1
  <2>. QED BY <2>1, <2>2, Lugar_Antes
<1>9. ASSUME NEW i \in DOMAIN canal', canal'[i].h # "CREAR_PROCESO"
      PROVE  \E l \in c + 1 .. e : i = g[l]
  <2>1. i \in Int /\ i + 1 \in DOMAIN canal /\ canal[i + 1].h # "CREAR_PROCESO"
    <3>1. i \in 1 .. n - 1
      BY <1>1, <1>9
    <3>2. i \in Int /\ i + 1 \in 1 .. n
      BY <1>6, <3>1
    <3>3. canal'[i] = canal[i + 1]
      BY <1>1, <3>1
    <3>. QED BY <1>1, <1>9, <3>2, <3>3
  <2>2. PICK l \in c + 1 .. e : i + 1 = f[l]
    BY <1>2, <2>1 DEF Ordenados
  <2>3. f[l] \in Int /\ g[l] = f[l] - 1
    BY <1>3, <1>5
  <2>4. g[l] = i
    BY <2>1, <2>2, <2>3, Lugar_Antes
  <2>. QED BY <2>4
<1>10. Ordenados(g, c, e)'
  BY <1>4, <1>7, <1>8, <1>9 DEF Ordenados
<1>. QED BY <1>10 DEF EnOrden

(* With the whole request read there is nothing of execute_pcb's left.     *)
LEMMA Orden_Fin == ASSUME EnOrden(4, 4) PROVE SinPedidos
<1>1. \A k : k \notin 4 + 1 .. 4
  OBVIOUS
<1>. QED BY <1>1 DEF EnOrden, Ordenados, SinPedidos

-----------------------------------------------------------------------------
(* The answers, and what they have in flight.                              *)
LEMMA Rtas ==
  /\ DosRtas   => /\ respuestas # << >> /\ Tail(respuestas) = <<Creado>>
                  /\ Head(respuestas).h = "header_general"
  /\ UnaRta    => /\ respuestas # << >> /\ Tail(respuestas) = << >>
                  /\ Head(respuestas).d = <<Ultimo>>
  /\ Compactar => /\ respuestas # << >> /\ Tail(respuestas) = << >>
                  /\ Head(respuestas).h = "header_compactacion"
<1>1. \A a, b : /\ <<a, b>> # << >> /\ Tail(<<a, b>>) = <<b>> /\ Head(<<a, b>>) = a
                /\ <<a>> # << >> /\ Tail(<<a>>) = << >> /\ Head(<<a>>) = a
  OBVIOUS
<1>2. /\ Msg("header_general", Vacio).h = "header_general"
      /\ Msg("header_compactacion", Vacio).h = "header_compactacion"
      /\ Creado.d = <<Ultimo>>
  BY DEF Msg, Creado
<1>3. DosRtas => /\ respuestas # << >> /\ Tail(respuestas) = <<Creado>>
                 /\ Head(respuestas).h = "header_general"
  BY <1>1, <1>2 DEF DosRtas
<1>4. UnaRta => /\ respuestas # << >> /\ Tail(respuestas) = << >>
                /\ Head(respuestas).d = <<Ultimo>>
  BY <1>1, <1>2 DEF UnaRta
<1>5. Compactar => /\ respuestas # << >> /\ Tail(respuestas) = << >>
                   /\ Head(respuestas).h = "header_compactacion"
  BY <1>1, <1>2 DEF Compactar
<1>. QED BY <1>3, <1>4, <1>5

LEMMA Vuelo ==
  /\ Callada \/ Compactar => EnVuelo = {}
  /\ DosRtas \/ UnaRta    => EnVuelo = {Ultimo}
<1>1. Creado.d = <<Ultimo>> /\ Creado.d # Vacio /\ Creado.d[1] = Ultimo
  BY DEF Creado, Msg, Vacio
<1>2. /\ Msg("header_general", Vacio).d = Vacio
      /\ Msg("header_compactacion", Vacio).d = Vacio
  BY DEF Msg
<1>3. \A a, b : /\ DOMAIN <<a, b>> = {1, 2} /\ <<a, b>>[1] = a /\ <<a, b>>[2] = b
                /\ DOMAIN <<a>> = {1} /\ <<a>>[1] = a
  OBVIOUS
<1>4. \A a, b : Elementos(<<a, b>>) = {a, b} /\ Elementos(<<a>>) = {a}
  BY <1>3 DEF Elementos
<1>5. Elementos(<< >>) = {}
  BY DEF Elementos
<1>6. Callada => EnVuelo = {}
  BY <1>5 DEF Callada, EnVuelo
<1>7. Compactar => EnVuelo = {}
  <2>. SUFFICES ASSUME Compactar PROVE EnVuelo = {}
    OBVIOUS
  <2>1. Elementos(respuestas) = {Msg("header_compactacion", Vacio)}
    BY <1>4 DEF Compactar
  <2>2. {x \in Elementos(respuestas) : x.d # Vacio} = {}
    BY <1>2, <2>1
  <2>. QED BY <2>2 DEF EnVuelo
<1>8. DosRtas => EnVuelo = {Ultimo}
  <2>. SUFFICES ASSUME DosRtas PROVE EnVuelo = {Ultimo}
    OBVIOUS
  <2>1. Elementos(respuestas) = {Msg("header_general", Vacio), Creado}
    BY <1>4 DEF DosRtas
  <2>2. {x \in Elementos(respuestas) : x.d # Vacio} = {Creado}
    BY <1>1, <1>2, <2>1
  <2>. QED BY <1>1, <2>2 DEF EnVuelo
<1>9. UnaRta => EnVuelo = {Ultimo}
  <2>. SUFFICES ASSUME UnaRta PROVE EnVuelo = {Ultimo}
    OBVIOUS
  <2>1. {x \in Elementos(respuestas) : x.d # Vacio} = {Creado}
    BY <1>1, <1>4 DEF UnaRta
  <2>. QED BY <1>1, <2>1 DEF EnVuelo
<1>. QED BY <1>6, <1>7, <1>8, <1>9

(* A step that changes neither the tables nor what is in flight.           *)
LEMMA Tablas_Quietas ==
  ASSUME TablasCoinciden, Numerados, UNCHANGED <<tabla, tablaPcb>>, EnVuelo' = EnVuelo
  PROVE  TablasCoinciden' /\ Numerados'
<1>1. \A q : Elementos(q)' = Elementos(q)
  BY DEF Elementos
<1>2. Elementos(tabla)' = Elementos(tabla)
  BY DEF Elementos
<1>3. \A p \in Pid : Elementos(tablaPcb[p])' = Elementos(tablaPcb[p])
  BY DEF Elementos
<1>4. TablasCoinciden'
  BY <1>2, <1>3 DEF TablasCoinciden
<1>5. Numerados'
  BY DEF Numerados
<1>. QED BY <1>4, <1>5

LEMMA Quietas ==
  ASSUME IInv2, UNCHANGED <<tabla, tablaPcb, respuestas, pedido>>, Etiquetas',
         en' \in Pidiendo \union {"esperaSegmento"}
           => en \in Pidiendo \union {"esperaSegmento"},
         Vivos' => Consolas' /\ Fases'
  PROVE  IInv2'
<1>1. EnVuelo' = EnVuelo
  BY DEF EnVuelo, Elementos
<1>2. TablasCoinciden' /\ Numerados'
  BY <1>1, Tablas_Quietas DEF IInv2
<1>3. Respuestas'
  BY DEF IInv2, Respuestas, Callada, DosRtas, UnaRta, Compactar, Creado, Pedido, Ultimo
<1>. QED BY <1>2, <1>3 DEF IInv2

(* The counts of a request are between 0 and 4.                            *)
LEMMA Cuentas ==
  /\ mem \in Leyendo => Leidos \in 0 .. 4
  /\ en \in Pidiendo => Mandados \in 0 .. 4
<1>1. /\ mem \in {"pedido", "proceso"} => Leidos = 0
      /\ mem = "pid" => Leidos = 1
      /\ mem = "tamanio" => Leidos = 2
  BY DEF Leidos
<1>2. /\ mem = "id" => Leidos = 3
      /\ mem = "crea" => Leidos = 4
  BY DEF Leidos
<1>3. en \in Pidiendo => Mandados \in 0 .. 4
  BY DEF Pidiendo, Mandados
<1>. QED BY <1>1, <1>2, <1>3 DEF Leyendo

-----------------------------------------------------------------------------
(* A console's message leaves the phase of the request as it is.           *)
LEMMA Fases_Consola ==
  ASSUME Tipos, Fases, NEW m, m.h = "CREAR_PROCESO", canal' = Append(canal, m),
         UNCHANGED <<mem, en, respuestas, tabla, recibido, pedido>>
  PROVE  Fases'
<1>1. /\ Callada' = Callada /\ DosRtas' = DosRtas /\ UnaRta' = UnaRta
      /\ Compactar' = Compactar /\ Leidos' = Leidos /\ Mandados' = Mandados
      /\ Datos' = Datos
  BY DEF Callada, DosRtas, UnaRta, Compactar, Creado, Pedido, Ultimo, Leidos,
         Mandados, Datos
<1>2. SinPedidos => SinPedidos'
  <2>. SUFFICES ASSUME SinPedidos, NEW i \in DOMAIN canal'
                PROVE  canal'[i].h = "CREAR_PROCESO"
    BY DEF SinPedidos
  <2>1. i \in DOMAIN canal \/ i = Len(canal) + 1
    BY Canal_Agrega
  <2>. QED BY <2>1, Canal_Agrega DEF SinPedidos
<1>3. Oyendo => Oyendo'
  BY <1>2 DEF Oyendo
<1>4. CASE /\ en \in Pidiendo /\ Callada /\ mem \in Leyendo
           /\ EnOrden(Leidos, Mandados) /\ recibido = Datos
  <2>1. Leidos \in 0 .. 4 /\ Mandados \in 0 .. 4
    BY <1>4, Cuentas
  <2>2. EnOrden(Leidos, Mandados)'
    BY <1>1, <1>4, <2>1, Orden_Consola
  <2>. QED BY <1>1, <1>4, <2>2 DEF Fases
<1>. QED BY <1>1, <1>3, <1>4 DEF Fases

(* nuevo_pcb_new.                                                          *)
LEMMA Socket_Consola ==
  ASSUME IInv, IInv2, Vivos, Consola PROVE IInv2'
<1>1. PICK p \in Pid : AvisaProceso(p) \/ MandaPid(p)
  BY DEF Consola
<1>2. /\ UNCHANGED <<mem, recibido, tabla, respuestas, en, pedido, tablaPcb, kernelVivo>>
      /\ Consolas /\ Fases /\ Tipos /\ Etiquetas
  BY <1>1 DEF AvisaProceso, MandaPid, memVars, IInv, IInv2
<1>3. CASE AvisaProceso(p)
  <2>1. /\ consola[p] = "conecta" /\ consola' = [consola EXCEPT ![p] = "avisado"]
        /\ canal' = Append(canal, Aviso)
    BY <1>3 DEF AvisaProceso, Manda, Aviso
  <2>2. Consolas'
    BY <1>2, <2>1, Consolas_Aviso
  <2>3. Fases'
    BY <1>2, <2>1, Fases_Consola, Avisos
  <2>4. Etiquetas'
    BY <1>2, <2>1 DEF Etiquetas
  <2>. QED BY <1>2, <2>2, <2>3, <2>4, Quietas
<1>4. CASE MandaPid(p)
  <2>1. /\ consola[p] = "avisado" /\ consola' = [consola EXCEPT ![p] = "fin"]
        /\ canal' = Append(canal, Numero(p))
    BY <1>4 DEF MandaPid, Manda, Numero
  <2>2. Consolas'
    BY <1>2, <2>1, Consolas_Numero
  <2>3. Fases'
    BY <1>2, <2>1, Fases_Consola, Avisos
  <2>4. Etiquetas'
    BY <1>2, <2>1 DEF Etiquetas
  <2>. QED BY <1>2, <2>2, <2>3, <2>4, Quietas
<1>. QED BY <1>1, <1>3, <1>4

(* execute_pcb, when it is free.                                           *)
LEMMA Socket_Libre ==
  ASSUME IInv, IInv2, Vivos, NEW p \in Pid,
         PideSegmento(p) \/ MaximoAlcanzado(p) \/ BorraSegmento(p)
  PROVE  IInv2'
<1>. USE DEF IInv, IInv2
<1>1. /\ en = "libre" /\ Callada /\ Oyendo /\ Consolas /\ Etiquetas
      /\ UNCHANGED <<mem, recibido, tabla, respuestas, consola, tablaPcb>>
  BY DEF PideSegmento, MaximoAlcanzado, BorraSegmento, memVars, Fases, Pidiendo
<1>2. Callada' /\ EnVuelo' = EnVuelo
  BY <1>1 DEF Callada, EnVuelo, Elementos
<1>3. TablasCoinciden' /\ Numerados'
  BY <1>1, <1>2, Tablas_Quietas
<1>4. CASE PideSegmento(p)
  <2>1. /\ pedido'.pid = p /\ en' = "mandaPid" /\ UNCHANGED kernelVivo
        /\ canal' = Append(canal, Msg("I_CREATE_SEGMENT", Vacio))
    BY <1>4 DEF PideSegmento, Manda
  <2>2. Consolas'
    <3>1. Msg("I_CREATE_SEGMENT", Vacio).h # "CREAR_PROCESO"
      BY DEF Msg
    <3>. QED BY <1>1, <2>1, <3>1, Consolas_Otro
  <2>3. EnOrden(0, 1)'
    BY <1>1, <2>1, Orden_Empieza DEF Oyendo
  <2>4. mem \in {"pedido", "proceso"} /\ recibido = << >>
    <3>1. mem \in {"pedido", "proceso"}
      BY <1>1 DEF Oyendo
    <3>2. Len(recibido) = 0 /\ recibido \in Seq(Nat)
      BY <3>1 DEF Recibidos, Tipos
    <3>. QED BY <3>1, <3>2, EmptySeq
  <2>5. Leidos' = 0 /\ Mandados' = 1 /\ Datos' = << >>
    BY <1>1, <2>1, <2>4 DEF Leidos, Mandados, Datos
  <2>6. Fases'
    BY <1>1, <1>2, <2>1, <2>3, <2>4, <2>5 DEF Fases, Pidiendo, Leyendo
  <2>7. Respuestas'
    BY <1>2, <2>1 DEF Respuestas
  <2>8. Etiquetas'
    BY <1>1, <2>1 DEF Etiquetas, Pidiendo
  <2>. QED BY <1>3, <2>2, <2>6, <2>7, <2>8
<1>5. CASE MaximoAlcanzado(p)
  <2>1. en' = "enExit" /\ UNCHANGED <<canal, pedido, kernelVivo>>
    BY <1>5 DEF MaximoAlcanzado
  <2>2. Consolas'
    BY <1>1, <2>1, Consolas_Quietas
  <2>3. Fases'
    BY <1>1, <1>2, <2>1 DEF Fases, Oyendo, SinPedidos
  <2>4. Etiquetas'
    BY <1>1, <2>1 DEF Etiquetas
  <2>5. en' \notin Pidiendo \union {"esperaSegmento"}
    BY <2>1 DEF Pidiendo
  <2>. QED BY <1>1, <2>1, <2>2, <2>3, <2>4, <2>5, Quietas
<1>6. CASE BorraSegmento(p)
  <2>1. kernelVivo' = FALSE /\ UNCHANGED <<en, pedido>>
    BY <1>6 DEF BorraSegmento
  <2>2. Etiquetas'
    BY <1>1, <2>1 DEF Etiquetas
  <2>3. ~Vivos'
    BY <2>1 DEF Vivos
  <2>. QED BY <1>1, <2>1, <2>2, <2>3, Quietas
<1>. QED BY <1>4, <1>5, <1>6

(* execute_pcb sends the three ints of the request.                        *)
LEMMA Socket_Datos ==
  ASSUME IInv, IInv2, Vivos, MandaDatos PROVE IInv2'
<1>. USE DEF IInv, IInv2
<1>1. UNCHANGED <<mem, recibido, tabla, respuestas, consola, pedido, tablaPcb, kernelVivo>>
  BY DEF MandaDatos, memVars
<1>2. en \in {"mandaPid", "mandaTamanio", "mandaId"}
  BY DEF MandaDatos
<1>3. /\ Callada /\ mem \in Leyendo /\ EnOrden(Leidos, Mandados) /\ recibido = Datos
      /\ Consolas /\ Etiquetas /\ Leidos \in 0 .. 4
  BY <1>2, Cuentas DEF Fases
<1>4. PICK k \in 1 .. 3 : /\ Mandados = k /\ canal' = Append(canal, MsgE(k + 1))
                         /\ Mandados' = k + 1 /\ en' \in Pidiendo
                         /\ MsgE(k + 1).h # "CREAR_PROCESO"
  <2>1. CASE en = "mandaPid"
    <3>1. /\ en' = "mandaTamanio"
          /\ canal' = Append(canal, Msg("header_resultado", <<pedido.pid>>))
      BY <2>1 DEF MandaDatos, Manda
    <3>2. /\ MsgE(1 + 1) = Msg("header_resultado", <<pedido.pid>>)
          /\ MsgE(1 + 1).h # "CREAR_PROCESO"
      BY DEF MsgE, Msg
    <3>3. Mandados = 1 /\ Mandados' = 1 + 1
      BY <2>1, <3>1 DEF Mandados
    <3>. QED BY <3>1, <3>2, <3>3 DEF Pidiendo
  <2>2. CASE en = "mandaTamanio"
    <3>1. /\ en' = "mandaId"
          /\ canal' = Append(canal, Msg("header_resultado", <<pedido.limite>>))
      BY <2>2 DEF MandaDatos, Manda
    <3>2. /\ MsgE(2 + 1) = Msg("header_resultado", <<pedido.limite>>)
          /\ MsgE(2 + 1).h # "CREAR_PROCESO"
      BY DEF MsgE, Msg
    <3>3. Mandados = 2 /\ Mandados' = 2 + 1
      BY <2>2, <3>1 DEF Mandados
    <3>. QED BY <3>1, <3>2, <3>3 DEF Pidiendo
  <2>3. CASE en = "mandaId"
    <3>1. /\ en' = "esperaHeader"
          /\ canal' = Append(canal, Msg("header_resultado", <<pedido.id>>))
      BY <2>3 DEF MandaDatos, Manda
    <3>2. /\ MsgE(3 + 1) = Msg("header_resultado", <<pedido.id>>)
          /\ MsgE(3 + 1).h # "CREAR_PROCESO"
      BY DEF MsgE, Msg
    <3>3. Mandados = 3 /\ Mandados' = 3 + 1
      BY <2>3, <3>1 DEF Mandados
    <3>. QED BY <3>1, <3>2, <3>3 DEF Pidiendo
  <2>. QED BY <1>2, <2>1, <2>2, <2>3
<1>5. Consolas'
  BY <1>1, <1>3, <1>4, Consolas_Otro
<1>6. PICK c \in 0 .. 4 : c = Leidos
  BY <1>3
<1>7. Leidos' = Leidos /\ Datos' = Datos /\ Callada'
  BY <1>1, <1>3 DEF Leidos, Datos, Callada
<1>8. EnOrden(c, k + 1)'
  <2>1. k \in 0 .. 3 /\ EnOrden(c, k)
    BY <1>3, <1>4, <1>6
  <2>. QED BY <1>1, <1>4, <2>1, Orden_Agrega
<1>9. Fases'
  BY <1>1, <1>3, <1>4, <1>6, <1>7, <1>8 DEF Fases
<1>10. Etiquetas'
  BY <1>1, <1>3, <1>4 DEF Etiquetas
<1>11. en \in Pidiendo
  BY <1>2 DEF Pidiendo
<1>. QED BY <1>1, <1>5, <1>9, <1>10, <1>11, Quietas

(* The answer to a request arrives.                                        *)
LEMMA Socket_Header ==
  ASSUME IInv, IInv2, Vivos, RecibeHeader PROVE IInv2'
<1>. USE DEF IInv, IInv2
<1>1. /\ en = "esperaHeader" /\ respuestas # << >> /\ respuestas' = Tail(respuestas)
      /\ UNCHANGED <<mem, recibido, tabla, consola, pedido, tablaPcb>>
      /\ Consolas /\ Etiquetas /\ pedido.pid \in Pid
  BY DEF RecibeHeader, memVars, Respuestas, Pidiendo
<1>2. \/ DosRtas /\ Oyendo
      \/ Compactar /\ mem = "compacta"
  <2>1. ~Callada
    BY <1>1 DEF Callada
  <2>. QED BY <1>1, <2>1 DEF Fases
<1>3. CASE DosRtas /\ Oyendo
  <2>1. Head(respuestas).h = "header_general" /\ respuestas' = <<Creado>> /\ Pedido
    BY <1>1, <1>3, Rtas DEF DosRtas
  <2>2. UnaRta' /\ Ultimo' = Ultimo
    BY <1>1, <2>1 DEF UnaRta, Creado, Pedido, Ultimo
  <2>3. EnVuelo' = EnVuelo
    <3>1. EnVuelo = {Ultimo}
      BY <1>3, Vuelo
    <3>2. (UnaRta => EnVuelo = {Ultimo})'
      BY Vuelo, PTL
    <3>. QED BY <2>2, <3>1, <3>2
  <2>4. TablasCoinciden' /\ Numerados'
    BY <1>1, <2>3, Tablas_Quietas
  <2>5. Respuestas'
    BY <1>1, <2>2 DEF Respuestas
  <2>6. /\ UNCHANGED canal /\ kernelVivo' \in BOOLEAN
        /\ \/ en' = "esperaSegmento"
           \/ kernelVivo' = FALSE /\ en' = en
    <3>1. \/ en' = "esperaSegmento" /\ UNCHANGED <<canal, kernelVivo>>
          \/ kernelVivo' = FALSE /\ UNCHANGED <<canal, en>>
      BY <2>1 DEF RecibeHeader
    <3>2. kernelVivo \in BOOLEAN
      BY <1>1 DEF Etiquetas
    <3>. QED BY <3>1, <3>2
  <2>7. Etiquetas'
    BY <1>1, <2>6 DEF Etiquetas
  <2>8. Consolas'
    BY <1>1, <2>6, Consolas_Quietas
  <2>9. Vivos' => Fases'
    BY <1>1, <1>3, <2>2, <2>6 DEF Vivos, Fases, Oyendo, SinPedidos
  <2>. QED BY <2>4, <2>5, <2>7, <2>8, <2>9
<1>4. CASE Compactar /\ mem = "compacta"
  <2>1. Head(respuestas).h = "header_compactacion" /\ Callada'
    BY <1>1, <1>4, Rtas DEF Callada
  <2>2. /\ en' = "compacta" /\ canal' = Append(canal, Msg("hs_aux", Vacio))
        /\ UNCHANGED kernelVivo
    BY <2>1 DEF RecibeHeader, Manda
  <2>3. EnVuelo' = EnVuelo
    <3>1. EnVuelo = {}
      BY <1>4, Vuelo
    <3>2. (Callada => EnVuelo = {})'
      BY Vuelo, PTL
    <3>. QED BY <2>1, <3>1, <3>2
  <2>4. TablasCoinciden' /\ Numerados'
    BY <1>1, <2>3, Tablas_Quietas
  <2>5. Respuestas'
    BY <1>1, <2>1, <2>2 DEF Respuestas
  <2>6. Etiquetas'
    BY <1>1, <2>2 DEF Etiquetas
  <2>7. Consolas'
    <3>1. Msg("hs_aux", Vacio).h # "CREAR_PROCESO"
      BY DEF Msg
    <3>. QED BY <1>1, <2>2, <3>1, Consolas_Otro
  <2>8. Fases'
    BY <1>1, <1>4, <2>1, <2>2 DEF Fases
  <2>. QED BY <2>4, <2>5, <2>6, <2>7, <2>8
<1>. QED BY <1>2, <1>3, <1>4

(* The segment made goes to the end of the process's table.                *)
LEMMA Socket_Segmento ==
  ASSUME IInv, IInv2, Vivos, RecibeSegmento PROVE IInv2'
<1>. USE DEF IInv, IInv2
<1>. DEFINE q == pedido.pid
<1>1. /\ en = "esperaSegmento" /\ respuestas # << >> /\ respuestas' = Tail(respuestas)
      /\ tablaPcb' = [tablaPcb EXCEPT ![q] = @ \o Head(respuestas).d]
      /\ en' = "libre" /\ UNCHANGED <<mem, recibido, tabla, canal, consola, kernelVivo>>
      /\ Consolas /\ Etiquetas /\ q \in Pid
  BY DEF RecibeSegmento, memVars, Respuestas
<1>2. UnaRta /\ Oyendo
  BY <1>1 DEF Fases, Pidiendo
<1>3. Head(respuestas).d = <<Ultimo>> /\ Callada' /\ Pedido
  BY <1>1, <1>2, Rtas DEF Callada, UnaRta
<1>4. Ultimo \in Entrada
  <2>1. tabla \in Seq(Entrada) /\ tabla # << >>
    BY DEF Tipos
  <2>2. Len(tabla) \in 1 .. Len(tabla)
    BY <2>1, EmptySeq
  <2>. QED BY <2>1, <2>2, ElementOfSeq DEF Ultimo
<1>5. EnVuelo = {Ultimo} /\ EnVuelo' = {}
  <2>1. EnVuelo = {Ultimo}
    BY <1>2, Vuelo
  <2>2. (Callada => EnVuelo = {})'
    BY Vuelo, PTL
  <2>. QED BY <1>3, <2>1, <2>2
<1>6. Ultimo.pid = q
  BY <1>3 DEF Pedido
<1>7. tablaPcb[q] \in Seq(Entrada) /\ tablaPcb \in [Pid -> Seq(Entrada)]
  BY <1>1 DEF Etiquetas
<1>. DEFINE n == Len(tablaPcb[q])
<1>8. /\ tablaPcb'[q] = tablaPcb[q] \o <<Ultimo>>
      /\ \A p \in Pid \ {q} : tablaPcb'[p] = tablaPcb[p]
  BY <1>1, <1>3, <1>7
<1>. HIDE DEF q
<1>9. /\ tablaPcb'[q] \in Seq(Entrada) /\ n \in Nat
      /\ DOMAIN tablaPcb[q] = 1 .. n /\ DOMAIN (tablaPcb'[q]) = 1 .. n + 1
      /\ \A i \in 1 .. n : tablaPcb'[q][i] = tablaPcb[q][i]
      /\ tablaPcb'[q][n + 1] = Ultimo
  BY <1>4, <1>7, <1>8
<1>10. Etiquetas'
  <2>1. tablaPcb' \in [Pid -> Seq(Entrada)]
    BY <1>1, <1>3, <1>7, <1>8, <1>9
  <2>. QED BY <1>1, <2>1 DEF Etiquetas
<1>. HIDE DEF n
<1>11. Elementos(tabla)' = Elementos(tabla)
  BY <1>1 DEF Elementos
<1>12. ASSUME NEW p \in Pid \ {q}
       PROVE  /\ {s \in Elementos(tabla)' : s.pid = p}
                   = Elementos(tablaPcb'[p]) \union {s \in EnVuelo' : s.pid = p}
              /\ \A i, j \in DOMAIN (tablaPcb'[p]) :
                   i < j => tablaPcb'[p][i].idSegPcb < tablaPcb'[p][j].idSegPcb
  <2>1. tablaPcb'[p] = tablaPcb[p]
    BY <1>8
  <2>2. {s \in Elementos(tabla) : s.pid = p}
          = Elementos(tablaPcb[p]) \union {s \in EnVuelo : s.pid = p}
    BY DEF TablasCoinciden
  <2>3. {s \in EnVuelo : s.pid = p} = {}
    BY <1>5, <1>6
  <2>4. \A i, j \in DOMAIN tablaPcb[p] :
          i < j => tablaPcb[p][i].idSegPcb < tablaPcb[p][j].idSegPcb
    BY DEF TablasCoinciden
  <2>. QED BY <1>5, <1>11, <2>1, <2>2, <2>3, <2>4
<1>13. {s \in Elementos(tabla)' : s.pid = q}
         = Elementos(tablaPcb'[q]) \union {s \in EnVuelo' : s.pid = q}
  <2>1. {s \in Elementos(tabla) : s.pid = q} = Elementos(tablaPcb[q]) \union {Ultimo}
    <3>1. {s \in EnVuelo : s.pid = q} = {Ultimo}
      BY <1>5, <1>6
    <3>. QED BY <1>1, <3>1 DEF TablasCoinciden
  <2>2. Elementos(tablaPcb'[q]) = Elementos(tablaPcb[q]) \union {Ultimo}
    <3>1. 1 .. n + 1 = 1 .. n \union {n + 1}
      BY <1>9
    <3>. QED BY <1>9, <3>1 DEF Elementos
  <2>. QED BY <1>5, <1>11, <2>1, <2>2
<1>14. ASSUME NEW i \in DOMAIN (tablaPcb'[q]), NEW j \in DOMAIN (tablaPcb'[q]), i < j
       PROVE  tablaPcb'[q][i].idSegPcb < tablaPcb'[q][j].idSegPcb
  <2>1. i \in 1 .. n
    BY <1>9, <1>14
  <2>2. CASE j \in 1 .. n
    BY <1>1, <1>9, <1>14, <2>1, <2>2 DEF TablasCoinciden
  <2>3. CASE j = n + 1
    BY <1>1, <1>5, <1>9, <2>1, <2>3 DEF TablasCoinciden
  <2>. QED BY <1>9, <2>2, <2>3
<1>15. TablasCoinciden'
  BY <1>5, <1>12, <1>13, <1>14 DEF TablasCoinciden
<1>16. Numerados'
  BY <1>1 DEF Numerados
<1>17. Respuestas'
  BY <1>1, <1>3 DEF Respuestas, Pidiendo
<1>18. Consolas'
  BY <1>1, Consolas_Quietas
<1>19. Fases'
  BY <1>1, <1>2, <1>3 DEF Fases, Oyendo, SinPedidos
<1>. QED BY <1>10, <1>15, <1>16, <1>17, <1>18, <1>19

-----------------------------------------------------------------------------
(* memoria reads a message of a console: the request goes on as it was.    *)
LEMMA Fases_LeeConsola ==
  ASSUME Tipos, Fases, canal # << >>, Head(canal).h = "CREAR_PROCESO",
         canal' = Tail(canal), mem \in {"pedido", "proceso"},
         mem' \in {"pedido", "proceso"},
         UNCHANGED <<en, respuestas, tabla, recibido, pedido>>
  PROVE  Fases'
<1>1. /\ Callada' = Callada /\ DosRtas' = DosRtas /\ UnaRta' = UnaRta
      /\ Mandados' = Mandados
  BY DEF Callada, DosRtas, UnaRta, Creado, Pedido, Ultimo, Mandados
<1>2. Leidos = 0 /\ Leidos' = 0 /\ Datos' = Datos
  BY DEF Leidos, Datos
<1>3. SinPedidos => SinPedidos'
  <2>. SUFFICES ASSUME SinPedidos, NEW i \in DOMAIN canal'
                PROVE  canal'[i].h = "CREAR_PROCESO"
    BY DEF SinPedidos
  <2>1. i + 1 \in DOMAIN canal /\ canal'[i] = canal[i + 1]
    BY Canal_Saca
  <2>. QED BY <2>1 DEF SinPedidos
<1>4. Oyendo => Oyendo'
  BY <1>3 DEF Oyendo
<1>5. CASE /\ en \in Pidiendo /\ Callada /\ mem \in Leyendo
           /\ EnOrden(Leidos, Mandados) /\ recibido = Datos
  <2>1. PICK e \in 0 .. 4 : e = Mandados
    BY <1>5, Cuentas
  <2>2. EnOrden(0, e)
    BY <1>2, <1>5, <2>1
  <2>3. EnOrden(0, e)'
    BY <2>2, Orden_LeeConsola
  <2>4. mem' \in Leyendo
    BY DEF Leyendo
  <2>. QED BY <1>1, <1>2, <1>5, <2>1, <2>3, <2>4 DEF Fases
<1>. QED BY <1>1, <1>4, <1>5 DEF Fases

(* peticiones_kernel reads a header.                                       *)
LEMMA Socket_LeePedido ==
  ASSUME IInv, IInv2, Vivos, LeePedido PROVE IInv2'
<1>. USE DEF IInv, IInv2
<1>1. /\ mem = "pedido" /\ canal # << >> /\ canal' = Tail(canal)
      /\ mem' = CASE Head(canal).h = "I_CREATE_SEGMENT" -> "pid"
                  [] Head(canal).h = "CREAR_PROCESO"    -> "proceso"
                  [] OTHER                              -> "pedido"
      /\ UNCHANGED <<tabla, recibido, respuestas, consola, en, pedido, tablaPcb, kernelVivo>>
      /\ Consolas /\ Fases /\ Etiquetas
  BY DEF LeePedido, kernelVars
<1>2. CASE Head(canal).h = "CREAR_PROCESO"
  <2>1. mem' = "proceso"
    BY <1>1, <1>2
  <2>2. Head(canal) = Aviso
    BY <1>1, <1>2, Consolas_Cabeza
  <2>3. Consolas'
    BY <1>1, <2>1, <2>2, Consolas_Lee
  <2>4. Fases'
    BY <1>1, <1>2, <2>1, Fases_LeeConsola
  <2>5. Etiquetas'
    BY <1>1, <2>1 DEF Etiquetas, Leyendo
  <2>. QED BY <1>1, <2>3, <2>4, <2>5, Quietas
<1>3. CASE Head(canal).h # "CREAR_PROCESO"
  <2>1. ~SinPedidos
    BY <1>1, <1>3, Canal_Saca DEF SinPedidos
  <2>2. /\ en \in Pidiendo /\ Callada /\ mem \in Leyendo
        /\ EnOrden(Leidos, Mandados) /\ recibido = Datos
    BY <1>1, <2>1 DEF Fases, Oyendo
  <2>3. PICK e \in 0 .. 4 : e = Mandados
    BY <2>2, Cuentas
  <2>4. EnOrden(0, e) /\ recibido = << >>
    BY <1>1, <2>2, <2>3 DEF Leidos, Datos
  <2>5. Head(canal) = MsgE(1) /\ EnOrden(1, e)'
    <3>1. Head(canal) = MsgE(0 + 1) /\ EnOrden(0 + 1, e)'
      BY <1>1, <1>3, <2>4, Orden_Cabeza
    <3>2. 0 + 1 = 1
      OBVIOUS
    <3>. QED BY <3>1, <3>2
  <2>6. mem' = "pid"
    <3>1. Head(canal).h = "I_CREATE_SEGMENT"
      BY <2>5 DEF MsgE, Msg
    <3>. QED BY <1>1, <3>1
  <2>7. Consolas'
    BY <1>1, <1>3, <2>6, Consolas_Lee
  <2>8. Leidos' = 1 /\ Datos' = << >> /\ Mandados' = e /\ Callada' = Callada
    BY <1>1, <2>3, <2>6 DEF Leidos, Datos, Mandados, Callada
  <2>9. Fases'
    BY <1>1, <2>2, <2>4, <2>5, <2>6, <2>8 DEF Fases, Leyendo
  <2>10. Etiquetas'
    BY <1>1, <2>6 DEF Etiquetas, Leyendo
  <2>. QED BY <1>1, <2>7, <2>9, <2>10, Quietas
<1>. QED BY <1>2, <1>3

(* The ints of a request, one after the other.                             *)
LEMMA Agregados ==
  ASSUME NEW a \in Nat, NEW b \in Nat, NEW d \in Nat
  PROVE  /\ << >> \o <<a>> = <<a>>
         /\ <<a>> \o <<b>> = <<a, b>>
         /\ <<a, b>> \o <<d>> = <<a, b, d>>
<1>1. <<a>> \in Seq(Nat) /\ Len(<<a>>) = 1 /\ <<b>> \in Seq(Nat) /\ <<d>> \in Seq(Nat)
  OBVIOUS
<1>2. <<a, b>> \in Seq(Nat) /\ Len(<<a, b>>) = 2
  OBVIOUS
<1>3. <<a, b, d>> \in Seq(Nat) /\ Len(<<a, b, d>>) = 3
  OBVIOUS
<1>4. << >> \o <<a>> = <<a>>
  BY <1>1, ConcatEmptySeq
<1>5. <<a>> \o <<b>> = <<a, b>>
  <2>. DEFINE u == <<a>> \o <<b>>
  <2>1. u \in Seq(Nat) /\ Len(u) = 2 /\ u[1] = a /\ u[2] = b
    BY <1>1
  <2>2. \A i \in 1 .. Len(u) : u[i] = <<a, b>>[i]
    BY <2>1
  <2>. QED BY <1>2, <2>1, <2>2, SeqEqual
<1>6. <<a, b>> \o <<d>> = <<a, b, d>>
  <2>. DEFINE u == <<a, b>> \o <<d>>
  <2>1. u \in Seq(Nat) /\ Len(u) = 3 /\ u[1] = a /\ u[2] = b /\ u[3] = d
    BY <1>1, <1>2
  <2>2. \A i \in 1 .. Len(u) : u[i] = <<a, b, d>>[i]
    BY <2>1
  <2>. QED BY <1>3, <2>1, <2>2, SeqEqual
<1>. QED BY <1>4, <1>5, <1>6

(* An int of the request: the next one execute_pcb sent.                   *)
LEMMA Socket_LeeInt ==
  ASSUME IInv, IInv2, Vivos, LeeDato, Head(canal).d # Vacio,
         mem \in {"pid", "tamanio", "id"}
  PROVE  IInv2'
<1>. USE DEF IInv, IInv2
<1>1. /\ canal # << >> /\ canal' = Tail(canal)
      /\ mem' = Tras(mem) /\ recibido' = recibido \o Head(canal).d
      /\ UNCHANGED <<tabla, respuestas, consola, en, pedido, tablaPcb, kernelVivo>>
      /\ Consolas /\ Fases /\ Etiquetas
  BY DEF LeeDato, kernelVars
<1>2. Head(canal).h # "CREAR_PROCESO"
  BY <1>1, Consolas_Cabeza, Avisos
<1>3. /\ en \in Pidiendo /\ Callada /\ mem \in Leyendo
      /\ EnOrden(Leidos, Mandados) /\ recibido = Datos
  BY <1>1 DEF Fases, Oyendo
<1>4. PICK c \in 0 .. 4, e \in 0 .. 4 : c = Leidos /\ e = Mandados
  BY <1>3, Cuentas
<1>5. Head(canal) = MsgE(c + 1) /\ EnOrden(c + 1, e)'
  BY <1>1, <1>2, <1>3, <1>4, Orden_Cabeza
<1>6. /\ mem' \in Leyendo /\ mem' # "proceso" /\ Leidos' = c + 1 /\ recibido' = Datos'
  <2>0. /\ << >> \o <<pedido.pid>> = <<pedido.pid>>
        /\ <<pedido.pid>> \o <<pedido.limite>> = <<pedido.pid, pedido.limite>>
        /\ <<pedido.pid, pedido.limite>> \o <<pedido.id>>
             = <<pedido.pid, pedido.limite, pedido.id>>
    <3>1. pedido.pid \in Nat /\ pedido.limite \in Nat /\ pedido.id \in Nat
      BY DEF Tipos
    <3>. QED BY <3>1, Agregados
  <2>1. CASE mem = "pid"
    <3>1. mem' = "tamanio"
      BY <1>1, <2>1 DEF Tras
    <3>2. Leidos = 1 /\ Leidos' = 2 /\ Datos = << >> /\ Datos' = <<pedido.pid>>
      BY <1>1, <2>1, <3>1 DEF Leidos, Datos
    <3>3. Head(canal).d = <<pedido.pid>>
      BY <1>4, <1>5, <3>2 DEF MsgE, Msg
    <3>4. recibido' = Datos'
      BY <1>1, <1>3, <2>0, <3>2, <3>3
    <3>5. Leidos' = c + 1
      BY <1>4, <3>2
    <3>. QED BY <3>1, <3>4, <3>5 DEF Leyendo
  <2>2. CASE mem = "tamanio"
    <3>1. mem' = "id"
      BY <1>1, <2>2 DEF Tras
    <3>2. /\ Leidos = 2 /\ Leidos' = 3 /\ Datos = <<pedido.pid>>
          /\ Datos' = <<pedido.pid, pedido.limite>>
      BY <1>1, <2>2, <3>1 DEF Leidos, Datos
    <3>3. Head(canal).d = <<pedido.limite>>
      BY <1>4, <1>5, <3>2 DEF MsgE, Msg
    <3>4. recibido' = Datos'
      BY <1>1, <1>3, <2>0, <3>2, <3>3
    <3>5. Leidos' = c + 1
      BY <1>4, <3>2
    <3>. QED BY <3>1, <3>4, <3>5 DEF Leyendo
  <2>3. CASE mem = "id"
    <3>1. mem' = "crea"
      BY <1>1, <2>3 DEF Tras
    <3>2. /\ Leidos = 3 /\ Leidos' = 4 /\ Datos = <<pedido.pid, pedido.limite>>
          /\ Datos' = <<pedido.pid, pedido.limite, pedido.id>>
      BY <1>1, <2>3, <3>1 DEF Leidos, Datos
    <3>3. Head(canal).d = <<pedido.id>>
      BY <1>4, <1>5, <3>2 DEF MsgE, Msg
    <3>4. recibido' = Datos'
      BY <1>1, <1>3, <2>0, <3>2, <3>3
    <3>5. Leidos' = c + 1
      BY <1>4, <3>2
    <3>. QED BY <3>1, <3>4, <3>5 DEF Leyendo
  <2>. QED BY <2>1, <2>2, <2>3
<1>7. Consolas'
  BY <1>1, <1>2, <1>6, Consolas_Lee
<1>8. Mandados' = e /\ Callada' = Callada
  BY <1>1, <1>4 DEF Mandados, Callada
<1>9. Fases'
  BY <1>1, <1>3, <1>5, <1>6, <1>8 DEF Fases
<1>10. Etiquetas'
  BY <1>1, <1>6 DEF Etiquetas
<1>. QED BY <1>1, <1>7, <1>9, <1>10, Quietas

(* peticiones_kernel reads an int.                                         *)
LEMMA Socket_LeeDato ==
  ASSUME IInv, IInv2, Vivos, LeeDato PROVE IInv2'
<1>. USE DEF IInv, IInv2
<1>1. /\ mem \in {"pid", "tamanio", "id", "proceso"}
      /\ canal # << >> /\ canal' = Tail(canal)
      /\ UNCHANGED <<tabla, respuestas, consola, en, pedido, tablaPcb, kernelVivo>>
      /\ Consolas /\ Fases /\ Etiquetas
  BY DEF LeeDato, kernelVars
<1>2. CASE Head(canal).d = Vacio
  <2>1. mem' = "bufferVacio"
    BY <1>2 DEF LeeDato
  <2>2. Etiquetas'
    BY <1>1, <2>1 DEF Etiquetas, Muertes
  <2>3. ~Vivos'
    BY <2>1 DEF Vivos, Muertes
  <2>. QED BY <1>1, <2>2, <2>3, Quietas
<1>3. CASE Head(canal).d # Vacio /\ mem = "proceso"
  <2>1. mem' = "pedido" /\ recibido' = << >>
    BY <1>3 DEF LeeDato, Tras
  <2>2. Head(canal).h = "CREAR_PROCESO"
    <3>. SUFFICES ASSUME Head(canal).h # "CREAR_PROCESO" PROVE FALSE
      OBVIOUS
    <3>1. ~SinPedidos
      BY <1>1, Canal_Saca DEF SinPedidos
    <3>2. en \in Pidiendo /\ EnOrden(Leidos, Mandados)
      BY <1>1, <1>3, <3>1 DEF Fases, Oyendo
    <3>3. PICK e \in 0 .. 4 : e = Mandados
      BY <3>2, Cuentas
    <3>4. EnOrden(0, e)
      BY <1>3, <3>2, <3>3 DEF Leidos
    <3>5. Head(canal) = MsgE(0 + 1)
      BY <1>1, <3>4, Orden_Cabeza
    <3>6. 0 + 1 = 1
      OBVIOUS
    <3>. QED BY <1>3, <3>5, <3>6 DEF MsgE, Msg
  <2>3. Head(canal) # Aviso
    BY <1>3, Avisos
  <2>4. Consolas'
    BY <1>1, <1>3, <2>1, <2>2, <2>3, Consolas_Lee
  <2>5. recibido = << >>
    <3>1. Len(recibido) = 0 /\ recibido \in Seq(Nat)
      BY <1>3 DEF Recibidos, Tipos
    <3>. QED BY <3>1, EmptySeq
  <2>6. Fases'
    BY <1>1, <1>3, <2>1, <2>2, <2>5, Fases_LeeConsola
  <2>7. Etiquetas'
    BY <1>1, <2>1 DEF Etiquetas, Leyendo
  <2>. QED BY <1>1, <2>4, <2>6, <2>7, Quietas
<1>4. CASE Head(canal).d # Vacio /\ mem \in {"pid", "tamanio", "id"}
  BY <1>4, Socket_LeeInt
<1>. QED BY <1>1, <1>2, <1>3, <1>4

-----------------------------------------------------------------------------
(* peticiones_kernel makes the segment asked for.                          *)
LEMMA Socket_Crea ==
  ASSUME IInv, IInv', IInv2, Vivos, CreaSegmento PROVE IInv2'
<1>. USE DEF IInv, IInv2
<1>1. /\ mem = "crea" /\ recibido' = << >>
      /\ UNCHANGED <<canal, consola, en, pedido, tablaPcb, kernelVivo>>
      /\ Consolas /\ Fases /\ Etiquetas
  BY DEF CreaSegmento, kernelVars
<1>2. /\ en \in Pidiendo /\ Callada /\ EnOrden(4, Mandados)
      /\ recibido = <<pedido.pid, pedido.limite, pedido.id>>
  BY <1>1 DEF Fases, Oyendo, Leidos, Datos
<1>3. en = "esperaHeader" /\ SinPedidos
  <2>1. 4 <= Mandados
    BY <1>2 DEF EnOrden
  <2>2. Mandados = 4 /\ en = "esperaHeader"
    BY <1>2, <2>1 DEF Mandados, Pidiendo
  <2>3. EnOrden(4, 4)
    BY <1>2, <2>2
  <2>. QED BY <2>2, <2>3, Orden_Fin
<1>4. mem' # "elige"
  BY DEF NuncaElige
<1>5. PICK h \in Posibles(recibido[2]) :
        LET s == Segmento(recibido[3], h.base, recibido[2], recibido[1])
        IN /\ tabla' = Append(tabla, s) /\ mem' = "pedido"
           /\ respuestas' = respuestas \o
                << Msg("header_general", Vacio), Msg("header_general", <<s>>) >>
  BY <1>4 DEF CreaSegmento
<1>. DEFINE r == Segmento(recibido[3], h.base, recibido[2], recibido[1])
<1>6. PICK s : s = r
  OBVIOUS
<1>7. /\ tabla' = Append(tabla, s) /\ mem' = "pedido"
      /\ respuestas' = << Msg("header_general", Vacio), Msg("header_general", <<s>>) >>
  <2>1. respuestas' = << >> \o
          << Msg("header_general", Vacio), Msg("header_general", <<s>>) >>
    BY <1>2, <1>5, <1>6 DEF Callada
  <2>2. \A a, b : << >> \o <<a, b>> = <<a, b>>
    <3>. TAKE a, b
    <3>1. <<a, b>> \in Seq({a, b})
      OBVIOUS
    <3>. QED BY <3>1, ConcatEmptySeq
  <2>. QED BY <1>5, <1>6, <2>1, <2>2
<1>. DEFINE n == Len(tabla)
<1>8. /\ tabla \in Seq(Entrada) /\ n \in Nat \ {0} /\ DOMAIN tabla = 1 .. n
      /\ \A i \in 1 .. n : tabla[i] \in Entrada
  <2>1. tabla \in Seq(Entrada) /\ tabla # << >>
    BY DEF Tipos
  <2>2. n \in Nat /\ n # 0 /\ DOMAIN tabla = 1 .. n
    BY <2>1, EmptySeq, LenProperties
  <2>. QED BY <2>1, <2>2, ElementOfSeq
<1>9. /\ s.pid = pedido.pid /\ s.id = pedido.id /\ s.limite = pedido.limite
      /\ s.idSegPcb = n + 1
  <2>1. recibido[1] = pedido.pid /\ recibido[2] = pedido.limite /\ recibido[3] = pedido.id
    BY <1>2
  <2>2. tabla # << >>
    BY DEF Tipos
  <2>. QED BY <1>6, <2>1, <2>2 DEF Segmento
<1>. HIDE DEF r
<1>10. /\ Len(tabla') = n + 1 /\ DOMAIN tabla' = 1 .. n + 1
       /\ \A i \in 1 .. n : tabla'[i] = tabla[i]
       /\ tabla'[n + 1] = s
  BY <1>7, <1>8
<1>. HIDE DEF n
<1>11. Ultimo' = s
  BY <1>10 DEF Ultimo
<1>12. DosRtas'
  BY <1>1, <1>7, <1>9, <1>11 DEF DosRtas, Creado, Pedido
<1>13. EnVuelo = {} /\ EnVuelo' = {s}
  <2>1. EnVuelo = {}
    BY <1>2, Vuelo
  <2>2. (DosRtas => EnVuelo = {Ultimo})'
    BY Vuelo, PTL
  <2>. QED BY <1>11, <1>12, <2>1, <2>2
<1>14. \A i \in 1 .. n + 1 : i \in 1 .. n \/ i = n + 1
  BY <1>8
<1>15. Elementos(tabla') = Elementos(tabla) \union {s}
  <2>1. 1 .. n + 1 = 1 .. n \union {n + 1}
    BY <1>8
  <2>. QED BY <1>8, <1>10, <2>1 DEF Elementos
<1>16. Numerados'
  <2>. SUFFICES ASSUME NEW i \in 1 .. n + 1
                PROVE  tabla'[i].idSegPcb = IF i = 1 THEN 0 ELSE i
    BY <1>10 DEF Numerados
  <2>1. CASE i \in 1 .. n
    BY <1>8, <1>10, <2>1 DEF Numerados
  <2>2. CASE i = n + 1
    BY <1>8, <1>9, <1>10, <2>2
  <2>. QED BY <1>14, <2>1, <2>2
<1>17. ASSUME NEW p \in Pid, NEW i \in DOMAIN tablaPcb[p]
       PROVE  tablaPcb[p][i].idSegPcb < s.idSegPcb
  <2>1. tablaPcb[p][i] \in Elementos(tabla)
    <3>1. tablaPcb[p][i] \in Elementos(tablaPcb[p])
      BY DEF Elementos
    <3>. QED BY <3>1 DEF TablasCoinciden
  <2>2. PICK j \in 1 .. n : tablaPcb[p][i] = tabla[j]
    BY <1>8, <2>1 DEF Elementos
  <2>3. tabla[j].idSegPcb = IF j = 1 THEN 0 ELSE j
    BY <1>8 DEF Numerados
  <2>4. tabla[j].idSegPcb < n + 1
    BY <1>8, <2>3
  <2>. QED BY <1>9, <2>2, <2>4
<1>18. ASSUME NEW p \in Pid
       PROVE  {x \in Elementos(tabla') : x.pid = p}
                = Elementos(tablaPcb[p]) \union {x \in {s} : x.pid = p}
  <2>1. {x \in Elementos(tabla) : x.pid = p} = Elementos(tablaPcb[p])
    <3>1. {x \in EnVuelo : x.pid = p} = {}
      BY <1>13
    <3>. QED BY <3>1 DEF TablasCoinciden
  <2>. QED BY <1>15, <2>1
<1>19. TablasCoinciden'
  <2>1. \A p \in Pid : Elementos(tablaPcb[p])' = Elementos(tablaPcb[p])
    BY <1>1 DEF Elementos
  <2>2. Elementos(tabla)' = Elementos(tabla')
    BY DEF Elementos
  <2>3. \A p \in Pid : \A i, j \in DOMAIN tablaPcb[p] :
          i < j => tablaPcb[p][i].idSegPcb < tablaPcb[p][j].idSegPcb
    BY DEF TablasCoinciden
  <2>. QED BY <1>1, <1>13, <1>17, <1>18, <2>1, <2>2, <2>3 DEF TablasCoinciden
<1>20. Respuestas'
  BY <1>1, <1>12 DEF Respuestas
<1>21. Etiquetas'
  BY <1>1, <1>7 DEF Etiquetas, Leyendo
<1>22. Consolas'
  BY <1>1, <1>7, Consolas_Quietas
<1>23. Fases'
  BY <1>1, <1>3, <1>7, <1>12 DEF Fases, Oyendo, SinPedidos
<1>. QED BY <1>16, <1>19, <1>20, <1>21, <1>22, <1>23

(* With no hole for the size, memoria asks for a compaction.               *)
LEMMA Socket_PideCompactar ==
  ASSUME IInv, IInv2, Vivos, PideCompactar PROVE IInv2'
<1>. USE DEF IInv, IInv2
<1>1. /\ mem = "crea" /\ mem' = "compacta"
      /\ respuestas' = Append(respuestas, Msg("header_compactacion", Vacio))
      /\ UNCHANGED <<tabla, recibido, canal, consola, en, pedido, tablaPcb, kernelVivo>>
      /\ Consolas /\ Fases /\ Etiquetas
  BY DEF PideCompactar, kernelVars
<1>2. en \in Pidiendo /\ Callada /\ EnOrden(4, Mandados)
  BY <1>1 DEF Fases, Oyendo, Leidos
<1>3. en = "esperaHeader"
  <2>1. 4 <= Mandados
    BY <1>2 DEF EnOrden
  <2>. QED BY <1>2, <2>1 DEF Mandados, Pidiendo
<1>4. Compactar'
  <2>1. \A a : Append(<< >>, a) = <<a>>
    OBVIOUS
  <2>. QED BY <1>1, <1>2, <2>1 DEF Compactar, Callada
<1>5. EnVuelo' = EnVuelo
  <2>1. EnVuelo = {}
    BY <1>2, Vuelo
  <2>2. (Compactar => EnVuelo = {})'
    BY Vuelo, PTL
  <2>. QED BY <1>4, <2>1, <2>2
<1>6. TablasCoinciden' /\ Numerados'
  BY <1>1, <1>5, Tablas_Quietas
<1>7. Respuestas'
  BY <1>1, <1>4 DEF Respuestas
<1>8. Etiquetas'
  BY <1>1 DEF Etiquetas
<1>9. Consolas'
  BY <1>1, Consolas_Quietas
<1>10. Fases'
  BY <1>1, <1>3, <1>4 DEF Fases
<1>. QED BY <1>6, <1>7, <1>8, <1>9, <1>10

(* And dies of it.                                                         *)
LEMMA Socket_Compacta ==
  ASSUME IInv2, Compacta PROVE IInv2'
<1>1. /\ mem' \in Muertes
      /\ UNCHANGED <<tabla, respuestas, consola, en, pedido, tablaPcb, kernelVivo>>
  BY DEF Compacta, kernelVars, Muertes
<1>2. Etiquetas'
  BY <1>1 DEF IInv2, Etiquetas
<1>3. ~Vivos'
  BY <1>1 DEF Vivos
<1>. QED BY <1>1, <1>2, <1>3, Quietas

-----------------------------------------------------------------------------
LEMMA Inicial2 == Init => IInv2
<1>. SUFFICES ASSUME Init PROVE IInv2
  OBVIOUS
<1>. USE DEF Init
<1>1. DOMAIN canal = {} /\ DOMAIN respuestas = {}
  OBVIOUS
<1>2. Consolas
  <2>1. Numeros /\ \A p \in Pid : ~Pendiente(p)
    BY <1>1 DEF Numeros, Pendiente
  <2>2. PICK f : f \in [Pid -> Int]
    <3>. DEFINE h == [p \in Pid |-> 0]
    <3>1. h \in [Pid -> Int]
      OBVIOUS
    <3>. HIDE DEF h
    <3>. QED BY <3>1
  <2>3. Emparejadas(f)
    BY <1>1, <2>1 DEF Emparejadas
  <2>. QED BY <2>1, <2>2, <2>3 DEF Consolas
<1>3. Fases /\ Callada
  BY <1>1 DEF Fases, Callada, Oyendo, SinPedidos
<1>4. Respuestas
  BY <1>3 DEF Respuestas, Pidiendo
<1>5. DOMAIN tabla = {1} /\ tabla[1].idSegPcb = 0 /\ tabla[1].pid = 0
  OBVIOUS
<1>6. Numerados
  BY <1>5 DEF Numerados
<1>7. Etiquetas
  <2>1. tablaPcb \in [Pid -> Seq(Entrada)]
    OBVIOUS
  <2>. QED BY <2>1 DEF Etiquetas, Leyendo
<1>8. TablasCoinciden
  <2>1. EnVuelo = {}
    BY <1>3, Vuelo
  <2>. SUFFICES ASSUME NEW p \in Pid
                PROVE  /\ {s \in Elementos(tabla) : s.pid = p}
                            = Elementos(tablaPcb[p]) \union {s \in EnVuelo : s.pid = p}
                       /\ DOMAIN tablaPcb[p] = {}
    BY <2>1 DEF TablasCoinciden
  <2>2. DOMAIN tablaPcb[p] = {}
    OBVIOUS
  <2>3. p # 0
    BY MemoriaAssumption
  <2>4. {s \in Elementos(tabla) : s.pid = p} = {}
    BY <1>5, <2>3 DEF Elementos
  <2>5. Elementos(tablaPcb[p]) = {}
    BY <2>2 DEF Elementos
  <2>. QED BY <2>1, <2>2, <2>4, <2>5
<1>. QED BY <1>2, <1>3, <1>4, <1>6, <1>7, <1>8 DEF IInv2

(* The conversation on the socket, whoever writes on it.                   *)
THEOREM SocketInv == Spec => []IInv2
<1>1. IInv /\ IInv' /\ IInv2 /\ [Next]_vars => IInv2'
  <2>. SUFFICES ASSUME IInv, IInv', IInv2, [Next]_vars PROVE IInv2'
    OBVIOUS
  <2>1. CASE UNCHANGED vars
    <3>1. /\ UNCHANGED <<tabla, mem, recibido, canal, respuestas, consola, en, pedido>>
          /\ UNCHANGED <<tablaPcb, kernelVivo>>
      BY <2>1 DEF vars, memVars, kernelVars
    <3>2. Etiquetas'
      BY <3>1 DEF IInv2, Etiquetas
    <3>3. Vivos' => Consolas' /\ Fases'
      <4>. SUFFICES ASSUME Vivos' PROVE Consolas' /\ Fases'
        OBVIOUS
      <4>1. Consolas /\ Fases
        BY <3>1 DEF IInv2, Vivos
      <4>2. Consolas'
        BY <3>1, <4>1, Consolas_Quietas
      <4>3. Fases'
        <5>1. /\ Callada' = Callada /\ DosRtas' = DosRtas /\ UnaRta' = UnaRta
              /\ Compactar' = Compactar /\ Leidos' = Leidos /\ Mandados' = Mandados
              /\ Datos' = Datos /\ Oyendo' = Oyendo
          BY <3>1 DEF Callada, DosRtas, UnaRta, Compactar, Creado, Pedido, Ultimo,
                      Leidos, Mandados, Datos, Oyendo, SinPedidos
        <5>2. \A c, e : EnOrden(c, e) => EnOrden(c, e)'
          <6>1. \A k : MsgE(k)' = MsgE(k)
            BY <3>1 DEF MsgE
          <6>2. \A g, c, e : Ordenados(g, c, e) => Ordenados(g, c, e)'
            BY <3>1, <6>1 DEF Ordenados
          <6>. QED BY <6>2 DEF EnOrden
        <5>. QED BY <3>1, <4>1, <5>1, <5>2 DEF Fases
      <4>. QED BY <4>2, <4>3
    <3>. QED BY <3>1, <3>2, <3>3, Quietas
  <2>2. CASE Next
    <3>. USE DEF IInv
    <3>1. Vivos
      BY <2>2 DEF Next
    <3>2. CASE Consola
      BY <3>1, <3>2, Socket_Consola
    <3>3. CASE ExecutePcb
      BY <3>1, <3>3, Socket_Libre, Socket_Datos, Socket_Header, Socket_Segmento
         DEF ExecutePcb
    <3>4. CASE PeticionesKernel
      BY <3>1, <3>4, Socket_LeePedido, Socket_LeeDato, Socket_Crea,
         Socket_PideCompactar, Socket_Compacta DEF PeticionesKernel
    <3>. QED BY <2>2, <3>2, <3>3, <3>4 DEF Next
  <2>. QED BY <2>1, <2>2
<1>. QED BY <1>1, Inicial2, MemoriaInv, PTL DEF Spec

(* The kernel's table of each process is memoria's, but for a segment      *)
(* whose answer is on its way.                                             *)
THEOREM TablasInvariante == Spec => []TablasCoinciden
<1>1. IInv2 => TablasCoinciden
  BY DEF IInv2
<1>. QED BY <1>1, SocketInv, PTL

(* The segment in an answer is the one execute_pcb asked for.              *)
THEOREM PedidoInvariante == Spec => []SegmentoPedido
<1>1. IInv2 => SegmentoPedido
  <2>. SUFFICES ASSUME IInv2, NEW s \in EnVuelo
                PROVE  /\ s.pid = pedido.pid /\ s.id = pedido.id
                       /\ s.limite = pedido.limite
    BY DEF SegmentoPedido
  <2>1. DosRtas \/ UnaRta
    BY Vuelo DEF IInv2, Respuestas
  <2>2. s = Ultimo /\ Pedido
    BY <2>1, Vuelo DEF DosRtas, UnaRta
  <2>. QED BY <2>2 DEF Pedido
<1>. QED BY <1>1, SocketInv, PTL

(* The variables keep their types: the two processes' tables, the messages *)
(* of both directions and every label.                                     *)
THEOREM TiposDeMemoria == Spec => []TypeOK
<1>1. IInv /\ IInv2 => TypeOK
  <2>. SUFFICES ASSUME IInv, IInv2 PROVE TypeOK
    OBVIOUS
  <2>. USE DEF IInv, IInv2
  <2>1. Ultimo \in Entrada
    <3>1. tabla \in Seq(Entrada) /\ tabla # << >>
      BY DEF Tipos
    <3>2. Len(tabla) \in 1 .. Len(tabla)
      BY <3>1, EmptySeq
    <3>. QED BY <3>1, <3>2, ElementOfSeq DEF Ultimo
  <2>2. ocupados \subseteq 0 .. TamMemoria
    <3>1. Tope \in Int
      BY <2>1 DEF Ultimo, Tope, Entrada
    <3>. QED BY <3>1, MemoriaAssumption DEF Apilados
  <2>3. respuestas \in Seq([h : {"header_general", "header_compactacion"},
                            d : Seq(Entrada)])
    <3>. DEFINE M == [h : {"header_general", "header_compactacion"}, d : Seq(Entrada)]
    <3>1. << >> \in Seq(Entrada) /\ <<Ultimo>> \in Seq(Entrada)
      BY <2>1
    <3>2. /\ Msg("header_general", Vacio) \in M /\ Creado \in M
          /\ Msg("header_compactacion", Vacio) \in M
      BY <3>1 DEF Msg, Creado, Vacio
    <3>. HIDE DEF M
    <3>3. \A a, b \in M : << >> \in Seq(M) /\ <<a>> \in Seq(M) /\ <<a, b>> \in Seq(M)
      OBVIOUS
    <3>4. << >> \in Seq(M)
      OBVIOUS
    <3>5. respuestas \in Seq(M)
      BY <3>2, <3>3, <3>4 DEF Respuestas, Callada, DosRtas, UnaRta, Compactar
    <3>. QED BY <3>5 DEF M
  <2>4. /\ tabla \in Seq(Entrada) /\ recibido \in Seq(Nat)
        /\ canal \in Seq([h : Cabeceras, d : Seq(Nat)])
        /\ \A i \in DOMAIN canal : Len(canal[i].d) <= 1
        /\ pedido \in [pid : Nat, limite : Nat, id : Nat]
    BY DEF Tipos
  <2>5. /\ tablaPcb \in [Pid -> Seq(Entrada)]
        /\ mem \in {"pedido", "pid", "tamanio", "id", "proceso", "crea", "compacta"}
                   \union Muertes
        /\ consola \in [Pid -> {"conecta", "avisado", "fin"}]
        /\ en \in {"libre", "mandaPid", "mandaTamanio", "mandaId", "esperaHeader",
                   "esperaSegmento", "compacta", "enExit"}
        /\ kernelVivo \in BOOLEAN
    BY DEF Etiquetas, Leyendo, Pidiendo
  <2>. QED BY <2>2, <2>3, <2>4, <2>5 DEF TypeOK
<1>. QED BY <1>1, MemoriaInv, SocketInv, PTL
=============================================================================
