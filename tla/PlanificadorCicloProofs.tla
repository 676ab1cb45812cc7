---------------------- MODULE PlanificadorCicloProofs -----------------------
(***************************************************************************)
(* Processes in their places: theorems of Planificador, and of its         *)
(* refinement mapping, for any number of consoles.                         *)
(*                                                                         *)
(* First the two channels to the filesystem and the semaphore between E    *)
(* and U (any programs, either algorithm): the answer E reads is that of   *)
(* its own request, and the PCB whose pid U received is in BLOCKED until U *)
(* unlinks it, unless the races on that list lost it.                      *)
(*                                                                         *)
(* Then a process is in one place, one has the cpu, and the scheduler      *)
(* implements the life cycle, with FIFO and programs without SIGNAL        *)
(* (next_hrrn_proceso leaves in READY the process it takes, and SIGNAL     *)
(* pushes its process in EXECUTE twice).  Every pid is in exactly one      *)
(* site: a list other than BLOCKED, the hands of a thread, its way through *)
(* the filesystem (request, answer, U), or outside until its console has   *)
(* put it in NEW.  The links of BLOCKED are not sites: the removals of     *)
(* pop_blocked, which take no mutex, may leave one behind.  Every step of  *)
(* the program is then one move between two sites, or none, and the places *)
(* and the life cycle are read off the moves.                              *)
(***************************************************************************)
EXTENDS PlanificadorCiclo, PlanificadorProofs

(* How many positions of a sequence hold an element of a set.              *)
Cuantos(s, S) == Cardinality({i \in DOMAIN s : s[i] \in S})
Cuenta(b)     == IF b THEN 1 ELSE 0

-----------------------------------------------------------------------------
(* Lemmas about Cuantos, for sequences of anything.                        *)

(* A count is a natural number, and it is not zero when there is one.      *)
LEMMA Cuantos_Tipo ==
  ASSUME NEW T, NEW s \in Seq(T), NEW S
  PROVE  /\ Cuantos(s, S) \in Nat
         /\ IsFiniteSet({i \in DOMAIN s : s[i] \in S})
         /\ (\E i \in DOMAIN s : s[i] \in S) <=> Cuantos(s, S) > 0
<1> DEFINE P == {i \in DOMAIN s : s[i] \in S}
<1>1. IsFiniteSet(1 .. Len(s)) /\ P \in SUBSET (1 .. Len(s))
  BY FS_Interval
<1>2. IsFiniteSet(P) /\ Cardinality(P) \in Nat
  BY <1>1, FS_Subset, FS_CardinalityType
<1>3. Cardinality(P) = 0 <=> P = {}
  BY <1>2, FS_EmptySet
<1>4. Cuantos(s, S) = Cardinality(P) /\ (P = {} <=> ~\E i \in DOMAIN s : s[i] \in S)
  BY DEF Cuantos
<1> HIDE DEF P
<1>5. (\E i \in DOMAIN s : s[i] \in S) <=> Cuantos(s, S) > 0
  BY <1>2, <1>3, <1>4
<1> QED BY <1>2, <1>4, <1>5 DEF P

(* list_add.                                                               *)
LEMMA Cuantos_Append ==
  ASSUME NEW T, NEW s \in Seq(T), NEW e \in T, NEW S
  PROVE  Cuantos(Append(s, e), S) = Cuantos(s, S) + Cuenta(e \in S)
<1> DEFINE P == {i \in DOMAIN s : s[i] \in S}
           t == Append(s, e)
           n == Len(s) + 1
           Q == {i \in DOMAIN t : t[i] \in S}
<1>1. /\ DOMAIN s = 1 .. Len(s) /\ DOMAIN t = 1 .. n /\ t[n] = e /\ Len(s) \in Nat
      /\ \A i \in 1 .. Len(s) : t[i] = s[i]
  BY AppendProperties
<1>2. n \notin P /\ IsFiniteSet(P) /\ Cardinality(P) \in Nat
  <2>1. n \notin DOMAIN s
    BY <1>1
  <2>2. IsFiniteSet(P) /\ Cardinality(P) \in Nat
    BY Cuantos_Tipo DEF Cuantos
  <2> QED BY <2>1, <2>2
<1>3. CASE e \in S
  <2>1. Q = P \cup {n}
    BY <1>1, <1>3
  <2>2. Cardinality(Q) = Cardinality(P) + 1
    BY <1>2, <2>1, FS_AddElement
  <2> QED BY <1>3, <2>2 DEF Cuantos, Cuenta
<1>4. CASE e \notin S
  <2>1. Q = P
    BY <1>1, <1>4
  <2>2. Cuenta(e \in S) = 0
    BY <1>4 DEF Cuenta
  <2>3. Cuantos(t, S) = Cardinality(Q) /\ Cuantos(s, S) = Cardinality(P)
    BY DEF Cuantos
  <2> HIDE DEF P, Q, t
  <2>4. Cuantos(t, S) = Cuantos(s, S) + Cuenta(e \in S)
    BY <1>2, <2>1, <2>2, <2>3
  <2> QED BY <2>4 DEF t
<1> QED BY <1>3, <1>4

(* t is s with the k-th position less, the others in their order.          *)
EsSin(t, s, k) ==
  /\ Len(t) = Len(s) - 1
  /\ \A i \in DOMAIN t : t[i] = s[IF i < k THEN i ELSE i + 1]

(* It has one less of a kind exactly when the one that left was of it.     *)
LEMMA Cuantos_Sin ==
  ASSUME NEW T, NEW s \in Seq(T), NEW t \in Seq(T), NEW k \in DOMAIN s, NEW S,
         EsSin(t, s, k)
  PROVE  Cuantos(s, S) = Cuantos(t, S) + Cuenta(s[k] \in S)
<1> DEFINE P == {i \in DOMAIN s : s[i] \in S}
           Q == {i \in DOMAIN t : t[i] \in S}
           f == [i \in Q |-> IF i < k THEN i ELSE i + 1]
<1>0. \A i \in DOMAIN t : t[i] = s[IF i < k THEN i ELSE i + 1]
  BY DEF EsSin
<1>1. /\ DOMAIN s = 1 .. Len(s) /\ DOMAIN t = 1 .. Len(s) - 1 /\ Len(s) \in Nat
      /\ k \in 1 .. Len(s)
  BY DEF EsSin
<1>2. /\ IsFiniteSet(P) /\ Cardinality(P) \in Nat
      /\ IsFiniteSet(Q) /\ Cardinality(Q) \in Nat
  BY Cuantos_Tipo DEF Cuantos
<1>3. f \in [Q -> P \ {k}]
  <2> SUFFICES ASSUME NEW i \in Q PROVE f[i] \in P \ {k}
    OBVIOUS
  <2>1. i \in 1 .. Len(s) - 1 /\ s[f[i]] \in S
    BY <1>0, <1>1
  <2>2. f[i] \in 1 .. Len(s) /\ f[i] # k
    BY <1>1, <2>1
  <2> QED BY <1>1, <2>1, <2>2
<1>4. \A i, j \in Q : f[i] = f[j] => i = j
  BY <1>1
<1>5. \A j \in P \ {k} : \E i \in Q : f[i] = j
  <2> SUFFICES ASSUME NEW j \in P \ {k} PROVE \E i \in Q : f[i] = j
    OBVIOUS
  <2>1. j \in 1 .. Len(s) /\ s[j] \in S /\ j # k
    BY <1>1
  <2>2. CASE j < k
    <3>1. j \in DOMAIN t /\ t[j] = s[j]
      BY <1>0, <1>1, <2>1, <2>2
    <3> QED BY <2>1, <2>2, <3>1
  <2>3. CASE ~(j < k)
    <3>1. j - 1 \in DOMAIN t /\ ~(j - 1 < k) /\ (j - 1) + 1 = j
      BY <1>1, <2>1, <2>3
    <3>2. t[j - 1] = s[j]
      BY <1>0, <3>1
    <3> QED BY <2>1, <3>1, <3>2
  <2> QED BY <2>2, <2>3
<1>6. f \in Bijection(Q, P \ {k})
  BY <1>3, <1>4, <1>5 DEF Bijection, Injection, Surjection, IsInjective
<1>7. Cardinality(P \ {k}) = Cardinality(Q)
  BY <1>2, <1>6, FS_Bijection DEF ExistsBijection
<1>8. Cardinality(P \ {k}) = IF k \in P THEN Cardinality(P) - 1 ELSE Cardinality(P)
  BY <1>2, FS_RemoveElement
<1> HIDE DEF P, Q
<1>9. k \in P <=> s[k] \in S
  BY <1>1 DEF P
<1>10. Cuantos(s, S) = Cardinality(P) /\ Cuantos(t, S) = Cardinality(Q)
  BY DEF Cuantos, P, Q
<1> QED BY <1>2, <1>7, <1>8, <1>9, <1>10 DEF Cuenta

(* list_remove of the head.                                                *)
LEMMA Cuantos_Tail ==
  ASSUME NEW T, NEW s \in Seq(T), s # << >>, NEW S
  PROVE  Cuantos(s, S) = Cuantos(Tail(s), S) + Cuenta(Head(s) \in S)
<1>1. /\ Tail(s) \in Seq(T) /\ Len(Tail(s)) = Len(s) - 1 /\ Head(s) = s[1]
      /\ \A i \in 1 .. Len(Tail(s)) : Tail(s)[i] = s[i + 1]
  BY HeadTailProperties
<1>2. 1 \in DOMAIN s /\ \A i \in DOMAIN Tail(s) : ~(i < 1)
  BY <1>1, EmptySeq
<1>3. \A i \in DOMAIN Tail(s) : Tail(s)[i] = s[IF i < 1 THEN i ELSE i + 1]
  BY <1>1, <1>2
<1> DEFINE t == Tail(s)
<1> HIDE DEF t
<1>4. 1 \in DOMAIN s /\ t \in Seq(T) /\ EsSin(t, s, 1)
  BY <1>1, <1>2, <1>3 DEF t, EsSin
<1>5. Cuantos(s, S) = Cuantos(t, S) + Cuenta(s[1] \in S)
  BY <1>4, Cuantos_Sin
<1> QED BY <1>1, <1>5 DEF t

(* list_remove_by_condition.                                               *)
LEMMA Cuantos_SinPosicion ==
  ASSUME NEW T, NEW s \in Seq(T), NEW k \in DOMAIN s, NEW S
  PROVE  Cuantos(s, S) = Cuantos(SinPosicion(s, k), S) + Cuenta(s[k] \in S)
<1>1. k \in 1 .. Len(s) /\ SinPosicion(s, k) \in Seq(T)
      /\ Len(SinPosicion(s, k)) = Len(s) - 1
  BY SinPosicionTipo
<1>2. \A i \in DOMAIN SinPosicion(s, k) :
        SinPosicion(s, k)[i] = s[IF i < k THEN i ELSE i + 1]
  BY <1>1, SinPosicionElementos
<1> DEFINE t == SinPosicion(s, k)
<1> HIDE DEF t
<1>3. t \in Seq(T) /\ EsSin(t, s, k)
  BY <1>1, <1>2 DEF t, EsSin
<1>4. Cuantos(s, S) = Cuantos(t, S) + Cuenta(s[k] \in S)
  BY <1>3, Cuantos_Sin
<1> QED BY <1>4 DEF t

(* A sequence cut after the last one of a kind.                            *)
LEMMA Cuantos_Prefijo ==
  ASSUME NEW T, NEW s \in Seq(T), NEW n \in 0 .. Len(s), NEW S,
         \A i \in n + 1 .. Len(s) : s[i] \notin S
  PROVE  SubSeq(s, 1, n) \in Seq(T) /\ Cuantos(SubSeq(s, 1, n), S) = Cuantos(s, S)
<1> DEFINE t == SubSeq(s, 1, n)
<1>1. /\ DOMAIN s = 1 .. Len(s) /\ Len(s) \in Nat /\ n \in Nat /\ n <= Len(s)
      /\ t \in Seq(T) /\ DOMAIN t = 1 .. n /\ \A i \in 1 .. n : t[i] = s[i]
  <2>1. \A i \in 1 .. n : s[i] \in T
    OBVIOUS
  <2>2. /\ t \in Seq(T) /\ Len(t) = (IF 1 <= n THEN n - 1 + 1 ELSE 0)
        /\ \A i \in 1 .. n - 1 + 1 : t[i] = s[1 + i - 1]
    BY <2>1, SubSeqProperties
  <2> HIDE DEF t
  <2>3. Len(t) = n /\ \A i \in 1 .. n : t[i] = s[i]
    BY <2>2
  <2> QED BY <2>2, <2>3
<1> HIDE DEF t
<1>2. {i \in DOMAIN t : t[i] \in S} = {i \in DOMAIN s : s[i] \in S}
  BY <1>1
<1> QED BY <1>1, <1>2 DEF Cuantos, t

-----------------------------------------------------------------------------
(* Requests whose answer U waits for: of process p, of any process.        *)
De(p)     == [op : {"TRUNCATE", "READ", "WRITE"}, pid : {p}]
DeAlguien == [op : {"TRUNCATE", "READ", "WRITE"}, pid : Pid]

(* What E does for BLOCKED: it has sent a request and not pushed the PCB   *)
(* yet; it has pushed it and owes the post; it waits for an IO.            *)
RolE == IF en["E"] \in {"ubica", "enlaza"} /\ EnCurso.op # "IO" THEN "ubica"
        ELSE IF en["E"] = "postEnvio" THEN "postea"
        ELSE IF en["E"] \in {"esperaIo"} \union EtiquetasPop THEN "io"
        ELSE "otro"
RolU == IF en["U"] = "envio" THEN "envio"
        ELSE IF en["U"] \in EtiquetasPop THEN "pop" ELSE "otro"
QuienE == IF RolE = "otro" THEN Nadie ELSE pcb["E"]
QuienU == IF RolU = "otro" THEN Nadie ELSE pcb["U"]

(* The pops of p still to come, and the entries of p that are, or will be, *)
(* in BLOCKED, of a p that the races on the list have not unlinked.        *)
EnBlocked(p)   == Cuantos(cola["blocked"], {p})
PorUbicar(p)   == Cuenta(RolE = "ubica" /\ QuienE = p)
Pedidos(p)     == Cuantos(pedidosFs, De(p))
Respondidos(p) == Cuantos(desbloqueos, {p})
Recibido(p)    == Cuenta(QuienU = p)
Durmiendo(p)   == Cuenta(RolE = "io" /\ QuienE = p)
BlockedContada == \A p \in Pid \ perdidos :
  EnBlocked(p) + PorUbicar(p)
    >= Pedidos(p) + Respondidos(p) + Recibido(p) + Durmiendo(p)

(* envio_bloqueo_fs counts the requests whose PCB is in BLOCKED already.   *)
DebeEnvio == RolE \in {"ubica", "postea"}
EnvioContado ==
  sem["envio"] + Cuenta(RolU = "pop") + Cuenta(DebeEnvio)
    = Cuantos(pedidosFs, DeAlguien) + Len(desbloqueos) + Cuenta(RolU # "otro")

(* While E owes the post, its request is the last of the line.             *)
UltimoEsDeE ==
  DebeEnvio =>
    IF pedidosFs # << >> THEN pedidosFs[Len(pedidosFs)].pid = QuienE
    ELSE IF desbloqueos # << >> THEN desbloqueos[Len(desbloqueos)] = QuienE
    ELSE RolU = "envio" /\ QuienU = QuienE

Inv5 == BlockedContada /\ EnvioContado /\ UltimoEsDeE

(* After an answer of the cpu the pc of E's process is past an instruction.*)
Inv4 == en["E"] \notin {"espera", "saca", "cpu"} => pc[pcb["E"]] > 0

(* What Inv5 looks at.                                                     *)
DeOrden == <<cola["blocked"], perdidos, sem["envio"], pedidosFs, desbloqueos,
             RolE, QuienE, RolU, QuienU>>

(* A step that leaves all of it alone keeps the invariant.                 *)
LEMMA Orden_Quieto == ASSUME Inv5, UNCHANGED DeOrden PROVE Inv5'
  BY DEF Inv5, DeOrden, BlockedContada, EnvioContado, UltimoEsDeE, DebeEnvio,
     EnBlocked, PorUbicar, Pedidos, Respondidos, Recibido, Durmiendo

(* The numbers are naturals.                                               *)
LEMMA Orden_Naturales ==
  ASSUME TypeOK
  PROVE  /\ \A p : /\ EnBlocked(p) \in Nat
                   /\ PorUbicar(p) \in Nat /\ Pedidos(p) \in Nat
                   /\ Respondidos(p) \in Nat /\ Recibido(p) \in Nat
                   /\ Durmiendo(p) \in Nat
         /\ sem["envio"] \in Nat /\ Cuantos(pedidosFs, DeAlguien) \in Nat
         /\ Len(desbloqueos) \in Nat
<1>1. cola["blocked"] \in Seq(Pid) /\ pedidosFs \in Seq(Pedido)
      /\ desbloqueos \in Seq(Pid) /\ sem["envio"] \in Nat
  BY DEF TypeOK, Listas, Semaforos
<1>2. Cuantos(pedidosFs, DeAlguien) \in Nat
      /\ \A p : Cuantos(pedidosFs, De(p)) \in Nat /\ Cuantos(desbloqueos, {p}) \in Nat
                /\ Cuantos(cola["blocked"], {p}) \in Nat
  BY <1>1, Cuantos_Tipo
<1>3. \A p : /\ PorUbicar(p) \in Nat
              /\ Recibido(p) \in Nat /\ Durmiendo(p) \in Nat
  BY DEF PorUbicar, Recibido, Durmiendo, Cuenta
<1>4. \A p : EnBlocked(p) \in Nat /\ Pedidos(p) \in Nat /\ Respondidos(p) \in Nat
  BY <1>2 DEF EnBlocked, Pedidos, Respondidos
<1> QED BY <1>1, <1>2, <1>3, <1>4

(* A request is of a process exactly when it carries its pid.              *)
LEMMA Pedido_De ==
  ASSUME NEW r \in Pedido
  PROVE  /\ r \in DeAlguien <=> r.pid # Nadie
         /\ r.pid # Nadie <=> r.op \in {"TRUNCATE", "READ", "WRITE"}
         /\ r.pid # Nadie => r.pid \in Pid
         /\ \A p \in Pid : r \in De(p) <=> r.pid = p
<1>1. Nadie \notin Pid
  BY DEF Nadie, Pid
<1>2. CASE r \in [op : {"OPEN", "CREATE_ARCHIVO"}, pid : {Nadie}]
  BY <1>1, <1>2 DEF De, DeAlguien
<1>3. CASE r \in [op : {"TRUNCATE", "READ", "WRITE"}, pid : Pid]
  <2>1. r = [op |-> r.op, pid |-> r.pid] /\ r.op \in {"TRUNCATE", "READ", "WRITE"}
        /\ r.pid \in Pid
    BY <1>3
  <2> QED BY <1>1, <2>1, <1>3 DEF De, DeAlguien
<1> QED BY <1>2, <1>3 DEF Pedido

(* inicializar_planificador.                                               *)
LEMMA Orden_Init == Init => Inv4 /\ Inv5
<1> SUFFICES ASSUME Init PROVE Inv4 /\ Inv5 OBVIOUS
<1>1. /\ cola["blocked"] = << >> /\ sem["envio"] = 0 /\ pedidosFs = << >>
      /\ desbloqueos = << >> /\ perdidos = {}
      /\ en["E"] = "espera" /\ en["U"] = "espera"
  BY DEF Init, Listas, Semaforos, Hilos
<1>2. RolE = "otro" /\ RolU = "otro" /\ QuienE = Nadie /\ QuienU = Nadie
  BY <1>1 DEF EtiquetasPop, RolE, RolU, QuienE, QuienU
<1>3. \A S : Cuantos(<< >>, S) = 0
  BY FS_EmptySet DEF Cuantos
<1>4. Nadie \notin Pid
  BY DEF Nadie, Pid
<1>5. BlockedContada
  <2> SUFFICES ASSUME NEW p \in Pid \ perdidos
               PROVE  EnBlocked(p) + PorUbicar(p)
                        >= Pedidos(p) + Respondidos(p) + Recibido(p) + Durmiendo(p)
    BY DEF BlockedContada
  <2>1. EnBlocked(p) = 0 /\ Pedidos(p) = 0 /\ Respondidos(p) = 0
    BY <1>1, <1>3 DEF EnBlocked, Pedidos, Respondidos
  <2>2. PorUbicar(p) = 0 /\ Recibido(p) = 0 /\ Durmiendo(p) = 0
    BY <1>1, <1>2, <1>4 DEF PorUbicar, Recibido, Durmiendo, Cuenta
  <2> QED BY <2>1, <2>2
<1>6. EnvioContado /\ UltimoEsDeE
  BY <1>1, <1>2, <1>3 DEF EnvioContado, UltimoEsDeE, DebeEnvio, Cuenta
<1> QED BY <1>1, <1>5, <1>6 DEF Inv4, Inv5

(* What a step of another thread than E and U leaves alone.                *)
DeEyU == <<en["E"], pcb["E"], en["U"], pcb["U"], pc, perdidos, cola["blocked"],
           sem["envio"]>>
MismosProgramas == \A p \in Pid : programa[p] # << >> => programa'[p] = programa[p]

(* The instruction of E's process is the same one.                         *)
LEMMA Orden_MismaE ==
  ASSUME Inv1, Inv4, UNCHANGED <<en["E"], pcb["E"], pc>>, MismosProgramas
  PROVE  Inv4' /\ UNCHANGED <<RolE, QuienE>>
<1>1. Inv4'
  BY DEF Inv4
<1>2. ASSUME en["E"] \in {"ubica", "enlaza"} PROVE EnCurso' = EnCurso
  <2>1. Proceso \in Pid /\ pc[Proceso] > 0 /\ pc[Proceso] <= Len(programa[Proceso])
    BY <1>2 DEF Inv1, PcbTomado, TypeOK, Inv4, Proceso
  <2>2. programa[Proceso] # << >>
    <3>1. Len(<< >>) = 0 /\ pc[Proceso] \in Nat
      BY <2>1 DEF Inv1, TypeOK
    <3> QED BY <2>1, <3>1
  <2> QED BY <2>1, <2>2 DEF EnCurso, Proceso, MismosProgramas
<1>3. RolE' = RolE
  BY <1>2 DEF RolE
<1> QED BY <1>1, <1>3 DEF QuienE

(* A step of a thread that is neither E nor U.                             *)
LEMMA Orden_Otro ==
  ASSUME Inv1, Inv4, Inv5, UNCHANGED DeEyU, UNCHANGED <<pedidosFs, desbloqueos>>,
         MismosProgramas
  PROVE  Inv4' /\ Inv5'
<1>1. Inv4' /\ UNCHANGED <<RolE, QuienE>>
  BY Orden_MismaE DEF DeEyU
<1>2. UNCHANGED <<RolU, QuienU>>
  BY DEF DeEyU, RolU, QuienU
<1> QED BY <1>1, <1>2, Orden_Quieto DEF DeEyU, DeOrden

(* The death of the kernel moves nothing.                                  *)
LEMMA Orden_Cae == ASSUME Inv1, Inv4, Inv5, NEW m, Cae(m) PROVE Inv4' /\ Inv5'
  BY Orden_Otro DEF Cae, DeEyU, procesoVars, fsVars, MismosProgramas

(* A sem_wait or sem_post of a thread and a semaphore that are not E's or  *)
(* U's business with BLOCKED.                                              *)
LEMMA Orden_Semaforo ==
  ASSUME Inv1, Inv4, Inv5, NEW h \in Hilos \ {"E", "U"}, NEW de, NEW a,
         NEW s \in Semaforos \ {"envio"},
         PasoEspera(h, de, s, a) \/ PasoPostea(h, de, s, a)
  PROVE  Inv4' /\ Inv5'
<1>1. sem'["envio"] = sem["envio"] /\ en'["E"] = en["E"] /\ en'["U"] = en["U"]
  BY DEF Inv1, TypeOK, PasoEspera, PasoPostea, Espera, Postea, Va, Semaforos, Hilos
<1> QED BY <1>1, Orden_Otro DEF PasoEspera, PasoPostea, DeEyU, procesoVars, fsVars,
                                MismosProgramas

(* The consoles.                                                           *)
LEMMA Orden_Consola == ASSUME Inv1, Inv4, Inv5, Consola PROVE Inv4' /\ Inv5'
<1>1. CASE \E s \in Programas : NuevoProceso(s)
  <2>1. /\ MismosProgramas
        /\ UNCHANGED <<pc, sem, cola, en, pcb, fsVars, perdidos>>
    BY <1>1 DEF NuevoProceso, MismosProgramas, Inv1, TypeOK, ProgramaFijado, Pid
  <2> QED BY <2>1, Orden_Otro DEF DeEyU, fsVars
<1>2. CASE \E p \in Pid : PushNew(p)
  BY <1>2, Orden_Otro DEF PushNew, Agrega, DeEyU, fsVars, MismosProgramas, Inv1,
     TypeOK, Listas
<1>3. CASE \E p \in Pid : PostNuevos(p)
  BY <1>3, Orden_Otro DEF PostNuevos, Postea, DeEyU, fsVars, MismosProgramas, Inv1,
     TypeOK, Semaforos
<1> QED BY <1>1, <1>2, <1>3 DEF Consola

(* push_pcb_estado(e_ready, ...) and logReady leave BLOCKED alone.         *)
LEMMA Orden_Ready ==
  ASSUME Inv1, NEW h \in {"L", "E", "U"}, PasaAReady(h), ~\E m : Cae(m)
  PROVE  /\ \E de \in EtiquetasReady, a \in EtiquetasReady \union {"espera", "libera"} :
              Va(h, de, a)
         /\ UNCHANGED <<procesoVars, pcb, perdidos, cola["blocked"], sem["envio"],
                        pedidosFs, desbloqueos>>
  BY DEF PasaAReady, PushReady, LogReadyCuenta, LogReadyRecorre, PostReady, PasoPostea,
     Postea, Agrega, EtiquetasReady, fsVars, Inv1, TypeOK, Listas, Semaforos

(* planificador_largo_plazo.                                               *)
LEMMA Orden_LargoPlazo == ASSUME Inv1, Inv4, Inv5, LargoPlazo PROVE Inv4' /\ Inv5'
<1>1. CASE PasoEspera("L", "espera", "nuevos", "grado")
           \/ PasoEspera("L", "grado", "grado", "saca")
  BY <1>1, Orden_Semaforo DEF Hilos, Semaforos
<1>2. CASE \E m : Cae(m)
  BY <1>2, Orden_Cae
<1>3. CASE PasoSaca("L", "new", "pushReady") /\ ~\E m : Cae(m)
  BY <1>3, Orden_Otro DEF PasoSaca, Saca, Va, DeEyU, procesoVars, fsVars,
     MismosProgramas, Inv1, TypeOK, Listas, Hilos
<1>4. CASE PasaAReady("L") /\ ~\E m : Cae(m)
  <2>1. en'["E"] = en["E"] /\ en'["U"] = en["U"]
    <3>1. PICK de, a : Va("L", de, a)
      BY <1>4, Orden_Ready
    <3> QED BY <3>1 DEF Va, Inv1, TypeOK
  <2> QED BY <1>4, <2>1, Orden_Ready, Orden_Otro DEF DeEyU, procesoVars,
                                                     MismosProgramas
<1> QED BY <1>1, <1>2, <1>3, <1>4 DEF LargoPlazo

(* planificador_corto_plazo.                                               *)
LEMMA Orden_CortoPlazo == ASSUME Inv1, Inv4, Inv5, CortoPlazo PROVE Inv4' /\ Inv5'
<1>1. CASE \/ PasoEspera("C", "espera", "ready", "libre")
           \/ PasoEspera("C", "libre", "libre", "saca")
           \/ PasoPostea("C", "postExecute", "execute", "espera")
  BY <1>1, Orden_Semaforo DEF Hilos, Semaforos
<1>2. CASE \E m : Cae(m)
  BY <1>2, Orden_Cae
<1>3. CASE PasoSaca("C", "ready", "pushExecute") /\ ~\E m : Cae(m)
  BY <1>3, Orden_Otro DEF PasoSaca, Saca, Va, DeEyU, procesoVars, fsVars,
     MismosProgramas, Inv1, TypeOK, Listas, Hilos
<1>4. CASE SacaHrrn
  BY <1>4, Orden_Otro DEF SacaHrrn, Va, DeEyU, procesoVars, fsVars, MismosProgramas,
     Inv1, TypeOK, Hilos
<1>5. CASE PushExecute("C")
  BY <1>5, Orden_Otro DEF PushExecute, Agrega, Va, DeEyU, procesoVars, fsVars,
     MismosProgramas, Inv1, TypeOK, Listas, Hilos
<1> QED BY <1>1, <1>2, <1>3, <1>4, <1>5 DEF CortoPlazo, SacaReady, SigueEnExecute

(* The labels at which E has to do with BLOCKED.                           *)
DeBloqueo == {"ubica", "enlaza", "postEnvio", "esperaIo"} \union EtiquetasPop
DeFs      == <<cola["blocked"], perdidos, sem["envio"], desbloqueos, en["U"],
               pcb["U"]>>

(* A step of E far from BLOCKED.                                           *)
LEMMA Orden_LejosE ==
  ASSUME Inv5, en["E"] \notin DeBloqueo, en'["E"] \notin DeBloqueo,
         UNCHANGED <<DeFs, pedidosFs>>
  PROVE  Inv5'
<1>1. UNCHANGED <<RolE, QuienE, RolU, QuienU>>
  BY DEF RolE, QuienE, RolU, QuienU, DeBloqueo, DeFs
<1> QED BY <1>1, Orden_Quieto DEF DeOrden, DeFs

(* E asks F for something without giving a pid.                            *)
LEMMA Orden_PideSinPid ==
  ASSUME Inv1, Inv5, NEW r \in Pedido, r.pid = Nadie,
         pedidosFs' = Append(pedidosFs, r), UNCHANGED DeFs,
         en["E"] \notin DeBloqueo, en'["E"] \notin DeBloqueo
  PROVE  Inv5'
<1>1. RolE = "otro" /\ RolE' = "otro" /\ QuienE' = QuienE /\ UNCHANGED <<RolU, QuienU>>
  BY DEF RolE, QuienE, RolU, QuienU, DeBloqueo, DeFs
<1>2. pedidosFs \in Seq(Pedido)
  BY DEF Inv1, TypeOK
<1>3. \A S : r \notin S => Cuantos(pedidosFs', S) = Cuantos(pedidosFs, S)
  <2> SUFFICES ASSUME NEW S, r \notin S
               PROVE  Cuantos(pedidosFs', S) = Cuantos(pedidosFs, S)
    OBVIOUS
  <2>1. Cuantos(pedidosFs', S) = Cuantos(pedidosFs, S) + Cuenta(r \in S)
    BY <1>2, Cuantos_Append
  <2>2. Cuenta(r \in S) = 0 /\ Cuantos(pedidosFs, S) \in Nat
    BY <1>2, Cuantos_Tipo DEF Cuenta
  <2> QED BY <2>1, <2>2
<1>4. r \notin DeAlguien /\ \A p \in Pid : r \notin De(p)
  BY Pedido_De DEF Pid, Nadie
<1>5. \A p \in Pid : Pedidos(p)' = Pedidos(p)
  BY <1>3, <1>4 DEF Pedidos
<1>6. BlockedContada'
  BY <1>1, <1>5 DEF DeFs, Inv5, BlockedContada, EnBlocked, PorUbicar,
     Respondidos, Recibido, Durmiendo
<1>7. EnvioContado' /\ UltimoEsDeE'
  BY <1>1, <1>3, <1>4 DEF DeFs, Inv5, EnvioContado, UltimoEsDeE, DebeEnvio
<1> QED BY <1>6, <1>7 DEF Inv5

(* An answer of the cpu.                                                   *)
LEMMA Orden_Responde ==
  ASSUME Inv1, Inv4, NEW op, NEW a \in Etiquetas["E"] \ {"espera", "saca", "cpu", "enlaza"},
         Responde(op, a)
  PROVE  /\ Inv4' /\ en["E"] = "cpu" /\ en'["E"] = a /\ EnCurso'.op = op
         /\ UNCHANGED <<cola["blocked"], perdidos, sem["envio"], en["U"], pcb>>
         /\ Proceso \in Pid
<1>1. /\ en["E"] = "cpu" /\ en' = [en EXCEPT !["E"] = a]
      /\ pc' = [pc EXCEPT ![Proceso] = @ + 1] /\ Siguiente.op = op
      /\ UNCHANGED <<programa, sem, cola, pcb, perdidos>>
      /\ Proceso \in Pid /\ Proceso' = Proceso
  BY Tipo_Siguiente DEF Responde, Va, Proceso
<1>2. en'["E"] = a /\ en'["U"] = en["U"] /\ pc'[Proceso] = pc[Proceso] + 1
      /\ pc[Proceso] \in Nat
  BY <1>1 DEF Inv1, TypeOK, Hilos
<1>3. EnCurso'.op = op
  BY <1>1, <1>2 DEF EnCurso, Siguiente
<1>4. pc'[Proceso] > 0
  BY <1>2
<1>5. Inv4'
  BY <1>1, <1>2, <1>4 DEF Inv4, Proceso
<1> QED BY <1>1, <1>2, <1>3, <1>5

(* The answers that have nothing to do with BLOCKED.                       *)
LEMMA Orden_SoloResponde ==
  ASSUME Inv1, Inv4, Inv5,
         Yield \/ Termina \/ WaitInexistente \/ WaitConcede \/ Signal \/ SignalSinWait
         \/ CreateSegment \/ Close \/ Seek \/ Open
  PROVE  Inv4' /\ Inv5'
<1>0. /\ {"pushReady", "estadoEnExit", "pushExecute", "pushSignal", "memoria", "esperaFs"}
           \subseteq Etiquetas["E"] \ {"espera", "saca", "cpu", "enlaza"}
      /\ {"pushReady", "estadoEnExit", "pushExecute", "pushSignal", "memoria", "esperaFs"}
           \cap DeBloqueo = {}
      /\ "cpu" \notin DeBloqueo
  BY EtiquetasTipo DEF EtiquetasReady, DeBloqueo, EtiquetasPop
<1>1. CASE \E m : Cae(m)
  BY <1>1, Orden_Cae
<1>2. CASE ~\E m : Cae(m)
  <2>1. PICK op, a : /\ Responde(op, a)
                     /\ a \in {"pushReady", "estadoEnExit", "pushExecute", "pushSignal",
                               "memoria", "esperaFs"}
    <3>1. CASE CreateSegment
      BY <3>1 DEF CreateSegment
    <3>2. CASE SignalSinWait
      BY <1>2, <3>2 DEF SignalSinWait, RespondeYCae
    <3>3. CASE ~CreateSegment /\ ~SignalSinWait
      BY <3>3 DEF Yield, Termina, WaitInexistente, WaitConcede, Signal, Close, Seek, Open
    <3> QED BY <3>1, <3>2, <3>3
  <2>2. Inv4' /\ en["E"] \notin DeBloqueo /\ en'["E"] \notin DeBloqueo
        /\ UNCHANGED <<cola["blocked"], perdidos, sem["envio"], en["U"], pcb>>
    BY <1>0, <2>1, Orden_Responde
  <2>3. CASE Open
    <3>1. [op |-> "OPEN", pid |-> Nadie] \in Pedido
      BY DEF Pedido
    <3> QED BY <2>2, <2>3, <3>1, Orden_PideSinPid DEF Open, DeFs
  <2>4. CASE ~Open
    <3>1. UNCHANGED fsVars
      BY <1>2, <2>4 DEF Yield, Termina, WaitInexistente, WaitConcede, Signal,
         SignalSinWait, CreateSegment, Close, Seek, RespondeYCae
    <3> QED BY <2>2, <3>1, Orden_LejosE DEF DeFs, fsVars
  <2> QED BY <2>3, <2>4
<1> QED BY <1>1, <1>2

(* TRUNCATE, READ and WRITE: a pop more to come, and a PCB on its way.     *)
LEMMA Orden_PideFs == ASSUME Inv1, Inv4, Inv5, PideFs PROVE Inv4' /\ Inv5'
<1> DEFINE q == Proceso
<1>1. PICK op \in {"TRUNCATE", "READ", "WRITE"} :
        Responde(op, "ubica") /\ pedidosFs' = Append(pedidosFs, [op |-> op, pid |-> q])
  BY DEF PideFs
<1> DEFINE r == [op |-> op, pid |-> q]
<1>2. /\ Inv4' /\ en["E"] = "cpu" /\ en'["E"] = "ubica" /\ EnCurso'.op = op
      /\ UNCHANGED <<cola["blocked"], perdidos, sem["envio"], en["U"], pcb>>
      /\ q \in Pid /\ desbloqueos' = desbloqueos
  <2>1. "ubica" \in Etiquetas["E"] \ {"espera", "saca", "cpu", "enlaza"}
    BY EtiquetasTipo
  <2> QED BY <1>1, <2>1, Orden_Responde DEF PideFs
<1>3. /\ RolE = "otro" /\ RolE' = "ubica" /\ QuienE' = q
      /\ UNCHANGED <<RolU, QuienU>>
  BY <1>1, <1>2 DEF EtiquetasPop, RolE, RolU, QuienE, QuienU, Proceso
<1>4. pedidosFs \in Seq(Pedido) /\ r \in Pedido
  BY <1>2 DEF Inv1, TypeOK, Pedido
<1>5. /\ r \in DeAlguien /\ \A p \in Pid : r \in De(p) <=> q = p
  BY <1>2, <1>4, Pedido_De DEF Nadie, Pid
<1>6. \A S : Cuantos(pedidosFs', S) = Cuantos(pedidosFs, S) + Cuenta(r \in S)
  BY <1>1, <1>4, Cuantos_Append
<1>7. Cuantos(pedidosFs', DeAlguien) = Cuantos(pedidosFs, DeAlguien) + 1
  BY <1>5, <1>6 DEF Cuenta
<1>8. BlockedContada'
  <2> SUFFICES ASSUME NEW p \in Pid \ perdidos
               PROVE  (EnBlocked(p) + PorUbicar(p)
                         >= Pedidos(p) + Respondidos(p) + Recibido(p) + Durmiendo(p))'
    BY <1>2 DEF BlockedContada
  <2>1. Pedidos(p)' = Pedidos(p) + Cuenta(q = p)
    BY <1>5, <1>6 DEF Pedidos, Cuenta
  <2>2. /\ PorUbicar(p) = 0 /\ PorUbicar(p)' = Cuenta(q = p) /\ Cuenta(q = p) \in Nat
        /\ Durmiendo(p) = 0 /\ Durmiendo(p)' = 0
    BY <1>3 DEF PorUbicar, Durmiendo, Cuenta
  <2>3. /\ EnBlocked(p)' = EnBlocked(p)
        /\ Respondidos(p)' = Respondidos(p) /\ Recibido(p)' = Recibido(p)
    BY <1>2, <1>3 DEF EnBlocked, Respondidos, Recibido
  <2> QED BY <2>1, <2>2, <2>3, Orden_Naturales DEF Inv1, Inv5, BlockedContada
<1>9. EnvioContado'
  <2>1. Cuenta(DebeEnvio) = 0 /\ Cuenta(DebeEnvio)' = 1
    BY <1>3 DEF Cuenta, DebeEnvio
  <2>2. Cuenta(RolU = "pop") \in Nat /\ Cuenta(RolU # "otro") \in Nat
    BY DEF Cuenta
  <2> QED BY <1>2, <1>3, <1>7, <2>1, <2>2, Orden_Naturales DEF Inv1, Inv5, EnvioContado
<1>10. UltimoEsDeE'
  <2>1. pedidosFs' # << >> /\ pedidosFs'[Len(pedidosFs')] = r
    BY <1>1, <1>4, AppendProperties
  <2> QED BY <1>3, <2>1 DEF UltimoEsDeE
<1> QED BY <1>2, <1>8, <1>9, <1>10 DEF Inv5

(* IO: E pushes the PCB itself and waits itself.                           *)
LEMMA Orden_Io == ASSUME Inv1, Inv4, Inv5, Io PROVE Inv4' /\ Inv5'
<1>1. "ubica" \in Etiquetas["E"] \ {"espera", "saca", "cpu", "enlaza"}
  BY EtiquetasTipo
<1>2. /\ Inv4' /\ en["E"] = "cpu" /\ en'["E"] = "ubica" /\ EnCurso'.op = "IO"
      /\ UNCHANGED <<cola["blocked"], perdidos, sem["envio"], en["U"], pcb>>
      /\ UNCHANGED <<pedidosFs, desbloqueos>>
  BY <1>1, Orden_Responde DEF Io, fsVars
<1>3. UNCHANGED <<RolE, QuienE, RolU, QuienU>>
  BY <1>2 DEF EtiquetasPop, RolE, RolU, QuienE, QuienU
<1> QED BY <1>2, <1>3, Orden_Quieto DEF DeOrden

(* The other steps of E far from BLOCKED.                                  *)
LEMMA Orden_PasoLejos ==
  ASSUME Inv1, Inv4, Inv5, NEW de, NEW a, Va("E", de, a),
         {de, a} \cap (DeBloqueo \union {"cpu", "saca"}) = {}, de = "espera" => a = "espera",
         UNCHANGED <<pc, perdidos, cola["blocked"], sem["envio"], pcb, desbloqueos>>,
         pedidosFs' = pedidosFs
  PROVE  Inv4' /\ Inv5'
<1>1. en["E"] = de /\ en'["E"] = a /\ en'["U"] = en["U"]
  BY DEF Va, Inv1, TypeOK, Hilos
<1>2. Inv4'
  BY <1>1 DEF Inv4, DeBloqueo
<1> QED BY <1>1, <1>2, Orden_LejosE DEF DeFs

(* The rest of the switch of execute_pcb.                                  *)
LEMMA Orden_Instrucciones ==
  ASSUME Inv1, Inv4, Inv5, Instrucciones PROVE Inv4' /\ Inv5'
<1>1. CASE \E m : Cae(m)
  BY <1>1, Orden_Cae
<1>2. CASE PasoPostea("E", "memoria", "execute", "pushExecute")
  BY <1>2, Orden_PasoLejos DEF PasoPostea, Postea, procesoVars, fsVars, DeBloqueo, EtiquetasPop, Inv1,
     TypeOK, Semaforos
<1>3. CASE EmpiezaCompactacion
  BY <1>3, Orden_PasoLejos DEF EmpiezaCompactacion, procesoVars, fsVars, DeBloqueo, EtiquetasPop
<1>4. CASE EstadoEnExit
  <2>1. Va("E", "estadoEnExit", "pushExit") \/ Va("E", "pushExit", "enExit")
    BY <1>4 DEF EstadoEnExit, Va
  <2>2. UNCHANGED <<pc, perdidos, cola["blocked"], sem, pcb, desbloqueos, pedidosFs>>
    BY <1>4 DEF EstadoEnExit, Agrega, procesoVars, fsVars, Inv1, TypeOK, Listas
  <2> QED BY <2>1, <2>2, Orden_PasoLejos DEF DeBloqueo, EtiquetasPop
<1>5. CASE PushSignal
  BY <1>5, Orden_PasoLejos DEF PushSignal, Agrega, procesoVars, fsVars, DeBloqueo, EtiquetasPop, Inv1,
     TypeOK, Listas
<1>6. CASE ArchivoAbierto
  BY <1>6, Orden_PasoLejos DEF ArchivoAbierto, procesoVars, DeBloqueo, EtiquetasPop
<1>7. CASE CreaArchivo
  <2>1. [op |-> "CREATE_ARCHIVO", pid |-> Nadie] \in Pedido
    BY DEF Pedido
  <2>2. Inv4' /\ en["E"] = "esperaFs" /\ en' = en
    BY <1>7 DEF CreaArchivo, procesoVars, Inv4
  <2> QED BY <1>7, <2>1, <2>2, Orden_PideSinPid DEF CreaArchivo, DeFs, DeBloqueo, EtiquetasPop
<1>8. CASE PideFs \/ Io
  BY <1>8, Orden_PideFs, Orden_Io
<1>9. CASE Yield \/ Termina \/ WaitInexistente \/ WaitConcede \/ Signal \/ SignalSinWait
           \/ CreateSegment \/ Close \/ Seek \/ Open
  BY <1>9, Orden_SoloResponde
<1>10. CASE WaitAgotado \/ FallaCompactacion \/ DeleteSegment \/ MovInvalido
            \/ PredicadoCae \/ CloseInexistente \/ NoAbierto
  BY <1>1, <1>10 DEF WaitAgotado, FallaCompactacion, DeleteSegment, MovInvalido,
     PredicadoCae, CloseInexistente, NoAbierto, RespondeYCae
<1> QED BY <1>1, <1>2, <1>3, <1>4, <1>5, <1>6, <1>7, <1>8, <1>9, <1>10
        DEF Instrucciones, SegmentoCreado

(* list_add looks for the link to store after.                             *)
LEMMA Orden_Ubica == ASSUME Inv1, Inv4, Inv5, Ubica PROVE Inv4' /\ Inv5'
<1>1. CASE \E m : Cae(m)
  BY <1>1, Orden_Cae
<1>2. CASE ~\E m : Cae(m)
  <2>1. /\ en["E"] = "ubica" /\ en'["E"] = "enlaza" /\ en'["U"] = en["U"]
        /\ UNCHANGED <<pc, programa, sem, cola, pcb, perdidos, pedidosFs, desbloqueos>>
    BY <1>2 DEF Ubica, Va, procesoVars, fsVars, Inv1, TypeOK, Hilos
  <2>2. Inv4'
    BY <2>1 DEF Inv4
  <2>3. EnCurso' = EnCurso
    BY <2>1 DEF EnCurso, Proceso
  <2>4. UNCHANGED <<RolE, QuienE, RolU, QuienU>>
    BY <2>1, <2>3 DEF EtiquetasPop, RolE, RolU, QuienE, QuienU
  <2> QED BY <2>1, <2>2, <2>4, Orden_Quieto DEF DeOrden
<1> QED BY <1>1, <1>2

(* ... and stores the PCB there: one entry more in BLOCKED, for those that *)
(* the store does not unlink.                                              *)
LEMMA Orden_Enlaza == ASSUME Inv1, AnclaBien, Inv4, Inv5, Enlaza PROVE Inv4' /\ Inv5'
<1> DEFINE q == Proceso
<1>1. /\ en["E"] = "enlaza" /\ q \in Pid /\ QuienU' = QuienU
      /\ UNCHANGED <<pc, programa, sem, pcb, pedidosFs, desbloqueos, RolU>>
      /\ EnCurso' = EnCurso
  BY DEF Enlaza, procesoVars, fsVars, Inv1, PcbTomado, Proceso,
     EnCurso, RolU, QuienU, TypeOK, Hilos
<1>2. en'["E"] = IF EnCurso.op = "IO" THEN "esperaIo" ELSE "postEnvio"
  BY DEF Enlaza, Inv1, TypeOK, Hilos
<1>3. Inv4'
  BY <1>1, <1>2 DEF Inv4
<1>4. \A p \in Pid \ perdidos' : /\ EnBlocked(p)' = EnBlocked(p) + Cuenta(q = p)
                                 /\ EnBlocked(p)' \in Nat /\ p \in Pid \ perdidos
  <2> SUFFICES ASSUME NEW p \in Pid \ perdidos'
               PROVE  /\ EnBlocked(p)' = EnBlocked(p) + Cuenta(q = p)
                      /\ EnBlocked(p)' \in Nat /\ p \in Pid \ perdidos
    OBVIOUS
  <2> DEFINE s == cola["blocked"]
             n == leido["E"]
             t == SubSeq(s, 1, n)
  <2>0. EnBlocked(p) \in Nat /\ Cuenta(q = p) \in Nat
    BY Orden_Naturales DEF Inv1, Cuenta
  <2>1. CASE n = Liberado
    <3>1. /\ p # q /\ p \notin perdidos /\ cola' = cola
      BY <2>1 DEF Enlaza
    <3>2. Cuenta(q = p) = 0 /\ EnBlocked(p)' = EnBlocked(p)
      BY <3>1 DEF Cuenta, EnBlocked
    <3> QED BY <2>0, <3>1, <3>2
  <2>2. CASE n # Liberado
    <3>1. s \in Seq(Pid) /\ n \in 0 .. Len(s)
      <4>1. s \in Seq(Pid)
        BY DEF Inv1, TypeOK, Listas
      <4>2. n \in Int /\ n >= Liberado
        BY DEF Inv1, TypeOK, Hilos
      <4>3. n <= Len(s)
        BY <1>1 DEF AnclaBien
      <4>4. Len(s) \in Nat
        BY <4>1
      <4> HIDE DEF s, n
      <4> QED BY <2>2, <4>1, <4>2, <4>3, <4>4 DEF Liberado
    <3>2. cola'["blocked"] = Append(t, q) /\ p \notin perdidos
      BY <2>2 DEF Enlaza, Inv1, TypeOK, Listas
    <3>3. \A i \in n + 1 .. Len(s) : s[i] \notin {p}
      BY <2>2 DEF Enlaza
    <3>4. t \in Seq(Pid) /\ Cuantos(t, {p}) = Cuantos(s, {p})
      BY <3>1, <3>3, Cuantos_Prefijo
    <3>5. EnBlocked(p)' = EnBlocked(p) + Cuenta(q \in {p})
      <4> HIDE DEF t, n
      <4>1. Cuantos(Append(t, q), {p}) = Cuantos(t, {p}) + Cuenta(q \in {p})
        BY <1>1, <3>4, Cuantos_Append
      <4> QED BY <3>2, <3>4, <4>1 DEF EnBlocked
    <3>6. Cuenta(q \in {p}) = Cuenta(q = p)
      BY DEF Cuenta
    <3> QED BY <2>0, <3>2, <3>5, <3>6
  <2> QED BY <2>1, <2>2
<1>5. BlockedContada'
  <2> SUFFICES ASSUME NEW p \in Pid \ perdidos'
               PROVE  (EnBlocked(p) + PorUbicar(p)
                         >= Pedidos(p) + Respondidos(p) + Recibido(p) + Durmiendo(p))'
    BY DEF BlockedContada
  <2>1. /\ PorUbicar(p)' = 0 /\ Durmiendo(p) = 0
        /\ PorUbicar(p) + Durmiendo(p)' = Cuenta(q = p)
        /\ Durmiendo(p)' \in Nat /\ PorUbicar(p) \in Nat /\ Cuenta(q = p) \in Nat
    BY <1>1, <1>2 DEF PorUbicar, Durmiendo, RolE, QuienE, Cuenta, Proceso, EtiquetasPop
  <2>2. /\ Pedidos(p)' = Pedidos(p) /\ Respondidos(p)' = Respondidos(p)
        /\ Recibido(p)' = Recibido(p)
    BY <1>1 DEF Pedidos, Respondidos, Recibido
  <2>3. EnBlocked(p) + PorUbicar(p)
          >= Pedidos(p) + Respondidos(p) + Recibido(p) + Durmiendo(p)
    BY <1>4 DEF Inv5, BlockedContada
  <2>4. /\ EnBlocked(p) \in Nat /\ Pedidos(p) \in Nat
        /\ Respondidos(p) \in Nat /\ Recibido(p) \in Nat
    BY Orden_Naturales DEF Inv1
  <2> HIDE DEF q
  <2> QED BY <1>4, <2>1, <2>2, <2>3, <2>4
<1>6. DebeEnvio' = DebeEnvio /\ (DebeEnvio => QuienE' = QuienE)
  BY <1>1, <1>2 DEF DebeEnvio, RolE, QuienE, EtiquetasPop
<1>7. EnvioContado' /\ UltimoEsDeE'
  BY <1>1, <1>6 DEF EnvioContado, UltimoEsDeE, Inv5
<1> QED BY <1>3, <1>5, <1>7 DEF Inv5

(* A pop that ends: it took one entry at most of its own pid, and what it  *)
(* took of another pid is lost.                                            *)
LEMMA Orden_SalePop ==
  ASSUME Inv1, Inv4, Inv5, NEW h \in {"E", "U"}, NEW de \in EtiquetasPop,
         Va(h, de, "pushReady"), perdidos \subseteq perdidos',
         UNCHANGED <<pc, programa, sem, pcb, pedidosFs, desbloqueos>>,
         \A p \in Pid \ perdidos' : /\ EnBlocked(p)' \in Nat
                                    /\ EnBlocked(p) <= EnBlocked(p)' + Cuenta(pcb[h] = p)
  PROVE  Inv4' /\ Inv5'
<1> DEFINE q == pcb[h]
<1>1. /\ en[h] = de /\ en'[h] = "pushReady" /\ h \in Hilos
      /\ \A t \in Hilos \ {h} : en'[t] = en[t]
  BY DEF Va, Inv1, TypeOK, Hilos
<1>2. ASSUME NEW p \in Pid \ perdidos'
      PROVE  /\ EnBlocked(p) + PorUbicar(p)
                  >= Pedidos(p) + Respondidos(p) + Recibido(p) + Durmiendo(p)
             /\ EnBlocked(p) \in Nat /\ Pedidos(p) \in Nat /\ Respondidos(p) \in Nat
             /\ Recibido(p) \in Nat /\ PorUbicar(p) \in Nat /\ Durmiendo(p) \in Nat
             /\ Cuenta(q = p) \in Nat
             /\ Pedidos(p)' = Pedidos(p) /\ Respondidos(p)' = Respondidos(p)
  BY <1>2, Orden_Naturales DEF Inv1, Inv5, BlockedContada, Cuenta, Pedidos, Respondidos
<1>3. CASE h = "E"
  <2>1. /\ RolE = "io" /\ RolE' = "otro" /\ QuienE = q /\ QuienE' = Nadie
        /\ UNCHANGED <<RolU, QuienU>>
    BY <1>1, <1>3 DEF RolE, RolU, QuienE, QuienU, Hilos, EtiquetasPop
  <2>2. Inv4'
    BY <1>1, <1>3 DEF Inv4, EtiquetasPop
  <2>3. BlockedContada'
    <3> SUFFICES ASSUME NEW p \in Pid \ perdidos'
                 PROVE  (EnBlocked(p) + PorUbicar(p)
                           >= Pedidos(p) + Respondidos(p) + Recibido(p) + Durmiendo(p))'
      BY DEF BlockedContada
    <3>1. /\ PorUbicar(p) = 0 /\ PorUbicar(p)' = 0
          /\ Durmiendo(p) = Cuenta(q = p) /\ Durmiendo(p)' = 0
          /\ Recibido(p)' = Recibido(p)
      BY <2>1 DEF PorUbicar, Durmiendo, Recibido, Cuenta
    <3> HIDE DEF q
    <3>2. EnBlocked(p)' \in Nat /\ EnBlocked(p) <= EnBlocked(p)' + Cuenta(q = p)
      BY DEF q
    <3> QED BY <1>2, <3>1, <3>2
  <2>4. EnvioContado' /\ UltimoEsDeE'
    BY <2>1 DEF EnvioContado, UltimoEsDeE, DebeEnvio, Inv5
  <2> QED BY <2>2, <2>3, <2>4 DEF Inv5
<1>4. CASE h = "U"
  <2>1. UNCHANGED <<en["E"], pcb["E"], pc>> /\ MismosProgramas
    BY <1>1, <1>4 DEF Hilos, MismosProgramas
  <2>2. Inv4' /\ UNCHANGED <<RolE, QuienE>>
    BY <2>1, Orden_MismaE
  <2>3. RolU = "pop" /\ RolU' = "otro" /\ QuienU = q /\ QuienU' = Nadie
    BY <1>1, <1>4 DEF RolU, QuienU, EtiquetasPop
  <2>4. BlockedContada'
    <3> SUFFICES ASSUME NEW p \in Pid \ perdidos'
                 PROVE  (EnBlocked(p) + PorUbicar(p)
                           >= Pedidos(p) + Respondidos(p) + Recibido(p) + Durmiendo(p))'
      BY DEF BlockedContada
    <3>1. /\ Recibido(p) = Cuenta(q = p) /\ Recibido(p)' = 0
          /\ PorUbicar(p)' = PorUbicar(p) /\ Durmiendo(p)' = Durmiendo(p)
      BY <2>2, <2>3 DEF Recibido, PorUbicar, Durmiendo, Cuenta, Nadie, Pid
    <3> HIDE DEF q
    <3>2. EnBlocked(p)' \in Nat /\ EnBlocked(p) <= EnBlocked(p)' + Cuenta(q = p)
      BY DEF q
    <3> QED BY <1>2, <3>1, <3>2
  <2>5. EnvioContado'
    <3>1. /\ Cuenta(RolU = "pop") = 1 /\ Cuenta(RolU = "pop")' = 0
          /\ Cuenta(RolU # "otro") = 1 /\ Cuenta(RolU # "otro")' = 0
      BY <2>3 DEF Cuenta
    <3>2. Cuenta(DebeEnvio)' = Cuenta(DebeEnvio) /\ Cuenta(DebeEnvio) \in Nat
      BY <2>2 DEF Cuenta, DebeEnvio
    <3> QED BY <3>1, <3>2, Orden_Naturales DEF Inv1, Inv5, EnvioContado
  <2>6. UltimoEsDeE'
    BY <2>2, <2>3 DEF UltimoEsDeE, DebeEnvio, Inv5
  <2> QED BY <2>2, <2>4, <2>5, <2>6 DEF Inv5
<1> QED BY <1>3, <1>4

(* list_remove of the index found: the entry there, whoever it is.         *)
LEMMA Orden_QuitaEnlace ==
  ASSUME Inv1, AnclaBien, Inv4, Inv5, NEW h \in {"E", "U"}, QuitaEnlace(h)
  PROVE  Inv4' /\ Inv5'
<1> DEFINE s == cola["blocked"]
           k == leido[h]
<1>1. /\ Va(h, "quita", "pushReady") /\ "quita" \in EtiquetasPop
      /\ perdidos \subseteq perdidos'
      /\ UNCHANGED <<pc, programa, sem, pcb, pedidosFs, desbloqueos>>
  BY DEF QuitaEnlace, procesoVars, fsVars, EtiquetasPop
<1>2. s \in Seq(Pid) /\ k \in DOMAIN s
  BY <1>1 DEF QuitaEnlace, Va, Inv1, TypeOK, AnclaBien, Listas, Hilos
<1>3. ASSUME NEW p \in Pid \ perdidos'
      PROVE  EnBlocked(p)' \in Nat /\ EnBlocked(p) <= EnBlocked(p)' + Cuenta(pcb[h] = p)
  <2>0. EnBlocked(p) \in Nat /\ Cuenta(pcb[h] = p) \in Nat
    BY Orden_Naturales DEF Inv1, Cuenta
  <2>1. CASE cola' = cola
    <3>1. EnBlocked(p)' = EnBlocked(p)
      BY <2>1 DEF EnBlocked
    <3> QED BY <2>0, <3>1
  <2>2. CASE /\ SacaPosicion("blocked", k)
             /\ perdidos' = perdidos \union ({s[k]} \ {pcb[h]})
    <3>1. cola'["blocked"] = SinPosicion(s, k) /\ SinPosicion(s, k) \in Seq(Pid)
      BY <1>2, <2>2, SinPosicionTipo DEF SacaPosicion, Inv1, TypeOK, Listas
    <3>2. EnBlocked(p)' \in Nat
      BY <3>1, Cuantos_Tipo DEF EnBlocked
    <3>3. EnBlocked(p) = EnBlocked(p)' + Cuenta(s[k] \in {p})
      BY <1>2, <3>1, Cuantos_SinPosicion DEF EnBlocked
    <3>4. s[k] = p => pcb[h] = p
      BY <1>3, <2>2
    <3>5. Cuenta(s[k] \in {p}) <= Cuenta(pcb[h] = p) /\ Cuenta(s[k] \in {p}) \in Nat
      BY <3>4 DEF Cuenta
    <3> HIDE DEF s, k
    <3> QED BY <2>0, <3>2, <3>3, <3>5
  <2> QED BY <2>1, <2>2 DEF QuitaEnlace
<1> QED BY <1>1, <1>3, Orden_SalePop

(* pop_blocked by E or by U.                                               *)
LEMMA Orden_SacaBlocked ==
  ASSUME Inv1, AnclaBien, Inv4, Inv5, NEW h \in {"E", "U"}, SacaBlocked(h)
  PROVE  Inv4' /\ Inv5'
<1>1. CASE \E m : Cae(m)
  BY <1>1, Orden_Cae
<1>2. CASE QuitaEnlace(h)
  BY <1>2, Orden_QuitaEnlace
<1>3. CASE ~(\E m : Cae(m)) /\ ~QuitaEnlace(h)
  <2>1. /\ UNCHANGED <<pc, programa, sem, cola, pcb, perdidos, pedidosFs, desbloqueos>>
        /\ \/ Va(h, "sacaBlocked", "indice") \/ Va(h, "indice", "quita")
           \/ \E de \in {"indice", "quita"} : Va(h, de, "pushReady")
    BY <1>3 DEF SacaBlocked, EncuentraBlocked, BuscaIndice, QuitaNada, QuitaCae,
       CaminaSobreLiberado, procesoVars, fsVars
  <2>2. CASE \E de \in {"indice", "quita"} : Va(h, de, "pushReady")
    <3>1. PICK de \in EtiquetasPop : Va(h, de, "pushReady")
      BY <2>2 DEF EtiquetasPop
    <3>2. \A p : /\ EnBlocked(p)' = EnBlocked(p) /\ EnBlocked(p) \in Nat
                 /\ Cuenta(pcb[h] = p) \in Nat
      BY <2>1, Orden_Naturales DEF Inv1, EnBlocked, Cuenta
    <3>3. \A p \in Pid \ perdidos' :
            EnBlocked(p)' \in Nat /\ EnBlocked(p) <= EnBlocked(p)' + Cuenta(pcb[h] = p)
      BY <3>2
    <3> QED BY <2>1, <3>1, <3>3, Orden_SalePop
  <2>3. CASE Va(h, "sacaBlocked", "indice") \/ Va(h, "indice", "quita")
    <3>1. /\ en[h] \in EtiquetasPop /\ en'[h] \in EtiquetasPop
          /\ \A t \in Hilos \ {h} : en'[t] = en[t]
      BY <2>3 DEF Va, Inv1, TypeOK, Hilos, EtiquetasPop
    <3>2. UNCHANGED <<RolE, QuienE, RolU, QuienU>>
      <4>1. CASE h = "E"
        BY <2>1, <3>1, <4>1 DEF RolE, QuienE, RolU, QuienU, Hilos, EtiquetasPop
      <4>2. CASE h = "U"
        <5>1. EnCurso' = EnCurso /\ en'["E"] = en["E"]
          BY <2>1, <3>1, <4>2 DEF EnCurso, Proceso, Hilos
        <5> QED BY <2>1, <3>1, <4>2, <5>1 DEF RolE, QuienE, RolU, QuienU, EtiquetasPop
      <4> QED BY <4>1, <4>2
    <3>3. Inv4'
      BY <2>1, <3>1 DEF Inv4, Hilos, EtiquetasPop
    <3> QED BY <2>1, <3>2, <3>3, Orden_Quieto DEF DeOrden
  <2> QED BY <2>1, <2>2, <2>3
<1> QED BY <1>1, <1>2, <1>3

(* The sem_post of envio_bloqueo_fs.                                       *)
LEMMA Orden_PostEnvio ==
  ASSUME Inv1, Inv4, Inv5, PasoPostea("E", "postEnvio", "envio", "libera")
  PROVE  Inv4' /\ Inv5'
<1>1. /\ en["E"] = "postEnvio" /\ en'["E"] = "libera" /\ en'["U"] = en["U"]
      /\ sem'["envio"] = sem["envio"] + 1
      /\ UNCHANGED <<pc, cola, pcb, perdidos, pedidosFs, desbloqueos>>
  BY DEF PasoPostea, Postea, Va, procesoVars, fsVars, Inv1, TypeOK, Semaforos, Hilos
<1>2. /\ RolE = "postea" /\ RolE' = "otro" /\ UNCHANGED <<RolU, QuienU>>
  BY <1>1 DEF EtiquetasPop, RolE, RolU, QuienU
<1>3. Inv4'
  BY <1>1 DEF Inv4
<1>4. \A p \in Pid : /\ PorUbicar(p)' = PorUbicar(p) /\ Durmiendo(p)' = Durmiendo(p)
                     /\ EnBlocked(p)' = EnBlocked(p)
                     /\ Pedidos(p)' = Pedidos(p) /\ Respondidos(p)' = Respondidos(p)
                     /\ Recibido(p)' = Recibido(p)
  BY <1>1, <1>2 DEF PorUbicar, Durmiendo, EnBlocked, Pedidos, Respondidos, Recibido
<1>5. BlockedContada'
  BY <1>1, <1>4 DEF Inv5, BlockedContada
<1>6. EnvioContado'
  <2>1. Cuenta(DebeEnvio) = 1 /\ Cuenta(DebeEnvio)' = 0
    BY <1>2 DEF Cuenta, DebeEnvio
  <2>2. Cuenta(RolU = "pop") \in Nat /\ Cuenta(RolU # "otro") \in Nat
    BY DEF Cuenta
  <2> QED BY <1>1, <1>2, <2>1, <2>2, Orden_Naturales DEF Inv1, Inv5, EnvioContado
<1>7. UltimoEsDeE'
  BY <1>2 DEF UltimoEsDeE, DebeEnvio
<1> QED BY <1>3, <1>5, <1>6, <1>7 DEF Inv5

(* execute_pcb.                                                            *)
LEMMA Orden_ExecutePcb ==
  ASSUME Inv1, AnclaBien, Inv4, Inv5, ExecutePcb PROVE Inv4' /\ Inv5'
<1>1. CASE \E m : Cae(m)
  BY <1>1, Orden_Cae
<1>2. CASE PasoEspera("E", "espera", "execute", "saca")
  <2>1. /\ en["E"] = "espera" /\ en'["E"] = "saca" /\ en'["U"] = en["U"]
        /\ sem'["envio"] = sem["envio"]
        /\ UNCHANGED <<pc, cola, pcb, perdidos, pedidosFs, desbloqueos>>
    BY <1>2 DEF PasoEspera, Espera, Va, procesoVars, fsVars, Inv1, TypeOK, Semaforos, Hilos
  <2> QED BY <2>1, Orden_LejosE DEF Inv4, DeFs, DeBloqueo, EtiquetasPop
<1>3. CASE PasoSaca("E", "execute", "cpu") /\ ~\E m : Cae(m)
  <2>1. /\ en["E"] = "saca" /\ en'["E"] = "cpu" /\ en'["U"] = en["U"]
        /\ pcb'["U"] = pcb["U"] /\ cola'["blocked"] = cola["blocked"]
        /\ UNCHANGED <<pc, sem, perdidos, pedidosFs, desbloqueos>>
    BY <1>3 DEF PasoSaca, Saca, Va, procesoVars, fsVars, Inv1, TypeOK, Listas, Hilos
  <2> QED BY <2>1, Orden_LejosE DEF Inv4, DeFs, DeBloqueo, EtiquetasPop
<1>4. CASE Instrucciones \/ Ubica \/ Enlaza \/ SacaBlocked("E")
  BY <1>4, Orden_Instrucciones, Orden_Ubica, Orden_Enlaza, Orden_SacaBlocked
<1>5. CASE PasoEspera("E", "esperaIo", "io", "sacaBlocked")
  <2>1. /\ en["E"] = "esperaIo" /\ en'["E"] = "sacaBlocked" /\ en'["U"] = en["U"]
        /\ sem'["envio"] = sem["envio"]
        /\ UNCHANGED <<pc, cola, pcb, perdidos, pedidosFs, desbloqueos>>
    BY <1>5 DEF PasoEspera, Espera, Va, procesoVars, fsVars, Inv1, TypeOK, Semaforos, Hilos
  <2>2. UNCHANGED <<RolE, QuienE, RolU, QuienU>>
    BY <2>1 DEF EtiquetasPop, RolE, RolU, QuienE, QuienU
  <2> QED BY <2>1, <2>2, Orden_Quieto DEF Inv4, DeOrden
<1>6. CASE PasaAReady("E") /\ ~\E m : Cae(m)
  <2>1. PICK de \in EtiquetasReady, a \in EtiquetasReady \union {"espera", "libera"} :
          Va("E", de, a)
    BY <1>6, Orden_Ready
  <2>2. de \notin DeBloqueo \union {"cpu", "saca", "espera"} /\ a \notin DeBloqueo \union {"cpu", "saca"}
    BY DEF EtiquetasReady, DeBloqueo, EtiquetasPop
  <2> QED BY <1>6, <2>1, <2>2, Orden_Ready, Orden_PasoLejos DEF procesoVars
<1>7. CASE PushExecute("E")
  BY <1>7, Orden_PasoLejos DEF PushExecute, Agrega, procesoVars, fsVars, DeBloqueo, EtiquetasPop, Inv1,
     TypeOK, Listas
<1>8. CASE \/ PasoPostea("E", "postExecute", "execute", "espera")
           \/ PasoPostea("E", "libera", "libre", "espera")
  BY <1>8, Orden_PasoLejos DEF PasoPostea, Postea, procesoVars, fsVars, DeBloqueo, EtiquetasPop, Inv1,
     TypeOK, Semaforos
<1> QED BY <1>1, <1>2, <1>3, <1>4, <1>5, <1>6, <1>7, <1>8, Orden_PostEnvio
        DEF ExecutePcb, SigueEnExecute

(* U receives a pid.                                                       *)
LEMMA Orden_RecibePid == ASSUME Inv1, Inv4, Inv5, RecibePid PROVE Inv4' /\ Inv5'
<1> DEFINE q == Head(desbloqueos)
<1>1. /\ en["U"] = "espera" /\ en'["U"] = "envio" /\ en'["E"] = en["E"]
      /\ pcb'["U"] = q /\ pcb'["E"] = pcb["E"] /\ desbloqueos' = Tail(desbloqueos)
      /\ desbloqueos # << >> /\ desbloqueos \in Seq(Pid)
      /\ UNCHANGED <<procesoVars, sem, cola, perdidos, pedidosFs>>
  BY DEF RecibePid, Va, Inv1, TypeOK, Hilos
<1>2. Inv4' /\ UNCHANGED <<RolE, QuienE>>
  BY <1>1, Orden_MismaE DEF procesoVars, MismosProgramas
<1>3. RolU = "otro" /\ RolU' = "envio" /\ QuienU = Nadie /\ QuienU' = q
  BY <1>1 DEF EtiquetasPop, RolU, QuienU
<1>4. /\ q \in Pid /\ Tail(desbloqueos) \in Seq(Pid) /\ Len(desbloqueos) \in Nat
      /\ Len(Tail(desbloqueos)) = Len(desbloqueos) - 1 /\ Len(desbloqueos) > 0
      /\ q = desbloqueos[1]
      /\ \A i \in 1 .. Len(Tail(desbloqueos)) : Tail(desbloqueos)[i] = desbloqueos[i + 1]
  BY <1>1, HeadTailProperties, EmptySeq
<1>5. BlockedContada'
  <2> SUFFICES ASSUME NEW p \in Pid \ perdidos
               PROVE  (EnBlocked(p) + PorUbicar(p)
                         >= Pedidos(p) + Respondidos(p) + Recibido(p) + Durmiendo(p))'
    BY <1>1 DEF BlockedContada
  <2>1. Respondidos(p) = Respondidos(p)' + Cuenta(q \in {p})
    BY <1>1, Cuantos_Tail DEF Respondidos
  <2>2. Recibido(p) = 0 /\ Recibido(p)' = Cuenta(q \in {p}) /\ Cuenta(q \in {p}) \in Nat
    BY <1>3 DEF Recibido, Cuenta, Nadie, Pid
  <2>3. /\ Pedidos(p)' = Pedidos(p) /\ EnBlocked(p)' = EnBlocked(p)
        /\ PorUbicar(p)' = PorUbicar(p)
        /\ Durmiendo(p)' = Durmiendo(p)
    BY <1>1, <1>2 DEF Pedidos, EnBlocked, PorUbicar, Durmiendo
  <2>4. Respondidos(p)' \in Nat
    BY <1>1, <1>4, Cuantos_Tipo DEF Respondidos
  <2>5. EnBlocked(p) + PorUbicar(p)
          >= Pedidos(p) + Respondidos(p) + Recibido(p) + Durmiendo(p)
    BY DEF Inv5, BlockedContada
  <2>6. Pedidos(p) \in Nat /\ Durmiendo(p) \in Nat
    BY Orden_Naturales DEF Inv1
  <2> HIDE DEF q
  <2> QED BY <2>1, <2>2, <2>3, <2>4, <2>5, <2>6
<1>6. EnvioContado'
  <2>1. /\ Cuenta(RolU = "pop") = 0 /\ Cuenta(RolU = "pop")' = 0
        /\ Cuenta(RolU # "otro") = 0 /\ Cuenta(RolU # "otro")' = 1
    BY <1>3 DEF Cuenta
  <2>2. Cuenta(DebeEnvio)' = Cuenta(DebeEnvio)
    BY <1>2 DEF DebeEnvio
  <2>3. Len(desbloqueos') = Len(desbloqueos) - 1
    BY <1>1, <1>4
  <2>4. sem["envio"] + 0 + Cuenta(DebeEnvio)
          = Cuantos(pedidosFs, DeAlguien) + Len(desbloqueos) + 0
    BY <2>1 DEF Inv5, EnvioContado
  <2>5. Cuantos(pedidosFs, DeAlguien) \in Nat
    BY Orden_Naturales DEF Inv1
  <2>6. (sem["envio"])' = sem["envio"] /\ Cuantos(pedidosFs, DeAlguien)' = Cuantos(pedidosFs, DeAlguien)
    BY <1>1
  <2>7. sem["envio"] \in Nat /\ Cuenta(DebeEnvio) \in Nat
    BY Orden_Naturales DEF Inv1, Cuenta
  <2> QED BY <1>4, <2>1, <2>2, <2>3, <2>4, <2>5, <2>6, <2>7 DEF EnvioContado
<1>7. UltimoEsDeE'
  <2> SUFFICES ASSUME DebeEnvio, pedidosFs = << >>
               PROVE  IF desbloqueos' # << >> THEN desbloqueos'[Len(desbloqueos')] = QuienE
                      ELSE q = QuienE
    BY <1>1, <1>2, <1>3 DEF UltimoEsDeE, DebeEnvio, Inv5
  <2>1. desbloqueos[Len(desbloqueos)] = QuienE
    BY <1>1 DEF Inv5, UltimoEsDeE
  <2>2. CASE Len(desbloqueos) = 1
    BY <1>1, <1>4, <2>1, <2>2
  <2>3. CASE Len(desbloqueos) # 1
    <3>1. /\ Len(Tail(desbloqueos)) \in 1 .. Len(Tail(desbloqueos))
          /\ Len(Tail(desbloqueos)) + 1 = Len(desbloqueos)
      BY <1>4, <2>3
    <3>2. Tail(desbloqueos)[Len(Tail(desbloqueos))] = desbloqueos[Len(desbloqueos)]
      BY <1>4, <3>1
    <3>3. Tail(desbloqueos) # << >>
      <4>1. Len(Tail(desbloqueos)) # 0
        BY <1>4, <3>1
      <4> QED BY <1>4, <4>1, EmptySeq
    <3> QED BY <1>1, <2>1, <3>2, <3>3
  <2> QED BY <2>2, <2>3
<1> QED BY <1>2, <1>5, <1>6, <1>7 DEF Inv5

(* U takes envio_bloqueo_fs: the PCB of its pid is then in BLOCKED.        *)
LEMMA Orden_EsperaEnvio ==
  ASSUME Inv1, Inv4, Inv5, PasoEspera("U", "envio", "envio", "sacaBlocked")
  PROVE  Inv4' /\ Inv5'
<1>1. /\ en["U"] = "envio" /\ en'["U"] = "sacaBlocked" /\ en'["E"] = en["E"]
      /\ sem["envio"] > 0 /\ sem'["envio"] = sem["envio"] - 1
      /\ UNCHANGED <<procesoVars, cola, pcb, perdidos, pedidosFs, desbloqueos>>
  BY DEF PasoEspera, Espera, Va, fsVars, Inv1, TypeOK, Semaforos, Hilos
<1>2. Inv4' /\ UNCHANGED <<RolE, QuienE>>
  BY <1>1, Orden_MismaE DEF procesoVars, MismosProgramas
<1>3. RolU = "envio" /\ RolU' = "pop" /\ QuienU' = QuienU
  BY <1>1 DEF EtiquetasPop, RolU, QuienU
<1>4. \A p \in Pid : /\ PorUbicar(p)' = PorUbicar(p) /\ Durmiendo(p)' = Durmiendo(p)
                     /\ EnBlocked(p)' = EnBlocked(p)
                     /\ Pedidos(p)' = Pedidos(p) /\ Respondidos(p)' = Respondidos(p)
                     /\ Recibido(p)' = Recibido(p)
  BY <1>1, <1>2, <1>3
     DEF PorUbicar, Durmiendo, EnBlocked, Pedidos, Respondidos, Recibido
<1>5. BlockedContada'
  BY <1>1, <1>4 DEF Inv5, BlockedContada
<1>6. /\ Cuenta(RolU = "pop") = 0 /\ Cuenta(RolU = "pop")' = 1
      /\ Cuenta(RolU # "otro") = 1 /\ Cuenta(RolU # "otro")' = 1
      /\ Cuenta(DebeEnvio)' = Cuenta(DebeEnvio) /\ Cuenta(DebeEnvio) \in Nat
  BY <1>2, <1>3 DEF Cuenta, DebeEnvio
<1>7. EnvioContado'
  BY <1>1, <1>6, Orden_Naturales DEF Inv1, Inv5, EnvioContado
<1>8. DebeEnvio => pedidosFs # << >> \/ desbloqueos # << >>
  <2> DEFINE d == Cuenta(DebeEnvio)
             n == Cuantos(pedidosFs, DeAlguien)
  <2>1. sem["envio"] + d = n + Len(desbloqueos) + 1
    BY <1>6, Orden_Naturales DEF Inv1, Inv5, EnvioContado
  <2>2. DebeEnvio => d = 1
    BY DEF Cuenta
  <2>3. pedidosFs = << >> => n = 0
    BY FS_EmptySet DEF Cuantos
  <2>4. desbloqueos = << >> => Len(desbloqueos) = 0
    OBVIOUS
  <2>5. sem["envio"] \in Nat /\ d \in Nat
    BY Orden_Naturales DEF Inv1, Cuenta
  <2> HIDE DEF d, n
  <2> QED BY <1>1, <2>1, <2>2, <2>3, <2>4, <2>5
<1>9. UltimoEsDeE'
  BY <1>1, <1>2, <1>8 DEF Inv5, UltimoEsDeE, DebeEnvio
<1> QED BY <1>2, <1>5, <1>7, <1>9 DEF Inv5

(* The filesystem serves the head of the line.                             *)
LEMMA Orden_FsResponde == ASSUME Inv1, Inv4, Inv5, FsResponde PROVE Inv4' /\ Inv5'
<1> DEFINE r == Head(pedidosFs)
<1>1. /\ pedidosFs # << >> /\ pedidosFs' = Tail(pedidosFs)
      /\ pedidosFs \in Seq(Pedido) /\ desbloqueos \in Seq(Pid)
      /\ UNCHANGED <<procesoVars, sem, cola, en, pcb, perdidos>>
  BY DEF FsResponde, Inv1, TypeOK
<1>2. Inv4' /\ UNCHANGED <<RolE, QuienE>>
  BY <1>1, Orden_MismaE DEF procesoVars, MismosProgramas
<1>3. UNCHANGED <<RolU, QuienU>>
  BY <1>1 DEF RolU, QuienU
<1>4. /\ r \in Pedido /\ Tail(pedidosFs) \in Seq(Pedido) /\ r = pedidosFs[1]
      /\ Len(Tail(pedidosFs)) = Len(pedidosFs) - 1 /\ Len(pedidosFs) \in Nat
      /\ Len(pedidosFs) > 0
      /\ \A i \in 1 .. Len(Tail(pedidosFs)) : Tail(pedidosFs)[i] = pedidosFs[i + 1]
  BY <1>1, HeadTailProperties, EmptySeq
<1>5. \/ r.pid = Nadie /\ desbloqueos' = desbloqueos
      \/ r.pid \in Pid /\ r.pid # Nadie /\ desbloqueos' = Append(desbloqueos, r.pid)
  <2>1. CASE r.op \in {"OPEN", "CREATE_ARCHIVO"}
    BY <1>4, <2>1, Pedido_De DEF FsResponde
  <2>2. CASE r.op \in {"TRUNCATE", "WRITE"}
    BY <1>4, <2>2, Pedido_De DEF FsResponde
  <2> QED BY <2>1, <2>2 DEF FsResponde
<1>6. \A S : Cuantos(pedidosFs, S) = Cuantos(pedidosFs', S) + Cuenta(r \in S)
  BY <1>1, Cuantos_Tail
<1>7. \A S : Cuantos(pedidosFs', S) \in Nat
  BY <1>1, <1>4, Cuantos_Tipo
<1>8. /\ Cuenta(r \in DeAlguien) = Len(desbloqueos') - Len(desbloqueos)
      /\ Len(desbloqueos') \in Nat /\ Len(desbloqueos) \in Nat
  <2>1. r \in DeAlguien <=> r.pid # Nadie
    BY <1>4, Pedido_De
  <2> QED BY <1>1, <1>5, <2>1, AppendProperties DEF Cuenta
<1>9. ASSUME NEW p \in Pid
      PROVE  /\ Respondidos(p)' = Respondidos(p) + Cuenta(r \in De(p))
             /\ Cuenta(r \in De(p)) \in Nat
  <2>1. r \in De(p) <=> r.pid = p
    BY <1>4, Pedido_De
  <2>2. Respondidos(p) \in Nat /\ p # Nadie
    BY Orden_Naturales DEF Inv1, Nadie, Pid
  <2>3. CASE r.pid = Nadie /\ desbloqueos' = desbloqueos
    <3>1. Cuenta(r \in De(p)) = 0 /\ Respondidos(p)' = Respondidos(p)
      BY <2>1, <2>2, <2>3 DEF Cuenta, Respondidos
    <3> QED BY <2>2, <3>1
  <2>4. CASE r.pid \in Pid /\ desbloqueos' = Append(desbloqueos, r.pid)
    <3>1. Respondidos(p)' = Respondidos(p) + Cuenta(r.pid \in {p})
      BY <1>1, <2>4, Cuantos_Append DEF Respondidos
    <3>2. Cuenta(r \in De(p)) = Cuenta(r.pid \in {p}) /\ Cuenta(r \in De(p)) \in Nat
      BY <2>1 DEF Cuenta
    <3> QED BY <3>1, <3>2
  <2> QED BY <1>5, <2>3, <2>4
<1>10. BlockedContada'
  <2> SUFFICES ASSUME NEW p \in Pid \ perdidos
               PROVE  (EnBlocked(p) + PorUbicar(p)
                         >= Pedidos(p) + Respondidos(p) + Recibido(p) + Durmiendo(p))'
    BY <1>1 DEF BlockedContada
  <2>1. Pedidos(p) = Pedidos(p)' + Cuenta(r \in De(p)) /\ Pedidos(p)' \in Nat
    BY <1>6, <1>7 DEF Pedidos
  <2>2. /\ Recibido(p)' = Recibido(p) /\ EnBlocked(p)' = EnBlocked(p)
        /\ PorUbicar(p)' = PorUbicar(p)
        /\ Durmiendo(p)' = Durmiendo(p)
    BY <1>1, <1>2, <1>3 DEF Recibido, EnBlocked, PorUbicar, Durmiendo
  <2>3. EnBlocked(p) + PorUbicar(p)
          >= Pedidos(p) + Respondidos(p) + Recibido(p) + Durmiendo(p)
    BY DEF Inv5, BlockedContada
  <2>4. /\ Recibido(p) \in Nat /\ Durmiendo(p) \in Nat /\ Respondidos(p) \in Nat
    BY Orden_Naturales DEF Inv1
  <2> HIDE DEF r
  <2> QED BY <1>9, <2>1, <2>2, <2>3, <2>4
<1>11. EnvioContado'
  <2>1. Cuantos(pedidosFs, DeAlguien) = Cuantos(pedidosFs', DeAlguien) + Cuenta(r \in DeAlguien)
    BY <1>6
  <2>2. sem["envio"] + Cuenta(RolU = "pop") + Cuenta(DebeEnvio)
          = Cuantos(pedidosFs, DeAlguien) + Len(desbloqueos) + Cuenta(RolU # "otro")
    BY DEF Inv5, EnvioContado
  <2>3. Cuantos(pedidosFs, DeAlguien) + Len(desbloqueos)
          = Cuantos(pedidosFs', DeAlguien) + Len(desbloqueos')
    <3> HIDE DEF r
    <3> QED BY <1>7, <1>8, <2>1
  <2>4. /\ sem'["envio"] = sem["envio"]
        /\ Cuenta(RolU = "pop")' = Cuenta(RolU = "pop")
        /\ Cuenta(DebeEnvio)' = Cuenta(DebeEnvio)
        /\ Cuenta(RolU # "otro")' = Cuenta(RolU # "otro")
    BY <1>1, <1>2, <1>3 DEF DebeEnvio
  <2> QED BY <2>2, <2>3, <2>4 DEF EnvioContado
<1>12. UltimoEsDeE'
  <2> SUFFICES ASSUME DebeEnvio
               PROVE  IF Tail(pedidosFs) # << >>
                      THEN Tail(pedidosFs)[Len(Tail(pedidosFs))].pid = QuienE
                      ELSE desbloqueos' # << >> /\ desbloqueos'[Len(desbloqueos')] = QuienE
    BY <1>1, <1>2 DEF UltimoEsDeE, DebeEnvio
  <2>1. pedidosFs[Len(pedidosFs)].pid = QuienE
    BY <1>1 DEF Inv5, UltimoEsDeE
  <2>2. QuienE # Nadie
    BY DEF DebeEnvio, QuienE, RolE, Inv1, PcbTomado, Nadie, Pid
  <2>3. CASE Len(pedidosFs) = 1
    <3>1. r.pid = QuienE /\ Tail(pedidosFs) = << >>
      <4>1. Len(Tail(pedidosFs)) = 0
        BY <1>4, <2>3
      <4>2. Tail(pedidosFs) = << >>
        BY <1>4, <4>1, EmptySeq
      <4> QED BY <1>4, <2>1, <2>3, <4>2
    <3>2. r.pid \in Pid /\ desbloqueos' = Append(desbloqueos, r.pid)
      BY <1>5, <2>2, <3>1
    <3>3. desbloqueos' # << >> /\ desbloqueos'[Len(desbloqueos')] = r.pid
      BY <1>1, <3>2, AppendProperties
    <3> QED BY <3>1, <3>3
  <2>4. CASE Len(pedidosFs) # 1
    <3>1. /\ Len(Tail(pedidosFs)) \in 1 .. Len(Tail(pedidosFs))
          /\ Len(Tail(pedidosFs)) + 1 = Len(pedidosFs)
      BY <1>4, <2>4
    <3>2. Tail(pedidosFs)[Len(Tail(pedidosFs))] = pedidosFs[Len(pedidosFs)]
      BY <1>4, <3>1
    <3>3. Tail(pedidosFs) # << >>
      <4>1. Len(Tail(pedidosFs)) # 0
        BY <1>4, <3>1
      <4> QED BY <1>4, <4>1, EmptySeq
    <3> QED BY <2>1, <3>2, <3>3
  <2> QED BY <2>3, <2>4
<1> QED BY <1>2, <1>10, <1>11, <1>12 DEF Inv5

(* sleepHilo, the rest of unblocked_pcb_after_fs, the death of F.          *)
LEMMA Orden_Demas ==
  ASSUME Inv1, AnclaBien, Inv4, Inv5, SleepHilo \/ DesbloqueoFs \/ AtenderKernel
  PROVE  Inv4' /\ Inv5'
<1>1. CASE \E m : Cae(m)
  BY <1>1, Orden_Cae
<1>2. CASE SleepHilo
  BY <1>2, Orden_Semaforo DEF SleepHilo, Hilos, Semaforos
<1>3. CASE FsMuere
  BY <1>3, Orden_Otro DEF FsMuere, Va, DeEyU, procesoVars, fsVars, MismosProgramas,
     Inv1, TypeOK, Hilos
<1>4. CASE PasaAReady("U") /\ ~\E m : Cae(m)
  <2>1. PICK de \in EtiquetasReady, a \in EtiquetasReady \union {"espera", "libera"} :
          Va("U", de, a)
    BY <1>4, Orden_Ready
  <2>2. en["U"] = de /\ en'["U"] = a /\ en'["E"] = en["E"]
    BY <2>1 DEF Va, Inv1, TypeOK, Hilos
  <2>3. UNCHANGED <<procesoVars, pcb, perdidos, cola["blocked"], sem["envio"],
                    pedidosFs, desbloqueos>>
    BY <1>4, Orden_Ready
  <2>4. Inv4' /\ UNCHANGED <<RolE, QuienE>>
    BY <2>2, <2>3, Orden_MismaE DEF procesoVars, MismosProgramas
  <2>5. UNCHANGED <<RolU, QuienU>>
    BY <2>2 DEF RolU, QuienU, EtiquetasReady, EtiquetasPop
  <2> QED BY <2>3, <2>4, <2>5, Orden_Quieto DEF DeOrden
<1>5. CASE RecibePid \/ PasoEspera("U", "envio", "envio", "sacaBlocked")
           \/ SacaBlocked("U") \/ FsResponde
  BY <1>5, Orden_RecibePid, Orden_EsperaEnvio, Orden_SacaBlocked, Orden_FsResponde
<1> QED BY <1>1, <1>2, <1>3, <1>4, <1>5 DEF DesbloqueoFs, FsCerrado, AtenderKernel

(* The counts of BLOCKED hold in every state of every behaviour.           *)
LEMMA Inv5Invariante == Spec => [](Inv1 /\ Inv4 /\ Inv5)
<1>1. Inv1 /\ AnclaBien /\ Inv4 /\ Inv5 /\ [Next]_vars => Inv4' /\ Inv5'
  <2> SUFFICES ASSUME Inv1, AnclaBien, Inv4, Inv5, [Next]_vars PROVE Inv4' /\ Inv5'
    OBVIOUS
  <2>1. CASE Consola \/ LargoPlazo \/ CortoPlazo \/ ExecutePcb
    BY <2>1, Orden_Consola, Orden_LargoPlazo, Orden_CortoPlazo, Orden_ExecutePcb
  <2>2. CASE SleepHilo \/ DesbloqueoFs \/ AtenderKernel
    BY <2>2, Orden_Demas
  <2>3. CASE UNCHANGED vars
    BY <2>3, Orden_Otro DEF vars, procesoVars, fsVars, DeEyU, MismosProgramas
  <2> QED BY <2>1, <2>2, <2>3 DEF Next
<1> QED BY <1>1, Orden_Init, AnclaInvariante, PTL DEF Spec

(* When U has taken envio_bloqueo_fs, the PCB of the pid it received is in *)
(* BLOCKED until U unlinks it, unless the unsynchronised list operations   *)
(* lost it: the semaphore and the pid come from two threads, and neither   *)
(* overtakes the push, for any number of processes and either algorithm.   *)
THEOREM EnvioInvariante == Spec => []EnvioRespetaOrden
<1>1. Inv1 /\ Inv4 /\ Inv5 => EnvioRespetaOrden
  <2> SUFFICES ASSUME Inv1, Inv4, Inv5, en["U"] \in EtiquetasPop,
                      ~Pertenece(pcb["U"], cola["blocked"]), pcb["U"] \notin perdidos
               PROVE  FALSE
    BY DEF EnvioRespetaOrden
  <2> DEFINE q == pcb["U"]
  <2>1. RolU = "pop" /\ QuienU = q /\ q \in Pid
    BY DEF RolU, QuienU, Inv1, PcbTomado, EtiquetasPop
  <2>2. EnBlocked(q) = 0 /\ Recibido(q) = 1
    <3>1. cola["blocked"] \in Seq(Pid)
      BY DEF Inv1, TypeOK, Listas
    <3>2. ~\E i \in DOMAIN cola["blocked"] : cola["blocked"][i] \in {q}
      BY DEF Pertenece
    <3>3. EnBlocked(q) \in Nat /\ ~(EnBlocked(q) > 0)
      BY <3>1, <3>2, Cuantos_Tipo DEF EnBlocked
    <3> QED BY <2>1, <3>3 DEF Recibido, Cuenta
  <2>3. /\ PorUbicar(q) >= Pedidos(q) + Respondidos(q) + 1 + Durmiendo(q)
        /\ PorUbicar(q) \in Nat /\ Pedidos(q) \in Nat /\ Respondidos(q) \in Nat
        /\ Durmiendo(q) \in Nat
    BY <2>1, <2>2, Orden_Naturales DEF Inv1, Inv5, BlockedContada
  <2>4. RolE = "ubica" /\ QuienE = q /\ Pedidos(q) = 0 /\ Respondidos(q) = 0
    BY <2>3 DEF PorUbicar, Cuenta
  <2>5. CASE pedidosFs # << >>
    <3>1. /\ pedidosFs \in Seq(Pedido) /\ Len(pedidosFs) \in DOMAIN pedidosFs
          /\ pedidosFs[Len(pedidosFs)].pid = q
      BY <2>4, <2>5, EmptySeq DEF Inv1, TypeOK, Inv5, UltimoEsDeE, DebeEnvio
    <3>2. pedidosFs[Len(pedidosFs)] \in De(q)
      BY <2>1, <3>1, Pedido_De
    <3>3. Cuantos(pedidosFs, De(q)) > 0
      BY <3>1, <3>2, Cuantos_Tipo
    <3> QED BY <2>4, <3>3 DEF Pedidos
  <2>6. CASE pedidosFs = << >> /\ desbloqueos # << >>
    <3>1. /\ desbloqueos \in Seq(Pid) /\ Len(desbloqueos) \in DOMAIN desbloqueos
          /\ desbloqueos[Len(desbloqueos)] \in {q}
      BY <2>4, <2>6, EmptySeq DEF Inv1, TypeOK, Inv5, UltimoEsDeE, DebeEnvio
    <3>2. Cuantos(desbloqueos, {q}) > 0
      BY <3>1, Cuantos_Tipo
    <3> QED BY <2>4, <3>2 DEF Respondidos
  <2>7. CASE pedidosFs = << >> /\ desbloqueos = << >>
    BY <2>1, <2>4, <2>7 DEF Inv5, UltimoEsDeE, DebeEnvio
  <2> QED BY <2>5, <2>6, <2>7
<1> QED BY <1>1, Inv5Invariante, PTL

-----------------------------------------------------------------------------
(* The socket of execute_pcb with the filesystem.                          *)
SinPid == [op : {"OPEN", "CREATE_ARCHIVO"}, pid : {Nadie}]
PedidosSinPid == Cuantos(pedidosFs, SinPid)
ConRta        == Cuenta(respuestaFs # "nada")
Esperando     == En("E", {"esperaFs"})
Inv6 == PedidosSinPid + ConRta = Esperando

(* RespuestaEsDelPedido is the relation of the three numbers.              *)
LEMMA Rta_Numeros ==
  ASSUME TypeOK
  PROVE  /\ Inv6 <=> RespuestaEsDelPedido
         /\ PedidosSinPid \in Nat /\ ConRta \in Nat /\ Esperando \in Nat
<1>1. pedidosFs \in Seq(Pedido)
  BY DEF TypeOK
<1>2. \A r \in Pedido : r \in SinPid <=> r.op \in {"OPEN", "CREATE_ARCHIVO"}
  BY DEF Pedido, SinPid
<1>3. {i \in DOMAIN pedidosFs : pedidosFs[i] \in SinPid}
        = {i \in DOMAIN pedidosFs : pedidosFs[i].op \in {"OPEN", "CREATE_ARCHIVO"}}
  BY <1>1, <1>2
<1>4. ConRta = IF respuestaFs = "nada" THEN 0 ELSE 1
  BY DEF ConRta, Cuenta
<1>5. PedidosSinPid \in Nat
  BY <1>1, Cuantos_Tipo DEF PedidosSinPid
<1>6. Inv6 <=> RespuestaEsDelPedido
  BY <1>3, <1>4 DEF Inv6, RespuestaEsDelPedido, PedidosSinPid, Esperando, Cuantos
<1> QED BY <1>4, <1>5, <1>6 DEF Esperando, En

(* The steps of E and F that use the socket.                               *)
UsaSocket == Open \/ CreaArchivo \/ ArchivoAbierto \/ PideFs \/ FsResponde

(* An answer of the cpu other than those leaves the requests alone.        *)
LEMMA Rta_Instrucciones ==
  ASSUME Inv1, Instrucciones, ~UsaSocket
  PROVE  UNCHANGED <<pedidosFs, respuestaFs, Esperando>>
<1>1. CASE \E m : Cae(m)
  BY <1>1 DEF Cae, fsVars, Esperando, En
<1>2. CASE ~\E m : Cae(m)
  <2>1. UNCHANGED <<pedidosFs, respuestaFs>>
    BY <1>2 DEF Instrucciones, UsaSocket, fsVars, Yield, Termina, EstadoEnExit, Io,
       WaitInexistente, WaitConcede, WaitAgotado, Signal, SignalSinWait, PushSignal,
       CreateSegment, SegmentoCreado, EmpiezaCompactacion, FallaCompactacion,
       DeleteSegment, MovInvalido, PredicadoCae, Close, CloseInexistente, Seek,
       NoAbierto, RespondeYCae, PasoPostea
  <2>2. \E de, a : Va("E", de, a) /\ de # "esperaFs" /\ a # "esperaFs"
    <3>1. CASE CreateSegment
      BY <3>1 DEF CreateSegment, Responde
    <3>2. CASE EstadoEnExit
      BY <3>2 DEF EstadoEnExit, Va
    <3>3. CASE ~CreateSegment /\ ~EstadoEnExit
      BY <1>2, <3>3 DEF Instrucciones, UsaSocket, Yield, Termina, Io,
         WaitInexistente, WaitConcede, WaitAgotado, Signal, SignalSinWait, PushSignal,
         SegmentoCreado, EmpiezaCompactacion, FallaCompactacion, DeleteSegment,
         MovInvalido, PredicadoCae, Close, CloseInexistente, Seek, NoAbierto,
         RespondeYCae, PasoPostea, Responde
    <3> QED BY <3>1, <3>2, <3>3
  <2> QED BY <2>1, <2>2 DEF Esperando, En, Va, Inv1, TypeOK, Hilos
<1> QED BY <1>1, <1>2

(* So does every step of the other threads, and the rest of execute_pcb.   *)
LEMMA Rta_Quieto ==
  ASSUME Inv1, Next, ~UsaSocket
  PROVE  UNCHANGED <<pedidosFs, respuestaFs, Esperando>>
<1>1. CASE \E m : Cae(m)
  BY <1>1 DEF Cae, fsVars, Esperando, En
<1>2. CASE Instrucciones
  BY <1>2, Rta_Instrucciones
<1>3. CASE Consola
  BY <1>3 DEF Consola, NuevoProceso, PushNew, PostNuevos, fsVars, Esperando, En
<1> DEFINE Blocked(h) == Ubica \/ Enlaza \/ SacaBlocked(h)
<1>4. ASSUME ~(\E m : Cae(m)), NEW h \in {"E", "U"}, Blocked(h)
      PROVE  UNCHANGED <<pedidosFs, respuestaFs, Esperando>>
  <2>1. /\ UNCHANGED fsVars
        /\ \/ Va("E", "ubica", "enlaza")
           \/ Va(h, "sacaBlocked", "indice") \/ Va(h, "indice", "quita")
           \/ Va(h, "indice", "pushReady") \/ Va(h, "quita", "pushReady")
           \/ /\ en["E"] = "enlaza"
              /\ \/ en' = [en EXCEPT !["E"] = "esperaIo", !["S"] = "duerme"]
                 \/ en' = [en EXCEPT !["E"] = "postEnvio"]
    BY <1>4, Pasos_Blocked DEF Inv1
  <2>2. en'["E"] = "esperaFs" <=> en["E"] = "esperaFs"
    BY <2>1 DEF Va, Inv1, TypeOK, Hilos
  <2> QED BY <2>1, <2>2 DEF fsVars, Esperando, En
<1>5. CASE ~(\E m : Cae(m)) /\ ~Instrucciones /\ ~Consola /\ ~Blocked("E") /\ ~Blocked("U")
  <2>1. /\ UNCHANGED <<pedidosFs, respuestaFs>>
        /\ \E h, de, a : Va(h, de, a) /\ de # "esperaFs" /\ a # "esperaFs"
    <3>1. CASE LargoPlazo
      BY <1>5, <3>1 DEF LargoPlazo, PasoEspera, PasoSaca, PasaAReady, PushReady,
         LogReadyCuenta, LogReadyRecorre, PostReady, PasoPostea, fsVars
    <3>2. CASE CortoPlazo
      BY <1>5, <3>2 DEF CortoPlazo, PasoEspera, PasoSaca, SacaReady, SacaHrrn,
         SigueEnExecute, PushExecute, PasoPostea, fsVars
    <3>3. CASE ExecutePcb
      BY <1>5, <3>3 DEF ExecutePcb, PasoEspera, PasoSaca, PasaAReady, PushReady,
         LogReadyCuenta, LogReadyRecorre, PostReady, PasoPostea, fsVars,
         SigueEnExecute, PushExecute
    <3>4. CASE SleepHilo \/ DesbloqueoFs \/ AtenderKernel
      BY <1>5, <3>4 DEF SleepHilo, DesbloqueoFs, AtenderKernel, PasoEspera, PasaAReady,
         PushReady, LogReadyCuenta, LogReadyRecorre, PostReady, PasoPostea, fsVars,
         RecibePid, FsCerrado, FsMuere, UsaSocket
    <3> QED BY <1>5, <3>1, <3>2, <3>3, <3>4 DEF Next
  <2> QED BY <2>1 DEF Esperando, En, Va, Inv1, TypeOK, Hilos
<1> QED BY <1>1, <1>2, <1>3, <1>4, <1>5

(* A step that sends a request, or that serves or reads one.               *)
LEMMA Rta_UsaSocket == ASSUME Inv1, Inv6, UsaSocket PROVE Inv6'
<1>0. pedidosFs \in Seq(Pedido) /\ DOMAIN en = Hilos /\ "E" \in Hilos
  BY DEF Inv1, TypeOK, Hilos
<1>a. PedidosSinPid \in Nat /\ ConRta \in Nat /\ Esperando \in Nat
  BY Rta_Numeros DEF Inv1
<1>b. ASSUME NEW r \in Pedido, pedidosFs' = Append(pedidosFs, r)
      PROVE  PedidosSinPid' = PedidosSinPid + Cuenta(r \in SinPid)
  BY <1>0, <1>b, Cuantos_Append DEF PedidosSinPid
<1>1. CASE Open
  <2> DEFINE r == [op |-> "OPEN", pid |-> Nadie]
  <2>1. r \in Pedido /\ Cuenta(r \in SinPid) = 1
    BY DEF Pedido, SinPid, Cuenta
  <2>2. PedidosSinPid' = PedidosSinPid + 1
    BY <1>1, <1>b, <2>1 DEF Open
  <2>3. Esperando = 0 /\ Esperando' = 1 /\ ConRta' = ConRta
    BY <1>0, <1>1 DEF Open, Responde, Va, Esperando, En, ConRta
  <2> QED BY <1>a, <2>2, <2>3 DEF Inv6
<1>2. CASE CreaArchivo
  <2> DEFINE r == [op |-> "CREATE_ARCHIVO", pid |-> Nadie]
  <2>1. r \in Pedido /\ Cuenta(r \in SinPid) = 1
    BY DEF Pedido, SinPid, Cuenta
  <2>2. PedidosSinPid' = PedidosSinPid + 1
    BY <1>2, <1>b, <2>1 DEF CreaArchivo
  <2>3. Esperando' = Esperando /\ ConRta = 1 /\ ConRta' = 0
    BY <1>2 DEF CreaArchivo, Esperando, En, ConRta, Cuenta
  <2> QED BY <1>a, <2>2, <2>3 DEF Inv6
<1>3. CASE ArchivoAbierto
  <2>1. Esperando = 1 /\ Esperando' = 0 /\ ConRta = 1 /\ ConRta' = 0
    BY <1>0, <1>3 DEF ArchivoAbierto, Va, Esperando, En, ConRta, Cuenta
  <2>2. PedidosSinPid' = PedidosSinPid
    BY <1>3 DEF ArchivoAbierto, PedidosSinPid
  <2> QED BY <1>a, <2>1, <2>2 DEF Inv6
<1>4. CASE PideFs
  <2>1. PICK op \in {"TRUNCATE", "READ", "WRITE"} :
          Responde(op, "ubica") /\ pedidosFs' = Append(pedidosFs, [op |-> op, pid |-> Proceso])
    BY <1>4 DEF PideFs
  <2> DEFINE r == [op |-> op, pid |-> Proceso]
  <2>2. r \in Pedido /\ Cuenta(r \in SinPid) = 0
    BY <2>1, Tipo_Siguiente DEF Pedido, SinPid, Cuenta
  <2>3. PedidosSinPid' = PedidosSinPid + 0
    BY <1>b, <2>1, <2>2
  <2>4. Esperando = 0 /\ Esperando' = 0 /\ ConRta' = ConRta
    BY <1>0, <1>4, <2>1 DEF PideFs, Responde, Va, Esperando, En, ConRta
  <2> QED BY <1>a, <2>3, <2>4 DEF Inv6
<1>5. CASE FsResponde
  <2> DEFINE r == Head(pedidosFs)
  <2>1. /\ pedidosFs # << >> /\ pedidosFs' = Tail(pedidosFs) /\ Esperando' = Esperando
    BY <1>5 DEF FsResponde, Esperando, En
  <2>2. PedidosSinPid = PedidosSinPid' + Cuenta(r \in SinPid)
    BY <1>0, <2>1, Cuantos_Tail DEF PedidosSinPid
  <2>3. r \in Pedido /\ PedidosSinPid' \in Nat
    BY <1>0, <2>1, HeadTailProperties, Cuantos_Tipo DEF PedidosSinPid
  <2>4. Esperando <= 1
    BY DEF Esperando, En
  <2>5. CASE r.op \in {"OPEN", "CREATE_ARCHIVO"}
    <3>1. Cuenta(r \in SinPid) = 1
      BY <2>3, <2>5 DEF Pedido, SinPid, Cuenta
    <3>2. ConRta' = 1
      BY <1>5, <2>5 DEF FsResponde, ConRta, Cuenta
    <3>3. ConRta = 0 /\ Esperando = 1 /\ PedidosSinPid' = 0
      <4> HIDE DEF r
      <4> QED BY <1>a, <2>2, <2>3, <2>4, <3>1 DEF Inv6
    <3> QED BY <2>1, <3>2, <3>3 DEF Inv6
  <2>6. CASE r.op \notin {"OPEN", "CREATE_ARCHIVO"}
    <3>1. Cuenta(r \in SinPid) = 0
      BY <2>6 DEF SinPid, Cuenta
    <3>2. ConRta' = ConRta
      BY <1>5, <2>6 DEF FsResponde, ConRta
    <3>3. PedidosSinPid' = PedidosSinPid
      <4> HIDE DEF r
      <4> QED BY <1>a, <2>2, <2>3, <3>1
    <3> QED BY <2>1, <3>2, <3>3 DEF Inv6
  <2> QED BY <2>5, <2>6
<1> QED BY <1>1, <1>2, <1>3, <1>4, <1>5 DEF UsaSocket

(* The answer E reads is of the request it has just made: one OPEN or      *)
(* CREATE_ARCHIVO is on the socket, or answered, exactly while E waits.    *)
THEOREM RespuestaInvariante == Spec => []RespuestaEsDelPedido
<1>1. Init => Inv6
  <2> SUFFICES ASSUME Init PROVE Inv6 OBVIOUS
  <2>1. pedidosFs = << >> /\ respuestaFs = "nada" /\ en["E"] = "espera"
    BY DEF Init, Hilos
  <2>2. PedidosSinPid = 0
    BY <2>1, FS_EmptySet DEF PedidosSinPid, Cuantos
  <2> QED BY <2>1, <2>2 DEF Inv6, ConRta, Cuenta, Esperando, En
<1>2. Inv1 /\ Inv6 /\ [Next]_vars => Inv6'
  <2>1. ASSUME Inv6, UNCHANGED <<pedidosFs, respuestaFs, Esperando>> PROVE Inv6'
    BY <2>1 DEF Inv6, PedidosSinPid, ConRta
  <2>2. UNCHANGED vars => UNCHANGED <<pedidosFs, respuestaFs, Esperando>>
    BY DEF vars, fsVars, Esperando, En
  <2> QED BY <2>1, <2>2, Rta_Quieto, Rta_UsaSocket
<1>3. Inv1 /\ Inv6 => RespuestaEsDelPedido
  BY Rta_Numeros DEF Inv1
<1> QED BY <1>1, <1>2, <1>3, Inv1Invariante, PTL DEF Spec

-----------------------------------------------------------------------------
(* The sites of a process.                                                 *)

(* No pid is twice in the sequence.                                        *)
SinRepetir(s) == \A i, j \in DOMAIN s : s[i] = s[j] /\ s[i] \in Pid => i = j

(* The pids of the requests: Nadie for an OPEN and a CREATE_ARCHIVO.       *)
Alguien == Pid \union {Nadie}
Pids(s) == [i \in DOMAIN s |-> s[i].pid]

(* The lines in which a process waits: the lists other than BLOCKED, and   *)
(* the way of its pid through the filesystem.                              *)
Filas   == {"new", "ready", "execute", "exit", "pedidosFs", "desbloqueos"}
Fila(x) == IF x = "pedidosFs" THEN Pids(pedidosFs)
           ELSE IF x = "desbloqueos" THEN desbloqueos ELSE cola[x]

(* The labels of thread h from the operation that gives it a process to    *)
(* the one that takes the process from it; E gives one that asked the      *)
(* filesystem to its request.                                              *)
Manos   == {"L", "C", "E", "U"}
ManoE   == {"cpu", "estadoEnExit", "pushExit", "pushExecute", "pushSignal",
            "memoria", "compacta", "esperaFs", "ubica", "enlaza", "esperaIo",
            "pushReady"} \union EtiquetasPop
Mano(h) == IF h = "E" THEN ManoE
           ELSE IF h = "U" THEN {"envio", "pushReady"} \union EtiquetasPop
           ELSE IF h = "C" THEN {"pushExecute"} ELSE {"pushReady"}
Tiene(h) == en[h] \in Mano(h) /\ (h = "E" => RolE # "ubica")

Afuera(p) == hilo[p] \notin {"enNew", "fin"}
Sitios    == Filas \union Manos \union {"afuera"}
EnSitio(p, x) == IF x \in Filas THEN Pertenece(p, Fila(x))
                 ELSE IF x \in Manos THEN Tiene(x) /\ pcb[x] = p
                 ELSE Afuera(p)

(* Every pid is in exactly one site, and no line has it twice.             *)
UnSitio == /\ \A p \in Pid : \E x \in Sitios :
                \A y \in Sitios : EnSitio(p, y) <=> y = x
           /\ \A l \in Filas : SinRepetir(Fila(l))

(* A step that takes process p from site x to site y, and one that moves   *)
(* nobody.                                                                 *)
Mueve(p, x, y) == /\ EnSitio(p, x)
                  /\ \A q \in Pid, z \in Sitios :
                       EnSitio(q, z)' <=> IF q = p THEN z = y ELSE EnSitio(q, z)
NadieSeMueve == \A q \in Pid, z \in Sitios : EnSitio(q, z)' <=> EnSitio(q, z)

-----------------------------------------------------------------------------
(* The operations on a line without repetitions.                           *)

(* list_add.                                                               *)
LEMMA Lista_Agrega ==
  ASSUME NEW s \in Seq(Alguien), NEW p \in Alguien, p \in Pid => ~Pertenece(p, s),
         SinRepetir(s)
  PROVE  /\ \A q : Pertenece(q, Append(s, p)) <=> Pertenece(q, s) \/ q = p
         /\ SinRepetir(Append(s, p))
<1> DEFINE t == Append(s, p)
<1>1. /\ Len(t) = Len(s) + 1 /\ t[Len(s) + 1] = p
      /\ DOMAIN s = 1 .. Len(s) /\ DOMAIN t = 1 .. Len(s) + 1 /\ Len(s) \in Nat
      /\ \A i \in 1 .. Len(s) : t[i] = s[i]
  BY AppendProperties
<1>2. \A i \in DOMAIN t : i \in DOMAIN s \/ i = Len(s) + 1
  BY <1>1
<1>3. DOMAIN s \subseteq DOMAIN t /\ Len(s) + 1 \in DOMAIN t
  BY <1>1
<1> HIDE DEF t
<1>4. \A q : Pertenece(q, t) <=> Pertenece(q, s) \/ q = p
  BY <1>1, <1>2, <1>3 DEF Pertenece
<1>5. SinRepetir(t)
  BY <1>1, <1>2 DEF Pertenece, SinRepetir
<1> QED BY <1>4, <1>5 DEF t

(* list_remove of the head.                                                *)
LEMMA Lista_Saca ==
  ASSUME NEW s \in Seq(Alguien), s # << >>, SinRepetir(s)
  PROVE  /\ Head(s) \in Alguien /\ Pertenece(Head(s), s)
         /\ \A q \in Pid : Pertenece(q, Tail(s)) <=> Pertenece(q, s) /\ q # Head(s)
         /\ SinRepetir(Tail(s))
<1> DEFINE t == Tail(s)
           p == Head(s)
<1>1. /\ Len(s) \in Nat /\ Len(s) > 0 /\ DOMAIN s = 1 .. Len(s)
      /\ DOMAIN t = 1 .. Len(s) - 1
      /\ \A i \in DOMAIN t : t[i] = s[i + 1]
      /\ p = s[1] /\ p \in Alguien
  BY EmptySeq, HeadTailProperties
<1> HIDE DEF t, p
<1>2. \A i \in DOMAIN t : i \in Int /\ i + 1 \in DOMAIN s /\ i + 1 # 1
  BY <1>1
<1>3. \A i \in DOMAIN s : i = 1 \/ (i - 1 \in DOMAIN t /\ (i - 1) + 1 = i)
  BY <1>1
<1>4. 1 \in DOMAIN s
  BY <1>1
<1>5. ASSUME NEW q \in Pid PROVE Pertenece(q, t) <=> Pertenece(q, s) /\ q # p
  <2>1. ASSUME NEW i \in DOMAIN t, t[i] = q PROVE Pertenece(q, s) /\ q # p
    BY <1>1, <1>2, <1>4, <2>1 DEF Pertenece, SinRepetir
  <2>2. ASSUME NEW i \in DOMAIN s, s[i] = q, q # p PROVE Pertenece(q, t)
    BY <1>1, <1>3, <2>2 DEF Pertenece
  <2> QED BY <2>1, <2>2 DEF Pertenece
<1>6. SinRepetir(t)
  <2> SUFFICES ASSUME NEW i \in DOMAIN t, NEW j \in DOMAIN t, t[i] = t[j], t[i] \in Pid
               PROVE  i = j
    BY DEF SinRepetir
  <2>1. i + 1 = j + 1
    BY <1>1, <1>2 DEF SinRepetir
  <2> QED BY <1>2, <2>1
<1> QED BY <1>1, <1>4, <1>5, <1>6 DEF t, p, Pertenece

(* The pids of the requests, one more and one less.                        *)
LEMMA Pids_Tipo ==
  ASSUME NEW s \in Seq(Pedido)
  PROVE  Pids(s) \in Seq(Alguien) /\ Len(Pids(s)) = Len(s) /\ DOMAIN Pids(s) = DOMAIN s
<1>1. \A i \in DOMAIN s : s[i].pid \in Alguien
  BY DEF Pedido, Alguien
<1>2. DOMAIN s = 1 .. Len(s) /\ Len(s) \in Nat
  OBVIOUS
<1> DEFINE t == Pids(s)
<1>3. t \in [1 .. Len(s) -> Alguien]
  BY <1>1, <1>2 DEF Pids
<1>4. t \in Seq(Alguien)
  BY <1>2, <1>3, SeqDef
<1> HIDE DEF t
<1>5. Len(t) = Len(s) /\ DOMAIN t = DOMAIN s
  BY <1>2, <1>3, <1>4
<1> QED BY <1>4, <1>5 DEF t

(* A request more: its pid comes last.                                     *)
LEMMA Pids_Append ==
  ASSUME NEW s \in Seq(Pedido), NEW r \in Pedido
  PROVE  Pids(Append(s, r)) = Append(Pids(s), r.pid)
<1> DEFINE t == Pids(Append(s, r))
           u == Append(Pids(s), r.pid)
<1>1. r.pid \in Alguien /\ Append(s, r) \in Seq(Pedido)
  BY DEF Pedido, Alguien
<1>2. /\ t \in Seq(Alguien) /\ Len(t) = Len(s) + 1
      /\ Pids(s) \in Seq(Alguien) /\ Len(Pids(s)) = Len(s) /\ Len(s) \in Nat
  <2>1. t \in Seq(Alguien) /\ Len(t) = Len(Append(s, r))
    BY <1>1, Pids_Tipo
  <2>2. Len(Append(s, r)) = Len(s) + 1 /\ Len(s) \in Nat
    BY AppendProperties
  <2>3. Pids(s) \in Seq(Alguien) /\ Len(Pids(s)) = Len(s)
    BY Pids_Tipo
  <2> HIDE DEF t
  <2> QED BY <2>1, <2>2, <2>3
<1>3. /\ u \in Seq(Alguien) /\ Len(u) = Len(s) + 1 /\ u[Len(s) + 1] = r.pid
      /\ \A i \in 1 .. Len(s) : u[i] = Pids(s)[i]
  BY <1>1, <1>2, AppendProperties
<1>4. /\ \A i \in 1 .. Len(s) + 1 : t[i] = Append(s, r)[i].pid
      /\ \A i \in 1 .. Len(s) : Pids(s)[i] = s[i].pid
  <2>1. DOMAIN Append(s, r) = 1 .. Len(s) + 1 /\ DOMAIN s = 1 .. Len(s)
    BY AppendProperties
  <2> QED BY <2>1 DEF Pids
<1>5. /\ Append(s, r)[Len(s) + 1] = r
      /\ \A i \in 1 .. Len(s) : Append(s, r)[i] = s[i]
  BY AppendProperties
<1> HIDE DEF t, u
<1>6. \A i \in 1 .. Len(t) : t[i] = u[i]
  BY <1>2, <1>3, <1>4, <1>5
<1>7. t = u
  BY <1>2, <1>3, <1>6, SeqEqual
<1> QED BY <1>7 DEF t, u

(* The first request less.                                                 *)
LEMMA Pids_Tail ==
  ASSUME NEW s \in Seq(Pedido), s # << >>
  PROVE  /\ Pids(s) # << >> /\ Head(Pids(s)) = Head(s).pid
         /\ Pids(Tail(s)) = Tail(Pids(s))
<1> DEFINE t == Pids(Tail(s))
           v == Pids(s)
<1>1. /\ v \in Seq(Alguien) /\ Len(v) = Len(s) /\ Len(s) \in Nat /\ Len(s) > 0
      /\ Tail(s) \in Seq(Pedido) /\ Len(Tail(s)) = Len(s) - 1
      /\ \A i \in 1 .. Len(s) : v[i] = s[i].pid
  <2>1. Len(s) \in Nat /\ Len(s) > 0 /\ DOMAIN s = 1 .. Len(s)
    BY EmptySeq
  <2> QED BY <2>1, Pids_Tipo, HeadTailProperties DEF Pids
<1>2. v # << >>
  BY <1>1, EmptySeq
<1>3. /\ t \in Seq(Alguien) /\ Len(t) = Len(s) - 1
      /\ \A i \in 1 .. Len(s) - 1 : t[i] = Tail(s)[i].pid
  <2>1. DOMAIN Tail(s) = 1 .. Len(s) - 1
    BY <1>1
  <2> QED BY <1>1, <2>1, Pids_Tipo DEF Pids
<1>4. /\ Head(s) = s[1] /\ \A i \in 1 .. Len(s) - 1 : Tail(s)[i] = s[i + 1]
  BY <1>1, HeadTailProperties
<1> HIDE DEF t, v
<1>5. /\ Head(v) = v[1] /\ Tail(v) \in Seq(Alguien) /\ Len(Tail(v)) = Len(v) - 1
      /\ \A i \in 1 .. Len(v) - 1 : Tail(v)[i] = v[i + 1]
  BY <1>1, <1>2, HeadTailProperties
<1>6. \A i \in 1 .. Len(t) : t[i] = Tail(v)[i]
  BY <1>1, <1>3, <1>4, <1>5
<1>7. t = Tail(v)
  BY <1>1, <1>3, <1>5, <1>6, SeqEqual
<1>8. Head(v) = Head(s).pid
  BY <1>1, <1>4, <1>5
<1> QED BY <1>2, <1>7, <1>8 DEF t, v

(* The lines are sequences of pids.                                        *)
LEMMA Fila_Tipo ==
  ASSUME TypeOK, NEW l \in Filas PROVE Fila(l) \in Seq(Alguien)
<1>1. \A s : s \in Seq(Pid) => s \in Seq(Alguien)
  <2> SUFFICES ASSUME NEW s \in Seq(Pid) PROVE s \in Seq(Alguien)
    OBVIOUS
  <2>1. s \in [1 .. Len(s) -> Alguien] /\ Len(s) \in Nat
    BY DEF Alguien
  <2> QED BY <2>1, SeqDef
<1>2. CASE l = "pedidosFs"
  BY <1>2, Pids_Tipo DEF Fila, TypeOK
<1>3. CASE l # "pedidosFs"
  <2>1. Fila(l) \in Seq(Pid)
    BY <1>3 DEF Fila, Filas, TypeOK, Listas
  <2> QED BY <1>1, <2>1
<1> QED BY <1>2, <1>3

(* What the operations of the code do to the lines.                        *)
OtrasFilas(l) == \A k \in Filas \ {l} : Fila(k)' = Fila(k)

(* No line changes, but for a request that carries no pid.                 *)
FilasQuietas ==
  \A l \in Filas : \/ Fila(l)' = Fila(l)
                   \/ Fila(l)' = Append(Fila(l), Nadie)
                   \/ /\ Fila(l) # << >> /\ Head(Fila(l)) = Nadie
                      /\ Fila(l)' = Tail(Fila(l))

(* No list but BLOCKED changes, and nothing of the filesystem does.        *)
LEMMA Filas_Iguales ==
  ASSUME \A l \in Listas \ {"blocked"} : cola'[l] = cola[l],
         UNCHANGED <<pedidosFs, desbloqueos>>
  PROVE  FilasQuietas
<1>1. \A l \in Filas : Fila(l)' = Fila(l)
  BY DEF Filas, Fila, Listas, Pids
<1> QED BY <1>1 DEF FilasQuietas

(* One list changes.                                                       *)
LEMMA Filas_Lista ==
  ASSUME NEW l \in Listas \ {"blocked"}, \A k \in Listas \ {l} : cola'[k] = cola[k],
         UNCHANGED <<pedidosFs, desbloqueos>>
  PROVE  /\ l \in Filas /\ OtrasFilas(l)
         /\ Fila(l) = cola[l] /\ Fila(l)' = cola'[l]
<1>1. l \in Filas /\ l \notin {"pedidosFs", "desbloqueos"}
  BY DEF Filas, Listas
<1>2. Fila(l) = cola[l] /\ Fila(l)' = cola'[l]
  BY <1>1 DEF Fila
<1>3. OtrasFilas(l)
  BY DEF OtrasFilas, Filas, Fila, Listas, Pids
<1> QED BY <1>1, <1>2, <1>3

(* list_add to a list other than BLOCKED.                                  *)
LEMMA Filas_Agrega ==
  ASSUME Inv1, NEW l \in Listas \ {"blocked"}, NEW p, Agrega(l, p),
         UNCHANGED <<pedidosFs, desbloqueos>>
  PROVE  /\ l \in Filas /\ OtrasFilas(l) /\ Fila(l)' = Append(Fila(l), p)
         /\ cola'[l] = Append(cola[l], p) /\ \A k \in Listas \ {l} : cola'[k] = cola[k]
<1>1. cola'[l] = Append(cola[l], p) /\ \A k \in Listas \ {l} : cola'[k] = cola[k]
  BY DEF Inv1, TypeOK, Agrega
<1> QED BY <1>1, Filas_Lista

(* A request is sent.                                                      *)
LEMMA Filas_Pide ==
  ASSUME Inv1, NEW r \in Pedido, pedidosFs' = Append(pedidosFs, r),
         UNCHANGED <<cola, desbloqueos>>
  PROVE  /\ OtrasFilas("pedidosFs")
         /\ Fila("pedidosFs")' = Append(Fila("pedidosFs"), r.pid)
         /\ r.pid = Nadie => FilasQuietas
<1>1. OtrasFilas("pedidosFs")
  BY DEF OtrasFilas, Filas, Fila
<1>2. Pids(pedidosFs') = Append(Pids(pedidosFs), r.pid)
  BY Pids_Append DEF Inv1, TypeOK
<1>3. Fila("pedidosFs")' = Append(Fila("pedidosFs"), r.pid)
  BY <1>2 DEF Fila, Pids
<1> QED BY <1>1, <1>3 DEF OtrasFilas, FilasQuietas
-----------------------------------------------------------------------------
(* The moves.                                                              *)

(* A move keeps every pid in one site.                                     *)
LEMMA Mueve_UnSitio ==
  ASSUME UnSitio, NEW p \in Pid, NEW x \in Sitios, NEW y \in Sitios, Mueve(p, x, y),
         \A l \in Filas : SinRepetir(Fila(l))'
  PROVE  UnSitio'
  BY DEF UnSitio, Mueve

(* So does a step that moves nobody.                                       *)
LEMMA NadieSeMueve_UnSitio ==
  ASSUME UnSitio, NadieSeMueve, \A l \in Filas : SinRepetir(Fila(l))'
  PROVE  UnSitio'
<1>1. \A p \in Pid : \E x \in Sitios : \A y \in Sitios : EnSitio(p, y)' <=> y = x
  BY DEF UnSitio, NadieSeMueve
<1> QED BY <1>1 DEF UnSitio

(* What a step that touches one thread leaves alone.                       *)
OtrasManos(h)  == \A k \in Manos \ {h} : /\ Tiene(k)' <=> Tiene(k)
                                         /\ Tiene(k) => pcb'[k] = pcb[k]
MismasManos == \A k \in Manos : /\ Tiene(k)' <=> Tiene(k)
                                /\ Tiene(k) => pcb'[k] = pcb[k]
ElResto == \A q \in Pid : Afuera(q)' <=> Afuera(q)

(* The kinds of sites are disjoint.                                        *)
LEMMA Sitios_Tipo ==
  /\ Filas \subseteq Sitios /\ Manos \subseteq Sitios /\ "afuera" \in Sitios
  /\ Filas \cap Manos = {} /\ "afuera" \notin Filas \union Manos
  /\ Manos \subseteq Hilos
  BY DEF Sitios, Filas, Manos, Hilos

(* Thread h takes the head of line l.                                      *)
LEMMA Mueve_DeFila ==
  ASSUME TypeOK, UnSitio, NEW p \in Pid, NEW l \in Filas, NEW h \in Manos,
         OtrasFilas(l), OtrasManos(h), ElResto, ~Tiene(h), Tiene(h)', pcb'[h] = p,
         Fila(l) # << >>, p = Head(Fila(l)), Fila(l)' = Tail(Fila(l))
  PROVE  Mueve(p, l, h) /\ UnSitio'
<1>0. l \in Sitios /\ h \in Sitios /\ l # h
  BY Sitios_Tipo
<1>1. /\ Pertenece(p, Fila(l)) /\ SinRepetir(Fila(l))'
      /\ \A q \in Pid : Pertenece(q, Fila(l)') <=> Pertenece(q, Fila(l)) /\ q # p
  BY Fila_Tipo, Lista_Saca DEF UnSitio, SinRepetir
<1>2. EnSitio(p, l)
  BY <1>1 DEF EnSitio
<1>3. \A x \in Sitios : EnSitio(p, x) <=> x = l
  BY <1>0, <1>2 DEF UnSitio
<1>4. ASSUME NEW q \in Pid, NEW z \in Sitios
      PROVE  EnSitio(q, z)' <=> IF q = p THEN z = h ELSE EnSitio(q, z)
  <2>1. CASE z \in Filas
    <3>1. EnSitio(q, z)' <=> Pertenece(q, Fila(z)')
      BY <2>1 DEF EnSitio, Pertenece
    <3>2. z # h /\ (EnSitio(q, z) <=> Pertenece(q, Fila(z)))
      BY <2>1, Sitios_Tipo DEF EnSitio
    <3>3. CASE z = l
      BY <1>1, <3>1, <3>2, <3>3
    <3>4. CASE z # l
      <4>1. Fila(z)' = Fila(z)
        BY <2>1, <3>4 DEF OtrasFilas
      <4> QED BY <1>3, <3>1, <3>2, <3>4, <4>1
    <3> QED BY <3>3, <3>4
  <2>2. CASE z \in Manos
    BY <1>0, <1>3, <2>2, Sitios_Tipo DEF EnSitio, OtrasManos
  <2>3. CASE z \notin Filas /\ z \notin Manos
    BY <1>0, <1>3, <2>3 DEF EnSitio, ElResto
  <2> QED BY <2>1, <2>2, <2>3
<1>5. Mueve(p, l, h)
  BY <1>2, <1>4 DEF Mueve
<1>6. \A k \in Filas : SinRepetir(Fila(k))'
  BY <1>1 DEF OtrasFilas, UnSitio, SinRepetir
<1> QED BY <1>0, <1>5, <1>6, Mueve_UnSitio

(* Process p, of site x that is not a line, comes to the end of line l.    *)
LEMMA Mueve_AlFinal ==
  ASSUME TypeOK, UnSitio, NEW p \in Pid, NEW l \in Filas, NEW x \in Sitios \ {l},
         EnSitio(p, x), OtrasFilas(l), Fila(l)' = Append(Fila(l), p)
  PROVE  /\ \A k \in Filas : SinRepetir(Fila(k))'
         /\ \A q \in Pid : \A z \in Filas :
              EnSitio(q, z)' <=> IF q = p /\ z = l THEN TRUE ELSE EnSitio(q, z)
<1>0. l \in Sitios
  BY Sitios_Tipo
<1>1. ~Pertenece(p, Fila(l))
  BY <1>0 DEF UnSitio, EnSitio
<1>2. /\ \A q : Pertenece(q, Fila(l)') <=> Pertenece(q, Fila(l)) \/ q = p
      /\ SinRepetir(Fila(l))'
  BY <1>1, Fila_Tipo, Lista_Agrega DEF UnSitio, SinRepetir, Alguien
<1>3. \A k \in Filas : SinRepetir(Fila(k))'
  BY <1>2 DEF OtrasFilas, UnSitio, SinRepetir
<1>4. ASSUME NEW q \in Pid, NEW z \in Filas
      PROVE  EnSitio(q, z)' <=> IF q = p /\ z = l THEN TRUE ELSE EnSitio(q, z)
  <2>1. EnSitio(q, z)' <=> Pertenece(q, Fila(z)')
    BY DEF EnSitio, Pertenece
  <2>2. EnSitio(q, z) <=> Pertenece(q, Fila(z))
    BY DEF EnSitio
  <2>3. z # l => Fila(z)' = Fila(z)
    BY DEF OtrasFilas
  <2> QED BY <1>2, <2>1, <2>2, <2>3
<1> QED BY <1>3, <1>4

(* Thread h puts the p it has in line l.                                   *)
LEMMA Mueve_AFila ==
  ASSUME TypeOK, UnSitio, NEW p \in Pid, NEW l \in Filas, NEW h \in Manos,
         OtrasFilas(l), Fila(l)' = Append(Fila(l), p), OtrasManos(h), ElResto,
         Tiene(h), ~Tiene(h)', pcb[h] = p
  PROVE  Mueve(p, h, l) /\ UnSitio'
<1>0. l \in Sitios /\ h \in Sitios /\ l # h /\ h \notin Filas /\ l \notin Manos
  BY Sitios_Tipo
<1>1. EnSitio(p, h)
  BY <1>0 DEF EnSitio
<1>2. \A x \in Sitios : EnSitio(p, x) <=> x = h
  BY <1>0, <1>1 DEF UnSitio
<1>3. /\ \A k \in Filas : SinRepetir(Fila(k))'
      /\ \A q \in Pid : \A z \in Filas :
           EnSitio(q, z)' <=> IF q = p /\ z = l THEN TRUE ELSE EnSitio(q, z)
  BY <1>0, <1>1, Mueve_AlFinal
<1>4. ASSUME NEW q \in Pid, NEW z \in Sitios
      PROVE  EnSitio(q, z)' <=> IF q = p THEN z = l ELSE EnSitio(q, z)
  <2>1. CASE z \in Filas
    BY <1>0, <1>2, <1>3, <2>1
  <2>2. CASE z \in Manos
    BY <1>0, <1>2, <2>2, Sitios_Tipo DEF EnSitio, OtrasManos
  <2>3. CASE z \notin Filas /\ z \notin Manos
    BY <1>0, <1>2, <2>3 DEF EnSitio, ElResto
  <2> QED BY <2>1, <2>2, <2>3
<1>5. Mueve(p, h, l)
  BY <1>1, <1>4 DEF Mueve
<1> QED BY <1>0, <1>3, <1>5, Mueve_UnSitio

(* push_new.                                                               *)
LEMMA Mueve_New ==
  ASSUME TypeOK, UnSitio, NEW p \in Pid, OtrasFilas("new"),
         Fila("new")' = Append(Fila("new"), p), MismasManos, Afuera(p), ~Afuera(p)',
         \A q \in Pid \ {p} : Afuera(q)' <=> Afuera(q)
  PROVE  Mueve(p, "afuera", "new") /\ UnSitio'
<1>0. "new" \in Filas /\ "new" \in Sitios /\ "afuera" \in Sitios \ {"new"}
      /\ "afuera" \notin Filas \union Manos
  BY Sitios_Tipo DEF Filas
<1>1. EnSitio(p, "afuera")
  BY <1>0 DEF EnSitio
<1>2. \A x \in Sitios : EnSitio(p, x) <=> x = "afuera"
  BY <1>0, <1>1 DEF UnSitio
<1>3. /\ \A k \in Filas : SinRepetir(Fila(k))'
      /\ \A q \in Pid : \A z \in Filas :
           EnSitio(q, z)' <=> IF q = p /\ z = "new" THEN TRUE ELSE EnSitio(q, z)
  BY <1>0, <1>1, Mueve_AlFinal
<1>4. ASSUME NEW q \in Pid, NEW z \in Sitios
      PROVE  EnSitio(q, z)' <=> IF q = p THEN z = "new" ELSE EnSitio(q, z)
  <2>1. CASE z \in Filas
    BY <1>0, <1>2, <1>3, <2>1
  <2>2. CASE z \in Manos
    <3>1. z \notin Filas /\ z # "new" /\ z # "afuera" /\ z \in Sitios
      BY <1>0, <2>2, Sitios_Tipo
    <3>2. EnSitio(q, z)' <=> EnSitio(q, z)
      BY <2>2, <3>1 DEF EnSitio, MismasManos
    <3> QED BY <1>2, <3>1, <3>2
  <2>3. CASE z \notin Filas /\ z \notin Manos
    <3>1. z = "afuera"
      BY <2>3 DEF Sitios
    <3>2. (EnSitio(q, z) <=> Afuera(q)) /\ (EnSitio(q, z)' <=> Afuera(q)')
      BY <2>3 DEF EnSitio, Afuera
    <3> QED BY <1>0, <3>1, <3>2
  <2> QED BY <2>1, <2>2, <2>3
<1>5. Mueve(p, "afuera", "new")
  BY <1>1, <1>4 DEF Mueve
<1> QED BY <1>0, <1>3, <1>5, Mueve_UnSitio

(* The filesystem takes the head of one line to the end of another.        *)
LEMMA Mueve_EntreFilas ==
  ASSUME TypeOK, UnSitio, NEW p \in Pid, NEW l \in Filas, NEW m \in Filas \ {l},
         \A k \in Filas \ {l, m} : Fila(k)' = Fila(k), MismasManos, ElResto,
         Fila(l) # << >>, p = Head(Fila(l)), Fila(l)' = Tail(Fila(l)),
         Fila(m)' = Append(Fila(m), p)
  PROVE  Mueve(p, l, m) /\ UnSitio'
<1>0. l \in Sitios /\ m \in Sitios
  BY Sitios_Tipo
<1>1. /\ Pertenece(p, Fila(l)) /\ SinRepetir(Fila(l))'
      /\ \A q \in Pid : Pertenece(q, Fila(l)') <=> Pertenece(q, Fila(l)) /\ q # p
  BY Fila_Tipo, Lista_Saca DEF UnSitio, SinRepetir
<1>2. EnSitio(p, l)
  BY <1>1 DEF EnSitio
<1>3. \A x \in Sitios : EnSitio(p, x) <=> x = l
  BY <1>0, <1>2 DEF UnSitio
<1>4. ~Pertenece(p, Fila(m))
  BY <1>0, <1>3 DEF EnSitio
<1>5. /\ \A q : Pertenece(q, Fila(m)') <=> Pertenece(q, Fila(m)) \/ q = p
      /\ SinRepetir(Fila(m))'
  <2>1. m \in Filas /\ p \in Alguien
    BY DEF Alguien
  <2>2. Fila(m) \in Seq(Alguien) /\ SinRepetir(Fila(m))
    BY <2>1, Fila_Tipo DEF UnSitio
  <2>3. /\ \A q : Pertenece(q, Append(Fila(m), p)) <=> Pertenece(q, Fila(m)) \/ q = p
        /\ SinRepetir(Append(Fila(m), p))
    BY <1>4, <2>1, <2>2, Lista_Agrega
  <2>4. SinRepetir(Fila(m))' <=> SinRepetir(Fila(m)')
    BY DEF SinRepetir
  <2> QED BY <2>3, <2>4
<1>6. ASSUME NEW q \in Pid, NEW z \in Sitios
      PROVE  EnSitio(q, z)' <=> IF q = p THEN z = m ELSE EnSitio(q, z)
  <2>1. CASE z \in Filas
    <3>1. /\ EnSitio(q, z)' <=> Pertenece(q, Fila(z)')
          /\ EnSitio(q, z) <=> Pertenece(q, Fila(z))
      BY <2>1 DEF EnSitio, Pertenece
    <3>2. z \notin {l, m} => Fila(z)' = Fila(z)
      BY <2>1
    <3> QED BY <1>1, <1>3, <1>5, <3>1, <3>2
  <2>2. CASE z \in Manos
    <3>1. z \notin Filas /\ z # m /\ z # l
      BY <2>2, Sitios_Tipo
    <3>2. EnSitio(q, z)' <=> EnSitio(q, z)
      BY <2>2, <3>1 DEF EnSitio, MismasManos
    <3> QED BY <1>3, <3>1, <3>2
  <2>3. CASE z \notin Filas /\ z \notin Manos
    BY <1>0, <1>3, <2>3 DEF EnSitio, ElResto
  <2> QED BY <2>1, <2>2, <2>3
<1>7. Mueve(p, l, m)
  BY <1>2, <1>6 DEF Mueve
<1>8. \A k \in Filas : SinRepetir(Fila(k))'
  <2> SUFFICES ASSUME NEW k \in Filas PROVE SinRepetir(Fila(k))'
    OBVIOUS
  <2>1. CASE k \in {l, m}
    BY <1>1, <1>5, <2>1
  <2>2. CASE k \notin {l, m}
    BY <2>2 DEF UnSitio, SinRepetir
  <2> QED BY <2>1, <2>2
<1> QED BY <1>0, <1>7, <1>8, Mueve_UnSitio

(* A step that gives and takes no process moves nobody.                    *)
LEMMA NadieSeMueve_Quieto ==
  ASSUME TypeOK, UnSitio, FilasQuietas, ElResto, MismasManos
  PROVE  NadieSeMueve /\ UnSitio'
<1>1. ASSUME NEW l \in Filas
      PROVE  /\ SinRepetir(Fila(l))'
             /\ \A q \in Pid : EnSitio(q, l)' <=> EnSitio(q, l)
  <2> DEFINE s == Fila(l)
             t == Fila(l)'
  <2>0. s \in Seq(Alguien) /\ SinRepetir(s) /\ Nadie \notin Pid /\ Nadie \in Alguien
    BY Fila_Tipo DEF UnSitio, Nadie, Pid, Alguien
  <2>1. \A q \in Pid : /\ EnSitio(q, l)' <=> Pertenece(q, t)
                       /\ EnSitio(q, l) <=> Pertenece(q, s)
    BY DEF EnSitio, Pertenece
  <2>2. SinRepetir(Fila(l))' <=> SinRepetir(t)
    BY DEF SinRepetir
  <2>3. t = s \/ t = Append(s, Nadie) \/ (s # << >> /\ Head(s) = Nadie /\ t = Tail(s))
    BY DEF FilasQuietas
  <2> HIDE DEF s, t
  <2>4. SinRepetir(t) /\ \A q \in Pid : Pertenece(q, t) <=> Pertenece(q, s)
    <3>1. CASE t = s
      BY <2>0, <3>1
    <3>2. CASE t = Append(s, Nadie)
      BY <2>0, <3>2, Lista_Agrega
    <3>3. CASE s # << >> /\ Head(s) = Nadie /\ t = Tail(s)
      BY <2>0, <3>3, Lista_Saca
    <3> QED BY <2>3, <3>1, <3>2, <3>3
  <2> QED BY <2>1, <2>2, <2>4
<1>2. NadieSeMueve
  <2> SUFFICES ASSUME NEW q \in Pid, NEW z \in Sitios
               PROVE  EnSitio(q, z)' <=> EnSitio(q, z)
    BY DEF NadieSeMueve
  <2>1. CASE z \in Filas
    BY <1>1, <2>1
  <2>2. CASE z \notin Filas
    BY <2>2 DEF EnSitio, ElResto, MismasManos
  <2> QED BY <2>1, <2>2
<1> QED BY <1>1, <1>2, NadieSeMueve_UnSitio
-----------------------------------------------------------------------------
(* What a step of the scheduler does to the sites.                         *)

(* E is going to link the PCB it has in BLOCKED; its process is BLOCKED,   *)
(* and it has it until the sleep of an IO ends.                            *)
Entrando == {"ubica", "enlaza"}
EnIo == en["E"] \in {"esperaIo", "pushReady"} \union EtiquetasPop /\ EnCurso.op = "IO"
ESano == /\ en["E"] \in {"esperaIo"} \union EtiquetasPop => EnCurso.op = "IO"
         /\ en["E"] # "pushSignal"

Inv7 == UnSitio /\ ESano

MismoReady == cola'["ready"] = cola["ready"]
AlReady(p) == cola'["ready"] = Append(cola["ready"], p)
MismaE       == Tiene("E") => (EnIo' <=> EnIo)
EntradaMisma == \A q \in Pid : EnSitio(q, "E") \/ (PorEntrar(q)' <=> PorEntrar(q))

(* The moves there are, with what they do to READY and to the process E    *)
(* has; a process comes out of READY in the hands of C only.               *)
Mudanza(p) ==
  /\ EntradaMisma
  /\ \/ /\ MismoReady /\ MismaE
        /\ \/ Mueve(p, "afuera", "new") \/ Mueve(p, "new", "L")
           \/ Mueve(p, "C", "execute")  \/ Mueve(p, "pedidosFs", "desbloqueos")
           \/ Mueve(p, "desbloqueos", "U")
     \/ AlReady(p) /\ MismaE /\ Mueve(p, "L", "ready")
     \/ AlReady(p) /\ MismaE /\ Mueve(p, "U", "ready") /\ en["U"] = "pushReady"
     \/ AlReady(p) /\ Mueve(p, "E", "ready")
     \/ /\ Mueve(p, "ready", "C") /\ MismaE /\ en["C"] = "saca"
        /\ cola["ready"] # << >> /\ p = Head(cola["ready"])
        /\ cola'["ready"] = Tail(cola["ready"])
     \/ MismoReady /\ ~EnIo' /\ Mueve(p, "execute", "E")
     \/ MismoReady /\ ~EnIo /\ (Mueve(p, "E", "execute") \/ Mueve(p, "E", "exit"))
     \/ MismoReady /\ ~EnIo /\ PorEntrar(p)' /\ Mueve(p, "E", "pedidosFs")
Paso == \/ NadieSeMueve /\ MismoReady /\ MismaE /\ EntradaMisma
        \/ \E p \in Pid : Mudanza(p)
        \/ NadieSeMueve /\ MismoReady /\ Enlaza

(* The threads one step moves.                                             *)
LEMMA Mano_Va ==
  ASSUME Inv1, NEW h \in Manos, NEW de, NEW a, Va(h, de, a),
         \A k \in Manos \ {h} : pcb'[k] = pcb[k], h # "E" => RolE' = RolE
  PROVE  /\ OtrasManos(h) /\ en[h] = de /\ en'[h] = a
         /\ \A k \in Hilos \ {h} : en'[k] = en[k]
         /\ h # "E" \/ de \notin Entrando => (Tiene(h) <=> de \in Mano(h))
         /\ h # "E" \/ a \notin Entrando => (Tiene(h)' <=> a \in Mano(h))
<1>1. h \in Hilos /\ Manos \subseteq Hilos /\ en[h] = de /\ en'[h] = a
      /\ \A k \in Hilos \ {h} : en'[k] = en[k]
  BY DEF Va, Inv1, TypeOK, Hilos, Manos
<1>2. OtrasManos(h)
  BY <1>1 DEF OtrasManos, Tiene
<1>3. h # "E" \/ de \notin Entrando => (Tiene(h) <=> de \in Mano(h))
  BY <1>1 DEF Tiene, RolE, Entrando
<1>4. h # "E" \/ a \notin Entrando => (Tiene(h)' <=> a \in Mano(h))
  BY <1>1 DEF Tiene, RolE, Entrando
<1> QED BY <1>1, <1>2, <1>3, <1>4

(* A thread that keeps the PCB it has, or goes on without one.             *)
LEMMA Lugar_Mismo ==
  ASSUME Inv1, UnSitio, NEW h \in Manos, NEW de, NEW a, Va(h, de, a),
         \A k \in Manos \ {h} : pcb'[k] = pcb[k], h # "E" => RolE' = RolE,
         h = "E" => de \notin Entrando /\ a \notin Entrando,
         de \in Mano(h) <=> a \in Mano(h), de \in Mano(h) => pcb'[h] = pcb[h],
         FilasQuietas, UNCHANGED hilo
  PROVE  NadieSeMueve /\ UnSitio'
<1>1. MismasManos
  BY Mano_Va DEF OtrasManos, MismasManos
<1>2. TypeOK /\ ElResto
  BY DEF ElResto, Afuera, Inv1
<1> QED BY <1>1, <1>2, NadieSeMueve_Quieto

(* Who is on the way into BLOCKED changes by what E does only.             *)
LEMMA Lugar_Entrada ==
  ASSUME \/ en["E"] \notin Entrando /\ en'["E"] \notin Entrando
         \/ /\ pcb'["E"] = pcb["E"]
            /\ \/ en["E"] \in Entrando <=> en'["E"] \in Entrando
               \/ Tiene("E")
  PROVE  EntradaMisma
<1>1. "E" \in Manos /\ "E" \notin Filas
  BY DEF Manos, Filas
<1> QED BY <1>1 DEF EntradaMisma, PorEntrar, Entrando, EnSitio

(* The instruction under way is the same while no program counter moves.   *)
LEMMA Curso_Igual ==
  ASSUME Inv1, Inv4, en["E"] \notin {"espera", "saca", "cpu"},
         pcb'["E"] = pcb["E"], UNCHANGED pc, MismosProgramas
  PROVE  EnCurso' = EnCurso
<1>1. Proceso \in Pid /\ pc[Proceso] > 0 /\ pc[Proceso] <= Len(programa[Proceso])
  BY DEF Inv1, PcbTomado, TypeOK, Inv4, Proceso
<1>2. programa[Proceso] # << >>
  <2>1. Len(<< >>) = 0 /\ pc[Proceso] \in Nat
    BY <1>1 DEF Inv1, TypeOK
  <2> QED BY <1>1, <2>1
<1> QED BY <1>1, <1>2 DEF EnCurso, Proceso, MismosProgramas

(* A step of another thread than E keeps what E knows.                     *)
LEMMA Lugar_OtroHilo ==
  ASSUME Inv1, Inv4, Inv7, en'["E"] = en["E"], pcb'["E"] = pcb["E"], UNCHANGED pc,
         MismosProgramas
  PROVE  MismaE /\ ESano' /\ EntradaMisma /\ RolE' = RolE
<1>1. EntradaMisma /\ RolE' = RolE
  BY Lugar_Entrada, Orden_MismaE
<1>2. CASE en["E"] \in {"espera", "saca", "cpu"}
  BY <1>1, <1>2 DEF MismaE, EnIo, ESano, Inv7, EtiquetasPop
<1>3. CASE en["E"] \notin {"espera", "saca", "cpu"}
  BY <1>1, <1>3, Curso_Igual DEF MismaE, EnIo, ESano, Inv7
<1> QED BY <1>2, <1>3

(* A step in which no thread that may have a process does anything.        *)
LEMMA Lugar_Quieto ==
  ASSUME Inv1, Inv4, Inv7, \A k \in Manos : en'[k] = en[k] /\ pcb'[k] = pcb[k],
         UNCHANGED <<pc, programa, hilo>>, FilasQuietas, MismoReady
  PROVE  Inv7' /\ Paso
<1>1. MismaE /\ ESano' /\ EntradaMisma /\ RolE' = RolE
  BY Lugar_OtroHilo DEF Manos, MismosProgramas
<1>2. MismasManos /\ ElResto /\ TypeOK
  BY <1>1 DEF MismasManos, Tiene, ElResto, Afuera, Inv1
<1>3. NadieSeMueve /\ UnSitio'
  BY <1>2, NadieSeMueve_Quieto DEF Inv7
<1> QED BY <1>1, <1>3 DEF Inv7, Paso

(* The death of the kernel moves nobody.                                   *)
LEMMA Lugar_Cae == ASSUME Inv1, Inv4, Inv7, NEW m, Cae(m) PROVE Inv7' /\ Paso
<1>1. FilasQuietas /\ MismoReady
  BY Filas_Iguales DEF Cae, fsVars, MismoReady
<1> QED BY <1>1, Lugar_Quieto DEF Cae, procesoVars

(* nuevo_pcb_new: only push_new moves its process.                         *)
LEMMA Lugar_Consola == ASSUME Inv1, Inv3, Inv4, Inv7, Consola PROVE Inv7' /\ Paso
<1>0. MismosProgramas /\ UNCHANGED <<en, pcb, pc, fsVars>>
  <2>1. ASSUME NEW s \in Programas, NuevoProceso(s) PROVE MismosProgramas
    <3>1. programa[nextPid] = << >> /\ programa' = [programa EXCEPT ![nextPid] = s]
      BY <2>1 DEF NuevoProceso, Inv1, ProgramaFijado, Pid
    <3> QED BY <3>1 DEF Inv1, TypeOK, MismosProgramas
  <2> QED BY <2>1 DEF Consola, NuevoProceso, PushNew, PostNuevos, MismosProgramas
<1>1. MismaE /\ ESano' /\ EntradaMisma /\ RolE' = RolE
  BY <1>0, Lugar_OtroHilo
<1>a. MismasManos /\ TypeOK
  BY <1>0, <1>1 DEF MismasManos, Tiene, Inv1
<1>2. ASSUME NEW p \in Pid, PushNew(p) PROVE Inv7' /\ Paso
  <2>1. /\ Agrega("new", p) /\ "new" \in Listas \ {"blocked"}
        /\ UNCHANGED <<pedidosFs, desbloqueos>>
    BY <1>0, <1>2 DEF PushNew, Listas, fsVars
  <2>2. /\ OtrasFilas("new") /\ Fila("new")' = Append(Fila("new"), p)
        /\ \A k \in Listas \ {"new"} : cola'[k] = cola[k]
    BY <2>1, Filas_Agrega
  <2>3. Afuera(p) /\ ~Afuera(p)' /\ \A q \in Pid \ {p} : Afuera(q)' <=> Afuera(q)
    BY <1>2 DEF PushNew, Afuera, Inv1, TypeOK
  <2>4. Mueve(p, "afuera", "new") /\ UnSitio'
    BY <1>a, <2>2, <2>3, Mueve_New DEF Inv7
  <2>5. MismoReady
    BY <2>2 DEF MismoReady, Listas
  <2> QED BY <1>1, <2>4, <2>5 DEF Inv7, Paso, Mudanza
<1>3. ASSUME (\E s \in Programas : NuevoProceso(s)) \/ (\E p \in Pid : PostNuevos(p))
      PROVE  Inv7' /\ Paso
  <2>1. ElResto
    <3>1. ASSUME NEW s \in Programas, NuevoProceso(s) PROVE hilo[nextPid] = "sinConexion"
      BY <3>1 DEF NuevoProceso, Inv3, NewUnica, Pid
    <3> QED BY <1>3, <3>1 DEF NuevoProceso, PostNuevos, Afuera, Inv1, TypeOK, ElResto
  <2>2. UNCHANGED cola
    BY <1>3 DEF NuevoProceso, PostNuevos
  <2>3. FilasQuietas /\ MismoReady
    BY <1>0, <2>2, Filas_Iguales DEF fsVars, MismoReady
  <2>4. NadieSeMueve /\ UnSitio'
    BY <1>a, <2>1, <2>3, NadieSeMueve_Quieto DEF Inv7
  <2> QED BY <1>1, <2>3, <2>4 DEF Inv7, Paso
<1> QED BY <1>2, <1>3 DEF Consola

(* A step of thread h that gives it no process and takes none from it.     *)
LEMMA Lugar_Va ==
  ASSUME Inv1, Inv4, Inv7, NEW h \in Manos, NEW de, NEW a, Va(h, de, a),
         de \in Mano(h) <=> a \in Mano(h),
         FilasQuietas, MismoReady, UNCHANGED <<pcb, pc, programa, hilo>>,
         h = "E" => /\ de \notin Entrando \union {"cpu", "pushReady"}
                    /\ a \notin Entrando \union {"pushSignal", "esperaIo", "pushReady"}
                    /\ a \in EtiquetasPop => de = "esperaIo" \/ de \in EtiquetasPop
                    /\ de \in {"esperaIo"} \union EtiquetasPop => a \in EtiquetasPop
  PROVE  Inv7' /\ Paso
<1>1. /\ en[h] = de /\ en'[h] = a
      /\ \A k \in Hilos \ {h} : en'[k] = en[k]
      /\ "E" \in Hilos
  BY DEF Va, Inv1, TypeOK, Manos, Hilos
<1>2. MismaE /\ ESano' /\ EntradaMisma /\ (h # "E" => RolE' = RolE)
  <2>1. CASE h # "E"
    <3>1. en'["E"] = en["E"]
      BY <1>1, <2>1
    <3> QED BY <2>1, <3>1, Lugar_OtroHilo DEF MismosProgramas
  <2>2. CASE h = "E"
    <3>1. EnCurso' = EnCurso /\ EntradaMisma
      BY <1>1, <2>2, Lugar_Entrada DEF EnCurso, Proceso
    <3> QED BY <1>1, <2>2, <3>1 DEF MismaE, EnIo, ESano, Inv7
  <2> QED BY <2>1, <2>2
<1>3. NadieSeMueve /\ UnSitio'
  BY <1>2, Lugar_Mismo DEF Inv7
<1> QED BY <1>2, <1>3 DEF Inv7, Paso

(* A sem_wait or sem_post moves nobody.                                    *)
LEMMA Lugar_Semaforo ==
  ASSUME Inv1, Inv4, Inv7, NEW h \in Manos, NEW de, NEW s, NEW a,
         PasoEspera(h, de, s, a) \/ PasoPostea(h, de, s, a),
         de \in Mano(h) <=> a \in Mano(h),
         h = "E" => \/ <<de, a>> = <<"esperaIo", "sacaBlocked">>
                    \/ /\ de \in {"espera", "postEnvio", "libera", "postExecute", "postReady"}
                       /\ a \in {"saca", "libera", "espera"}
                    \/ <<de, a>> = <<"memoria", "pushExecute">>
  PROVE  Inv7' /\ Paso
<1>1. Va(h, de, a) /\ UNCHANGED <<cola, pcb, hilo, pc, programa, pedidosFs, desbloqueos>>
  BY DEF PasoEspera, PasoPostea, procesoVars, fsVars
<1>2. FilasQuietas /\ MismoReady
  BY <1>1, Filas_Iguales DEF MismoReady
<1> QED BY <1>1, <1>2, Lugar_Va DEF Entrando, EtiquetasPop

(* push_pcb_estado(e_ready, ...).                                          *)
LEMMA Lugar_PasaAReady ==
  ASSUME Inv1, Inv4, Inv7, NEW h \in {"L", "E", "U"}, PasaAReady(h)
  PROVE  Inv7' /\ Paso
<1>0. h \in Manos /\ "ready" \in Listas \ {"blocked"} /\ "ready" \in Filas
  BY DEF Manos, Listas, Filas
<1>1. CASE PushReady(h)
  <2>1. /\ Va(h, "pushReady", "cuenta") /\ Agrega("ready", pcb[h])
        /\ UNCHANGED <<pcb, hilo, pc, programa, pedidosFs, desbloqueos>>
    BY <1>1 DEF PushReady, procesoVars, fsVars
  <2>2. h # "E" => MismaE /\ ESano' /\ EntradaMisma /\ RolE' = RolE
    <3>1. h # "E" => en'["E"] = en["E"]
      BY <2>1 DEF Va, Inv1, TypeOK, Hilos
    <3> QED BY <2>1, <3>1, Lugar_OtroHilo DEF MismosProgramas
  <2>3. /\ OtrasManos(h) /\ Tiene(h) /\ ~Tiene(h)' /\ ElResto
        /\ en[h] = "pushReady" /\ en'[h] = "cuenta"
    <3>1. {"pushReady"} \subseteq Mano(h) /\ "cuenta" \notin Mano(h)
          /\ {"pushReady", "cuenta"} \cap Entrando = {}
      BY DEF Mano, ManoE, EtiquetasPop, Entrando
    <3> QED BY <1>0, <2>1, <2>2, <3>1, Mano_Va DEF ElResto, Afuera
  <2>4. h = "E" => ESano' /\ EntradaMisma
    BY <2>3, Lugar_Entrada DEF ESano, EtiquetasPop, Entrando
  <2>5. pcb[h] \in Pid
    BY <2>3 DEF Inv1, PcbTomado
  <2>6. /\ OtrasFilas("ready") /\ Fila("ready")' = Append(Fila("ready"), pcb[h])
        /\ AlReady(pcb[h])
    BY <1>0, <2>1, Filas_Agrega DEF AlReady
  <2>7. Mueve(pcb[h], h, "ready") /\ UnSitio'
    BY <1>0, <2>3, <2>5, <2>6, Mueve_AFila DEF Inv1, Inv7
  <2>8. Mudanza(pcb[h])
    BY <2>2, <2>3, <2>4, <2>6, <2>7 DEF Mudanza
  <2> QED BY <2>2, <2>4, <2>5, <2>7, <2>8 DEF Inv7, Paso
<1>2. CASE \E m : Cae(m)
  BY <1>2, Lugar_Cae
<1>3. CASE ~PushReady(h) /\ ~\E m : Cae(m)
  <2>1. PICK de, a : /\ Va(h, de, a) /\ de \in EtiquetasReady \ {"pushReady"}
                     /\ a \in {"cuenta", "lista", "postReady", "espera", "libera"}
    BY <1>3 DEF PasaAReady, LogReadyCuenta, LogReadyRecorre, PostReady, PasoPostea,
       EtiquetasReady
  <2>2. UNCHANGED <<cola, pcb, hilo, pc, programa, pedidosFs, desbloqueos>>
    BY <1>3 DEF PasaAReady, LogReadyCuenta, LogReadyRecorre, PostReady, PasoPostea,
       procesoVars, fsVars
  <2>3. de \notin Mano(h) /\ a \notin Mano(h)
    BY <2>1 DEF Mano, ManoE, EtiquetasReady, EtiquetasPop
  <2>4. FilasQuietas /\ MismoReady
    BY <2>2, Filas_Iguales DEF MismoReady
  <2>5. /\ de \notin Entrando \union {"cpu", "pushReady", "esperaIo"} \union EtiquetasPop
        /\ a \notin Entrando \union {"pushSignal", "esperaIo", "pushReady"}
                    \union EtiquetasPop
    BY <2>1 DEF EtiquetasReady, EtiquetasPop, Entrando
  <2> QED BY <1>0, <2>1, <2>2, <2>3, <2>4, <2>5, Lugar_Va
<1> QED BY <1>1, <1>2, <1>3

(* Thread h takes the head of list l.                                      *)
LEMMA Lugar_Saca ==
  ASSUME Inv1, Inv4, Inv7, NEW h \in Manos, NEW l \in Listas \ {"blocked"},
         NEW a \in Mano(h) \ Entrando, PasoSaca(h, l, a), cola[l] # << >>
  PROVE  /\ Mueve(Head(cola[l]), l, h) /\ UnSitio' /\ Head(cola[l]) \in Pid
         /\ en[h] = "saca" /\ en'[h] = a /\ cola'[l] = Tail(cola[l])
         /\ \A k \in Listas \ {l} : cola'[k] = cola[k]
         /\ h # "E" => MismaE /\ ESano' /\ EntradaMisma
<1>1. /\ Va(h, "saca", a) /\ Saca(l) /\ pcb' = [pcb EXCEPT ![h] = Head(cola[l])]
      /\ UNCHANGED <<hilo, pc, programa, pedidosFs, desbloqueos>>
  BY DEF PasoSaca, procesoVars, fsVars
<1>2. /\ cola[l] \in Seq(Pid) /\ cola'[l] = Tail(cola[l]) /\ Head(cola[l]) \in Pid
      /\ \A k \in Listas \ {l} : cola'[k] = cola[k]
      /\ pcb'[h] = Head(cola[l]) /\ \A k \in Manos \ {h} : pcb'[k] = pcb[k]
  <2>1. cola[l] \in Seq(Pid) /\ h \in Hilos /\ Manos \subseteq Hilos
    BY DEF Inv1, TypeOK, Manos, Hilos
  <2>2. Head(cola[l]) \in Pid
    BY <2>1, HeadTailProperties
  <2>3. cola'[l] = Tail(cola[l]) /\ \A k \in Listas \ {l} : cola'[k] = cola[k]
    BY <1>1 DEF Inv1, TypeOK, Saca
  <2>4. pcb'[h] = Head(cola[l]) /\ \A k \in Manos \ {h} : pcb'[k] = pcb[k]
    BY <1>1, <2>1 DEF Inv1, TypeOK
  <2> QED BY <2>1, <2>2, <2>3, <2>4
<1>3. h # "E" => MismaE /\ ESano' /\ EntradaMisma /\ RolE' = RolE
  <2>1. h # "E" => en'["E"] = en["E"] /\ pcb'["E"] = pcb["E"]
    BY <1>1 DEF Va, Inv1, TypeOK, Hilos
  <2> QED BY <1>1, <2>1, Lugar_OtroHilo DEF MismosProgramas
<1>4. "saca" \notin Mano(h) /\ "saca" \notin Entrando
  BY DEF Mano, ManoE, EtiquetasPop, Entrando
<1>5. /\ OtrasManos(h) /\ ~Tiene(h) /\ Tiene(h)' /\ ElResto
      /\ en[h] = "saca" /\ en'[h] = a
  BY <1>1, <1>2, <1>3, <1>4, Mano_Va DEF ElResto, Afuera
<1>6. l \in Filas /\ OtrasFilas(l) /\ Fila(l) = cola[l] /\ Fila(l)' = cola'[l]
  BY <1>1, <1>2, Filas_Lista
<1>7. Mueve(Head(cola[l]), l, h) /\ UnSitio'
  BY <1>2, <1>5, <1>6, Mueve_DeFila DEF Inv1, Inv7
<1> QED BY <1>2, <1>3, <1>5, <1>7

(* planificador_largo_plazo.                                               *)
LEMMA Lugar_LargoPlazo == ASSUME Inv1, Inv4, Inv7, LargoPlazo PROVE Inv7' /\ Paso
<1>0. "L" \in Manos /\ "new" \in Listas \ {"blocked"} /\ "ready" \in Listas \ {"new"}
      /\ Mano("L") = {"pushReady"} /\ "pushReady" \notin Entrando
  BY DEF Manos, Listas, Mano, Entrando
<1>1. CASE \/ PasoEspera("L", "espera", "nuevos", "grado")
           \/ PasoEspera("L", "grado", "grado", "saca")
  BY <1>0, <1>1, Lugar_Semaforo
<1>2. CASE PasoSaca("L", "new", "pushReady")
  <2>1. CASE cola["new"] = << >>
    BY <1>2, <2>1, Lugar_Cae DEF PasoSaca
  <2>2. CASE cola["new"] # << >>
    <3>1. /\ Mueve(Head(cola["new"]), "new", "L") /\ UnSitio' /\ Head(cola["new"]) \in Pid
          /\ MismoReady /\ MismaE /\ ESano' /\ EntradaMisma
      BY <1>0, <1>2, <2>2, Lugar_Saca DEF MismoReady
    <3> QED BY <3>1 DEF Inv7, Paso, Mudanza
  <2> QED BY <2>1, <2>2
<1>3. CASE PasaAReady("L")
  BY <1>3, Lugar_PasaAReady
<1> QED BY <1>1, <1>2, <1>3 DEF LargoPlazo

(* push_pcb_estado(e_execute, ...) by C or by E.                           *)
LEMMA Lugar_PushExecute ==
  ASSUME Inv1, Inv4, Inv7, NEW h \in {"C", "E"}, PushExecute(h) PROVE Inv7' /\ Paso
<1>0. h \in Manos /\ "execute" \in Listas \ {"blocked"} /\ "execute" \in Filas
      /\ "pushExecute" \in Mano(h) /\ "postExecute" \notin Mano(h)
      /\ {"pushExecute", "postExecute"} \cap Entrando = {}
  BY DEF Manos, Listas, Filas, Mano, ManoE, EtiquetasPop, Entrando
<1>1. /\ Va(h, "pushExecute", "postExecute") /\ Agrega("execute", pcb[h])
      /\ UNCHANGED <<pcb, hilo, pc, programa, pedidosFs, desbloqueos>>
  BY DEF PushExecute, procesoVars, fsVars
<1>2. h = "C" => MismaE /\ ESano' /\ EntradaMisma /\ RolE' = RolE
  <2>1. h = "C" => en'["E"] = en["E"]
    BY <1>1 DEF Va, Inv1, TypeOK, Hilos
  <2> QED BY <1>1, <2>1, Lugar_OtroHilo DEF MismosProgramas
<1>3. /\ OtrasManos(h) /\ Tiene(h) /\ ~Tiene(h)' /\ ElResto
      /\ en[h] = "pushExecute" /\ en'[h] = "postExecute"
  BY <1>0, <1>1, <1>2, Mano_Va DEF ElResto, Afuera
<1>4. h = "E" => ESano' /\ EntradaMisma /\ ~EnIo
  BY <1>3, Lugar_Entrada DEF ESano, EnIo, EtiquetasPop, Entrando
<1>5. pcb[h] \in Pid
  BY <1>3 DEF Inv1, PcbTomado
<1>6. /\ OtrasFilas("execute") /\ Fila("execute")' = Append(Fila("execute"), pcb[h])
      /\ MismoReady
  BY <1>0, <1>1, Filas_Agrega DEF MismoReady, Listas
<1>7. Mueve(pcb[h], h, "execute") /\ UnSitio'
  BY <1>0, <1>3, <1>5, <1>6, Mueve_AFila DEF Inv1, Inv7
<1>8. Mudanza(pcb[h])
  BY <1>2, <1>4, <1>6, <1>7 DEF Mudanza
<1> QED BY <1>2, <1>4, <1>5, <1>7, <1>8 DEF Inv7, Paso

(* planificador_corto_plazo, with FIFO.                                    *)
LEMMA Lugar_CortoPlazo ==
  ASSUME Algoritmo = "FIFO", Inv1, Inv4, Inv7, CortoPlazo PROVE Inv7' /\ Paso
<1>0. "C" \in Manos /\ "ready" \in Listas \ {"blocked"} /\ Mano("C") = {"pushExecute"}
      /\ "pushExecute" \notin Entrando
  BY DEF Manos, Listas, Mano, Entrando
<1>1. CASE \/ PasoEspera("C", "espera", "ready", "libre")
           \/ PasoEspera("C", "libre", "libre", "saca")
           \/ PasoPostea("C", "postExecute", "execute", "espera")
  BY <1>0, <1>1, Lugar_Semaforo
<1>2. CASE PasoSaca("C", "ready", "pushExecute")
  <2>1. CASE cola["ready"] = << >>
    BY <1>2, <2>1, Lugar_Cae DEF PasoSaca
  <2>2. CASE cola["ready"] # << >>
    <3>1. /\ Mueve(Head(cola["ready"]), "ready", "C") /\ UnSitio'
          /\ Head(cola["ready"]) \in Pid /\ cola'["ready"] = Tail(cola["ready"])
          /\ en["C"] = "saca" /\ MismaE /\ ESano' /\ EntradaMisma
      BY <1>0, <1>2, <2>2, Lugar_Saca
    <3> QED BY <2>2, <3>1 DEF Inv7, Paso, Mudanza
  <2> QED BY <2>1, <2>2
<1>3. CASE PushExecute("C")
  BY <1>3, Lugar_PushExecute
<1> QED BY <1>1, <1>2, <1>3 DEF CortoPlazo, SacaReady, SigueEnExecute

(* An answer of the cpu, and the instruction it is of.                     *)
LEMMA Lugar_Respuesta ==
  ASSUME Inv1, NEW op, NEW a, Responde(op, a)
  PROVE  /\ Va("E", "cpu", a) /\ UNCHANGED <<cola, pcb, hilo, programa>>
         /\ en["E"] = "cpu" /\ en'["E"] = a /\ Proceso \in Pid /\ pcb["E"] = Proceso
         /\ EnCurso'.op = op /\ Tiene("E") /\ OtrasManos("E") /\ EntradaMisma /\ ~EnIo
<1>1. /\ Va("E", "cpu", a) /\ UNCHANGED <<cola, pcb, hilo, programa>>
      /\ pc' = [pc EXCEPT ![Proceso] = @ + 1] /\ Siguiente.op = op /\ Proceso \in Pid
  BY Tipo_Siguiente DEF Responde
<1>2. EnCurso' = Siguiente
  BY <1>1 DEF EnCurso, Siguiente, Proceso, Inv1, TypeOK
<1>3. "E" \in Manos /\ "cpu" \in Mano("E") /\ "cpu" \notin Entrando
  BY DEF Manos, Mano, ManoE, Entrando
<1>4. en["E"] = "cpu" /\ en'["E"] = a /\ Tiene("E") /\ OtrasManos("E")
  BY <1>1, <1>3, Mano_Va
<1>5. EntradaMisma /\ ~EnIo
  BY <1>1, <1>4, Lugar_Entrada DEF EnIo, EtiquetasPop
<1> QED BY <1>1, <1>2, <1>4, <1>5 DEF Proceso

(* E has the process and keeps it.                                         *)
LEMMA Lugar_Responde ==
  ASSUME SinSignal, Inv1, Inv4, Inv7, NEW op, NEW a, Responde(op, a), FilasQuietas,
         a \in {"pushReady", "estadoEnExit", "pushExecute", "pushSignal", "memoria",
                "esperaFs"},
         op # "SIGNAL" => a # "pushSignal", a = "pushReady" => op = "YIELD"
  PROVE  Inv7' /\ Paso
<1>1. /\ Va("E", "cpu", a) /\ UNCHANGED <<cola, pcb, hilo, programa>>
      /\ en["E"] = "cpu" /\ en'["E"] = a /\ EnCurso'.op = op /\ EntradaMisma /\ ~EnIo
  BY Lugar_Respuesta
<1>2. /\ "E" \in Manos /\ "cpu" \in Mano("E") /\ a \in Mano("E")
      /\ "cpu" \notin Entrando /\ a \notin Entrando
  BY DEF Manos, Mano, ManoE, Entrando
<1>3. NadieSeMueve /\ UnSitio' /\ MismoReady
  BY <1>1, <1>2, Lugar_Mismo DEF Inv7, MismoReady
<1>4. MismaE /\ ESano'
  BY <1>1, SinSignal_Responde DEF MismaE, EnIo, ESano, EtiquetasPop
<1> QED BY <1>1, <1>3, <1>4 DEF Inv7, Paso

(* IO: E keeps the process until its sleep ends.                           *)
LEMMA Lugar_Io == ASSUME Inv1, Inv4, Inv7, Io PROVE Inv7' /\ Paso
<1>1. /\ UNCHANGED <<cola, pcb, hilo, programa>>
      /\ en["E"] = "cpu" /\ en'["E"] = "ubica" /\ EnCurso'.op = "IO"
      /\ Tiene("E") /\ OtrasManos("E") /\ EntradaMisma /\ ~EnIo
  BY Lugar_Respuesta DEF Io
<1>2. Tiene("E")' /\ ESano' /\ ~EnIo'
  BY <1>1 DEF Tiene, Mano, ManoE, RolE, ESano, EnIo, EtiquetasPop
<1>3. MismasManos /\ ElResto /\ TypeOK
  BY <1>1, <1>2 DEF OtrasManos, MismasManos, ElResto, Afuera, Inv1
<1>4. FilasQuietas /\ MismoReady
  BY <1>1, Filas_Iguales DEF Io, fsVars, MismoReady
<1>5. NadieSeMueve /\ UnSitio'
  BY <1>3, <1>4, NadieSeMueve_Quieto DEF Inv7
<1> QED BY <1>1, <1>2, <1>4, <1>5 DEF Inv7, Paso, MismaE

(* TRUNCATE, READ and WRITE: the process is on its way to the filesystem.  *)
LEMMA Lugar_PideFs == ASSUME Inv1, Inv4, Inv7, PideFs PROVE Inv7' /\ Paso
<1>1. PICK op \in {"TRUNCATE", "READ", "WRITE"} :
        /\ Responde(op, "ubica")
        /\ pedidosFs' = Append(pedidosFs, [op |-> op, pid |-> Proceso])
  BY DEF PideFs
<1>2. /\ UNCHANGED <<cola, pcb, hilo, programa>>
      /\ en["E"] = "cpu" /\ en'["E"] = "ubica" /\ EnCurso'.op = op
      /\ Proceso \in Pid /\ pcb["E"] = Proceso
      /\ Tiene("E") /\ OtrasManos("E") /\ EntradaMisma /\ ~EnIo
  BY <1>1, Lugar_Respuesta
<1>3. ~Tiene("E")' /\ ESano' /\ MismoReady /\ ElResto
  BY <1>2 DEF Tiene, Mano, ManoE, RolE, ESano, EtiquetasPop, MismoReady, ElResto, Afuera
<1>4. [op |-> op, pid |-> Proceso] \in Pedido /\ UNCHANGED desbloqueos
  BY <1>2 DEF Pedido, PideFs
<1>5. /\ OtrasFilas("pedidosFs")
      /\ Fila("pedidosFs")' = Append(Fila("pedidosFs"), Proceso)
  BY <1>1, <1>2, <1>4, Filas_Pide
<1>6. "pedidosFs" \in Filas /\ "E" \in Manos
  BY DEF Filas, Manos
<1>7. PICK p \in Pid : p = Proceso
  BY <1>2
<1>8. Mueve(p, "E", "pedidosFs") /\ UnSitio' /\ PorEntrar(p)'
  <2>1. Mueve(p, "E", "pedidosFs") /\ UnSitio'
    BY <1>2, <1>3, <1>5, <1>6, <1>7, Mueve_AFila DEF Inv1, Inv7
  <2> QED BY <1>2, <1>7, <2>1 DEF PorEntrar
<1> QED BY <1>2, <1>3, <1>8 DEF Inv7, Paso, Mudanza

(* The rest of the switch of execute_pcb.                                  *)
LEMMA Lugar_Instrucciones ==
  ASSUME SinSignal, Inv1, Inv4, Inv7, Instrucciones PROVE Inv7' /\ Paso
<1>0. "E" \in Manos /\ Mano("E") = ManoE
  BY DEF Manos, Mano
<1>1. CASE \E m : Cae(m)
  BY <1>1, Lugar_Cae
<1>2. CASE \/ Yield \/ Termina \/ WaitInexistente \/ WaitConcede \/ CreateSegment
           \/ Open \/ Close \/ Seek \/ Signal
           \/ Responde("SIGNAL", "estadoEnExit") /\ UNCHANGED fsVars
  <2>1. \E op, a : /\ Responde(op, a)
                   /\ op # "SIGNAL" => a # "pushSignal"
                   /\ a \in {"pushReady", "estadoEnExit", "pushExecute", "pushSignal",
                             "memoria", "esperaFs"}
                   /\ a = "pushReady" => op = "YIELD"
    <3>1. CASE CreateSegment
      BY <3>1 DEF CreateSegment
    <3>2. CASE ~CreateSegment
      BY <1>2, <3>2 DEF Yield, Termina, WaitInexistente, WaitConcede, Open, Close, Seek,
         Signal
    <3> QED BY <3>1, <3>2
  <2>2. UNCHANGED cola
    BY <2>1 DEF Responde
  <2>3. FilasQuietas
    <3>1. CASE Open
      <4>1. [op |-> "OPEN", pid |-> Nadie] \in Pedido
        BY DEF Pedido
      <4> QED BY <2>2, <3>1, <4>1, Filas_Pide DEF Open
    <3>2. CASE ~Open
      <4>1. UNCHANGED <<pedidosFs, desbloqueos>>
        BY <1>2, <3>2 DEF Yield, Termina, WaitInexistente, WaitConcede, CreateSegment,
           Close, Seek, Signal, fsVars
      <4> QED BY <2>2, <4>1, Filas_Iguales
    <3> QED BY <3>1, <3>2
  <2> QED BY <2>1, <2>3, Lugar_Responde
<1>3. CASE EstadoEnExit /\ en["E"] = "estadoEnExit"
  <2>1. /\ Va("E", "estadoEnExit", "pushExit")
        /\ UNCHANGED <<cola, pcb, hilo, pc, programa, pedidosFs, desbloqueos>>
    BY <1>3 DEF EstadoEnExit, Va, procesoVars, fsVars
  <2>2. FilasQuietas /\ MismoReady
    BY <2>1, Filas_Iguales DEF MismoReady
  <2>3. {"estadoEnExit", "pushExit"} \subseteq ManoE
        /\ {"estadoEnExit", "pushExit"} \cap (Entrando \union EtiquetasPop) = {}
    BY DEF ManoE, Entrando, EtiquetasPop
  <2> QED BY <1>0, <2>1, <2>2, <2>3, Lugar_Va
<1>4. CASE EstadoEnExit /\ en["E"] # "estadoEnExit"
  <2>1. /\ Va("E", "pushExit", "enExit") /\ Agrega("exit", Proceso)
        /\ UNCHANGED <<pcb, hilo, pc, programa, pedidosFs, desbloqueos>>
    BY <1>4 DEF EstadoEnExit, Va, procesoVars, fsVars
  <2>2. /\ "pushExit" \in ManoE /\ "enExit" \notin ManoE
        /\ {"pushExit", "enExit"} \cap (Entrando \union EtiquetasPop) = {}
        /\ "exit" \in Listas \ {"blocked"} /\ "exit" \in Filas
    BY DEF ManoE, Entrando, EtiquetasPop, Listas, Filas
  <2>3. /\ OtrasManos("E") /\ Tiene("E") /\ ~Tiene("E")' /\ ElResto
        /\ en["E"] = "pushExit" /\ en'["E"] = "enExit"
    BY <1>0, <2>1, <2>2, Mano_Va DEF ElResto, Afuera
  <2>4. Proceso \in Pid /\ pcb["E"] = Proceso
    BY <2>3 DEF Inv1, PcbTomado, Proceso
  <2>5. /\ OtrasFilas("exit") /\ Fila("exit")' = Append(Fila("exit"), Proceso)
        /\ MismoReady
    BY <2>1, <2>2, Filas_Agrega DEF MismoReady, Listas
  <2>6. Mueve(Proceso, "E", "exit") /\ UnSitio'
    BY <1>0, <2>2, <2>3, <2>4, <2>5, Mueve_AFila DEF Inv1, Inv7
  <2>7. EntradaMisma /\ ESano' /\ ~EnIo
    BY <2>2, <2>3, Lugar_Entrada DEF ESano, EnIo
  <2>8. Mudanza(Proceso)
    BY <2>5, <2>6, <2>7 DEF Mudanza
  <2> QED BY <2>4, <2>6, <2>7, <2>8 DEF Inv7, Paso
<1>5. CASE PushSignal
  BY <1>5 DEF PushSignal, Va, Inv7, ESano
<1>6. CASE ~(\E m : Cae(m)) /\ (SegmentoCreado \/ EmpiezaCompactacion \/ ArchivoAbierto)
  <2>1. /\ UNCHANGED <<cola, pcb, hilo, pc, programa, pedidosFs, desbloqueos>>
        /\ \/ Va("E", "memoria", "pushExecute") \/ Va("E", "memoria", "compacta")
           \/ Va("E", "esperaFs", "pushExecute")
    BY <1>6 DEF SegmentoCreado, EmpiezaCompactacion, ArchivoAbierto, PasoPostea,
       procesoVars, fsVars
  <2>2. FilasQuietas /\ MismoReady
    BY <2>1, Filas_Iguales DEF MismoReady
  <2>3. {"memoria", "compacta", "esperaFs", "pushExecute"} \subseteq ManoE
        /\ {"memoria", "compacta", "esperaFs", "pushExecute"}
              \cap (Entrando \union EtiquetasPop) = {}
    BY DEF ManoE, Entrando, EtiquetasPop
  <2> QED BY <1>0, <2>1, <2>2, <2>3, Lugar_Va
<1>7. CASE CreaArchivo
  <2>1. [op |-> "CREATE_ARCHIVO", pid |-> Nadie] \in Pedido
    BY DEF Pedido
  <2>2. FilasQuietas
    BY <1>7, <2>1, Filas_Pide DEF CreaArchivo
  <2> QED BY <1>7, <2>2, Lugar_Quieto DEF CreaArchivo, procesoVars, MismoReady
<1>8. CASE \/ WaitAgotado \/ SignalSinWait \/ DeleteSegment \/ MovInvalido
           \/ PredicadoCae \/ CloseInexistente \/ NoAbierto \/ FallaCompactacion
  BY <1>1, <1>2, <1>8 DEF WaitAgotado, SignalSinWait, DeleteSegment, MovInvalido,
     PredicadoCae, CloseInexistente, NoAbierto, FallaCompactacion, RespondeYCae
<1> QED BY <1>1, <1>2, <1>3, <1>4, <1>5, <1>6, <1>7, <1>8, Lugar_Io, Lugar_PideFs
        DEF Instrucciones

(* list_add looks for its place.                                           *)
LEMMA Lugar_Ubica == ASSUME Inv1, Inv4, Inv7, Ubica PROVE Inv7' /\ Paso
<1>1. CASE Cae("listaCorrupta")
  BY <1>1, Lugar_Cae
<1>2. CASE ~Cae("listaCorrupta")
  <2>1. /\ en["E"] = "ubica" /\ en'["E"] = "enlaza"
        /\ \A k \in Manos \ {"E"} : en'[k] = en[k]
        /\ UNCHANGED <<cola, pcb, hilo, pc, programa, pedidosFs, desbloqueos>>
    BY <1>2 DEF Ubica, procesoVars, fsVars, Va, Inv1, TypeOK, Hilos, Manos
  <2>2. EnCurso' = EnCurso
    BY <2>1 DEF EnCurso, Proceso
  <2>3. (Tiene("E")' <=> Tiene("E")) /\ MismaE /\ ESano' /\ EntradaMisma
    BY <2>1, <2>2, Lugar_Entrada DEF Tiene, Mano, ManoE, RolE, MismaE, EnIo, ESano,
       EtiquetasPop, Entrando
  <2>4. MismasManos /\ ElResto /\ TypeOK
    BY <2>1, <2>3 DEF MismasManos, Tiene, ElResto, Afuera, Inv1
  <2>5. FilasQuietas /\ MismoReady
    BY <2>1, Filas_Iguales DEF MismoReady
  <2>6. NadieSeMueve /\ UnSitio'
    BY <2>4, <2>5, NadieSeMueve_Quieto DEF Inv7
  <2> QED BY <2>3, <2>5, <2>6 DEF Inv7, Paso
<1> QED BY <1>1, <1>2

(* The store of list_add moves nobody: E keeps the process of an IO, and   *)
(* one that asked the filesystem is on its way already.                    *)
LEMMA Lugar_Enlaza == ASSUME Inv1, Inv4, Inv7, Enlaza PROVE Inv7' /\ Paso
<1>1. /\ en["E"] = "enlaza" /\ UNCHANGED <<pcb, hilo, pc, programa, pedidosFs, desbloqueos>>
      /\ en'["E"] = IF EnCurso.op = "IO" THEN "esperaIo" ELSE "postEnvio"
      /\ \A k \in Manos \ {"E"} : en'[k] = en[k]
      /\ \A l \in Listas \ {"blocked"} : cola'[l] = cola[l]
  BY DEF Enlaza, procesoVars, fsVars, Inv1, TypeOK, Hilos, Manos
<1>2. EnCurso' = EnCurso
  BY <1>1 DEF EnCurso, Proceso
<1>3. (Tiene("E")' <=> Tiene("E")) /\ ESano'
  BY <1>1, <1>2 DEF Tiene, Mano, ManoE, RolE, ESano, EtiquetasPop
<1>4. MismasManos /\ ElResto /\ TypeOK
  BY <1>1, <1>3 DEF MismasManos, Tiene, ElResto, Afuera, Inv1
<1>5. FilasQuietas /\ MismoReady
  BY <1>1, Filas_Iguales DEF MismoReady, Listas
<1>6. NadieSeMueve /\ UnSitio'
  BY <1>4, <1>5, NadieSeMueve_Quieto DEF Inv7
<1> QED BY <1>3, <1>5, <1>6 DEF Inv7, Paso

(* pop_blocked by U, or by E after the sleep of an IO: the process is in   *)
(* its hands, whatever becomes of the list.                                *)
LEMMA Lugar_SacaBlocked ==
  ASSUME Inv1, Inv4, Inv7, NEW h \in {"E", "U"}, SacaBlocked(h) PROVE Inv7' /\ Paso
<1>1. CASE \E m : Cae(m)
  BY <1>1, Lugar_Cae
<1>2. CASE ~\E m : Cae(m)
  <2>1. /\ UNCHANGED <<pcb, hilo, pc, programa, pedidosFs, desbloqueos>>
        /\ \A l \in Listas \ {"blocked"} : cola'[l] = cola[l]
        /\ \E de \in EtiquetasPop, a \in {"indice", "quita", "pushReady"} : Va(h, de, a)
    <3>1. /\ UNCHANGED <<procesoVars, pcb, fsVars>>
          /\ \A l \in Listas \ {"blocked"} : cola'[l] = cola[l]
      BY <1>2, Pasos_Blocked DEF Inv1
    <3>2. \E de \in EtiquetasPop, a \in {"indice", "quita", "pushReady"} : Va(h, de, a)
      BY <1>2 DEF SacaBlocked, EncuentraBlocked, BuscaIndice, QuitaEnlace, QuitaNada,
         QuitaCae, CaminaSobreLiberado, EtiquetasPop
    <3> QED BY <3>1, <3>2 DEF procesoVars, fsVars
  <2>2. PICK de \in EtiquetasPop, a \in {"indice", "quita", "pushReady"} : Va(h, de, a)
    BY <2>1
  <2>3. /\ h \in Manos /\ de \in Mano(h) /\ a \in Mano(h)
        /\ de \notin Entrando /\ a \notin Entrando
    BY DEF Manos, Mano, ManoE, EtiquetasPop, Entrando
  <2>4. FilasQuietas /\ MismoReady
    BY <2>1, Filas_Iguales DEF MismoReady, Listas
  <2>5. MismaE /\ ESano' /\ EntradaMisma /\ (h # "E" => RolE' = RolE)
    <3>0. en[h] = de /\ en'[h] = a /\ (h # "E" => en'["E"] = en["E"])
      BY <2>2, <2>3 DEF Va, Inv1, TypeOK, Manos, Hilos
    <3>1. CASE h # "E"
      BY <2>1, <3>0, <3>1, Lugar_OtroHilo DEF MismosProgramas
    <3>2. CASE h = "E"
      <4>1. EnCurso' = EnCurso /\ EntradaMisma
        BY <2>1, <2>3, <3>0, <3>2, Lugar_Entrada DEF EnCurso, Proceso
      <4>2. EnCurso.op = "IO"
        BY <3>0, <3>2 DEF Inv7, ESano
      <4> QED BY <3>0, <3>2, <4>1, <4>2 DEF MismaE, EnIo, ESano, EtiquetasPop
    <3> QED BY <3>1, <3>2
  <2>6. NadieSeMueve /\ UnSitio'
    BY <2>1, <2>2, <2>3, <2>4, <2>5, Lugar_Mismo DEF Inv7
  <2> QED BY <2>4, <2>5, <2>6 DEF Inv7, Paso
<1> QED BY <1>1, <1>2

(* execute_pcb.                                                            *)
LEMMA Lugar_ExecutePcb ==
  ASSUME SinSignal, Inv1, Inv4, Inv7, ExecutePcb PROVE Inv7' /\ Paso
<1>0. "E" \in Manos /\ Mano("E") = ManoE /\ "execute" \in Listas \ {"blocked"}
  BY DEF Manos, Mano, Listas
<1>1. CASE \/ PasoEspera("E", "espera", "execute", "saca")
           \/ PasoEspera("E", "esperaIo", "io", "sacaBlocked")
           \/ PasoPostea("E", "postEnvio", "envio", "libera")
           \/ PasoPostea("E", "libera", "libre", "espera")
           \/ PasoPostea("E", "postExecute", "execute", "espera")
  BY <1>0, <1>1, Lugar_Semaforo DEF ManoE, EtiquetasPop
<1>2. CASE PasoSaca("E", "execute", "cpu")
  <2>1. CASE cola["execute"] = << >>
    BY <1>2, <2>1, Lugar_Cae DEF PasoSaca
  <2>2. CASE cola["execute"] # << >>
    <3>0. "cpu" \in Mano("E") \ Entrando
      BY <1>0 DEF ManoE, Entrando
    <3>1. /\ Mueve(Head(cola["execute"]), "execute", "E") /\ UnSitio'
          /\ Head(cola["execute"]) \in Pid /\ MismoReady
          /\ en["E"] = "saca" /\ en'["E"] = "cpu"
      BY <1>0, <1>2, <2>2, <3>0, Lugar_Saca DEF MismoReady, Listas
    <3>2. ~EnIo' /\ ESano' /\ EntradaMisma
      BY <3>1, Lugar_Entrada DEF EnIo, ESano, EtiquetasPop, Entrando
    <3> QED BY <3>1, <3>2 DEF Inv7, Paso, Mudanza
  <2> QED BY <2>1, <2>2
<1>3. CASE \/ Instrucciones \/ Ubica \/ Enlaza \/ SacaBlocked("E") \/ PasaAReady("E")
           \/ PushExecute("E")
  BY <1>3, Lugar_Instrucciones, Lugar_Ubica, Lugar_Enlaza, Lugar_SacaBlocked,
     Lugar_PasaAReady, Lugar_PushExecute
<1> QED BY <1>1, <1>2, <1>3 DEF ExecutePcb, SigueEnExecute

(* unblocked_pcb_after_fs receives a pid.                                  *)
LEMMA Lugar_RecibePid == ASSUME Inv1, Inv4, Inv7, RecibePid PROVE Inv7' /\ Paso
<1> DEFINE q == Head(desbloqueos)
<1>0. "U" \in Manos /\ Manos \subseteq Hilos /\ "envio" \in Mano("U") /\ "espera" \notin Mano("U")
      /\ "desbloqueos" \in Filas
  BY DEF Manos, Hilos, Mano, EtiquetasPop, Filas
<1>1. /\ Va("U", "espera", "envio") /\ desbloqueos # << >> /\ q \in Pid
      /\ pcb'["U"] = q /\ \A k \in Manos \ {"U"} : pcb'[k] = pcb[k]
      /\ desbloqueos' = Tail(desbloqueos)
      /\ UNCHANGED <<cola, hilo, pc, programa, pedidosFs>>
  BY <1>0 DEF RecibePid, procesoVars, Inv1, TypeOK
<1>2. en'["E"] = en["E"] /\ pcb'["E"] = pcb["E"]
  BY <1>0, <1>1 DEF Va, Inv1, TypeOK, Manos
<1>3. MismaE /\ ESano' /\ EntradaMisma /\ RolE' = RolE
  BY <1>1, <1>2, Lugar_OtroHilo DEF MismosProgramas
<1>4. OtrasManos("U") /\ ~Tiene("U") /\ Tiene("U")' /\ ElResto /\ MismoReady
  BY <1>0, <1>1, <1>3, Mano_Va DEF ElResto, Afuera, MismoReady
<1>5. /\ OtrasFilas("desbloqueos") /\ Fila("desbloqueos") = desbloqueos
      /\ Fila("desbloqueos")' = Tail(desbloqueos)
  BY <1>1 DEF OtrasFilas, Fila, Filas, Pids
<1>6. Mueve(q, "desbloqueos", "U") /\ UnSitio'
  BY <1>0, <1>1, <1>4, <1>5, Mueve_DeFila DEF Inv1, Inv7
<1> QED BY <1>1, <1>3, <1>4, <1>6 DEF Inv7, Paso, Mudanza

(* The filesystem answers the head of the line, and sends its pid on.      *)
LEMMA Lugar_FsResponde == ASSUME Inv1, Inv4, Inv7, FsResponde PROVE Inv7' /\ Paso
<1> DEFINE r == Head(pedidosFs)
<1>1. /\ pedidosFs \in Seq(Pedido) /\ pedidosFs # << >> /\ pedidosFs' = Tail(pedidosFs)
      /\ UNCHANGED <<cola, en, pcb, hilo, pc, programa>> /\ r \in Pedido
  BY DEF FsResponde, procesoVars, Inv1, TypeOK
<1>2. /\ Fila("pedidosFs") # << >> /\ Head(Fila("pedidosFs")) = r.pid
      /\ Fila("pedidosFs")' = Tail(Fila("pedidosFs"))
  <2>1. /\ Pids(pedidosFs) # << >> /\ Head(Pids(pedidosFs)) = r.pid
        /\ Pids(pedidosFs') = Tail(Pids(pedidosFs))
    BY <1>1, Pids_Tail
  <2> QED BY <2>1 DEF Fila, Pids
<1>3. MismoReady /\ "pedidosFs" \in Filas /\ "desbloqueos" \in Filas
      /\ \A l \in Filas \ {"pedidosFs", "desbloqueos"} : Fila(l)' = Fila(l)
  BY <1>1 DEF MismoReady, Filas, Fila
<1>4. CASE r.op \in {"OPEN", "CREATE_ARCHIVO"}
  <2>1. r.pid = Nadie /\ UNCHANGED desbloqueos
    BY <1>1, <1>4 DEF FsResponde, Pedido
  <2>2. Fila("desbloqueos")' = Fila("desbloqueos")
    BY <2>1 DEF Fila
  <2>3. FilasQuietas
    <3> HIDE DEF r
    <3> QED BY <1>2, <1>3, <2>1, <2>2 DEF FilasQuietas
  <2> QED BY <1>1, <1>3, <2>3, Lugar_Quieto
<1>5. CASE r.op \in {"TRUNCATE", "WRITE"}
  <2>1. r.pid \in Pid /\ desbloqueos' = Append(desbloqueos, r.pid)
    BY <1>1, <1>5 DEF FsResponde, Pedido
  <2>2. Fila("desbloqueos")' = Append(Fila("desbloqueos"), r.pid)
    BY <2>1 DEF Fila
  <2>3. MismaE /\ ESano' /\ EntradaMisma /\ RolE' = RolE
    BY <1>1, Lugar_OtroHilo DEF MismosProgramas
  <2>4. MismasManos /\ ElResto /\ TypeOK /\ UnSitio
    BY <1>1, <2>3 DEF MismasManos, Tiene, ElResto, Afuera, Inv1, Inv7
  <2> HIDE DEF r
  <2>5. Mueve(r.pid, "pedidosFs", "desbloqueos") /\ UnSitio'
    BY <1>2, <1>3, <2>1, <2>2, <2>4, Mueve_EntreFilas
  <2> QED BY <1>3, <2>1, <2>3, <2>5 DEF Inv7, Paso, Mudanza
<1> QED BY <1>4, <1>5 DEF FsResponde

(* sleepHilo, the rest of unblocked_pcb_after_fs, the death of F.          *)
LEMMA Lugar_Demas ==
  ASSUME Inv1, Inv4, Inv7, SleepHilo \/ DesbloqueoFs \/ AtenderKernel
  PROVE  Inv7' /\ Paso
<1>0. "U" \in Manos /\ Mano("U") = {"envio", "pushReady"} \union EtiquetasPop
      /\ Manos \subseteq Hilos
  BY DEF Manos, Mano, Hilos
<1>1. CASE SleepHilo \/ FsMuere
  <2>1. /\ \A k \in Manos : en'[k] = en[k]
        /\ UNCHANGED <<cola, pcb, hilo, pc, programa, pedidosFs, desbloqueos>>
    BY <1>1 DEF SleepHilo, PasoPostea, FsMuere, Va, Inv1, TypeOK, procesoVars, fsVars,
       Manos, Hilos
  <2>2. FilasQuietas /\ MismoReady
    BY <2>1, Filas_Iguales DEF MismoReady
  <2> QED BY <2>1, <2>2, Lugar_Quieto
<1>2. CASE PasoEspera("U", "envio", "envio", "sacaBlocked")
  BY <1>0, <1>2, Lugar_Semaforo DEF EtiquetasPop
<1>3. CASE FsResponde \/ RecibePid \/ SacaBlocked("U") \/ PasaAReady("U")
  BY <1>3, Lugar_FsResponde, Lugar_RecibePid, Lugar_SacaBlocked, Lugar_PasaAReady
<1>4. CASE FsCerrado
  BY <1>4, Lugar_Cae DEF FsCerrado
<1> QED BY <1>1, <1>2, <1>3, <1>4 DEF DesbloqueoFs, AtenderKernel

(* Every step moves one process at most, along one of the edges.           *)
LEMMA Lugar_Paso ==
  ASSUME Algoritmo = "FIFO", SinSignal, Inv1, Inv3, Inv4, Inv7, [Next]_vars
  PROVE  Inv7' /\ Paso
<1>1. CASE Consola \/ LargoPlazo \/ CortoPlazo
  BY <1>1, Lugar_Consola, Lugar_LargoPlazo, Lugar_CortoPlazo
<1>2. CASE ExecutePcb \/ SleepHilo \/ DesbloqueoFs \/ AtenderKernel
  BY <1>2, Lugar_ExecutePcb, Lugar_Demas
<1>3. CASE UNCHANGED vars
  <2>1. UNCHANGED <<cola, pcb, hilo, pc, programa, en, pedidosFs, desbloqueos>>
    BY <1>3 DEF vars, procesoVars, fsVars
  <2>2. FilasQuietas /\ MismoReady
    BY <2>1, Filas_Iguales DEF MismoReady
  <2> QED BY <2>1, <2>2, Lugar_Quieto
<1> QED BY <1>1, <1>2, <1>3 DEF Next

(* At first every pid is outside.                                          *)
LEMMA Lugar_Init == Init => Inv7
<1> SUFFICES ASSUME Init PROVE Inv7 OBVIOUS
<1>1. /\ \A l \in Filas : Fila(l) = << >>
      /\ \A k \in Manos : en[k] = "espera"
      /\ \A p \in Pid : Afuera(p)
  BY DEF Init, Manos, Hilos, Afuera, Fila, Filas, Listas, Pids
<1>2. \A l \in Filas : DOMAIN Fila(l) = {}
  BY <1>1
<1>3. \A p \in Pid, y \in Sitios : EnSitio(p, y) <=> y = "afuera"
  BY <1>1, <1>2, Sitios_Tipo DEF EnSitio, Pertenece, Tiene, Mano, ManoE, Sitios,
     EtiquetasPop
<1>4. UnSitio
  BY <1>2, <1>3 DEF UnSitio, SinRepetir, Sitios
<1> QED BY <1>1, <1>4 DEF Inv7, ESano, Manos, EtiquetasPop

(* The sites partition the pids in every state.                            *)
LEMMA Inv7Invariante ==
  ASSUME Algoritmo = "FIFO", SinSignal
  PROVE  Spec => [](Inv1 /\ Inv3 /\ Inv4 /\ Inv5 /\ Inv7)
<1>1. Inv1 /\ Inv3 /\ Inv4 /\ Inv7 /\ [Next]_vars => Inv7'
  BY Lugar_Paso
<1> QED BY <1>1, Lugar_Init, Inv3Invariante, Inv5Invariante, PTL DEF Spec

(* EnManos of the model is Tiene.                                          *)
LEMMA Manos_EnManos == \A h \in Manos : EnManos(h) <=> Tiene(h)
<1>1. /\ EnManos("L") <=> Tiene("L")
      /\ EnManos("C") <=> Tiene("C")
      /\ EnManos("U") <=> Tiene("U")
  BY DEF EnManos, Tiene, Mano
<1>2. EnManos("E") <=> Tiene("E")
  <2>1. ManoE = Etiquetas["E"] \ ({"espera", "saca", "enExit",
          "postExecute", "postEnvio", "libera"} \union Publicando)
    BY EtiquetasTipo DEF ManoE, Publicando, EtiquetasReady, EtiquetasPop
  <2>2. RolE = "ubica" <=> en["E"] \in {"ubica", "enlaza"} /\ EnCurso.op # "IO"
    BY DEF RolE
  <2> QED BY <2>1, <2>2 DEF EnManos, Tiene, Mano
<1> QED BY <1>1, <1>2 DEF Manos

(* A process is in one list other than BLOCKED, in the hands of one        *)
(* thread, or on its way through the filesystem, and once: no handler      *)
(* pushes a PCB that another one still has, however the unsynchronised     *)
(* walks of BLOCKED overlap.                                               *)
THEOREM LugarInvariante ==
  ASSUME Algoritmo = "FIFO", SinSignal PROVE Spec => []UnSoloLugar
<1>1. TypeOK /\ UnSitio => UnSoloLugar
  <2> SUFFICES ASSUME TypeOK, UnSitio, NEW p \in Pid PROVE Cardinality(Lugares(p)) <= 1
    BY DEF UnSoloLugar
  <2>1. \A h \in Manos : EnManos(h) <=> Tiene(h)
    BY Manos_EnManos
  <2>2. ASSUME NEW x \in Lugares(p)
        PROVE  /\ x[1] \in Sitios /\ EnSitio(p, x[1]) /\ x = <<x[1], x[2]>>
               /\ \/ /\ x[1] \in Filas /\ x[2] \in DOMAIN Fila(x[1])
                     /\ Fila(x[1])[x[2]] = p
                  \/ x[1] \in Manos /\ x[2] = 0
    <3>1. CASE \E l \in Filas : \E i \in DOMAIN Fila(l) : Fila(l)[i] = p /\ x = <<l, i>>
      BY <3>1, Sitios_Tipo DEF EnSitio, Pertenece
    <3>2. CASE \E h \in Manos : EnManos(h) /\ pcb[h] = p /\ x = <<h, 0>>
      <4>1. PICK h \in Manos : EnManos(h) /\ pcb[h] = p /\ x = <<h, 0>>
        BY <3>2
      <4>2. h \in Sitios /\ h \notin Filas
        BY Sitios_Tipo
      <4> QED BY <2>1, <4>1, <4>2 DEF EnSitio
    <3>3. CASE \E l \in Listas \ {"blocked"} : \E i \in DOMAIN cola[l] :
                 cola[l][i] = p /\ x = <<l, i>>
      <4>1. \A l \in Listas \ {"blocked"} : l \in Filas /\ Fila(l) = cola[l]
        BY DEF Listas, Filas, Fila
      <4> QED BY <3>1, <3>3, <4>1
    <3>4. CASE \E i \in DOMAIN pedidosFs : pedidosFs[i].pid = p /\ x = <<"pedidosFs", i>>
      <4>1. PICK i \in DOMAIN pedidosFs : pedidosFs[i].pid = p /\ x = <<"pedidosFs", i>>
        BY <3>4
      <4>2. /\ "pedidosFs" \in Filas /\ i \in DOMAIN Fila("pedidosFs")
            /\ Fila("pedidosFs")[i] = p
        BY <4>1 DEF Filas, Fila, Pids
      <4> QED BY <3>1, <4>1, <4>2
    <3>5. CASE \E i \in DOMAIN desbloqueos : desbloqueos[i] = p /\ x = <<"desbloqueos", i>>
      <4>1. "desbloqueos" \in Filas /\ Fila("desbloqueos") = desbloqueos
        BY DEF Filas, Fila
      <4> QED BY <3>1, <3>5, <4>1
    <3> DEFINE A == UNION {{<<l, i>> : i \in {j \in DOMAIN cola[l] : cola[l][j] = p}} :
                           l \in Listas \ {"blocked"}}
               B == {<<"pedidosFs", i>> :
                       i \in {j \in DOMAIN pedidosFs : pedidosFs[j].pid = p}}
               C == {<<"desbloqueos", i>> :
                       i \in {j \in DOMAIN desbloqueos : desbloqueos[j] = p}}
               D == {<<h, 0>> : h \in {t \in {"L", "C", "E", "U"} :
                                       EnManos(t) /\ pcb[t] = p}}
    <3>6. x \in A \/ x \in B \/ x \in C \/ x \in D
      <4>1. Lugares(p) = ((A \union B) \union C) \union D
        BY DEF Lugares
      <4> HIDE DEF A, B, C, D
      <4> QED BY <2>2, <4>1
    <3>7. /\ x \in A => \E l \in Listas \ {"blocked"} : \E i \in DOMAIN cola[l] :
                          cola[l][i] = p /\ x = <<l, i>>
          /\ x \in B => \E i \in DOMAIN pedidosFs :
                          pedidosFs[i].pid = p /\ x = <<"pedidosFs", i>>
          /\ x \in C => \E i \in DOMAIN desbloqueos :
                          desbloqueos[i] = p /\ x = <<"desbloqueos", i>>
          /\ x \in D => \E h \in Manos : EnManos(h) /\ pcb[h] = p /\ x = <<h, 0>>
      BY DEF Manos
    <3> HIDE DEF A, B, C, D
    <3> QED BY <3>2, <3>3, <3>4, <3>5, <3>6, <3>7
  <2>3. ASSUME NEW x \in Lugares(p), NEW y \in Lugares(p) PROVE x = y
    <3>1. x[1] = y[1]
      BY <2>2 DEF UnSitio
    <3>2. x[2] = y[2]
      BY <2>2, <3>1, Sitios_Tipo DEF UnSitio, SinRepetir
    <3> QED BY <2>2, <3>1, <3>2
  <2>4. CASE Lugares(p) = {}
    BY <2>4, FS_EmptySet
  <2>5. CASE Lugares(p) # {}
    <3>1. PICK x : Lugares(p) = {x}
      BY <2>3, <2>5
    <3>2. Cardinality({x}) = 1
      BY FS_Singleton
    <3> QED BY <3>1, <3>2
  <2> QED BY <2>4, <2>5
<1>2. Inv1 /\ Inv7 => UnSoloLugar
  BY <1>1 DEF Inv1, Inv7
<1> QED BY <1>2, Inv7Invariante, PTL

-----------------------------------------------------------------------------
(* The cpu is of one process: what C and E hold of it, with what is in     *)
(* EXECUTE.  Without SIGNAL no thread pushes a process twice.              *)
SinPcb == {"espera", "saca", "postExecute"}
CTiene == En("C", {"saca", "pushExecute"})
ENada  == En("E", SinPcb)
Inv9   == UnoTieneLaCpu /\ en["E"] # "pushSignal"

(* The numbers of UnoTieneLaCpu.                                           *)
LEMMA Uno_Numeros ==
  /\ UnoTieneLaCpu <=> SLibre + CTiene + LExecute = ENada
  /\ UnoTieneLaCpu' <=> SLibre' + CTiene' + LExecute' = ENada'
  BY DEF UnoTieneLaCpu, SLibre, CTiene, LExecute, ENada, SinPcb

(* They are naturals.                                                      *)
LEMMA Uno_Naturales ==
  ASSUME TypeOK
  PROVE  /\ SLibre \in Nat /\ LExecute \in Nat /\ CTiene \in {0, 1} /\ ENada \in {0, 1}
         /\ CTiene' \in {0, 1} /\ ENada' \in {0, 1}
  BY Ficha_Naturales DEF CTiene, ENada, En

(* What the move of a thread does to the two that count labels.            *)
LEMMA Uno_Mueve ==
  ASSUME TypeOK, NEW h \in Hilos, NEW de, NEW a, Va(h, de, a)
  PROVE  /\ h # "C" => CTiene' = CTiene
         /\ h # "E" => ENada' = ENada /\ en'["E"] = en["E"]
         /\ h = "C" => /\ CTiene = (IF de \in {"saca", "pushExecute"} THEN 1 ELSE 0)
                       /\ CTiene' = (IF a \in {"saca", "pushExecute"} THEN 1 ELSE 0)
         /\ h = "E" => /\ ENada = (IF de \in SinPcb THEN 1 ELSE 0)
                       /\ ENada' = (IF a \in SinPcb THEN 1 ELSE 0)
                       /\ en'["E"] = a
  BY DEF TypeOK, Hilos, Va, En, CTiene, ENada

(* A step that moves none of the numbers.                                  *)
LEMMA Uno_Quieta ==
  ASSUME Inv9, UNCHANGED <<SLibre, CTiene, LExecute, ENada>>, en'["E"] # "pushSignal"
  PROVE  Inv9'
  BY Uno_Numeros DEF Inv9

(* A thread moves, and who has the cpu does not change.                    *)
LEMMA Uno_Va ==
  ASSUME Inv1, Inv9, NEW h \in Hilos, NEW de, NEW a, Va(h, de, a),
         h = "C" => (de \in {"saca", "pushExecute"} <=> a \in {"saca", "pushExecute"}),
         h = "E" => (de \in SinPcb <=> a \in SinPcb) /\ a # "pushSignal",
         cola'["execute"] = cola["execute"], sem'["libre"] = sem["libre"]
  PROVE  Inv9'
<1>1. CTiene' = CTiene /\ ENada' = ENada /\ en'["E"] # "pushSignal"
  BY Uno_Mueve DEF Inv1, Inv9
<1> QED BY <1>1, Uno_Quieta DEF LExecute, SLibre

(* The semaphores other than execute_libre.                                *)
LEMMA Uno_Semaforo ==
  ASSUME Inv1, Inv9, NEW h \in Hilos, NEW de, NEW a, NEW s \in Semaforos \ {"libre"},
         PasoEspera(h, de, s, a) \/ PasoPostea(h, de, s, a),
         h = "C" => (de \in {"saca", "pushExecute"} <=> a \in {"saca", "pushExecute"}),
         h = "E" => (de \in SinPcb <=> a \in SinPcb) /\ a # "pushSignal"
  PROVE  Inv9'
<1>1. Va(h, de, a) /\ cola' = cola /\ sem'["libre"] = sem["libre"]
  BY DEF PasoEspera, PasoPostea, Espera, Postea, Inv1, TypeOK, Semaforos
<1> QED BY <1>1, Uno_Va

(* The death of the kernel.                                                *)
LEMMA Uno_Cae == ASSUME Inv9, NEW m, Cae(m) PROVE Inv9'
  BY Uno_Quieta DEF Cae, SLibre, LExecute, CTiene, ENada, En, Inv9

(* push_pcb_estado(e_ready, ...).                                          *)
LEMMA Uno_PasaAReady ==
  ASSUME Inv1, Inv9, NEW h \in {"L", "E", "U"}, PasaAReady(h) PROVE Inv9'
<1>1. CASE \E m : Cae(m)
  BY <1>1, Uno_Cae
<1>2. CASE ~\E m : Cae(m)
  <2>1. \E de, a : /\ Va(h, de, a) /\ de \in EtiquetasReady
                   /\ a \in EtiquetasReady \union {IF h = "E" THEN "libera" ELSE "espera"}
    BY <1>2 DEF PasaAReady, PushReady, LogReadyCuenta, LogReadyRecorre, PostReady,
       PasoPostea, EtiquetasReady
  <2>2. cola'["execute"] = cola["execute"] /\ sem'["libre"] = sem["libre"]
    BY <1>2 DEF PasaAReady, PushReady, LogReadyCuenta, LogReadyRecorre, PostReady,
       PasoPostea, Postea, Agrega, Inv1, TypeOK, Listas, Semaforos
  <2>3. h \in Hilos
    BY DEF Hilos
  <2> QED BY <2>1, <2>2, <2>3, Uno_Va DEF EtiquetasReady, SinPcb
<1> QED BY <1>1, <1>2

(* push_pcb_estado(e_execute, ...): who had the cpu gives it to the list.  *)
LEMMA Uno_SigueEnExecute ==
  ASSUME Inv1, Inv9, NEW h \in {"C", "E"}, SigueEnExecute(h) PROVE Inv9'
<1>0. TypeOK /\ h \in Hilos
  BY DEF Inv1, Hilos
<1>1. CASE PushExecute(h)
  <2>1. LExecute' = LExecute + 1 /\ SLibre' = SLibre /\ Va(h, "pushExecute", "postExecute")
    BY <1>0, <1>1, Largo_Agrega DEF PushExecute, LExecute, SLibre, Listas
  <2>2. /\ en'["E"] # "pushSignal"
        /\ \/ CTiene = 1 /\ CTiene' = 0 /\ ENada' = ENada
           \/ ENada = 0 /\ ENada' = 1 /\ CTiene' = CTiene
    BY <1>0, <2>1, Uno_Mueve DEF SinPcb, Inv9
  <2>3. SLibre + CTiene + LExecute = ENada
    BY Uno_Numeros DEF Inv9
  <2>4. SLibre \in Nat /\ LExecute \in Nat /\ CTiene \in {0, 1} /\ ENada \in {0, 1}
    BY <1>0, Uno_Naturales
  <2>5. SLibre' + CTiene' + LExecute' = ENada'
    BY <2>1, <2>2, <2>3, <2>4
  <2> QED BY <2>2, <2>5, Uno_Numeros DEF Inv9
<1>2. CASE PasoPostea(h, "postExecute", "execute", "espera")
  BY <1>0, <1>2, Uno_Semaforo DEF Semaforos, SinPcb
<1> QED BY <1>1, <1>2 DEF SigueEnExecute

(* planificador_corto_plazo.                                               *)
LEMMA Uno_CortoPlazo == ASSUME Inv1, Inv9, CortoPlazo PROVE Inv9'
<1>0. "C" \in Hilos /\ TypeOK
  BY DEF Hilos, Inv1
<1>1. CASE PasoEspera("C", "espera", "ready", "libre")
  BY <1>0, <1>1, Uno_Semaforo DEF Semaforos
<1>2. CASE PasoEspera("C", "libre", "libre", "saca")
  <2>1. SLibre' = SLibre - 1 /\ LExecute' = LExecute /\ Va("C", "libre", "saca")
    BY <1>0, <1>2 DEF PasoEspera, Espera, TypeOK, Semaforos, SLibre, LExecute
  <2>2. CTiene = 0 /\ CTiene' = 1 /\ ENada' = ENada /\ en'["E"] # "pushSignal"
    BY <1>0, <2>1, Uno_Mueve DEF Inv9
  <2>3. SLibre + CTiene + LExecute = ENada
    BY Uno_Numeros DEF Inv9
  <2>4. SLibre \in Nat /\ LExecute \in Nat /\ ENada \in {0, 1}
    BY <1>0, Uno_Naturales
  <2>5. SLibre' + CTiene' + LExecute' = ENada'
    BY <2>1, <2>2, <2>3, <2>4
  <2> QED BY <2>2, <2>5, Uno_Numeros DEF Inv9
<1>3. CASE SacaHrrn
  BY <1>0, <1>3, Uno_Va DEF SacaHrrn
<1>4. CASE PasoSaca("C", "ready", "pushExecute")
  <2>1. CASE cola["ready"] = << >>
    BY <1>4, <2>1, Uno_Cae DEF PasoSaca
  <2>2. CASE cola["ready"] # << >>
    <3>1. Va("C", "saca", "pushExecute") /\ sem' = sem /\ cola'["execute"] = cola["execute"]
      BY <1>4, <2>2 DEF PasoSaca, Saca, Inv1, TypeOK, Listas
    <3> QED BY <1>0, <3>1, Uno_Va
  <2> QED BY <2>1, <2>2
<1>5. CASE SigueEnExecute("C")
  BY <1>5, Uno_SigueEnExecute
<1> QED BY <1>1, <1>2, <1>3, <1>4, <1>5 DEF CortoPlazo, SacaReady

(* The branches of the switch of execute_pcb.                              *)
LEMMA Uno_Instrucciones ==
  ASSUME SinSignal, Inv1, Inv9, Instrucciones PROVE Inv9'
<1>0. "E" \in Hilos
  BY DEF Hilos
<1>1. CASE \E m : Cae(m)
  BY <1>1, Uno_Cae
<1>2. CASE (\E op, a : Responde(op, a) /\ a \in ManoE \ {"pushSignal"}) \/ ArchivoAbierto
  <2>1. \E a : \/ Va("E", "cpu", a) /\ a \in ManoE \ {"pushSignal"}
               \/ Va("E", "esperaFs", "pushExecute")
    BY <1>2 DEF Responde, ArchivoAbierto
  <2>2. UNCHANGED <<cola, sem>>
    BY <1>2 DEF Responde, ArchivoAbierto
  <2>3. ManoE \cap SinPcb = {} /\ {"cpu", "esperaFs", "pushExecute"} \subseteq ManoE
    BY DEF ManoE, SinPcb, EtiquetasPop
  <2>4. \E de, a : /\ Va("E", de, a) /\ de \notin SinPcb
                  /\ a \notin SinPcb /\ a # "pushSignal"
    BY <2>1, <2>3
  <2> QED BY <1>0, <2>2, <2>4, Uno_Va
<1>3. CASE EstadoEnExit
  <2>1. /\ Va("E", "estadoEnExit", "pushExit") \/ Va("E", "pushExit", "enExit")
        /\ sem' = sem /\ cola'["execute"] = cola["execute"]
    BY <1>3 DEF EstadoEnExit, Va, Agrega, Inv1, TypeOK, Listas
  <2> QED BY <1>0, <2>1, Uno_Va DEF SinPcb
<1>4. CASE SegmentoCreado
  BY <1>0, <1>1, <1>4, Uno_Semaforo DEF SegmentoCreado, Semaforos, SinPcb
<1>5. CASE EmpiezaCompactacion
  BY <1>0, <1>5, Uno_Va DEF EmpiezaCompactacion, SinPcb
<1>6. CASE PushSignal
  BY <1>6 DEF PushSignal, Va, Inv9
<1>7. CASE CreaArchivo
  BY <1>7, Uno_Quieta DEF CreaArchivo, SLibre, LExecute, CTiene, ENada, En, Inv9
<1>8. CASE \/ WaitAgotado \/ SignalSinWait \/ DeleteSegment \/ MovInvalido
           \/ PredicadoCae \/ CloseInexistente \/ NoAbierto \/ FallaCompactacion
  <2>1. "estadoEnExit" \in ManoE \ {"pushSignal"}
    BY DEF ManoE
  <2> QED BY <1>1, <1>2, <1>8, <2>1 DEF WaitAgotado, SignalSinWait, DeleteSegment,
        MovInvalido, PredicadoCae, CloseInexistente, NoAbierto, FallaCompactacion,
        RespondeYCae
<1>9. CASE CreateSegment
  BY <1>2, <1>9 DEF CreateSegment, ManoE
<1>10. CASE \/ Yield \/ Termina \/ Io \/ WaitInexistente \/ WaitConcede
            \/ Open \/ Close \/ Seek \/ PideFs
  BY <1>2, <1>10 DEF Yield, Termina, Io, WaitInexistente, WaitConcede, Open, Close,
     Seek, PideFs, ManoE
<1>11. CASE Signal
  BY <1>11, SinSignal_Responde DEF Signal
<1> QED BY <1>1, <1>2, <1>3, <1>4, <1>5, <1>6, <1>7, <1>8, <1>9, <1>10, <1>11
       DEF Instrucciones

(* The list operations on BLOCKED.                                         *)
LEMMA Uno_Blocked ==
  ASSUME Inv1, Inv9, NEW h \in {"E", "U"}, Ubica \/ Enlaza \/ SacaBlocked(h) PROVE Inv9'
<1>1. CASE \E m : Cae(m)
  BY <1>1, Uno_Cae
<1>2. CASE ~\E m : Cae(m)
  <2>1. /\ sem' = sem /\ cola'["execute"] = cola["execute"]
        /\ \/ Va("E", "ubica", "enlaza")
           \/ Va(h, "sacaBlocked", "indice") \/ Va(h, "indice", "quita")
           \/ Va(h, "indice", "pushReady") \/ Va(h, "quita", "pushReady")
           \/ /\ en["E"] = "enlaza"
              /\ \/ en' = [en EXCEPT !["E"] = "esperaIo", !["S"] = "duerme"]
                 \/ en' = [en EXCEPT !["E"] = "postEnvio"]
    BY <1>2, Pasos_Blocked DEF Inv1, Listas
  <2>2. /\ en'["C"] = en["C"] /\ en'["E"] # "pushSignal"
        /\ en'["E"] \in SinPcb <=> en["E"] \in SinPcb
    BY <2>1 DEF Va, Inv1, TypeOK, Hilos, SinPcb, Inv9
  <2>3. CTiene' = CTiene /\ ENada' = ENada
    BY <2>2 DEF CTiene, ENada, En
  <2> QED BY <2>1, <2>2, <2>3, Uno_Quieta DEF LExecute, SLibre
<1> QED BY <1>1, <1>2

(* execute_pcb has the cpu from the pop of EXECUTE to its post of          *)
(* execute_libre, or to its push.                                          *)
LEMMA Uno_ExecutePcb ==
  ASSUME SinSignal, Inv1, Inv9, ExecutePcb PROVE Inv9'
<1>0. "E" \in Hilos /\ TypeOK
  BY DEF Hilos, Inv1
<1>a. /\ SLibre + CTiene + LExecute = ENada
      /\ SLibre \in Nat /\ LExecute \in Nat /\ CTiene \in {0, 1}
  BY <1>0, Uno_Numeros, Uno_Naturales DEF Inv9
<1>1. CASE PasoEspera("E", "espera", "execute", "saca")
  BY <1>0, <1>1, Uno_Semaforo DEF Semaforos, SinPcb
<1>2. CASE PasoSaca("E", "execute", "cpu")
  <2>1. CASE cola["execute"] = << >>
    BY <1>2, <2>1, Uno_Cae DEF PasoSaca
  <2>2. CASE cola["execute"] # << >>
    <3>1. Va("E", "saca", "cpu") /\ Saca("execute") /\ sem' = sem
      BY <1>2, <2>2 DEF PasoSaca
    <3>2. LExecute' = LExecute - 1 /\ SLibre' = SLibre
      BY <1>0, <3>1, <2>2, Largo_Saca DEF Listas, SLibre, LExecute
    <3>3. CTiene' = CTiene /\ ENada = 1 /\ ENada' = 0 /\ en'["E"] # "pushSignal"
      BY <1>0, <3>1, Uno_Mueve DEF SinPcb
    <3>4. SLibre' + CTiene' + LExecute' = ENada'
      BY <1>a, <3>2, <3>3
    <3> QED BY <3>3, <3>4, Uno_Numeros DEF Inv9
  <2> QED BY <2>1, <2>2
<1>3. CASE Instrucciones \/ PasaAReady("E") \/ SigueEnExecute("E")
  BY <1>3, Uno_Instrucciones, Uno_PasaAReady, Uno_SigueEnExecute
<1>4. CASE \/ PasoEspera("E", "esperaIo", "io", "sacaBlocked")
           \/ PasoPostea("E", "postEnvio", "envio", "libera")
  BY <1>0, <1>4, Uno_Semaforo DEF Semaforos, SinPcb
<1>5. CASE PasoPostea("E", "libera", "libre", "espera")
  <2>1. SLibre' = SLibre + 1 /\ LExecute' = LExecute /\ Va("E", "libera", "espera")
    BY <1>0, <1>5 DEF PasoPostea, Postea, TypeOK, Semaforos, SLibre, LExecute
  <2>2. CTiene' = CTiene /\ ENada = 0 /\ ENada' = 1 /\ en'["E"] # "pushSignal"
    BY <1>0, <2>1, Uno_Mueve DEF SinPcb
  <2>3. SLibre' + CTiene' + LExecute' = ENada'
    BY <1>a, <2>1, <2>2
  <2> QED BY <2>2, <2>3, Uno_Numeros DEF Inv9
<1>6. CASE Ubica \/ Enlaza \/ SacaBlocked("E")
  BY <1>6, Uno_Blocked
<1> QED BY <1>1, <1>2, <1>3, <1>4, <1>5, <1>6 DEF ExecutePcb

(* The other threads.                                                      *)
LEMMA Uno_Demas ==
  ASSUME Inv1, Inv9,
         Consola \/ LargoPlazo \/ SleepHilo \/ DesbloqueoFs \/ AtenderKernel
  PROVE  Inv9'
<1>0. {"L", "U", "S", "F"} \subseteq Hilos /\ TypeOK
  BY DEF Hilos, Inv1
<1>1. CASE Consola
  <2>1. en' = en /\ cola'["execute"] = cola["execute"] /\ sem'["libre"] = sem["libre"]
    BY <1>0, <1>1 DEF Consola, NuevoProceso, PushNew, PostNuevos, Agrega, Postea, TypeOK,
       Listas, Semaforos
  <2> QED BY <2>1, Uno_Quieta DEF LExecute, SLibre, CTiene, ENada, En, Inv9
<1>2. CASE LargoPlazo
  <2>1. CASE \/ PasoEspera("L", "espera", "nuevos", "grado")
             \/ PasoEspera("L", "grado", "grado", "saca")
    BY <1>0, <2>1, Uno_Semaforo DEF Semaforos
  <2>2. CASE PasoSaca("L", "new", "pushReady")
    <3>1. CASE cola["new"] = << >>
      BY <2>2, <3>1, Uno_Cae DEF PasoSaca
    <3>2. CASE cola["new"] # << >>
      <4>1. Va("L", "saca", "pushReady") /\ sem' = sem /\ cola'["execute"] = cola["execute"]
        BY <1>0, <2>2, <3>2 DEF PasoSaca, Saca, TypeOK, Listas
      <4> QED BY <1>0, <4>1, Uno_Va
    <3> QED BY <3>1, <3>2
  <2>3. CASE PasaAReady("L")
    BY <2>3, Uno_PasaAReady
  <2> QED BY <1>2, <2>1, <2>2, <2>3 DEF LargoPlazo
<1>3. CASE SleepHilo \/ PasoEspera("U", "envio", "envio", "sacaBlocked")
  BY <1>0, <1>3, Uno_Semaforo DEF SleepHilo, Semaforos
<1>4. CASE RecibePid \/ FsMuere
  BY <1>0, <1>4, Uno_Va DEF RecibePid, FsMuere
<1>5. CASE FsResponde
  BY <1>5, Uno_Quieta DEF FsResponde, LExecute, SLibre, CTiene, ENada, En, Inv9
<1>6. CASE FsCerrado
  BY <1>6, Uno_Cae DEF FsCerrado
<1>7. CASE SacaBlocked("U")
  BY <1>7, Uno_Blocked
<1>8. CASE PasaAReady("U")
  BY <1>8, Uno_PasaAReady
<1> QED BY <1>1, <1>2, <1>3, <1>4, <1>5, <1>6, <1>7, <1>8 DEF DesbloqueoFs, AtenderKernel

(* Every step leaves the cpu with one process at most.                     *)
LEMMA Uno_Paso ==
  ASSUME SinSignal, Inv1, Inv9, [Next]_vars PROVE Inv9'
<1>1. CASE CortoPlazo \/ ExecutePcb
  BY <1>1, Uno_CortoPlazo, Uno_ExecutePcb
<1>2. CASE Consola \/ LargoPlazo \/ SleepHilo \/ DesbloqueoFs \/ AtenderKernel
  BY <1>2, Uno_Demas
<1>3. CASE UNCHANGED vars
  BY <1>3, Uno_Quieta DEF vars, LExecute, SLibre, CTiene, ENada, En, Inv9
<1> QED BY <1>1, <1>2, <1>3 DEF Next

(* At first execute_libre says that nobody has the cpu.                    *)
LEMMA Uno_Init == Init => Inv9
<1> SUFFICES ASSUME Init PROVE Inv9 OBVIOUS
<1>1. Len(cola["execute"]) = 0 /\ sem["libre"] = 1
  BY DEF Init, Listas, Semaforos
<1>2. en["C"] = "espera" /\ en["E"] = "espera"
  BY DEF Init, Hilos
<1> QED BY <1>1, <1>2 DEF Inv9, UnoTieneLaCpu, En

(* One process at a time has the cpu or is in EXECUTE, with FIFO or HRRN,  *)
(* also when CREATE_SEGMENT has posted e_execute for a list that is empty  *)
(* (planificador.c:609-621).                                               *)
THEOREM UnoInvariante == ASSUME SinSignal PROVE Spec => []UnoTieneLaCpu
<1>1. Inv1 /\ Inv9 /\ [Next]_vars => Inv9'
  BY Uno_Paso
<1>2. Inv9 => UnoTieneLaCpu
  BY DEF Inv9
<1> QED BY <1>1, <1>2, Uno_Init, Inv1Invariante, PTL DEF Spec

-----------------------------------------------------------------------------
(* The state of a process is a function of its site, and of whether E has  *)
(* yet to link it in BLOCKED.                                              *)
SitiosFs == {"pedidosFs", "desbloqueos", "U"}
EstadoEn(p, x) == IF x = "afuera" THEN "SIN_CREAR"
                  ELSE IF x \in {"new", "L"} THEN "NEW"
                  ELSE IF x = "ready" THEN "READY"
                  ELSE IF x = "exit" THEN "EXIT"
                  ELSE IF x \in SitiosFs /\ ~PorEntrar(p) THEN "BLOCKED"
                  ELSE IF x = "E" /\ EnIo THEN "BLOCKED" ELSE "EXECUTE"
EstadoSegunSitio ==
  \A p \in Pid, x \in Sitios : EnSitio(p, x) => EstadoDe(p) = EstadoEn(p, x)

(* The names of the sites.                                                 *)
LEMMA Sitios_Nombres ==
  /\ Sitios = {"new", "ready", "execute", "exit", "pedidosFs", "desbloqueos",
               "L", "C", "E", "U", "afuera"}
  /\ \A p \in Pid, h \in Manos : EnSitio(p, h) <=> Tiene(h) /\ pcb[h] = p
  /\ \A p \in Pid, l \in Filas : EnSitio(p, l) <=> Pertenece(p, Fila(l))
  /\ \A p \in Pid : EnSitio(p, "afuera") <=> Afuera(p)
  BY DEF Sitios, Filas, Manos, EnSitio

(* The guards of EstadoDe are the sites, of which one holds.               *)
LEMMA Ciclo_Estado == TypeOK /\ UnSitio => EstadoSegunSitio
<1> SUFFICES ASSUME TypeOK, UnSitio, NEW p \in Pid, NEW x \in Sitios, EnSitio(p, x)
             PROVE  EstadoDe(p) = EstadoEn(p, x)
  BY DEF EstadoSegunSitio
<1>1. \A y \in Sitios : EnSitio(p, y) <=> y = x
  BY DEF UnSitio
<1>2. /\ hilo[p] \in {"sinConexion", "creado"} <=> x = "afuera"
      /\ Pertenece(p, cola["new"]) <=> x = "new"
      /\ Pertenece(p, cola["ready"]) <=> x = "ready"
      /\ Pertenece(p, cola["exit"]) <=> x = "exit"
      /\ (\E i \in DOMAIN pedidosFs : pedidosFs[i].pid = p) <=> x = "pedidosFs"
      /\ Pertenece(p, desbloqueos) <=> x = "desbloqueos"
  <2>1. EnSitio(p, "afuera") <=> hilo[p] \in {"sinConexion", "creado"}
    BY Sitios_Nombres DEF Afuera, TypeOK
  <2>2. EnSitio(p, "pedidosFs") <=> \E i \in DOMAIN pedidosFs : pedidosFs[i].pid = p
    BY DEF EnSitio, Filas, Fila, Pids, Pertenece
  <2>3. EnSitio(p, "desbloqueos") <=> Pertenece(p, desbloqueos)
    BY DEF EnSitio, Filas, Fila
  <2>4. \A l \in {"new", "ready", "exit"} : EnSitio(p, l) <=> Pertenece(p, cola[l])
    BY DEF EnSitio, Filas, Fila
  <2>5. Filas \union {"afuera"} \subseteq Sitios
    BY DEF Sitios
  <2> QED BY <1>1, <2>1, <2>2, <2>3, <2>4, <2>5 DEF Filas
<1>3. /\ EnManos("L") /\ pcb["L"] = p <=> x = "L"
      /\ EnManos("U") /\ pcb["U"] = p <=> x = "U"
      /\ Tiene("E") /\ pcb["E"] = p <=> x = "E"
  <2>1. {"L", "U", "E"} \subseteq Sitios /\ {"L", "U", "E"} \subseteq Manos
    BY DEF Sitios, Manos
  <2> QED BY <1>1, <2>1, Sitios_Nombres, Manos_EnManos
<1>4. /\ EnIo /\ pcb["E"] = p <=> x = "E" /\ EnIo
      /\ EnIo /\ pcb["E"] = p => ~PorEntrar(p)
  <2>1. EnIo => Tiene("E") /\ en["E"] \notin {"ubica", "enlaza"}
    BY DEF EnIo, Tiene, Mano, ManoE, RolE, EtiquetasPop
  <2> QED BY <1>3, <2>1 DEF PorEntrar
<1>5. Bloqueado(p) <=> (x \in SitiosFs /\ ~PorEntrar(p)) \/ (x = "E" /\ EnIo)
  <2>1. Bloqueado(p) <=> /\ ~PorEntrar(p)
                         /\ x \in SitiosFs \/ (EnIo /\ pcb["E"] = p)
    <3>1. x \in SitiosFs <=>
            \/ \E i \in DOMAIN pedidosFs : pedidosFs[i].pid = p
            \/ Pertenece(p, desbloqueos)
            \/ EnManos("U") /\ pcb["U"] = p
      BY <1>2, <1>3 DEF SitiosFs
    <3>2. EnIo /\ pcb["E"] = p <=>
            /\ en["E"] \in {"esperaIo", "pushReady"} \union EtiquetasPop
            /\ pcb["E"] = p /\ EnCurso.op = "IO"
      BY DEF EnIo
    <3> QED BY <3>1, <3>2 DEF Bloqueado
  <2> QED BY <1>4, <2>1
<1>6. x \in SitiosFs => x \notin {"afuera", "new", "L", "ready", "exit", "E"}
  BY DEF SitiosFs
<1> QED BY <1>2, <1>3, <1>5, <1>6 DEF EstadoDe, EstadoEn

(* Process p goes from state de to state a and no other one changes.       *)
Transita(p, de, a) == /\ EstadoDe(p) = de /\ EstadoDe(p)' = a
                      /\ \A q \in Pid \ {p} : EstadoDe(q)' = EstadoDe(q)

(* A process that stays in its site keeps its state.                       *)
LEMMA Ciclo_Queda ==
  ASSUME UnSitio, EstadoSegunSitio, EstadoSegunSitio', EntradaMisma,
         NEW q \in Pid, NEW z \in Sitios, EnSitio(q, z), EnSitio(q, z)',
         z = "E" => (EnIo' <=> EnIo)
  PROVE  EstadoDe(q)' = EstadoDe(q)
<1>1. EstadoDe(q) = EstadoEn(q, z) /\ EstadoDe(q)' = EstadoEn(q, z)'
  BY DEF EstadoSegunSitio
<1>2. z # "E" => (PorEntrar(q)' <=> PorEntrar(q))
  BY Sitios_Nombres DEF UnSitio, EntradaMisma
<1>3. "E" \notin SitiosFs
  BY DEF SitiosFs
<1> QED BY <1>1, <1>2, <1>3 DEF EstadoEn

(* What a move does to the states.                                         *)
LEMMA Ciclo_Mueve ==
  ASSUME UnSitio, EstadoSegunSitio, EstadoSegunSitio', NEW p \in Pid,
         NEW x \in Sitios, NEW y \in Sitios, Mueve(p, x, y), EntradaMisma,
         x = "E" \/ y = "E" \/ MismaE
  PROVE  Transita(p, EstadoEn(p, x), EstadoEn(p, y)')
<1>1. EnSitio(p, x) /\ EnSitio(p, y)'
  BY DEF Mueve
<1>2. EstadoDe(p) = EstadoEn(p, x) /\ EstadoDe(p)' = EstadoEn(p, y)'
  BY <1>1 DEF EstadoSegunSitio
<1>3. ASSUME NEW q \in Pid \ {p} PROVE EstadoDe(q)' = EstadoDe(q)
  <2>1. PICK z \in Sitios : EnSitio(q, z)
    BY DEF UnSitio
  <2>2. EnSitio(q, z)'
    BY <2>1, <1>3 DEF Mueve
  <2>3. z = "E" => (EnIo' <=> EnIo)
    <3>0. "E" \notin Filas /\ "E" \in Manos
      BY DEF Filas, Manos
    <3>1. z = "E" => Tiene("E") /\ pcb["E"] = q /\ pcb'["E"] = q
      BY <2>1, <2>2, <3>0 DEF EnSitio
    <3>2. z = "E" => x # "E" /\ y # "E"
      BY <1>1, <1>3, <3>0, <3>1 DEF EnSitio
    <3> QED BY <3>1, <3>2 DEF MismaE
  <2> QED BY <1>3, <2>1, <2>2, <2>3, Ciclo_Queda
<1> QED BY <1>2, <1>3 DEF Transita

(* A step that moves nobody changes no state.                              *)
LEMMA Ciclo_Nadie ==
  ASSUME UnSitio, EstadoSegunSitio, EstadoSegunSitio', NadieSeMueve, MismaE,
         EntradaMisma, NEW q \in Pid
  PROVE  EstadoDe(q)' = EstadoDe(q)
<1>1. PICK z \in Sitios : EnSitio(q, z)
  BY DEF UnSitio
<1>2. EnSitio(q, z)'
  BY <1>1 DEF NadieSeMueve
<1>3. z = "E" => (EnIo' <=> EnIo)
  BY <1>1 DEF EnSitio, Filas, Manos, MismaE
<1> QED BY <1>1, <1>2, <1>3, Ciclo_Queda

(* A change of state of the life cycle.                                    *)
LEMMA Ciclo_Cambia ==
  ASSUME NEW p \in Pid, NEW de, NEW a, Transita(p, de, a) PROVE Ciclo!Cambia(p, de, a)
  BY DEF Transita, Ciclo!Cambia

(* No change of state, and READY as it was.                                *)
LEMMA Ciclo_Igual ==
  ASSUME \A q \in Pid : EstadoDe(q)' = EstadoDe(q), MismoReady
  PROVE  UNCHANGED Ciclo!vars
  BY DEF Ciclo!vars, MismoReady

(* The processes admitted and not yet ended are past NEW, so the one that  *)
(* L has in its hands finds a place.                                       *)
LEMMA Ciclo_Admite ==
  ASSUME Inv1, UnSitio, EstadoSegunSitio, GradoRespetado, NEW p \in Pid, EnSitio(p, "L")
  PROVE  Cardinality(Ciclo!Activos) < Grado
<1>0. {"L", "afuera", "new"} \subseteq Sitios /\ "L" \notin {"afuera", "new"}
  BY DEF Sitios, Manos, Filas
<1>1. \A q \in Pid : q \in Admitidos <=> ~EnSitio(q, "afuera") /\ ~EnSitio(q, "new")
  BY DEF Admitidos, EnSitio, Afuera, Filas, Fila, Manos
<1>2. p \in Admitidos
  BY <1>0, <1>1 DEF UnSitio
<1>3. EstadoDe(p) = "NEW"
  BY <1>0 DEF EstadoSegunSitio, EstadoEn
<1>4. ASSUME NEW q \in Ciclo!Activos PROVE q \in Admitidos \ {p}
  <2>1. q \in Pid /\ EstadoDe(q) \in {"READY", "EXECUTE", "BLOCKED"}
    BY DEF Ciclo!Activos, Ciclo!EnEstado
  <2>2. EstadoEn(q, "afuera") = "SIN_CREAR" /\ EstadoEn(q, "new") = "NEW"
    BY DEF EstadoEn
  <2>3. ~EnSitio(q, "afuera") /\ ~EnSitio(q, "new")
    BY <1>0, <2>1, <2>2 DEF EstadoSegunSitio
  <2> QED BY <1>1, <1>3, <2>1, <2>3
<1>5. IsFiniteSet(Admitidos) /\ Cardinality(Admitidos) \in Nat
  BY Pid_Finito DEF Admitidos
<1>6. /\ IsFiniteSet(Admitidos \ {p})
      /\ Cardinality(Admitidos \ {p}) = Cardinality(Admitidos) - 1
  BY <1>2, <1>5, FS_RemoveElement
<1>7. Ciclo!Activos \in SUBSET (Admitidos \ {p})
  BY <1>4
<1>8. Cardinality(Ciclo!Activos) <= Cardinality(Admitidos \ {p})
  BY <1>6, <1>7, FS_Subset
<1>9. IsFiniteSet(Ciclo!Activos)
  BY <1>6, <1>7, FS_Subset
<1>10. Cardinality(Ciclo!Activos) \in Nat
  BY <1>9, FS_CardinalityType
<1> QED BY <1>5, <1>6, <1>8, <1>10, ParametrosAssumption DEF GradoRespetado

(* When C takes a process off READY it has the cpu: E has none, and        *)
(* EXECUTE is empty.                                                       *)
LEMMA Ciclo_Libre ==
  ASSUME Inv1, Inv9, UnSitio, EstadoSegunSitio, en["C"] = "saca"
  PROVE  Ciclo!EnEstado("EXECUTE") = {}
<1>0. TypeOK
  BY DEF Inv1
<1>1. CTiene = 1
  BY DEF CTiene, En
<1>2. /\ SLibre + CTiene + LExecute = ENada /\ SLibre \in Nat /\ LExecute \in Nat
      /\ ENada \in {0, 1}
  BY <1>0, Uno_Numeros, Uno_Naturales DEF Inv9
<1>3. ENada = 1 /\ LExecute = 0
  BY <1>1, <1>2
<1>5. en["E"] \in SinPcb
  BY <1>3 DEF ENada, En
<1>7. cola["execute"] \in Seq(Pid)
  BY <1>0 DEF TypeOK, Listas
<1>8. DOMAIN cola["execute"] = {}
  BY <1>3, <1>7 DEF LExecute
<1>9. \A q \in Pid : /\ ~EnSitio(q, "execute") /\ ~EnSitio(q, "C")
                      /\ ~EnSitio(q, "E") /\ ~PorEntrar(q)
  <2>1. ~Tiene("E") /\ ~Tiene("C") /\ en["E"] \notin {"ubica", "enlaza"}
    BY <1>5 DEF Tiene, Mano, ManoE, SinPcb, EtiquetasPop
  <2>2. \A q \in Pid : ~Pertenece(q, Fila("execute"))
    BY <1>8 DEF Pertenece, Fila
  <2> QED BY <2>1, <2>2 DEF EnSitio, Filas, Manos, PorEntrar
<1>10. \A q \in Pid : EstadoDe(q) # "EXECUTE"
  <2> SUFFICES ASSUME NEW q \in Pid PROVE EstadoDe(q) # "EXECUTE"
    OBVIOUS
  <2>1. PICK z \in Sitios : EnSitio(q, z)
    BY DEF UnSitio
  <2>2. z \notin {"execute", "C", "E"}
    BY <1>9, <2>1
  <2>3. EstadoEn(q, z) # "EXECUTE"
    BY <1>9, <2>2, Sitios_Nombres DEF EstadoEn, SitiosFs
  <2> QED BY <2>1, <2>3 DEF EstadoSegunSitio
<1> QED BY <1>10 DEF Ciclo!EnEstado

(* A process that asked the filesystem, and that E has yet to link in      *)
(* BLOCKED, is the last of the line, or U waits for envio_bloqueo_fs.      *)
LEMMA Ciclo_EnFs ==
  ASSUME Inv1, Inv5, NEW p \in Pid, PorEntrar(p), EnCurso.op # "IO"
  PROVE  \/ EnSitio(p, "pedidosFs") \/ EnSitio(p, "desbloqueos")
         \/ EnSitio(p, "U") /\ en["U"] = "envio"
<1>1. DebeEnvio /\ QuienE = p
  BY DEF PorEntrar, DebeEnvio, RolE, QuienE
<1>2. pedidosFs \in Seq(Pedido) /\ desbloqueos \in Seq(Pid)
  BY DEF Inv1, TypeOK
<1>3. CASE pedidosFs # << >>
  <2>1. pedidosFs[Len(pedidosFs)].pid = p /\ Len(pedidosFs) \in DOMAIN pedidosFs
    BY <1>1, <1>2, <1>3 DEF Inv5, UltimoEsDeE
  <2> QED BY <2>1 DEF EnSitio, Filas, Fila, Pids, Pertenece
<1>4. CASE pedidosFs = << >> /\ desbloqueos # << >>
  <2>1. desbloqueos[Len(desbloqueos)] = p /\ Len(desbloqueos) \in DOMAIN desbloqueos
    BY <1>1, <1>2, <1>4 DEF Inv5, UltimoEsDeE
  <2> QED BY <2>1 DEF EnSitio, Filas, Fila, Pertenece
<1>5. CASE pedidosFs = << >> /\ desbloqueos = << >>
  <2>1. RolU = "envio" /\ QuienU = p
    BY <1>1, <1>5 DEF Inv5, UltimoEsDeE
  <2>2. en["U"] = "envio" /\ pcb["U"] = p
    BY <2>1 DEF RolU, QuienU
  <2> QED BY <2>2 DEF EnSitio, Filas, Manos, Tiene, Mano
<1> QED BY <1>3, <1>4, <1>5

(* E has linked in BLOCKED the process that U is going to push.            *)
LEMMA Ciclo_YaEntro ==
  ASSUME Inv1, Inv5, UnSitio, NEW p \in Pid, EnSitio(p, "U"), en["U"] = "pushReady"
  PROVE  ~PorEntrar(p)
<1> SUFFICES ASSUME PorEntrar(p) PROVE FALSE
  OBVIOUS
<1>1. ~EnSitio(p, "pedidosFs") /\ ~EnSitio(p, "desbloqueos") /\ ~EnSitio(p, "E")
  BY Sitios_Nombres DEF UnSitio
<1>2. CASE EnCurso.op # "IO"
  BY <1>1, <1>2, Ciclo_EnFs
<1>3. CASE EnCurso.op = "IO"
  BY <1>1, <1>3 DEF PorEntrar, EnSitio, Filas, Manos, Tiene, Mano, ManoE, RolE
<1> QED BY <1>2, <1>3

(* The store of list_add blocks the process of E.                          *)
LEMMA Ciclo_Enlaza ==
  ASSUME Inv1, Inv5, UnSitio, EstadoSegunSitio, EstadoSegunSitio', NadieSeMueve,
         MismoReady, Enlaza
  PROVE  Ciclo!Next
<1>1. /\ en["E"] = "enlaza" /\ UNCHANGED <<pcb, pc, programa>>
      /\ en'["E"] = IF EnCurso.op = "IO" THEN "esperaIo" ELSE "postEnvio"
  BY DEF Enlaza, procesoVars, Inv1, TypeOK, Hilos
<1>2. EnCurso' = EnCurso
  BY <1>1 DEF EnCurso, Proceso
<1>3. PICK p \in Pid : p = Proceso
  BY <1>1 DEF Inv1, PcbTomado, Proceso
<1>4. /\ PorEntrar(p) /\ ~EnIo /\ \A q \in Pid : ~PorEntrar(q)'
      /\ \A q \in Pid \ {p} : ~PorEntrar(q)
      /\ EnCurso.op = "IO" => EnIo'
  BY <1>1, <1>2, <1>3 DEF PorEntrar, Proceso, EnIo, EtiquetasPop
<1>5. EstadoDe(p) = "EXECUTE" /\ EstadoDe(p)' = "BLOCKED"
  <2>1. CASE EnCurso.op = "IO"
    <3>1. EnSitio(p, "E") /\ EnSitio(p, "E")' /\ "E" \in Sitios
      BY <1>1, <1>3, <2>1, Sitios_Nombres
         DEF EnSitio, Filas, Manos, Tiene, Mano, ManoE, RolE, Proceso, NadieSeMueve
    <3> QED BY <1>4, <2>1, <3>1 DEF EstadoSegunSitio, EstadoEn, SitiosFs
  <2>2. CASE EnCurso.op # "IO"
    <3>1. PICK z \in SitiosFs : EnSitio(p, z)
      BY <1>4, <2>2, Ciclo_EnFs DEF SitiosFs
    <3>2. z \in Sitios /\ EnSitio(p, z)'
      BY <3>1, Sitios_Nombres DEF SitiosFs, NadieSeMueve
    <3> QED BY <1>4, <3>1, <3>2 DEF EstadoSegunSitio, EstadoEn, SitiosFs
  <2> QED BY <2>1, <2>2
<1>6. ASSUME NEW q \in Pid \ {p} PROVE EstadoDe(q)' = EstadoDe(q)
  <2>1. PICK z \in Sitios : EnSitio(q, z)
    BY DEF UnSitio
  <2>2. EnSitio(q, z)' /\ z # "E"
    BY <1>3, <1>6, <2>1, Sitios_Nombres DEF NadieSeMueve, EnSitio, Filas, Manos, Proceso
  <2>3. EstadoDe(q) = EstadoEn(q, z) /\ EstadoDe(q)' = EstadoEn(q, z)'
    BY <2>1, <2>2 DEF EstadoSegunSitio
  <2> QED BY <1>4, <1>6, <2>2, <2>3 DEF EstadoEn
<1>7. Ciclo!Cambia(p, "EXECUTE", "BLOCKED")
  BY <1>5, <1>6, Ciclo_Cambia DEF Transita
<1>8. Ciclo!Bloquea(p)
  BY <1>7 DEF Ciclo!Bloquea, MismoReady
<1> QED BY <1>8 DEF Ciclo!Next

(* Every move is a change of state of the life cycle, or none.             *)
LEMMA Ciclo_Mudanza ==
  ASSUME Inv1, Inv5, Inv9, UnSitio, EstadoSegunSitio, EstadoSegunSitio', GradoRespetado,
         NEW p \in Pid, Mudanza(p)
  PROVE  Ciclo!Next \/ UNCHANGED Ciclo!vars
<1>0. /\ Sitios = {"new", "ready", "execute", "exit", "pedidosFs", "desbloqueos",
                   "L", "C", "E", "U", "afuera"}
      /\ EntradaMisma
  BY Sitios_Nombres DEF Mudanza
<1>a. ASSUME NEW x \in Sitios, NEW y \in Sitios, Mueve(p, x, y),
             x = "E" \/ y = "E" \/ MismaE, EstadoEn(p, x) = EstadoEn(p, y)', MismoReady
      PROVE  UNCHANGED Ciclo!vars
  <2>1. Transita(p, EstadoEn(p, x), EstadoEn(p, y)')
    BY <1>0, <1>a, Ciclo_Mueve
  <2>2. \A q \in Pid : EstadoDe(q)' = EstadoDe(q)
    BY <1>a, <2>1 DEF Transita
  <2> QED BY <1>a, <2>2, Ciclo_Igual
<1>b. AlReady(p) => Ciclo!AlFinal(p)
  BY DEF AlReady, Ciclo!AlFinal
<1>c. MismoReady => UNCHANGED cola["ready"]
  BY DEF MismoReady
<1>1. CASE MismoReady /\ MismaE /\ Mueve(p, "afuera", "new")
  <2>1. Transita(p, "SIN_CREAR", "NEW")
    BY <1>0, <1>1, Ciclo_Mueve DEF EstadoEn, SitiosFs
  <2>2. Ciclo!Llega(p)
    BY <1>1, <1>c, <2>1, Ciclo_Cambia DEF Ciclo!Llega
  <2> QED BY <2>2 DEF Ciclo!Next
<1>2. CASE /\ MismoReady /\ MismaE
           /\ Mueve(p, "new", "L") \/ Mueve(p, "C", "execute")
  BY <1>0, <1>2, <1>a DEF EstadoEn, SitiosFs
<1>11. CASE /\ MismoReady /\ MismaE
            /\ Mueve(p, "pedidosFs", "desbloqueos") \/ Mueve(p, "desbloqueos", "U")
  <2>1. PorEntrar(p)' <=> PorEntrar(p)
    <3>1. ~EnSitio(p, "E")
      BY <1>0, <1>11 DEF Mueve, UnSitio
    <3> QED BY <1>0, <3>1 DEF EntradaMisma
  <2> QED BY <1>0, <1>11, <1>a, <2>1 DEF EstadoEn, SitiosFs
<1>3. CASE AlReady(p) /\ MismaE /\ Mueve(p, "L", "ready")
  <2>1. Transita(p, "NEW", "READY")
    BY <1>0, <1>3, Ciclo_Mueve DEF EstadoEn, SitiosFs
  <2>2. Cardinality(Ciclo!Activos) < Grado
    BY <1>3, Ciclo_Admite DEF Mueve
  <2>3. Ciclo!Cardinality(Ciclo!Activos) = Cardinality(Ciclo!Activos)
    BY DEF Ciclo!Cardinality, Cardinality
  <2>4. Ciclo!Admite(p)
    BY <1>3, <1>b, <2>1, <2>2, <2>3, Ciclo_Cambia DEF Ciclo!Admite
  <2> QED BY <2>4 DEF Ciclo!Next
<1>4. CASE AlReady(p) /\ MismaE /\ Mueve(p, "U", "ready") /\ en["U"] = "pushReady"
  <2>0. ~PorEntrar(p)
    BY <1>4, Ciclo_YaEntro DEF Mueve
  <2>1. Transita(p, "BLOCKED", "READY")
    BY <1>0, <1>4, <2>0, Ciclo_Mueve DEF EstadoEn, SitiosFs
  <2>2. Ciclo!Desbloquea(p)
    BY <1>4, <1>b, <2>1, Ciclo_Cambia DEF Ciclo!Desbloquea
  <2> QED BY <2>2 DEF Ciclo!Next
<1>5. CASE AlReady(p) /\ Mueve(p, "E", "ready")
  <2>1. CASE EnIo
    <3>1. Transita(p, "BLOCKED", "READY")
      BY <1>0, <1>5, <2>1, Ciclo_Mueve DEF EstadoEn, SitiosFs
    <3>2. Ciclo!Desbloquea(p)
      BY <1>5, <1>b, <3>1, Ciclo_Cambia DEF Ciclo!Desbloquea
    <3> QED BY <3>2 DEF Ciclo!Next
  <2>2. CASE ~EnIo
    <3>1. Transita(p, "EXECUTE", "READY")
      BY <1>0, <1>5, <2>2, Ciclo_Mueve DEF EstadoEn, SitiosFs
    <3>2. Ciclo!Desaloja(p)
      BY <1>5, <1>b, <3>1, Ciclo_Cambia DEF Ciclo!Desaloja
    <3> QED BY <3>2 DEF Ciclo!Next
  <2> QED BY <2>1, <2>2
<1>6. CASE /\ Mueve(p, "ready", "C") /\ MismaE /\ en["C"] = "saca"
           /\ cola["ready"] # << >> /\ p = Head(cola["ready"])
           /\ cola'["ready"] = Tail(cola["ready"])
  <2>1. Transita(p, "READY", "EXECUTE")
    BY <1>0, <1>6, Ciclo_Mueve DEF EstadoEn, SitiosFs
  <2>2. Ciclo!Cambia(Head(cola["ready"]), "READY", "EXECUTE")
    BY <1>6, <2>1, Ciclo_Cambia
  <2>3. Ciclo!Despacha
    BY <1>6, <2>2, Ciclo_Libre DEF Ciclo!Despacha
  <2> QED BY <2>3 DEF Ciclo!Next
<1>7. CASE MismoReady /\ ~EnIo' /\ Mueve(p, "execute", "E")
  BY <1>0, <1>7, <1>a DEF EstadoEn, SitiosFs
<1>8. CASE MismoReady /\ ~EnIo /\ PorEntrar(p)' /\ Mueve(p, "E", "pedidosFs")
  BY <1>0, <1>8, <1>a DEF EstadoEn, SitiosFs
<1>9. CASE MismoReady /\ ~EnIo /\ Mueve(p, "E", "execute")
  BY <1>0, <1>9, <1>a DEF EstadoEn, SitiosFs
<1>10. CASE MismoReady /\ ~EnIo /\ Mueve(p, "E", "exit")
  <2>1. Transita(p, "EXECUTE", "EXIT")
    BY <1>0, <1>10, Ciclo_Mueve DEF EstadoEn, SitiosFs
  <2>2. Ciclo!Termina(p)
    BY <1>10, <1>c, <2>1, Ciclo_Cambia DEF Ciclo!Termina
  <2> QED BY <2>2 DEF Ciclo!Next
<1> QED BY <1>1, <1>2, <1>3, <1>4, <1>5, <1>6, <1>7, <1>8, <1>9, <1>10, <1>11 DEF Mudanza

(* What holds in every state, and what the refinement needs of it.         *)
Inv8 == /\ Inv1 /\ Inv3 /\ Inv4 /\ Inv5 /\ Inv7 /\ Inv9
        /\ GradoRespetado /\ EstadoSegunSitio

(* The scheduler implements the life cycle of CicloDeVida: whatever the    *)
(* threads of planificador.c do, in any interleaving, each process goes    *)
(* NEW, READY, EXECUTE, BLOCKED and EXIT along its edges, one at a time in *)
(* EXECUTE, READY first come first served, Grado admitted at most.         *)
THEOREM CicloImplementado ==
  ASSUME Algoritmo = "FIFO", SinSignal PROVE Spec => ImplementaCiclo
<1>1. Spec => []Inv8
  <2>1. Inv1 /\ Inv7 => EstadoSegunSitio
    BY Ciclo_Estado DEF Inv1, Inv7
  <2>2. Inv1 /\ Inv9 /\ [Next]_vars => Inv9'
    BY Uno_Paso
  <2>3. Inv1 /\ Inv3 /\ Inv4 /\ Inv5 /\ Inv7 /\ Inv9 /\ GradoRespetado /\ EstadoSegunSitio
        => Inv8
    BY DEF Inv8
  <2> QED BY <2>1, <2>2, <2>3, Uno_Init, Inv7Invariante, GradoInvariante, PTL DEF Spec
<1>2. Init => Ciclo!Init
  <2> SUFFICES ASSUME Init PROVE Ciclo!Init
    OBVIOUS
  <2>1. \A p \in Pid : EstadoDe(p) = "SIN_CREAR"
    <3>1. EstadoSegunSitio
      BY Ciclo_Estado, Lugar_Init, Tipo_Init DEF Inv1, Inv7
    <3>2. \A p \in Pid : EnSitio(p, "afuera")
      BY DEF Init, EnSitio, Afuera, Filas, Manos
    <3>3. "afuera" \in Sitios /\ \A p \in Pid : EstadoEn(p, "afuera") = "SIN_CREAR"
      BY DEF Sitios, EstadoEn
    <3> QED BY <3>1, <3>2, <3>3 DEF EstadoSegunSitio
  <2>2. cola["ready"] = << >>
    BY DEF Init, Listas
  <2> QED BY <2>1, <2>2 DEF Ciclo!Init
<1>3. Inv8 /\ Inv8' /\ [Next]_vars => [Ciclo!Next]_(Ciclo!vars)
  <2> SUFFICES ASSUME Inv8, Inv8', [Next]_vars PROVE Ciclo!Next \/ UNCHANGED Ciclo!vars
    OBVIOUS
  <2>1. /\ Inv1 /\ Inv3 /\ Inv4 /\ Inv5 /\ Inv7 /\ Inv9 /\ UnSitio
        /\ GradoRespetado /\ EstadoSegunSitio /\ EstadoSegunSitio'
    BY DEF Inv8, Inv7
  <2>2. Paso
    BY <2>1, Lugar_Paso
  <2>3. CASE NadieSeMueve /\ MismoReady /\ MismaE /\ EntradaMisma
    BY <2>1, <2>3, Ciclo_Nadie, Ciclo_Igual
  <2>4. CASE \E p \in Pid : Mudanza(p)
    BY <2>1, <2>4, Ciclo_Mudanza
  <2>5. CASE NadieSeMueve /\ MismoReady /\ Enlaza
    BY <2>1, <2>5, Ciclo_Enlaza
  <2> QED BY <2>2, <2>3, <2>4, <2>5 DEF Paso
<1> QED BY <1>1, <1>2, <1>3, PTL DEF Spec, ImplementaCiclo, Ciclo!Spec
=============================================================================
