----------------------------- MODULE HrrnProofs -----------------------------
(***************************************************************************)
(* Proofs about Hrrn: how long the processes that a choice leaves in READY *)
(* can have waited, for any READY and whatever is renewed meanwhile.       *)
(***************************************************************************)
EXTENDS Hrrn, TLAPS

-----------------------------------------------------------------------------
(* Integer division, as get_hrrn_proceso uses it.                          *)

(* A quotient that is not greater is of a number less than one divisor     *)
(* above.                                                                  *)
LEMMA Cociente ==
  ASSUME NEW a \in Nat, NEW b \in Nat, NEW e \in Nat \ {0}, a \div e <= b \div e
  PROVE  a < b + e
<1>. DEFINE q == a \div e
            r == b \div e
<1>1. q \in Int /\ r \in Int /\ q <= r
  OBVIOUS
<1>2. a < e * q + e /\ e * r <= b
  OBVIOUS
<1>. HIDE DEF q, r
<1>3. e * q <= e * r
  BY <1>1
<1>4. e * q \in Int /\ e * r \in Int
  BY <1>1
<1>. QED BY <1>2, <1>3, <1>4

(* A quotient grows with its dividend.                                     *)
LEMMA Crece ==
  ASSUME NEW a \in Nat, NEW b \in Nat, NEW e \in Nat \ {0}, a <= b
  PROVE  a \div e <= b \div e
<1>. DEFINE q == a \div e
            r == b \div e
<1>1. q \in Int /\ r \in Int
  OBVIOUS
<1>2. e * q <= a /\ b < e * r + e
  OBVIOUS
<1>. HIDE DEF q, r
<1>. SUFFICES ASSUME r + 1 <= q PROVE FALSE
  BY <1>1 DEF q, r
<1>3. e * (r + 1) <= e * q
  BY <1>1
<1>4. e * (r + 1) = e * r + e /\ e * q \in Int /\ e * r \in Int
  BY <1>1
<1>. QED BY <1>2, <1>3, <1>4

(* Nobody's wait is negative, and a ratio is a number.                     *)
LEMMA Tiempos ==
  ASSUME TypeOK, NEW p \in Pid PROVE Espera(p) \in Nat /\ Prioridad(p) \in Nat
<1>1. Espera(p) \in Nat
  BY HrrnAssumption DEF TypeOK, Espera
<1>2. Espera(p) \div Estimacion \in Nat
  BY <1>1, HrrnAssumption
<1>. QED BY <1>1, <1>2 DEF Prioridad

-----------------------------------------------------------------------------
(* Types, one lemma per action.                                            *)

LEMMA TypeOK_Init == ASSUME Init PROVE TypeOK
<1>1. ahora \in 0 .. MaxReloj /\ inicio \in 0 .. ahora
  BY HrrnAssumption DEF Init
<1>2. llegada \in [Pid -> 0 .. MaxReloj] /\ \A p \in Pid : llegada[p] <= ahora
  BY HrrnAssumption DEF Init
<1>3. << >> \in Seq(Pid) /\ Len(<< >>) = 0 /\ 0 <= MaxReady
  BY HrrnAssumption
<1>4. \A h \in Hilos : en[h] = "espera" /\ pcb[h] = Nadie
  BY DEF Init
<1>5. \A h \in Hilos : "espera" \in Etiquetas[h]
  BY DEF Hilos, Etiquetas
<1>6. en["C"] = "espera"
  BY <1>4 DEF Hilos
<1>. QED BY <1>1, <1>2, <1>3, <1>4, <1>5, <1>6 DEF Init, TypeOK, Eligiendo

(* A step of thread h from one of its labels to another.                   *)
LEMMA TypeOK_Va ==
  ASSUME TypeOK, NEW h \in Hilos, NEW de, NEW a \in Etiquetas[h], Va(h, de, a)
  PROVE  /\ DOMAIN en' = Hilos /\ \A t \in Hilos : en'[t] \in Etiquetas[t]
         /\ en'[h] = a /\ \A t \in Hilos \ {h} : en'[t] = en[t]
BY DEF TypeOK, Va

LEMMA TypeOK_TomaNuevo == ASSUME TypeOK, TomaNuevo PROVE TypeOK'
<1>1. PICK p \in nuevos : TomaNuevo!(p)
  BY DEF TomaNuevo
<1>2. p \in Pid
  BY DEF TypeOK
<1>. QED BY <1>1, <1>2, TypeOK_Va
         DEF TypeOK, Hilos, Etiquetas, Eligiendo, eleccionVars

LEMMA TypeOK_TomaBloqueado == ASSUME TypeOK, TomaBloqueado PROVE TypeOK'
<1>1. Head(bloqueados) \in Pid /\ Tail(bloqueados) \in Seq(Pid)
  BY DEF TypeOK, TomaBloqueado
<1>. QED BY <1>1, TypeOK_Va
         DEF TypeOK, TomaBloqueado, Hilos, Etiquetas, Eligiendo, eleccionVars

LEMMA TypeOK_PushReady ==
  ASSUME TypeOK, NEW h \in {"L", "E", "U"}, PushReady(h) PROVE TypeOK'
<1>1. pcb[h] \in Pid
  BY DEF TypeOK, PushReady, Va, Hilos
<1>2. ready' \in Seq(Pid) /\ Len(ready') <= MaxReady
  BY <1>1, HrrnAssumption DEF TypeOK, PushReady
<1>. QED BY <1>2, TypeOK_Va
         DEF TypeOK, PushReady, Hilos, Etiquetas, Eligiendo, eleccionVars

LEMMA TypeOK_CreaTemporal ==
  ASSUME TypeOK, NEW h \in {"L", "E", "U"}, CreaTemporal(h) PROVE TypeOK'
<1>1. /\ llegada' \in [Pid -> 0 .. MaxReloj]
      /\ \A q \in Pid : llegada'[q] <= ahora
  <2>1. ahora \in 0 .. MaxReloj /\ ahora <= ahora
    BY HrrnAssumption DEF TypeOK
  <2>2. llegada' = [llegada EXCEPT ![pcb[h]] = ahora]
    BY DEF CreaTemporal
  <2>. QED BY <2>1, <2>2 DEF TypeOK
<1>2. pisada' \in BOOLEAN
  BY DEF TypeOK, CreaTemporal
<1>. QED BY <1>1, <1>2, TypeOK_Va
         DEF TypeOK, CreaTemporal, Hilos, Etiquetas, Eligiendo

LEMMA TypeOK_PostReady ==
  ASSUME TypeOK, NEW h \in {"L", "E", "U"}, PostReady(h) PROVE TypeOK'
<1>1. semReady' \in Nat
  BY DEF TypeOK, PostReady
<1>. QED BY <1>1, TypeOK_Va
         DEF TypeOK, PostReady, Hilos, Etiquetas, Eligiendo, eleccionVars

LEMMA TypeOK_VuelveAReady == ASSUME TypeOK, VuelveAReady PROVE TypeOK'
<1>1. pcb["E"] \in Pid
  BY DEF TypeOK, VuelveAReady, Va, Hilos
<1>. QED BY <1>1, TypeOK_Va
         DEF TypeOK, VuelveAReady, Hilos, Etiquetas, Eligiendo, eleccionVars

LEMMA TypeOK_Bloquea == ASSUME TypeOK, Bloquea PROVE TypeOK'
<1>1. pcb["E"] \in Pid
  BY DEF TypeOK, Bloquea, Va, Hilos
<1>2. bloqueados' \in Seq(Pid)
  BY <1>1 DEF TypeOK, Bloquea
<1>. QED BY <1>2, TypeOK_Va
         DEF TypeOK, Bloquea, Hilos, Etiquetas, Eligiendo, eleccionVars

LEMMA TypeOK_NextUnico == ASSUME TypeOK, NextUnico PROVE TypeOK'
<1>1. ready[1] \in Pid
  <2>1. ready \in Seq(Pid) /\ Len(ready) = 1
    BY DEF TypeOK, NextUnico
  <2>. QED BY <2>1
<1>2. << >> \in Seq(Pid) /\ Len(<< >>) <= MaxReady
  BY HrrnAssumption
<1>3. semReady' \in Nat
  <2>1. semReady \in Nat /\ semReady > 0 /\ semReady' = semReady - 1
    BY DEF TypeOK, NextUnico
  <2>. QED BY <2>1
<1>. QED BY <1>1, <1>2, <1>3, TypeOK_Va
         DEF TypeOK, NextUnico, Hilos, Etiquetas, Eligiendo, eleccionVars

LEMMA TypeOK_NextHrrn == ASSUME TypeOK, NextHrrn PROVE TypeOK'
<1>1. ready[1] \in Pid /\ 2 \in 2 .. Len(ready)
  BY DEF TypeOK, NextHrrn
<1>2. semReady' \in Nat
  <2>1. semReady \in Nat /\ semReady > 0 /\ semReady' = semReady - 1
    BY DEF TypeOK, NextHrrn
  <2>. QED BY <2>1
<1>3. ahora \in 0 .. ahora
  BY HrrnAssumption DEF TypeOK
<1>. QED BY <1>1, <1>2, <1>3, TypeOK_Va
         DEF TypeOK, NextHrrn, Hilos, Etiquetas, Eligiendo

LEMMA TypeOK_Gana ==
  ASSUME TypeOK, Eligiendo, NEW p \in {pcb["C"], Otro}, Gana(p),
         UNCHANGED <<ahora, llegada, ready, semReady, nuevos, bloqueados,
                     inicio, pisada>>
  PROVE  TypeOK'
<1>1. p \in Pid /\ i \in 2 .. Len(ready)
  BY DEF TypeOK, Eligiendo, Otro, Hilos
<1>2. i' \in 2 .. Len(ready)
  BY <1>1 DEF Gana
<1>3. /\ DOMAIN en' = Hilos /\ en'["C"] \in {"razon1", "elegido"}
      /\ \A h \in Hilos \ {"C"} : en'[h] = en[h]
  BY DEF TypeOK, Gana, Hilos
<1>4. /\ pcb' \in [Hilos -> Pid \union {Nadie}] /\ pcb'["C"] = p
      /\ \A h \in Hilos \ {"C"} : pcb'[h] = pcb[h]
  BY <1>1 DEF TypeOK, Gana, Hilos
<1>5. \A h \in Hilos : /\ en'[h] \in Etiquetas[h]
                       /\ en'[h] # "espera" => pcb'[h] \in Pid
  <2>. SUFFICES ASSUME NEW h \in Hilos
                PROVE  /\ en'[h] \in Etiquetas[h]
                       /\ en'[h] # "espera" => pcb'[h] \in Pid
    OBVIOUS
  <2>1. CASE h = "C"
    BY <1>1, <1>3, <1>4, <2>1 DEF Etiquetas
  <2>2. CASE h # "C"
    BY <1>3, <1>4, <2>2 DEF TypeOK
  <2>. QED BY <2>1, <2>2
<1>6. leido' = 0
  BY DEF Gana
<1>7. i' \in Nat
  BY <1>1, <1>2, HrrnAssumption DEF TypeOK
<1>8. /\ ahora' \in 0 .. MaxReloj /\ inicio' \in 0 .. ahora'
      /\ llegada' \in [Pid -> 0 .. MaxReloj]
      /\ \A q \in Pid : llegada'[q] <= ahora'
      /\ ready' \in Seq(Pid) /\ Len(ready') <= MaxReady /\ semReady' \in Nat
      /\ nuevos' \subseteq Pid /\ bloqueados' \in Seq(Pid) /\ pisada' \in BOOLEAN
  BY DEF TypeOK
<1>9. (Eligiendo => i \in 2 .. Len(ready))'
  BY <1>2
<1>. QED BY <1>3, <1>4, <1>5, <1>6, <1>7, <1>8, <1>9 DEF TypeOK

LEMMA TypeOK_MayorHrrn == ASSUME TypeOK, MayorHrrn PROVE TypeOK'
<1>1. CASE LeePrimero("razon1", "razon2", Prioridad(pcb["C"]))
  <2>1. pcb["C"] \in Pid
    BY <1>1 DEF TypeOK, LeePrimero, Va, Hilos
  <2>2. leido' \in Nat
    BY <1>1, <2>1, Tiempos DEF LeePrimero
  <2>. QED BY <1>1, <2>1, <2>2, TypeOK_Va
           DEF TypeOK, LeePrimero, Hilos, Etiquetas, Eligiendo, Va
<1>2. CASE LeePrimero("espera1", "espera2", Espera(pcb["C"]))
  <2>1. pcb["C"] \in Pid
    BY <1>2 DEF TypeOK, LeePrimero, Va, Hilos
  <2>2. leido' \in Nat
    BY <1>2, <2>1, Tiempos DEF LeePrimero
  <2>. QED BY <1>2, <2>1, <2>2, TypeOK_Va
           DEF TypeOK, LeePrimero, Hilos, Etiquetas, Eligiendo, Va
<1>3. CASE ComparaRazon
  <2>1. Eligiendo
    BY <1>3 DEF ComparaRazon, Eligiendo
  <2>2. CASE Gana(pcb["C"]) \/ Gana(Otro)
    BY <1>3, <2>1, <2>2, TypeOK_Gana DEF ComparaRazon
  <2>3. CASE Va("C", "razon2", "espera1") /\ UNCHANGED <<pcb, i, leido>>
    BY <1>3, <2>1, <2>3, TypeOK_Va
       DEF TypeOK, ComparaRazon, Hilos, Etiquetas, Eligiendo
  <2>. QED BY <1>3, <2>2, <2>3 DEF ComparaRazon
<1>4. CASE ComparaEspera
  BY <1>4, TypeOK_Gana DEF ComparaEspera, Eligiendo
<1>. QED BY <1>1, <1>2, <1>3, <1>4 DEF MayorHrrn

LEMMA TypeOK_Despacha == ASSUME TypeOK, Despacha PROVE TypeOK'
<1>1. pcb["C"] \in Pid
  BY DEF TypeOK, Despacha, Hilos
<1>2. 0 \in 0 .. ahora
  BY HrrnAssumption DEF TypeOK
<1>3. /\ DOMAIN en' = Hilos /\ en'["C"] = "espera" /\ en'["E"] = "ejecuta"
      /\ \A h \in Hilos \ {"C", "E"} : en'[h] = en[h]
  BY DEF TypeOK, Despacha, Hilos
<1>4. /\ pcb' \in [Hilos -> Pid \union {Nadie}] /\ pcb'["E"] \in Pid
      /\ \A h \in Hilos \ {"C", "E"} : pcb'[h] = pcb[h]
  BY <1>1 DEF TypeOK, Despacha, Hilos
<1>5. \A h \in Hilos : /\ en'[h] \in Etiquetas[h]
                       /\ en'[h] # "espera" => pcb'[h] \in Pid
  BY <1>3, <1>4 DEF TypeOK, Hilos, Etiquetas
<1>. QED BY <1>2, <1>3, <1>4, <1>5 DEF TypeOK, Despacha, Eligiendo

LEMMA TypeOK_PasaTiempo == ASSUME TypeOK, PasaTiempo PROVE TypeOK'
<1>1. /\ ahora' \in 0 .. MaxReloj /\ inicio \in 0 .. ahora'
      /\ \A p \in Pid : llegada[p] <= ahora'
  BY HrrnAssumption DEF TypeOK, PasaTiempo
<1>. QED BY <1>1 DEF TypeOK, PasaTiempo, Eligiendo, eleccionVars

LEMMA TypeOK_Next == ASSUME TypeOK, [Next]_vars PROVE TypeOK'
<1>1. CASE UNCHANGED vars
  BY <1>1 DEF TypeOK, vars, Eligiendo, eleccionVars
<1>. QED BY <1>1, TypeOK_TomaNuevo, TypeOK_TomaBloqueado, TypeOK_PushReady,
            TypeOK_CreaTemporal, TypeOK_PostReady, TypeOK_VuelveAReady,
            TypeOK_Bloquea, TypeOK_NextUnico, TypeOK_NextHrrn,
            TypeOK_MayorHrrn, TypeOK_Despacha, TypeOK_PasaTiempo DEF Next

-----------------------------------------------------------------------------
(* The choice, comparison by comparison.                                   *)

(* When the choice began the ratio of p was no more than n, unless p has   *)
(* been renewed since, and then it has hardly waited.                      *)
NoMasQue(p, n) ==
  llegada[p] < inicio => 1 + (inicio - llegada[p]) \div Estimacion <= n

(* The elements that the leader has been compared with, or that tie.       *)
Vistos == {ready[j] : j \in 1 .. (IF en["C"] \in {"espera1", "espera2", "elegido"}
                                  THEN i ELSE i - 1)}

(* Nobody seen so far had, when the choice began, a better ratio than the  *)
(* leader has now, nor than what C has read of it or of the other.         *)
LiderBien ==
  Eligiendo /\ ~pisada =>
    \A p \in Vistos :
      /\ NoMasQue(p, Prioridad(pcb["C"]))
      /\ en["C"] = "razon2" =>
           leido <= Prioridad(pcb["C"]) /\ NoMasQue(p, leido)
      /\ en["C"] \in {"espera1", "espera2"} => NoMasQue(p, Prioridad(Otro))

TodosVistos == en["C"] = "elegido" => i = Len(ready)

IInv == TypeOK /\ LiderBien /\ TodosVistos

LEMMA Procesos ==
  ASSUME TypeOK, Eligiendo
  PROVE  /\ pcb["C"] \in Pid /\ Otro \in Pid /\ Vistos \subseteq Pid
         /\ Medidos \subseteq Pid /\ i \in 2 .. Len(ready)
BY DEF TypeOK, Eligiendo, Otro, Vistos, Medidos, Hilos

(* A number no less is still no less than p's ratio.                       *)
LEMMA NoMasQueCrece ==
  ASSUME TypeOK, NEW p \in Pid, NEW m \in Nat, NEW n \in Nat, m <= n,
         NoMasQue(p, m)
  PROVE  NoMasQue(p, n)
<1>1. llegada[p] < inicio => (inicio - llegada[p]) \in Nat
  BY DEF TypeOK
<1>2. llegada[p] < inicio => (inicio - llegada[p]) \div Estimacion \in Nat
  BY <1>1, HrrnAssumption
<1>. QED BY <1>2 DEF NoMasQue

(* A process whose ratio C reads now had no more than that at the start.   *)
LEMMA NoMasQueAhora ==
  ASSUME TypeOK, NEW p \in Pid PROVE NoMasQue(p, Prioridad(p))
<1>. SUFFICES ASSUME llegada[p] < inicio
              PROVE  1 + (inicio - llegada[p]) \div Estimacion <= Prioridad(p)
  BY DEF NoMasQue
<1>. DEFINE a == inicio - llegada[p]
            b == ahora - llegada[p]
<1>1. a \in Nat /\ b \in Nat /\ a <= b
  BY HrrnAssumption DEF TypeOK
<1>. HIDE DEF a, b
<1>2. a \div Estimacion <= b \div Estimacion
  BY <1>1, Crece, HrrnAssumption
<1>3. a \div Estimacion \in Nat /\ b \div Estimacion \in Nat
  BY <1>1, HrrnAssumption
<1>. QED BY <1>2, <1>3 DEF a, b, Prioridad, Espera

(* Steps of the others: READY stays, nobody's ratio sinks but that of the  *)
(* renewed, who is not one of those C goes by or the choice is pisada.     *)
LEMMA LiderBien_Otros ==
  ASSUME IInv, TypeOK',
         UNCHANGED <<ready, i, leido, inicio>>,
         en'["C"] = en["C"], pcb'["C"] = pcb["C"],
         \A p \in Pid : llegada'[p] = llegada[p] \/ inicio <= llegada'[p],
         ~pisada' => ~pisada /\ \A p \in Medidos : llegada'[p] = llegada[p],
         ahora <= ahora'
  PROVE  LiderBien' /\ TodosVistos'
<1>1. TodosVistos'
  BY DEF IInv, TodosVistos
<1>2. LiderBien'
  <2>. SUFFICES ASSUME Eligiendo', ~pisada', NEW p \in Vistos'
                PROVE  /\ NoMasQue(p, Prioridad(pcb["C"]))'
                       /\ en'["C"] = "razon2" =>
                            /\ leido' <= Prioridad(pcb["C"])'
                            /\ NoMasQue(p, leido)'
                       /\ en'["C"] \in {"espera1", "espera2"} =>
                            NoMasQue(p, Prioridad(Otro))'
    BY DEF LiderBien
  <2>1. Eligiendo /\ ~pisada /\ Vistos' = Vistos /\ Otro' = Otro
    BY DEF Eligiendo, Vistos, Otro
  <2>2. p \in Vistos /\ p \in Pid /\ pcb["C"] \in Pid /\ Otro \in Pid
    BY <2>1, Procesos DEF IInv
  <2>3. ASSUME NEW q \in Medidos
        PROVE  /\ Prioridad(q) \in Nat /\ Prioridad(q)' \in Nat
               /\ Prioridad(q) <= Prioridad(q)'
    <3>1. q \in Pid /\ llegada'[q] = llegada[q]
      <4>1. TypeOK
        BY DEF IInv
      <4>2. Medidos \subseteq Pid
        BY <2>1, <4>1, Procesos
      <4>3. ~pisada'
        OBVIOUS
      <4>. QED BY <4>2, <4>3
    <3>. DEFINE a == ahora - llegada[q]
                b == ahora' - llegada[q]
    <3>2. a \in Nat /\ b \in Nat /\ a <= b
      <4>1. llegada[q] \in 0 .. MaxReloj /\ llegada[q] <= ahora
        BY <3>1 DEF IInv, TypeOK
      <4>2. ahora \in 0 .. MaxReloj /\ ahora' \in 0 .. MaxReloj /\ ahora <= ahora'
        BY DEF IInv, TypeOK
      <4>. QED BY <4>1, <4>2, HrrnAssumption
    <3>. HIDE DEF a, b
    <3>3. a \div Estimacion <= b \div Estimacion
      BY <3>2, Crece, HrrnAssumption
    <3>4. a \div Estimacion \in Nat /\ b \div Estimacion \in Nat
      BY <3>2, HrrnAssumption
    <3>. QED BY <3>1, <3>3, <3>4 DEF a, b, Prioridad, Espera
  <2>4. ASSUME NEW m \in Nat, NEW n \in Nat, m <= n, NoMasQue(p, m)
        PROVE  llegada'[p] < inicio =>
                 1 + (inicio - llegada'[p]) \div Estimacion <= n
    <3>1. NoMasQue(p, n)
      BY <2>2, <2>4, NoMasQueCrece DEF IInv
    <3>2. llegada'[p] < inicio => llegada'[p] = llegada[p]
      BY <2>2 DEF IInv, TypeOK
    <3>. QED BY <3>1, <3>2 DEF NoMasQue
  <2>5. pcb["C"] \in Medidos
        /\ (en["C"] \in {"espera1", "espera2"} => Otro \in Medidos)
    BY <2>1 DEF Medidos
  <2>6. NoMasQue(p, Prioridad(pcb["C"]))'
    <3>1. NoMasQue(p, Prioridad(pcb["C"]))
      BY <2>1, <2>2 DEF IInv, LiderBien
    <3>2. Prioridad(pcb["C"])' = (Prioridad(pcb["C"]))'
      OBVIOUS
    <3>. DEFINE m == Prioridad(pcb["C"])
                n == Prioridad(pcb["C"])'
    <3>3. m \in Nat /\ n \in Nat /\ m <= n
      BY <2>3, <2>5 DEF Prioridad, Espera
    <3>. HIDE DEF m, n
    <3>4. llegada'[p] < inicio =>
            1 + (inicio - llegada'[p]) \div Estimacion <= n
      BY <2>4, <3>1, <3>3 DEF m
    <3>. QED BY <3>4 DEF NoMasQue, n
  <2>7. ASSUME en'["C"] = "razon2"
        PROVE  leido' <= Prioridad(pcb["C"])' /\ NoMasQue(p, leido)'
    <3>1. leido <= Prioridad(pcb["C"]) /\ NoMasQue(p, leido) /\ leido \in Nat
      BY <2>1, <2>2, <2>7 DEF IInv, LiderBien, TypeOK
    <3>2. Prioridad(pcb["C"]) <= Prioridad(pcb["C"])'
          /\ Prioridad(pcb["C"]) \in Nat /\ Prioridad(pcb["C"])' \in Nat
      BY <2>3, <2>5 DEF Prioridad, Espera
    <3>3. leido <= leido
      BY <3>1
    <3>4. llegada'[p] < inicio =>
            1 + (inicio - llegada'[p]) \div Estimacion <= leido
      BY <2>4, <3>1, <3>3
    <3>. HIDE DEF Prioridad
    <3>. QED BY <3>1, <3>2, <3>4 DEF NoMasQue
  <2>8. ASSUME en'["C"] \in {"espera1", "espera2"}
        PROVE  NoMasQue(p, Prioridad(Otro))'
    <3>1. NoMasQue(p, Prioridad(Otro))
      BY <2>1, <2>2, <2>8 DEF IInv, LiderBien
    <3>. DEFINE m == Prioridad(Otro)
                n == Prioridad(Otro)'
    <3>2. m \in Nat /\ n \in Nat /\ m <= n
      BY <2>1, <2>3, <2>5, <2>8 DEF Prioridad, Espera
    <3>. HIDE DEF m, n
    <3>3. llegada'[p] < inicio =>
            1 + (inicio - llegada'[p]) \div Estimacion <= n
      BY <2>4, <3>1, <3>2 DEF m
    <3>. QED BY <3>3 DEF NoMasQue, n
  <2>. QED BY <2>6, <2>7, <2>8
<1>. QED BY <1>1, <1>2

(* A choice that begins has seen its leader.                               *)
LEMMA LiderBien_NextHrrn ==
  ASSUME IInv, NextHrrn, TypeOK' PROVE LiderBien' /\ TodosVistos'
<1>1. en'["C"] = "razon1"
  BY DEF NextHrrn, Va, IInv, TypeOK, Hilos
<1>2. Vistos' = {ready[1]} /\ pcb'["C"] = ready[1] /\ ready' = ready
  <2>1. i' - 1 = 1 /\ 1 .. 1 = {1} /\ ready' = ready /\ pcb'["C"] = ready[1]
    BY DEF NextHrrn, IInv, TypeOK, Hilos
  <2>. QED BY <1>1, <2>1 DEF Vistos
<1>3. pcb'["C"] \in Pid
  BY <1>1 DEF TypeOK, Hilos
<1>4. \A p \in Vistos' : NoMasQue(p, Prioridad(pcb["C"]))'
  <2>. DEFINE x == 1 + (ahora - llegada[ready[1]]) \div Estimacion
  <2>1. inicio' = ahora /\ ahora' = ahora /\ llegada' = llegada
    BY DEF NextHrrn
  <2>2. ready[1] \in Pid
    BY <1>2, <1>3
  <2>3. x = Prioridad(ready[1]) /\ x \in Nat
    BY <2>2, Tiempos DEF Prioridad, Espera, IInv
  <2>4. Prioridad(pcb["C"])' = x
    BY <1>2, <2>1 DEF Prioridad, Espera
  <2>5. x <= x
    BY <2>3
  <2>6. llegada'[ready[1]] < inicio' =>
          1 + (inicio' - llegada'[ready[1]]) \div Estimacion <= x
    BY <2>1, <2>5
  <2>. HIDE DEF x
  <2>. QED BY <1>2, <2>4, <2>6 DEF NoMasQue
<1>. QED BY <1>1, <1>4 DEF LiderBien, TodosVistos

(* The end of a comparison: who wins has a ratio that nobody seen, the     *)
(* loser included, had when the choice began.                              *)
LEMMA LiderBien_Gana ==
  ASSUME IInv, Eligiendo, en["C"] # "elegido", NEW w \in {pcb["C"], Otro},
         Gana(w), TypeOK',
         UNCHANGED <<ahora, llegada, ready, inicio, pisada>>,
         ~pisada => \A j \in 1 .. i : NoMasQue(ready[j], Prioridad(w))
  PROVE  LiderBien' /\ TodosVistos'
<1>1. en'["C"] \in {"razon1", "elegido"} /\ pcb'["C"] = w
  BY DEF Gana, IInv, TypeOK, Hilos
<1>2. i \in 2 .. Len(ready)
  BY Procesos DEF IInv
<1>3. Vistos' = {ready[j] : j \in 1 .. i}
  <2>1. CASE i < Len(ready)
    <3>1. en'["C"] = "razon1" /\ i' - 1 = i /\ ready' = ready
      BY <1>2, <2>1 DEF Gana, IInv, TypeOK, Hilos
    <3>. QED BY <3>1 DEF Vistos
  <2>2. CASE ~(i < Len(ready))
    <3>1. en'["C"] = "elegido" /\ i' = i /\ ready' = ready
      BY <1>2, <2>2 DEF Gana, IInv, TypeOK, Hilos
    <3>. QED BY <3>1 DEF Vistos
  <2>. QED BY <2>1, <2>2
<1>4. ASSUME ~pisada', NEW p \in Vistos' PROVE NoMasQue(p, Prioridad(pcb["C"]))'
  <2>1. NoMasQue(p, Prioridad(w))
    BY <1>3, <1>4
  <2>. QED BY <1>1, <2>1 DEF NoMasQue, Prioridad, Espera
<1>5. TodosVistos'
  BY <1>2 DEF TodosVistos, Gana, IInv, TypeOK, Hilos
<1>. QED BY <1>1, <1>4, <1>5 DEF LiderBien

LEMMA LiderBien_MayorHrrn ==
  ASSUME IInv, MayorHrrn, TypeOK' PROVE LiderBien' /\ TodosVistos'
<1>. Eligiendo
  BY DEF MayorHrrn, LeePrimero, ComparaRazon, ComparaEspera, Va, Eligiendo
<1>1. /\ pcb["C"] \in Pid /\ Otro \in Pid /\ Vistos \subseteq Pid
      /\ i \in 2 .. Len(ready)
  BY Procesos DEF IInv
<1>2. Prioridad(pcb["C"]) \in Nat /\ Prioridad(Otro) \in Nat /\ leido \in Nat
  BY <1>1, Tiempos DEF IInv, TypeOK
<1>3. CASE LeePrimero("razon1", "razon2", Prioridad(pcb["C"]))
  <2>1. en["C"] = "razon1" /\ en'["C"] = "razon2" /\ Vistos' = Vistos
    BY <1>3 DEF LeePrimero, Va, IInv, TypeOK, Hilos, Vistos
  <2>2. leido' = Prioridad(pcb["C"])
        /\ UNCHANGED <<ahora, llegada, inicio, pisada, pcb>>
    BY <1>3 DEF LeePrimero
  <2>3. ASSUME ~pisada', NEW p \in Vistos
        PROVE  /\ NoMasQue(p, Prioridad(pcb["C"]))' /\ NoMasQue(p, leido)'
               /\ leido' <= Prioridad(pcb["C"])'
    <3>1. NoMasQue(p, Prioridad(pcb["C"]))
      BY <2>2, <2>3 DEF IInv, LiderBien
    <3>2. Prioridad(pcb["C"])' = Prioridad(pcb["C"])
      BY <2>2 DEF Prioridad, Espera
    <3>3. Prioridad(pcb["C"]) <= Prioridad(pcb["C"])
      BY <1>2
    <3>. HIDE DEF Prioridad
    <3>. QED BY <2>2, <3>1, <3>2, <3>3 DEF NoMasQue
  <2>. QED BY <2>1, <2>3 DEF LiderBien, TodosVistos
<1>4. CASE LeePrimero("espera1", "espera2", Espera(pcb["C"]))
  <2>1. /\ en["C"] = "espera1" /\ en'["C"] = "espera2" /\ Vistos' = Vistos
        /\ Otro' = Otro
    BY <1>4 DEF LeePrimero, Va, IInv, TypeOK, Hilos, Vistos, Otro
  <2>2. UNCHANGED <<ahora, llegada, inicio, pisada, pcb>>
    BY <1>4 DEF LeePrimero
  <2>3. ASSUME ~pisada', NEW p \in Vistos
        PROVE  /\ NoMasQue(p, Prioridad(pcb["C"]))'
               /\ NoMasQue(p, Prioridad(Otro))'
    <3>1. NoMasQue(p, Prioridad(pcb["C"])) /\ NoMasQue(p, Prioridad(Otro))
      BY <2>1, <2>2, <2>3 DEF IInv, LiderBien
    <3>. QED BY <2>1, <2>2, <3>1 DEF NoMasQue, Prioridad, Espera
  <2>. QED BY <2>1, <2>3 DEF LiderBien, TodosVistos
<1>5. CASE ComparaRazon
  <2>0. en["C"] = "razon2"
        /\ UNCHANGED <<ahora, llegada, ready, inicio, pisada>>
    BY <1>5 DEF ComparaRazon
  <2>1. ASSUME ~pisada, NEW j \in 1 .. i, NEW w \in {pcb["C"], Otro},
               leido <= Prioridad(w), Prioridad(Otro) <= Prioridad(w)
        PROVE  NoMasQue(ready[j], Prioridad(w))
    <3>1. Prioridad(w) \in Nat
      BY <1>2
    <3>2. CASE j = i
      <4>1. ready[j] = Otro
        BY <3>2 DEF Otro
      <4>. QED BY <1>1, <1>2, <2>1, <3>1, <4>1, NoMasQueAhora, NoMasQueCrece
               DEF IInv
    <3>3. CASE j # i
      <4>1. j \in 1 .. i - 1
        BY <1>1, <3>3
      <4>2. ready[j] \in Vistos
        BY <2>0, <4>1 DEF Vistos
      <4>3. NoMasQue(ready[j], leido)
        BY <2>0, <2>1, <4>2 DEF IInv, LiderBien
      <4>. QED BY <1>1, <1>2, <2>1, <3>1, <4>2, <4>3, NoMasQueCrece DEF IInv
    <3>. QED BY <3>2, <3>3
  <2>2. ~pisada => leido <= Prioridad(pcb["C"])
    <3>1. 1 \in 1 .. i - 1
      BY <1>1
    <3>2. ready[1] \in Vistos
      BY <2>0, <3>1 DEF Vistos
    <3>. QED BY <2>0, <3>2 DEF IInv, LiderBien
  <2>3. CASE leido > Prioridad(Otro) /\ Gana(pcb["C"])
    <3>1. ~pisada => Prioridad(Otro) <= Prioridad(pcb["C"])
      <4>. HIDE DEF Prioridad
      <4>. QED BY <1>2, <2>2, <2>3
    <3>2. ~pisada => \A j \in 1 .. i : NoMasQue(ready[j], Prioridad(pcb["C"]))
      BY <2>1, <2>2, <3>1
    <3>. QED BY <2>0, <2>3, <3>2, LiderBien_Gana
  <2>4. CASE leido < Prioridad(Otro) /\ Gana(Otro)
    <3>1. leido <= Prioridad(Otro) /\ Prioridad(Otro) <= Prioridad(Otro)
      <4>. HIDE DEF Prioridad
      <4>. QED BY <1>2, <2>4
    <3>2. ~pisada => \A j \in 1 .. i : NoMasQue(ready[j], Prioridad(Otro))
      BY <2>1, <3>1
    <3>. QED BY <2>0, <2>4, <3>2, LiderBien_Gana
  <2>5. CASE /\ leido = Prioridad(Otro)
             /\ Va("C", "razon2", "espera1")
             /\ UNCHANGED <<pcb, i, leido>>
    <3>1. /\ en'["C"] = "espera1" /\ Otro' = Otro
          /\ Vistos' = {ready[j] : j \in 1 .. i}
      BY <2>0, <2>5 DEF Va, IInv, TypeOK, Hilos, Vistos, Otro
    <3>2. leido <= Prioridad(Otro) /\ Prioridad(Otro) <= Prioridad(Otro)
          /\ (~pisada => Prioridad(Otro) <= Prioridad(pcb["C"]))
      <4>. HIDE DEF Prioridad
      <4>. QED BY <1>2, <2>2, <2>5
    <3>3. ASSUME ~pisada, NEW j \in 1 .. i
          PROVE  /\ NoMasQue(ready[j], Prioridad(pcb["C"]))
                 /\ NoMasQue(ready[j], Prioridad(Otro))
      BY <2>1, <2>2, <3>2, <3>3
    <3>4. ASSUME ~pisada', NEW p \in Vistos'
          PROVE  /\ NoMasQue(p, Prioridad(pcb["C"]))'
                 /\ NoMasQue(p, Prioridad(Otro))'
      <4>1. NoMasQue(p, Prioridad(pcb["C"])) /\ NoMasQue(p, Prioridad(Otro))
        BY <2>0, <3>1, <3>3, <3>4
      <4>. QED BY <2>0, <2>5, <3>1, <4>1 DEF NoMasQue, Prioridad, Espera
    <3>. QED BY <3>1, <3>4 DEF LiderBien, TodosVistos
  <2>. QED BY <1>5, <2>3, <2>4, <2>5 DEF ComparaRazon
<1>6. CASE ComparaEspera
  <2>. DEFINE w == IF leido < Espera(Otro) THEN pcb["C"] ELSE Otro
  <2>1. en["C"] = "espera2" /\ w \in {pcb["C"], Otro} /\ Gana(w)
        /\ UNCHANGED <<ahora, llegada, ready, inicio, pisada>>
    BY <1>6 DEF ComparaEspera
  <2>2. ASSUME ~pisada, NEW j \in 1 .. i PROVE NoMasQue(ready[j], Prioridad(w))
    <3>1. ready[j] \in Vistos
      BY <2>1 DEF Vistos
    <3>2. /\ NoMasQue(ready[j], Prioridad(pcb["C"]))
          /\ NoMasQue(ready[j], Prioridad(Otro))
      BY <2>1, <2>2, <3>1 DEF IInv, LiderBien
    <3>. QED BY <3>2
  <2>. HIDE DEF w
  <2>. QED BY <2>1, <2>2, LiderBien_Gana
<1>. QED BY <1>3, <1>4, <1>5, <1>6 DEF MayorHrrn

(* Steps with no choice under way afterwards.                              *)
LEMMA LiderBien_Sin ==
  ASSUME en'["C"] = "espera" PROVE LiderBien' /\ TodosVistos'
BY DEF LiderBien, TodosVistos, Eligiendo

LEMMA IInv_Next == ASSUME IInv, [Next]_vars PROVE IInv'
<1>0. TypeOK'
  BY TypeOK_Next DEF IInv
<1>. SUFFICES LiderBien' /\ TodosVistos'
  BY <1>0 DEF IInv
<1>1. CASE TomaNuevo \/ TomaBloqueado \/ VuelveAReady \/ Bloquea
           \/ (\E h \in {"L", "E", "U"} : PostReady(h))
  <2>1. /\ UNCHANGED <<ready, i, leido, inicio, pisada, llegada, ahora>>
        /\ en'["C"] = en["C"] /\ pcb'["C"] = pcb["C"]
    BY <1>1 DEF TomaNuevo, TomaBloqueado, VuelveAReady, Bloquea, PostReady,
                Va, eleccionVars, IInv, TypeOK, Hilos
  <2>2. ahora <= ahora'
    BY <2>1 DEF IInv, TypeOK
  <2>. QED BY <1>0, <2>1, <2>2, LiderBien_Otros
<1>2. CASE \E h \in {"L", "E", "U"} : PushReady(h)
  BY <1>2, LiderBien_Sin DEF PushReady, Va, Eligiendo, IInv, TypeOK, Hilos
<1>3. CASE \E h \in {"L", "E", "U"} : CreaTemporal(h)
  <2>1. PICK h \in {"L", "E", "U"} : CreaTemporal(h)
    BY <1>3
  <2>2. /\ UNCHANGED <<ready, i, leido, inicio, ahora>>
        /\ en'["C"] = en["C"] /\ pcb'["C"] = pcb["C"]
    BY <2>1 DEF CreaTemporal, Va, IInv, TypeOK, Hilos
  <2>3. \A p \in Pid : llegada'[p] = llegada[p] \/ inicio <= llegada'[p]
    BY <2>1 DEF CreaTemporal, IInv, TypeOK
  <2>4. ~pisada' => ~pisada /\ \A p \in Medidos : llegada'[p] = llegada[p]
    <3>1. Medidos \subseteq Pid
      BY Procesos DEF IInv, Medidos
    <3>. QED BY <2>1, <3>1 DEF CreaTemporal, IInv, TypeOK
  <2>5. ahora <= ahora'
    BY <2>2 DEF IInv, TypeOK
  <2>. QED BY <1>0, <2>2, <2>3, <2>4, <2>5, LiderBien_Otros
<1>4. CASE NextUnico
  BY <1>4, LiderBien_Sin DEF NextUnico, Va, IInv, TypeOK, Hilos
<1>5. CASE NextHrrn
  BY <1>0, <1>5, LiderBien_NextHrrn
<1>6. CASE MayorHrrn
  BY <1>0, <1>6, LiderBien_MayorHrrn
<1>7. CASE Despacha
  BY <1>7, LiderBien_Sin DEF Despacha, IInv, TypeOK, Hilos
<1>8. CASE PasaTiempo
  <2>1. /\ UNCHANGED <<ready, i, leido, inicio, pisada, llegada>>
        /\ en'["C"] = en["C"] /\ pcb'["C"] = pcb["C"] /\ ahora <= ahora'
    BY <1>8 DEF PasaTiempo, eleccionVars, IInv, TypeOK
  <2>. QED BY <1>0, <2>1, LiderBien_Otros
<1>9. CASE UNCHANGED vars
  BY <1>9 DEF vars, eleccionVars, IInv, LiderBien, TodosVistos, Eligiendo,
              Vistos, Otro, NoMasQue, Prioridad, Espera
<1>. QED BY <1>1, <1>2, <1>3, <1>4, <1>5, <1>6, <1>7, <1>8, <1>9 DEF Next

(* The one chosen: a ratio no less is a wait no more than one estimate     *)
(* behind, and the waits have grown by the time the choice took.           *)
LEMMA EsperaDeIInv == ASSUME IInv PROVE EsperaAcotada
<1>. SUFFICES ASSUME en["C"] = "elegido", ~pisada, NEW p \in EnReady
              PROVE  Espera(p) < Espera(pcb["C"]) + Estimacion + (ahora - inicio)
  BY DEF EsperaAcotada
<1>1. Eligiendo /\ i = Len(ready)
  BY DEF Eligiendo, IInv, TodosVistos
<1>2. p \in Vistos
  BY <1>1 DEF EnReady, Vistos, IInv, TypeOK
<1>3. p \in Pid /\ pcb["C"] \in Pid /\ NoMasQue(p, Prioridad(pcb["C"]))
  BY <1>1, <1>2, Procesos DEF IInv, LiderBien
<1>4. Espera(p) \in Nat /\ Espera(pcb["C"]) \in Nat
  BY <1>3, Tiempos DEF IInv
<1>5. ahora \in Int /\ inicio \in Int /\ inicio <= ahora /\ llegada[p] \in Int
      /\ Estimacion \in Nat \ {0}
  BY <1>3, HrrnAssumption DEF IInv, TypeOK
<1>6. CASE llegada[p] < inicio
  <2>. DEFINE a == inicio - llegada[p]
              b == Espera(pcb["C"])
  <2>1. a \in Nat /\ b \in Nat
    BY <1>4, <1>5, <1>6
  <2>2. 1 + a \div Estimacion <= 1 + b \div Estimacion
    BY <1>3, <1>6 DEF NoMasQue, Prioridad
  <2>3. Espera(p) = a + (ahora - inicio)
    BY <1>5 DEF Espera
  <2>. HIDE DEF a, b
  <2>4. a \div Estimacion \in Int /\ b \div Estimacion \in Int
    BY <1>5, <2>1
  <2>5. a < b + Estimacion
    BY <1>5, <2>1, <2>2, <2>4, Cociente
  <2>6. Espera(p) < b + Estimacion + (ahora - inicio)
    BY <1>5, <2>1, <2>3, <2>5
  <2>. QED BY <2>6 DEF b
<1>7. CASE ~(llegada[p] < inicio)
  <2>1. Espera(p) <= ahora - inicio
    BY <1>5, <1>7 DEF Espera
  <2>. HIDE DEF Espera
  <2>. QED BY <1>4, <1>5, <2>1
<1>. QED BY <1>6, <1>7

-----------------------------------------------------------------------------
(* The waits are what t_temporal says, the lists hold processes and        *)
(* list_get_maximum never leaves the list, for any number of processes,    *)
(* any estimate and any length of READY.                                   *)
THEOREM TiposDeHrrn == Spec => []TypeOK
<1>. QED BY TypeOK_Init, TypeOK_Next, PTL DEF Spec

(* next_hrrn_proceso leaves nobody in READY who has waited                 *)
(* ESTIMACION_INICIAL and the time of the choice more than the process it  *)
(* takes, unless a PCB it was going by was renewed under its eyes.         *)
THEOREM EsperaInvariante == Spec => []EsperaAcotada
<1>1. Init => IInv
  <2>. SUFFICES ASSUME Init PROVE IInv
    OBVIOUS
  <2>1. en["C"] = "espera"
    BY DEF Init, Hilos
  <2>. QED BY <2>1, TypeOK_Init
           DEF IInv, LiderBien, TodosVistos, Eligiendo
<1>. QED BY <1>1, IInv_Next, EsperaDeIInv, PTL DEF Spec
=============================================================================
