------------------------- MODULE PseudocodigoProofs -------------------------
(***************************************************************************)
(* Proofs about Pseudocodigo, for files of any length: what the kernel and *)
(* the cpu unpack is what was packed, and of a well-formed file it is what *)
(* the user wrote.                                                         *)
(***************************************************************************)
EXTENDS Pseudocodigo, SequenceTheorems, WellFoundedInduction, TLAPS

-----------------------------------------------------------------------------
(* Induction, with sets of numbers in place of predicates.                 *)

(* A set of numbers has a least one.                                       *)
LEMMA Minimo ==
  ASSUME NEW T, T \subseteq Nat, T # {}
  PROVE  \E n \in T : \A m \in T : n <= m
<1>. DEFINE R == OpToRel(<, Nat)
<1>1. IsWellFoundedOn(R, Nat)
  BY NatLessThanWellFounded
<1>2. \A m, n \in Nat : m < n => <<m, n>> \in R
  BY DEF OpToRel
<1>. HIDE DEF R
<1>3. PICK n \in T : \A m \in T : <<m, n>> \notin R
  BY <1>1, WFMin
<1>4. \A m \in Nat : ~(m < n) => n <= m
  BY <1>3
<1>. QED BY <1>2, <1>3, <1>4

(* What holds of 0, and of n + 1 when it holds of n, holds of every n.     *)
LEMMA Induccion ==
  ASSUME NEW S, 0 \in S, \A n \in Nat : n \in S => n + 1 \in S
  PROVE  Nat \subseteq S
<1>. DEFINE T == Nat \ S
<1>. SUFFICES ASSUME T # {} PROVE FALSE
  OBVIOUS
<1>1. T \subseteq Nat
  OBVIOUS
<1>. HIDE DEF T
<1>2. PICK n \in T : \A m \in T : n <= m
  BY <1>1, Minimo
<1>3. n \in Nat /\ n \notin S /\ n # 0
  BY <1>2 DEF T
<1>4. n - 1 \in Nat /\ ~(n <= n - 1) /\ (n - 1) + 1 = n
  BY <1>3
<1>5. n - 1 \in S
  BY <1>2, <1>4 DEF T
<1>. QED BY <1>3, <1>4, <1>5

-----------------------------------------------------------------------------
(* A buffer is one piece after another: B[i] is the i-th of n, f[i] the    *)
(* first i together, and r[i] what is left to read after them.             *)
EsPrefijos(f, B, n) ==
  f = [i \in 0 .. n |-> IF i = 0 THEN << >> ELSE f[i - 1] \o B[i]]
EsRestos(r, B, n) ==
  r[n] = << >> /\ \A i \in 0 .. n - 1 : r[i] = B[i + 1] \o r[i + 1]
SeSigue(T, B, n, c, v) ==
  \E r \in [0 .. n -> Seq(T)] : EsRestos(r, B, n) /\ r[c] = v
SeLee(T, B, n, v) == SeSigue(T, B, n, 0, v)

(* The packing loop has a run over every list.                             *)
LEMMA HayPrefijos == ASSUME NEW B, NEW n \in Nat PROVE \E f : EsPrefijos(f, B, n)
<1>. DEFINE S == {k \in Nat : \E f : EsPrefijos(f, B, k)}
<1>1. 0 \in S
  <2>. DEFINE f == [i \in 0 .. 0 |-> << >>]
  <2>1. \A i \in 0 .. 0 : i = 0
    OBVIOUS
  <2>2. EsPrefijos(f, B, 0)
    BY <2>1 DEF EsPrefijos
  <2>. QED BY <2>2
<1>2. ASSUME NEW k \in Nat, k \in S PROVE k + 1 \in S
  <2>1. PICK f : EsPrefijos(f, B, k)
    BY <1>2
  <2>. DEFINE h == [i \in 0 .. k + 1 |-> IF i = k + 1 THEN f[k] \o B[k + 1] ELSE f[i]]
  <2>2. /\ \A i \in 0 .. k + 1 : i # k + 1 => i \in 0 .. k
        /\ \A i \in 0 .. k : /\ i \in 0 .. k + 1 /\ i # k + 1
                             /\ i # 0 => i - 1 \in 0 .. k /\ i - 1 # k + 1
        /\ k \in 0 .. k + 1 /\ k # k + 1 /\ (k + 1) - 1 = k /\ k + 1 # 0
    OBVIOUS
  <2>3. h[k + 1] = h[(k + 1) - 1] \o B[k + 1]
    BY <2>2
  <2>4. ASSUME NEW i \in 0 .. k
        PROVE  h[i] = IF i = 0 THEN << >> ELSE h[i - 1] \o B[i]
    <3>1. h[i] = f[i] /\ (i # 0 => h[i - 1] = f[i - 1])
      BY <2>2
    <3>2. f[i] = IF i = 0 THEN << >> ELSE f[i - 1] \o B[i]
      BY <2>1 DEF EsPrefijos
    <3>. QED BY <3>1, <3>2
  <2>5. h = [i \in 0 .. k + 1 |-> h[i]]
    OBVIOUS
  <2>. HIDE DEF h
  <2>6. \A i \in 0 .. k + 1 : h[i] = IF i = 0 THEN << >> ELSE h[i - 1] \o B[i]
    BY <2>2, <2>3, <2>4
  <2>7. EsPrefijos(h, B, k + 1)
    BY <2>5, <2>6 DEF EsPrefijos
  <2>. QED BY <2>7
<1>. HIDE DEF S
<1>3. n \in S
  BY <1>1, <1>2, Induccion
<1>. QED BY <1>3 DEF S

(* The first pieces together are a sequence of what the pieces hold.       *)
LEMMA PrefijosTipo ==
  ASSUME NEW T, NEW n \in Nat, NEW B \in [1 .. n -> Seq(T)], NEW f, EsPrefijos(f, B, n)
  PROVE  f \in [0 .. n -> Seq(T)]
<1>. DEFINE S == {k \in Nat : k \in 0 .. n => f[k] \in Seq(T)}
<1>1. 0 \in S
  <2>1. f[0] = << >>
    BY DEF EsPrefijos
  <2>2. << >> \in Seq(T)
    OBVIOUS
  <2>. QED BY <2>1, <2>2
<1>2. ASSUME NEW k \in Nat, k \in S PROVE k + 1 \in S
  <2>. SUFFICES ASSUME k + 1 \in 0 .. n PROVE f[k + 1] \in Seq(T)
    OBVIOUS
  <2>0. k + 1 # 0 /\ (k + 1) - 1 = k
    OBVIOUS
  <2>1. f[k + 1] = f[k] \o B[k + 1]
    BY <2>0 DEF EsPrefijos
  <2>2. f[k] \in Seq(T) /\ B[k + 1] \in Seq(T)
    BY <1>2
  <2>. QED BY <2>1, <2>2, ConcatProperties
<1>. HIDE DEF S
<1>3. Nat \subseteq S
  BY <1>1, <1>2, Induccion
<1>4. f = [i \in 0 .. n |-> f[i]]
  BY DEF EsPrefijos
<1>5. \A k \in 0 .. n : f[k] \in Seq(T)
  BY <1>3 DEF S
<1>. QED BY <1>4, <1>5

LEMMA Asociativa ==
  ASSUME NEW T, NEW x \in Seq(T), NEW y \in Seq(T), NEW z \in Seq(T), NEW v, v = x \o y
  PROVE  v \o z = x \o (y \o z)
BY ConcatAssociative

(* Whoever reads the whole finds the first piece at its head, then what is *)
(* left, and nothing after the last.                                       *)
LEMMA HayRestos ==
  ASSUME NEW T, NEW n \in Nat, NEW B \in [1 .. n -> Seq(T)], NEW f, EsPrefijos(f, B, n)
  PROVE  SeLee(T, B, n, f[n])
<1>. DEFINE S == {k \in Nat : k \in 0 .. n =>
                    \E r \in [0 .. k -> Seq(T)] : EsRestos(r, B, k) /\ r[0] = f[k]}
<1>0. f \in [0 .. n -> Seq(T)]
  BY PrefijosTipo
<1>1. 0 \in S
  <2>. DEFINE r == [i \in 0 .. 0 |-> << >>]
  <2>1. f[0] = << >>
    BY DEF EsPrefijos
  <2>2. r \in [0 .. 0 -> Seq(T)] /\ r[0] = << >> /\ EsRestos(r, B, 0)
    BY DEF EsRestos
  <2>. QED BY <2>1, <2>2
<1>2. ASSUME NEW k \in Nat, k \in S PROVE k + 1 \in S
  <2>. SUFFICES ASSUME k + 1 \in 0 .. n
                PROVE  \E r \in [0 .. k + 1 -> Seq(T)] : /\ EsRestos(r, B, k + 1)
                                                         /\ r[0] = f[k + 1]
    OBVIOUS
  <2>1. PICK r \in [0 .. k -> Seq(T)] : EsRestos(r, B, k) /\ r[0] = f[k]
    BY <1>2
  <2>. DEFINE c == B[k + 1]
              h == [i \in 0 .. k + 1 |-> IF i = k + 1 THEN << >> ELSE r[i] \o c]
  <2>2. c \in Seq(T) /\ << >> \in Seq(T)
    OBVIOUS
  <2>3. \A i \in 0 .. k + 1 : i # k + 1 => i \in 0 .. k
    OBVIOUS
  <2>4. h \in [0 .. k + 1 -> Seq(T)]
    <3>1. \A i \in 0 .. k : r[i] \o c \in Seq(T)
      BY <2>2, ConcatProperties
    <3>. QED BY <2>2, <2>3, <3>1
  <2>5. h[k + 1] = << >>
    OBVIOUS
  <2>6. ASSUME NEW i \in 0 .. (k + 1) - 1 PROVE h[i] = B[i + 1] \o h[i + 1]
    <3>1. i \in 0 .. k /\ i \in 0 .. k + 1 /\ i # k + 1 /\ i + 1 \in 0 .. k + 1
      OBVIOUS
    <3>2. h[i] = r[i] \o c
      BY <3>1
    <3>3. CASE i = k
      <4>1. r[i] = << >> /\ h[i + 1] = << >> /\ B[i + 1] = c
        BY <2>1, <3>3 DEF EsRestos
      <4>2. << >> \o c = c /\ c \o << >> = c
        BY <2>2, ConcatEmptySeq
      <4>. QED BY <3>2, <4>1, <4>2
    <3>4. CASE i # k
      <4>1. i \in 0 .. k - 1 /\ i + 1 \in 0 .. k /\ i + 1 # k + 1 /\ i + 1 \in 1 .. n
        BY <3>1, <3>4
      <4>2. r[i] = B[i + 1] \o r[i + 1] /\ h[i + 1] = r[i + 1] \o c
        BY <2>1, <3>1, <4>1 DEF EsRestos
      <4>3. B[i + 1] \in Seq(T) /\ r[i + 1] \in Seq(T)
        BY <4>1
      <4>. DEFINE x == B[i + 1]
                  y == r[i + 1]
                  v == r[i]
      <4>4. x \in Seq(T) /\ y \in Seq(T) /\ c \in Seq(T)
        BY <2>2, <4>3
      <4>. HIDE DEF c, h, x, y, v
      <4>5. v = x \o y
        BY <4>2 DEF x, y, v
      <4>6. v \o c = x \o (y \o c)
        BY ONLY <4>4, <4>5, Asociativa
      <4>. QED BY <3>2, <4>2, <4>6 DEF x, y, v
    <3>. QED BY <3>3, <3>4
  <2>7. h[0] = f[k + 1]
    <3>1. h[0] = r[0] \o c
      OBVIOUS
    <3>. HIDE DEF h
    <3>2. k + 1 # 0 /\ (k + 1) - 1 = k
      OBVIOUS
    <3>3. f[k + 1] = f[k] \o B[k + 1]
      BY <3>2 DEF EsPrefijos
    <3>. QED BY <2>1, <3>1, <3>3
  <2>. HIDE DEF h
  <2>8. EsRestos(h, B, k + 1)
    BY <2>5, <2>6 DEF EsRestos
  <2>. QED BY <2>4, <2>7, <2>8
<1>. HIDE DEF S
<1>3. n \in S
  BY <1>1, <1>2, Induccion
<1>. QED BY <1>3 DEF S, SeLee, SeSigue

-----------------------------------------------------------------------------
(* One instruction in a buffer: its number and k strings.                  *)
Pieza(n, a, k) == <<Op(n)>> \o [j \in 1 .. k |-> Txt(a[j])]

LEMMA PiezaTipo ==
  ASSUME NEW n \in Palabra, NEW k \in 0 .. 3, NEW a, \A j \in 1 .. k : a[j] \in Palabra
  PROVE  /\ Pieza(n, a, k) \in Seq(Item) /\ Len(Pieza(n, a, k)) = k + 1
         /\ Pieza(n, a, k)[1] = Op(n)
         /\ \A j \in 1 .. k : Pieza(n, a, k)[j + 1] = Txt(a[j])
<1>. DEFINE b == <<Op(n)>>
            c == [j \in 1 .. k |-> Txt(a[j])]
<1>1. Op(n) \in Item /\ \A j \in 1 .. k : Txt(a[j]) \in Item
  BY DEF Op, Txt, Item
<1>2. b \in Seq(Item) /\ Len(b) = 1 /\ b[1] = Op(n)
  <2>1. \A x \in Item : <<x>> \in Seq(Item) /\ Len(<<x>>) = 1 /\ <<x>>[1] = x
    OBVIOUS
  <2>. QED BY <1>1, <2>1
<1>3. c \in Seq(Item) /\ Len(c) = k /\ \A j \in 1 .. k : c[j] = Txt(a[j])
  <2>1. c \in [1 .. k -> Item] /\ k \in Nat
    BY <1>1
  <2>. QED BY <2>1
<1>. HIDE DEF b, c
<1>4. /\ b \o c \in Seq(Item) /\ Len(b \o c) = 1 + k
      /\ \A i \in 1 .. 1 + k : (b \o c)[i] = IF i <= 1 THEN b[i] ELSE c[i - 1]
  <2>1. /\ b \o c \in Seq(Item) /\ Len(b \o c) = Len(b) + Len(c)
        /\ \A i \in 1 .. Len(b) + Len(c) :
             (b \o c)[i] = IF i <= Len(b) THEN b[i] ELSE c[i - Len(b)]
    BY <1>2, <1>3, ConcatProperties
  <2>. QED BY <1>2, <1>3, <2>1
<1>. DEFINE d == b \o c
<1>5. d = Pieza(n, a, k)
  BY DEF Pieza, b, c
<1>. HIDE DEF d
<1>6. d[1] = Op(n)
  <2>1. 1 \in 1 .. 1 + k
    OBVIOUS
  <2>2. d[1] = IF 1 <= 1 THEN b[1] ELSE c[1 - 1]
    BY <1>4, <2>1 DEF d
  <2>3. d[1] = b[1]
    BY <2>2
  <2>. QED BY <1>2, <2>3
<1>7. ASSUME NEW j \in 1 .. k PROVE d[j + 1] = Txt(a[j])
  <2>1. j + 1 \in 1 .. 1 + k /\ ~(j + 1 <= 1) /\ (j + 1) - 1 = j
    OBVIOUS
  <2>. QED BY <1>3, <1>4, <2>1 DEF d
<1>8. d \in Seq(Item) /\ Len(d) = k + 1
  BY <1>4 DEF d
<1>. QED BY <1>5, <1>6, <1>7, <1>8

(* What is left after the first k + 1 of a sequence that begins with them. *)
LEMMA Saltea ==
  ASSUME NEW T, NEW s \in Seq(T), NEW u \in Seq(T)
  PROVE  SubSeq(s \o u, Len(s) + 1, Len(s \o u)) = u
<1>. DEFINE v == s \o u
            w == SubSeq(v, Len(s) + 1, Len(v))
<1>1. /\ v \in Seq(T) /\ Len(s) \in Nat /\ Len(u) \in Nat /\ Len(v) = Len(s) + Len(u)
      /\ \A i \in 1 .. Len(s) + Len(u) : v[i] = IF i <= Len(s) THEN s[i] ELSE u[i - Len(s)]
  BY ConcatProperties, LenProperties
<1>. HIDE DEF v
<1>2. \A i \in Len(s) + 1 .. Len(v) : v[i] \in T
  BY <1>1, ElementOfSeq
<1>3. /\ w \in Seq(T)
      /\ Len(w) = IF Len(s) + 1 <= Len(v) THEN Len(v) - (Len(s) + 1) + 1 ELSE 0
      /\ \A i \in 1 .. Len(v) - (Len(s) + 1) + 1 : w[i] = v[Len(s) + 1 + i - 1]
  BY <1>1, <1>2, SubSeqProperties
<1>. HIDE DEF w
<1>4. Len(w) = Len(u)
  BY <1>1, <1>3
<1>5. ASSUME NEW i \in 1 .. Len(w) PROVE w[i] = u[i]
  <2>1. /\ i \in 1 .. Len(v) - (Len(s) + 1) + 1 /\ Len(s) + 1 + i - 1 = Len(s) + i
        /\ Len(s) + i \in 1 .. Len(s) + Len(u) /\ ~(Len(s) + i <= Len(s))
        /\ Len(s) + i - Len(s) = i
    BY <1>1, <1>4
  <2>2. w[i] = v[Len(s) + i]
    BY <1>3, <2>1
  <2>3. v[Len(s) + i] = u[i]
    BY <1>1, <2>1
  <2>. QED BY <2>2, <2>3
<1>6. w = u
  BY <1>3, <1>4, <1>5, SeqEqual
<1>. QED BY <1>6 DEF v, w

(* A buffer that begins with an instruction of k strings.                  *)
LEMMA Lectura ==
  ASSUME NEW n \in Palabra, NEW k \in 0 .. 3, NEW a, \A j \in 1 .. k : a[j] \in Palabra,
         NEW s \in Seq(Item), paquete = Pieza(n, a, k) \o s
  PROVE  /\ Alineado(k) /\ paquete # << >> /\ paquete[1].t = "op" /\ paquete[1].v = n
         /\ \A j \in 1 .. k : paquete[j + 1].v = a[j]
         /\ SubSeq(paquete, k + 2, Len(paquete)) = s
<1>. DEFINE b == Pieza(n, a, k)
<1>1. /\ b \in Seq(Item) /\ Len(b) = k + 1 /\ b[1] = Op(n)
      /\ \A j \in 1 .. k : b[j + 1] = Txt(a[j])
  BY PiezaTipo
<1>. HIDE DEF b
<1>2. paquete = b \o s
  BY DEF b
<1>3. /\ paquete \in Seq(Item) /\ Len(s) \in Nat /\ Len(paquete) = (k + 1) + Len(s)
      /\ \A i \in 1 .. (k + 1) + Len(s) :
           paquete[i] = IF i <= k + 1 THEN b[i] ELSE s[i - (k + 1)]
  BY <1>1, <1>2, ConcatProperties, LenProperties
<1>4. /\ 1 \in 1 .. (k + 1) + Len(s) /\ 1 <= k + 1
      /\ \A j \in 1 .. k : j + 1 \in 1 .. (k + 1) + Len(s) /\ j + 1 <= k + 1
  BY <1>3
<1>5. paquete[1] = Op(n) /\ \A j \in 1 .. k : paquete[j + 1] = Txt(a[j])
  BY <1>1, <1>3, <1>4
<1>6. Len(paquete) > k /\ paquete # << >>
  <2>1. Len(paquete) > k /\ Len(paquete) # 0
    BY <1>3
  <2>. QED BY <2>1, EmptySeq
<1>7. SubSeq(paquete, k + 2, Len(paquete)) = s
  <2>1. SubSeq(b \o s, Len(b) + 1, Len(b \o s)) = s
    BY <1>1, Saltea
  <2>2. Len(b) + 1 = k + 2
    BY <1>1
  <2>. QED BY <1>2, <2>1, <2>2
<1>8. /\ Op(n).t = "op" /\ Op(n).v = n
      /\ \A j \in 1 .. k : Txt(a[j]).t = "txt" /\ Txt(a[j]).v = a[j]
  BY DEF Op, Txt
<1>9. /\ paquete[1].t = "op" /\ paquete[1].v = n
      /\ \A j \in 1 .. k : paquete[j + 1].t = "txt" /\ paquete[j + 1].v = a[j]
  BY <1>5, <1>8
<1>. QED BY <1>6, <1>7, <1>9 DEF Alineado

-----------------------------------------------------------------------------
(* The four tables of arities.                                             *)

(* None has more than three; what the two ends of a context read of an     *)
(* instruction is at least what the user wrote of it, and of an            *)
(* instruction the parser knows the four say the same.                     *)
LEMMA Aridades ==
  ASSUME NEW n
  PROVE  /\ Operandos(n) \in 0 .. 3 /\ cuantosParametros(n) \in 0 .. 3
         /\ ParametrosDelKernel(n) \in 0 .. 3
         /\ Operandos(n) <= cuantosParametros(n)
         /\ n \in Nombres => ParametrosDelKernel(n) = Operandos(n)
<1>1. Operandos(n) \in 0 .. 3
  BY DEF Operandos
<1>2. cuantosParametros(n) \in 0 .. 3
  BY DEF cuantosParametros
<1>3. ParametrosDelKernel(n) \in 0 .. 3
  BY DEF ParametrosDelKernel
<1>4. Operandos(n) <= cuantosParametros(n)
  BY DEF Operandos, cuantosParametros
<1>5. n \in Nombres => ParametrosDelKernel(n) = Operandos(n)
  <2>1. CASE n \in {"F_READ", "F_WRITE"}
    BY <2>1 DEF Operandos, ParametrosDelKernel
  <2>2. CASE n \in {"SET", "MOV_IN", "MOV_OUT", "F_TRUNCATE", "F_SEEK", "CREATE_SEGMENT"}
    BY <2>2 DEF Operandos, ParametrosDelKernel, SinIniciar
  <2>3. CASE n \in {"EXIT", "YIELD"}
    BY <2>3 DEF Operandos, ParametrosDelKernel
  <2>4. CASE n \in {"I/O", "WAIT", "SIGNAL", "F_OPEN", "F_CLOSE", "DELETE_SEGMENT"}
    BY <2>4 DEF Operandos, ParametrosDelKernel
  <2>. QED BY <2>1, <2>2, <2>3, <2>4 DEF Nombres
<1>. QED BY <1>1, <1>2, <1>3, <1>4, <1>5

(* The pieces of a list that travels.                                      *)
Empaques(l) == [i \in 1 .. Len(l) |-> Empaque(l[i])]

LEMMA EmpaqueTipo ==
  ASSUME NEW ins \in InstruccionArmada
  PROVE  /\ Empaque(ins) = Pieza(ins.nombre, ins.param, cuantosParametros(ins.nombre))
         /\ ins.nombre \in Palabra /\ cuantosParametros(ins.nombre) \in 0 .. 3
         /\ \A j \in 1 .. cuantosParametros(ins.nombre) : ins.param[j] \in Palabra
         /\ Empaque(ins) \in Seq(Item)
<1>1. /\ ins.nombre \in Palabra /\ ins.param \in [1 .. 3 -> Palabra]
      /\ cuantosParametros(ins.nombre) \in 0 .. 3
  BY Aridades DEF InstruccionArmada
<1>2. \A j \in 1 .. cuantosParametros(ins.nombre) : ins.param[j] \in Palabra
  <2>1. \A j \in 1 .. cuantosParametros(ins.nombre) : j \in 1 .. 3
    BY <1>1
  <2>. QED BY <1>1, <2>1
<1>3. Empaque(ins) = Pieza(ins.nombre, ins.param, cuantosParametros(ins.nombre))
  BY DEF Empaque, Pieza
<1>. DEFINE n == ins.nombre
            k == cuantosParametros(ins.nombre)
            a == ins.param
<1>4. n \in Palabra /\ k \in 0 .. 3 /\ \A j \in 1 .. k : a[j] \in Palabra
  BY <1>1, <1>2
<1>5. Empaque(ins) = Pieza(n, a, k)
  BY <1>3
<1>. HIDE DEF n, k, a
<1>6. Pieza(n, a, k) \in Seq(Item)
  BY <1>4, PiezaTipo
<1>. QED BY <1>1, <1>2, <1>3, <1>5, <1>6

(* empaquetar_lista_instrucciones, seen by who unpacks it.                 *)
LEMMA EmpaquetadaSeLee ==
  ASSUME NEW l \in Seq(InstruccionArmada)
  PROVE  SeLee(Item, Empaques(l), Len(l), Empaquetada(l))
<1>. DEFINE f[i \in 0 .. Len(l)] ==
              IF i = 0 THEN << >> ELSE f[i - 1] \o Empaque(l[i])
            n == Len(l)
            B == Empaques(l)
<1>1. n \in Nat /\ \A i \in 1 .. n : l[i] \in InstruccionArmada
  OBVIOUS
<1>2. B \in [1 .. n -> Seq(Item)] /\ \A i \in 1 .. n : B[i] = Empaque(l[i])
  BY <1>1, EmpaqueTipo DEF Empaques
<1>3. Empaquetada(l) = f[n]
  BY DEF Empaquetada
<1>4. \A i \in 0 .. n : i # 0 => i \in 1 .. n
  BY <1>1
<1>5. \A g : EsPrefijos(g, B, n) <=>
        g = [i \in 0 .. n |-> IF i = 0 THEN << >> ELSE g[i - 1] \o Empaque(l[i])]
  BY <1>2, <1>4 DEF EsPrefijos
<1>6. \E g : g = [i \in 0 .. n |-> IF i = 0 THEN << >> ELSE g[i - 1] \o Empaque(l[i])]
  BY <1>1, <1>5, HayPrefijos
<1>7. f = [i \in 0 .. n |-> IF i = 0 THEN << >> ELSE f[i - 1] \o Empaque(l[i])]
  BY <1>6
<1>. HIDE DEF f, n, B
<1>8. EsPrefijos(f, B, n)
  BY <1>5, <1>7
<1>9. n \in Nat
  BY <1>1
<1>10. B \in [1 .. n -> Seq(Item)]
  BY <1>2
<1>11. SeLee(Item, B, n, f[n])
  BY ONLY <1>8, <1>9, <1>10, HayRestos
<1>. QED BY <1>3, <1>11 DEF n, B

LEMMA Unitaria == ASSUME NEW T, NEW x \in T PROVE <<x>> \in Seq(T)
OBVIOUS

(* The words of a file, seen by who reads them.                            *)
Escritas == [nombre : Palabra, args : Seq(Palabra)]
Lineas(p) == [i \in 1 .. Len(p) |-> Linea(p[i])]

LEMMA TextoSeLee ==
  ASSUME NEW p \in Seq(Escritas)
  PROVE  SeLee(Palabra, Lineas(p), Len(p), Texto(p))
<1>. DEFINE f[i \in 0 .. Len(p)] ==
              IF i = 0 THEN << >> ELSE f[i - 1] \o Linea(p[i])
            n == Len(p)
            B == Lineas(p)
<1>1. n \in Nat /\ \A i \in 1 .. n : p[i].nombre \in Palabra /\ p[i].args \in Seq(Palabra)
  <2>1. n \in Nat /\ \A i \in 1 .. n : p[i] \in Escritas
    OBVIOUS
  <2>. QED BY <2>1 DEF Escritas
<1>2. B \in [1 .. n -> Seq(Palabra)] /\ \A i \in 1 .. n : B[i] = Linea(p[i])
  <2>1. \A x \in Palabra : <<x>> \in Seq(Palabra)
    BY Unitaria
  <2>2. \A i \in 1 .. n : Linea(p[i]) \in Seq(Palabra)
    BY <1>1, <2>1, ConcatProperties DEF Linea
  <2>. QED BY <2>2 DEF Lineas
<1>3. Texto(p) = f[n]
  BY DEF Texto
<1>4. \A i \in 0 .. n : i # 0 => i \in 1 .. n
  BY <1>1
<1>5. \A g : EsPrefijos(g, B, n) <=>
        g = [i \in 0 .. n |-> IF i = 0 THEN << >> ELSE g[i - 1] \o Linea(p[i])]
  BY <1>2, <1>4 DEF EsPrefijos
<1>6. \E g : g = [i \in 0 .. n |-> IF i = 0 THEN << >> ELSE g[i - 1] \o Linea(p[i])]
  BY <1>1, <1>5, HayPrefijos
<1>7. f = [i \in 0 .. n |-> IF i = 0 THEN << >> ELSE f[i - 1] \o Linea(p[i])]
  BY <1>6
<1>. HIDE DEF f, n, B
<1>8. EsPrefijos(f, B, n)
  BY <1>5, <1>7
<1>9. n \in Nat
  BY <1>1
<1>10. B \in [1 .. n -> Seq(Palabra)]
  BY <1>2
<1>11. SeLee(Palabra, B, n, f[n])
  BY ONLY <1>8, <1>9, <1>10, HayRestos
<1>. QED BY <1>3, <1>11 DEF n, B

-----------------------------------------------------------------------------
(* Types.                                                                  *)
TresPalabras == [1 .. 3 -> Palabra]
Instrucciones == [palabra : Palabra, nombre : Palabra, opchar : TresPalabras,
                  ptr : [1 .. 3 -> {"nulo", "opchar", "suelto"}]]
Listas == {"kernel", "cpu", "respuesta"}
TresListas(T) == [kernel : T, cpu : T, respuesta : T]

Cambiada(x, a, v) == [x EXCEPT ![a] = v]

(* The three lists, by the name of who has them.                           *)
LEMMA CambiaLista ==
  ASSUME NEW T, NEW x \in TresListas(T), NEW a \in Listas, NEW v \in T
  PROVE  /\ Cambiada(x, a, v) \in TresListas(T) /\ Cambiada(x, a, v)[a] = v
         /\ \A b \in Listas : b # a => Cambiada(x, a, v)[b] = x[b]
BY DEF TresListas, Listas, Cambiada

LEMMA UnaLista ==
  ASSUME NEW T, NEW x \in TresListas(T) PROVE \A a \in Listas : x[a] \in T
BY DEF TresListas, Listas

LEMMA TextoTipo == ASSUME NEW p \in Programas PROVE Texto(p) \in Seq(Palabra)
<1>1. p \in Seq(Escritas)
  BY ProgramasAssumption DEF Escritas
<1>2. PICK r \in [0 .. Len(p) -> Seq(Palabra)] : r[0] = Texto(p)
  BY <1>1, TextoSeLee DEF SeLee, SeSigue
<1>3. 0 \in 0 .. Len(p)
  BY <1>1
<1>. QED BY <1>2, <1>3

LEMMA EmpaquetadaTipo ==
  ASSUME NEW l \in Seq(InstruccionArmada) PROVE Empaquetada(l) \in Seq(Item)
<1>1. PICK r \in [0 .. Len(l) -> Seq(Item)] : r[0] = Empaquetada(l)
  BY EmpaquetadaSeLee DEF SeLee, SeSigue
<1>2. 0 \in 0 .. Len(l)
  OBVIOUS
<1>. QED BY <1>1, <1>2

LEMMA BasuraTipo ==
  Basura \in Palabra /\ SinIniciar \in Palabra /\ Nombres \subseteq Palabra
BY DEF Palabra

LEMMA LectorNuevoTipo ==
  ASSUME NEW n \in Nat
  PROVE  LectorNuevo(n) \in [param : [1 .. 3 -> Palabra], faltan : Nat]
BY BasuraTipo DEF LectorNuevo

(* What the console packs of an instruction.                               *)
Puestas(ins) == [j \in 1 .. 3 |-> IF ins.ptr[j] = "suelto" THEN Basura ELSE ins.opchar[j]]

LEMMA ConsolaEmpaca ==
  ASSUME NEW ins \in Instrucciones
  PROVE  /\ EmpaquetarInstruccion(ins) =
              Pieza(ins.nombre, Puestas(ins), CuantosEmpaqueta(ins.ptr))
         /\ EmpaquetarInstruccion(ins) \in Seq(Item)
<1>. DEFINE n == ins.nombre
            a == Puestas(ins)
            k == CuantosEmpaqueta(ins.ptr)
<1>1. k \in 0 .. 3
  BY DEF CuantosEmpaqueta
<1>2. \A j \in 1 .. k : j \in 1 .. 3
  BY <1>1
<1>3. n \in Palabra /\ \A j \in 1 .. 3 : a[j] \in Palabra
  BY BasuraTipo DEF Instrucciones, TresPalabras, Puestas
<1>4. EmpaquetarInstruccion(ins) = Pieza(n, a, k)
  BY <1>2 DEF EmpaquetarInstruccion, Pieza, Puestas
<1>. HIDE DEF n, a, k
<1>5. Pieza(n, a, k) \in Seq(Item)
  BY <1>1, <1>2, <1>3, PiezaTipo
<1>. QED BY <1>4, <1>5 DEF n, a, k

(* One turn of the parser.                                                 *)
LEMMA LeidaTipo ==
  ASSUME TypeOK PROVE Leida.resto \in Seq(Palabra) /\ Leida.ins \in Instrucciones
<1>. DEFINE p == IF palabras = << >> THEN instruc.palabra ELSE Head(palabras)
            r == IF palabras = << >> THEN << >> ELSE Tail(palabras)
            k == IF p \in Nombres THEN Operandos(p) ELSE 0
            n == IF k < Len(r) THEN k ELSE Len(r)
            ins == [palabra |-> p,
                    nombre |-> IF p \in Nombres THEN p ELSE instruc.nombre,
                    opchar |-> [j \in 1 .. 3 |-> IF j <= n THEN r[j] ELSE instruc.opchar[j]],
                    ptr |-> IF p \in Nombres THEN Punteros(p, instruc.ptr) ELSE instruc.ptr]
<1>1. Leida = [resto |-> SubSeq(r, n + 1, Len(r)), ins |-> ins]
  BY DEF Leida
<1>2. palabras \in Seq(Palabra) /\ instruc \in Instrucciones
  BY DEF TypeOK, Instrucciones, TresPalabras
<1>3. p \in Palabra
  BY <1>2 DEF Instrucciones
<1>4. r \in Seq(Palabra) /\ Len(r) \in Nat
  <2>1. CASE palabras = << >>
    BY <2>1
  <2>2. CASE palabras # << >>
    <3>1. Tail(palabras) \in Seq(Palabra)
      BY <1>2, <2>2, HeadTailProperties
    <3>. QED BY <2>2, <3>1
  <2>. QED BY <2>1, <2>2
<1>5. k \in 0 .. 3
  BY Aridades
<1>. HIDE DEF p, r, k
<1>12. Len(r) \in Nat
  BY <1>4
<1>6. n \in 0 .. 3 /\ n <= Len(r) /\ Len(r) \in Nat
  <2>1. CASE k < Len(r)
    <3>1. n = k
      BY <2>1
    <3>. QED BY ONLY <1>5, <1>12, <2>1, <3>1
  <2>2. CASE ~(k < Len(r))
    <3>1. n = Len(r)
      BY <2>2
    <3>. QED BY ONLY <1>5, <1>12, <2>2, <3>1
  <2>. QED BY <2>1, <2>2
<1>. HIDE DEF n
<1>7. SubSeq(r, n + 1, Len(r)) \in Seq(Palabra)
  BY <1>4, <1>6
<1>8. \A j \in 1 .. 3 : j <= n => r[j] \in Palabra
  BY <1>4, <1>6
<1>9. ins.opchar \in TresPalabras
  BY <1>2, <1>8 DEF Instrucciones, TresPalabras
<1>10. ins.ptr \in [1 .. 3 -> {"nulo", "opchar", "suelto"}]
  BY <1>2 DEF Instrucciones, Punteros
<1>11. ins \in Instrucciones
  BY <1>2, <1>3, <1>9, <1>10 DEF Instrucciones
<1>. QED BY <1>1, <1>7, <1>11

(* One turn of who unpacks.                                                *)
LEMMA DesarmadaTipo ==
  ASSUME TypeOK, NEW k \in 0 .. 3, Alineado(k)
  PROVE  Desarmada(k) \in InstruccionArmada /\ SubSeq(paquete, k + 2, Len(paquete)) \in Seq(Item)
<1>1. /\ paquete \in Seq(Item) /\ Len(paquete) \in Nat /\ Len(paquete) > k
      /\ lector.param \in TresPalabras
  BY DEF TypeOK, Alineado, TresPalabras
<1>2. \A i \in 1 .. k + 1 : i \in 1 .. Len(paquete)
  BY <1>1
<1>3. \A i \in 1 .. k + 1 : paquete[i] \in Item
  BY <1>1, <1>2
<1>4. \A i \in 1 .. k + 1 : paquete[i].v \in Palabra
  BY <1>3 DEF Item
<1>5. \A j \in 1 .. 3 : j <= k => j + 1 \in 1 .. k + 1
  OBVIOUS
<1>6. 1 \in 1 .. k + 1
  OBVIOUS
<1>7. [j \in 1 .. 3 |-> IF j <= k THEN paquete[j + 1].v ELSE lector.param[j]] \in TresPalabras
  BY <1>1, <1>4, <1>5 DEF TresPalabras
<1>8. Desarmada(k) \in InstruccionArmada
  BY <1>4, <1>6, <1>7 DEF Desarmada, InstruccionArmada, TresPalabras
<1>9. SubSeq(paquete, k + 2, Len(paquete)) \in Seq(Item)
  BY <1>1
<1>. QED BY <1>8, <1>9

LEMMA InitTipo == Init => TypeOK
<1>. SUFFICES ASSUME Init PROVE TypeOK
  OBVIOUS
<1>1. palabras \in Seq(Palabra)
  BY TextoTipo DEF Init
<1>2. instruc \in [palabra : Palabra, nombre : Palabra, opchar : [1 .. 3 -> Palabra],
                   ptr : [1 .. 3 -> {"nulo", "opchar", "suelto"}]]
  <2>1. PICK n \in {SinIniciar, "F_READ"}, s \in {"nulo", "suelto"}, s3 \in {"nulo", "suelto"} :
          instruc = [palabra |-> Basura, nombre |-> n,
                     opchar |-> [j \in 1 .. 3 |-> Basura],
                     ptr |-> [j \in 1 .. 3 |-> IF j = 3 THEN s3 ELSE s]]
    BY DEF Init
  <2>2. n \in Palabra /\ Basura \in Palabra
    BY BasuraTipo DEF Nombres
  <2>3. [j \in 1 .. 3 |-> IF j = 3 THEN s3 ELSE s] \in [1 .. 3 -> {"nulo", "opchar", "suelto"}]
    OBVIOUS
  <2>4. [j \in 1 .. 3 |-> Basura] \in [1 .. 3 -> Palabra]
    BY <2>2
  <2>. QED BY <2>1, <2>2, <2>3, <2>4
<1>3. lector \in [param : [1 .. 3 -> Palabra], faltan : Nat]
  BY LectorNuevoTipo DEF Init, LectorNuevo
<1>. QED BY <1>1, <1>2, <1>3 DEF Init, TypeOK

LEMMA ParsearTipo == TypeOK /\ Parsear => TypeOK'
<1>. SUFFICES ASSUME TypeOK, Parsear PROVE TypeOK'
  OBVIOUS
<1>1. Leida.resto \in Seq(Palabra) /\ Leida.ins \in Instrucciones
  BY LeidaTipo
<1>. DEFINE l == Leida
            q == EmpaquetarInstruccion(l.ins)
<1>2. q \in Seq(Item)
  BY <1>1, ConsolaEmpaca
<1>. HIDE DEF q
<1>3. palabras' = l.resto /\ instruc' = l.ins /\ UNCHANGED <<programa, lugar, lector, lista, kernel>>
  BY DEF Parsear
<1>4. /\ paquete' \in {paquete \o q, paquete}
      /\ consola' \in {"libera", "parsea", "muerta"}
  BY DEF Parsear, q
<1>. HIDE DEF l
<1>5. paquete \in Seq(Item) /\ paquete \o q \in Seq(Item)
  BY <1>2, ConcatProperties DEF TypeOK
<1>6. paquete' \in Seq(Item)
  BY <1>4, <1>5
<1>. QED BY <1>1, <1>3, <1>4, <1>6 DEF TypeOK, l, Instrucciones, TresPalabras

(* Every turn of a reader that finds its place.                            *)
LEMMA UnaMas ==
  ASSUME TypeOK, NEW a \in Listas, NEW k \in 0 .. 3, Alineado(k), Consumir(k),
         lista' = [lista EXCEPT ![a] = Append(@, Desarmada(k))]
  PROVE  /\ paquete' \in Seq(Item)
         /\ lista' \in TresListas(Seq(InstruccionArmada))
         /\ lista'[a] = Append(lista[a], Desarmada(k))
         /\ \A b \in Listas : b # a => lista'[b] = lista[b]
         /\ Desarmada(k) \in InstruccionArmada
<1>1. Desarmada(k) \in InstruccionArmada /\ paquete' \in Seq(Item)
  BY DesarmadaTipo DEF Consumir
<1>2. lista \in TresListas(Seq(InstruccionArmada)) /\ a \in Listas
  BY DEF TypeOK, TresListas
<1>3. lista[a] \in Seq(InstruccionArmada)
  BY <1>2, UnaLista
<1>. DEFINE v == Append(lista[a], Desarmada(k))
<1>4. v \in Seq(InstruccionArmada)
  BY <1>1, <1>3
<1>5. lista' = Cambiada(lista, a, v)
  BY DEF Cambiada
<1>. HIDE DEF v
<1>6. /\ lista' \in TresListas(Seq(InstruccionArmada)) /\ lista'[a] = v
      /\ \A b \in Listas : b # a => lista'[b] = lista[b]
  BY ONLY <1>2, <1>4, <1>5, CambiaLista
<1>. QED BY <1>1, <1>6 DEF v

LEMMA ObtenerTipo == TypeOK /\ ObtenerInstruccion => TypeOK'
<1>. SUFFICES ASSUME TypeOK, ObtenerInstruccion PROVE TypeOK'
  OBVIOUS
<1>. DEFINE k == IF paquete = << >> \/ paquete[1].t # "op" THEN 0
                 ELSE ParametrosDelKernel(paquete[1].v)
<1>0. k \in 0 .. 3 /\ "kernel" \in Listas
  BY Aridades DEF Listas
<1>1. UNCHANGED <<programa, palabras, instruc, consola, lugar>>
  BY DEF ObtenerInstruccion
<1>2. CASE ~Alineado(k)
  <2>1. kernel' = "desalineado" /\ UNCHANGED <<lista, lector, paquete>>
    BY <1>2 DEF ObtenerInstruccion
  <2>. QED BY <1>1, <2>1 DEF TypeOK
<1>3. CASE Alineado(k)
  <2>1. /\ Consumir(k) /\ kernel' \in {"corre", "obtiene"}
        /\ lector' = [lector EXCEPT !.param = Desarmada(k).param]
        /\ lista' = [lista EXCEPT !.kernel = Append(@, Desarmada(k))]
    BY <1>3 DEF ObtenerInstruccion
  <2>. HIDE DEF k
  <2>2. /\ paquete' \in Seq(Item) /\ Desarmada(k) \in InstruccionArmada
        /\ lista' \in TresListas(Seq(InstruccionArmada))
    BY <1>0, <1>3, <2>1, UnaMas
  <2>3. lector' \in [param : [1 .. 3 -> Palabra], faltan : Nat]
    BY <2>1, <2>2 DEF TypeOK, InstruccionArmada
  <2>. QED BY <1>1, <2>1, <2>2, <2>3 DEF TypeOK, TresListas
<1>. QED BY <1>2, <1>3

LEMMA DesempaquetarTipo == TypeOK /\ lugar # "consola" /\ DesempaquetarInstruccion => TypeOK'
<1>. SUFFICES ASSUME TypeOK, lugar # "consola", DesempaquetarInstruccion PROVE TypeOK'
  OBVIOUS
<1>. DEFINE k == IF paquete = << >> \/ paquete[1].t # "op" THEN 0
                 ELSE cuantosParametros(paquete[1].v)
<1>0. k \in 0 .. 3 /\ lugar \in Listas
  BY Aridades DEF Listas, TypeOK
<1>1. UNCHANGED <<programa, palabras, instruc, consola, lugar>> /\ lector.faltan > 0
  BY DEF DesempaquetarInstruccion
<1>2. CASE ~Alineado(k)
  <2>1. kernel' = "desalineado" /\ UNCHANGED <<lista, lector, paquete>>
    BY <1>2 DEF DesempaquetarInstruccion
  <2>. QED BY <1>1, <2>1 DEF TypeOK
<1>3. CASE Alineado(k)
  <2>1. /\ Consumir(k) /\ UNCHANGED kernel
        /\ lector' = [param |-> Desarmada(k).param, faltan |-> lector.faltan - 1]
        /\ lista' = [lista EXCEPT ![lugar] = Append(@, Desarmada(k))]
    BY <1>3 DEF DesempaquetarInstruccion
  <2>. HIDE DEF k
  <2>2. /\ paquete' \in Seq(Item) /\ Desarmada(k) \in InstruccionArmada
        /\ lista' \in TresListas(Seq(InstruccionArmada))
    BY <1>0, <1>3, <2>1, UnaMas
  <2>3. lector' \in [param : [1 .. 3 -> Palabra], faltan : Nat]
    BY <1>1, <2>1, <2>2 DEF TypeOK, InstruccionArmada
  <2>. QED BY <1>1, <2>1, <2>2, <2>3 DEF TypeOK, TresListas
<1>. QED BY <1>2, <1>3

(* A context on its way: the list of de, and who receives it has none.     *)
LEMMA ContextoSale ==
  ASSUME TypeOK, NEW de \in Listas, NEW a \in Listas, EnviarContexto(de, a)
  PROVE  /\ TypeOK' /\ lista[de] \in Seq(InstruccionArmada)
         /\ lista'[a] = << >> /\ \A b \in Listas : b # a => lista'[b] = lista[b]
<1>1. /\ paquete' = Empaquetada(lista[de]) /\ lector' = LectorNuevo(Len(lista[de]))
      /\ lista' = [lista EXCEPT ![a] = << >>] /\ lugar' = a
      /\ UNCHANGED <<programa, palabras, instruc, consola, kernel>>
  BY DEF EnviarContexto
<1>2. /\ lista \in TresListas(Seq(InstruccionArmada)) /\ << >> \in Seq(InstruccionArmada)
      /\ a \in Listas
  BY DEF TypeOK, TresListas
<1>3. lista[de] \in Seq(InstruccionArmada)
  BY <1>2, UnaLista
<1>4. paquete' \in Seq(Item)
  BY <1>1, <1>3, EmpaquetadaTipo
<1>5. lector' \in [param : [1 .. 3 -> Palabra], faltan : Nat]
  <2>1. Len(lista[de]) \in Nat
    BY <1>3
  <2>. QED BY <1>1, <2>1, LectorNuevoTipo
<1>. DEFINE nada == << >>
<1>9. lista' = Cambiada(lista, a, nada) /\ nada \in Seq(InstruccionArmada)
  BY <1>1 DEF Cambiada
<1>. HIDE DEF nada
<1>10. /\ lista' \in TresListas(Seq(InstruccionArmada)) /\ lista'[a] = nada
       /\ \A b \in Listas : b # a => lista'[b] = lista[b]
  BY ONLY <1>2, <1>9, CambiaLista
<1>6. /\ lista' \in TresListas(Seq(InstruccionArmada)) /\ lista'[a] = << >>
      /\ \A b \in Listas : b # a => lista'[b] = lista[b]
  BY <1>10 DEF nada
<1>7. lugar' \in {"consola", "kernel", "cpu", "respuesta"}
  BY <1>1 DEF Listas
<1>8. TypeOK'
  BY <1>1, <1>4, <1>5, <1>6, <1>7 DEF TypeOK, TresListas
<1>. QED BY <1>3, <1>6, <1>8

LEMMA ConsolaTipo ==
  TypeOK /\ (SinArchivo \/ Liberar \/ EnviarInstrucciones \/ UNCHANGED vars) => TypeOK'
<1>. SUFFICES ASSUME TypeOK, SinArchivo \/ Liberar \/ EnviarInstrucciones \/ UNCHANGED vars
              PROVE  TypeOK'
  OBVIOUS
<1>1. CASE SinArchivo
  BY <1>1 DEF TypeOK, SinArchivo
<1>2. CASE Liberar
  BY <1>2 DEF TypeOK, Liberar
<1>3. CASE EnviarInstrucciones
  <2>1. lector' \in [param : [1 .. 3 -> Palabra], faltan : Nat]
    BY <1>3, LectorNuevoTipo DEF EnviarInstrucciones
  <2>. QED BY <1>3, <2>1 DEF TypeOK, EnviarInstrucciones
<1>4. CASE UNCHANGED vars
  BY <1>4 DEF TypeOK, vars
<1>. QED BY <1>1, <1>2, <1>3, <1>4

-----------------------------------------------------------------------------
(* The first k of a sequence.                                              *)
LEMMA InicioDe ==
  ASSUME NEW T, NEW k \in Nat, NEW s, \A i \in 1 .. k : s[i] \in T
  PROVE  /\ SubSeq(s, 1, k) \in Seq(T) /\ Len(SubSeq(s, 1, k)) = k
         /\ \A i \in 1 .. k : SubSeq(s, 1, k)[i] = s[i]
OBVIOUS

(* The two ends of a context.                                              *)
Otro(a) == IF a = "cpu" THEN "kernel" ELSE "cpu"

(* Whose turn it is.                                                       *)
Turnos ==
  /\ consola # "envio" => lugar = "consola"
  /\ lugar = "consola" => kernel = "espera"
  /\ lugar = "kernel" => kernel \in {"obtiene", "corre", "desalineado"}
  /\ lugar \in {"consola", "kernel"} => lector.faltan = 0
  /\ lugar \in {"cpu", "respuesta"} => kernel = "corre"

(* What is read of an instruction is what was packed of it.                *)
Iguales(x, y) ==
  /\ x.nombre = y.nombre
  /\ \A j \in 1 .. cuantosParametros(y.nombre) : x.param[j] = y.param[j]

(* What is left in the buffer is what is left of the other's list.         *)
EnViaje(o, m, faltan, v) ==
  /\ Len(m) + faltan = Len(o)
  /\ SeSigue(Item, Empaques(o), Len(o), Len(m), v)
  /\ \A i \in 1 .. Len(m) : Iguales(m[i], o[i])

Acuerdo ==
  /\ TypeOK /\ Turnos
  /\ lugar \in {"cpu", "respuesta"} =>
       EnViaje(lista[Otro(lugar)], lista[lugar], lector.faltan, paquete)

LEMMA UsadaIgual ==
  ASSUME NEW x \in InstruccionArmada, NEW y \in InstruccionArmada, Iguales(x, y)
  PROVE  Usada(x) = Usada(y)
<1>. DEFINE k == Operandos(x.nombre)
<1>1. k \in 0 .. 3 /\ k <= cuantosParametros(x.nombre) /\ cuantosParametros(x.nombre) \in 0 .. 3
  BY Aridades
<1>2. x.param \in TresPalabras /\ y.param \in TresPalabras
  BY DEF InstruccionArmada, TresPalabras
<1>3. x.nombre = y.nombre /\ \A j \in 1 .. cuantosParametros(x.nombre) : x.param[j] = y.param[j]
  BY DEF Iguales
<1>. HIDE DEF k
<1>4. \A j \in 1 .. k : x.param[j] = y.param[j]
  BY <1>1, <1>3
<1>5. SubSeq(x.param, 1, k) = SubSeq(y.param, 1, k)
  <2>2. \A i \in 1 .. k : x.param[i] \in Palabra /\ y.param[i] \in Palabra
    BY <1>1, <1>2 DEF TresPalabras
  <2>3. ASSUME NEW s, \A i \in 1 .. k : s[i] \in Palabra
        PROVE  /\ SubSeq(s, 1, k) \in Seq(Palabra) /\ Len(SubSeq(s, 1, k)) = k
               /\ \A i \in 1 .. k : SubSeq(s, 1, k)[i] = s[i]
    BY <1>1, <2>3, InicioDe
  <2>. QED BY <1>1, <1>4, <2>2, <2>3, SeqEqual
<1>. QED BY <1>3, <1>5 DEF Usada, k

LEMMA AcuerdoDice == Acuerdo => LosDosLeenLoMismo
<1>. SUFFICES ASSUME Acuerdo PROVE LosDosLeenLoMismo
  OBVIOUS
<1>1. kernel = "desalineado" => lugar = "kernel"
  BY DEF Acuerdo, Turnos, TypeOK
<1>2. ASSUME lugar \in {"cpu", "respuesta"}
      PROVE  LET otro == IF lugar = "cpu" THEN "kernel" ELSE "cpu"
             IN  /\ Len(lista[lugar]) + lector.faltan = Len(lista[otro])
                 /\ \A i \in 1 .. Len(lista[lugar]) :
                       Usada(lista[lugar][i]) = Usada(lista[otro][i])
  <2>. DEFINE o == lista[Otro(lugar)]
              m == lista[lugar]
  <2>1. lista \in TresListas(Seq(InstruccionArmada)) /\ lugar \in Listas /\ Otro(lugar) \in Listas
    BY <1>2 DEF Acuerdo, TypeOK, TresListas, Listas, Otro
  <2>2. o \in Seq(InstruccionArmada) /\ m \in Seq(InstruccionArmada)
    BY <2>1, UnaLista
  <2>3. EnViaje(o, m, lector.faltan, paquete)
    BY <1>2 DEF Acuerdo
  <2>. HIDE DEF o, m
  <2>4. lector.faltan \in Nat
    BY DEF Acuerdo, TypeOK
  <2>5. /\ Len(m) + lector.faltan = Len(o) /\ Len(m) \in Nat /\ Len(o) \in Nat
        /\ \A i \in 1 .. Len(m) : Iguales(m[i], o[i])
    BY <2>2, <2>3 DEF EnViaje
  <2>6. ASSUME NEW i \in 1 .. Len(m) PROVE Usada(m[i]) = Usada(o[i])
    <3>1. i \in 1 .. Len(o)
      BY <2>4, <2>5
    <3>2. m[i] \in InstruccionArmada /\ o[i] \in InstruccionArmada
      BY <2>2, <3>1
    <3>. QED BY <2>5, <3>2, UsadaIgual
  <2>. QED BY <2>5, <2>6 DEF o, m, Otro
<1>. QED BY <1>1, <1>2 DEF LosDosLeenLoMismo

LEMMA InitAcuerdo == Init => Acuerdo
<1>. SUFFICES ASSUME Init PROVE Acuerdo
  OBVIOUS
<1>1. lugar = "consola" /\ kernel = "espera" /\ lector.faltan = 0
  BY DEF Init
<1>. QED BY <1>1, InitTipo DEF Acuerdo, Turnos

(* While the console has the buffer, and when the kernel gets it.          *)
LEMMA ConsolaAcuerdo ==
  Acuerdo /\ (Parsear \/ SinArchivo \/ Liberar \/ EnviarInstrucciones \/ UNCHANGED vars)
    => Acuerdo'
<1>. SUFFICES ASSUME Acuerdo,
                     Parsear \/ SinArchivo \/ Liberar \/ EnviarInstrucciones \/ UNCHANGED vars
              PROVE  Acuerdo'
  OBVIOUS
<1>1. TypeOK /\ Turnos
  BY DEF Acuerdo
<1>2. TypeOK'
  BY <1>1, ParsearTipo, ConsolaTipo
<1>3. CASE Parsear \/ SinArchivo \/ Liberar
  <2>1. /\ consola \in {"parsea", "sin_archivo", "libera"}
        /\ UNCHANGED <<lugar, lector, lista, kernel>>
    BY <1>3 DEF Parsear, SinArchivo, Liberar
  <2>2. lugar' = "consola" /\ kernel' = "espera" /\ lector'.faltan = 0
    BY <1>1, <2>1 DEF Turnos
  <2>. QED BY <1>2, <2>2 DEF Acuerdo, Turnos
<1>4. CASE EnviarInstrucciones
  <2>1. /\ consola' = "envio" /\ lugar' = "kernel" /\ kernel' = "obtiene"
        /\ lector'.faltan = 0
    BY <1>4 DEF EnviarInstrucciones, LectorNuevo
  <2>. QED BY <1>2, <2>1 DEF Acuerdo, Turnos
<1>5. CASE UNCHANGED vars
  <2>1. UNCHANGED <<consola, lugar, kernel, lector, lista, paquete>>
    BY <1>5 DEF vars
  <2>. QED BY <1>2, <2>1 DEF Acuerdo, Turnos, EnViaje
<1>. QED BY <1>3, <1>4, <1>5

LEMMA ObtenerAcuerdo == Acuerdo /\ ObtenerInstruccion => Acuerdo'
<1>. SUFFICES ASSUME Acuerdo, ObtenerInstruccion PROVE Acuerdo'
  OBVIOUS
<1>1. TypeOK /\ Turnos
  BY DEF Acuerdo
<1>2. TypeOK'
  BY <1>1, ObtenerTipo
<1>3. /\ lugar = "kernel" /\ UNCHANGED <<consola, lugar>>
      /\ kernel' \in {"desalineado", "corre", "obtiene"}
  BY DEF ObtenerInstruccion
<1>4. lector'.faltan = lector.faltan
  BY <1>1 DEF ObtenerInstruccion, TypeOK
<1>. QED BY <1>1, <1>2, <1>3, <1>4 DEF Acuerdo, Turnos

(* The whole of a list, in a buffer nobody has read.                       *)
LEMMA ContextoAcuerdo ==
  ASSUME Acuerdo, NEW a \in {"cpu", "respuesta"}, EnviarContexto(Otro(a), a), lugar # "consola"
  PROVE  Acuerdo'
<1>. DEFINE de == Otro(a)
            o == lista[de]
<1>1. TypeOK /\ Turnos /\ a \in Listas /\ de \in Listas /\ de # a
  BY DEF Acuerdo, Otro, Listas
<1>2. /\ TypeOK' /\ o \in Seq(InstruccionArmada)
      /\ lista'[a] = << >> /\ lista'[de] = o
  BY <1>1, ContextoSale
<1>3. /\ paquete' = Empaquetada(o) /\ lector' = LectorNuevo(Len(o)) /\ lugar' = a
      /\ UNCHANGED <<consola, kernel>> /\ kernel = "corre"
  BY DEF EnviarContexto
<1>4. lector'.faltan = Len(o)
  BY <1>3 DEF LectorNuevo
<1>. HIDE DEF o
<1>5. consola' = "envio"
  BY <1>1, <1>3 DEF Turnos
<1>6. Turnos'
  BY <1>3, <1>5 DEF Turnos
<1>7. Len(<< >>) = 0 /\ Len(o) \in Nat /\ \A i \in 1 .. 0 : FALSE
  BY <1>2
<1>8. SeSigue(Item, Empaques(o), Len(o), 0, paquete')
  BY <1>2, <1>3, EmpaquetadaSeLee DEF SeLee
<1>9. EnViaje(o, << >>, lector'.faltan, paquete')
  BY <1>4, <1>7, <1>8 DEF EnViaje
<1>. QED BY <1>2, <1>3, <1>6, <1>9 DEF Acuerdo

(* There is one more piece, and the rest after it.                         *)
LEMMA HayOtra ==
  ASSUME NEW T, NEW B, NEW n \in Nat, NEW c \in 0 .. n - 1, NEW v, SeSigue(T, B, n, c, v)
  PROVE  \E s \in Seq(T) : v = B[c + 1] \o s /\ SeSigue(T, B, n, c + 1, s)
<1>1. PICK r \in [0 .. n -> Seq(T)] : EsRestos(r, B, n) /\ r[c] = v
  BY DEF SeSigue
<1>2. c + 1 \in 0 .. n
  OBVIOUS
<1>3. v = B[c + 1] \o r[c + 1]
  BY <1>1 DEF EsRestos
<1>4. r[c + 1] \in Seq(T) /\ SeSigue(T, B, n, c + 1, r[c + 1])
  BY <1>1, <1>2 DEF SeSigue
<1>. QED BY <1>3, <1>4

(* What a list is after one more instruction.                              *)
LEMMA Agrega ==
  ASSUME NEW T, NEW m \in Seq(T), NEW x \in T
  PROVE  /\ Append(m, x) \in Seq(T) /\ Len(Append(m, x)) = Len(m) + 1
         /\ Append(m, x)[Len(m) + 1] = x
         /\ \A i \in 1 .. Len(m) : Append(m, x)[i] = m[i]
BY AppendProperties

LEMMA DesempaquetarAcuerdo == Acuerdo /\ DesempaquetarInstruccion => Acuerdo'
<1>. SUFFICES ASSUME Acuerdo, DesempaquetarInstruccion PROVE Acuerdo'
  OBVIOUS
<1>. DEFINE o == lista[Otro(lugar)]
            m == lista[lugar]
            c == Len(m)
            n == Len(o)
            q == o[c + 1]
            k == cuantosParametros(q.nombre)
<1>1. /\ TypeOK /\ Turnos /\ kernel = "corre" /\ lector.faltan > 0
      /\ UNCHANGED <<programa, palabras, instruc, consola, lugar>>
  BY DEF Acuerdo, DesempaquetarInstruccion
<1>2. lugar \in {"cpu", "respuesta"} /\ lector.faltan \in Nat
  BY <1>1 DEF Turnos, TypeOK
<1>3. TypeOK'
  BY <1>1, <1>2, DesempaquetarTipo
<1>4. /\ lugar \in Listas /\ Otro(lugar) \in Listas /\ Otro(lugar) # lugar
      /\ lista \in TresListas(Seq(InstruccionArmada))
  BY <1>1, <1>2 DEF Otro, Listas, TypeOK, TresListas
<1>5. o \in Seq(InstruccionArmada) /\ m \in Seq(InstruccionArmada)
  BY <1>4, UnaLista
<1>6. EnViaje(o, m, lector.faltan, paquete)
  BY <1>2 DEF Acuerdo
<1>. HIDE DEF o, m
<1>7. c \in Nat /\ n \in Nat
  BY <1>5
<1>8. c + lector.faltan = n /\ SeSigue(Item, Empaques(o), n, c, paquete)
  BY <1>6 DEF EnViaje
<1>9. c \in 0 .. n - 1 /\ c + 1 \in 1 .. n
  BY ONLY <1>1, <1>2, <1>7, <1>8
<1>10. q \in InstruccionArmada
  BY <1>5, <1>9
<1>. HIDE DEF c, n
<1>11. PICK s \in Seq(Item) : /\ paquete = Empaques(o)[c + 1] \o s
                              /\ SeSigue(Item, Empaques(o), n, c + 1, s)
  BY ONLY <1>7, <1>8, <1>9, HayOtra
<1>12. Empaques(o)[c + 1] = Empaque(q)
  BY <1>9 DEF Empaques, n
<1>. HIDE DEF q
<1>13. /\ Empaque(q) = Pieza(q.nombre, q.param, k)
       /\ q.nombre \in Palabra /\ k \in 0 .. 3
       /\ \A j \in 1 .. k : q.param[j] \in Palabra
  BY <1>10, EmpaqueTipo
<1>14. paquete = Pieza(q.nombre, q.param, k) \o s
  BY <1>11, <1>12, <1>13
<1>15. /\ Alineado(k) /\ paquete # << >> /\ paquete[1].t = "op" /\ paquete[1].v = q.nombre
       /\ \A j \in 1 .. k : paquete[j + 1].v = q.param[j]
       /\ SubSeq(paquete, k + 2, Len(paquete)) = s
  <2>. DEFINE w == q.nombre
              z == q.param
  <2>1. /\ w \in Palabra /\ k \in 0 .. 3 /\ \A j \in 1 .. k : z[j] \in Palabra
        /\ paquete = Pieza(w, z, k) \o s /\ s \in Seq(Item)
    BY <1>13, <1>14
  <2>. HIDE DEF w, z, k
  <2>2. /\ Alineado(k) /\ paquete # << >> /\ paquete[1].t = "op" /\ paquete[1].v = w
        /\ \A j \in 1 .. k : paquete[j + 1].v = z[j]
        /\ SubSeq(paquete, k + 2, Len(paquete)) = s
    BY ONLY <2>1, Lectura
  <2>. QED BY <2>2 DEF w, z
<1>16. k = IF paquete = << >> \/ paquete[1].t # "op" THEN 0
           ELSE cuantosParametros(paquete[1].v)
  BY <1>15
<1>17. /\ Consumir(k) /\ UNCHANGED kernel
       /\ lector' = [param |-> Desarmada(k).param, faltan |-> lector.faltan - 1]
       /\ lista' = [lista EXCEPT ![lugar] = Append(@, Desarmada(k))]
  BY <1>15, <1>16 DEF DesempaquetarInstruccion
<1>18. /\ lista'[lugar] = Append(m, Desarmada(k)) /\ lista'[Otro(lugar)] = o
       /\ Desarmada(k) \in InstruccionArmada
  BY <1>1, <1>4, <1>13, <1>15, <1>17, UnaMas DEF m, o
<1>19. Iguales(Desarmada(k), q)
  BY <1>13, <1>15 DEF Iguales, Desarmada
<1>. DEFINE d == Desarmada(k)
            m2 == Append(m, d)
<1>. HIDE DEF d, k
<1>20. /\ m2 \in Seq(InstruccionArmada) /\ Len(m2) = c + 1 /\ m2[c + 1] = d
       /\ \A i \in 1 .. c : m2[i] = m[i]
  BY <1>5, <1>18, Agrega DEF c, d
<1>. HIDE DEF m2
<1>21. \A i \in 1 .. c + 1 : Iguales(m2[i], o[i])
  <2>1. \A i \in 1 .. c : Iguales(m[i], o[i])
    BY <1>6 DEF EnViaje, c
  <2>2. \A i \in 1 .. c + 1 : i \in 1 .. c \/ i = c + 1
    BY <1>7
  <2>. QED BY <1>19, <1>20, <2>1, <2>2 DEF q, d
<1>22. lector'.faltan = lector.faltan - 1 /\ (c + 1) + (lector.faltan - 1) = n
  BY <1>2, <1>7, <1>8, <1>17
<1>23. paquete' = s
  BY <1>15, <1>17 DEF Consumir
<1>24. EnViaje(o, m2, lector'.faltan, paquete')
  BY <1>11, <1>20, <1>21, <1>22, <1>23 DEF EnViaje, n
<1>25. Turnos'
  BY <1>1, <1>2, <1>17 DEF Turnos
<1>. QED BY <1>1, <1>3, <1>18, <1>24, <1>25 DEF Acuerdo, m2, d

LEMMA NextAcuerdo == Acuerdo /\ [Next]_vars => Acuerdo'
<1>. SUFFICES ASSUME Acuerdo, [Next]_vars PROVE Acuerdo'
  OBVIOUS
<1>1. CASE Parsear \/ SinArchivo \/ Liberar \/ EnviarInstrucciones \/ UNCHANGED vars
  BY <1>1, ConsolaAcuerdo
<1>2. CASE ObtenerInstruccion
  BY <1>2, ObtenerAcuerdo
<1>3. CASE DesempaquetarInstruccion
  BY <1>3, DesempaquetarAcuerdo
<1>4. CASE EnviarInstruccionCpu
  <2>1. EnviarContexto(Otro("cpu"), "cpu") /\ lugar # "consola"
    BY <1>4 DEF EnviarInstruccionCpu, Otro
  <2>. QED BY <2>1, ContextoAcuerdo
<1>5. CASE EnviarInstruccionKernel
  <2>1. EnviarContexto(Otro("respuesta"), "respuesta") /\ lugar # "consola"
    BY <1>5 DEF EnviarInstruccionKernel, Otro
  <2>. QED BY <2>1, ContextoAcuerdo
<1>. QED BY <1>1, <1>2, <1>3, <1>4, <1>5 DEF Next

(* The types hold: every item, every instruction of every list and every   *)
(* parameter, stale or not, is one.                                        *)
THEOREM TiposDePseudocodigo == Spec => []TypeOK
<1>1. Acuerdo => TypeOK
  BY DEF Acuerdo
<1>. QED BY <1>1, InitAcuerdo, NextAcuerdo, PTL DEF Spec

(* From the kernel on, both ends of every context read the same list,      *)
(* whatever the user wrote (empaquetar_lista_instrucciones and             *)
(* desempaquetar_lista_instrucciones).                                     *)
THEOREM AcuerdoInvariante == Spec => []LosDosLeenLoMismo
BY AcuerdoDice, InitAcuerdo, NextAcuerdo, PTL DEF Spec

-----------------------------------------------------------------------------
(* What a careful user wrote.                                              *)

(* What the console should pack of each instruction.                       *)
Piezas(p) == [i \in 1 .. Len(p) |-> Pieza(p[i].nombre, p[i].args, Operandos(p[i].nombre))]

(* Reading x: its name and operands are in a buffer, or in a list.         *)
Cabal(x) ==
  /\ x \in Escritas /\ x.nombre \in Nombres
  /\ Len(x.args) = Operandos(x.nombre) /\ Operandos(x.nombre) \in 0 .. 3
  /\ \A j \in 1 .. Operandos(x.nombre) : x.args[j] \in Palabra

LEMMA ProgramaCabal ==
  ASSUME programa \in Programas, BienFormado(programa)
  PROVE  /\ programa \in Seq(Escritas) /\ Len(programa) \in Nat /\ Len(programa) > 0
         /\ \A i \in 1 .. Len(programa) : Cabal(programa[i])
         /\ \A i \in 1 .. Len(programa) : programa[i].nombre = "EXIT" <=> i = Len(programa)
         /\ Piezas(programa) \in [1 .. Len(programa) -> Seq(Item)]
<1>1. programa \in Seq(Escritas)
  BY ProgramasAssumption DEF Escritas
<1>2. Len(programa) \in Nat /\ \A i \in 1 .. Len(programa) : programa[i] \in Escritas
  BY <1>1
<1>3. /\ Len(programa) > 0
      /\ \A i \in 1 .. Len(programa) : /\ programa[i].nombre \in Nombres
                                       /\ Len(programa[i].args) = Operandos(programa[i].nombre)
                                       /\ programa[i].nombre = "EXIT" <=> i = Len(programa)
  BY DEF BienFormado
<1>4. ASSUME NEW i \in 1 .. Len(programa) PROVE Cabal(programa[i])
  <2>. DEFINE x == programa[i]
  <2>1. x \in Escritas /\ x.nombre \in Nombres /\ Len(x.args) = Operandos(x.nombre)
    BY <1>2, <1>3
  <2>. HIDE DEF x
  <2>2. Operandos(x.nombre) \in 0 .. 3
    BY Aridades
  <2>3. x.args \in Seq(Palabra)
    BY <2>1 DEF Escritas
  <2>4. \A j \in 1 .. Operandos(x.nombre) : x.args[j] \in Palabra
    BY <2>1, <2>3
  <2>. QED BY <2>1, <2>2, <2>4 DEF Cabal, x
<1>5. ASSUME NEW i \in 1 .. Len(programa)
      PROVE  Pieza(programa[i].nombre, programa[i].args, Operandos(programa[i].nombre)) \in Seq(Item)
  <2>. DEFINE n == programa[i].nombre
              a == programa[i].args
              k == Operandos(n)
  <2>1. n \in Palabra /\ k \in 0 .. 3 /\ \A j \in 1 .. k : a[j] \in Palabra
    BY <1>4, BasuraTipo DEF Cabal
  <2>. HIDE DEF n, a, k
  <2>2. Pieza(n, a, k) \in Seq(Item)
    BY <2>1, PiezaTipo
  <2>. QED BY <2>2 DEF n, a, k
<1>6. Piezas(programa) \in [1 .. Len(programa) -> Seq(Item)]
  BY <1>5 DEF Piezas
<1>. QED BY <1>1, <1>2, <1>3, <1>4, <1>6

LEMMA PrimeraYResto ==
  ASSUME NEW T, NEW e \in T, NEW y \in Seq(T), NEW v, v = <<e>> \o y
  PROVE  v # << >> /\ Head(v) = e /\ Tail(v) = y
<1>. DEFINE b == <<e>>
<1>1. b \in Seq(T) /\ Len(b) = 1 /\ b[1] = e
  BY Unitaria
<1>. HIDE DEF b
<1>2. v = b \o y /\ Len(y) \in Nat
  BY DEF b
<1>3. /\ v \in Seq(T) /\ Len(v) = Len(b) + Len(y)
      /\ \A i \in 1 .. Len(b) + Len(y) : v[i] = IF i <= Len(b) THEN b[i] ELSE y[i - Len(b)]
  BY ONLY <1>1, <1>2, y \in Seq(T), ConcatProperties
<1>4. Len(v) = 1 + Len(y) /\ 1 \in 1 .. Len(b) + Len(y) /\ 1 <= Len(b)
  BY <1>1, <1>2, <1>3
<1>5. v[1] = e
  BY <1>1, <1>3, <1>4
<1>6. v # << >>
  BY <1>2, <1>4
<1>7. Tail(v) = SubSeq(v, 2, Len(v))
  BY <1>3, <1>6, TailIsSubSeq
<1>8. SubSeq(b \o y, Len(b) + 1, Len(b \o y)) = y
  BY <1>1, Saltea
<1>9. Tail(v) = y
  BY <1>1, <1>2, <1>7, <1>8
<1>. QED BY <1>5, <1>6, <1>9

(* The parser reads one instruction, its line being next in the file.      *)
LEMMA LeeLinea ==
  ASSUME TypeOK, NEW x, Cabal(x), NEW s \in Seq(Palabra), palabras = Linea(x) \o s
  PROVE  /\ Leida.resto = s /\ Leida.ins.palabra = x.nombre /\ Leida.ins.nombre = x.nombre
         /\ Leida.ins.ptr = Punteros(x.nombre, instruc.ptr)
         /\ \A j \in 1 .. Operandos(x.nombre) : Leida.ins.opchar[j] = x.args[j]
<1>. DEFINE p == IF palabras = << >> THEN instruc.palabra ELSE Head(palabras)
            r == IF palabras = << >> THEN << >> ELSE Tail(palabras)
            k == IF p \in Nombres THEN Operandos(p) ELSE 0
            n == IF k < Len(r) THEN k ELSE Len(r)
            ins == [palabra |-> p,
                    nombre |-> IF p \in Nombres THEN p ELSE instruc.nombre,
                    opchar |-> [j \in 1 .. 3 |-> IF j <= n THEN r[j] ELSE instruc.opchar[j]],
                    ptr |-> IF p \in Nombres THEN Punteros(p, instruc.ptr) ELSE instruc.ptr]
            a == x.args
            b == <<x.nombre>>
            as == a \o s
<1>1. Leida = [resto |-> SubSeq(r, n + 1, Len(r)), ins |-> ins]
  BY DEF Leida
<1>2. x.nombre \in Palabra /\ x.nombre \in Nombres
  BY BasuraTipo DEF Cabal
<1>3. a \in Seq(Palabra) /\ Len(a) = Operandos(x.nombre) /\ Operandos(x.nombre) \in 0 .. 3
  BY DEF Cabal, Escritas
<1>4. b \in Seq(Palabra) /\ Len(b) = 1 /\ b[1] = x.nombre
  BY <1>2, Unitaria
<1>5. palabras = (b \o a) \o s
  BY DEF Linea
<1>. HIDE DEF p, r, k, n, ins, a, b
<1>6. palabras = b \o as
  BY <1>3, <1>4, <1>5, Asociativa
<1>7. /\ as \in Seq(Palabra) /\ Len(as) = Len(a) + Len(s) /\ Len(s) \in Nat
      /\ \A i \in 1 .. Len(a) + Len(s) : as[i] = IF i <= Len(a) THEN a[i] ELSE s[i - Len(a)]
  BY <1>3, ConcatProperties, LenProperties
<1>8. SubSeq(as, Len(a) + 1, Len(as)) = s
  BY <1>3, Saltea
<1>. HIDE DEF as
<1>9. palabras # << >> /\ Head(palabras) = x.nombre /\ Tail(palabras) = as
  BY ONLY <1>2, <1>6, <1>7, PrimeraYResto DEF b
<1>11. p = x.nombre
  BY <1>9 DEF p
<1>12. r = as
  BY <1>9 DEF r
<1>13. k = Operandos(x.nombre)
  BY <1>2, <1>11 DEF k
<1>14. n = k
  <2>1. k = Len(a) /\ k \in 0 .. 3 /\ Len(r) = Len(a) + Len(s)
    BY <1>3, <1>7, <1>12, <1>13
  <2>2. k <= Len(r) /\ k \in Nat /\ Len(r) \in Nat
    BY ONLY <1>7, <2>1
  <2>. QED BY <2>2 DEF n
<1>15. SubSeq(r, n + 1, Len(r)) = s
  BY <1>3, <1>8, <1>12, <1>13, <1>14
<1>16. ASSUME NEW j \in 1 .. k PROVE ins.opchar[j] = a[j]
  <2>1. j \in 1 .. 3 /\ j <= n /\ j <= Len(a) /\ j \in 1 .. Len(a) + Len(s)
    BY <1>3, <1>7, <1>13, <1>14
  <2>2. ins.opchar[j] = r[j]
    BY <2>1 DEF ins
  <2>. QED BY <1>7, <1>12, <2>1, <2>2
<1>17. /\ ins.palabra = x.nombre /\ ins.nombre = x.nombre
       /\ ins.ptr = Punteros(x.nombre, instruc.ptr)
  BY <1>2, <1>11 DEF ins
<1>18. Leida.resto = s /\ Leida.ins = ins
  BY <1>1, <1>15
<1>. QED BY <1>13, <1>16, <1>17, <1>18 DEF a

(* And packs it as it should, unless parametro3 of F_SEEK is loose.        *)
LEMMA EmpacaLinea ==
  ASSUME TypeOK, NEW x, Cabal(x), NEW ins, ins.nombre = x.nombre,
         ins.ptr = Punteros(x.nombre, instruc.ptr),
         \A j \in 1 .. Operandos(x.nombre) : ins.opchar[j] = x.args[j],
         x.nombre = "F_SEEK" => instruc.ptr[3] = "nulo"
  PROVE  /\ EmpaquetarInstruccion(ins) = Pieza(x.nombre, x.args, Operandos(x.nombre))
         /\ ~PunteroSuelto(ins)
<1>. DEFINE k == Operandos(x.nombre)
            P == ins.ptr
<1>1. k \in 0 .. 3 /\ (x.nombre = "F_SEEK" => k = 2)
  BY Aridades DEF Operandos
<1>2. /\ \A j \in 1 .. 3 : j <= k => P[j] = "opchar"
      /\ \A j \in 1 .. 3 : ~(j <= k) /\ x.nombre # "F_SEEK" => P[j] = "nulo"
      /\ x.nombre = "F_SEEK" => P[3] = "nulo"
  BY <1>1 DEF Punteros
<1>. HIDE DEF P
<1>3. \A j \in 1 .. 3 : P[j] = IF j <= k THEN "opchar" ELSE "nulo"
  <2>. HIDE DEF k
  <2>1. \A j \in 1 .. 3 : ~(j <= 2) => j = 3
    OBVIOUS
  <2>. QED BY <1>1, <1>2, <2>1
<1>. HIDE DEF k
<1>4. CuantosEmpaqueta(P) = k
  <2>1. 1 \in 1 .. 3 /\ 2 \in 1 .. 3 /\ 3 \in 1 .. 3
    OBVIOUS
  <2>2. /\ P[1] = IF 1 <= k THEN "opchar" ELSE "nulo"
        /\ P[2] = IF 2 <= k THEN "opchar" ELSE "nulo"
        /\ P[3] = IF 3 <= k THEN "opchar" ELSE "nulo"
    BY <1>3, <2>1
  <2>3. k = 0 \/ k = 1 \/ k = 2 \/ k = 3
    BY <1>1
  <2>. QED BY <2>2, <2>3 DEF CuantosEmpaqueta
<1>5. \A j \in 1 .. k : P[j] = "opchar"
  BY <1>1, <1>3
<1>6. EmpaquetarInstruccion(ins) = Pieza(x.nombre, x.args, k)
  BY <1>4, <1>5 DEF EmpaquetarInstruccion, Pieza, P, k
<1>7. ~PunteroSuelto(ins)
  BY <1>4, <1>5 DEF PunteroSuelto, P
<1>. QED BY <1>6, <1>7 DEF k

-----------------------------------------------------------------------------
(* The program on its way, from the file to the list of the PCB.           *)

(* The first c pieces are packed.                                          *)
Empacado(B, n, c, v) == \E g : EsPrefijos(g, B, n) /\ g[c] = v

LEMMA EmpacaOtra ==
  ASSUME NEW B, NEW n \in Nat, NEW c \in 0 .. n - 1, NEW v, Empacado(B, n, c, v)
  PROVE  Empacado(B, n, c + 1, v \o B[c + 1])
<1>1. PICK g : EsPrefijos(g, B, n) /\ g[c] = v
  BY DEF Empacado
<1>2. c + 1 \in 0 .. n /\ c + 1 # 0 /\ (c + 1) - 1 = c
  OBVIOUS
<1>3. g[c + 1] = v \o B[c + 1]
  BY <1>1, <1>2 DEF EsPrefijos
<1>. QED BY <1>1, <1>3 DEF Empacado

LEMMA EmpacadoSeLee ==
  ASSUME NEW T, NEW n \in Nat, NEW B \in [1 .. n -> Seq(T)], NEW v, Empacado(B, n, n, v)
  PROVE  SeLee(T, B, n, v)
<1>1. PICK g : EsPrefijos(g, B, n) /\ g[n] = v
  BY DEF Empacado
<1>2. SeLee(T, B, n, g[n])
  BY <1>1, HayRestos
<1>. QED BY <1>1, <1>2

(* The parser is between two instructions, and parametro3 is NULL unless   *)
(* the last one used it or there was none.                                 *)
ParseaDesde(n) ==
  /\ SeSigue(Palabra, Lineas(programa), Len(programa), n, palabras)
  /\ Empacado(Piezas(programa), Len(programa), n, paquete)
  /\ n # 0 /\ programa[n].nombre \notin {"F_READ", "F_WRITE"} => instruc.ptr[3] = "nulo"
Parseando == consola = "parsea" => \E n \in 0 .. Len(programa) - 1 : ParseaDesde(n)

(* The console has packed the whole program.                               *)
Entero ==
  consola = "libera" \/ (consola = "envio" /\ lugar = "consola") =>
    SeLee(Item, Piezas(programa), Len(programa), paquete)

(* The kernel has unpacked some of it, or all.                             *)
Obteniendo ==
  /\ kernel # "desalineado"
  /\ lugar = "consola" => lista["kernel"] = << >>
  /\ kernel = "obtiene" =>
       /\ Len(lista["kernel"]) < Len(programa)
       /\ SeSigue(Item, Piezas(programa), Len(programa), Len(lista["kernel"]), paquete)
  /\ kernel = "corre" => Len(lista["kernel"]) = Len(programa)

(* A list that says what the user wrote.                                   *)
Fiel(l) ==
  /\ Len(l) <= Len(programa)
  /\ \A i \in 1 .. Len(l) : Usada(l[i]) = Escrita(programa[i])

EnCamino == Parseando /\ Entero /\ Obteniendo /\ \A a \in Listas : Fiel(lista[a])

ListaInv == Acuerdo /\ (BienFormado(programa) => EnCamino)

LEMMA ListaInvDice == ListaInv => ListaEsElPrograma
<1>. SUFFICES ASSUME ListaInv, BienFormado(programa)
              PROVE  /\ kernel # "desalineado"
                     /\ kernel = "corre" => Len(lista.kernel) = Len(programa)
                     /\ \A k \in {"kernel", "cpu", "respuesta"} :
                           /\ Len(lista[k]) <= Len(programa)
                           /\ \A i \in 1 .. Len(lista[k]) :
                                 Usada(lista[k][i]) = Escrita(programa[i])
  BY DEF ListaEsElPrograma
<1>1. EnCamino
  BY DEF ListaInv
<1>2. lista.kernel = lista["kernel"]
  BY DEF ListaInv, Acuerdo, TypeOK
<1>3. kernel # "desalineado" /\ (kernel = "corre" => Len(lista.kernel) = Len(programa))
  BY <1>1, <1>2 DEF EnCamino, Obteniendo
<1>4. \A k \in {"kernel", "cpu", "respuesta"} :
         /\ Len(lista[k]) <= Len(programa)
         /\ \A i \in 1 .. Len(lista[k]) : Usada(lista[k][i]) = Escrita(programa[i])
  BY <1>1 DEF EnCamino, Fiel, Listas
<1>. QED BY <1>3, <1>4

LEMMA InitLista == Init => ListaInv
<1>. SUFFICES ASSUME Init, BienFormado(programa) PROVE EnCamino
  BY InitAcuerdo DEF ListaInv
<1>. DEFINE L == Len(programa)
<1>1. programa \in Programas /\ programa \in Seq(Escritas) /\ L \in Nat /\ L > 0
  BY ProgramaCabal DEF Init
<1>. HIDE DEF L
<1>2. SeSigue(Palabra, Lineas(programa), L, 0, palabras)
  BY <1>1, TextoSeLee DEF Init, SeLee, L
<1>3. Empacado(Piezas(programa), L, 0, paquete)
  <2>1. PICK g : EsPrefijos(g, Piezas(programa), L)
    BY <1>1, HayPrefijos
  <2>2. g[0] = << >>
    BY <1>1, <2>1 DEF EsPrefijos
  <2>. QED BY <2>1, <2>2 DEF Empacado, Init
<1>4. 0 \in 0 .. L - 1
  BY <1>1
<1>5. Parseando
  BY <1>2, <1>3, <1>4 DEF Parseando, ParseaDesde, L
<1>6. /\ consola \notin {"libera", "envio"} /\ kernel = "espera" /\ lugar = "consola"
      /\ lista["kernel"] = << >> /\ \A a \in Listas : lista[a] = << >>
  BY DEF Init, Listas
<1>7. Entero /\ Obteniendo
  BY <1>6 DEF Entero, Obteniendo
<1>8. Fiel(<< >>)
  <2>1. Len(<< >>) = 0 /\ \A i \in 1 .. 0 : FALSE
    OBVIOUS
  <2>. QED BY <1>1, <2>1 DEF Fiel, L
<1>. QED BY <1>5, <1>6, <1>7, <1>8 DEF EnCamino

(* parametro3 of the F_SEEK a careful user writes is NULL.                 *)
LEMMA TerceroNulo ==
  ASSUME programa \in Programas, BienFormado(programa), NEW n \in 0 .. Len(programa) - 1,
         ParseaDesde(n), programa[n + 1].nombre = "F_SEEK"
  PROVE  instruc.ptr[3] = "nulo"
<1>1. Len(programa) \in Nat /\ n + 1 \in 1 .. Len(programa) /\ (n + 1) - 1 = n /\ n \in Nat
  BY ProgramaCabal
<1>2. PICK j \in 1 .. n : /\ AnulaTercero(programa[j].nombre)
                          /\ \A h \in (j + 1) .. n : programa[h].nombre = "F_SEEK"
  BY <1>1 DEF BienFormado
<1>3. n # 0 /\ (j = n \/ n \in (j + 1) .. n)
  BY <1>1
<1>4. programa[n].nombre \notin {"F_READ", "F_WRITE"}
  BY <1>2, <1>3 DEF AnulaTercero
<1>. QED BY <1>3, <1>4 DEF ParseaDesde

LEMMA ParsearLista ==
  ASSUME TypeOK, Turnos, BienFormado(programa), EnCamino, Parsear
  PROVE  EnCamino'
<1>. DEFINE L == Len(programa)
            B == Piezas(programa)
            l == Leida
<1>1. /\ programa \in Programas /\ consola = "parsea" /\ lugar = "consola"
      /\ UNCHANGED <<programa, lugar, lector, lista, kernel>>
  BY DEF TypeOK, Turnos, Parsear
<1>2. /\ L \in Nat /\ L > 0 /\ \A i \in 1 .. L : Cabal(programa[i])
      /\ \A i \in 1 .. L : programa[i].nombre = "EXIT" <=> i = L
      /\ B \in [1 .. L -> Seq(Item)]
  BY <1>1, ProgramaCabal
<1>3. PICK n \in 0 .. L - 1 : ParseaDesde(n)
  BY <1>1 DEF EnCamino, Parseando
<1>. DEFINE x == programa[n + 1]
<1>. HIDE DEF L, B
<1>4. n + 1 \in 1 .. L /\ n + 1 \in 0 .. L /\ n + 1 # 0 /\ (n + 1 # L => n + 1 \in 0 .. L - 1)
  BY <1>2
<1>5. Cabal(x) /\ (x.nombre = "EXIT" <=> n + 1 = L)
  BY <1>2, <1>4
<1>6. PICK s \in Seq(Palabra) : /\ palabras = Lineas(programa)[n + 1] \o s
                                /\ SeSigue(Palabra, Lineas(programa), L, n + 1, s)
  BY <1>2, <1>3, HayOtra DEF ParseaDesde, L
<1>7. Lineas(programa)[n + 1] = Linea(x)
  BY <1>4 DEF Lineas, L
<1>8. x.nombre = "F_SEEK" => instruc.ptr[3] = "nulo"
  BY <1>1, <1>3, TerceroNulo DEF L
<1>9. Empacado(B, L, n + 1, paquete \o B[n + 1])
  BY <1>2, <1>3, EmpacaOtra DEF ParseaDesde, L, B
<1>10. B[n + 1] = Pieza(x.nombre, x.args, Operandos(x.nombre))
  BY <1>4 DEF Piezas, B, L
<1>. HIDE DEF x
<1>11. /\ l.resto = s /\ l.ins.palabra = x.nombre /\ l.ins.nombre = x.nombre
       /\ l.ins.ptr = Punteros(x.nombre, instruc.ptr)
       /\ \A j \in 1 .. Operandos(x.nombre) : l.ins.opchar[j] = x.args[j]
  BY <1>5, <1>6, <1>7, LeeLinea
<1>12. /\ palabras' = l.resto /\ instruc' = l.ins
       /\ \/ /\ paquete' = paquete \o EmpaquetarInstruccion(l.ins)
             /\ consola' = IF l.ins.palabra = "EXIT" THEN "libera" ELSE "parsea"
          \/ PunteroSuelto(l.ins)
  BY DEF Parsear
<1>. HIDE DEF l
<1>13. /\ EmpaquetarInstruccion(l.ins) = Pieza(x.nombre, x.args, Operandos(x.nombre))
       /\ ~PunteroSuelto(l.ins)
  <2>. DEFINE i == l.ins
  <2>1. /\ i.nombre = x.nombre /\ i.ptr = Punteros(x.nombre, instruc.ptr)
        /\ \A j \in 1 .. Operandos(x.nombre) : i.opchar[j] = x.args[j]
    BY <1>11
  <2>. HIDE DEF i
  <2>2. /\ EmpaquetarInstruccion(i) = Pieza(x.nombre, x.args, Operandos(x.nombre))
        /\ ~PunteroSuelto(i)
    BY <1>5, <1>8, <2>1, EmpacaLinea
  <2>. QED BY <2>2 DEF i
<1>14. /\ palabras' = s /\ paquete' = paquete \o B[n + 1]
       /\ consola' = IF n + 1 = L THEN "libera" ELSE "parsea"
       /\ instruc'.ptr = Punteros(x.nombre, instruc.ptr)
  BY <1>5, <1>10, <1>11, <1>12, <1>13
<1>15. Empacado(B, L, n + 1, paquete')
  BY <1>9, <1>14
<1>16. x.nombre \notin {"F_READ", "F_WRITE"} => instruc'.ptr[3] = "nulo"
  <2>1. x.nombre \notin {"F_READ", "F_WRITE"} => ~(3 <= Operandos(x.nombre))
    BY DEF Operandos
  <2>2. 3 \in 1 .. 3
    OBVIOUS
  <2>. QED BY <1>8, <1>14, <2>1, <2>2 DEF Punteros
<1>17. Parseando'
  <2>. SUFFICES ASSUME consola' = "parsea" PROVE ParseaDesde(n + 1)' /\ n + 1 \in 0 .. L - 1
    BY <1>1 DEF Parseando, L
  <2>1. n + 1 \in 0 .. L - 1
    BY <1>4, <1>14
  <2>2. SeSigue(Palabra, Lineas(programa), L, n + 1, palabras')
    BY <1>6, <1>14
  <2>. QED BY <1>1, <1>15, <1>16, <2>1, <2>2 DEF ParseaDesde, x, L, B
<1>18. Entero'
  <2>1. CASE n + 1 = L
    <3>1. SeLee(Item, B, L, paquete')
      BY <1>2, <1>15, <2>1, EmpacadoSeLee
    <3>. QED BY <1>1, <3>1 DEF Entero, L, B
  <2>2. CASE n + 1 # L
    BY <1>14, <2>2 DEF Entero
  <2>. QED BY <2>1, <2>2
<1>19. kernel' = "espera" /\ lugar' = "consola"
  BY <1>1 DEF Turnos
<1>20. Obteniendo'
  BY <1>1, <1>19 DEF Obteniendo, EnCamino
<1>21. \A a \in Listas : Fiel(lista[a])'
  BY <1>1 DEF Fiel, EnCamino
<1>. QED BY <1>17, <1>18, <1>20, <1>21 DEF EnCamino

LEMMA ConsolaLista ==
  ASSUME TypeOK, Turnos, BienFormado(programa), EnCamino,
         SinArchivo \/ Liberar \/ EnviarInstrucciones \/ UNCHANGED vars
  PROVE  EnCamino'
<1>1. UNCHANGED <<programa, palabras, instruc, paquete, lista>>
  BY DEF SinArchivo, Liberar, EnviarInstrucciones, vars
<1>2. \A a \in Listas : Fiel(lista[a])'
  BY <1>1 DEF Fiel, EnCamino
<1>3. CASE SinArchivo \/ Liberar
  <2>1. /\ consola \in {"sin_archivo", "libera"} /\ consola' \in {"muerta", "envio"}
        /\ consola' = "envio" => consola = "libera"
        /\ UNCHANGED <<lugar, lector, kernel>>
    BY <1>3 DEF SinArchivo, Liberar
  <2>2. Parseando'
    BY <2>1 DEF Parseando
  <2>3. Entero'
    BY <1>1, <2>1 DEF Entero, EnCamino
  <2>4. Obteniendo'
    BY <1>1, <2>1 DEF Obteniendo, EnCamino
  <2>. QED BY <1>2, <2>2, <2>3, <2>4 DEF EnCamino
<1>4. CASE EnviarInstrucciones
  <2>1. /\ consola = "envio" /\ lugar = "consola"
        /\ consola' = "envio" /\ lugar' = "kernel" /\ kernel' = "obtiene"
    BY <1>4 DEF EnviarInstrucciones
  <2>2. Parseando' /\ Entero'
    BY <2>1 DEF Parseando, Entero
  <2>3. lista["kernel"] = << >> /\ SeLee(Item, Piezas(programa), Len(programa), paquete)
    BY <2>1 DEF EnCamino, Obteniendo, Entero
  <2>4. Len(programa) > 0 /\ Len(<< >>) = 0
    BY ProgramaCabal DEF TypeOK
  <2>5. Obteniendo'
    BY <1>1, <2>1, <2>3, <2>4 DEF Obteniendo, SeLee
  <2>. QED BY <1>2, <2>2, <2>5 DEF EnCamino
<1>5. CASE UNCHANGED vars
  <2>1. UNCHANGED <<consola, lugar, kernel>>
    BY <1>5 DEF vars
  <2>2. Parseando'
    BY <1>1, <2>1 DEF Parseando, ParseaDesde, EnCamino
  <2>3. Entero'
    BY <1>1, <2>1 DEF Entero, EnCamino
  <2>4. Obteniendo'
    BY <1>1, <2>1 DEF Obteniendo, EnCamino
  <2>. QED BY <1>2, <2>2, <2>3, <2>4 DEF EnCamino
<1>. QED BY <1>3, <1>4, <1>5

(* The kernel puts in its list what the user wrote.                        *)
LEMMA UsadaEsEscrita ==
  ASSUME NEW x, Cabal(x), NEW d \in InstruccionArmada, d.nombre = x.nombre,
         \A j \in 1 .. Operandos(x.nombre) : d.param[j] = x.args[j]
  PROVE  Usada(d) = Escrita(x)
<1>. DEFINE k == Operandos(x.nombre)
            a == x.args
<1>1. a \in Seq(Palabra) /\ Len(a) = k /\ k \in 0 .. 3 /\ \A j \in 1 .. k : a[j] \in Palabra
  BY DEF Cabal, Escritas
<1>2. \A j \in 1 .. k : d.param[j] = a[j]
  OBVIOUS
<1>3. Usada(d) = <<x.nombre, SubSeq(d.param, 1, k)>> /\ Escrita(x) = <<x.nombre, a>>
  BY DEF Usada, Escrita
<1>. HIDE DEF k, a
<1>4. /\ SubSeq(d.param, 1, k) \in Seq(Palabra) /\ Len(SubSeq(d.param, 1, k)) = k
      /\ \A i \in 1 .. k : SubSeq(d.param, 1, k)[i] = d.param[i]
  BY <1>1, <1>2, InicioDe
<1>5. SubSeq(d.param, 1, k) = a
  BY <1>1, <1>2, <1>4, SeqEqual
<1>. QED BY <1>3, <1>5

LEMMA ObtenerLista ==
  ASSUME TypeOK, Turnos, BienFormado(programa), EnCamino, ObtenerInstruccion
  PROVE  EnCamino'
<1>. DEFINE L == Len(programa)
            B == Piezas(programa)
            m == lista["kernel"]
            c == Len(m)
            x == programa[c + 1]
            k == Operandos(x.nombre)
<1>1. /\ programa \in Programas /\ lugar = "kernel" /\ kernel = "obtiene"
      /\ consola = "envio" /\ UNCHANGED <<programa, palabras, instruc, consola, lugar>>
  BY DEF TypeOK, Turnos, ObtenerInstruccion
<1>2. /\ L \in Nat /\ L > 0 /\ \A i \in 1 .. L : Cabal(programa[i])
      /\ \A i \in 1 .. L : programa[i].nombre = "EXIT" <=> i = L
      /\ B \in [1 .. L -> Seq(Item)]
  BY <1>1, ProgramaCabal
<1>3. lista \in TresListas(Seq(InstruccionArmada)) /\ "kernel" \in Listas
  BY DEF TypeOK, TresListas, Listas
<1>4. m \in Seq(InstruccionArmada) /\ c \in Nat
  BY <1>3, UnaLista
<1>5. c < L /\ SeSigue(Item, B, L, c, paquete)
  BY <1>1 DEF EnCamino, Obteniendo
<1>6. Fiel(m)
  BY <1>3 DEF EnCamino
<1>. HIDE DEF L, B, m
<1>7. c \in 0 .. L - 1 /\ c + 1 \in 1 .. L /\ (c + 1 # L => c + 1 < L)
  BY ONLY <1>2, <1>4, <1>5
<1>. HIDE DEF c
<1>8. Cabal(x) /\ (x.nombre = "EXIT" <=> c + 1 = L)
  BY <1>2, <1>7
<1>9. PICK s \in Seq(Item) : paquete = B[c + 1] \o s /\ SeSigue(Item, B, L, c + 1, s)
  BY ONLY <1>2, <1>5, <1>7, HayOtra
<1>10. B[c + 1] = Pieza(x.nombre, x.args, k)
  BY <1>7 DEF Piezas, B, L
<1>. HIDE DEF x
<1>11. /\ Alineado(k) /\ paquete # << >> /\ paquete[1].t = "op" /\ paquete[1].v = x.nombre
       /\ \A j \in 1 .. k : paquete[j + 1].v = x.args[j]
       /\ SubSeq(paquete, k + 2, Len(paquete)) = s
  <2>. DEFINE w == x.nombre
              z == x.args
  <2>1. /\ w \in Palabra /\ k \in 0 .. 3 /\ \A j \in 1 .. k : z[j] \in Palabra
        /\ paquete = Pieza(w, z, k) \o s /\ s \in Seq(Item)
    BY <1>8, <1>9, <1>10, BasuraTipo DEF Cabal
  <2>. HIDE DEF w, z, k
  <2>2. /\ Alineado(k) /\ paquete # << >> /\ paquete[1].t = "op" /\ paquete[1].v = w
        /\ \A j \in 1 .. k : paquete[j + 1].v = z[j]
        /\ SubSeq(paquete, k + 2, Len(paquete)) = s
    BY ONLY <2>1, Lectura
  <2>. QED BY <2>2 DEF w, z
<1>12. k \in 0 .. 3 /\ ParametrosDelKernel(x.nombre) = k
  BY <1>8, Aridades DEF Cabal
<1>13. k = IF paquete = << >> \/ paquete[1].t # "op" THEN 0
           ELSE ParametrosDelKernel(paquete[1].v)
  BY <1>11, <1>12
<1>14. /\ Consumir(k)
       /\ lista' = [lista EXCEPT !.kernel = Append(@, Desarmada(k))]
       /\ kernel' = IF paquete[1].v = "EXIT" THEN "corre" ELSE "obtiene"
  BY <1>11, <1>13 DEF ObtenerInstruccion
<1>15. /\ lista'["kernel"] = Append(m, Desarmada(k)) /\ Desarmada(k) \in InstruccionArmada
       /\ \A b \in Listas : b # "kernel" => lista'[b] = lista[b]
  BY <1>3, <1>11, <1>12, <1>14, UnaMas DEF m
<1>16. Usada(Desarmada(k)) = Escrita(x)
  <2>1. /\ Desarmada(k).nombre = x.nombre
        /\ \A j \in 1 .. k : Desarmada(k).param[j] = x.args[j]
    BY <1>11, <1>12 DEF Desarmada
  <2>. QED BY <1>8, <1>15, <2>1, UsadaEsEscrita
<1>. DEFINE d == Desarmada(k)
            m2 == Append(m, d)
<1>. HIDE DEF d, k
<1>17. /\ m2 \in Seq(InstruccionArmada) /\ Len(m2) = c + 1 /\ m2[c + 1] = d
       /\ \A i \in 1 .. c : m2[i] = m[i]
  BY <1>4, <1>15, Agrega DEF c, d
<1>. HIDE DEF m2
<1>18. Fiel(m2)
  <2>1. \A i \in 1 .. c : Usada(m[i]) = Escrita(programa[i])
    BY <1>6 DEF Fiel, c
  <2>2. \A i \in 1 .. c + 1 : i \in 1 .. c \/ i = c + 1
    BY <1>4
  <2>3. \A i \in 1 .. c + 1 : Usada(m2[i]) = Escrita(programa[i])
    BY <1>16, <1>17, <2>1, <2>2 DEF x, d
  <2>4. c + 1 <= L
    BY <1>7
  <2>. QED BY <1>17, <2>3, <2>4 DEF Fiel, L
<1>19. lista'["kernel"] = m2 /\ paquete' = s
  BY <1>11, <1>14, <1>15 DEF m2, d, Consumir
<1>20. kernel' = IF c + 1 = L THEN "corre" ELSE "obtiene"
  BY <1>8, <1>11, <1>14
<1>21. Obteniendo'
  BY <1>1, <1>7, <1>9, <1>17, <1>19, <1>20 DEF Obteniendo, L, B
<1>22. \A a \in Listas : Fiel(lista[a])'
  <2>1. \A a \in Listas : Fiel(lista'[a])
    BY <1>15, <1>18, <1>19 DEF EnCamino
  <2>. QED BY <1>1, <2>1 DEF Fiel
<1>23. Parseando' /\ Entero'
  BY <1>1 DEF Parseando, Entero
<1>. QED BY <1>21, <1>22, <1>23 DEF EnCamino

(* The context trips: the two ends of one agree.                           *)
LEMMA DesempaquetarLista ==
  ASSUME Acuerdo, Acuerdo', BienFormado(programa), EnCamino, DesempaquetarInstruccion
  PROVE  EnCamino'
<1>1. /\ TypeOK /\ TypeOK' /\ Turnos /\ Turnos' /\ kernel = "corre" /\ lector.faltan > 0
      /\ UNCHANGED <<programa, palabras, instruc, consola, lugar>>
  BY DEF Acuerdo, DesempaquetarInstruccion
<1>2. lugar \in {"cpu", "respuesta"} /\ kernel' = "corre" /\ consola = "envio"
  BY <1>1 DEF Turnos, TypeOK
<1>. DEFINE otro == Otro(lugar)
            m2 == lista'[lugar]
            o == lista[otro]
<1>3. /\ otro \in Listas /\ otro # lugar /\ lugar \in Listas /\ "kernel" \in Listas
      /\ lista \in TresListas(Seq(InstruccionArmada)) /\ "kernel" # lugar
      /\ lista' \in TresListas(Seq(InstruccionArmada))
  BY <1>1, <1>2 DEF Otro, Listas, TypeOK, TresListas
<1>4. \A b \in Listas : b # lugar => lista'[b] = lista[b]
  <2>1. \/ UNCHANGED lista
        \/ \E v : lista' = Cambiada(lista, lugar, v)
    BY DEF DesempaquetarInstruccion, Cambiada
  <2>2. CASE UNCHANGED lista
    BY <2>2
  <2>3. ASSUME NEW v, lista' = Cambiada(lista, lugar, v)
        PROVE  \A b \in Listas : b # lugar => lista'[b] = lista[b]
    BY <1>3, <2>3 DEF Cambiada, TresListas, Listas
  <2>. QED BY <2>1, <2>2, <2>3
<1>5. /\ Len(m2) + lector'.faltan = Len(o)
      /\ \A i \in 1 .. Len(m2) : Usada(m2[i]) = Usada(o[i])
  <2>1. LosDosLeenLoMismo'
    BY AcuerdoDice, PTL
  <2>2. lista'[otro] = o /\ otro = IF lugar = "cpu" THEN "kernel" ELSE "cpu"
    BY <1>3, <1>4 DEF Otro
  <2>. QED BY <1>1, <1>2, <2>1, <2>2 DEF LosDosLeenLoMismo
<1>6. m2 \in Seq(InstruccionArmada) /\ o \in Seq(InstruccionArmada) /\ lector'.faltan \in Nat
  BY <1>1, <1>3, UnaLista DEF TypeOK
<1>7. Fiel(o)
  BY <1>3 DEF EnCamino
<1>. HIDE DEF m2, o
<1>8. Len(m2) \in Nat /\ Len(o) \in Nat /\ Len(m2) <= Len(o)
  BY <1>5, <1>6
<1>9. Len(programa) \in Nat
  BY <1>1, ProgramaCabal DEF TypeOK
<1>10. Fiel(m2)
  BY <1>5, <1>7, <1>8, <1>9 DEF Fiel
<1>11. \A a \in Listas : Fiel(lista[a])'
  <2>1. \A a \in Listas : Fiel(lista'[a])
    BY <1>4, <1>10 DEF EnCamino, m2
  <2>. QED BY <1>1, <2>1 DEF Fiel
<1>12. Obteniendo'
  BY <1>1, <1>2, <1>3, <1>4 DEF EnCamino, Obteniendo
<1>13. Parseando' /\ Entero'
  BY <1>1, <1>2 DEF Parseando, Entero
<1>. QED BY <1>11, <1>12, <1>13 DEF EnCamino

LEMMA ContextoLista ==
  ASSUME Acuerdo, BienFormado(programa), EnCamino, NEW de \in Listas,
         NEW a \in {"cpu", "respuesta"}, EnviarContexto(de, a), lugar # "consola"
  PROVE  EnCamino'
<1>1. /\ TypeOK /\ Turnos /\ kernel = "corre" /\ lugar' = a
      /\ UNCHANGED <<programa, consola, kernel>>
  BY DEF Acuerdo, EnviarContexto
<1>2. consola = "envio" /\ a \in Listas /\ "kernel" \in Listas /\ a # "kernel"
  BY <1>1 DEF Turnos, Listas
<1>3. lista'[a] = << >> /\ \A b \in Listas : b # a => lista'[b] = lista[b]
  BY <1>1, <1>2, ContextoSale
<1>4. Fiel(<< >>)
  <2>1. Len(<< >>) = 0 /\ \A i \in 1 .. 0 : FALSE
    OBVIOUS
  <2>2. Len(programa) > 0 /\ Len(programa) \in Nat
    BY <1>1, ProgramaCabal DEF TypeOK
  <2>. QED BY <2>1, <2>2 DEF Fiel
<1>5. \A b \in Listas : Fiel(lista[b])'
  <2>1. \A b \in Listas : Fiel(lista'[b])
    BY <1>3, <1>4 DEF EnCamino
  <2>. QED BY <1>1, <2>1 DEF Fiel
<1>6. Obteniendo'
  BY <1>1, <1>2, <1>3 DEF EnCamino, Obteniendo
<1>7. Parseando' /\ Entero'
  BY <1>1, <1>2 DEF Parseando, Entero
<1>. QED BY <1>5, <1>6, <1>7 DEF EnCamino

LEMMA NextLista == ListaInv /\ [Next]_vars => ListaInv'
<1>. SUFFICES ASSUME ListaInv, [Next]_vars PROVE ListaInv'
  OBVIOUS
<1>1. Acuerdo /\ Acuerdo' /\ TypeOK /\ Turnos
  BY NextAcuerdo DEF ListaInv, Acuerdo
<1>2. programa' = programa
  BY DEF Next, vars, Parsear, SinArchivo, Liberar, EnviarInstrucciones, ObtenerInstruccion,
         DesempaquetarInstruccion, EnviarInstruccionCpu, EnviarInstruccionKernel,
         EnviarContexto
<1>3. BienFormado(programa)' <=> BienFormado(programa)
  BY <1>2 DEF BienFormado
<1>. SUFFICES ASSUME BienFormado(programa) PROVE EnCamino'
  BY <1>1, <1>3 DEF ListaInv
<1>4. EnCamino
  BY DEF ListaInv
<1>5. CASE Parsear
  BY <1>1, <1>4, <1>5, ParsearLista
<1>6. CASE SinArchivo \/ Liberar \/ EnviarInstrucciones \/ UNCHANGED vars
  BY <1>1, <1>4, <1>6, ConsolaLista
<1>7. CASE ObtenerInstruccion
  BY <1>1, <1>4, <1>7, ObtenerLista
<1>8. CASE DesempaquetarInstruccion
  BY <1>1, <1>4, <1>8, DesempaquetarLista
<1>9. CASE EnviarInstruccionCpu
  <2>1. EnviarContexto("kernel", "cpu") /\ lugar # "consola" /\ "kernel" \in Listas
    BY <1>9 DEF EnviarInstruccionCpu, Listas
  <2>. QED BY <1>1, <1>4, <2>1, ContextoLista
<1>10. CASE EnviarInstruccionKernel
  <2>1. EnviarContexto("cpu", "respuesta") /\ lugar # "consola" /\ "cpu" \in Listas
    BY <1>10 DEF EnviarInstruccionKernel, Listas
  <2>. QED BY <1>1, <1>4, <2>1, ContextoLista
<1>. QED BY <1>5, <1>6, <1>7, <1>8, <1>9, <1>10 DEF Next

(* A well-formed program reaches the kernel whole and unchanged, whatever  *)
(* its length, and every list that travels after that says what the user   *)
(* wrote (parsear.c against obtener_lista_instrucciones and utils.c).      *)
THEOREM ListaInvariante == Spec => []ListaEsElPrograma
BY ListaInvDice, InitLista, NextLista, PTL DEF Spec
=============================================================================
