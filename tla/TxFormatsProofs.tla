----------------------------- MODULE TxFormatsProofs -----------------------------
(***************************************************************************)
(* Theorems about TxFormats: what pack_to_fields loses, whatever the       *)
(* values of bodies and URIs and whatever the length of a URI, that        *)
(* documents are read as they were written, and that what is hashed is     *)
(* told apart by its hash.                                                 *)
(*                                                                         *)
(* Two things make packing lossless.  Every type packs to one layout,      *)
(* whatever the value, the empty input of an Option included; and what the *)
(* packer has done after i pieces is known from the sizes of these pieces. *)
(* A document is read back because decimals keep all digits but zeros in   *)
(* front, and bytes keep their bits.                                       *)
(* A hash tells values apart because inputs of one layout are put together *)
(* at the same places: a piece is known from where it is, an Option from   *)
(* its flag, a list from its links, and a URI from its last one.           *)
(***************************************************************************)
EXTENDS TxFormats, Induction

\* Every place of the flat sequence is in one of the sequences.
LEMMA PlaceOf ==
  ASSUME NEW n \in Nat, NEW place \in [1..(n + 1) -> Nat], place[1] = 0, NEW k \in 1..place[n + 1]
  PROVE  \E i \in 1..n : place[i] < k /\ k <= place[i + 1]
<1> DEFINE T == {m \in 1..(n + 1) : k <= place[m]}
<1>1. T \in SUBSET Nat /\ n + 1 \in T
  OBVIOUS
<1>2. PICK m \in T : \A l \in T : m <= l
  <2>1. T # {}
    BY <1>1
  <2> HIDE DEF T
  <2> QED BY <1>1, <2>1, LeastNumber
<1>3. m \in 1..(n + 1) /\ k <= place[m] /\ m # 1
  BY <1>2
<1>4. m - 1 \in 1..n /\ (m - 1) + 1 = m /\ m - 1 \in 1..(n + 1) /\ ~(m <= m - 1)
  BY <1>3
<1>5. ~(k <= place[m - 1]) /\ place[m - 1] \in Nat
  BY <1>2, <1>4
<1>6. place[m - 1] < k
  BY <1>5
<1> QED BY <1>3, <1>4, <1>6

(* Sequences of the same lengths are put at the same places. *)
SideBySide(s, t) ==
  /\ Len(FlattenSeq(s)) = Len(FlattenSeq(t))
  /\ \A k \in 1..Len(FlattenSeq(s)) : \E i \in 1..Len(s) : \E j \in 1..Len(s[i]) :
       FlattenSeq(s)[k] = s[i][j] /\ FlattenSeq(t)[k] = t[i][j]
  /\ FlattenSeq(s) = FlattenSeq(t) =>
       \A i \in 1..Len(s) : \A j \in 1..Len(s[i]) : s[i][j] = t[i][j]

LEMMA FlattenAlike ==
  ASSUME NEW S, NEW s \in Seq(Seq(S)), NEW T, NEW t \in Seq(Seq(T)),
         Len(s) = Len(t), \A i \in 1..Len(s) : Len(s[i]) = Len(t[i])
  PROVE  SideBySide(s, t)
<1> DEFINE n == Len(s)
           a == FlattenSeq(s)
           b == FlattenSeq(t)
<1>1. PICK p \in [1..(n + 1) -> Nat] :
        /\ p[1] = 0 /\ p[n + 1] = Len(a)
        /\ \A i \in 1..n : /\ p[i + 1] = p[i] + Len(s[i])
                           /\ \A k \in 1..Len(s[i]) : a[p[i] + k] = s[i][k]
  <2>1. \E place \in [1..(Len(s) + 1) -> Nat] :
          /\ place[1] = 0 /\ place[Len(s) + 1] = Len(FlattenSeq(s))
          /\ \A i \in 1..Len(s) :
               /\ place[i + 1] = place[i] + Len(s[i])
               /\ place[i + 1] <= Len(FlattenSeq(s))
               /\ \A k \in 1..Len(s[i]) : FlattenSeq(s)[place[i] + k] = s[i][k]
    <3> HIDE DEF n, a, b
    <3> QED BY FlattenPlaces, ZenonT(30)
  <2> HIDE DEF n, a, b
  <2>2. \E place \in [1..(n + 1) -> Nat] :
          /\ place[1] = 0 /\ place[n + 1] = Len(FlattenSeq(s))
          /\ \A i \in 1..n :
               /\ place[i + 1] = place[i] + Len(s[i])
               /\ \A k \in 1..Len(s[i]) : FlattenSeq(s)[place[i] + k] = s[i][k]
    BY <2>1 DEF n
  <2> QED BY <2>2 DEF a
<1>2. PICK r \in [1..(n + 1) -> Nat] :
        /\ r[1] = 0 /\ r[n + 1] = Len(b)
        /\ \A i \in 1..n : /\ r[i + 1] = r[i] + Len(t[i])
                           /\ \A k \in 1..Len(t[i]) : b[r[i] + k] = t[i][k]
  <2>1. \E place \in [1..(Len(t) + 1) -> Nat] :
          /\ place[1] = 0 /\ place[Len(t) + 1] = Len(FlattenSeq(t))
          /\ \A i \in 1..Len(t) :
               /\ place[i + 1] = place[i] + Len(t[i])
               /\ place[i + 1] <= Len(FlattenSeq(t))
               /\ \A k \in 1..Len(t[i]) : FlattenSeq(t)[place[i] + k] = t[i][k]
    BY FlattenPlaces
  <2>2. Len(t) = n
    OBVIOUS
  <2> HIDE DEF n, a, b
  <2>3. \E place \in [1..(n + 1) -> Nat] :
          /\ place[1] = 0 /\ place[n + 1] = Len(FlattenSeq(t))
          /\ \A i \in 1..n :
               /\ place[i + 1] = place[i] + Len(t[i])
               /\ \A k \in 1..Len(t[i]) : FlattenSeq(t)[place[i] + k] = t[i][k]
    BY <2>1, <2>2
  <2> QED BY <2>3 DEF b
<1>3. n \in Nat /\ \A i \in 1..n : Len(s[i]) \in Nat /\ Len(s[i]) = Len(t[i])
  BY LenProperties, ElementOfSeq
<1> HIDE DEF n, a, b
<1> DEFINE M == {m \in Nat : m <= n => p[m + 1] = r[m + 1]}
<1>4. 0 \in M
  BY <1>1, <1>2
<1>5. ASSUME NEW m \in Nat, m \in M PROVE m + 1 \in M
  <2> SUFFICES ASSUME m + 1 <= n PROVE p[(m + 1) + 1] = r[(m + 1) + 1]
    OBVIOUS
  <2>1. m + 1 \in 1..n /\ m <= n
    BY <1>3
  <2> QED BY <1>1, <1>2, <1>3, <1>5, <2>1
<1>6. Nat \subseteq M
  <2> HIDE DEF M
  <2> QED BY <1>4, <1>5, InductionOverSet
<1>7. ASSUME NEW i \in 1..(n + 1) PROVE p[i] = r[i]
  <2>1. i - 1 \in Nat /\ i - 1 <= n /\ (i - 1) + 1 = i
    BY <1>3
  <2>2. i - 1 \in M
    <3> HIDE DEF M
    <3> QED BY <1>6, <2>1
  <2> QED BY <2>1, <2>2
<1>8. Len(a) = Len(b)
  <2>1. n + 1 \in 1..(n + 1)
    BY <1>3
  <2> QED BY <1>1, <1>2, <1>7, <2>1
<1>9. ASSUME NEW k \in 1..Len(a)
      PROVE  \E i \in 1..n : \E j \in 1..Len(s[i]) : a[k] = s[i][j] /\ b[k] = t[i][j]
  <2>1. k \in 1..p[n + 1]
    BY <1>1
  <2>2. PICK i \in 1..n : p[i] < k /\ k <= p[i + 1]
    BY <1>1, <1>3, <2>1, PlaceOf
  <2> DEFINE j == k - p[i]
             l == Len(s[i])
  <2>3. i \in 1..(n + 1) /\ p[i] \in Nat /\ p[i + 1] = p[i] + l /\ l \in Nat /\ r[i] = p[i]
    BY <1>1, <1>3, <1>7
  <2>4. k \in Nat
    BY <2>1, <2>2, <2>3
  <2> HIDE DEF l
  <2>5. j \in 1..l /\ p[i] + j = k
    BY <2>2, <2>3, <2>4
  <2> HIDE DEF j
  <2>6. a[k] = s[i][j] /\ b[k] = t[i][j]
    BY <1>1, <1>2, <1>3, <2>3, <2>5 DEF l
  <2> QED BY <2>5, <2>6 DEF l
<1>10. ASSUME a = b, NEW i \in 1..n, NEW j \in 1..Len(s[i]) PROVE s[i][j] = t[i][j]
  <2>1. i \in 1..(n + 1) /\ j \in 1..Len(t[i])
    BY <1>3
  <2>2. a[p[i] + j] = s[i][j] /\ b[r[i] + j] = t[i][j]
    BY <1>1, <1>2, <2>1
  <2> QED BY <1>7, <1>10, <2>1, <2>2
<1> QED BY <1>8, <1>9, <1>10 DEF n, a, b, SideBySide

-------------------------------------------------------------------------------
(* What a number keeps of its bits: all but the zeros in front, which are  *)
(* those of its digits that it does not have.                              *)
LEMMA LeastIs ==
  ASSUME NEW T \in SUBSET Nat, T # {} PROVE Min(T) \in T /\ \A k \in T : Min(T) <= k
<1>1. \E n \in T : \A k \in T : n <= k
  BY LeastNumber
<1> QED BY <1>1 DEF Min

LEMMA NumberKeepsBits ==
  ASSUME NEW raw \in Seq(Bit), Len(raw) < 255
  PROVE  /\ Number(raw) \in Numbers
         /\ \A k \in 1..Len(raw) : Digit(Number(raw).number, Len(raw) + 1 - k) = raw[k]
<1> DEFINE ones == {i \in DOMAIN raw : raw[i] = 1}
           l == Len(raw)
           m == Min(ones)
           digits == SubSeq(raw, m, l)
<1>1. l \in Nat /\ DOMAIN raw = 1..l /\ \A k \in 1..l : raw[k] \in Bit /\ raw[k] \in {0, 1}
  BY LenProperties, ElementOfSeq DEF Bit
<1>2. CASE ones = {}
  <2>1. Number(raw) = [number |-> <<>>]
    BY <1>2 DEF Number
  <2>2. \A k \in 1..l : raw[k] = 0 /\ Digit(<<>>, l + 1 - k) = 0
    <3>1. \A k \in 1..l : raw[k] = 0
      BY <1>1, <1>2
    <3>2. \A p \in Int : p > 0 => Digit(<<>>, p) = 0
      BY DEF Digit
    <3>3. \A k \in 1..l : l + 1 - k \in Int /\ l + 1 - k > 0
      BY <1>1
    <3> QED BY <3>1, <3>2, <3>3
  <2> QED BY <2>1, <2>2 DEF Numbers
<1>3. CASE ones # {}
  <2>1. m \in 1..l /\ raw[m] = 1 /\ \A k \in 1..l : k < m => raw[k] = 0
    <3>1. ones \in SUBSET Nat
      BY <1>1
    <3> HIDE DEF ones
    <3>2. m \in ones /\ \A k \in ones : m <= k
      BY <1>3, <3>1, LeastIs
    <3>3. m \in 1..l /\ raw[m] = 1
      BY <1>1, <3>2 DEF ones
    <3>4. ASSUME NEW k \in 1..l, k < m PROVE raw[k] = 0
      <4>1. k \notin ones
        BY <3>2, <3>3, <3>4
      <4> QED BY <1>1, <4>1 DEF ones
    <3> QED BY <3>3, <3>4
  <2> DEFINE n == Len(digits)
  <2>2. /\ digits \in Seq(Bit) /\ n = l - m + 1
        /\ \A i \in 1..(l - m + 1) : digits[i] = raw[m + i - 1]
    <3>1. m \in Int /\ l \in Int /\ m <= l /\ \A i \in m..l : raw[i] \in Bit
      <4>1. \A i \in m..l : i \in 1..l
        <5> HIDE DEF m, l
        <5> QED BY <1>1, <2>1
      <4> HIDE DEF m, l
      <4> QED BY <1>1, <2>1, <4>1
    <3> HIDE DEF m, l
    <3> QED BY <3>1, SubSeqProperties
  <2>3. Number(raw) = [number |-> IF n < 255 THEN digits ELSE <<2>>]
    BY <1>3 DEF Number
  <2> HIDE DEF digits, n, m, l
  <2>4. n \in 1..l /\ n < 255
    BY <1>1, <2>1, <2>2 DEF l
  <2>5. digits[1] = 1
    <3>1. 1 \in 1..(l - m + 1) /\ m + 1 - 1 = m
      BY <1>1, <2>1
    <3> QED BY <2>1, <2>2, <3>1
  <2>6. Number(raw) = [number |-> digits]
    BY <2>3, <2>4
  <2>7. Number(raw) \in Numbers
    <3>2. n \in 1..254
      BY <2>4, <1>1
    <3>1. Len(digits) \in 1..254
      BY <3>2 DEF n
    <3> QED BY <2>2, <2>5, <2>6, <3>1 DEF Numbers
  <2>8. ASSUME NEW k \in 1..l PROVE Digit(digits, l + 1 - k) = raw[k]
    <3> DEFINE p == l + 1 - k
    <3>1. p \in Nat
      BY <1>1
    <3>2. CASE p <= n
      <4>1. n + 1 - p \in 1..(l - m + 1) /\ m + (n + 1 - p) - 1 = k
        BY <1>1, <2>1, <2>2, <3>2
      <4>2. digits[n + 1 - p] = raw[k]
        BY <2>2, <4>1
      <4> QED BY <3>2, <4>2 DEF Digit, n
    <3>3. CASE ~(p <= n)
      <4>1. k < m
        BY <1>1, <2>1, <2>2, <3>3
      <4>2. raw[k] = 0
        BY <2>1, <4>1
      <4> QED BY <3>3, <4>2 DEF Digit, n
    <3> QED BY <3>2, <3>3
  <2>9. Number(raw).number = digits
    BY <2>6
  <2> QED BY <2>7, <2>8, <2>9 DEF l
<1> QED BY <1>2, <1>3

-------------------------------------------------------------------------------
(* Layout: how many field elements an input has, and how many bits each of *)
(* its pieces.  Inputs of one type are alike whatever their values.        *)
IsInput(a) ==
  /\ \E S : a.fields \in Seq(S)
  /\ a.bits \in Seq(Seq(Bit))
  /\ \A i \in 1..Len(a.bits) : Len(a.bits[i]) < 255
Alike(a, b) ==
  /\ IsInput(a) /\ IsInput(b)
  /\ Len(a.fields) = Len(b.fields) /\ Len(a.bits) = Len(b.bits)
  /\ \A i \in 1..Len(a.bits) : Len(a.bits[i]) = Len(b.bits[i])

LEMMA InputsAlike ==
  ASSUME NEW S, NEW T, NEW a, NEW b, a.fields \in Seq(S), b.fields \in Seq(T),
         Len(a.fields) = Len(b.fields),
         a.bits \in Seq(Seq(Bit)), b.bits \in Seq(Seq(Bit)), Len(a.bits) = Len(b.bits),
         \A i \in 1..Len(a.bits) : Len(a.bits[i]) = Len(b.bits[i]) /\ Len(a.bits[i]) < 255
  PROVE  Alike(a, b)
  BY DEF Alike, IsInput

LEMMA FieldAlike ==
  ASSUME NEW f, NEW g PROVE Alike(Field(f), Field(g))
<1> DEFINE a == Field(f)
           b == Field(g)
<1>1. /\ a.fields \in Seq({f}) /\ b.fields \in Seq({g}) /\ Len(a.fields) = Len(b.fields)
      /\ a.bits \in Seq(Seq(Bit)) /\ b.bits \in Seq(Seq(Bit)) /\ Len(a.bits) = 0 /\ Len(b.bits) = 0
  BY DEF Field
<1> HIDE DEF a, b
<1>2. \A i \in 1..Len(a.bits) : Len(a.bits[i]) = Len(b.bits[i]) /\ Len(a.bits[i]) < 255
  BY <1>1
<1>3. Len(a.bits) = Len(b.bits)
  BY <1>1
<1>4. Alike(a, b)
  BY <1>1, <1>2, <1>3, InputsAlike, Zenon
<1> QED BY <1>4 DEF a, b

LEMMA WordAlike ==
  ASSUME NEW b \in Seq(Bit), NEW c \in Seq(Bit), Len(b) = Len(c), Len(b) < 255
  PROVE  Alike(Word(b), Word(c))
<1>1. /\ <<>> \in Seq({}) /\ <<b>> \in Seq(Seq(Bit)) /\ <<c>> \in Seq(Seq(Bit))
      /\ Len(<<b>>) = 1 /\ Len(<<c>>) = 1 /\ <<b>>[1] = b /\ <<c>>[1] = c
  OBVIOUS
<1> QED BY <1>1 DEF Alike, IsInput, Word

LEMMA MachineIsSeq ==
  ASSUME NEW w \in Nat, NEW b \in Machine(w) PROVE b \in Seq(Bit) /\ Len(b) = w
  BY DEF Machine

LEMMA MachineAlike ==
  ASSUME NEW w \in Nat, w < 255, NEW b \in Machine(w), NEW c \in Machine(w)
  PROVE  Alike(Word(b), Word(c))
<1>1. b \in Seq(Bit) /\ c \in Seq(Bit) /\ Len(b) = w /\ Len(c) = w
  BY MachineIsSeq
<1> QED BY <1>1, WordAlike

LEMMA BoolAlike ==
  ASSUME NEW b, NEW c PROVE Alike(Bool(b), Bool(c))
<1> DEFINE x == IF b THEN <<1>> ELSE <<0>>
           y == IF c THEN <<1>> ELSE <<0>>
<1>0. \A d \in Bit : <<d>> \in Seq(Bit) /\ Len(<<d>>) = 1
  OBVIOUS
<1>1. x \in Seq(Bit) /\ y \in Seq(Bit) /\ Len(x) = 1 /\ Len(y) = 1
  <2>1. 0 \in Bit /\ 1 \in Bit /\ x \in {<<0>>, <<1>>} /\ y \in {<<0>>, <<1>>}
    BY DEF Bit
  <2> HIDE DEF x, y
  <2> QED BY <1>0, <2>1
<1>2. Bool(b) = Word(x) /\ Bool(c) = Word(y)
  BY DEF Bool
<1> HIDE DEF x, y
<1> QED BY <1>1, <1>2, WordAlike

LEMMA PackedAlike ==
  ASSUME NEW n \in Nat, NEW a, NEW b, DOMAIN a = 1..n, DOMAIN b = 1..n,
         \A i \in 1..n : Alike(a[i], b[i])
  PROVE  Alike(Packed(a), Packed(b))
<1> DEFINE S(x) == UNION {{x[i].fields[j] : j \in 1..Len(x[i].fields)} : i \in 1..n}
           fields(x) == [i \in 1..n |-> x[i].fields]
           bits(x) == [i \in 1..n |-> x[i].bits]
<1>1. ASSUME NEW x, DOMAIN x = 1..n, \A i \in 1..n : IsInput(x[i])
      PROVE  /\ Packed(x) = [fields |-> FlattenSeq(fields(x)), bits |-> FlattenSeq(bits(x))]
             /\ fields(x) \in Seq(Seq(S(x))) /\ Len(fields(x)) = n
             /\ bits(x) \in Seq(Seq(Seq(Bit))) /\ Len(bits(x)) = n
  <2>1. Packed(x) = [fields |-> FlattenSeq(fields(x)), bits |-> FlattenSeq(bits(x))]
    BY <1>1 DEF Packed
  <2>2. ASSUME NEW i \in 1..n PROVE x[i].fields \in Seq(S(x))
    <3>1. PICK T : x[i].fields \in Seq(T)
      BY <1>1 DEF IsInput
    <3> DEFINE f == x[i].fields
    <3>2. \A j \in 1..Len(f) : f[j] \in S(x)
      OBVIOUS
    <3>3. Len(f) \in Nat /\ f = [j \in 1..Len(f) |-> f[j]]
      BY <3>1
    <3> HIDE DEF f, S
    <3>4. f \in Seq(S(x))
      BY <3>2, <3>3
    <3> QED BY <3>4 DEF f
  <2>3. \A i \in 1..n : x[i].bits \in Seq(Seq(Bit))
    BY <1>1 DEF IsInput
  <2>4. /\ fields(x) \in Seq(Seq(S(x))) /\ Len(fields(x)) = n
        /\ bits(x) \in Seq(Seq(Seq(Bit))) /\ Len(bits(x)) = n
    <3> HIDE DEF S
    <3> QED BY <2>2, <2>3
  <2> HIDE DEF S, fields, bits
  <2> QED BY <2>1, <2>4
<1>2. /\ DOMAIN a = 1..n /\ \A i \in 1..n : IsInput(a[i])
      /\ DOMAIN b = 1..n /\ \A i \in 1..n : IsInput(b[i])
  BY DEF Alike
<1>3. /\ fields(a) \in Seq(Seq(S(a))) /\ fields(b) \in Seq(Seq(S(b)))
      /\ bits(a) \in Seq(Seq(Seq(Bit))) /\ bits(b) \in Seq(Seq(Seq(Bit)))
      /\ Len(fields(a)) = n /\ Len(fields(b)) = n /\ Len(bits(a)) = n /\ Len(bits(b)) = n
      /\ Packed(a) = [fields |-> FlattenSeq(fields(a)), bits |-> FlattenSeq(bits(a))]
      /\ Packed(b) = [fields |-> FlattenSeq(fields(b)), bits |-> FlattenSeq(bits(b))]
  <2> HIDE DEF S, fields, bits
  <2> QED BY <1>1, <1>2
<1>4. \A i \in 1..n : /\ Len(fields(a)[i]) = Len(fields(b)[i])
                      /\ Len(bits(a)[i]) = Len(bits(b)[i])
  BY DEF Alike
<1>5. \A i \in 1..n : \A j \in 1..Len(bits(a)[i]) :
        Len(bits(a)[i][j]) = Len(bits(b)[i][j]) /\ Len(bits(a)[i][j]) < 255
  BY DEF Alike, IsInput
<1> DEFINE p == Packed(a)
           q == Packed(b)
           fa == fields(a)
           fb == fields(b)
           ba == bits(a)
           bb == bits(b)
           sa == S(a)
           sb == S(b)
           bit == Seq(Bit)
<1>6. /\ fa \in Seq(Seq(sa)) /\ fb \in Seq(Seq(sb)) /\ ba \in Seq(Seq(bit)) /\ bb \in Seq(Seq(bit))
      /\ Len(fa) = n /\ Len(fb) = n /\ Len(ba) = n /\ Len(bb) = n
      /\ \A i \in 1..n : Len(fa[i]) = Len(fb[i]) /\ Len(ba[i]) = Len(bb[i])
      /\ \A i \in 1..n : \A j \in 1..Len(ba[i]) :
           Len(ba[i][j]) = Len(bb[i][j]) /\ Len(ba[i][j]) < 255
      /\ p.fields = FlattenSeq(fa) /\ q.fields = FlattenSeq(fb)
      /\ p.bits = FlattenSeq(ba) /\ q.bits = FlattenSeq(bb)
  <2> HIDE DEF S, fields, bits
  <2> QED BY <1>3, <1>4, <1>5
<1> HIDE DEF p, q, fa, fb, ba, bb, sa, sb, bit
<1>7. /\ FlattenSeq(fa) \in Seq(sa) /\ FlattenSeq(fb) \in Seq(sb)
      /\ FlattenSeq(ba) \in Seq(bit) /\ FlattenSeq(bb) \in Seq(bit)
  BY <1>6, FlattenPlaces
<1>8. Len(FlattenSeq(fa)) = Len(FlattenSeq(fb))
  <2>1. Len(fa) = Len(fb) /\ \A i \in 1..Len(fa) : Len(fa[i]) = Len(fb[i])
    BY <1>6
  <2>2. fa \in Seq(Seq(sa)) /\ fb \in Seq(Seq(sb))
    BY <1>6
  <2>3. SideBySide(fa, fb)
    BY <2>1, <2>2, FlattenAlike, Zenon
  <2> QED BY <2>3 DEF SideBySide
<1>9. /\ Len(FlattenSeq(ba)) = Len(FlattenSeq(bb))
      /\ \A k \in 1..Len(FlattenSeq(ba)) : \E i \in 1..Len(ba) : \E j \in 1..Len(ba[i]) :
           FlattenSeq(ba)[k] = ba[i][j] /\ FlattenSeq(bb)[k] = bb[i][j]
  <2>1. Len(ba) = Len(bb) /\ \A i \in 1..Len(ba) : Len(ba[i]) = Len(bb[i])
    BY <1>6
  <2>2. ba \in Seq(Seq(bit)) /\ bb \in Seq(Seq(bit))
    BY <1>6
  <2>3. SideBySide(ba, bb)
    BY <2>1, <2>2, FlattenAlike, Zenon
  <2> QED BY <2>3 DEF SideBySide
<1>10. /\ p.fields \in Seq(sa) /\ q.fields \in Seq(sb) /\ Len(p.fields) = Len(q.fields)
       /\ p.bits \in Seq(Seq(Bit)) /\ q.bits \in Seq(Seq(Bit)) /\ Len(p.bits) = Len(q.bits)
  BY <1>6, <1>7, <1>8, <1>9 DEF bit
<1>11. \A k \in 1..Len(p.bits) : Len(p.bits[k]) = Len(q.bits[k]) /\ Len(p.bits[k]) < 255
  <2> TAKE k \in 1..Len(p.bits)
  <2>1. k \in 1..Len(FlattenSeq(ba))
    BY <1>6
  <2>2. PICK i \in 1..Len(ba) : \E j \in 1..Len(ba[i]) :
          FlattenSeq(ba)[k] = ba[i][j] /\ FlattenSeq(bb)[k] = bb[i][j]
    BY <1>9, <2>1
  <2>4. PICK j \in 1..Len(ba[i]) :
          FlattenSeq(ba)[k] = ba[i][j] /\ FlattenSeq(bb)[k] = bb[i][j]
    BY <2>2
  <2>3. Len(ba[i][j]) = Len(bb[i][j]) /\ Len(ba[i][j]) < 255
    BY <1>6
  <2> QED BY <1>6, <2>4, <2>3
<1>12. Alike(p, q)
  BY <1>10, <1>11, InputsAlike
<1> QED BY <1>12 DEF p, q

LEMMA BitsAreBits ==
  ASSUME NEW n \in Int, NEW w \in Nat PROVE Bits(n, w) \in Machine(w)
<1> DEFINE P == Nat \ {0}
<1>1. /\ 2^0 \in P /\ 2^1 \in P /\ 2^2 \in P /\ 2^3 \in P /\ 2^4 \in P /\ 2^5 \in P
      /\ 2^6 \in P /\ 2^7 \in P /\ 2^8 \in P /\ 2^9 \in P /\ 2^10 \in P /\ 2^11 \in P
      /\ 2^12 \in P /\ 2^13 \in P /\ 2^14 \in P /\ 2^15 \in P /\ 2^16 \in P /\ 2^17 \in P
      /\ 2^18 \in P /\ 2^19 \in P /\ 2^20 \in P /\ 2^21 \in P /\ 2^22 \in P /\ 2^23 \in P
      /\ 2^24 \in P /\ 2^25 \in P /\ 2^26 \in P /\ 2^27 \in P /\ 2^28 \in P /\ 2^29 \in P
      /\ 2^30 \in P
  OBVIOUS
<1>2. ASSUME NEW e \in 0..30 PROVE 2^e \in P
  <2>1. \/ e = 0 \/ e = 1 \/ e = 2 \/ e = 3 \/ e = 4 \/ e = 5 \/ e = 6 \/ e = 7
        \/ e = 8 \/ e = 9 \/ e = 10 \/ e = 11 \/ e = 12 \/ e = 13 \/ e = 14 \/ e = 15
        \/ e = 16 \/ e = 17 \/ e = 18 \/ e = 19 \/ e = 20 \/ e = 21 \/ e = 22 \/ e = 23
        \/ e = 24 \/ e = 25 \/ e = 26 \/ e = 27 \/ e = 28 \/ e = 29 \/ e = 30
    OBVIOUS
  <2> HIDE DEF P
  <2> QED BY <1>1, <2>1, Zenon
<1>3. ASSUME NEW p \in Nat \ {0} PROVE (n \div p) % 2 \in Bit
  <2>1. n \div p \in Int
    OBVIOUS
  <2> QED BY <2>1 DEF Bit
<1>4. ASSUME NEW i \in 1..w
      PROVE  (IF w - i > 30 THEN 0 ELSE (n \div 2^(w - i)) % 2) \in Bit
  <2>1. CASE w - i > 30
    BY <2>1 DEF Bit
  <2>2. CASE ~(w - i > 30)
    <3>1. w - i \in 0..30
      BY <2>2
    <3> DEFINE e == w - i
    <3>2. 2^e \in Nat \ {0}
      BY <1>2, <3>1
    <3>3. (n \div 2^e) % 2 \in Bit
      BY <1>3, <3>2
    <3> QED BY <2>2, <3>3
  <2> QED BY <2>1, <2>2
<1> QED BY <1>4 DEF Bits, Machine

LEMMA EmptyWords ==
  ASSUME NEW w \in Nat PROVE Zeros(w) \in Machine(w) /\ Ones(w) \in Machine(w)
  BY DEF Zeros, Ones, Machine, Bit

LEMMA PairAlike ==
  ASSUME NEW c, NEW d, NEW x, NEW y, Alike(c, d), Alike(x, y)
  PROVE  Alike(Packed(<<c, x>>), Packed(<<d, y>>))
<1> DEFINE a == <<c, x>>
           b == <<d, y>>
<1>1. DOMAIN a = 1..2 /\ DOMAIN b = 1..2 /\ a[1] = c /\ b[1] = d /\ a[2] = x /\ b[2] = y
  OBVIOUS
<1> HIDE DEF a, b
<1>2. \A i \in 1..2 : i = 1 \/ i = 2
  OBVIOUS
<1>4. \A i \in 1..2 : Alike(a[i], b[i])
  BY <1>1, <1>2
<1>5. Alike(Packed(a), Packed(b))
  BY <1>1, <1>4, PackedAlike
<1> QED BY <1>5 DEF a, b

\* An Option is laid out as if it were given.
LEMMA OptionAlike ==
  ASSUME NEW c, NEW d, NEW x, NEW y, Alike(x, y)
  PROVE  Alike(Packed(<<Bool(c), x>>), Packed(<<Bool(d), y>>))
<1>1. Alike(Bool(c), Bool(d))
  BY BoolAlike
<1> QED BY <1>1, PairAlike

LEMMA OptionalGiven ==
  ASSUME NEW S, NEW o \in Optional(S), o # <<>> PROVE o[1] \in S
<1>1. o \in Seq(S) /\ Len(o) # 0
  BY EmptySeq DEF Optional
<1> QED BY <1>1

LEMMA OptionFieldAlike ==
  ASSUME NEW o, NEW p PROVE Alike(OptionField(o), OptionField(p))
<1> DEFINE f == IF o = <<>> THEN Zero ELSE o[1]
           g == IF p = <<>> THEN Zero ELSE p[1]
<1>1. /\ OptionField(o) = Packed(<<Bool(o # <<>>), Field(f)>>)
      /\ OptionField(p) = Packed(<<Bool(p # <<>>), Field(g)>>)
  BY DEF OptionField, Option
<1> HIDE DEF f, g
<1>2. Alike(Field(f), Field(g))
  BY FieldAlike
<1> QED BY <1>1, <1>2, OptionAlike

LEMMA ActionStateAlike ==
  ASSUME NEW o, NEW p PROVE Alike(ActionState(o), ActionState(p))
<1> DEFINE e == hash_noinput("MinaZkappActionStateEmptyElt")
           f == IF o = <<>> THEN e ELSE o[1]
           g == IF p = <<>> THEN e ELSE p[1]
<1>1. /\ ActionState(o) = Packed(<<Bool(o # <<>>), Field(f)>>)
      /\ ActionState(p) = Packed(<<Bool(p # <<>>), Field(g)>>)
  BY DEF ActionState, Option
<1> HIDE DEF f, g
<1>2. Alike(Field(f), Field(g))
  BY FieldAlike
<1> QED BY <1>1, <1>2, OptionAlike

LEMMA OptionBoolAlike ==
  ASSUME NEW o, NEW p PROVE Alike(OptionBool(o), OptionBool(p))
<1> DEFINE x == IF o = <<>> THEN Bool(FALSE) ELSE Bool(o[1])
           y == IF p = <<>> THEN Bool(FALSE) ELSE Bool(p[1])
<1>1. /\ OptionBool(o) = Packed(<<Bool(o # <<>>), x>>)
      /\ OptionBool(p) = Packed(<<Bool(p # <<>>), y>>)
  BY DEF OptionBool, Option
<1>2. Alike(x, y)
  BY BoolAlike
<1> HIDE DEF x, y
<1> QED BY <1>1, <1>2, OptionAlike

LEMMA KeyAlike ==
  ASSUME NEW k, NEW l PROVE Alike(PublicKey(k), PublicKey(l))
<1>1. Alike(Field(k.x), Field(l.x)) /\ Alike(Bool(k.is_odd), Bool(l.is_odd))
  BY FieldAlike, BoolAlike
<1> QED BY <1>1, PairAlike DEF PublicKey

LEMMA OptionKeyAlike ==
  ASSUME NEW o, NEW p PROVE Alike(OptionKey(o), OptionKey(p))
<1> DEFINE f == IF o = <<>> THEN EmptyKey ELSE o[1]
           g == IF p = <<>> THEN EmptyKey ELSE p[1]
<1>1. /\ OptionKey(o) = Packed(<<Bool(o # <<>>), PublicKey(f)>>)
      /\ OptionKey(p) = Packed(<<Bool(p # <<>>), PublicKey(g)>>)
  BY DEF OptionKey, Option
<1> HIDE DEF f, g
<1>2. Alike(PublicKey(f), PublicKey(g))
  BY KeyAlike
<1> QED BY <1>1, <1>2, OptionAlike

LEMMA OptionRangeAlike ==
  ASSUME NEW w \in Nat, w < 255,
         NEW o \in Optional(RangeType(w)), NEW p \in Optional(RangeType(w))
  PROVE  Alike(OptionRange(o, w), OptionRange(p, w))
<1> DEFINE e == [lower |-> Zeros(w), upper |-> Ones(w)]
           f == IF o = <<>> THEN e ELSE o[1]
           g == IF p = <<>> THEN e ELSE p[1]
<1>1. /\ OptionRange(o, w) = Packed(<<Bool(o # <<>>), RangeCondition(f)>>)
      /\ OptionRange(p, w) = Packed(<<Bool(p # <<>>), RangeCondition(g)>>)
  BY DEF OptionRange, Option
<1>2. e \in RangeType(w)
  BY EmptyWords DEF RangeType
<1>3. f \in RangeType(w) /\ g \in RangeType(w)
  <2> HIDE DEF e
  <2> QED BY <1>2, OptionalGiven
<1> HIDE DEF f, g
<1>4. Alike(Word(f.lower), Word(g.lower)) /\ Alike(Word(f.upper), Word(g.upper))
  BY <1>3, MachineAlike DEF RangeType
<1>5. Alike(RangeCondition(f), RangeCondition(g))
  BY <1>4, PairAlike DEF RangeCondition
<1> QED BY <1>1, <1>5, OptionAlike

LEMMA AppStateAlike ==
  ASSUME NEW s, NEW t PROVE Alike(AppState(s), AppState(t))
<1> DEFINE a == [i \in 1..APP_STATE_LENGTH |-> OptionField(s[i])]
           b == [i \in 1..APP_STATE_LENGTH |-> OptionField(t[i])]
<1>1. /\ DOMAIN a = 1..APP_STATE_LENGTH /\ DOMAIN b = 1..APP_STATE_LENGTH
      /\ \A i \in 1..APP_STATE_LENGTH : Alike(a[i], b[i])
  BY OptionFieldAlike
<1>2. APP_STATE_LENGTH \in Nat
  BY FormatAssumption
<1> HIDE DEF a, b
<1>3. Alike(Packed(a), Packed(b))
  BY <1>1, <1>2, PackedAlike
<1> QED BY <1>3 DEF AppState, a, b

LEMMA AuthAlike ==
  ASSUME NEW x, NEW y PROVE Alike(Auth(x), Auth(y))
<1> DEFINE a == <<Bool(encode(x).constant), Bool(encode(x).signature_necessary),
                  Bool(encode(x).signature_sufficient)>>
           b == <<Bool(encode(y).constant), Bool(encode(y).signature_necessary),
                  Bool(encode(y).signature_sufficient)>>
<1>1. DOMAIN a = 1..3 /\ DOMAIN b = 1..3 /\ Auth(x) = Packed(a) /\ Auth(y) = Packed(b)
  BY DEF Auth
<1>2. Alike(a[1], b[1]) /\ Alike(a[2], b[2]) /\ Alike(a[3], b[3])
  BY BoolAlike
<1> HIDE DEF a, b
<1>3. \A i \in 1..3 : i = 1 \/ i = 2 \/ i = 3
  OBVIOUS
<1>4. \A i \in 1..3 : Alike(a[i], b[i])
  BY <1>2, <1>3
<1> QED BY <1>1, <1>4, PackedAlike

LEMMA PermissionsAlike ==
  ASSUME NEW p \in PermissionsType, NEW q \in PermissionsType
  PROVE  Alike(Permissions(p), Permissions(q))
<1> DEFINE n == Len(PermissionOrder)
           member(r, i) == IF PermissionOrder[i] = "set_verification_key"
                           THEN SetVerificationKey(r.set_verification_key)
                           ELSE Auth(r[PermissionOrder[i]])
           a == [i \in 1..n |-> member(p, i)]
           b == [i \in 1..n |-> member(q, i)]
<1>1. n \in Nat /\ DOMAIN PermissionOrder = 1..n
  BY DEF PermissionOrder
<1>2. Permissions(p) = Packed(a) /\ Permissions(q) = Packed(b)
  BY <1>1 DEF Permissions
<1>3. Alike(SetVerificationKey(p.set_verification_key), SetVerificationKey(q.set_verification_key))
  <2> DEFINE v == p.set_verification_key
             w == q.set_verification_key
  <2>1. v.txn_version \in Machine(32) /\ w.txn_version \in Machine(32)
    BY DEF PermissionsType
  <2> HIDE DEF v, w
  <2>2. Alike(Word(v.txn_version), Word(w.txn_version)) /\ Alike(Auth(v.auth), Auth(w.auth))
    BY <2>1, MachineAlike, AuthAlike
  <2>3. Alike(SetVerificationKey(v), SetVerificationKey(w))
    BY <2>2, PairAlike DEF SetVerificationKey
  <2> QED BY <2>3 DEF v, w
<1> HIDE DEF n
<1>4. DOMAIN a = 1..n /\ DOMAIN b = 1..n /\ \A i \in 1..n : Alike(a[i], b[i])
  BY <1>3, AuthAlike
<1> HIDE DEF a, b
<1> QED BY <1>1, <1>2, <1>4, PackedAlike

LEMMA TimingAlike ==
  ASSUME NEW p \in TimingType, NEW q \in TimingType
  PROVE  Alike(TimingData(p), TimingData(q))
<1> DEFINE a == <<Word(p.initial_minimum_balance), Word(p.cliff_time),
                  Word(p.cliff_amount), Word(p.vesting_period),
                  Word(p.vesting_increment)>>
           b == <<Word(q.initial_minimum_balance), Word(q.cliff_time),
                  Word(q.cliff_amount), Word(q.vesting_period),
                  Word(q.vesting_increment)>>
<1>1. DOMAIN a = 1..5 /\ DOMAIN b = 1..5 /\ TimingData(p) = Packed(a) /\ TimingData(q) = Packed(b)
  BY DEF TimingData
<1>2. /\ Alike(a[1], b[1]) /\ Alike(a[2], b[2]) /\ Alike(a[3], b[3]) /\ Alike(a[4], b[4])
      /\ Alike(a[5], b[5])
  BY MachineAlike DEF TimingType
<1> HIDE DEF a, b
<1>3. \A i \in 1..5 : i = 1 \/ i = 2 \/ i = 3 \/ i = 4 \/ i = 5
  OBVIOUS
<1>4. \A i \in 1..5 : Alike(a[i], b[i])
  BY <1>2, <1>3
<1> QED BY <1>1, <1>4, PackedAlike

\* Pieces of eight bits, put one behind the other.
LEMMA FlattenOctets ==
  ASSUME NEW s \in Seq(Seq(Bit)), \A i \in 1..Len(s) : Len(s[i]) = 8
  PROVE  FlattenSeq(s) \in Seq(Bit) /\ Len(FlattenSeq(s)) = 8 * Len(s)
<1> DEFINE n == Len(s)
           l == Len(FlattenSeq(s))
<1>1. FlattenSeq(s) \in Seq(Bit) /\ n \in Nat
  BY FlattenPlaces, LenProperties
<1>2. PICK place \in [1..(n + 1) -> Nat] :
        /\ place[1] = 0 /\ place[n + 1] = l
        /\ \A i \in 1..n : place[i + 1] = place[i] + 8
  <2>1. \E place \in [1..(Len(s) + 1) -> Nat] :
          /\ place[1] = 0 /\ place[Len(s) + 1] = Len(FlattenSeq(s))
          /\ \A i \in 1..Len(s) : place[i + 1] = place[i] + Len(s[i])
    BY FlattenPlaces
  <2> QED BY <2>1
<1> HIDE DEF n, l
<1> DEFINE T == {m \in Nat : m <= n => place[m + 1] = 8 * m}
<1>3. 0 \in T
  BY <1>2
<1>4. ASSUME NEW m \in Nat, m \in T PROVE m + 1 \in T
  <2> SUFFICES ASSUME m + 1 <= n PROVE place[(m + 1) + 1] = 8 * (m + 1)
    OBVIOUS
  <2>1. m + 1 \in 1..n /\ m <= n
    BY <1>1
  <2> QED BY <1>2, <1>4, <2>1
<1>5. n \in T
  <2> HIDE DEF T
  <2> QED BY <1>1, <1>3, <1>4, InductionOverSet
<1>6. l = 8 * n
  BY <1>1, <1>2, <1>5
<1> QED BY <1>1, <1>6 DEF n, l

(* The six bytes of a token symbol, and the pieces its bits come in. *)
SymbolWords(s) == [i \in 1..6 |-> Bits(SixBytes(s)[7 - i], 8)]

LEMMA SymbolIs ==
  ASSUME NEW s \in {t \in Seq(Byte) : Len(t) <= 6}
  PROVE  /\ TokenSymbol(s) = Word(FlattenSeq(SymbolWords(s)))
         /\ SymbolWords(s) \in Seq(Seq(Bit)) /\ Len(SymbolWords(s)) = 6
         /\ \A i \in 1..6 : Len(SymbolWords(s)[i]) = 8
<1>1. ASSUME NEW i \in 1..6 PROVE SixBytes(s)[i] \in Int
  <2>1. i <= Len(s) => s[i] \in Byte
    OBVIOUS
  <2>2. \A b \in Byte : b \in Int
    BY DEF Byte
  <2> QED BY <2>1, <2>2 DEF SixBytes
<1> DEFINE v == SixBytes(s)
<1>2. v \in [1..6 -> Int] /\ DOMAIN v = 1..6
  BY <1>1 DEF SixBytes
<1> HIDE DEF v
<1> DEFINE b == [i \in 1..6 |-> Bits(v[i], 8)]
           c == [i \in 1..6 |-> Bits(v[7 - i], 8)]
<1>3. Reverse([i \in DOMAIN v |-> Bits(v[i], 8)]) = c
  <2>1. [i \in DOMAIN v |-> Bits(v[i], 8)] = b
    BY <1>2
  <2>2. Len(b) = 6 /\ \A i \in 1..6 : b[(6 - i) + 1] = c[i]
    <3>1. \A i \in 1..6 : (6 - i) + 1 = 7 - i /\ 7 - i \in 1..6
      OBVIOUS
    <3>2. \A i \in 1..6 : b[7 - i] = c[i]
      BY <3>1
    <3> HIDE DEF c
    <3> QED BY <3>1, <3>2
  <2> HIDE DEF b
  <2>3. Reverse(b) = [i \in 1..6 |-> c[i]]
    BY <2>2 DEF Reverse
  <2> QED BY <2>1, <2>3
<1>4. TokenSymbol(s) = Word(FlattenSeq(c))
  BY <1>3 DEF TokenSymbol, Bytes, v, SixBytes
<1>5. \A i \in 1..6 : c[i] \in Machine(8)
  <2>1. \A i \in 1..6 : v[7 - i] \in Int
    BY <1>2
  <2> QED BY <2>1, BitsAreBits
<1>6. \A i \in 1..6 : c[i] \in Seq(Bit) /\ Len(c[i]) = 8
  <2> HIDE DEF c
  <2> QED BY <1>5, MachineIsSeq
<1>7. c \in Seq(Seq(Bit)) /\ Len(c) = 6
  BY <1>6
<1>8. c = SymbolWords(s)
  BY DEF v, SymbolWords
<1> HIDE DEF c
<1> QED BY <1>4, <1>6, <1>7, <1>8

LEMMA SymbolAlike ==
  ASSUME NEW p \in {s \in Seq(Byte) : Len(s) <= 6}, NEW q \in {s \in Seq(Byte) : Len(s) <= 6}
  PROVE  Alike(TokenSymbol(p), TokenSymbol(q))
<1> DEFINE b(s) == FlattenSeq(SymbolWords(s))
<1>1. ASSUME NEW s \in {t \in Seq(Byte) : Len(t) <= 6}
      PROVE  TokenSymbol(s) = Word(b(s)) /\ b(s) \in Seq(Bit) /\ Len(b(s)) = 48
  <2>1. TokenSymbol(s) = Word(b(s))
    BY SymbolIs
  <2>2. b(s) \in Seq(Bit) /\ Len(b(s)) = 8 * 6
    <3> DEFINE w == SymbolWords(s)
    <3>1. w \in Seq(Seq(Bit)) /\ Len(w) = 6 /\ \A i \in 1..6 : Len(w[i]) = 8
      BY SymbolIs
    <3> HIDE DEF w
    <3>2. FlattenSeq(w) \in Seq(Bit) /\ Len(FlattenSeq(w)) = 8 * Len(w)
      BY <3>1, FlattenOctets
    <3> QED BY <3>1, <3>2 DEF w
  <2> HIDE DEF b
  <2> QED BY <2>1, <2>2
<1> HIDE DEF b
<1>2. 48 < 255
  OBVIOUS
<1> QED BY <1>1, <1>2, WordAlike

LEMMA EmptyPermissionsType == EmptyPermissions \in PermissionsType
<1> DEFINE S == ToSet(PermissionOrder)
<1>1. S = {"edit_state", "access", "send", "receive", "set_delegate", "set_permissions",
           "set_verification_key", "set_zkapp_uri", "edit_action_state", "set_token_symbol",
           "increment_nonce", "set_voting_for", "set_timing"}
  BY DEF ToSet, PermissionOrder
<1>2. Bits(TXN_VERSION_CURRENT, 32) \in Machine(32)
  BY BitsAreBits, FormatAssumption
<1>3. "None" \in AuthRequired
  BY DEF AuthRequired
<1> HIDE DEF S
<1> QED BY <1>1, <1>2, <1>3 DEF EmptyPermissions, PermissionsType, S

(* The parts that the input of an update is put together of. *)
KeyPart(u) == Option(u.verification_key, LAMBDA k : Field(k.hash), Field(Zero))
PermissionsPart(u) == Option(u.permissions, Permissions, Permissions(EmptyPermissions))
UriPart(u) == Option(u.zkapp_uri, ZkappUri, EmptyUri)
SymbolPart(u) == Option(u.token_symbol, TokenSymbol, TokenSymbol(<<>>))
TimingPart(u) == Option(u.timing, TimingData, TimingData(EmptyTiming))
UpdateParts(u) ==
  <<AppState(u.app_state), OptionKey(u.delegate), KeyPart(u), PermissionsPart(u),
    UriPart(u), SymbolPart(u), TimingPart(u), OptionField(u.voting_for)>>

LEMMA UpdatePartsAlike ==
  ASSUME NEW p \in UpdateType, NEW q \in UpdateType
  PROVE  /\ DOMAIN UpdateParts(p) = 1..8 /\ DOMAIN UpdateParts(q) = 1..8
         /\ UpdateInput(p) = Packed(UpdateParts(p)) /\ UpdateInput(q) = Packed(UpdateParts(q))
         /\ \A i \in 1..8 : Alike(UpdateParts(p)[i], UpdateParts(q)[i])
<1> DEFINE a == UpdateParts(p)
           b == UpdateParts(q)
<1>1. DOMAIN a = 1..8 /\ DOMAIN b = 1..8 /\ UpdateInput(p) = Packed(a) /\ UpdateInput(q) = Packed(b)
  BY DEF UpdateInput, UpdateParts, KeyPart, PermissionsPart, UriPart, SymbolPart, TimingPart
<1>2. Alike(KeyPart(p), KeyPart(q))
  <2> DEFINE f(u) == IF u.verification_key = <<>> THEN Zero ELSE u.verification_key[1].hash
  <2>1. \A u : KeyPart(u) = Packed(<<Bool(u.verification_key # <<>>), Field(f(u))>>)
    BY DEF Option, KeyPart
  <2> HIDE DEF f
  <2>2. Alike(Field(f(p)), Field(f(q)))
    BY FieldAlike
  <2>3. /\ KeyPart(p) = Packed(<<Bool(p.verification_key # <<>>), Field(f(p))>>)
        /\ KeyPart(q) = Packed(<<Bool(q.verification_key # <<>>), Field(f(q))>>)
    BY <2>1
  <2> QED BY <2>2, <2>3, OptionAlike
<1>3. Alike(PermissionsPart(p), PermissionsPart(q))
  <2> DEFINE f(u) == IF u.permissions = <<>> THEN EmptyPermissions ELSE u.permissions[1]
  <2>1. \A u : PermissionsPart(u) = Packed(<<Bool(u.permissions # <<>>), Permissions(f(u))>>)
    BY DEF Option, PermissionsPart
  <2>2. EmptyPermissions \in PermissionsType
    BY EmptyPermissionsType
  <2>3. p.permissions \in Optional(PermissionsType) /\ q.permissions \in Optional(PermissionsType)
    BY DEF UpdateType
  <2>4. f(p) \in PermissionsType /\ f(q) \in PermissionsType
    BY <2>2, <2>3, OptionalGiven
  <2> HIDE DEF f
  <2>5. Alike(Permissions(f(p)), Permissions(f(q)))
    BY <2>4, PermissionsAlike
  <2>6. /\ PermissionsPart(p) = Packed(<<Bool(p.permissions # <<>>), Permissions(f(p))>>)
        /\ PermissionsPart(q) = Packed(<<Bool(q.permissions # <<>>), Permissions(f(q))>>)
    BY <2>1
  <2> QED BY <2>5, <2>6, OptionAlike
<1>4. Alike(UriPart(p), UriPart(q))
  <2> DEFINE x(u) == IF u.zkapp_uri = <<>> THEN EmptyUri ELSE ZkappUri(u.zkapp_uri[1])
  <2>1. \A u : UriPart(u) = Packed(<<Bool(u.zkapp_uri # <<>>), x(u)>>)
    BY DEF Option, UriPart
  <2>2. Alike(x(p), x(q))
    BY FieldAlike DEF EmptyUri, ZkappUri
  <2> HIDE DEF x
  <2>3. /\ UriPart(p) = Packed(<<Bool(p.zkapp_uri # <<>>), x(p)>>)
        /\ UriPart(q) = Packed(<<Bool(q.zkapp_uri # <<>>), x(q)>>)
    BY <2>1
  <2> QED BY <2>2, <2>3, OptionAlike
<1>5. Alike(SymbolPart(p), SymbolPart(q))
  <2> DEFINE S == {s \in Seq(Byte) : Len(s) <= 6}
             f(u) == IF u.token_symbol = <<>> THEN <<>> ELSE u.token_symbol[1]
  <2>1. \A u : SymbolPart(u) = Packed(<<Bool(u.token_symbol # <<>>), TokenSymbol(f(u))>>)
    BY DEF Option, SymbolPart
  <2>2. <<>> \in S
    OBVIOUS
  <2>3. p.token_symbol \in Optional(S) /\ q.token_symbol \in Optional(S)
    BY DEF UpdateType
  <2>4. f(p) \in S /\ f(q) \in S
    <3> HIDE DEF S
    <3> QED BY <2>2, <2>3, OptionalGiven
  <2> HIDE DEF f
  <2>5. Alike(TokenSymbol(f(p)), TokenSymbol(f(q)))
    BY <2>4, SymbolAlike
  <2>6. /\ SymbolPart(p) = Packed(<<Bool(p.token_symbol # <<>>), TokenSymbol(f(p))>>)
        /\ SymbolPart(q) = Packed(<<Bool(q.token_symbol # <<>>), TokenSymbol(f(q))>>)
    BY <2>1
  <2> QED BY <2>5, <2>6, OptionAlike
<1>6. Alike(TimingPart(p), TimingPart(q))
  <2> DEFINE f(u) == IF u.timing = <<>> THEN EmptyTiming ELSE u.timing[1]
  <2>1. \A u : TimingPart(u) = Packed(<<Bool(u.timing # <<>>), TimingData(f(u))>>)
    BY DEF Option, TimingPart
  <2>2. EmptyTiming \in TimingType
    BY EmptyWords DEF EmptyTiming, TimingType
  <2>3. p.timing \in Optional(TimingType) /\ q.timing \in Optional(TimingType)
    BY DEF UpdateType
  <2>4. f(p) \in TimingType /\ f(q) \in TimingType
    BY <2>2, <2>3, OptionalGiven
  <2> HIDE DEF f
  <2>5. Alike(TimingData(f(p)), TimingData(f(q)))
    BY <2>4, TimingAlike
  <2>6. /\ TimingPart(p) = Packed(<<Bool(p.timing # <<>>), TimingData(f(p))>>)
        /\ TimingPart(q) = Packed(<<Bool(q.timing # <<>>), TimingData(f(q))>>)
    BY <2>1
  <2> QED BY <2>5, <2>6, OptionAlike
<1>7. /\ Alike(a[1], b[1]) /\ Alike(a[2], b[2]) /\ Alike(a[3], b[3]) /\ Alike(a[4], b[4])
      /\ Alike(a[5], b[5]) /\ Alike(a[6], b[6]) /\ Alike(a[7], b[7]) /\ Alike(a[8], b[8])
  BY <1>2, <1>3, <1>4, <1>5, <1>6, AppStateAlike, OptionKeyAlike, OptionFieldAlike
     DEF UpdateParts
<1> HIDE DEF a, b
<1>8. \A i \in 1..8 : i = 1 \/ i = 2 \/ i = 3 \/ i = 4 \/ i = 5 \/ i = 6 \/ i = 7 \/ i = 8
  OBVIOUS
<1>9. \A i \in 1..8 : Alike(a[i], b[i])
  BY <1>7, <1>8
<1> QED BY <1>1, <1>9 DEF a, b

LEMMA UpdateAlike ==
  ASSUME NEW p \in UpdateType, NEW q \in UpdateType
  PROVE  Alike(UpdateInput(p), UpdateInput(q))
<1> DEFINE a == UpdateParts(p)
           b == UpdateParts(q)
<1>1. /\ DOMAIN a = 1..8 /\ DOMAIN b = 1..8 /\ UpdateInput(p) = Packed(a) /\ UpdateInput(q) = Packed(b)
      /\ \A i \in 1..8 : Alike(a[i], b[i])
  BY UpdatePartsAlike
<1> HIDE DEF a, b
<1> QED BY <1>1, PackedAlike

EpochParts(epoch) ==
  <<OptionField(epoch.ledger.hash), OptionRange(epoch.ledger.total_currency, 64),
   OptionField(epoch.seed), OptionField(epoch.start_checkpoint),
   OptionField(epoch.lock_checkpoint), OptionRange(epoch.epoch_length, 32)>>

LEMMA EpochPartsAlike ==
  ASSUME NEW p \in EpochDataType, NEW q \in EpochDataType
  PROVE  /\ DOMAIN EpochParts(p) = 1..6 /\ DOMAIN EpochParts(q) = 1..6
         /\ EpochData(p) = Packed(EpochParts(p)) /\ EpochData(q) = Packed(EpochParts(q))
         /\ \A i \in 1..6 : Alike(EpochParts(p)[i], EpochParts(q)[i])
<1> DEFINE a == EpochParts(p)
           b == EpochParts(q)
<1>1. DOMAIN a = 1..6 /\ DOMAIN b = 1..6 /\ EpochData(p) = Packed(a) /\ EpochData(q) = Packed(b)
  BY DEF EpochData, EpochParts
<1>2. /\ Alike(a[1], b[1]) /\ Alike(a[2], b[2]) /\ Alike(a[3], b[3]) /\ Alike(a[4], b[4])
      /\ Alike(a[5], b[5]) /\ Alike(a[6], b[6])
  BY OptionFieldAlike, OptionRangeAlike DEF EpochDataType, EpochParts
<1> HIDE DEF a, b
<1>3. \A i \in 1..6 : i = 1 \/ i = 2 \/ i = 3 \/ i = 4 \/ i = 5 \/ i = 6
  OBVIOUS
<1>4. \A i \in 1..6 : Alike(a[i], b[i])
  BY <1>2, <1>3
<1> QED BY <1>1, <1>4 DEF a, b

LEMMA EpochAlike ==
  ASSUME NEW p \in EpochDataType, NEW q \in EpochDataType
  PROVE  Alike(EpochData(p), EpochData(q))
<1> DEFINE a == EpochParts(p)
           b == EpochParts(q)
<1>1. /\ DOMAIN a = 1..6 /\ DOMAIN b = 1..6 /\ EpochData(p) = Packed(a) /\ EpochData(q) = Packed(b)
      /\ \A i \in 1..6 : Alike(a[i], b[i])
  BY EpochPartsAlike
<1> HIDE DEF a, b
<1> QED BY <1>1, PackedAlike

NetworkParts(network) ==
  <<OptionField(network.snarked_ledger_hash), OptionRange(network.blockchain_length, 32),
   OptionRange(network.min_window_density, 32), OptionRange(network.total_currency, 64),
   OptionRange(network.global_slot_since_genesis, 32), EpochData(network.staking_epoch_data),
   EpochData(network.next_epoch_data)>>

LEMMA NetworkPartsAlike ==
  ASSUME NEW p \in NetworkType, NEW q \in NetworkType
  PROVE  /\ DOMAIN NetworkParts(p) = 1..7 /\ DOMAIN NetworkParts(q) = 1..7
         /\ NetworkPreconditions(p) = Packed(NetworkParts(p)) /\ NetworkPreconditions(q)
                 = Packed(NetworkParts(q))
         /\ \A i \in 1..7 : Alike(NetworkParts(p)[i], NetworkParts(q)[i])
<1> DEFINE a == NetworkParts(p)
           b == NetworkParts(q)
<1>1. DOMAIN a = 1..7 /\ DOMAIN b = 1..7 /\ NetworkPreconditions(p) = Packed(a)
           /\ NetworkPreconditions(q) = Packed(b)
  BY DEF NetworkPreconditions, NetworkParts
<1>2. /\ Alike(a[1], b[1]) /\ Alike(a[2], b[2]) /\ Alike(a[3], b[3]) /\ Alike(a[4], b[4])
      /\ Alike(a[5], b[5]) /\ Alike(a[6], b[6]) /\ Alike(a[7], b[7])
  BY OptionFieldAlike, OptionRangeAlike, EpochAlike DEF NetworkType, NetworkParts
<1> HIDE DEF a, b
<1>3. \A i \in 1..7 : i = 1 \/ i = 2 \/ i = 3 \/ i = 4 \/ i = 5 \/ i = 6 \/ i = 7
  OBVIOUS
<1>4. \A i \in 1..7 : Alike(a[i], b[i])
  BY <1>2, <1>3
<1> QED BY <1>1, <1>4 DEF a, b

LEMMA NetworkAlike ==
  ASSUME NEW p \in NetworkType, NEW q \in NetworkType
  PROVE  Alike(NetworkPreconditions(p), NetworkPreconditions(q))
<1> DEFINE a == NetworkParts(p)
           b == NetworkParts(q)
<1>1. /\ DOMAIN a = 1..7 /\ DOMAIN b = 1..7 /\ NetworkPreconditions(p) = Packed(a)
              /\ NetworkPreconditions(q) = Packed(b)
      /\ \A i \in 1..7 : Alike(a[i], b[i])
  BY NetworkPartsAlike
<1> HIDE DEF a, b
<1> QED BY <1>1, PackedAlike

AccountParts(account) ==
  <<OptionRange(account.balance, 64), OptionRange(account.nonce, 32),
   OptionField(account.receipt_chain_hash), OptionKey(account.delegate),
   AppState(account.state), ActionState(account.action_state),
   OptionBool(account.proved_state), OptionBool(account.is_new)>>

LEMMA AccountPartsAlike ==
  ASSUME NEW p \in AccountType, NEW q \in AccountType
  PROVE  /\ DOMAIN AccountParts(p) = 1..8 /\ DOMAIN AccountParts(q) = 1..8
         /\ AccountPreconditions(p) = Packed(AccountParts(p)) /\ AccountPreconditions(q)
                 = Packed(AccountParts(q))
         /\ \A i \in 1..8 : Alike(AccountParts(p)[i], AccountParts(q)[i])
<1> DEFINE a == AccountParts(p)
           b == AccountParts(q)
<1>1. DOMAIN a = 1..8 /\ DOMAIN b = 1..8 /\ AccountPreconditions(p) = Packed(a)
           /\ AccountPreconditions(q) = Packed(b)
  BY DEF AccountPreconditions, AccountParts
<1>2. /\ Alike(a[1], b[1]) /\ Alike(a[2], b[2]) /\ Alike(a[3], b[3]) /\ Alike(a[4], b[4])
      /\ Alike(a[5], b[5]) /\ Alike(a[6], b[6]) /\ Alike(a[7], b[7]) /\ Alike(a[8], b[8])
  BY OptionFieldAlike, OptionRangeAlike, OptionKeyAlike, AppStateAlike, ActionStateAlike,
     OptionBoolAlike DEF AccountType, AccountParts
<1> HIDE DEF a, b
<1>3. \A i \in 1..8 : i = 1 \/ i = 2 \/ i = 3 \/ i = 4 \/ i = 5 \/ i = 6 \/ i = 7 \/ i = 8
  OBVIOUS
<1>4. \A i \in 1..8 : Alike(a[i], b[i])
  BY <1>2, <1>3
<1> QED BY <1>1, <1>4 DEF a, b

LEMMA AccountAlike ==
  ASSUME NEW p \in AccountType, NEW q \in AccountType
  PROVE  Alike(AccountPreconditions(p), AccountPreconditions(q))
<1> DEFINE a == AccountParts(p)
           b == AccountParts(q)
<1>1. /\ DOMAIN a = 1..8 /\ DOMAIN b = 1..8 /\ AccountPreconditions(p) = Packed(a)
              /\ AccountPreconditions(q) = Packed(b)
      /\ \A i \in 1..8 : Alike(a[i], b[i])
  BY AccountPartsAlike
<1> HIDE DEF a, b
<1> QED BY <1>1, PackedAlike

BodyParts(body) ==
  <<PublicKey(body.public_key), Field(body.token_id), UpdateInput(body.update),
    BalanceChange(body.balance_change), Bool(body.increment_nonce),
    Events(body.events), Actions(body.actions), Field(body.call_data),
    NetworkPreconditions(body.preconditions.network),
    AccountPreconditions(body.preconditions.account),
    OptionRange(body.preconditions.valid_while, 32),
    Bool(body.use_full_commitment), Bool(body.implicit_account_creation_fee),
    MayUseToken(body.may_use_token), AuthorizationKind(body.authorization_kind)>>

LEMMA BodyPartsAlike ==
  ASSUME NEW p \in BodyType, NEW q \in BodyType
  PROVE  /\ DOMAIN BodyParts(p) = 1..15 /\ DOMAIN BodyParts(q) = 1..15
         /\ AccountUpdateInput(p) = Packed(BodyParts(p))
         /\ AccountUpdateInput(q) = Packed(BodyParts(q))
         /\ \A i \in 1..15 : Alike(BodyParts(p)[i], BodyParts(q)[i])
<1> DEFINE a == BodyParts(p)
           b == BodyParts(q)
<1>1. /\ DOMAIN a = 1..15 /\ DOMAIN b = 1..15
      /\ AccountUpdateInput(p) = Packed(a) /\ AccountUpdateInput(q) = Packed(b)
  BY DEF AccountUpdateInput, BodyParts
<1>2. Alike(a[1], b[1]) /\ Alike(a[2], b[2]) /\ Alike(a[5], b[5]) /\ Alike(a[8], b[8])
  BY KeyAlike, FieldAlike, BoolAlike DEF BodyParts, BodyType
<1>3. Alike(a[12], b[12]) /\ Alike(a[13], b[13])
  BY BoolAlike DEF BodyParts
<1>4. Alike(a[6], b[6]) /\ Alike(a[7], b[7])
  BY FieldAlike DEF Events, Actions, EventList, BodyParts
<1>5. Alike(a[3], b[3])
  BY UpdateAlike DEF BodyType, BodyParts
<1>6. Alike(a[4], b[4])
  <2> DEFINE c == p.balance_change
             d == q.balance_change
  <2>1. c.magnitude \in Machine(64) /\ d.magnitude \in Machine(64)
    BY DEF BodyType
  <2> HIDE DEF c, d
  <2>2. /\ Alike(Word(c.magnitude), Word(d.magnitude))
        /\ Alike(Bool(c.sgn = 1), Bool(d.sgn = 1))
    BY <2>1, MachineAlike, BoolAlike
  <2>3. Alike(BalanceChange(c), BalanceChange(d))
    BY <2>2, PairAlike DEF BalanceChange
  <2> QED BY <2>3 DEF c, d, BodyParts
<1>7. Alike(a[9], b[9]) /\ Alike(a[10], b[10])
  BY NetworkAlike, AccountAlike DEF BodyType, BodyParts
<1>8. Alike(a[11], b[11])
  BY OptionRangeAlike DEF BodyType, BodyParts
<1>9. Alike(a[14], b[14])
  <2> DEFINE c == p.may_use_token
             d == q.may_use_token
  <2>1. /\ Alike(Bool(c.parents_own_token), Bool(d.parents_own_token))
        /\ Alike(Bool(c.inherit_from_parent), Bool(d.inherit_from_parent))
    BY BoolAlike
  <2> HIDE DEF c, d
  <2>2. Alike(MayUseToken(c), MayUseToken(d))
    BY <2>1, PairAlike DEF MayUseToken
  <2> QED BY <2>2 DEF c, d, BodyParts
<1>10. Alike(a[15], b[15])
  <2> DEFINE kind(k) == <<Bool(k.is_signed), Bool(k.is_proved), Field(k.verification_key_hash)>>
             c == kind(p.authorization_kind)
             d == kind(q.authorization_kind)
  <2>1. /\ DOMAIN c = 1..3 /\ DOMAIN d = 1..3
        /\ AuthorizationKind(p.authorization_kind) = Packed(c)
        /\ AuthorizationKind(q.authorization_kind) = Packed(d)
    BY DEF AuthorizationKind
  <2>2. Alike(c[1], d[1]) /\ Alike(c[2], d[2]) /\ Alike(c[3], d[3])
    BY BoolAlike, FieldAlike
  <2> HIDE DEF c, d
  <2>3. \A i \in 1..3 : i = 1 \/ i = 2 \/ i = 3
    OBVIOUS
  <2>4. \A i \in 1..3 : Alike(c[i], d[i])
    BY <2>2, <2>3
  <2>5. Alike(Packed(c), Packed(d))
    BY <2>1, <2>4, PackedAlike
  <2> QED BY <2>1, <2>5 DEF BodyParts
<1> HIDE DEF a, b
<1>11. \A i \in 1..15 : \/ i = 1 \/ i = 2 \/ i = 3 \/ i = 4 \/ i = 5 \/ i = 6 \/ i = 7 \/ i = 8
                        \/ i = 9 \/ i = 10 \/ i = 11 \/ i = 12 \/ i = 13 \/ i = 14 \/ i = 15
  OBVIOUS
<1>12. \A i \in 1..15 : Alike(a[i], b[i])
  BY <1>2, <1>3, <1>4, <1>5, <1>6, <1>7, <1>8, <1>9, <1>10, <1>11
<1> QED BY <1>1, <1>12 DEF a, b

LEMMA BodyAlike ==
  ASSUME NEW p \in BodyType, NEW q \in BodyType
  PROVE  Alike(AccountUpdateInput(p), AccountUpdateInput(q))
<1> DEFINE a == BodyParts(p)
           b == BodyParts(q)
<1>1. /\ DOMAIN a = 1..15 /\ DOMAIN b = 1..15 /\ AccountUpdateInput(p) = Packed(a)
              /\ AccountUpdateInput(q) = Packed(b)
      /\ \A i \in 1..15 : Alike(a[i], b[i])
  BY BodyPartsAlike
<1> HIDE DEF a, b
<1> QED BY <1>1, PackedAlike

LEMMA DefaultType == DefaultBody \in BodyType
<1>1. \A S : <<>> \in Optional(S)
  BY DEF Optional
<1>2. Zero \in Numbers /\ One \in Numbers
  <2>1. <<>> \in Seq(Bit) /\ <<1>> \in Seq(Bit) /\ Len(<<>>) < 255 /\ Len(<<1>>) < 255
    BY DEF Bit
  <2> QED BY <2>1, NumberKeepsBits DEF Zero, One
<1>3. EmptyKey \in PublicKeyType
  BY <1>2 DEF EmptyKey, PublicKeyType
<1>4. NoneOf(APP_STATE_LENGTH) \in StateType
  BY <1>1 DEF NoneOf, StateType
<1>5. DefaultUpdate \in UpdateType
  BY <1>1, <1>4 DEF DefaultUpdate, UpdateType
<1>6. DefaultEpoch \in EpochDataType
  BY <1>1 DEF DefaultEpoch, EpochDataType
<1>7. DefaultPreconditions \in
        [network : NetworkType, account : AccountType, valid_while : Optional(RangeType(32))]
  BY <1>1, <1>4, <1>6 DEF DefaultPreconditions, NetworkType, AccountType
<1>8. Zero \in Fp /\ DUMMY_HASH \in Fp /\ Zeros(64) \in Machine(64) /\ <<>> \in Seq(Seq(Fp))
  BY <1>2, EmptyWords DEF Fp
<1> QED BY <1>2, <1>3, <1>5, <1>7, <1>8 DEF DefaultBody, BodyType

-------------------------------------------------------------------------------
(* The two loops, of who packs and of who reads, step by step. *)
PackStep(before, piece) ==
  IF Len(before.current) + Len(piece) < 255
  THEN [before EXCEPT !.current = @ \o piece]
  ELSE [done |-> Append(before.done, Number(before.current)), current |-> piece]
PlaceStep(before, size) ==
  LET n == Len(before.widths)
      width == IF n = 0 THEN 255 ELSE before.widths[n]
  IN IF width + size < 255
     THEN [widths |-> [before.widths EXCEPT ![n] = @ + size],
           element |-> Append(before.element, n),
           offset |-> Append(before.offset, width)]
     ELSE [widths |-> Append(before.widths, size),
           element |-> Append(before.element, n + 1),
           offset |-> Append(before.offset, 0)]
Start(packing) ==
  IF packing THEN [done |-> <<>>, current |-> <<>>]
  ELSE [widths |-> <<>>, element |-> <<>>, offset |-> <<>>]
Step(packing, before, part) ==
  IF packing THEN PackStep(before, part) ELSE PlaceStep(before, part)
IsLoop(packing, f, parts) ==
  f = [i \in 0..Len(parts) |-> IF i = 0 THEN Start(packing) ELSE Step(packing, f[i - 1], parts[i])]

LEMMA LoopExists ==
  ASSUME NEW packing \in BOOLEAN, NEW parts, Len(parts) \in Nat
  PROVE  \E f : IsLoop(packing, f, parts)
<1> DEFINE Steps(f, n) ==
             f = [i \in 0..n |-> IF i = 0 THEN Start(packing) ELSE Step(packing, f[i - 1], parts[i])]
           T == {n \in Nat : \E f : Steps(f, n)}
<1>1. 0 \in T
  <2> DEFINE g == [i \in 0..0 |-> Start(packing)]
  <2>1. \A i \in 0..0 : i = 0
    OBVIOUS
  <2>2. g = [i \in 0..0 |-> IF i = 0 THEN Start(packing) ELSE Step(packing, g[i - 1], parts[i])]
    BY <2>1
  <2>3. \E f : Steps(f, 0)
    BY <2>2
  <2> QED BY <2>3
<1>2. ASSUME NEW n \in Nat, n \in T PROVE n + 1 \in T
  <2>1. PICK f : Steps(f, n)
    BY <1>2
  <2> DEFINE last == Step(packing, f[n], parts[n + 1])
             g == [i \in 0..(n + 1) |-> IF i <= n THEN f[i] ELSE last]
  <2>2. ASSUME NEW i \in 0..(n + 1)
        PROVE  g[i] = IF i = 0 THEN Start(packing) ELSE Step(packing, g[i - 1], parts[i])
    <3>1. CASE i = 0
      BY <3>1, <2>1
    <3>2. CASE i # 0 /\ i <= n
      <4>1. i \in 0..n /\ i - 1 \in 0..(n + 1) /\ i - 1 <= n
        BY <3>2
      <4>2. f[i] = Step(packing, f[i - 1], parts[i])
        BY <3>2, <4>1, <2>1
      <4>3. g[i] = f[i] /\ g[i - 1] = f[i - 1]
        BY <3>2, <4>1
      <4> HIDE DEF g
      <4> QED BY <3>2, <4>2, <4>3
    <3>3. CASE i = n + 1
      <4>1. i - 1 \in 0..(n + 1) /\ i - 1 = n /\ i - 1 <= n /\ ~(i <= n) /\ i # 0
        BY <3>3
      <4>2. g[i - 1] = f[n] /\ g[i] = last
        BY <4>1
      <4> HIDE DEF g
      <4> QED BY <3>3, <4>1, <4>2
    <3> QED BY <3>1, <3>2, <3>3
  <2>3. Steps(g, n + 1)
    <3>1. DOMAIN g = 0..(n + 1) /\ g = [i \in 0..(n + 1) |-> g[i]]
      OBVIOUS
    <3> HIDE DEF g
    <3> QED BY <3>1, <2>2
  <2> HIDE DEF g, Steps
  <2> QED BY <2>3
<1>3. Len(parts) \in T
  <2>1. Nat \subseteq T
    <3> HIDE DEF T
    <3> QED BY <1>1, <1>2, InductionOverSet
  <2> HIDE DEF T
  <2> QED BY <2>1
<1> QED BY <1>3 DEF IsLoop

LEMMA LoopSteps ==
  ASSUME NEW packing, NEW parts, Len(parts) \in Nat, NEW f, IsLoop(packing, f, parts)
  PROVE  /\ f[0] = Start(packing)
         /\ \A i \in 1..Len(parts) : f[i] = Step(packing, f[i - 1], parts[i])
<1>1. 0 \in 0..Len(parts) /\ \A i \in 1..Len(parts) : i \in 0..Len(parts) /\ i # 0
  OBVIOUS
<1> QED BY <1>1 DEF IsLoop

LEMMA PackLoop ==
  ASSUME NEW input, Len(input.bits) \in Nat, input.bits # <<>>
  PROVE  \E f : /\ IsLoop(TRUE, f, input.bits)
                /\ pack_to_fields(input)
                     = input.fields \o Append(f[Len(input.bits)].done,
                                              Number(f[Len(input.bits)].current))
<1> DEFINE f == CHOOSE f : IsLoop(TRUE, f, input.bits)
<1>1. IsLoop(TRUE, f, input.bits)
  BY LoopExists
<1>2. pack_to_fields(input) = input.fields \o Append(f[Len(input.bits)].done,
                                                     Number(f[Len(input.bits)].current))
  BY ZenonT(30) DEF pack_to_fields, IsLoop, Step, PackStep, Start
<1> HIDE DEF f
<1> QED BY <1>1, <1>2

LEMMA PlaceLoop ==
  ASSUME NEW sizes, Len(sizes) \in Nat
  PROVE  \E f : IsLoop(FALSE, f, sizes) /\ Places(sizes) = f[Len(sizes)]
<1> DEFINE f == CHOOSE f : IsLoop(FALSE, f, sizes)
<1>1. IsLoop(FALSE, f, sizes)
  BY LoopExists
<1>2. Places(sizes) = f[Len(sizes)]
  BY DEF Places, IsLoop, Step, PlaceStep, Start
<1> HIDE DEF f
<1> QED BY <1>1, <1>2

(* After i pieces: raw are the bits of the elements, the last one still    *)
(* growing, and each piece is where the reader will look for it.           *)
At(raw, e, o, piece) ==
  /\ e \in 1..Len(raw) /\ o \in Nat /\ o + Len(piece) <= Len(raw[e])
  /\ \A d \in 1..Len(piece) : raw[e][o + d] = piece[d]
Pieces(raw, p, q, bits, i) ==
  /\ raw \in Seq(Seq(Bit)) /\ Len(raw) >= 1 /\ \A k \in 1..Len(raw) : Len(raw[k]) < 255
  /\ p \in [done : Seq(Numbers), current : Seq(Bit)]
  /\ Len(p.done) + 1 = Len(raw) /\ p.current = raw[Len(raw)]
  /\ \A k \in 1..Len(p.done) : p.done[k] = Number(raw[k])
  /\ q.widths \in Seq(Nat) /\ Len(q.widths) = Len(raw)
  /\ \A k \in 1..Len(raw) : q.widths[k] = Len(raw[k])
  /\ q.element \in Seq(Nat) /\ q.offset \in Seq(Nat) /\ Len(q.element) = i /\ Len(q.offset) = i
  /\ \A j \in 1..i : At(raw, q.element[j], q.offset[j], bits[j])

LEMMA FirstPiece ==
  ASSUME NEW bits \in Seq(Seq(Bit)), bits # <<>>, Len(bits[1]) < 255
  PROVE  \E raw : Pieces(raw, PackStep(Start(TRUE), bits[1]),
                         PlaceStep(Start(FALSE), Len(bits[1])), bits, 1)
<1> DEFINE b == bits[1]
           raw == <<b>>
           p == PackStep(Start(TRUE), b)
           q == PlaceStep(Start(FALSE), Len(b))
<1>1. b \in Seq(Bit) /\ Len(b) \in Nat /\ Len(b) < 255
  <2>1. 1 \in 1..Len(bits)
    BY EmptySeq, LenProperties
  <2> QED BY <2>1, ElementOfSeq, LenProperties
<1> HIDE DEF b
<1>2. p = [done |-> <<>>, current |-> b]
  <2>1. Len(<<>>) + Len(b) < 255 /\ <<>> \o b = b
    BY <1>1
  <2> QED BY <2>1 DEF PackStep, Start
<1>3. q.widths = <<Len(b)>> /\ q.element = <<1>> /\ q.offset = <<0>>
  <2>1. Len(<<>>) = 0 /\ ~(255 + Len(b) < 255)
    BY <1>1
  <2>2. /\ Append(<<>>, Len(b)) = <<Len(b)>> /\ Append(<<>>, 0 + 1) = <<1>>
        /\ Append(<<>>, 0) = <<0>>
    OBVIOUS
  <2> QED BY <2>1, <2>2 DEF PlaceStep, Start
<1>4. raw \in Seq(Seq(Bit)) /\ Len(raw) = 1 /\ raw[1] = b
  BY <1>1
<1> HIDE DEF raw, p, q
<1>5. \A j \in 1..1 : j = 1
  OBVIOUS
<1>6. At(raw, 1, 0, b)
  BY <1>1, <1>4 DEF At
<1>7. p.done = <<>> /\ p.current = b /\ <<>> \in Seq(Numbers) /\ Len(<<>>) = 0
      /\ p \in [done : Seq(Numbers), current : Seq(Bit)]
  BY <1>1, <1>2
<1>8. /\ <<Len(b)>> \in Seq(Nat) /\ <<1>> \in Seq(Nat) /\ <<0>> \in Seq(Nat)
      /\ Len(<<Len(b)>>) = 1 /\ Len(<<1>>) = 1 /\ Len(<<0>>) = 1
      /\ <<Len(b)>>[1] = Len(b) /\ <<1>>[1] = 1 /\ <<0>>[1] = 0
  BY <1>1
<1>9. Pieces(raw, p, q, bits, 1)
  BY <1>1, <1>3, <1>4, <1>5, <1>6, <1>7, <1>8 DEF Pieces, b
<1> QED BY <1>9 DEF p, q, b

\* What a raw element has it keeps, when bits come behind it or an element after it.
LEMMA PieceStays ==
  ASSUME NEW raw \in Seq(Seq(Bit)), NEW new \in Seq(Seq(Bit)), Len(raw) <= Len(new),
         \A k \in 1..Len(raw) :
           Len(raw[k]) <= Len(new[k]) /\ \A x \in 1..Len(raw[k]) : new[k][x] = raw[k][x],
         NEW e, NEW o, NEW piece, Len(piece) \in Nat, At(raw, e, o, piece)
  PROVE  At(new, e, o, piece)
<1>1. Len(raw) \in Nat /\ Len(new) \in Nat /\ e \in 1..Len(raw) /\ o \in Nat
  BY LenProperties DEF At
<1>2. e \in 1..Len(new) /\ Len(raw[e]) \in Nat /\ Len(new[e]) \in Nat
  <2>1. e \in 1..Len(new)
    BY <1>1
  <2> QED BY <2>1, <1>1, ElementOfSeq, LenProperties
<1>3. ASSUME NEW d \in 1..Len(piece) PROVE new[e][o + d] = piece[d]
  <2>1. o + d \in 1..Len(raw[e])
    BY <1>1, <1>2, SMTT(30) DEF At
  <2> QED BY <1>1, <2>1 DEF At
<1>4. o + Len(piece) <= Len(new[e])
  BY <1>1, <1>2 DEF At
<1> QED BY <1>1, <1>2, <1>3, <1>4 DEF At

\* What Append and EXCEPT make of a sequence, in the form used below.
LEMMA Appended ==
  ASSUME NEW S, NEW s \in Seq(S), NEW x \in S
  PROVE  /\ Append(s, x) \in Seq(S) /\ Len(Append(s, x)) = Len(s) + 1
         /\ (\A k \in 1..Len(s) : Append(s, x)[k] = s[k]) /\ Append(s, x)[Len(s) + 1] = x
  OBVIOUS

LEMMA Replaced ==
  ASSUME NEW S, NEW s \in Seq(S), NEW i \in 1..Len(s), NEW x \in S
  PROVE  /\ [s EXCEPT ![i] = x] \in Seq(S) /\ Len([s EXCEPT ![i] = x]) = Len(s)
         /\ \A k \in 1..Len(s) : [s EXCEPT ![i] = x][k] = IF k = i THEN x ELSE s[k]
  OBVIOUS

LEMMA GrownIs ==
  ASSUME NEW S, NEW T, NEW p \in [done : S, current : T], NEW c
  PROVE  [p EXCEPT !.current = c] = [done |-> p.done, current |-> c]
  OBVIOUS

LEMMA ReplacedBits ==
  ASSUME NEW raw \in Seq(Seq(Bit)), NEW m \in 1..Len(raw), NEW l \in Seq(Bit)
  PROVE  /\ [raw EXCEPT ![m] = l] \in Seq(Seq(Bit)) /\ Len([raw EXCEPT ![m] = l]) = Len(raw)
         /\ \A k \in 1..Len(raw) : [raw EXCEPT ![m] = l][k] = IF k = m THEN l ELSE raw[k]
  BY Replaced

LEMMA ReplacedWidth ==
  ASSUME NEW widths \in Seq(Nat), NEW m \in 1..Len(widths), NEW l \in Nat
  PROVE  /\ [widths EXCEPT ![m] = l] \in Seq(Nat) /\ Len([widths EXCEPT ![m] = l]) = Len(widths)
         /\ \A k \in 1..Len(widths) : [widths EXCEPT ![m] = l][k] = IF k = m THEN l ELSE widths[k]
  BY Replaced

\* The list of places goes on with the place of the next piece.
LEMMA PlacesGoOn ==
  ASSUME NEW bits \in Seq(Seq(Bit)), NEW i \in 1..(Len(bits) - 1),
         NEW raw \in Seq(Seq(Bit)), NEW new \in Seq(Seq(Bit)), Len(raw) <= Len(new),
         \A k \in 1..Len(raw) :
           Len(raw[k]) <= Len(new[k]) /\ \A x \in 1..Len(raw[k]) : new[k][x] = raw[k][x],
         NEW element \in Seq(Nat), NEW offset \in Seq(Nat), Len(element) = i, Len(offset) = i,
         \A j \in 1..i : At(raw, element[j], offset[j], bits[j]),
         NEW e \in Nat, NEW o \in Nat, At(new, e, o, bits[i + 1])
  PROVE  /\ Append(element, e) \in Seq(Nat) /\ Append(offset, o) \in Seq(Nat)
         /\ Len(Append(element, e)) = i + 1 /\ Len(Append(offset, o)) = i + 1
         /\ \A j \in 1..(i + 1) : At(new, Append(element, e)[j], Append(offset, o)[j], bits[j])
<1> DEFINE a == Append(element, e)
           b == Append(offset, o)
<1>1. a \in Seq(Nat) /\ Len(a) = Len(element) + 1 /\ (\A j \in 1..Len(element) : a[j] = element[j])
      /\ a[Len(element) + 1] = e
  OBVIOUS
<1>2. b \in Seq(Nat) /\ Len(b) = Len(offset) + 1 /\ (\A j \in 1..Len(offset) : b[j] = offset[j])
      /\ b[Len(offset) + 1] = o
  OBVIOUS
<1> HIDE DEF a, b
<1>3. ASSUME NEW j \in 1..(i + 1) PROVE At(new, a[j], b[j], bits[j])
  <2>1. CASE j = i + 1
    BY <1>1, <1>2, <2>1
  <2>2. CASE j # i + 1
    <3>1. j \in 1..i /\ j \in 1..Len(bits)
      <4>1. Len(bits) \in Nat
        BY LenProperties
      <4> QED BY <2>2, <4>1
    <3>2. a[j] = element[j] /\ b[j] = offset[j]
      BY <1>1, <1>2, <3>1
    <3>3. Len(bits[j]) \in Nat
      BY <3>1, ElementOfSeq, LenProperties
    <3>4. At(raw, element[j], offset[j], bits[j])
      BY <3>1
    <3>5. At(new, element[j], offset[j], bits[j])
      BY <3>3, <3>4, PieceStays
    <3> QED BY <3>2, <3>5
  <2> QED BY <2>1, <2>2
<1> QED BY <1>1, <1>2, <1>3 DEF a, b

LEMMA NextPiece ==
  ASSUME NEW bits \in Seq(Seq(Bit)), NEW i \in 1..(Len(bits) - 1), Len(bits[i + 1]) < 255,
         NEW raw, NEW p, NEW q, Pieces(raw, p, q, bits, i)
  PROVE  \E new : Pieces(new, PackStep(p, bits[i + 1]), PlaceStep(q, Len(bits[i + 1])), bits, i + 1)
<1> DEFINE c == bits[i + 1]
           m == Len(raw)
           last == raw[m]
           w == Len(last)
           pn == PackStep(p, c)
           qn == PlaceStep(q, Len(c))
<1>1. c \in Seq(Bit) /\ Len(c) \in Nat /\ Len(c) < 255
  <2>1. i + 1 \in 1..Len(bits)
    BY LenProperties
  <2> QED BY <2>1, ElementOfSeq, LenProperties
<1>2. /\ raw \in Seq(Seq(Bit)) /\ m \in Nat /\ m >= 1 /\ m \in 1..m
      /\ \A k \in 1..m : raw[k] \in Seq(Bit) /\ Len(raw[k]) \in Nat /\ Len(raw[k]) < 255
  <2>1. raw \in Seq(Seq(Bit)) /\ m \in Nat /\ m >= 1 /\ \A k \in 1..m : Len(raw[k]) < 255
    BY LenProperties DEF Pieces
  <2> QED BY <2>1, ElementOfSeq, LenProperties
<1>3. last \in Seq(Bit) /\ w \in Nat /\ w < 255
  BY <1>2
<1>4. /\ p \in [done : Seq(Numbers), current : Seq(Bit)] /\ Len(p.done) = m - 1
      /\ p.current = last /\ \A k \in 1..(m - 1) : p.done[k] = Number(raw[k])
  <2>1. p \in [done : Seq(Numbers), current : Seq(Bit)]
    BY DEF Pieces
  <2>2. Len(p.done) \in Nat
    BY <2>1, LenProperties
  <2>3. Len(p.done) + 1 = m
    BY DEF Pieces
  <2>4. Len(p.done) = m - 1
    BY <2>2, <2>3, <1>2
  <2> QED BY <2>1, <2>4 DEF Pieces
<1>5. /\ q.widths \in Seq(Nat) /\ Len(q.widths) = m /\ \A k \in 1..m : q.widths[k] = Len(raw[k])
      /\ q.element \in Seq(Nat) /\ q.offset \in Seq(Nat) /\ Len(q.element) = i /\ Len(q.offset) = i
      /\ \A j \in 1..i : At(raw, q.element[j], q.offset[j], bits[j])
  BY DEF Pieces
<1>6. q.widths[m] = w
  BY <1>2, <1>5
<1> HIDE DEF c, m, last, w, pn, qn
<1>a. p \in [done : Seq(Numbers), current : Seq(Bit)] /\ p.done \in Seq(Numbers) /\ p.current = last
  BY <1>4
<1>b. q.widths \in Seq(Nat) /\ Len(q.widths) = m
  BY <1>5
<1>c. raw \in Seq(Seq(Bit)) /\ Len(raw) = m
  BY <1>2 DEF m
<1>7. CASE w + Len(c) < 255
  <2> DEFINE l == last \o c
             new == [raw EXCEPT ![m] = l]
  <2>1. /\ l \in Seq(Bit) /\ Len(l) = w + Len(c)
        /\ \A x \in 1..(w + Len(c)) : l[x] = IF x <= w THEN last[x] ELSE c[x - w]
    BY <1>1, <1>3, ConcatProperties, Zenon DEF w
  <2> HIDE DEF l
  <2>2. /\ new \in Seq(Seq(Bit)) /\ Len(new) = m
        /\ \A k \in 1..m : new[k] = IF k = m THEN l ELSE raw[k]
    <3>1. m \in 1..Len(raw)
      BY <1>2, <1>c
    <3>2. /\ [raw EXCEPT ![m] = l] \in Seq(Seq(Bit)) /\ Len([raw EXCEPT ![m] = l]) = Len(raw)
          /\ \A k \in 1..Len(raw) : [raw EXCEPT ![m] = l][k] = IF k = m THEN l ELSE raw[k]
      BY <1>c, <2>1, <3>1, ReplacedBits
    <3> QED BY <1>c, <3>2
  <2> HIDE DEF new
  <2>3. pn = [done |-> p.done, current |-> l]
    <3>1. Len(p.current) + Len(c) < 255
      BY <1>a, <1>7 DEF w
    <3>2. [p EXCEPT !.current = @ \o c] = [done |-> p.done, current |-> p.current \o c]
      <4> DEFINE longer == p.current \o c
      <4>1. [p EXCEPT !.current = longer] = [done |-> p.done, current |-> longer]
        <5> HIDE DEF longer
        <5> QED BY <1>a, GrownIs
      <4> QED BY <4>1
    <3> QED BY <1>a, <3>1, <3>2 DEF pn, PackStep, l
  <2>4. qn = [widths |-> [q.widths EXCEPT ![m] = @ + Len(c)],
              element |-> Append(q.element, m), offset |-> Append(q.offset, w)]
    <3>1. m # 0 /\ Len(q.widths) = m
      BY <1>2, <1>5
    <3> QED BY <1>6, <1>7, <3>1 DEF qn, PlaceStep
  <2> DEFINE widths == [q.widths EXCEPT ![m] = @ + Len(c)]
  <2>5. /\ widths \in Seq(Nat) /\ Len(widths) = m
        /\ \A k \in 1..m : widths[k] = IF k = m THEN w + Len(c) ELSE q.widths[k]
    <3>1. widths = [q.widths EXCEPT ![m] = w + Len(c)]
      BY <1>6
    <3>2. w + Len(c) \in Nat /\ m \in 1..Len(q.widths)
      BY <1>1, <1>2, <1>3, <1>b
    <3>3. /\ [q.widths EXCEPT ![m] = w + Len(c)] \in Seq(Nat)
          /\ Len([q.widths EXCEPT ![m] = w + Len(c)]) = Len(q.widths)
          /\ \A k \in 1..Len(q.widths) :
               [q.widths EXCEPT ![m] = w + Len(c)][k] = IF k = m THEN w + Len(c) ELSE q.widths[k]
      BY <1>b, <3>2, ReplacedWidth, SMTT(30)
    <3> QED BY <1>b, <3>1, <3>3
  <2> HIDE DEF widths
  <2>6. At(new, m, w, c)
    <3>1. new[m] = l
      BY <1>2, <2>2
    <3>2. ASSUME NEW d \in 1..Len(c) PROVE l[w + d] = c[d]
      <4>1. w + d \in 1..(w + Len(c)) /\ ~(w + d <= w) /\ (w + d) - w = d
        BY <1>1, <1>3
      <4> QED BY <2>1, <4>1
    <3>3. w + Len(c) <= Len(l)
      BY <1>1, <1>3, <2>1
    <3> QED BY <1>2, <1>3, <2>2, <3>1, <3>2, <3>3 DEF At
  <2>7. \A k \in 1..m : Len(raw[k]) <= Len(new[k]) /\ \A x \in 1..Len(raw[k]) : new[k][x] = raw[k][x]
    <3> TAKE k \in 1..m
    <3>1. CASE k # m
      BY <3>1, <2>2, <1>2, SMTT(30)
    <3>2. CASE k = m
      <4>1. raw[k] = last /\ new[k] = l /\ Len(raw[k]) = w
        BY <3>2, <2>2 DEF last, w
      <4>2. Len(raw[k]) <= Len(new[k])
        BY <4>1, <1>1, <1>3, <2>1
      <4>3. ASSUME NEW x \in 1..w PROVE l[x] = last[x]
        <5>1. x \in 1..(w + Len(c)) /\ x <= w
          BY <1>1, <1>3
        <5> QED BY <5>1, <2>1
      <4> QED BY <4>1, <4>2, <4>3
    <3> QED BY <3>1, <3>2
  <2>8. /\ qn.element \in Seq(Nat) /\ qn.offset \in Seq(Nat)
        /\ Len(qn.element) = i + 1 /\ Len(qn.offset) = i + 1
        /\ \A j \in 1..(i + 1) : At(new, qn.element[j], qn.offset[j], bits[j])
    <3>1. /\ Append(q.element, m) \in Seq(Nat) /\ Append(q.offset, w) \in Seq(Nat)
          /\ Len(Append(q.element, m)) = i + 1 /\ Len(Append(q.offset, w)) = i + 1
          /\ \A j \in 1..(i + 1) : At(new, Append(q.element, m)[j], Append(q.offset, w)[j], bits[j])
      <4>1. Len(raw) <= Len(new) /\ \A k \in 1..Len(raw) :
              Len(raw[k]) <= Len(new[k]) /\ \A x \in 1..Len(raw[k]) : new[k][x] = raw[k][x]
        BY <1>2, <2>2, <2>7, SMTT(30) DEF m
      <4>2. At(new, m, w, bits[i + 1])
        BY <2>6 DEF c
      <4> QED BY <1>2, <1>3, <1>5, <2>2, <4>1, <4>2, PlacesGoOn
    <3> QED BY <2>4, <3>1
  <2>9. \A k \in 1..m : Len(new[k]) < 255 /\ qn.widths[k] = Len(new[k])
    <3> TAKE k \in 1..m
    <3>1. qn.widths = widths
      BY <2>4 DEF widths
    <3>2. CASE k # m
      BY <3>1, <3>2, <1>2, <1>5, <2>2, <2>5
    <3>3. CASE k = m
      BY <3>1, <3>3, <1>7, <2>1, <2>2, <2>5
    <3> QED BY <3>2, <3>3
  <2>10. \A k \in 1..(m - 1) : pn.done[k] = Number(new[k])
    <3> TAKE k \in 1..(m - 1)
    <3>1. k \in 1..m /\ k # m
      BY <1>2
    <3> QED BY <3>1, <1>4, <2>2, <2>3
  <2>11. /\ pn \in [done : Seq(Numbers), current : Seq(Bit)] /\ Len(pn.done) = m - 1
         /\ pn.current = new[m] /\ qn.widths = widths
    BY <1>2, <1>4, <2>1, <2>2, <2>3, <2>4 DEF widths
  <2>12. Len(pn.done) + 1 = Len(new) /\ Len(new) >= 1
    BY <1>2, <2>2, <2>11
  <2>13. Pieces(new, pn, qn, bits, i + 1)
    BY <2>2, <2>5, <2>8, <2>9, <2>10, <2>11, <2>12 DEF Pieces
  <2> QED BY <2>13 DEF pn, qn, c
<1>8. CASE ~(w + Len(c) < 255)
  <2> DEFINE new == Append(raw, c)
             done == Append(p.done, Number(last))
             widths == Append(q.widths, Len(c))
  <2>1. /\ new \in Seq(Seq(Bit)) /\ Len(new) = m + 1
        /\ (\A k \in 1..m : new[k] = raw[k]) /\ new[m + 1] = c
    <3>1. c \in Seq(Bit)
      BY <1>1
    <3>2. /\ Append(raw, c) \in Seq(Seq(Bit)) /\ Len(Append(raw, c)) = Len(raw) + 1
          /\ (\A k \in 1..Len(raw) : Append(raw, c)[k] = raw[k]) /\ Append(raw, c)[Len(raw) + 1] = c
      BY <1>c, <3>1, Appended, Zenon
    <3> QED BY <1>c, <3>2
  <2>2. Number(last) \in Numbers
    BY <1>3, NumberKeepsBits DEF w
  <2>3. /\ done \in Seq(Numbers) /\ Len(done) = Len(p.done) + 1
        /\ (\A k \in 1..Len(p.done) : done[k] = p.done[k]) /\ done[Len(p.done) + 1] = Number(last)
    BY <1>a, <2>2, Appended, ZenonT(30)
  <2>4. /\ widths \in Seq(Nat) /\ Len(widths) = Len(q.widths) + 1
        /\ (\A k \in 1..Len(q.widths) : widths[k] = q.widths[k])
        /\ widths[Len(q.widths) + 1] = Len(c)
    <3>1. Len(c) \in Nat
      BY <1>1
    <3> QED BY <1>b, <3>1, Appended, ZenonT(30)
  <2> HIDE DEF new, done, widths
  <2>5. pn = [done |-> done, current |-> c]
    <3>1. ~(Len(p.current) + Len(c) < 255)
      BY <1>a, <1>8 DEF w
    <3> QED BY <1>a, <3>1 DEF pn, PackStep, done
  <2>6. qn = [widths |-> widths, element |-> Append(q.element, m + 1), offset |-> Append(q.offset, 0)]
    <3>1. m # 0 /\ Len(q.widths) = m
      BY <1>2, <1>5
    <3> QED BY <1>6, <1>8, <3>1 DEF qn, PlaceStep, widths
  <2>7. At(new, m + 1, 0, c)
    <3>1. m + 1 \in 1..Len(new) /\ 0 + Len(c) <= Len(c) /\ \A d \in 1..Len(c) : 0 + d = d
      BY <1>1, <1>2, <2>1
    <3> QED BY <2>1, <3>1 DEF At
  <2>8. /\ qn.element \in Seq(Nat) /\ qn.offset \in Seq(Nat)
        /\ Len(qn.element) = i + 1 /\ Len(qn.offset) = i + 1
        /\ \A j \in 1..(i + 1) : At(new, qn.element[j], qn.offset[j], bits[j])
    <3>1. /\ Append(q.element, m + 1) \in Seq(Nat) /\ Append(q.offset, 0) \in Seq(Nat)
          /\ Len(Append(q.element, m + 1)) = i + 1 /\ Len(Append(q.offset, 0)) = i + 1
          /\ \A j \in 1..(i + 1) : At(new, Append(q.element, m + 1)[j], Append(q.offset, 0)[j], bits[j])
      <4>1. Len(raw) <= Len(new) /\ \A k \in 1..Len(raw) :
              Len(raw[k]) <= Len(new[k]) /\ \A x \in 1..Len(raw[k]) : new[k][x] = raw[k][x]
        BY <1>2, <2>1, SMTT(30) DEF m
      <4>2. At(new, m + 1, 0, bits[i + 1])
        BY <2>7 DEF c
      <4>3. m + 1 \in Nat /\ 0 \in Nat
        BY <1>2
      <4> QED BY <1>2, <1>5, <2>1, <4>1, <4>2, <4>3, PlacesGoOn
    <3> QED BY <2>6, <3>1
  <2>9. \A k \in 1..(m + 1) : Len(new[k]) < 255 /\ widths[k] = Len(new[k])
    <3> TAKE k \in 1..(m + 1)
    <3>1. k \in 1..m \/ k = m + 1
      BY <1>2
    <3> QED BY <3>1, <1>1, <1>2, <1>5, <2>1, <2>4
  <2>10. Len(done) = m /\ \A k \in 1..m : done[k] = Number(new[k])
    <3>1. Len(done) = m /\ Len(p.done) + 1 = m
      BY <1>2, <1>4, <2>3
    <3>2. ASSUME NEW k \in 1..m PROVE done[k] = Number(new[k])
      <4>1. k \in 1..(m - 1) \/ k = m
        BY <1>2
      <4>2. new[k] = raw[k] /\ raw[m] = last
        BY <2>1 DEF last
      <4> QED BY <4>1, <4>2, <3>1, <1>4, <2>3
    <3> QED BY <3>1, <3>2
  <2>11. /\ pn \in [done : Seq(Numbers), current : Seq(Bit)] /\ pn.done = done
         /\ pn.current = new[Len(new)] /\ qn.widths = widths
    BY <1>1, <2>1, <2>3, <2>5, <2>6
  <2>12. Len(done) + 1 = Len(new) /\ Len(new) >= 1 /\ Len(widths) = Len(new)
    BY <1>2, <1>5, <2>1, <2>4, <2>10
  <2>13. Pieces(new, pn, qn, bits, i + 1)
    BY <2>1, <2>4, <2>8, <2>9, <2>10, <2>11, <2>12 DEF Pieces
  <2> QED BY <2>13 DEF pn, qn, c
<1> QED BY <1>7, <1>8

LEMMA AllPieces ==
  ASSUME NEW bits \in Seq(Seq(Bit)), bits # <<>>, \A i \in 1..Len(bits) : Len(bits[i]) < 255,
         NEW sizes, Len(sizes) = Len(bits), \A i \in 1..Len(bits) : sizes[i] = Len(bits[i]),
         NEW f, IsLoop(TRUE, f, bits), NEW g, IsLoop(FALSE, g, sizes)
  PROVE  \E raw : Pieces(raw, f[Len(bits)], g[Len(bits)], bits, Len(bits))
<1> DEFINE n == Len(bits)
           T == {j \in Nat : j + 1 <= n => \E raw : Pieces(raw, f[j + 1], g[j + 1], bits, j + 1)}
<1>1. n \in Nat /\ n >= 1 /\ 1 \in 1..n
  <2>1. n \in Nat \ {0}
    BY EmptySeq, Zenon
  <2> QED BY <2>1
<1>2. /\ f[0] = Start(TRUE) /\ g[0] = Start(FALSE)
      /\ \A i \in 1..n : f[i] = PackStep(f[i - 1], bits[i]) /\ g[i] = PlaceStep(g[i - 1], Len(bits[i]))
  <2>1. f[0] = Start(TRUE) /\ \A i \in 1..n : f[i] = Step(TRUE, f[i - 1], bits[i])
    <3>1. Len(bits) \in Nat
      BY <1>1
    <3> QED BY <3>1 DEF IsLoop
  <2>2. g[0] = Start(FALSE) /\ \A i \in 1..n : g[i] = Step(FALSE, g[i - 1], sizes[i])
    <3>1. Len(sizes) \in Nat
      BY <1>1
    <3>2. g[0] = Start(FALSE) /\ \A i \in 1..Len(sizes) : g[i] = Step(FALSE, g[i - 1], sizes[i])
      BY <3>1 DEF IsLoop
    <3> QED BY <3>2
  <2> QED BY <2>1, <2>2 DEF Step
<1> HIDE DEF n
<1>3. 0 \in T
  <2>1. \E raw : Pieces(raw, PackStep(Start(TRUE), bits[1]), PlaceStep(Start(FALSE), Len(bits[1])), bits, 1)
    BY <1>1, FirstPiece DEF n
  <2>2. f[1] = PackStep(f[1 - 1], bits[1]) /\ g[1] = PlaceStep(g[1 - 1], Len(bits[1])) /\ 1 - 1 = 0
    BY <1>1, <1>2
  <2>3. f[1] = PackStep(Start(TRUE), bits[1]) /\ g[1] = PlaceStep(Start(FALSE), Len(bits[1]))
    BY <1>2, <2>2
  <2>4. 0 + 1 = 1
    OBVIOUS
  <2> QED BY <2>1, <2>3, <2>4
<1>4. ASSUME NEW j \in Nat, j \in T PROVE j + 1 \in T
  <2> SUFFICES ASSUME (j + 1) + 1 <= n
               PROVE  \E raw : Pieces(raw, f[(j + 1) + 1], g[(j + 1) + 1], bits, (j + 1) + 1)
    OBVIOUS
  <2> DEFINE i == j + 1
  <2>1. i \in Nat /\ i <= n /\ i \in 1..(n - 1) /\ i + 1 \in 1..n /\ (i + 1) - 1 = i
    BY <1>1
  <2>2. PICK raw : Pieces(raw, f[i], g[i], bits, i)
    BY <1>4, <2>1
  <2> HIDE DEF i
  <2>3. Len(bits[i + 1]) < 255
    BY <2>1 DEF n
  <2>4. \E new : Pieces(new, PackStep(f[i], bits[i + 1]), PlaceStep(g[i], Len(bits[i + 1])), bits, i + 1)
    <3>1. i \in 1..(Len(bits) - 1)
      BY <2>1 DEF n
    <3> QED BY <2>2, <2>3, <3>1, NextPiece
  <2>5. f[i + 1] = PackStep(f[i], bits[i + 1]) /\ g[i + 1] = PlaceStep(g[i], Len(bits[i + 1]))
    BY <1>2, <2>1
  <2>6. \E new : Pieces(new, f[i + 1], g[i + 1], bits, i + 1)
    BY <2>4, <2>5
  <2> QED BY <2>6 DEF i
<1>5. n - 1 \in T
  <2>1. Nat \subseteq T
    <3> HIDE DEF T
    <3> QED BY <1>3, <1>4, InductionOverSet
  <2>2. n - 1 \in Nat
    BY <1>1
  <2> HIDE DEF T
  <2> QED BY <2>1, <2>2
<1>6. (n - 1) + 1 = n /\ (n - 1) + 1 <= n
  BY <1>1
<1>7. \E raw : Pieces(raw, f[n], g[n], bits, n)
  BY <1>5, <1>6
<1> QED BY <1>7 DEF n

LEMMA BehindIs ==
  ASSUME NEW S, NEW s \in Seq(S), NEW T, NEW x \in Seq(T)
  PROVE  SubSeq(s \o x, Len(s) + 1, Len(s \o x)) = x
<1> DEFINE U == S \cup T
           c == s \o x
           m == Len(s)
           n == Len(x)
           r == SubSeq(c, m + 1, Len(c))
<1>1. s \in Seq(U) /\ x \in Seq(U) /\ m \in Nat /\ n \in Nat
  <2>1. s \in [1..m -> S] /\ x \in [1..n -> T] /\ m \in Nat /\ n \in Nat
    BY LenProperties, Zenon
  <2>2. s \in [1..m -> U] /\ x \in [1..n -> U]
    BY <2>1
  <2> QED BY <2>1, <2>2
<1> HIDE DEF U
<1>2. c \in Seq(U) /\ Len(c) = m + n /\ \A i \in 1..(m + n) : c[i] = IF i <= m THEN s[i] ELSE x[i - m]
  BY <1>1, ConcatProperties, Zenon
<1> HIDE DEF c, m, n
<1>3. \A i \in (m + 1)..Len(c) : c[i] \in U
  <2>1. \A i \in 1..Len(c) : c[i] \in U
    BY <1>2, ElementOfSeq
  <2> QED BY <1>1, <1>2, <2>1
<1>4. /\ r \in Seq(U) /\ Len(r) = IF m + 1 <= Len(c) THEN Len(c) - (m + 1) + 1 ELSE 0
      /\ \A i \in 1..(Len(c) - (m + 1) + 1) : r[i] = c[(m + 1) + i - 1]
  <2>1. m + 1 \in Int /\ Len(c) \in Int
    BY <1>1, <1>2
  <2> DEFINE a == m + 1
             b == Len(c)
  <2>2. a \in Int /\ b \in Int /\ \A i \in a..b : c[i] \in U
    BY <1>3, <2>1
  <2>3. r = SubSeq(c, a, b)
    OBVIOUS
  <2> HIDE DEF a, b
  <2>4. /\ SubSeq(c, a, b) \in Seq(U) /\ Len(SubSeq(c, a, b)) = IF a <= b THEN b - a + 1 ELSE 0
        /\ \A i \in 1..(b - a + 1) : SubSeq(c, a, b)[i] = c[a + i - 1]
    BY <2>2, SubSeqProperties
  <2>5. /\ r \in Seq(U) /\ Len(r) = IF a <= b THEN b - a + 1 ELSE 0
        /\ \A i \in 1..(b - a + 1) : r[i] = c[a + i - 1]
    <3> HIDE DEF r
    <3> QED BY <2>3, <2>4
  <2> QED BY <2>5 DEF a, b
<1> HIDE DEF r
<1>5. Len(r) = n
  BY <1>1, <1>2, <1>4
<1>6. ASSUME NEW i \in 1..Len(r) PROVE r[i] = x[i]
  <2>1. i \in 1..(Len(c) - (m + 1) + 1) /\ (m + 1) + i - 1 = m + i
    BY <1>1, <1>2, <1>5
  <2>2. m + i \in 1..(m + n) /\ ~(m + i <= m) /\ (m + i) - m = i
    BY <1>1, <1>5
  <2> QED BY <1>2, <1>4, <2>1, <2>2
<1>7. r = x
  <2>1. Len(r) = Len(x)
    BY <1>5 DEF n
  <2> QED BY <1>1, <1>4, <1>6, <2>1, SeqEqual
<1> QED BY <1>7 DEF r, c, m

(* What is packed comes behind the fields: the numbers of the raw elements, *)
(* which hold the pieces where the reader looks for them.                  *)
PackedRaw(input, places, raw, x) ==
  /\ pack_to_fields(input) = input.fields \o x
  /\ \E p : Pieces(raw, p, places, input.bits, Len(input.bits))
  /\ Len(raw) \in Nat /\ x \in Seq(Numbers) /\ Len(x) = Len(raw)
  /\ \A k \in 1..Len(raw) : x[k] = Number(raw[k])
  /\ \A k \in 1..Len(raw) : raw[k] \in Seq(Bit) /\ Len(raw[k]) \in Nat /\ Len(raw[k]) < 255

LEMMA PackedAre ==
  ASSUME NEW input, IsInput(input), input.bits # <<>>, NEW sizes, Len(sizes) = Len(input.bits),
         \A i \in 1..Len(input.bits) : sizes[i] = Len(input.bits[i])
  PROVE  \E raw, x : PackedRaw(input, Places(sizes), raw, x)
<1> DEFINE bits == input.bits
           n == Len(bits)
           places == Places(sizes)
<1>1. bits \in Seq(Seq(Bit)) /\ (\A i \in 1..n : Len(bits[i]) < 255) /\ n \in Nat
  BY LenProperties DEF IsInput
<1>2. PICK g : IsLoop(FALSE, g, sizes) /\ places = g[n]
  BY <1>1, PlaceLoop
<1>3. PICK f : /\ IsLoop(TRUE, f, bits)
               /\ pack_to_fields(input) = input.fields \o Append(f[n].done, Number(f[n].current))
  BY <1>1, PackLoop
<1>4. PICK raw : Pieces(raw, f[n], g[n], bits, n)
  BY <1>1, <1>2, <1>3, AllPieces
<1> DEFINE x == Append(f[n].done, Number(f[n].current))
<1>5. /\ Len(raw) \in Nat /\ Len(raw) >= 1
      /\ \A k \in 1..Len(raw) : raw[k] \in Seq(Bit) /\ Len(raw[k]) \in Nat /\ Len(raw[k]) < 255
  <2>1. raw \in Seq(Seq(Bit)) /\ Len(raw) >= 1 /\ \A k \in 1..Len(raw) : Len(raw[k]) < 255
    BY <1>4 DEF Pieces
  <2> QED BY <2>1, ElementOfSeq, LenProperties
<1>6. x \in Seq(Numbers) /\ Len(x) = Len(raw) /\ \A k \in 1..Len(raw) : x[k] = Number(raw[k])
  <2> DEFINE done == f[n].done
             last == Number(f[n].current)
  <2>1. done \in Seq(Numbers) /\ Len(done) + 1 = Len(raw) /\ \A k \in 1..Len(done) : done[k]
             = Number(raw[k])
    BY <1>4 DEF Pieces
  <2>2. last = Number(raw[Len(raw)])
    BY <1>4 DEF Pieces
  <2>3. last \in Numbers
    <3>1. Len(raw) \in 1..Len(raw)
      BY <1>5
    <3> QED BY <2>2, <3>1, <1>5, NumberKeepsBits
  <2> HIDE DEF done, last
  <2>4. /\ Append(done, last) \in Seq(Numbers) /\ Len(Append(done, last)) = Len(done) + 1
        /\ (\A k \in 1..Len(done) : Append(done, last)[k] = done[k])
        /\ Append(done, last)[Len(done) + 1] = last
    BY <2>1, <2>3, Appended, Zenon
  <2>5. Len(done) \in Nat
    BY <2>1, LenProperties
  <2>6. ASSUME NEW k \in 1..Len(raw) PROVE Append(done, last)[k] = Number(raw[k])
    <3>1. k \in 1..Len(done) \/ k = Len(raw)
      BY <2>1, <2>5
    <3> QED BY <3>1, <2>1, <2>2, <2>4
  <2> QED BY <2>1, <2>4, <2>6 DEF done, last
<1> HIDE DEF x
<1>7. PackedRaw(input, places, raw, x)
  BY <1>2, <1>3, <1>4, <1>5, <1>6 DEF PackedRaw, x
<1> QED BY <1>7

\* What no input may lose: its pieces, read from the packed elements by their sizes.
LEMMA InputReadsBack ==
  ASSUME NEW input, IsInput(input) PROVE ReadsBack(input)
<1> DEFINE bits == input.bits
           n == Len(bits)
           sizes == [i \in DOMAIN bits |-> Len(bits[i])]
           places == Places(sizes)
           packed == pack_to_fields(input)
           elements == SubSeq(packed, Len(input.fields) + 1, Len(packed))
<1>1. bits \in Seq(Seq(Bit)) /\ \A i \in 1..n : Len(bits[i]) < 255
  BY DEF IsInput
<1>2. PICK S : input.fields \in Seq(S)
  BY DEF IsInput
<1>3. n \in Nat /\ DOMAIN bits = 1..n /\ \A i \in 1..n : bits[i] \in Seq(Bit) /\ Len(bits[i]) \in Nat
  <2>1. n \in Nat /\ DOMAIN bits = 1..n
    BY <1>1, LenProperties
  <2> QED BY <1>1, <2>1, ElementOfSeq, LenProperties
<1>4. sizes = [i \in 1..n |-> Len(bits[i])] /\ Len(sizes) = n /\ DOMAIN sizes = 1..n
  <2>1. sizes = [i \in 1..n |-> Len(bits[i])]
    BY <1>3
  <2>2. Len([i \in 1..n |-> Len(bits[i])]) = n
    BY <1>3
  <2> QED BY <2>1, <2>2
<1>5. \A i \in 1..n : sizes[i] = Len(bits[i])
  BY <1>4
<1>6. PICK g : IsLoop(FALSE, g, sizes) /\ places = g[n]
  BY <1>3, <1>4, PlaceLoop
<1> HIDE DEF sizes
<1>7. CASE bits = <<>>
  <2>1. n = 0
    BY <1>7
  <2>2. places = Start(FALSE)
    BY <1>3, <1>4, <1>6, <2>1, LoopSteps
  <2>3. elements = <<>>
    <3>1. packed = input.fields
      BY <1>7 DEF pack_to_fields
    <3>2. Len(input.fields) \in Nat
      BY <1>2, LenProperties
    <3>3. Len(input.fields) + 1 \in Int /\ Len(input.fields) \in Int
               /\ Len(input.fields) < Len(input.fields) + 1
      BY <3>2
    <3>4. SubSeq(input.fields, Len(input.fields) + 1, Len(input.fields)) = <<>>
      <4> DEFINE a == Len(input.fields) + 1
                 b == Len(input.fields)
      <4>1. a \in Int /\ b \in Int /\ b < a
        BY <3>3
      <4> HIDE DEF a, b
      <4>2. SubSeq(input.fields, a, b) = <<>>
        BY <4>1, SubSeqEmpty
      <4> QED BY <4>2 DEF a, b
    <3> QED BY <3>1, <3>4
  <2>4. Len(elements) = Len(places.widths)
    <3>1. Start(FALSE).widths = <<>>
      BY DEF Start
    <3> HIDE DEF elements, places
    <3> QED BY <2>2, <2>3, <3>1
  <2>5. Unpack(elements, sizes, places) = bits
    <3>1. DOMAIN sizes = {} /\ DOMAIN bits = {}
      BY <1>3, <1>4, <2>1
    <3>2. bits = [i \in {} |-> bits[i]]
      BY <1>1, <1>7
    <3> HIDE DEF bits, elements, places
    <3> QED BY <3>1, <3>2 DEF Unpack
  <2> QED BY <2>4, <2>5 DEF ReadsBack, sizes
<1>8. CASE bits # <<>>
  <2>1. PICK raw, x : PackedRaw(input, places, raw, x)
    BY <1>4, <1>5, <1>8, PackedAre
  <2>3. \A k \in 1..Len(raw) : raw[k] \in Seq(Bit) /\ Len(raw[k]) \in Nat /\ Len(raw[k]) < 255
    BY <2>1 DEF PackedRaw
  <2>4. x \in Seq(Numbers) /\ Len(x) = Len(raw) /\ \A k \in 1..Len(raw) : x[k] = Number(raw[k])
    BY <2>1 DEF PackedRaw
  <2>5. elements = x
    <3>1. packed = input.fields \o x
      BY <2>1 DEF PackedRaw
    <3>2. SubSeq(input.fields \o x, Len(input.fields) + 1, Len(input.fields \o x)) = x
      BY <1>2, <2>4, BehindIs, Zenon
    <3> QED BY <3>1, <3>2
  <2>6. /\ Len(places.widths) = Len(raw) /\ \A k \in 1..Len(raw) : places.widths[k] = Len(raw[k])
        /\ \A j \in 1..n : At(raw, places.element[j], places.offset[j], bits[j])
    BY <2>1 DEF PackedRaw, Pieces
  <2> HIDE DEF elements, places
  <2>7. Len(elements) = Len(places.widths)
    BY <2>4, <2>5, <2>6
  <2> DEFINE read(i) ==
               [d \in 1..sizes[i] |->
                 Digit(elements[places.element[i]].number,
                       (places.widths[places.element[i]] - places.offset[i] + 1) - d)]
  <2>8. ASSUME NEW i \in 1..n PROVE read(i) = bits[i]
    <3> DEFINE e == places.element[i]
               o == places.offset[i]
               b == bits[i]
               l == Len(raw[e])
    <3>1. At(raw, e, o, b) /\ b \in Seq(Bit) /\ Len(b) \in Nat /\ sizes[i] = Len(b)
      BY <1>3, <1>5, <2>6
    <3>2. e \in 1..Len(raw) /\ o \in Nat /\ o + Len(b) <= l /\ \A d \in 1..Len(b) : raw[e][o + d] = b[d]
      BY <3>1 DEF At
    <3>3. raw[e] \in Seq(Bit) /\ l \in Nat /\ l < 255 /\ places.widths[e] = l
      BY <2>3, <2>6, <3>2
    <3>4. elements[e].number = Number(raw[e]).number
      BY <2>4, <2>5, <3>2
    <3>5. \A k \in 1..l : Digit(Number(raw[e]).number, l + 1 - k) = raw[e][k]
      BY <3>3, NumberKeepsBits
    <3> HIDE DEF e, o, b, l
    <3>6. ASSUME NEW d \in 1..Len(b)
          PROVE  Digit(elements[e].number, (places.widths[e] - o + 1) - d) = b[d]
      <4>1. o + d \in 1..l /\ (l - o + 1) - d = l + 1 - (o + d)
        BY <3>1, <3>2, <3>3
      <4> QED BY <3>2, <3>3, <3>4, <3>5, <4>1
    <3>7. b = [d \in 1..Len(b) |-> b[d]]
      BY <3>1, LenProperties
    <3>8. [d \in 1..Len(b) |-> Digit(elements[e].number, (places.widths[e] - o + 1) - d)] = b
      BY <3>6, <3>7
    <3>9. read(i) = [d \in 1..Len(b) |-> Digit(elements[e].number, (places.widths[e] - o + 1) - d)]
      <4>1. read(i) = [d \in 1..sizes[i] |-> Digit(elements[e].number, (places.widths[e] - o + 1) - d)]
        BY DEF e, o
      <4> HIDE DEF read
      <4> QED BY <3>1, <4>1
    <3> HIDE DEF read
    <3> QED BY <3>8, <3>9 DEF b
  <2>9. Unpack(elements, sizes, places) = [i \in 1..n |-> read(i)]
    <3>1. Unpack(elements, sizes, places) = [i \in DOMAIN sizes |-> read(i)]
      BY DEF Unpack
    <3> HIDE DEF read
    <3> QED BY <1>4, <3>1
  <2>10. bits = [i \in 1..n |-> bits[i]]
    BY <1>1, <1>3
  <2> HIDE DEF read
  <2>11. Unpack(elements, sizes, places) = bits
    BY <2>8, <2>9, <2>10
  <2> QED BY <2>7, <2>11 DEF ReadsBack, elements, places, sizes
<1> QED BY <1>7, <1>8

(* The bits of a URI come in pieces of one, with a one behind them. *)
UriBits(uri) == Append(BitsOfBytes(uri), 1)
Singles(bits) == [i \in DOMAIN bits |-> <<bits[i]>>]

LEMMA UriBitsAre ==
  ASSUME NEW uri \in Seq(Byte)
  PROVE  /\ BitsOfBytes(uri) \in Seq(Bit) /\ UriBits(uri) \in Seq(Bit)
         /\ UriInput(uri) = [fields |-> <<>>, bits |-> Singles(UriBits(uri))]
<1> DEFINE bytes == [i \in DOMAIN uri |-> Reverse(Bits(uri[i], 8))]
<1>1. Len(uri) \in Nat /\ DOMAIN uri = 1..Len(uri) /\ \A i \in 1..Len(uri) : uri[i] \in Int
  <2>1. Len(uri) \in Nat /\ DOMAIN uri = 1..Len(uri) /\ \A i \in 1..Len(uri) : uri[i] \in Byte
    BY ElementOfSeq, LenProperties
  <2>2. \A b \in Byte : b \in Int
    BY DEF Byte
  <2> QED BY <2>1, <2>2
<1>2. ASSUME NEW n \in Int PROVE Reverse(Bits(n, 8)) \in Seq(Bit)
  <2> DEFINE b == Bits(n, 8)
  <2>1. b \in [1..8 -> Bit] /\ Len(b) = 8
    <3>1. b \in Machine(8) /\ 8 \in Nat
      BY BitsAreBits
    <3> HIDE DEF b
    <3> QED BY <3>1 DEF Machine
  <2> HIDE DEF b
  <2>2. Reverse(b) = [i \in 1..8 |-> b[(8 - i) + 1]]
    BY <2>1 DEF Reverse
  <2>3. \A i \in 1..8 : b[(8 - i) + 1] \in Bit
    BY <2>1
  <2>4. Reverse(b) \in Seq(Bit)
    BY <2>2, <2>3
  <2> QED BY <2>4 DEF b
<1>3. bytes \in Seq(Seq(Bit))
  BY <1>1, <1>2
<1>4. BitsOfBytes(uri) \in Seq(Bit)
  <2>1. FlattenSeq(bytes) \in Seq(Bit)
    <3> HIDE DEF bytes
    <3> QED BY <1>3, FlattenPlaces
  <2> QED BY <2>1 DEF BitsOfBytes
<1>5. UriBits(uri) \in Seq(Bit)
  <2>1. 1 \in Bit
    BY DEF Bit
  <2> QED BY <1>4, <2>1 DEF UriBits
<1> QED BY <1>4, <1>5 DEF UriBits, Singles, UriInput

LEMMA SinglesAre ==
  ASSUME NEW bits \in Seq(Bit)
  PROVE  /\ Singles(bits) \in Seq(Seq(Bit)) /\ Len(Singles(bits)) = Len(bits)
         /\ \A i \in 1..Len(bits) : Singles(bits)[i] = <<bits[i]>> /\ Len(Singles(bits)[i]) = 1
<1> DEFINE single == Singles(bits)
<1>1. Len(bits) \in Nat /\ DOMAIN bits = 1..Len(bits) /\ \A i \in 1..Len(bits) : bits[i] \in Bit
  BY ElementOfSeq, LenProperties
<1>2. \A b \in Bit : <<b>> \in Seq(Bit) /\ Len(<<b>>) = 1
  OBVIOUS
<1>3. single = [i \in 1..Len(bits) |-> <<bits[i]>>]
  BY <1>1 DEF Singles
<1>4. single \in Seq(Seq(Bit)) /\ Len(single) = Len(bits) /\ \A i \in 1..Len(bits) : single[i]
           = <<bits[i]>>
  <2> DEFINE l == Len(bits)
  <2>1. l \in Nat /\ \A i \in 1..l : <<bits[i]>> \in Seq(Bit)
    BY <1>1, <1>2
  <2> HIDE DEF l
  <2>2. [i \in 1..l |-> <<bits[i]>>] \in [1..l -> Seq(Bit)]
    BY <2>1
  <2>3. single \in [1..l -> Seq(Bit)] /\ \A i \in 1..l : single[i] = <<bits[i]>>
    BY <1>3, <2>2 DEF l
  <2> HIDE DEF single
  <2> QED BY <2>1, <2>3 DEF l
<1> HIDE DEF single
<1>5. \A i \in 1..Len(bits) : Len(single[i]) = 1
  <2>1. ASSUME NEW i \in 1..Len(bits) PROVE Len(single[i]) = 1
    <3>1. Len(<<bits[i]>>) = 1 /\ single[i] = <<bits[i]>>
      BY <1>1, <1>2, <1>4
    <3> QED BY <3>1
  <2> QED BY <2>1
<1> QED BY <1>4, <1>5 DEF single

LEMMA UriIsInput ==
  ASSUME NEW uri \in Seq(Byte) PROVE IsInput(UriInput(uri))
<1>1. <<>> \in Seq({})
  OBVIOUS
<1> DEFINE single == Singles(UriBits(uri))
<1>2. single \in Seq(Seq(Bit)) /\ \A i \in 1..Len(single) : Len(single[i]) = 1
  BY UriBitsAre, SinglesAre
<1>3. UriInput(uri) = [fields |-> <<>>, bits |-> single]
  BY UriBitsAre
<1> HIDE DEF single
<1>4. \A i \in 1..Len(single) : Len(single[i]) < 255
  <2>1. ASSUME NEW i \in 1..Len(single) PROVE Len(single[i]) < 255
    <3>1. Len(single[i]) = 1
      BY <1>2
    <3> QED BY <3>1
  <2> QED BY <2>1
<1>5. UriInput(uri).fields = <<>> /\ UriInput(uri).bits = single
  BY <1>3
<1>6. \E S : UriInput(uri).fields \in Seq(S)
  BY <1>1, <1>5
<1> QED BY <1>2, <1>4, <1>5, <1>6 DEF IsInput

(* Nothing that pack_to_fields packs is lost: the layout of every body is  *)
(* that of the default one, and from the elements, which never overflow    *)
(* the field, each piece of a body and each bit of a URI can be read back  *)
(* where the sizes of the pieces say, whatever the bodies and the URIs.    *)
THEOREM NothingPackedIsLost == Spec => []PackingReadsBack
<1>1. ASSUME NEW body \in Bodies
      PROVE  /\ Alike(AccountUpdateInput(body), AccountUpdateInput(DefaultBody))
             /\ ReadsBack(AccountUpdateInput(body))
  <2>1. Alike(AccountUpdateInput(body), AccountUpdateInput(DefaultBody))
    BY FormatAssumption, BodyAlike, DefaultType
  <2> QED BY <2>1, InputReadsBack DEF Alike
<1>2. ASSUME NEW body \in Bodies
      PROVE  LET input == AccountUpdateInput(body)
                 default == AccountUpdateInput(DefaultBody)
             IN /\ Len(input.fields) = Len(default.fields) /\ Len(input.bits) = Len(default.bits)
                /\ \A i \in DOMAIN input.bits : Len(input.bits[i]) = Len(default.bits[i])
                /\ ReadsBack(input)
  <2> DEFINE input == AccountUpdateInput(body)
             default == AccountUpdateInput(DefaultBody)
  <2> HIDE DEF input, default
  <2>1. Alike(input, default) /\ ReadsBack(input)
    BY <1>1 DEF input, default
  <2>2. /\ Len(input.fields) = Len(default.fields) /\ Len(input.bits) = Len(default.bits)
        /\ input.bits \in Seq(Seq(Bit))
        /\ \A i \in 1..Len(input.bits) : Len(input.bits[i]) = Len(default.bits[i])
    BY <2>1 DEF Alike, IsInput
  <2>3. DOMAIN input.bits = 1..Len(input.bits)
    BY <2>2, LenProperties
  <2>4. /\ Len(input.fields) = Len(default.fields) /\ Len(input.bits) = Len(default.bits)
        /\ \A i \in DOMAIN input.bits : Len(input.bits[i]) = Len(default.bits[i])
        /\ ReadsBack(input)
    BY <2>1, <2>2, <2>3
  <2> QED BY <2>4 DEF input, default
<1>3. \A uri \in Uris : ReadsBack(UriInput(uri))
  BY FormatAssumption, UriIsInput, InputReadsBack
<1>4. PackedReadsBack
  BY <1>2, <1>3 DEF PackedReadsBack
<1>5. PackingReadsBack
  BY <1>4 DEF PackingReadsBack
<1> QED BY <1>5, PTL

-------------------------------------------------------------------------------
(* What a text stands for is read from it again. *)

LEMMA NumberIs ==
  ASSUME NEW n \in Numbers
  PROVE  /\ n = [number |-> n.number] /\ n.number \in Seq(Bit)
         /\ n.number = <<>> \/ n.number[1] = 1
         /\ Len(n.number) \in Nat /\ Len(n.number) < 255
<1> DEFINE D == {<<>>} \cup {d \in Seq(Bit) : Len(d) \in 1..254 /\ d[1] = 1}
<1>1. PICK d \in D : n = [number |-> d]
  <2>1. n \in [number : D]
    BY DEF Numbers
  <2> HIDE DEF D
  <2>2. n.number \in D /\ n = [number |-> n.number]
    BY <2>1
  <2> QED BY <2>2
<1>2. n.number = d
  BY <1>1
<1>3. CASE d = <<>>
  BY <1>1, <1>2, <1>3
<1>4. CASE d # <<>>
  <2>1. d \in Seq(Bit) /\ Len(d) \in 1..254 /\ d[1] = 1
    BY <1>1, <1>4
  <2>2. Len(d) \in Nat /\ Len(d) < 255
    <3>1. \A l \in 1..254 : l \in Nat /\ l < 255
      OBVIOUS
    <3> QED BY <2>1, <3>1, Zenon
  <2> QED BY <1>1, <1>2, <2>1, <2>2
<1> QED BY <1>3, <1>4

\* Zeros in front change no number.
LEMMA NumberOfDigits ==
  ASSUME NEW n \in Numbers, NEW raw \in Seq(Bit), Len(n.number) <= Len(raw),
         \A k \in 1..Len(raw) : raw[k] = Digit(n.number, Len(raw) + 1 - k)
  PROVE  Number(raw) = n
<1> DEFINE d == n.number
           l == Len(d)
           L == Len(raw)
           ones == {i \in DOMAIN raw : raw[i] = 1}
           m == L - l + 1
           digits == SubSeq(raw, Min(ones), L)
<1>1. /\ n = [number |-> d] /\ d \in Seq(Bit) /\ l \in Nat /\ L \in Nat /\ l <= L /\ l < 255
      /\ d = <<>> \/ d[1] = 1
      /\ DOMAIN raw = 1..L
  <2>1. L \in Nat /\ DOMAIN raw = 1..L
    BY LenProperties
  <2> QED BY <2>1, NumberIs
<1>2. Number(raw) = [number |-> IF ones = {} THEN <<>> ELSE IF Len(digits) < 255 THEN digits ELSE <<2>>]
  <2>1. Len(<<>>) < 255
    OBVIOUS
  <2> QED BY <2>1 DEF Number
<1>3. \A k \in 1..L : raw[k] = IF L + 1 - k <= l THEN d[l + 1 - (L + 1 - k)] ELSE 0
  BY DEF Digit
<1> HIDE DEF d, l, L
<1>4. \A k \in 1..L : k < m => raw[k] = 0
  BY <1>1, <1>3
<1>5. \A i \in 1..l : raw[m + i - 1] = d[i] /\ m + i - 1 \in 1..L
  <2> TAKE i \in 1..l
  <2> DEFINE k == m + i - 1
  <2>1. k \in 1..L /\ L + 1 - k <= l /\ l + 1 - (L + 1 - k) = i
    BY <1>1
  <2> HIDE DEF k
  <2>2. raw[k] = d[i]
    BY <1>3, <2>1
  <2> QED BY <2>1, <2>2 DEF k
<1>6. CASE d = <<>>
  <2>1. l = 0
    BY <1>6 DEF l
  <2>2. ones = {}
    <3>1. \A k \in 1..L : raw[k] = 0
      BY <1>1, <1>4, <2>1
    <3> QED BY <1>1, <3>1
  <2> QED BY <1>1, <1>2, <1>6, <2>2
<1>7. CASE d # <<>>
  <2>1. l \in 1..254 /\ d[1] = 1
    <3>1. l # 0
      BY <1>1, <1>7, EmptySeq DEF l
    <3> QED BY <1>1, <1>7, <3>1
  <2>2. m \in 1..L /\ raw[m] = 1
    <3>1. 1 \in 1..l /\ m + 1 - 1 = m /\ m \in 1..L
      BY <1>1, <2>1
    <3> QED BY <1>5, <2>1, <3>1
  <2>3. ones # {} /\ Min(ones) = m
    <3>1. ones \in SUBSET Nat /\ m \in ones /\ \A k \in ones : m <= k
      <4>1. ones \in SUBSET Nat /\ m \in ones
        BY <1>1, <2>2
      <4>2. ASSUME NEW k \in ones PROVE m <= k
        <5>1. k \in 1..L /\ raw[k] # 0
          BY <1>1
        <5> QED BY <1>1, <1>4, <5>1
      <4> QED BY <4>1, <4>2
    <3> HIDE DEF ones
    <3>2. Min(ones) \in ones /\ \A k \in ones : Min(ones) <= k
      BY <3>1, LeastIs
    <3>3. Min(ones) \in Nat /\ m \in Nat /\ Min(ones) <= m /\ m <= Min(ones)
      BY <3>1, <3>2
    <3>4. Min(ones) = m
      <4> HIDE DEF m
      <4> QED BY <3>3
    <3> QED BY <3>1, <3>4
  <2>4. digits = d
    <3>1. digits = SubSeq(raw, m, L)
      BY <2>3
    <3>2. m \in Int /\ L \in Int /\ m <= L /\ \A i \in m..L : raw[i] \in Bit
      <4>1. \A i \in m..L : i \in 1..L
        BY <1>1, <2>2
      <4> QED BY <1>1, <2>2, <4>1, ElementOfSeq DEF L
    <3> HIDE DEF m, digits
    <3>3. /\ digits \in Seq(Bit) /\ Len(digits) = L - m + 1
          /\ \A i \in 1..(L - m + 1) : digits[i] = raw[m + i - 1]
      BY <3>1, <3>2, SubSeqProperties
    <3>4. L - m + 1 = l
      BY <1>1 DEF m
    <3>5. Len(digits) = Len(d)
      BY <3>3, <3>4 DEF l
    <3>6. ASSUME NEW i \in 1..Len(digits) PROVE digits[i] = d[i]
      <4>1. i \in 1..l /\ i \in 1..(L - m + 1)
        BY <3>3, <3>4
      <4> QED BY <1>5, <3>3, <4>1
    <3>7. digits \in Seq(Bit) /\ d \in Seq(Bit)
      BY <1>1, <3>3
    <3>8. \A i \in 1..Len(digits) : digits[i] = d[i]
      BY <3>6
    <3> QED BY <3>5, <3>7, <3>8, SeqEqual, Zenon
  <2> HIDE DEF digits
  <2>5. Len(digits) < 255
    <3>1. Len(digits) = Len(d)
      BY <2>4, Zenon
    <3>2. l < 255
      BY <2>1
    <3> QED BY <3>1, <3>2 DEF l
  <2> QED BY <1>1, <1>2, <2>3, <2>4, <2>5
<1> QED BY <1>6, <1>7

LEMMA NumberIsNoLonger ==
  ASSUME NEW raw \in Seq(Bit), Len(raw) < 255 PROVE Len(Number(raw).number) <= Len(raw)
<1> DEFINE d == Number(raw).number
           l == Len(d)
           L == Len(raw)
<1>1. L \in Nat /\ Number(raw) \in Numbers /\ \A k \in 1..L : Digit(d, L + 1 - k) = raw[k]
  BY LenProperties, NumberKeepsBits
<1>2. l \in Nat
  <2>1. d = <<>> \/ d \in Seq(Bit)
    BY <1>1 DEF Numbers
  <2> QED BY <2>1, LenProperties
<1> DEFINE ones == {i \in DOMAIN raw : raw[i] = 1}
           digits == SubSeq(raw, Min(ones), L)
<1>3. CASE ones = {}
  <2>1. Number(raw) = [number |-> <<>>]
    BY <1>3 DEF Number
  <2> QED BY <1>1, <2>1
<1>4. CASE ones # {}
  <2>1. DOMAIN raw = 1..L
    BY LenProperties
  <2>2. Min(ones) \in 1..L
    <3>1. ones \in SUBSET Nat /\ ones \subseteq 1..L
      BY <1>1, <2>1
    <3> HIDE DEF ones
    <3> QED BY <1>4, <3>1, LeastIs
  <2> DEFINE a == Min(ones)
  <2> HIDE DEF ones
  <2>3. a \in Int /\ L \in Int /\ a <= L /\ \A i \in a..L : raw[i] \in Bit
    <3>1. \A i \in a..L : i \in 1..L
      BY <1>1, <2>2
    <3> QED BY <1>1, <2>2, <3>1, ElementOfSeq
  <2>4. digits = SubSeq(raw, a, L)
    OBVIOUS
  <2> HIDE DEF a, digits, L
  <2>5. Len(digits) = L - a + 1
    BY <2>3, <2>4, SubSeqProperties
  <2>6. Len(digits) <= L /\ Len(digits) < 255
    BY <1>1, <2>2, <2>5 DEF a, L
  <2>7. Number(raw) = [number |-> digits]
    BY <1>4, <2>6 DEF Number, digits, ones, L
  <2> QED BY <2>6, <2>7 DEF L
<1> QED BY <1>3, <1>4

LEMMA DecimalReadsBack ==
  ASSUME NEW w \in Nat, w < 255, NEW bits \in Machine(w)
  PROVE  ReadDecimal(Decimal(bits), w) = bits
<1> DEFINE d == Number(bits).number
           l == Len(d)
           z == Zeros(w - l)
           r == z \o d
<1>1. bits \in Seq(Bit) /\ Len(bits) = w
  BY MachineIsSeq
<1>2. /\ d \in Seq(Bit) /\ l \in Nat /\ l <= w
      /\ \A k \in 1..w : Digit(d, w + 1 - k) = bits[k]
  <2>1. Number(bits) \in Numbers
    BY <1>1, NumberKeepsBits
  <2>2. d \in Seq(Bit)
    <3>1. <<>> \in Seq(Bit)
      OBVIOUS
    <3> QED BY <2>1, <3>1 DEF Numbers
  <2>3. \A k \in 1..w : Digit(d, w + 1 - k) = bits[k]
    <3> HIDE DEF d
    <3>1. \A k \in 1..Len(bits) : Digit(d, Len(bits) + 1 - k) = bits[k]
      BY <1>1, NumberKeepsBits DEF d
    <3> QED BY <1>1, <3>1
  <2>4. l <= w
    BY <1>1, NumberIsNoLonger
  <2> QED BY <2>2, <2>3, <2>4, LenProperties
<1> HIDE DEF d, l
<1>3. z \in Seq(Bit) /\ Len(z) = w - l /\ \A k \in 1..(w - l) : z[k] = 0
  <2>1. w - l \in Nat
    BY <1>2
  <2> QED BY <2>1 DEF Zeros, Bit
<1> HIDE DEF z
<1>4. /\ r \in Seq(Bit) /\ Len(r) = Len(z) + Len(d)
      /\ \A k \in 1..(Len(z) + Len(d)) : r[k] = IF k <= Len(z) THEN z[k] ELSE d[k - Len(z)]
  BY <1>2, <1>3, ConcatProperties, Zenon
<1> HIDE DEF r
<1>5. Len(r) = w
  BY <1>2, <1>3, <1>4 DEF l
<1>6. ASSUME NEW k \in 1..w PROVE r[k] = bits[k]
  <2>1. bits[k] = IF w + 1 - k <= l THEN d[l + 1 - (w + 1 - k)] ELSE 0
    BY <1>2 DEF Digit, l
  <2>2. CASE k <= w - l
    <3>1. ~(w + 1 - k <= l) /\ k \in 1..(w - l) /\ k \in 1..(Len(z) + Len(d)) /\ k <= Len(z)
      BY <1>2, <1>3, <2>2 DEF l
    <3> QED BY <1>3, <1>4, <2>1, <3>1
  <2>3. CASE ~(k <= w - l)
    <3>1. w + 1 - k <= l /\ l + 1 - (w + 1 - k) = k - Len(z) /\ k \in 1..(Len(z) + Len(d))
               /\ ~(k <= Len(z))
      BY <1>2, <1>3, <2>3 DEF l
    <3> QED BY <1>4, <2>1, <3>1
  <2> QED BY <2>2, <2>3
<1>7. r = bits
  <2>1. Len(r) = Len(bits) /\ \A k \in 1..Len(r) : r[k] = bits[k]
    BY <1>1, <1>5, <1>6
  <2> QED BY <1>1, <1>4, <2>1, SeqEqual
<1>8. l <= w
  BY <1>2
<1> QED BY <1>7, <1>8 DEF ReadDecimal, Decimal, r, z, l, d

\* A byte is a sum of its bits, and they are read from it again.
LEMMA SumOfEight ==
  ASSUME NEW f, DOMAIN f = 1..8, \A x \in 1..8 : f[x] \in Int
  PROVE  SumFunction(f) = f[8] + (f[7] + (f[6] + (f[5] + (f[4] + (f[3] + (f[2] + f[1]))))))
<1> DEFINE S(k) == SumFunctionOnSet(f, 1..k)
<1>1. ASSUME NEW k \in 1..8 PROVE S(k) = f[k] + S(k - 1)
  <2> DEFINE A == 1..k
             B == 1..(k - 1)
  <2>1. IsFiniteSet(A)
    BY FS_Interval
  <2>2. \A x \in A : f[x] \in Int
    OBVIOUS
  <2>6. k \in A
    OBVIOUS
  <2>3. A \ {k} = B
    OBVIOUS
  <2>4. S(k) = SumFunctionOnSet(f, A) /\ S(k - 1) = SumFunctionOnSet(f, B)
    OBVIOUS
  <2> HIDE DEF A, B, S
  <2>5. \A x \in A : SumFunctionOnSet(f, A) = f[x] + SumFunctionOnSet(f, A \ {x})
    BY <2>1, <2>2, SumRules
  <2> QED BY <2>3, <2>4, <2>5, <2>6
<1>2. S(0) = 0
  <2>1. 1..0 = {} /\ IsFiniteSet({}) /\ \A x \in {} : f[x] \in Int
    BY FS_EmptySet
  <2> QED BY <2>1, SumRules
<1>3. SumFunction(f) = S(8)
  BY DEF SumFunction
<1> HIDE DEF S
<1>4. /\ S(8) = f[8] + S(7) /\ S(7) = f[7] + S(6) /\ S(6) = f[6] + S(5) /\ S(5) = f[5] + S(4)
      /\ S(4) = f[4] + S(3) /\ S(3) = f[3] + S(2) /\ S(2) = f[2] + S(1) /\ S(1) = f[1] + S(0)
  <2>1. /\ 8 - 1 = 7 /\ 7 - 1 = 6 /\ 6 - 1 = 5 /\ 5 - 1 = 4 /\ 4 - 1 = 3 /\ 3 - 1 = 2
        /\ 2 - 1 = 1 /\ 1 - 1 = 0
    OBVIOUS
  <2>2. {1, 2, 3, 4, 5, 6, 7, 8} \subseteq 1..8
    OBVIOUS
  <2> QED BY <1>1, <2>1, <2>2
<1>5. f[1] + S(0) = f[1]
  BY <1>2
<1> QED BY <1>3, <1>4, <1>5

ByteOf(b) ==
  128 * b[8] + (64 * b[7] + (32 * b[6] + (16 * b[5] + (8 * b[4] + (4 * b[3] + (2 * b[2] + b[1]))))))

LEMMA DigitIsBit ==
  ASSUME NEW n \in Numbers, NEW p \in Nat \ {0} PROVE Digit(n.number, p) \in Bit
<1> DEFINE d == n.number
<1>1. d \in Seq(Bit) /\ Len(d) \in Nat
  BY NumberIs
<1> HIDE DEF d
<1>2. CASE p <= Len(d)
  <2>1. Len(d) + 1 - p \in 1..Len(d)
    BY <1>1, <1>2
  <2> QED BY <1>1, <1>2, <2>1, ElementOfSeq DEF Digit, d
<1>3. CASE ~(p <= Len(d))
  BY <1>3 DEF Digit, Bit, d
<1> QED BY <1>2, <1>3

LEMMA ByteAtIs ==
  ASSUME NEW n \in Numbers, NEW i \in 1..32
  PROVE  LET b == [place \in 1..8 |-> Digit(n.number, 8 * (i - 1) + place)]
         IN b \in [1..8 -> Bit] /\ ByteAt(n.number, i) = ByteOf(b)
<1> DEFINE b == [place \in 1..8 |-> Digit(n.number, 8 * (i - 1) + place)]
           f == [place \in 1..8 |-> 2^(place - 1) * Digit(n.number, 8 * (i - 1) + place)]
<1>1. b \in [1..8 -> Bit]
  <2>1. \A place \in 1..8 : 8 * (i - 1) + place \in Nat \ {0}
    OBVIOUS
  <2> QED BY <2>1, DigitIsBit
<1>2. \A place \in 1..8 : f[place] = 2^(place - 1) * b[place]
  OBVIOUS
<1>3. ByteAt(n.number, i) = SumFunction(f) /\ DOMAIN f = 1..8
  BY DEF ByteAt
<1> HIDE DEF b, f
<1>4. /\ f[1] = b[1] /\ f[2] = 2 * b[2] /\ f[3] = 4 * b[3] /\ f[4] = 8 * b[4]
      /\ f[5] = 16 * b[5] /\ f[6] = 32 * b[6] /\ f[7] = 64 * b[7] /\ f[8] = 128 * b[8]
  <2>1. /\ 2^(1 - 1) = 1 /\ 2^(2 - 1) = 2 /\ 2^(3 - 1) = 4 /\ 2^(4 - 1) = 8
        /\ 2^(5 - 1) = 16 /\ 2^(6 - 1) = 32 /\ 2^(7 - 1) = 64 /\ 2^(8 - 1) = 128
    <3>1. /\ 1 - 1 = 0 /\ 2 - 1 = 1 /\ 3 - 1 = 2 /\ 4 - 1 = 3 /\ 5 - 1 = 4 /\ 6 - 1 = 5
          /\ 7 - 1 = 6 /\ 8 - 1 = 7
      OBVIOUS
    <3>2. /\ 2^0 = 1 /\ 2^1 = 2 /\ 2^2 = 4 /\ 2^3 = 8 /\ 2^4 = 16 /\ 2^5 = 32 /\ 2^6 = 64
          /\ 2^7 = 128
      OBVIOUS
    <3> QED BY <3>1, <3>2
  <2>2. {1, 2, 3, 4, 5, 6, 7, 8} \subseteq 1..8
    OBVIOUS
  <2>3. 1 * b[1] = b[1]
    BY <1>1 DEF Bit
  <2> QED BY <1>2, <2>1, <2>2, <2>3
<1>5. \A x \in 1..8 : f[x] \in Int
  <2>1. \A x \in 1..8 : b[x] \in {0, 1}
    BY <1>1 DEF Bit
  <2>2. \A x \in 1..8 : x = 1 \/ x = 2 \/ x = 3 \/ x = 4 \/ x = 5 \/ x = 6 \/ x = 7 \/ x = 8
    OBVIOUS
  <2> QED BY <1>4, <2>1, <2>2
<1>6. SumFunction(f) = f[8] + (f[7] + (f[6] + (f[5] + (f[4] + (f[3] + (f[2] + f[1]))))))
  BY <1>3, <1>5, SumOfEight
<1>7. ByteAt(n.number, i) = ByteOf(b)
  BY <1>3, <1>4, <1>6 DEF ByteOf
<1> QED BY <1>1, <1>7 DEF b

LEMMA BitsOfSum ==
  ASSUME NEW c1 \in {0, 1}, NEW c2 \in {0, 1}, NEW c3 \in {0, 1}, NEW c4 \in {0, 1},
         NEW c5 \in {0, 1}, NEW c6 \in {0, 1}, NEW c7 \in {0, 1}, NEW c8 \in {0, 1},
         NEW v, v = 128 * c8 + (64 * c7 + (32 * c6 + (16 * c5 + (8 * c4 + (4 * c3 + (2 * c2 + c1))))))
  PROVE  /\ (v \div 128) % 2 = c8 /\ (v \div 64) % 2 = c7 /\ (v \div 32) % 2 = c6
         /\ (v \div 16) % 2 = c5 /\ (v \div 8) % 2 = c4 /\ (v \div 4) % 2 = c3
         /\ (v \div 2) % 2 = c2 /\ (v \div 1) % 2 = c1
<1>1. ASSUME NEW x \in Int, NEW c \in {0, 1} PROVE 2 * x + c \in Int /\ (2 * x + c) % 2 = c
  OBVIOUS
<1>2. v \in Int /\ v \div 1 = v
  OBVIOUS
<1>3. (v \div 1) % 2 = c1
  <2> DEFINE x == (2 * (2 * (2 * (2 * (2 * (2 * c8 + c7) + c6) + c5) + c4) + c3) + c2)
             y == 2 * x + c1
  <2>1. x \in Int
    OBVIOUS
  <2>2. v = y
    OBVIOUS
  <2> HIDE DEF x
  <2>3. y % 2 = c1
    BY <1>1, <2>1
  <2> HIDE DEF y
  <2> QED BY <1>2, <2>2, <2>3
<1>4. (v \div 2) % 2 = c2
  <2> DEFINE x == (2 * (2 * (2 * (2 * (2 * c8 + c7) + c6) + c5) + c4) + c3)
             y == 2 * x + c2
  <2>1. x \in Int
    OBVIOUS
  <2> DEFINE r == c1
  <2>2. r \in 0..1 /\ v = 2 * y + r
    OBVIOUS
  <2>3. y \in Int /\ y % 2 = c2
    <3> HIDE DEF x
    <3> QED BY <1>1, <2>1
  <2> HIDE DEF x, y, r
  <2>4. \A p \in Int, q \in 0..1 : (2 * p + q) \div 2 = p
    OBVIOUS
  <2>5. v \div 2 = y
    BY <2>2, <2>3, <2>4
  <2> QED BY <2>3, <2>5
<1>5. (v \div 4) % 2 = c3
  <2> DEFINE x == (2 * (2 * (2 * (2 * c8 + c7) + c6) + c5) + c4)
             y == 2 * x + c3
  <2>1. x \in Int
    OBVIOUS
  <2> DEFINE r == (2 * c2 + c1)
  <2>2. r \in 0..3 /\ v = 4 * y + r
    OBVIOUS
  <2>3. y \in Int /\ y % 2 = c3
    <3> HIDE DEF x
    <3> QED BY <1>1, <2>1
  <2> HIDE DEF x, y, r
  <2>4. \A p \in Int, q \in 0..3 : (4 * p + q) \div 4 = p
    OBVIOUS
  <2>5. v \div 4 = y
    BY <2>2, <2>3, <2>4
  <2> QED BY <2>3, <2>5
<1>6. (v \div 8) % 2 = c4
  <2> DEFINE x == (2 * (2 * (2 * c8 + c7) + c6) + c5)
             y == 2 * x + c4
  <2>1. x \in Int
    OBVIOUS
  <2> DEFINE r == (4 * c3 + (2 * c2 + c1))
  <2>2. r \in 0..7 /\ v = 8 * y + r
    OBVIOUS
  <2>3. y \in Int /\ y % 2 = c4
    <3> HIDE DEF x
    <3> QED BY <1>1, <2>1
  <2> HIDE DEF x, y, r
  <2>4. \A p \in Int, q \in 0..7 : (8 * p + q) \div 8 = p
    OBVIOUS
  <2>5. v \div 8 = y
    BY <2>2, <2>3, <2>4
  <2> QED BY <2>3, <2>5
<1>7. (v \div 16) % 2 = c5
  <2> DEFINE x == (2 * (2 * c8 + c7) + c6)
             y == 2 * x + c5
  <2>1. x \in Int
    OBVIOUS
  <2> DEFINE r == (8 * c4 + (4 * c3 + (2 * c2 + c1)))
  <2>2. r \in 0..15 /\ v = 16 * y + r
    OBVIOUS
  <2>3. y \in Int /\ y % 2 = c5
    <3> HIDE DEF x
    <3> QED BY <1>1, <2>1
  <2> HIDE DEF x, y, r
  <2>4. \A p \in Int, q \in 0..15 : (16 * p + q) \div 16 = p
    OBVIOUS
  <2>5. v \div 16 = y
    BY <2>2, <2>3, <2>4
  <2> QED BY <2>3, <2>5
<1>8. (v \div 32) % 2 = c6
  <2> DEFINE x == (2 * c8 + c7)
             y == 2 * x + c6
  <2>1. x \in Int
    OBVIOUS
  <2> DEFINE r == (16 * c5 + (8 * c4 + (4 * c3 + (2 * c2 + c1))))
  <2>2. r \in 0..31 /\ v = 32 * y + r
    OBVIOUS
  <2>3. y \in Int /\ y % 2 = c6
    <3> HIDE DEF x
    <3> QED BY <1>1, <2>1
  <2> HIDE DEF x, y, r
  <2>4. \A p \in Int, q \in 0..31 : (32 * p + q) \div 32 = p
    OBVIOUS
  <2>5. v \div 32 = y
    BY <2>2, <2>3, <2>4
  <2> QED BY <2>3, <2>5
<1>9. (v \div 64) % 2 = c7
  <2> DEFINE x == c8
             y == 2 * x + c7
  <2>1. x \in Int
    OBVIOUS
  <2> DEFINE r == (32 * c6 + (16 * c5 + (8 * c4 + (4 * c3 + (2 * c2 + c1)))))
  <2>2. r \in 0..63 /\ v = 64 * y + r
    OBVIOUS
  <2>3. y \in Int /\ y % 2 = c7
    <3> HIDE DEF x
    <3> QED BY <1>1, <2>1
  <2> HIDE DEF x, y, r
  <2>4. \A p \in Int, q \in 0..63 : (64 * p + q) \div 64 = p
    OBVIOUS
  <2>5. v \div 64 = y
    BY <2>2, <2>3, <2>4
  <2> QED BY <2>3, <2>5
<1>10. (v \div 128) % 2 = c8
  <2> DEFINE r == (64 * c7 + (32 * c6 + (16 * c5 + (8 * c4 + (4 * c3 + (2 * c2 + c1))))))
  <2>1. r \in 0..127 /\ v = 128 * c8 + r
    OBVIOUS
  <2> HIDE DEF r
  <2>2. \A x \in Int, y \in 0..127 : (128 * x + y) \div 128 = x
    OBVIOUS
  <2>3. v \div 128 = c8
    BY <2>1, <2>2
  <2>4. c8 % 2 = c8
    OBVIOUS
  <2> QED BY <2>3, <2>4
<1> QED BY <1>3, <1>4, <1>5, <1>6, <1>7, <1>8, <1>9, <1>10

LEMMA ByteKeepsBits ==
  ASSUME NEW b \in [1..8 -> Bit]
  PROVE  ByteOf(b) \in Byte /\ \A j \in 1..8 : Bits(ByteOf(b), 8)[j] = b[9 - j]
<1> DEFINE v == ByteOf(b)
<1>1. /\ b[1] \in {0, 1} /\ b[2] \in {0, 1} /\ b[3] \in {0, 1} /\ b[4] \in {0, 1}
      /\ b[5] \in {0, 1} /\ b[6] \in {0, 1} /\ b[7] \in {0, 1} /\ b[8] \in {0, 1}
  BY DEF Bit
<1>2. v = 128 * b[8] + (64 * b[7] + (32 * b[6] + (16 * b[5] + (8 * b[4] + (4 * b[3] + (2 * b[2] + b[1]))))))
  BY DEF ByteOf
<1> HIDE DEF v
<1>3. v \in 0..255
  BY <1>1, <1>2
<1>4. /\ (v \div 128) % 2 = b[8] /\ (v \div 64) % 2 = b[7] /\ (v \div 32) % 2 = b[6]
      /\ (v \div 16) % 2 = b[5] /\ (v \div 8) % 2 = b[4] /\ (v \div 4) % 2 = b[3]
      /\ (v \div 2) % 2 = b[2] /\ (v \div 1) % 2 = b[1]
  <2> DEFINE c1 == b[1]
             c2 == b[2]
             c3 == b[3]
             c4 == b[4]
             c5 == b[5]
             c6 == b[6]
             c7 == b[7]
             c8 == b[8]
  <2>1. /\ c1 \in {0, 1} /\ c2 \in {0, 1} /\ c3 \in {0, 1} /\ c4 \in {0, 1}
        /\ c5 \in {0, 1} /\ c6 \in {0, 1} /\ c7 \in {0, 1} /\ c8 \in {0, 1}
    BY <1>1
  <2>2. v = 128 * c8 + (64 * c7 + (32 * c6 + (16 * c5 + (8 * c4 + (4 * c3 + (2 * c2 + c1))))))
    BY <1>2
  <2> HIDE DEF c1, c2, c3, c4, c5, c6, c7, c8
  <2>3. /\ (v \div 128) % 2 = c8 /\ (v \div 64) % 2 = c7 /\ (v \div 32) % 2 = c6
        /\ (v \div 16) % 2 = c5 /\ (v \div 8) % 2 = c4 /\ (v \div 4) % 2 = c3
        /\ (v \div 2) % 2 = c2 /\ (v \div 1) % 2 = c1
    BY <2>1, <2>2, BitsOfSum
  <2> QED BY <2>3 DEF c1, c2, c3, c4, c5, c6, c7, c8
<1>5. ASSUME NEW j \in 1..8 PROVE Bits(v, 8)[j] = b[9 - j]
  <2>1. Bits(v, 8)[j] = (v \div 2^(8 - j)) % 2
    BY DEF Bits
  <2>2. j = 1 \/ j = 2 \/ j = 3 \/ j = 4 \/ j = 5 \/ j = 6 \/ j = 7 \/ j = 8
    OBVIOUS
  <2>3. /\ 2^0 = 1 /\ 2^1 = 2 /\ 2^2 = 4 /\ 2^3 = 8 /\ 2^4 = 16 /\ 2^5 = 32 /\ 2^6 = 64
        /\ 2^7 = 128
    OBVIOUS
  <2>4. /\ 8 - 1 = 7 /\ 8 - 2 = 6 /\ 8 - 3 = 5 /\ 8 - 4 = 4 /\ 8 - 5 = 3 /\ 8 - 6 = 2
        /\ 8 - 7 = 1 /\ 8 - 8 = 0
    OBVIOUS
  <2>5. /\ 9 - 1 = 8 /\ 9 - 2 = 7 /\ 9 - 3 = 6 /\ 9 - 4 = 5 /\ 9 - 5 = 4 /\ 9 - 6 = 3
        /\ 9 - 7 = 2 /\ 9 - 8 = 1
    OBVIOUS
  <2> DEFINE e == 8 - j
             p == 2^e
  <2>6. Bits(v, 8)[j] = (v \div p) % 2
    BY <2>1
  <2>7. CASE j = 1
    <3>1. p = 128
      BY <2>3, <2>4, <2>7
    <3> HIDE DEF p
    <3> QED BY <1>4, <2>5, <2>6, <2>7, <3>1
  <2>8. CASE j = 2
    <3>1. p = 64
      BY <2>3, <2>4, <2>8
    <3> HIDE DEF p
    <3> QED BY <1>4, <2>5, <2>6, <2>8, <3>1
  <2>9. CASE j = 3
    <3>1. p = 32
      BY <2>3, <2>4, <2>9
    <3> HIDE DEF p
    <3> QED BY <1>4, <2>5, <2>6, <2>9, <3>1
  <2>10. CASE j = 4
    <3>1. p = 16
      BY <2>3, <2>4, <2>10
    <3> HIDE DEF p
    <3> QED BY <1>4, <2>5, <2>6, <2>10, <3>1
  <2>11. CASE j = 5
    <3>1. p = 8
      BY <2>3, <2>4, <2>11
    <3> HIDE DEF p
    <3> QED BY <1>4, <2>5, <2>6, <2>11, <3>1
  <2>12. CASE j = 6
    <3>1. p = 4
      BY <2>3, <2>4, <2>12
    <3> HIDE DEF p
    <3> QED BY <1>4, <2>5, <2>6, <2>12, <3>1
  <2>13. CASE j = 7
    <3>1. p = 2
      BY <2>3, <2>4, <2>13
    <3> HIDE DEF p
    <3> QED BY <1>4, <2>5, <2>6, <2>13, <3>1
  <2>14. CASE j = 8
    <3>1. p = 1
      BY <2>3, <2>4, <2>14
    <3> HIDE DEF p
    <3> QED BY <1>4, <2>5, <2>6, <2>14, <3>1
  <2> QED BY <2>2, <2>7, <2>8, <2>9, <2>10, <2>11, <2>12, <2>13, <2>14
<1> QED BY <1>3, <1>5 DEF Byte, v

LEMMA FunctionIsSeq ==
  ASSUME NEW S, NEW n \in Nat, NEW f \in [1..n -> S] PROVE f \in Seq(S) /\ Len(f) = n
  OBVIOUS

\* The 32 bytes of a number are those of its digits, and it is read from them.
LEMMA LittleEndianReadsBack ==
  ASSUME NEW n \in Numbers
  PROVE  /\ LittleEndian(n) \in [1..32 -> Byte] /\ FromLittleEndian(LittleEndian(n)) = n
<1> DEFINE byte == LittleEndian(n)
           word == [i \in 1..32 |-> Bits(byte[33 - i], 8)]
           raw == FlattenSeq(word)
<1>1. byte = [i \in 1..32 |-> ByteAt(n.number, i)]
  BY DEF LittleEndian
<1>2. ASSUME NEW i \in 1..32
      PROVE  /\ byte[i] \in Byte
             /\ \A j \in 1..8 : Bits(byte[i], 8)[j] = Digit(n.number, 8 * (i - 1) + (9 - j))
  <2> DEFINE b == [place \in 1..8 |-> Digit(n.number, 8 * (i - 1) + place)]
  <2>1. b \in [1..8 -> Bit] /\ ByteAt(n.number, i) = ByteOf(b)
    BY ByteAtIs
  <2>2. \A j \in 1..8 : 9 - j \in 1..8
    OBVIOUS
  <2>3. \A place \in 1..8 : b[place] = Digit(n.number, 8 * (i - 1) + place)
    OBVIOUS
  <2> HIDE DEF b
  <2>4. ByteOf(b) \in Byte /\ \A j \in 1..8 : Bits(ByteOf(b), 8)[j] = b[9 - j]
    BY <2>1, ByteKeepsBits
  <2>5. byte[i] = ByteOf(b)
    BY <1>1, <2>1
  <2> HIDE DEF byte
  <2> QED BY <2>2, <2>3, <2>4, <2>5
<1>3. byte \in [1..32 -> Byte]
  BY <1>1, <1>2
<1> HIDE DEF byte
<1>4. ASSUME NEW i \in 1..32
      PROVE  /\ word[i] \in Seq(Bit) /\ Len(word[i]) = 8
             /\ \A j \in 1..8 : word[i][j] = Digit(n.number, 8 * (32 - i) + (9 - j))
  <2> DEFINE l == 33 - i
  <2>1. l \in 1..32 /\ l - 1 = 32 - i
    OBVIOUS
  <2>2. word[i] = Bits(byte[l], 8)
    OBVIOUS
  <2> HIDE DEF word, l
  <2>3. byte[l] \in Int
    BY <1>2, <2>1 DEF Byte
  <2>4. Bits(byte[l], 8) \in Machine(8)
    BY <2>3, BitsAreBits
  <2>5. Bits(byte[l], 8) \in Seq(Bit) /\ Len(Bits(byte[l], 8)) = 8
    BY <2>4, MachineIsSeq
  <2>6. \A j \in 1..8 : Bits(byte[l], 8)[j] = Digit(n.number, 8 * (l - 1) + (9 - j))
    BY <1>2, <2>1
  <2> QED BY <2>1, <2>2, <2>5, <2>6
<1>5. word \in Seq(Seq(Bit)) /\ Len(word) = 32
  <2>1. DOMAIN word = 1..32 /\ word = [i \in 1..32 |-> word[i]]
    OBVIOUS
  <2> HIDE DEF word
  <2> DEFINE W == Seq(Bit)
  <2>2. word \in [1..32 -> W]
    BY <1>4, <2>1
  <2> HIDE DEF W
  <2>3. word \in Seq(W) /\ Len(word) = 32
    BY <2>2, FunctionIsSeq
  <2> QED BY <2>3 DEF W
<1>6. FromLittleEndian(byte) = Number(raw)
  BY DEF FromLittleEndian
<1> HIDE DEF word
<1>7. /\ raw \in Seq(Bit)
      /\ \E place \in [1..33 -> Nat] :
           /\ place[1] = 0 /\ place[33] = Len(raw)
           /\ \A i \in 1..32 :
                /\ place[i + 1] = place[i] + 8
                /\ \A j \in 1..8 : raw[place[i] + j] = word[i][j]
  <2>1. /\ raw \in Seq(Bit)
        /\ \E place \in [1..(Len(word) + 1) -> Nat] :
              /\ place[1] = 0 /\ place[Len(word) + 1] = Len(raw)
              /\ \A i \in 1..Len(word) :
                   /\ place[i + 1] = place[i] + Len(word[i])
                   /\ place[i + 1] <= Len(raw)
                   /\ \A k \in 1..Len(word[i]) : raw[place[i] + k] = word[i][k]
    <3>1. word \in Seq(Seq(Bit))
      BY <1>5
    <3> QED BY <3>1, FlattenPlaces
  <2> HIDE DEF raw
  <2> DEFINE l == Len(word)
             e == l + 1
  <2>2. l = 32 /\ e = 33
    BY <1>5
  <2>6. \E place \in [1..e -> Nat] :
              /\ place[1] = 0 /\ place[e] = Len(raw)
              /\ \A i \in 1..l :
                   /\ place[i + 1] = place[i] + Len(word[i])
                   /\ \A k \in 1..Len(word[i]) : raw[place[i] + k] = word[i][k]
    BY <2>1
  <2> HIDE DEF l, e
  <2>3. PICK place \in [1..33 -> Nat] :
              /\ place[1] = 0 /\ place[33] = Len(raw)
              /\ \A i \in 1..32 :
                   /\ place[i + 1] = place[i] + Len(word[i])
                   /\ \A k \in 1..Len(word[i]) : raw[place[i] + k] = word[i][k]
    BY <2>2, <2>6, Zenon
  <2>4. \A i \in 1..32 :
                /\ place[i + 1] = place[i] + 8
                /\ \A j \in 1..8 : raw[place[i] + j] = word[i][j]
    BY <1>4, <2>3
  <2> QED BY <2>1, <2>3, <2>4
<1>8. PICK place \in [1..33 -> Nat] :
           /\ place[1] = 0 /\ place[33] = Len(raw)
           /\ \A i \in 1..32 :
                /\ place[i + 1] = place[i] + 8
                /\ \A j \in 1..8 : raw[place[i] + j] = word[i][j]
  BY <1>7
<1> HIDE DEF raw
<1>9. \A m \in 0..32 : place[m + 1] = 8 * m
  <2> DEFINE T == {m \in Nat : m <= 32 => place[m + 1] = 8 * m}
  <2>1. 0 \in T
    BY <1>8
  <2>2. ASSUME NEW m \in Nat, m \in T PROVE m + 1 \in T
    <3>1. CASE m + 1 <= 32
      <4> DEFINE i == m + 1
      <4>1. place[i] = 8 * m /\ i \in 1..32
        BY <2>2, <3>1
      <4>2. place[i + 1] = place[i] + 8
        BY <1>8, <4>1
      <4>3. place[i + 1] = 8 * i
        BY <4>1, <4>2
      <4> QED BY <4>3
    <3> QED BY <3>1
  <2>3. Nat \subseteq T
    <3> HIDE DEF T
    <3> QED BY <2>1, <2>2, InductionOverSet
  <2> QED BY <2>3
<1>10. Len(raw) = 256
  <2>1. 32 \in 0..32 /\ 32 + 1 = 33 /\ 8 * 32 = 256
    OBVIOUS
  <2>2. place[33] = 256
    BY <1>9, <2>1
  <2> QED BY <1>8, <2>2
<1>11. ASSUME NEW k \in 1..256 PROVE raw[k] = Digit(n.number, 256 + 1 - k)
  <2>1. PICK q \in 0..31, j \in 1..8 : k = 8 * q + j
    <3> DEFINE q == (k - 1) \div 8
               j == ((k - 1) % 8) + 1
    <3>1. q \in 0..31 /\ j \in 1..8 /\ k = 8 * q + j
      OBVIOUS
    <3> QED BY <3>1
  <2> DEFINE i == q + 1
  <2>2. i \in 1..32 /\ q \in 0..32
    OBVIOUS
  <2>3. place[i] + j = k
    BY <1>9, <2>1, <2>2
  <2>4. 8 * (32 - i) + (9 - j) = 256 + 1 - k
    BY <2>1
  <2> HIDE DEF i
  <2>5. raw[place[i] + j] = word[i][j] /\ word[i][j] = Digit(n.number, 8 * (32 - i) + (9 - j))
    BY <1>4, <1>8, <2>2
  <2> QED BY <2>3, <2>4, <2>5
<1>12. Number(raw) = n
  <2> DEFINE L == Len(raw)
  <2>1. Len(n.number) <= 256
    <3> DEFINE x == Len(n.number)
    <3>1. x \in Nat /\ x < 255
      BY NumberIs
    <3> HIDE DEF x
    <3>2. x <= 256
      BY <3>1
    <3> QED BY <3>2 DEF x
  <2>2. Len(n.number) <= L /\ \A k \in 1..L : raw[k] = Digit(n.number, L + 1 - k)
    BY <1>10, <1>11, <2>1
  <2> QED BY <1>7, <2>2, NumberOfDigits
<1> QED BY <1>3, <1>6, <1>12 DEF byte

-------------------------------------------------------------------------------
(* A text is what was written or it is refused.                            *)
LEMMA PartIs ==
  ASSUME NEW S, NEW s \in Seq(S), NEW p \in Seq(S), NEW a \in Nat \ {0}, NEW b \in Nat,
         a <= b, b <= Len(s), Len(p) = b - a + 1, \A i \in 1..Len(p) : p[i] = s[a + i - 1]
  PROVE  SubSeq(s, a, b) = p
<1> DEFINE q == SubSeq(s, a, b)
<1>1. Len(s) \in Nat /\ Len(p) \in Nat
  BY LenProperties
<1>2. \A i \in a..b : s[i] \in S
  <2>1. \A i \in a..b : i \in 1..Len(s)
    BY <1>1
  <2> QED BY <2>1, ElementOfSeq
<1>3. q \in Seq(S) /\ Len(q) = b - a + 1 /\ \A i \in 1..(b - a + 1) : q[i] = s[a + i - 1]
  <2>1. a \in Int /\ b \in Int
    OBVIOUS
  <2> HIDE DEF q
  <2>2. q = SubSeq(s, a, b)
    BY DEF q
  <2> QED BY <1>2, <2>1, <2>2, SubSeqProperties
<1> HIDE DEF q
<1>4. Len(q) = Len(p) /\ \A i \in 1..Len(q) : q[i] = p[i]
  BY <1>3
<1>5. q = p
  BY <1>3, <1>4, SeqEqual
<1> QED BY <1>5 DEF q

LEMMA TextReadsBack ==
  ASSUME NEW input \in Seq(Byte), NEW v \in Byte, NEW w \in Byte
  PROVE  from_base58_check(to_base58_check(input, v), w) = IF v = w THEN input ELSE <<>>
<1> DEFINE data == <<v>> \o input
           text == to_base58_check(input, v)
<1>1. text.data = data /\ text.checksum = compute_checksum(data)
  BY DEF to_base58_check
<1>2. data # <<>> /\ Head(data) = v /\ Tail(data) = input
  <2>1. <<v>> \in Seq(Byte) /\ Len(<<v>>) = 1 /\ <<v>>[1] = v /\ Len(input) \in Nat
    BY LenProperties
  <2>2. data \in Seq(Byte) /\ Len(data) = 1 + Len(input) /\ data[1] = v
        /\ \A i \in 1..Len(input) : data[i + 1] = input[i]
    BY <2>1
  <2> HIDE DEF data
  <2>3. data # <<>>
    BY <2>1, <2>2
  <2>4. Tail(data) \in Seq(Byte) /\ Len(Tail(data)) = Len(input)
        /\ \A i \in 1..Len(input) : Tail(data)[i] = data[i + 1]
    BY <2>1, <2>2, <2>3
  <2>5. Tail(data) = input
    <3> DEFINE t == Tail(data)
    <3>1. Len(t) = Len(input) /\ t \in Seq(Byte) /\ \A i \in 1..Len(t) : t[i] = input[i]
      BY <2>2, <2>4
    <3> HIDE DEF t
    <3>2. t = input
      BY <3>1, SeqEqual
    <3> QED BY <3>2 DEF t
  <2> QED BY <2>2, <2>3, <2>5
<1> HIDE DEF data, text
<1>3. from_base58_check(text, w) = IF v = w THEN input ELSE <<>>
  BY <1>1, <1>2 DEF from_base58_check
<1> QED BY <1>3 DEF text

\* A text with one wrong byte, wherever it is, is refused.
LEMMA WrongByteRefused ==
  ASSUME NEW input \in Seq(Byte), NEW v \in Byte, NEW wrong \in Byte,
         NEW i \in 1..(Len(input) + 1), to_base58_check(input, v).data[i] # wrong
  PROVE  from_base58_check([to_base58_check(input, v) EXCEPT !.data[i] = wrong], v) = <<>>
<1> DEFINE data == <<v>> \o input
           text == to_base58_check(input, v)
           other == [text EXCEPT !.data[i] = wrong]
<1>1. data \in Seq(Byte) /\ i \in DOMAIN data
  <2>1. <<v>> \in Seq(Byte) /\ Len(<<v>>) = 1 /\ Len(input) \in Nat
    BY LenProperties
  <2> QED BY <2>1
<1>2. text = [data |-> data, checksum |-> compute_checksum(data)]
  BY DEF to_base58_check
<1>3. data[i] # wrong
  BY <1>2
<1> HIDE DEF data, text
<1>4. other.data = [data EXCEPT ![i] = wrong] /\ other.checksum = compute_checksum(data)
  BY <1>2
<1>5. other.data[i] = wrong
  BY <1>1, <1>4
<1> HIDE DEF other
<1>6. \A x, y : compute_checksum(x) = compute_checksum(y) => x = y
  BY DEF compute_checksum
<1>7. from_base58_check(other, v) = <<>>
  BY <1>3, <1>4, <1>5, <1>6 DEF from_base58_check
<1> QED BY <1>7 DEF other, text

-------------------------------------------------------------------------------
(* The members of a document that are not written as they are.             *)
LEMMA TokenIdReadsBack ==
  ASSUME NEW n \in Numbers PROVE ReadTokenId(WriteTokenId(n)) = n
<1> DEFINE bytes == LittleEndian(n)
           v == TOKEN_ID_VERSION_BYTE
           decoded == from_base58_check(to_base58_check(bytes, v), v)
<1>1. bytes \in [1..32 -> Byte] /\ FromLittleEndian(bytes) = n
  BY LittleEndianReadsBack
<1>2. ReadTokenId(WriteTokenId(n)) = IF Len(decoded) = 32 THEN FromLittleEndian(decoded) ELSE <<>>
  BY DEF ReadTokenId, WriteTokenId
<1> HIDE DEF bytes, v
<1>3. bytes \in Seq(Byte) /\ Len(bytes) = 32
  BY <1>1, FunctionIsSeq
<1>4. v \in Byte
  BY FormatAssumption DEF v
<1>5. decoded = bytes
  BY <1>3, <1>4, TextReadsBack
<1> QED BY <1>1, <1>2, <1>3, <1>5

LEMMA MemoReadsBack ==
  ASSUME NEW memo \in Memos
  PROVE  /\ memo \in Seq(Byte) /\ Len(memo) = 34
         /\ ReadMemo(WriteMemo(memo)) = memo /\ ReadTokenId(WriteMemo(memo)) = <<>>
<1> DEFINE v == MEMO_VERSION_BYTE
           w == TOKEN_ID_VERSION_BYTE
           text == to_base58_check(memo, v)
<1>1. memo \in [1..34 -> Byte] /\ memo[1] = 1 /\ v \in Byte /\ w \in Byte /\ v # w
  BY FormatAssumption
<1>2. memo \in Seq(Byte) /\ Len(memo) = 34
  BY <1>1, FunctionIsSeq, ZenonT(30)
<1>3. Len(<<>>) = 0
  OBVIOUS
<1> HIDE DEF v, w
<1>4. from_base58_check(text, v) = memo /\ from_base58_check(text, w) = <<>>
  BY <1>1, <1>2, TextReadsBack
<1> HIDE DEF text
<1>5. ReadMemo(text) = memo /\ ReadTokenId(text) = <<>>
  BY <1>1, <1>2, <1>3, <1>4 DEF ReadMemo, ReadTokenId, v, w
<1> QED BY <1>2, <1>5 DEF text, v, WriteMemo

LEMMA SignatureReadsBack ==
  ASSUME NEW sig \in Sigs PROVE NodeSignature(to_base58(sig)) = sig
<1> DEFINE h == <<SIGNATURE_VERSION_NUMBER>>
           a == LittleEndian(sig.field)
           b == LittleEndian(sig.scalar)
           front == h \o a
           input == front \o b
           v == SIGNATURE_VERSION_BYTE
<1>1. sig.field \in Numbers /\ sig.scalar \in Numbers /\ sig
           = [field |-> sig.field, scalar |-> sig.scalar]
  <2>1. sig \in [field : Numbers, scalar : Numbers]
    BY FormatAssumption
  <2> QED BY <2>1
<1>2. /\ a \in [1..32 -> Byte] /\ FromLittleEndian(a) = sig.field
      /\ b \in [1..32 -> Byte] /\ FromLittleEndian(b) = sig.scalar
  BY <1>1, LittleEndianReadsBack
<1>3. to_base58(sig) = to_base58_check(input, v)
  BY DEF to_base58
<1>4. h \in Seq(Byte) /\ Len(h) = 1 /\ h[1] = 1
  BY DEF SIGNATURE_VERSION_NUMBER, Byte
<1> HIDE DEF a, b, h, v
<1>5. a \in Seq(Byte) /\ Len(a) = 32 /\ b \in Seq(Byte) /\ Len(b) = 32
  <2>1. \A f \in [1..32 -> Byte] : f \in Seq(Byte) /\ Len(f) = 32
    BY FunctionIsSeq
  <2>2. a \in [1..32 -> Byte] /\ b \in [1..32 -> Byte]
    BY <1>2
  <2> QED BY <2>1, <2>2
<1>6. /\ front \in Seq(Byte) /\ Len(front) = 33
      /\ \A i \in 1..33 : front[i] = IF i <= 1 THEN h[i] ELSE a[i - 1]
  <2>1. /\ front \in Seq(Byte) /\ Len(front) = Len(h) + Len(a)
        /\ \A i \in 1..(Len(h) + Len(a)) : front[i] = IF i <= Len(h) THEN h[i] ELSE a[i - Len(h)]
    BY <1>4, <1>5, ConcatProperties
  <2>2. Len(h) + Len(a) = 33
    BY <1>4, <1>5
  <2> HIDE DEF front
  <2> QED BY <1>4, <2>1, <2>2
<1> HIDE DEF front
<1>7. /\ input \in Seq(Byte) /\ Len(input) = 65
      /\ \A i \in 1..65 : input[i] = IF i <= 33 THEN front[i] ELSE b[i - 33]
  <2>1. /\ input \in Seq(Byte) /\ Len(input) = Len(front) + Len(b)
        /\ \A i \in 1..(Len(front) + Len(b)) :
             input[i] = IF i <= Len(front) THEN front[i] ELSE b[i - Len(front)]
    BY <1>5, <1>6, ConcatProperties, ZenonT(30)
  <2>2. Len(front) + Len(b) = 65
    BY <1>5, <1>6
  <2> HIDE DEF input
  <2> QED BY <1>6, <2>1, <2>2
<1> HIDE DEF input
<1>8. input[1] = 1
  BY <1>4, <1>6, <1>7
<1>9. SubSeq(input, 2, 33) = a
  <2>1. \A i \in 1..Len(a) : a[i] = input[2 + i - 1]
    <3>2. ASSUME NEW i \in 1..32 PROVE input[2 + i - 1] = a[i]
      <4> DEFINE q == 2 + i - 1
      <4>1. q \in 1..33 /\ q \in 1..65 /\ ~(q <= 1) /\ q - 1 = i /\ q <= 33
        OBVIOUS
      <4> HIDE DEF q
      <4>2. input[q] = a[i]
        BY <1>6, <1>7, <4>1
      <4> QED BY <4>2 DEF q
    <3> QED BY <1>5, <3>2
  <2>2. 2 \in Nat \ {0} /\ 33 \in Nat /\ 2 <= 33 /\ 33 <= Len(input) /\ Len(a) = 33 - 2 + 1
    BY <1>5, <1>7
  <2> QED BY <1>5, <1>7, <2>1, <2>2, PartIs
<1>10. SubSeq(input, 34, 65) = b
  <2>1. \A i \in 1..Len(b) : b[i] = input[34 + i - 1]
    <3>2. ASSUME NEW i \in 1..32 PROVE input[34 + i - 1] = b[i]
      <4> DEFINE q == 34 + i - 1
      <4>1. q \in 1..65 /\ ~(q <= 33) /\ q - 33 = i
        OBVIOUS
      <4> HIDE DEF q
      <4>2. input[q] = b[i]
        BY <1>7, <4>1
      <4> QED BY <4>2 DEF q
    <3> QED BY <1>5, <3>2
  <2>2. 34 \in Nat \ {0} /\ 65 \in Nat /\ 34 <= 65 /\ 65 <= Len(input) /\ Len(b) = 65 - 34 + 1
    BY <1>5, <1>7
  <2> QED BY <1>5, <1>7, <2>1, <2>2, PartIs
<1>11. from_base58_check(to_base58_check(input, v), v) = input
  <2>1. v \in Byte
    BY FormatAssumption DEF v
  <2> QED BY <1>7, <2>1, TextReadsBack
<1> DEFINE text == to_base58_check(input, v)
<1> HIDE DEF text
<1>12. NodeSignature(text) =
         [field |-> FromLittleEndian(SubSeq(input, 2, 33)),
          scalar |-> FromLittleEndian(SubSeq(input, 34, 65))]
  BY <1>7, <1>8, <1>11 DEF NodeSignature, text, v
<1> QED BY <1>1, <1>2, <1>3, <1>9, <1>10, <1>12 DEF text

LEMMA OptionalIs ==
  ASSUME NEW S, NEW o \in Optional(S)
  PROVE  o = <<>> \/ \E v \in S : o = <<v>>
<1>1. o \in Seq(S) /\ Len(o) <= 1 /\ Len(o) \in Nat
  BY LenProperties DEF Optional
<1>2. CASE o # <<>>
  <2>1. Len(o) = 1
    BY <1>1, <1>2, EmptySeq
  <2>2. o[1] \in S
    BY <1>1, <2>1
  <2>3. <<o[1]>> \in Seq(S) /\ Len(<<o[1]>>) = 1 /\ <<o[1]>>[1] = o[1]
    BY <2>2
  <2>4. Len(o) = Len(<<o[1]>>) /\ \A i \in 1..Len(o) : o[i] = <<o[1]>>[i]
    <3>1. \A i \in 1..1 : i = 1
      OBVIOUS
    <3> QED BY <2>1, <2>3, <3>1
  <2>5. o = <<o[1]>>
    BY <1>1, <2>3, <2>4, SeqEqual
  <2> QED BY <2>2, <2>5
<1> QED BY <1>2

LEMMA RangeReadsBack ==
  ASSUME NEW w \in {32, 64}, NEW range \in Optional(RangeType(w))
  PROVE  MapRange(MapRange(range, w, Written), w, ReadDecimal) = range
<1> DEFINE I == DOMAIN range
           there(i) == [lower |-> Decimal(range[i].lower), upper |-> Decimal(range[i].upper)]
           doc == [i \in I |-> there(i)]
           back(i) == [lower |-> ReadDecimal(doc[i].lower, w), upper |-> ReadDecimal(doc[i].upper, w)]
<1>1. MapRange(range, w, Written) = doc
  BY DEF MapRange, Written
<1>2. MapRange(doc, w, ReadDecimal) = [i \in I |-> back(i)]
  BY DEF MapRange
<1>3. range \in Seq(RangeType(w)) /\ range = [i \in I |-> range[i]]
  BY DEF Optional
<1>4. ASSUME NEW i \in I PROVE back(i) = range[i]
  <2>1. i \in 1..Len(range)
    BY <1>3, LenProperties
  <2>2. range[i] \in [lower : Machine(w), upper : Machine(w)]
    BY <1>3, <2>1, ElementOfSeq, ZenonT(30) DEF RangeType
  <2> DEFINE l == range[i].lower
             u == range[i].upper
  <2>3. l \in Machine(w) /\ u \in Machine(w) /\ range[i] = [lower |-> l, upper |-> u]
    BY <2>2
  <2>4. w \in Nat /\ w < 255
    OBVIOUS
  <2>5. back(i) = [lower |-> ReadDecimal(Decimal(l), w), upper |-> ReadDecimal(Decimal(u), w)]
    OBVIOUS
  <2> HIDE DEF l, u, back
  <2>6. ReadDecimal(Decimal(l), w) = l /\ ReadDecimal(Decimal(u), w) = u
    BY <2>3, <2>4, DecimalReadsBack
  <2> QED BY <2>3, <2>5, <2>6
<1> HIDE DEF back, doc, I
<1>5. [i \in I |-> back(i)] = range
  BY <1>3, <1>4
<1> QED BY <1>1, <1>2, <1>5

LEMMA PermissionsReadBack ==
  ASSUME NEW permissions \in Optional(PermissionsType)
  PROVE  MapPermissions(MapPermissions(permissions, Written), ReadDecimal) = permissions
<1> DEFINE I == DOMAIN permissions
           there(i) == [permissions[i] EXCEPT !["set_verification_key"].txn_version = Decimal(@)]
           doc == [i \in I |-> there(i)]
           back(i) == [doc[i] EXCEPT !["set_verification_key"].txn_version = ReadDecimal(@, 32)]
<1>1. MapPermissions(permissions, Written) = doc
  BY DEF MapPermissions, Written
<1>2. MapPermissions(doc, ReadDecimal) = [i \in I |-> back(i)]
  BY DEF MapPermissions
<1>3. permissions \in Seq(PermissionsType) /\ permissions = [i \in I |-> permissions[i]]
  BY DEF Optional
<1>4. ASSUME NEW i \in I PROVE back(i) = permissions[i]
  <2>1. i \in 1..Len(permissions)
    BY <1>3, LenProperties
  <2>2. permissions[i] \in PermissionsType
    BY <1>3, <2>1, ElementOfSeq
  <2> DEFINE p == permissions[i]
             k == p.set_verification_key
             v == k.txn_version
             c == Decimal(v)
             d == ReadDecimal(c, 32)
             q == [p EXCEPT !["set_verification_key"].txn_version = c]
  <2>3. p \in PermissionsType
    BY <2>2
  <2>4. doc[i] = q
    OBVIOUS
  <2> HIDE DEF p, k, doc, there
  <2>5. k \in [auth : AuthRequired, txn_version : Machine(32)]
    BY <2>3 DEF PermissionsType, k
  <2>6. v \in Machine(32) /\ k = [auth |-> k.auth, txn_version |-> v]
    BY <2>5
  <2>7. d = v
    BY <2>6, DecimalReadsBack
  <2>8. q["set_verification_key"].txn_version = c
    <3> HIDE DEF c
    <3> QED BY <2>3, <2>6 DEF PermissionsType, k
  <2>9. back(i) = [q EXCEPT !["set_verification_key"].txn_version = d]
    BY <2>4, <2>8
  <2> HIDE DEF c, d, v
  <2>10. [q EXCEPT !["set_verification_key"].txn_version = d] = p
    BY <2>3, <2>6, <2>7 DEF PermissionsType, k
  <2> QED BY <2>9, <2>10 DEF p
<1> HIDE DEF back, doc, I
<1>5. [i \in I |-> back(i)] = permissions
  BY <1>3, <1>4
<1> QED BY <1>1, <1>2, <1>5

\* What is done to one member and undone leaves the others alone.
LEMMA EpochReadsBack ==
  ASSUME NEW epoch \in EpochDataType
  PROVE  MapEpoch(MapEpoch(epoch, Written), ReadDecimal) = epoch
<1> DEFINE c == epoch.ledger.total_currency
           l == epoch.epoch_length
           c1 == MapRange(c, 64, Written)
           l1 == MapRange(l, 32, Written)
           doc == [epoch EXCEPT !.ledger.total_currency = c1, !.epoch_length = l1]
           c2 == MapRange(c1, 64, ReadDecimal)
           l2 == MapRange(l1, 32, ReadDecimal)
<1>1. MapEpoch(epoch, Written) = doc
  BY DEF MapEpoch
<1>2. MapEpoch(doc, ReadDecimal) =
        [doc EXCEPT !.ledger.total_currency = MapRange(doc.ledger.total_currency, 64, ReadDecimal),
                    !.epoch_length = MapRange(doc.epoch_length, 32, ReadDecimal)]
  BY DEF MapEpoch
<1>3. c \in Optional(RangeType(64)) /\ l \in Optional(RangeType(32))
  BY DEF EpochDataType
<1>4. c2 = c /\ l2 = l
  <2> HIDE DEF c, l
  <2>1. 64 \in {32, 64} /\ 32 \in {32, 64}
    OBVIOUS
  <2> QED BY <1>3, <2>1, RangeReadsBack
<1> HIDE DEF c1, l1
<1>5. doc.ledger.total_currency = c1 /\ doc.epoch_length = l1
  BY DEF EpochDataType
<1>6. MapEpoch(doc, ReadDecimal) = [doc EXCEPT !.ledger.total_currency = c2, !.epoch_length = l2]
  BY <1>2, <1>5
<1>7. [doc EXCEPT !.ledger.total_currency = c, !.epoch_length = l] = epoch
  BY DEF EpochDataType
<1> HIDE DEF doc, c, l, c2, l2
<1>8. MapEpoch(doc, ReadDecimal) = epoch
  BY <1>4, <1>6, <1>7
<1> QED BY <1>1, <1>8

\* Preconditions with other decimals.
PreconditionsOf(n, a, v) == [network |-> n, account |-> a, valid_while |-> v]
NetworkWith(n, a, b, c, d, e, f) ==
  [n EXCEPT !.blockchain_length = a, !.min_window_density = b, !.total_currency = c,
            !.global_slot_since_genesis = d, !.staking_epoch_data = e, !.next_epoch_data = f]
AccountWith(t, g, h) == [t EXCEPT !.balance = g, !.nonce = h]
PreconditionsWith(q, a, b, c, d, e, f, g, h, i) ==
  [q EXCEPT !.network.blockchain_length = a, !.network.min_window_density = b,
            !.network.total_currency = c, !.network.global_slot_since_genesis = d,
            !.network.staking_epoch_data = e, !.network.next_epoch_data = f,
            !.account.balance = g, !.account.nonce = h, !.valid_while = i]

LEMMA PreconditionsWithIs ==
  ASSUME NEW q, NEW n, NEW t, NEW v, q = PreconditionsOf(n, t, v),
         NEW a, NEW b, NEW c, NEW d, NEW e, NEW f, NEW g, NEW h, NEW i
  PROVE  PreconditionsWith(q, a, b, c, d, e, f, g, h, i)
           = PreconditionsOf(NetworkWith(n, a, b, c, d, e, f), AccountWith(t, g, h), i)
<1> DEFINE q1 == [q EXCEPT !.network.blockchain_length = a]
           q2 == [q1 EXCEPT !.network.min_window_density = b]
           q3 == [q2 EXCEPT !.network.total_currency = c]
           q4 == [q3 EXCEPT !.network.global_slot_since_genesis = d]
           q5 == [q4 EXCEPT !.network.staking_epoch_data = e]
           q6 == [q5 EXCEPT !.network.next_epoch_data = f]
           q7 == [q6 EXCEPT !.account.balance = g]
           q8 == [q7 EXCEPT !.account.nonce = h]
           q9 == [q8 EXCEPT !.valid_while = i]
           n1 == [n EXCEPT !.blockchain_length = a]
           n2 == [n1 EXCEPT !.min_window_density = b]
           n3 == [n2 EXCEPT !.total_currency = c]
           n4 == [n3 EXCEPT !.global_slot_since_genesis = d]
           n5 == [n4 EXCEPT !.staking_epoch_data = e]
           n6 == [n5 EXCEPT !.next_epoch_data = f]
           t1 == [t EXCEPT !.balance = g]
           t2 == [t1 EXCEPT !.nonce = h]
<1>2. PreconditionsWith(q, a, b, c, d, e, f, g, h, i) = q9
  BY DEF PreconditionsWith
<1>3. NetworkWith(n, a, b, c, d, e, f) = n6 /\ AccountWith(t, g, h) = t2
  BY DEF NetworkWith, AccountWith
<1>4. q = PreconditionsOf(n, t, v)
  OBVIOUS
<1> HIDE DEF q1, q2, q3, q4, q5, q6, q7, q8, q9, n1, n2, n3, n4, n5, n6, t1, t2
<1>5. q1 = PreconditionsOf(n1, t, v)
  BY <1>4 DEF PreconditionsOf, q1, n1
<1>6. q2 = PreconditionsOf(n2, t, v)
  BY <1>5 DEF PreconditionsOf, q2, n2
<1>7. q3 = PreconditionsOf(n3, t, v)
  BY <1>6 DEF PreconditionsOf, q3, n3
<1>8. q4 = PreconditionsOf(n4, t, v)
  BY <1>7 DEF PreconditionsOf, q4, n4
<1>9. q5 = PreconditionsOf(n5, t, v)
  BY <1>8 DEF PreconditionsOf, q5, n5
<1>10. q6 = PreconditionsOf(n6, t, v)
  BY <1>9 DEF PreconditionsOf, q6, n6
<1>11. q7 = PreconditionsOf(n6, t1, v)
  BY <1>10 DEF PreconditionsOf, q7, t1
<1>12. q8 = PreconditionsOf(n6, t2, v)
  BY <1>11 DEF PreconditionsOf, q8, t2
<1>13. q9 = PreconditionsOf(n6, t2, i)
  BY <1>12 DEF PreconditionsOf, q9
<1> QED BY <1>2, <1>3, <1>13

LEMMA PreconditionsReadBack ==
  ASSUME NEW p \in [network : NetworkType, account : AccountType, valid_while : Optional(RangeType(32))]
  PROVE  MapPreconditions(MapPreconditions(p, Written), ReadDecimal) = p
<1> DEFINE W(x, y, z) == PreconditionsOf(x, y, z)
           N(x, a1, b1, c1, d1, e1, f1) == NetworkWith(x, a1, b1, c1, d1, e1, f1)
           A(x, g1, h1) == AccountWith(x, g1, h1)
<1> DEFINE n == p.network
           t == p.account
           a == n.blockchain_length
           b == n.min_window_density
           c == n.total_currency
           d == n.global_slot_since_genesis
           e == n.staking_epoch_data
           f == n.next_epoch_data
           g == t.balance
           h == t.nonce
           i == p.valid_while
<1>2. /\ p = W(n, t, i) /\ n \in NetworkType /\ t \in AccountType
      /\ i \in Optional(RangeType(32))
  BY DEF PreconditionsOf
<1> HIDE DEF n, t, i
<1>3. /\ a \in Optional(RangeType(32)) /\ b \in Optional(RangeType(32))
      /\ c \in Optional(RangeType(64)) /\ d \in Optional(RangeType(32))
      /\ e \in EpochDataType /\ f \in EpochDataType
  BY <1>2 DEF NetworkType
<1>4. g \in Optional(RangeType(64)) /\ h \in Optional(RangeType(32))
  BY <1>2 DEF AccountType
<1> DEFINE R(x, w) == MapRange(x, w, Written)
           U(x, w) == MapRange(x, w, ReadDecimal)
           S(x) == MapEpoch(x, Written)
           V(x) == MapEpoch(x, ReadDecimal)
           n1 == N(n, R(a, 32), R(b, 32), R(c, 64), R(d, 32), S(e), S(f))
           t1 == A(t, R(g, 64), R(h, 32))
           q == W(n1, t1, R(i, 32))
<1>5. MapPreconditions(p, Written) = q
  <2>1. p = PreconditionsOf(p.network, p.account, p.valid_while)
    BY DEF PreconditionsOf
  <2> DEFINE a1 == R(p.network.blockchain_length, 32)
             b1 == R(p.network.min_window_density, 32)
             c1 == R(p.network.total_currency, 64)
             d1 == R(p.network.global_slot_since_genesis, 32)
             e1 == S(p.network.staking_epoch_data)
             f1 == S(p.network.next_epoch_data)
             g1 == R(p.account.balance, 64)
             h1 == R(p.account.nonce, 32)
             i1 == R(p.valid_while, 32)
  <2>2. MapPreconditions(p, Written) =
          PreconditionsWith(p, a1, b1, c1, d1, e1, f1, g1, h1, i1)
    BY DEF MapPreconditions, PreconditionsWith
  <2>3. q = PreconditionsOf(NetworkWith(p.network, a1, b1, c1, d1, e1, f1), AccountWith(p.account, g1, h1), i1)
    BY DEF n, t, i
  <2> HIDE DEF a1, b1, c1, d1, e1, f1, g1, h1, i1, q
  <2> QED BY <2>1, <2>2, <2>3, PreconditionsWithIs
<1>6. MapPreconditions(q, ReadDecimal) =
        W(N(n1, U(n1.blockchain_length, 32), U(n1.min_window_density, 32), U(n1.total_currency, 64),
            U(n1.global_slot_since_genesis, 32), V(n1.staking_epoch_data), V(n1.next_epoch_data)),
          A(t1, U(t1.balance, 64), U(t1.nonce, 32)), U(R(i, 32), 32))
  <2> DEFINE a1 == U(q.network.blockchain_length, 32)
             b1 == U(q.network.min_window_density, 32)
             c1 == U(q.network.total_currency, 64)
             d1 == U(q.network.global_slot_since_genesis, 32)
             e1 == V(q.network.staking_epoch_data)
             f1 == V(q.network.next_epoch_data)
             g1 == U(q.account.balance, 64)
             h1 == U(q.account.nonce, 32)
             i1 == U(q.valid_while, 32)
  <2> HIDE DEF n1, t1, R
  <2>1. q.network = n1 /\ q.account = t1 /\ q.valid_while = R(i, 32)
    BY DEF PreconditionsOf
  <2>2. q = PreconditionsOf(q.network, q.account, q.valid_while)
    BY <2>1
  <2> HIDE DEF q
  <2>3. MapPreconditions(q, ReadDecimal) =
          PreconditionsWith(q, a1, b1, c1, d1, e1, f1, g1, h1, i1)
    BY DEF MapPreconditions, PreconditionsWith
  <2>4. /\ a1 = U(n1.blockchain_length, 32) /\ b1 = U(n1.min_window_density, 32)
        /\ c1 = U(n1.total_currency, 64) /\ d1 = U(n1.global_slot_since_genesis, 32)
        /\ e1 = V(n1.staking_epoch_data) /\ f1 = V(n1.next_epoch_data)
        /\ g1 = U(t1.balance, 64) /\ h1 = U(t1.nonce, 32) /\ i1 = U(R(i, 32), 32)
    BY <2>1
  <2> HIDE DEF a1, b1, c1, d1, e1, f1, g1, h1, i1, U, V
  <2>5. MapPreconditions(q, ReadDecimal)
             = W(N(q.network, a1, b1, c1, d1, e1, f1), A(q.account, g1, h1), i1)
    BY <2>2, <2>3, PreconditionsWithIs
  <2> QED BY <2>1, <2>4, <2>5
<1>7. /\ U(R(a, 32), 32) = a /\ U(R(b, 32), 32) = b /\ U(R(c, 64), 64) = c /\ U(R(d, 32), 32) = d
      /\ U(R(g, 64), 64) = g /\ U(R(h, 32), 32) = h /\ U(R(i, 32), 32) = i
  <2> HIDE DEF a, b, c, d, g, h, i
  <2>1. 64 \in {32, 64} /\ 32 \in {32, 64}
    OBVIOUS
  <2>2. ASSUME NEW x \in Optional(RangeType(32)) PROVE U(R(x, 32), 32) = x
    BY <2>1, RangeReadsBack
  <2>3. ASSUME NEW x \in Optional(RangeType(64)) PROVE U(R(x, 64), 64) = x
    BY <2>1, RangeReadsBack
  <2> HIDE DEF U, R
  <2> QED BY <1>2, <1>3, <1>4, <2>2, <2>3
<1>8. V(S(e)) = e /\ V(S(f)) = f
  <2> HIDE DEF e, f
  <2> QED BY <1>3, EpochReadsBack
<1> HIDE DEF R, U, S, V
<1>9. /\ n1.blockchain_length = R(a, 32) /\ n1.min_window_density = R(b, 32)
      /\ n1.total_currency = R(c, 64) /\ n1.global_slot_since_genesis = R(d, 32)
      /\ n1.staking_epoch_data = S(e) /\ n1.next_epoch_data = S(f)
  BY <1>2 DEF NetworkType, NetworkWith
<1>10. t1.balance = R(g, 64) /\ t1.nonce = R(h, 32)
  BY <1>2 DEF AccountType, AccountWith
<1>11. N(n1, a, b, c, d, e, f) = n
  BY <1>2 DEF NetworkType, NetworkWith
<1>12. A(t1, g, h) = t
  BY <1>2 DEF AccountType, AccountWith
<1> HIDE DEF n1, t1, N, A, W, a, b, c, d, e, f, g, h
<1>13. MapPreconditions(q, ReadDecimal) = W(N(n1, a, b, c, d, e, f), A(t1, g, h), i)
  BY <1>6, <1>7, <1>8, <1>9, <1>10
<1>14. MapPreconditions(q, ReadDecimal) = p
  BY <1>2, <1>11, <1>12, <1>13
<1> QED BY <1>5, <1>14

LEMMA BodyReadsBack ==
  ASSUME NEW body \in BodyType PROVE ReadBody(WriteBody(body)) = body
<1> DEFINE u == body.update
           a == body.token_id
           b == u.permissions
           s == u.token_symbol
           c == body.balance_change
           d == body.preconditions
           a1 == WriteTokenId(a)
           b1 == MapPermissions(b, Written)
           c1 == [magnitude |-> Decimal(c.magnitude), sgn |-> WriteSign(c.sgn)]
           d1 == MapPreconditions(d, Written)
           a2 == ReadTokenId(a1)
           b2 == MapPermissions(b1, ReadDecimal)
           s2 == IF s = <<>> THEN s ELSE ReadSymbol(s[1])
           c2 == [magnitude |-> ReadDecimal(c1.magnitude, 64), sgn |-> ReadSign(c1.sgn)]
           d2 == MapPreconditions(d1, ReadDecimal)
           doc == [body EXCEPT !.token_id = a1, !.update.permissions = b1,
                               !.balance_change = c1, !.preconditions = d1]
<1>1. /\ u \in UpdateType /\ a \in Numbers /\ c \in [magnitude : Machine(64), sgn : {1, -1}]
      /\ d \in [network : NetworkType, account : AccountType, valid_while : Optional(RangeType(32))]
  BY DEF BodyType
<1>2. b \in Optional(PermissionsType) /\ s \in Optional({symbol \in Seq(Byte) : Len(symbol) <= 6})
  BY <1>1 DEF UpdateType
<1>3. a2 = a
  <2> HIDE DEF a
  <2> QED BY <1>1, TokenIdReadsBack
<1>4. b2 = b
  <2> HIDE DEF b
  <2> QED BY <1>2, PermissionsReadBack
<1>5. s2 = s
  <2> DEFINE S == {symbol \in Seq(Byte) : Len(symbol) <= 6}
  <2> HIDE DEF s
  <2>1. s = <<>> \/ \E v \in S : s = <<v>>
    <3> HIDE DEF S
    <3>1. s \in Optional(S)
      BY <1>2 DEF S
    <3> QED BY <3>1, OptionalIs
  <2>2. ASSUME NEW v \in S, s = <<v>> PROVE s2 = s
    <3>1. s # <<>> /\ s[1] = v /\ Len(v) <= 6
      BY <2>2
    <3> QED BY <2>2, <3>1 DEF ReadSymbol
  <2> QED BY <2>1, <2>2
<1>6. c2 = c
  <2> HIDE DEF c
  <2> DEFINE m == c.magnitude
             g == c.sgn
  <2>1. m \in Machine(64) /\ g \in {1, -1} /\ c = [magnitude |-> m, sgn |-> g]
    BY <1>1
  <2>2. c2 = [magnitude |-> ReadDecimal(Decimal(m), 64), sgn |-> ReadSign(WriteSign(g))]
    OBVIOUS
  <2> HIDE DEF m, g, c2
  <2>3. ReadDecimal(Decimal(m), 64) = m
    BY <2>1, DecimalReadsBack
  <2>4. ReadSign(WriteSign(g)) = g
    BY <2>1 DEF ReadSign, WriteSign
  <2> QED BY <2>1, <2>2, <2>3, <2>4
<1>7. d2 = d
  <2> HIDE DEF d
  <2> QED BY <1>1, PreconditionsReadBack
<1>8. WriteBody(body) = doc
  BY DEF WriteBody
<1>9. ReadBody(doc) =
        [doc EXCEPT
           !.token_id = ReadTokenId(doc.token_id),
           !.update.permissions = MapPermissions(doc.update.permissions, ReadDecimal),
           !.update.token_symbol = IF doc.update.token_symbol = <<>> THEN doc.update.token_symbol
                                   ELSE ReadSymbol(doc.update.token_symbol[1]),
           !.balance_change = [magnitude |-> ReadDecimal(doc.balance_change.magnitude, 64),
                               sgn |-> ReadSign(doc.balance_change.sgn)],
           !.preconditions = MapPreconditions(doc.preconditions, ReadDecimal)]
  <2> HIDE DEF doc
  <2> QED BY DEF ReadBody
<1> HIDE DEF a1, b1, c1, d1
<1>10. /\ doc.token_id = a1 /\ doc.update.permissions = b1 /\ doc.update.token_symbol = s
       /\ doc.balance_change = c1 /\ doc.preconditions = d1
  BY <1>1 DEF BodyType, UpdateType
<1>11. ReadBody(doc) =
         [doc EXCEPT !.token_id = a2, !.update.permissions = b2, !.update.token_symbol = s2,
                     !.balance_change = c2, !.preconditions = d2]
  <2> HIDE DEF doc
  <2> QED BY <1>9, <1>10
<1>12. [doc EXCEPT !.token_id = a, !.update.permissions = b, !.update.token_symbol = s,
                   !.balance_change = c, !.preconditions = d] = body
  <2> DEFINE u1 == [u EXCEPT !.permissions = b1]
             u2 == [u1 EXCEPT !.permissions = b]
             u3 == [u2 EXCEPT !.token_symbol = s]
             mid == [doc EXCEPT !.token_id = a, !.update.permissions = b]
             last == [mid EXCEPT !.update.token_symbol = s]
  <2>1. u3 = u
    BY <1>1 DEF UpdateType
  <2>2. doc.update = u1
    BY <1>1 DEF BodyType
  <2> HIDE DEF u1
  <2>3. mid.update = u2
    BY <2>2 DEF BodyType
  <2> HIDE DEF u2
  <2>4. last.update = u3
    <3>1. "update" \in DOMAIN mid
      BY DEF BodyType
    <3> HIDE DEF mid
    <3> QED BY <2>3, <3>1
  <2> DEFINE e == [doc EXCEPT !.token_id = a, !.update.permissions = b, !.update.token_symbol = s,
                              !.balance_change = c, !.preconditions = d]
  <2>5. e = [last EXCEPT !.balance_change = c, !.preconditions = d]
    <3> HIDE DEF doc
    <3> QED OBVIOUS
  <2>6. e.update = u
    <3> HIDE DEF last, e, u3
    <3> QED BY <2>1, <2>4, <2>5
  <2>7. DOMAIN e = DOMAIN body /\ e = [x \in DOMAIN e |-> e[x]] /\ body
             = [x \in DOMAIN body |-> body[x]]
    BY ZenonT(30) DEF BodyType
  <2>8. ASSUME NEW x \in DOMAIN body, x # "update" PROVE e[x] = body[x]
    BY <2>8
  <2>9. \A x \in DOMAIN body : e[x] = body[x]
    <3> HIDE DEF e
    <3> QED BY <2>6, <2>8
  <2> HIDE DEF e
  <2>10. e = body
    BY <2>7, <2>9
  <2> QED BY <2>10 DEF e
<1> HIDE DEF a, b, s, c, d, a2, b2, s2, c2, d2, doc
<1>13. ReadBody(doc) = body
  BY <1>3, <1>4, <1>5, <1>6, <1>7, <1>11, <1>12
<1> QED BY <1>8, <1>13

LEMMA FeePayerReadsBack ==
  ASSUME NEW body \in FeePayerType PROVE ReadFeePayer(WriteFeePayer(body)) = body
<1> DEFINE f == body.fee
           n == body.nonce
           v == body.valid_until
           f1 == Decimal(f)
           n1 == Decimal(n)
           v1 == [i \in DOMAIN v |-> Decimal(v[i])]
           f2 == ReadDecimal(f1, 64)
           n2 == ReadDecimal(n1, 32)
           v2 == [i \in DOMAIN v1 |-> ReadDecimal(v1[i], 32)]
           doc == [body EXCEPT !.fee = f1, !.nonce = n1, !.valid_until = v1]
<1>1. f \in Machine(64) /\ n \in Machine(32) /\ v \in Optional(Machine(32))
  BY DEF FeePayerType
<1>2. f2 = f /\ n2 = n
  <2> HIDE DEF f, n
  <2> QED BY <1>1, DecimalReadsBack
<1>3. v2 = v
  <2> HIDE DEF v
  <2> DEFINE I == DOMAIN v
             back(i) == ReadDecimal(Decimal(v[i]), 32)
  <2>1. v \in Seq(Machine(32)) /\ v = [i \in I |-> v[i]] /\ I = 1..Len(v)
    BY <1>1, LenProperties DEF Optional
  <2>2. v2 = [i \in I |-> back(i)]
    OBVIOUS
  <2>3. ASSUME NEW i \in I PROVE back(i) = v[i]
    <3>1. v[i] \in Machine(32)
      BY <2>1, ElementOfSeq
    <3> QED BY <3>1, DecimalReadsBack
  <2> HIDE DEF I, back, v2
  <2> QED BY <2>1, <2>2, <2>3
<1>4. WriteFeePayer(body) = doc
  BY DEF WriteFeePayer
<1>5. ReadFeePayer(doc) =
        [doc EXCEPT !.fee = ReadDecimal(doc.fee, 64), !.nonce = ReadDecimal(doc.nonce, 32),
                    !.valid_until
                         = [i \in DOMAIN doc.valid_until |-> ReadDecimal(doc.valid_until[i], 32)]]
  <2> HIDE DEF doc
  <2> QED BY DEF ReadFeePayer
<1> HIDE DEF f1, n1, v1
<1>6. doc.fee = f1 /\ doc.nonce = n1 /\ doc.valid_until = v1
  BY DEF FeePayerType
<1>7. ReadFeePayer(doc) = [doc EXCEPT !.fee = f2, !.nonce = n2, !.valid_until = v2]
  <2> HIDE DEF doc
  <2> QED BY <1>5, <1>6
<1>8. [doc EXCEPT !.fee = f, !.nonce = n, !.valid_until = v] = body
  BY DEF FeePayerType
<1> HIDE DEF f, n, v, f2, n2, v2, doc
<1>9. ReadFeePayer(doc) = body
  BY <1>2, <1>3, <1>7, <1>8
<1> QED BY <1>4, <1>9

(* What one session writes the next one reads: every body, fee payer, memo *)
(* and signature of any values (decimals of any width, token ids and       *)
(* signatures in the other order of bytes, Options that are null), while a *)
(* memo is refused as a token id, and with any one byte wrong.             *)
THEOREM DocumentsAreReadAsWritten == Spec => []DocumentsReadBack
<1>1. ASSUME NEW memo \in Memos, NEW i \in 1..35, NEW wrong \in {0, 20, 28},
             WriteMemo(memo).data[i] # wrong
      PROVE  ReadMemo([WriteMemo(memo) EXCEPT !.data[i] = wrong]) = <<>>
  <2> DEFINE v == MEMO_VERSION_BYTE
             other == [to_base58_check(memo, v) EXCEPT !.data[i] = wrong]
  <2>1. memo \in Seq(Byte) /\ Len(memo) = 34 /\ v \in Byte /\ wrong \in Byte
    BY FormatAssumption, MemoReadsBack DEF Byte
  <2>2. WriteMemo(memo) = to_base58_check(memo, v)
    BY DEF WriteMemo
  <2> HIDE DEF v
  <2>3. i \in 1..(Len(memo) + 1) /\ to_base58_check(memo, v).data[i] # wrong
    BY <1>1, <2>1, <2>2
  <2>4. from_base58_check(other, v) = <<>>
    BY <2>1, <2>3, WrongByteRefused
  <2> HIDE DEF other
  <2>5. ReadMemo(other) = <<>>
    BY <2>4 DEF ReadMemo, v
  <2> QED BY <2>2, <2>5 DEF other
<1>2. \A body \in Bodies : ReadBody(WriteBody(body)) = body
  BY FormatAssumption, BodyReadsBack
<1>3. \A body \in FeePayerBodies : ReadFeePayer(WriteFeePayer(body)) = body
  BY FormatAssumption, FeePayerReadsBack
<1>4. ReadAsWritten
  BY <1>1, <1>2, <1>3, MemoReadsBack, SignatureReadsBack DEF ReadAsWritten
<1>5. DocumentsReadBack
  BY <1>4 DEF DocumentsReadBack
<1> QED BY <1>5, PTL

-------------------------------------------------------------------------------
(* What an input tells of the value it is the input of.  Inputs that are   *)
(* alike are put together at the same places, so that they are told apart  *)
(* one by one.                                                             *)
Same(a, b) == a.fields = b.fields /\ a.bits = b.bits

\* Sequences as long and alike element by element are the same.
LEMMA SeqsSame ==
  ASSUME NEW S, NEW s \in Seq(S), NEW T, NEW t \in Seq(T), Len(s) = Len(t),
         \A i \in 1..Len(s) : s[i] = t[i]
  PROVE  s = t
<1>1. /\ s = [i \in 1..Len(s) |-> s[i]] /\ t = [i \in 1..Len(t) |-> t[i]]
  BY LenProperties
<1> QED BY <1>1

\* Pieces as long as each other are known from what they make end to end.
LEMMA FlattenTells ==
  ASSUME NEW S, NEW s \in Seq(Seq(S)), NEW T, NEW t \in Seq(Seq(T)),
         Len(s) = Len(t), \A i \in 1..Len(s) : Len(s[i]) = Len(t[i]),
         FlattenSeq(s) = FlattenSeq(t)
  PROVE  \A i \in 1..Len(s) : s[i] = t[i]
<1>1. \A i \in 1..Len(s) : \A j \in 1..Len(s[i]) : s[i][j] = t[i][j]
  <2>1. SideBySide(s, t)
    BY FlattenAlike, Zenon
  <2> QED BY <2>1 DEF SideBySide
<1>2. ASSUME NEW i \in 1..Len(s) PROVE s[i] \in Seq(S) /\ t[i] \in Seq(T)
  BY ElementOfSeq
<1>3. ASSUME NEW i \in 1..Len(s) PROVE s[i] = t[i]
  <2>1. Len(s[i]) = Len(t[i]) /\ \A j \in 1..Len(s[i]) : s[i][j] = t[i][j]
    BY <1>1
  <2> QED BY <1>2, <2>1, SeqsSame
<1> QED BY <1>3

\* An input put together is an input, and has the pieces of its parts.
LEMMA InputIs ==
  ASSUME NEW n \in Nat, NEW x, DOMAIN x = 1..n, \A i \in 1..n : IsInput(x[i])
  PROVE  /\ Packed(x) = [fields |-> FlattenSeq([i \in 1..n |-> x[i].fields]),
                         bits |-> FlattenSeq([i \in 1..n |-> x[i].bits])]
         /\ \E S : [i \in 1..n |-> x[i].fields] \in Seq(Seq(S))
         /\ [i \in 1..n |-> x[i].bits] \in Seq(Seq(Seq(Bit)))
<1> DEFINE S == UNION {{x[i].fields[j] : j \in 1..Len(x[i].fields)} : i \in 1..n}
<1>1. ASSUME NEW i \in 1..n PROVE x[i].fields \in Seq(S)
  <2>1. PICK T : x[i].fields \in Seq(T)
    BY DEF IsInput
  <2> DEFINE f == x[i].fields
  <2>2. \A j \in 1..Len(f) : f[j] \in S
    OBVIOUS
  <2>3. Len(f) \in Nat /\ f = [j \in 1..Len(f) |-> f[j]]
    BY <2>1
  <2> HIDE DEF f, S
  <2>4. f \in Seq(S)
    BY <2>2, <2>3
  <2> QED BY <2>4 DEF f
<1> HIDE DEF S
<1>2. [i \in 1..n |-> x[i].fields] \in Seq(Seq(S))
  BY <1>1
<1>3. [i \in 1..n |-> x[i].bits] \in Seq(Seq(Seq(Bit)))
  BY DEF IsInput
<1>4. Packed(x) = [fields |-> FlattenSeq([i \in 1..n |-> x[i].fields]),
                   bits |-> FlattenSeq([i \in 1..n |-> x[i].bits])]
  BY DEF Packed
<1> QED BY <1>2, <1>3, <1>4

\* Parts laid out alike are known from the input put together of them.
LEMMA PackedTells ==
  ASSUME NEW n \in Nat, NEW a, NEW b, DOMAIN a = 1..n, DOMAIN b = 1..n,
         \A i \in 1..n : Alike(a[i], b[i]), Same(Packed(a), Packed(b))
  PROVE  \A i \in 1..n : Same(a[i], b[i])
<1> DEFINE fa == [i \in 1..n |-> a[i].fields]
           fb == [i \in 1..n |-> b[i].fields]
           ba == [i \in 1..n |-> a[i].bits]
           bb == [i \in 1..n |-> b[i].bits]
<1>1. PICK S, T : /\ fa \in Seq(Seq(S)) /\ fb \in Seq(Seq(T))
                  /\ ba \in Seq(Seq(Seq(Bit))) /\ bb \in Seq(Seq(Seq(Bit)))
                  /\ Packed(a) = [fields |-> FlattenSeq(fa), bits |-> FlattenSeq(ba)]
                  /\ Packed(b) = [fields |-> FlattenSeq(fb), bits |-> FlattenSeq(bb)]
  <2>1. \A i \in 1..n : IsInput(a[i]) /\ IsInput(b[i])
    BY DEF Alike
  <2> QED BY <2>1, InputIs
<1>2. /\ Len(fa) = n /\ Len(fb) = n /\ Len(ba) = n /\ Len(bb) = n
      /\ \A i \in 1..n : /\ fa[i] = a[i].fields /\ fb[i] = b[i].fields
                         /\ ba[i] = a[i].bits /\ bb[i] = b[i].bits
  OBVIOUS
<1>3. \A i \in 1..n : /\ Len(a[i].fields) = Len(b[i].fields)
                      /\ Len(a[i].bits) = Len(b[i].bits)
  BY DEF Alike
<1> HIDE DEF fa, fb, ba, bb
<1>4. FlattenSeq(fa) = FlattenSeq(fb) /\ FlattenSeq(ba) = FlattenSeq(bb)
  BY <1>1 DEF Same
<1>5. \A i \in 1..Len(fa) : fa[i] = fb[i]
  <2>1. Len(fa) = Len(fb) /\ \A i \in 1..Len(fa) : Len(fa[i]) = Len(fb[i])
    BY <1>2, <1>3
  <2> QED BY <1>1, <1>4, <2>1, FlattenTells
<1>6. \A i \in 1..Len(ba) : ba[i] = bb[i]
  <2>1. Len(ba) = Len(bb) /\ \A i \in 1..Len(ba) : Len(ba[i]) = Len(bb[i])
    BY <1>2, <1>3
  <2> DEFINE B == Seq(Bit)
  <2>2. ba \in Seq(Seq(B)) /\ bb \in Seq(Seq(B))
    BY <1>1
  <2> HIDE DEF B
  <2> QED BY <1>4, <2>1, <2>2, FlattenTells
<1> QED BY <1>2, <1>5, <1>6 DEF Same

\* Two parts laid out alike are known from the pair.
LEMMA PairTells ==
  ASSUME NEW c, NEW d, NEW x, NEW y, Alike(c, d), Alike(x, y),
         Same(Packed(<<c, x>>), Packed(<<d, y>>))
  PROVE  Same(c, d) /\ Same(x, y)
<1> DEFINE a == <<c, x>>
           b == <<d, y>>
<1>1. DOMAIN a = 1..2 /\ DOMAIN b = 1..2 /\ a[1] = c /\ b[1] = d /\ a[2] = x /\ b[2] = y
  OBVIOUS
<1>2. Same(Packed(a), Packed(b))
  OBVIOUS
<1> HIDE DEF a, b
<1>3. \A i \in 1..2 : i = 1 \/ i = 2
  OBVIOUS
<1>4. \A i \in 1..2 : Alike(a[i], b[i])
  BY <1>1, <1>3
<1>5. \A i \in 1..2 : Same(a[i], b[i])
  BY <1>1, <1>2, <1>4, PackedTells
<1>6. 1 \in 1..2 /\ 2 \in 1..2
  OBVIOUS
<1> QED BY <1>1, <1>5, <1>6

\* A field, a word, a flag and an Option are known from their inputs.
LEMMA FieldTells ==
  ASSUME NEW f, NEW g, Same(Field(f), Field(g)) PROVE f = g
<1>1. <<f>> = <<g>>
  BY DEF Same, Field
<1> QED BY <1>1

LEMMA WordTells ==
  ASSUME NEW b, NEW c, Same(Word(b), Word(c)) PROVE b = c
<1>1. <<b>> = <<c>>
  BY DEF Same, Word
<1> QED BY <1>1

LEMMA BoolTells ==
  ASSUME NEW b \in BOOLEAN, NEW c \in BOOLEAN, Same(Bool(b), Bool(c)) PROVE b = c
<1>1. (IF b THEN <<1>> ELSE <<0>>) = (IF c THEN <<1>> ELSE <<0>>)
  BY WordTells DEF Bool
<1>2. <<1>> # <<0>>
  OBVIOUS
<1> QED BY <1>1, <1>2

LEMMA OptionTells ==
  ASSUME NEW c \in BOOLEAN, NEW d \in BOOLEAN, NEW x, NEW y, Alike(x, y),
         Same(Packed(<<Bool(c), x>>), Packed(<<Bool(d), y>>))
  PROVE  c = d /\ Same(x, y)
<1>1. Alike(Bool(c), Bool(d))
  BY BoolAlike
<1>2. Same(Bool(c), Bool(d)) /\ Same(x, y)
  BY <1>1, PairTells
<1> QED BY <1>2, BoolTells

\* With the flag and the value of a given one, the Option is known.
LEMMA OptionalsSame ==
  ASSUME NEW S, NEW o \in Optional(S), NEW p \in Optional(S),
         (o # <<>>) = (p # <<>>), o # <<>> => o[1] = p[1]
  PROVE  o = p
<1>1. /\ o = <<>> \/ \E v \in S : o = <<v>>
      /\ p = <<>> \/ \E v \in S : p = <<v>>
  BY OptionalIs
<1>2. \A v : <<v>> # <<>> /\ <<v>>[1] = v
  OBVIOUS
<1> QED BY <1>1, <1>2

\* So are the Options there are, keys, states, permissions and timings.
LEMMA OptionFieldTells ==
  ASSUME NEW S, NEW o \in Optional(S), NEW p \in Optional(S), Same(OptionField(o), OptionField(p))
  PROVE  o = p
<1> DEFINE f == IF o = <<>> THEN Zero ELSE o[1]
           g == IF p = <<>> THEN Zero ELSE p[1]
<1>1. /\ OptionField(o) = Packed(<<Bool(o # <<>>), Field(f)>>)
      /\ OptionField(p) = Packed(<<Bool(p # <<>>), Field(g)>>)
  BY DEF OptionField, Option
<1> HIDE DEF f, g
<1>2. (o # <<>>) = (p # <<>>) /\ Same(Field(f), Field(g))
  BY <1>1, FieldAlike, OptionTells
<1>3. f = g
  BY <1>2, FieldTells
<1> QED BY <1>2, <1>3, OptionalsSame DEF f, g

LEMMA ActionStateTells ==
  ASSUME NEW S, NEW o \in Optional(S), NEW p \in Optional(S), Same(ActionState(o), ActionState(p))
  PROVE  o = p
<1> DEFINE e == hash_noinput("MinaZkappActionStateEmptyElt")
           f == IF o = <<>> THEN e ELSE o[1]
           g == IF p = <<>> THEN e ELSE p[1]
<1>1. /\ ActionState(o) = Packed(<<Bool(o # <<>>), Field(f)>>)
      /\ ActionState(p) = Packed(<<Bool(p # <<>>), Field(g)>>)
  BY DEF ActionState, Option
<1> HIDE DEF f, g
<1>2. (o # <<>>) = (p # <<>>) /\ Same(Field(f), Field(g))
  BY <1>1, FieldAlike, OptionTells
<1>3. f = g
  BY <1>2, FieldTells
<1> QED BY <1>2, <1>3, OptionalsSame DEF f, g

LEMMA OptionBoolTells ==
  ASSUME NEW o \in Optional(BOOLEAN), NEW p \in Optional(BOOLEAN),
         Same(OptionBool(o), OptionBool(p))
  PROVE  o = p
<1> DEFINE x == IF o = <<>> THEN Bool(FALSE) ELSE Bool(o[1])
           y == IF p = <<>> THEN Bool(FALSE) ELSE Bool(p[1])
<1>1. /\ OptionBool(o) = Packed(<<Bool(o # <<>>), x>>)
      /\ OptionBool(p) = Packed(<<Bool(p # <<>>), y>>)
  BY DEF OptionBool, Option
<1>2. Alike(x, y)
  BY BoolAlike
<1> HIDE DEF x, y
<1>3. (o # <<>>) = (p # <<>>) /\ Same(x, y)
  BY <1>1, <1>2, OptionTells
<1>4. o # <<>> => Same(Bool(o[1]), Bool(p[1])) /\ o[1] \in BOOLEAN /\ p[1] \in BOOLEAN
  BY <1>3, OptionalGiven DEF x, y
<1>5. o # <<>> => o[1] = p[1]
  BY <1>4, BoolTells
<1> QED BY <1>3, <1>5, OptionalsSame

LEMMA KeyTells ==
  ASSUME NEW k \in PublicKeyType, NEW l \in PublicKeyType, Same(PublicKey(k), PublicKey(l))
  PROVE  k = l
<1>1. /\ Alike(Field(k.x), Field(l.x)) /\ Alike(Bool(k.is_odd), Bool(l.is_odd))
      /\ k.is_odd \in BOOLEAN /\ l.is_odd \in BOOLEAN
  BY FieldAlike, BoolAlike DEF PublicKeyType
<1>2. Same(Field(k.x), Field(l.x)) /\ Same(Bool(k.is_odd), Bool(l.is_odd))
  BY <1>1, PairTells DEF PublicKey
<1>3. k.x = l.x /\ k.is_odd = l.is_odd
  BY <1>1, <1>2, FieldTells, BoolTells
<1> QED BY <1>3 DEF PublicKeyType

LEMMA OptionKeyTells ==
  ASSUME NEW o \in Optional(PublicKeyType), NEW p \in Optional(PublicKeyType),
         Same(OptionKey(o), OptionKey(p))
  PROVE  o = p
<1> DEFINE f == IF o = <<>> THEN EmptyKey ELSE o[1]
           g == IF p = <<>> THEN EmptyKey ELSE p[1]
<1>1. /\ OptionKey(o) = Packed(<<Bool(o # <<>>), PublicKey(f)>>)
      /\ OptionKey(p) = Packed(<<Bool(p # <<>>), PublicKey(g)>>)
  BY DEF OptionKey, Option
<1> HIDE DEF f, g
<1>2. (o # <<>>) = (p # <<>>) /\ Same(PublicKey(f), PublicKey(g))
  BY <1>1, KeyAlike, OptionTells
<1>3. o # <<>> => Same(PublicKey(o[1]), PublicKey(p[1])) /\ o[1] \in PublicKeyType
           /\ p[1] \in PublicKeyType
  BY <1>2, OptionalGiven DEF f, g
<1>4. o # <<>> => o[1] = p[1]
  BY <1>3, KeyTells
<1> QED BY <1>2, <1>4, OptionalsSame

LEMMA OptionRangeTells ==
  ASSUME NEW w \in Nat, w < 255,
         NEW o \in Optional(RangeType(w)), NEW p \in Optional(RangeType(w)),
         Same(OptionRange(o, w), OptionRange(p, w))
  PROVE  o = p
<1> DEFINE e == [lower |-> Zeros(w), upper |-> Ones(w)]
           f == IF o = <<>> THEN e ELSE o[1]
           g == IF p = <<>> THEN e ELSE p[1]
<1>1. /\ OptionRange(o, w) = Packed(<<Bool(o # <<>>), RangeCondition(f)>>)
      /\ OptionRange(p, w) = Packed(<<Bool(p # <<>>), RangeCondition(g)>>)
  BY DEF OptionRange, Option
<1>2. e \in RangeType(w)
  BY EmptyWords DEF RangeType
<1>3. f \in RangeType(w) /\ g \in RangeType(w)
  <2> HIDE DEF e
  <2> QED BY <1>2, OptionalGiven
<1> HIDE DEF f, g
<1>4. Alike(Word(f.lower), Word(g.lower)) /\ Alike(Word(f.upper), Word(g.upper))
  BY <1>3, MachineAlike DEF RangeType
<1>5. Alike(RangeCondition(f), RangeCondition(g))
  BY <1>4, PairAlike DEF RangeCondition
<1>6. (o # <<>>) = (p # <<>>) /\ Same(RangeCondition(f), RangeCondition(g))
  BY <1>1, <1>5, OptionTells
<1>7. Same(Word(f.lower), Word(g.lower)) /\ Same(Word(f.upper), Word(g.upper))
  BY <1>4, <1>6, PairTells DEF RangeCondition
<1>8. f.lower = g.lower /\ f.upper = g.upper
  BY <1>7, WordTells
<1>9. f = g
  BY <1>3, <1>8 DEF RangeType
<1> QED BY <1>6, <1>9, OptionalsSame DEF f, g

LEMMA AppStateTells ==
  ASSUME NEW s \in StateType, NEW t \in StateType, Same(AppState(s), AppState(t))
  PROVE  s = t
<1> DEFINE n == APP_STATE_LENGTH
           a == [i \in 1..n |-> OptionField(s[i])]
           b == [i \in 1..n |-> OptionField(t[i])]
<1>1. n \in Nat
  BY FormatAssumption
<1> HIDE DEF n
<1>2. /\ DOMAIN a = 1..n /\ DOMAIN b = 1..n /\ \A i \in 1..n : Alike(a[i], b[i])
      /\ \A i \in 1..n : a[i] = OptionField(s[i]) /\ b[i] = OptionField(t[i])
  BY OptionFieldAlike
<1>3. Same(Packed(a), Packed(b))
  BY DEF AppState, n
<1> HIDE DEF a, b
<1>4. \A i \in 1..n : Same(a[i], b[i])
  BY <1>1, <1>2, <1>3, PackedTells
<1>5. s \in [1..n -> Optional(Fp)] /\ t \in [1..n -> Optional(Fp)]
  BY DEF StateType, n
<1>6. \A i \in 1..n : s[i] = t[i]
  BY <1>2, <1>4, <1>5, OptionFieldTells
<1>7. s = [i \in 1..n |-> s[i]] /\ t = [i \in 1..n |-> t[i]]
  BY <1>5
<1> QED BY <1>6, <1>7

LEMMA AuthTells ==
  ASSUME NEW x \in AuthRequired, NEW y \in AuthRequired, Same(Auth(x), Auth(y))
  PROVE  x = y
<1> DEFINE a == <<Bool(encode(x).constant), Bool(encode(x).signature_necessary),
                  Bool(encode(x).signature_sufficient)>>
           b == <<Bool(encode(y).constant), Bool(encode(y).signature_necessary),
                  Bool(encode(y).signature_sufficient)>>
<1>1. /\ DOMAIN a = 1..3 /\ DOMAIN b = 1..3 /\ Same(Packed(a), Packed(b))
      /\ a[1] = Bool(encode(x).constant) /\ b[1] = Bool(encode(y).constant)
      /\ a[2] = Bool(encode(x).signature_necessary) /\ b[2] = Bool(encode(y).signature_necessary)
      /\ a[3] = Bool(encode(x).signature_sufficient) /\ b[3] = Bool(encode(y).signature_sufficient)
  BY DEF Auth
<1> HIDE DEF a, b
<1>2. \A i \in 1..3 : i = 1 \/ i = 2 \/ i = 3
  OBVIOUS
<1>3. \A i \in 1..3 : Alike(a[i], b[i])
  BY <1>1, <1>2, BoolAlike
<1>4. \A i \in 1..3 : Same(a[i], b[i])
  BY <1>1, <1>3, PackedTells
<1>5. Same(a[1], b[1]) /\ Same(a[2], b[2]) /\ Same(a[3], b[3])
  <2>1. 1 \in 1..3 /\ 2 \in 1..3 /\ 3 \in 1..3
    OBVIOUS
  <2> QED BY <1>4, <2>1
<1>6. \A z : /\ encode(z).constant \in BOOLEAN /\ encode(z).signature_necessary \in BOOLEAN
             /\ encode(z).signature_sufficient \in BOOLEAN
  BY DEF encode
<1>7. /\ encode(x).constant = encode(y).constant
      /\ encode(x).signature_necessary = encode(y).signature_necessary
      /\ encode(x).signature_sufficient = encode(y).signature_sufficient
  BY <1>1, <1>5, <1>6, BoolTells
<1>8. \A z : /\ encode(z).constant <=> z \in {"None", "Impossible"}
             /\ encode(z).signature_necessary <=> z \in {"Signature", "Impossible", "Both"}
             /\ encode(z).signature_sufficient <=> z \in {"None", "Either", "Signature"}
  BY DEF encode
<1>9. /\ x \in {"None", "Impossible"} <=> y \in {"None", "Impossible"}
      /\ x \in {"Signature", "Impossible", "Both"} <=> y \in {"Signature", "Impossible", "Both"}
      /\ x \in {"None", "Either", "Signature"} <=> y \in {"None", "Either", "Signature"}
  BY <1>7, <1>8
<1> QED BY <1>9 DEF AuthRequired

LEMMA PermissionsTell ==
  ASSUME NEW p \in PermissionsType, NEW q \in PermissionsType,
         Same(Permissions(p), Permissions(q))
  PROVE  p = q
<1> DEFINE n == Len(PermissionOrder)
           member(r, i) == IF PermissionOrder[i] = "set_verification_key"
                           THEN SetVerificationKey(r.set_verification_key)
                           ELSE Auth(r[PermissionOrder[i]])
           a == [i \in 1..n |-> member(p, i)]
           b == [i \in 1..n |-> member(q, i)]
           v == p.set_verification_key
           w == q.set_verification_key
<1>1. n = 13 /\ DOMAIN PermissionOrder = 1..n
  BY DEF PermissionOrder
<1>2. Permissions(p) = Packed(a) /\ Permissions(q) = Packed(b)
  BY <1>1 DEF Permissions
<1>3. /\ v \in [auth : AuthRequired, txn_version : Machine(32)]
      /\ w \in [auth : AuthRequired, txn_version : Machine(32)]
  BY DEF PermissionsType
<1>4. Alike(Auth(v.auth), Auth(w.auth)) /\ Alike(Word(v.txn_version), Word(w.txn_version))
  <2> HIDE DEF v, w
  <2> QED BY <1>3, MachineAlike, AuthAlike
<1>5. Alike(SetVerificationKey(v), SetVerificationKey(w))
  <2> HIDE DEF v, w
  <2> QED BY <1>4, PairAlike DEF SetVerificationKey
<1> HIDE DEF n
<1>6. DOMAIN a = 1..n /\ DOMAIN b = 1..n /\ \A i \in 1..n : Alike(a[i], b[i])
  BY <1>5, AuthAlike
<1>7. \A i \in 1..n : a[i] = member(p, i) /\ b[i] = member(q, i)
  OBVIOUS
<1> HIDE DEF a, b
<1>8. \A i \in 1..n : Same(a[i], b[i])
  BY <1>1, <1>2, <1>6, PackedTells
<1>9. \A i \in 1..13 : Same(member(p, i), member(q, i))
  BY <1>1, <1>7, <1>8
<1>10. v = w
  <2>1. Same(SetVerificationKey(v), SetVerificationKey(w))
    <3>1. 7 \in 1..13 /\ PermissionOrder[7] = "set_verification_key"
      BY DEF PermissionOrder
    <3> QED BY <1>9, <3>1
  <2> HIDE DEF v, w
  <2>2. Same(Auth(v.auth), Auth(w.auth)) /\ Same(Word(v.txn_version), Word(w.txn_version))
    BY <1>4, <2>1, PairTells DEF SetVerificationKey
  <2>3. v.auth = w.auth /\ v.txn_version = w.txn_version
    BY <1>3, <2>2, AuthTells, WordTells
  <2> QED BY <1>3, <2>3
<1> DEFINE M == {"edit_state", "access", "send", "receive", "set_delegate", "set_permissions",
                 "set_zkapp_uri", "edit_action_state", "set_token_symbol", "increment_nonce",
                 "set_voting_for", "set_timing"}
<1>11. ASSUME NEW m \in M PROVE p[m] = q[m]
  <2>1. \E i \in 1..13 : PermissionOrder[i] = m
    <3>1. /\ {1, 2, 3, 4, 5, 6, 8, 9, 10, 11, 12, 13} \subseteq 1..13
          /\ PermissionOrder[1] = "edit_state" /\ PermissionOrder[2] = "access"
          /\ PermissionOrder[3] = "send" /\ PermissionOrder[4] = "receive"
          /\ PermissionOrder[5] = "set_delegate" /\ PermissionOrder[6] = "set_permissions"
          /\ PermissionOrder[8] = "set_zkapp_uri" /\ PermissionOrder[9] = "edit_action_state"
          /\ PermissionOrder[10] = "set_token_symbol" /\ PermissionOrder[11] = "increment_nonce"
          /\ PermissionOrder[12] = "set_voting_for" /\ PermissionOrder[13] = "set_timing"
      BY DEF PermissionOrder
    <3> QED BY <3>1
  <2>2. PICK i \in 1..13 : PermissionOrder[i] = m
    BY <2>1
  <2>3. m # "set_verification_key"
    OBVIOUS
  <2>4. Same(Auth(p[m]), Auth(q[m]))
    BY <1>9, <2>2, <2>3
  <2>5. p[m] \in AuthRequired /\ q[m] \in AuthRequired
    BY DEF PermissionsType
  <2> QED BY <2>4, <2>5, AuthTells
<1>12. DOMAIN p = M \cup {"set_verification_key"} /\ DOMAIN q = M \cup {"set_verification_key"}
  BY DEF PermissionsType
<1>13. p = [m \in DOMAIN p |-> p[m]] /\ q = [m \in DOMAIN q |-> q[m]]
  BY DEF PermissionsType
<1>14. p["set_verification_key"] = q["set_verification_key"]
  BY <1>10
<1> HIDE DEF M
<1> QED BY <1>11, <1>12, <1>13, <1>14

LEMMA TimingTells ==
  ASSUME NEW p \in TimingType, NEW q \in TimingType, Same(TimingData(p), TimingData(q))
  PROVE  p = q
<1> DEFINE a == <<Word(p.initial_minimum_balance), Word(p.cliff_time),
                  Word(p.cliff_amount), Word(p.vesting_period),
                  Word(p.vesting_increment)>>
           b == <<Word(q.initial_minimum_balance), Word(q.cliff_time),
                  Word(q.cliff_amount), Word(q.vesting_period),
                  Word(q.vesting_increment)>>
<1>1. DOMAIN a = 1..5 /\ DOMAIN b = 1..5 /\ Same(Packed(a), Packed(b))
  BY DEF TimingData
<1>2. /\ Alike(a[1], b[1]) /\ Alike(a[2], b[2]) /\ Alike(a[3], b[3]) /\ Alike(a[4], b[4])
      /\ Alike(a[5], b[5])
  BY MachineAlike DEF TimingType
<1>3. /\ a[1] = Word(p.initial_minimum_balance) /\ b[1] = Word(q.initial_minimum_balance)
      /\ a[2] = Word(p.cliff_time) /\ b[2] = Word(q.cliff_time)
      /\ a[3] = Word(p.cliff_amount) /\ b[3] = Word(q.cliff_amount)
      /\ a[4] = Word(p.vesting_period) /\ b[4] = Word(q.vesting_period)
      /\ a[5] = Word(p.vesting_increment) /\ b[5] = Word(q.vesting_increment)
  OBVIOUS
<1> HIDE DEF a, b
<1>4. \A i \in 1..5 : i = 1 \/ i = 2 \/ i = 3 \/ i = 4 \/ i = 5
  OBVIOUS
<1>5. \A i \in 1..5 : Alike(a[i], b[i])
  BY <1>2, <1>4
<1>6. \A i \in 1..5 : Same(a[i], b[i])
  BY <1>1, <1>5, PackedTells
<1>7. {1, 2, 3, 4, 5} \subseteq 1..5
  OBVIOUS
<1>8. /\ p.initial_minimum_balance = q.initial_minimum_balance /\ p.cliff_time = q.cliff_time
      /\ p.cliff_amount = q.cliff_amount /\ p.vesting_period = q.vesting_period
      /\ p.vesting_increment = q.vesting_increment
  BY <1>3, <1>6, <1>7, WordTells
<1> QED BY <1>8 DEF TimingType

\* A byte is known from its bits.
LEMMA BitsTell ==
  ASSUME NEW v \in Byte, NEW w \in Byte, Bits(v, 8) = Bits(w, 8) PROVE v = w
<1> DEFINE sum(b1, b2, b3, b4, b5, b6, b7, b8) ==
             128 * b1 + (64 * b2 + (32 * b3 + (16 * b4 + (8 * b5 + (4 * b6 + (2 * b7 + b8))))))
<1>1. ASSUME NEW u \in Byte
      PROVE  /\ Bits(u, 8)[1] = (u \div 128) % 2 /\ Bits(u, 8)[2] = (u \div 64) % 2
             /\ Bits(u, 8)[3] = (u \div 32) % 2 /\ Bits(u, 8)[4] = (u \div 16) % 2
             /\ Bits(u, 8)[5] = (u \div 8) % 2 /\ Bits(u, 8)[6] = (u \div 4) % 2
             /\ Bits(u, 8)[7] = (u \div 2) % 2 /\ Bits(u, 8)[8] = u % 2
  <2>1. \A j \in 1..8 : Bits(u, 8)[j] = (u \div 2^(8 - j)) % 2
    BY DEF Bits
  <2>2. /\ 2^(8 - 1) = 128 /\ 2^(8 - 2) = 64 /\ 2^(8 - 3) = 32 /\ 2^(8 - 4) = 16
        /\ 2^(8 - 5) = 8 /\ 2^(8 - 6) = 4 /\ 2^(8 - 7) = 2 /\ 2^(8 - 8) = 1
    <3>1. /\ 8 - 1 = 7 /\ 8 - 2 = 6 /\ 8 - 3 = 5 /\ 8 - 4 = 4 /\ 8 - 5 = 3 /\ 8 - 6 = 2
          /\ 8 - 7 = 1 /\ 8 - 8 = 0
      OBVIOUS
    <3>2. /\ 2^0 = 1 /\ 2^1 = 2 /\ 2^2 = 4 /\ 2^3 = 8 /\ 2^4 = 16 /\ 2^5 = 32 /\ 2^6 = 64
          /\ 2^7 = 128
      OBVIOUS
    <3> QED BY <3>1, <3>2
  <2>3. {1, 2, 3, 4, 5, 6, 7, 8} \subseteq 1..8
    OBVIOUS
  <2>4. u \div 1 = u
    BY DEF Byte
  <2> QED BY <2>1, <2>2, <2>3, <2>4
<1>2. ASSUME NEW u \in Byte
      PROVE  u = sum((u \div 128) % 2, (u \div 64) % 2, (u \div 32) % 2, (u \div 16) % 2,
                     (u \div 8) % 2, (u \div 4) % 2, (u \div 2) % 2, u % 2)
  <2>1. u \in 0..255
    BY DEF Byte
  <2>2. /\ u \div 4 = (u \div 2) \div 2 /\ u \div 8 = (u \div 4) \div 2
        /\ u \div 16 = (u \div 8) \div 2 /\ u \div 32 = (u \div 16) \div 2
        /\ u \div 64 = (u \div 32) \div 2 /\ u \div 128 = (u \div 64) \div 2
    BY <2>1
  <2>3. (u \div 128) \div 2 = 0
    BY <2>1
  <2>4. \A x \in Int : x = 2 * (x \div 2) + (x % 2) /\ x \div 2 \in Int /\ x % 2 \in Int
    OBVIOUS
  <2> DEFINE d1 == u \div 2
             d2 == u \div 4
             d3 == u \div 8
             d4 == u \div 16
             d5 == u \div 32
             d6 == u \div 64
             d7 == u \div 128
  <2>5. /\ u \in Int /\ d1 \in Int /\ d2 \in Int /\ d3 \in Int /\ d4 \in Int /\ d5 \in Int
        /\ d6 \in Int /\ d7 \in Int
    BY <2>1
  <2>6. /\ u = 2 * d1 + (u % 2) /\ d1 = 2 * d2 + (d1 % 2) /\ d2 = 2 * d3 + (d2 % 2)
        /\ d3 = 2 * d4 + (d3 % 2) /\ d4 = 2 * d5 + (d4 % 2) /\ d5 = 2 * d6 + (d5 % 2)
        /\ d6 = 2 * d7 + (d6 % 2) /\ d7 = d7 % 2
    BY <2>2, <2>3, <2>4, <2>5
  <2> HIDE DEF d1, d2, d3, d4, d5, d6, d7
  <2>7. u = 128 * (d7 % 2) + (64 * (d6 % 2) + (32 * (d5 % 2) + (16 * (d4 % 2)
              + (8 * (d3 % 2) + (4 * (d2 % 2) + (2 * (d1 % 2) + (u % 2)))))))
    <3>1. /\ u % 2 \in Int /\ d1 % 2 \in Int /\ d2 % 2 \in Int /\ d3 % 2 \in Int
          /\ d4 % 2 \in Int /\ d5 % 2 \in Int /\ d6 % 2 \in Int /\ d7 % 2 \in Int
      BY <2>4, <2>5
    <3> QED BY <2>5, <2>6, <3>1
  <2> QED BY <2>7 DEF d1, d2, d3, d4, d5, d6, d7
<1>3. /\ (v \div 128) % 2 = (w \div 128) % 2 /\ (v \div 64) % 2 = (w \div 64) % 2
      /\ (v \div 32) % 2 = (w \div 32) % 2 /\ (v \div 16) % 2 = (w \div 16) % 2
      /\ (v \div 8) % 2 = (w \div 8) % 2 /\ (v \div 4) % 2 = (w \div 4) % 2
      /\ (v \div 2) % 2 = (w \div 2) % 2 /\ v % 2 = w % 2
  BY <1>1
<1> HIDE DEF sum
<1>4. /\ v = sum((v \div 128) % 2, (v \div 64) % 2, (v \div 32) % 2, (v \div 16) % 2,
              (v \div 8) % 2, (v \div 4) % 2, (v \div 2) % 2, v % 2)
      /\ w = sum((w \div 128) % 2, (w \div 64) % 2, (w \div 32) % 2, (w \div 16) % 2,
              (w \div 8) % 2, (w \div 4) % 2, (w \div 2) % 2, w % 2)
  BY <1>2
<1> QED BY <1>3, <1>4, Zenon

\* The six bytes of a symbol are known from what is packed.
LEMMA SymbolTells ==
  ASSUME NEW p \in {s \in Seq(Byte) : Len(s) <= 6}, NEW q \in {s \in Seq(Byte) : Len(s) <= 6},
         Same(TokenSymbol(p), TokenSymbol(q))
  PROVE  SixBytes(p) = SixBytes(q)
<1> DEFINE a == SymbolWords(p)
           b == SymbolWords(q)
<1>1. /\ a \in Seq(Seq(Bit)) /\ b \in Seq(Seq(Bit)) /\ Len(a) = 6 /\ Len(b) = 6
      /\ \A i \in 1..6 : Len(a[i]) = 8 /\ Len(b[i]) = 8
      /\ TokenSymbol(p) = Word(FlattenSeq(a)) /\ TokenSymbol(q) = Word(FlattenSeq(b))
  BY SymbolIs
<1>2. \A i \in 1..6 : a[i] = Bits(SixBytes(p)[7 - i], 8) /\ b[i] = Bits(SixBytes(q)[7 - i], 8)
  BY DEF SymbolWords
<1> HIDE DEF a, b
<1>3. FlattenSeq(a) = FlattenSeq(b)
  BY <1>1, WordTells
<1>4. \A i \in 1..6 : a[i] = b[i]
  <2>1. Len(a) = Len(b) /\ \A i \in 1..Len(a) : Len(a[i]) = Len(b[i])
    BY <1>1
  <2>2. \A i \in 1..Len(a) : a[i] = b[i]
    BY <1>1, <1>3, <2>1, FlattenTells, ZenonT(30)
  <2> QED BY <1>1, <2>2
<1>5. ASSUME NEW j \in 1..6 PROVE SixBytes(p)[j] = SixBytes(q)[j]
  <2>1. 7 - j \in 1..6 /\ 7 - (7 - j) = j
    OBVIOUS
  <2>2. Bits(SixBytes(p)[j], 8) = Bits(SixBytes(q)[j], 8)
    BY <1>2, <1>4, <2>1
  <2>3. \A s \in {t \in Seq(Byte) : Len(t) <= 6} : SixBytes(s)[j] \in Byte
    <3>1. 0 \in Byte
      BY DEF Byte
    <3>2. ASSUME NEW s \in Seq(Byte), j <= Len(s) PROVE s[j] \in Byte
      BY <3>2, ElementOfSeq, LenProperties
    <3> QED BY <3>1, <3>2 DEF SixBytes
  <2> QED BY <2>2, <2>3, BitsTell
<1> QED BY <1>5 DEF SixBytes

\* Bits that fit in an element are known from the number they make.
LEMMA NumberTells ==
  ASSUME NEW raw \in Seq(Bit), NEW bits \in Seq(Bit), Len(raw) = Len(bits), Len(raw) < 255,
         Number(raw) = Number(bits)
  PROVE  raw = bits
<1>1. /\ \A k \in 1..Len(raw) : Digit(Number(raw).number, Len(raw) + 1 - k) = raw[k]
      /\ \A k \in 1..Len(bits) : Digit(Number(bits).number, Len(bits) + 1 - k) = bits[k]
  BY NumberKeepsBits
<1>2. \A k \in 1..Len(raw) : raw[k] = bits[k]
  BY <1>1
<1> QED BY <1>2, SeqEqual

\* What is as long is known from what it is filled up to.
LEMMA EvenTells ==
  ASSUME NEW S, NEW d \in Seq(S), NEW T, NEW e \in Seq(T), Len(d) = Len(e),
         Even(d) = Even(e)
  PROVE  d = e
<1>1. CASE Len(d) % 2 = 0
  BY <1>1 DEF Even
<1>2. CASE Len(d) % 2 # 0
  <2>1. Append(d, Zero) = Append(e, Zero)
    BY <1>2 DEF Even
  <2>2. \A i \in 1..Len(d) : Append(d, Zero)[i] = d[i] /\ Append(e, Zero)[i] = e[i]
    OBVIOUS
  <2> QED BY <2>1, <2>2, SeqsSame
<1> QED BY <1>1, <1>2

(* A list of events from its end: c[s] is the hash of those numbered in s. *)
Link(prefix, acc, event) ==
  hash_with_prefix(prefix, <<acc, hash_with_prefix("MinaZkappEvent", event)>>)
ListStep(events, empty, prefix, c, s) ==
  IF s = {} THEN hash_noinput(empty) ELSE Link(prefix, c[s \ {Min(s)}], events[Min(s)])
IsList(events, empty, prefix, c) ==
  c = [s \in SUBSET DOMAIN events |-> ListStep(events, empty, prefix, c, s)]

\* There is such a function, by recursion over the sets of places.
LEMMA ListExists ==
  ASSUME NEW X, NEW events \in Seq(X), NEW empty, NEW prefix
  PROVE  \E c : IsList(events, empty, prefix, c)
<1> DEFINE S == DOMAIN events
           Small(n) == {s \in SUBSET S : Cardinality(s) <= n}
           T == {n \in Nat : \E c : c = [s \in Small(n) |-> ListStep(events, empty, prefix, c, s)]}
<1>1. /\ \A s \in SUBSET S : IsFiniteSet(s) /\ Cardinality(s) \in Nat
              /\ Cardinality(s) <= Cardinality(S)
      /\ S \subseteq Nat
  <2>1. S = 1..Len(events) /\ Len(events) \in Nat
    BY LenProperties
  <2>2. IsFiniteSet(1..Len(events)) /\ 1..Len(events) \subseteq Nat
    BY <2>1, FS_Interval
  <2> HIDE DEF S
  <2> QED BY <2>1, <2>2, FS_Subset, FS_CardinalityType
<1> HIDE DEF S
<1>2. 0 \in T
  <2> DEFINE c == [s \in Small(0) |-> hash_noinput(empty)]
  <2>1. \A s \in Small(0) : s = {}
    BY <1>1, FS_EmptySet
  <2>2. c = [s \in Small(0) |-> ListStep(events, empty, prefix, c, s)]
    <3> HIDE DEF Small
    <3> QED BY <2>1 DEF ListStep
  <2> QED BY <2>2
<1>3. ASSUME NEW n \in Nat, n \in T PROVE n + 1 \in T
  <2>1. PICK c : c = [s \in Small(n) |-> ListStep(events, empty, prefix, c, s)]
    BY <1>3
  <2> DEFINE g == [s \in Small(n + 1) |-> ListStep(events, empty, prefix, c, s)]
  <2>2. ASSUME NEW s \in Small(n + 1), s # {} PROVE s \ {Min(s)} \in Small(n)
    <3>1. Min(s) \in s
      <4>1. s \in SUBSET Nat
        BY <1>1
      <4> QED BY <2>2, <4>1, LeastIs
    <3>2. Cardinality(s \ {Min(s)}) = Cardinality(s) - 1
      BY <1>1, <3>1, FS_RemoveElement
    <3>3. s \ {Min(s)} \in SUBSET S /\ Cardinality(s) <= n + 1 /\ Cardinality(s) \in Nat
      BY <1>1
    <3>4. Cardinality(s) - 1 <= n
      BY <3>3
    <3> QED BY <3>2, <3>3, <3>4
  <2>3. Small(n) \subseteq Small(n + 1)
    BY <1>1
  <2> HIDE DEF Small
  <2>4. \A s \in Small(n) : g[s] = c[s]
    BY <2>1, <2>3
  <2>5. ASSUME NEW s \in Small(n + 1)
        PROVE  ListStep(events, empty, prefix, c, s) = ListStep(events, empty, prefix, g, s)
    BY <2>2, <2>4 DEF ListStep
  <2>6. g = [s \in Small(n + 1) |-> ListStep(events, empty, prefix, g, s)]
    <3> DEFINE k == g
    <3>1. k = [s \in Small(n + 1) |-> ListStep(events, empty, prefix, c, s)]
      OBVIOUS
    <3>2. \A s \in Small(n + 1) : ListStep(events, empty, prefix, c, s)
               = ListStep(events, empty, prefix, k, s)
      BY <2>5
    <3> HIDE DEF k
    <3>3. k = [s \in Small(n + 1) |-> ListStep(events, empty, prefix, k, s)]
      BY <3>1, <3>2
    <3> QED BY <3>3 DEF k
  <2> HIDE DEF g
  <2>7. \E k : k = [s \in Small(n + 1) |-> ListStep(events, empty, prefix, k, s)]
    BY <2>6
  <2> QED BY <2>7
<1>4. Nat \subseteq T
  <2> HIDE DEF T
  <2> QED BY <1>2, <1>3, InductionOverSet
<1>5. Cardinality(S) \in T
  <2>1. S \in SUBSET S
    OBVIOUS
  <2>2. Cardinality(S) \in Nat
    BY <1>1, <2>1
  <2> HIDE DEF T
  <2> QED BY <1>4, <2>2
<1>6. Small(Cardinality(S)) = SUBSET S
  BY <1>1
<1> QED BY <1>5, <1>6 DEF IsList, S

\* It gives what folding the events gives.
LEMMA ListIsFold ==
  ASSUME NEW X, NEW events \in Seq(X), NEW empty, NEW prefix
  PROVE  \E c : /\ IsList(events, empty, prefix, c)
                /\ EventList(events, empty, prefix) = Field(c[DOMAIN events])
<1> DEFINE c == CHOOSE c : IsList(events, empty, prefix, c)
<1>1. IsList(events, empty, prefix, c)
  BY ListExists
<1>2. EventList(events, empty, prefix) = Field(c[DOMAIN events])
  BY ZenonT(30) DEF EventList, FoldRight, MapThenFoldSet, IsList, ListStep, Link
<1> HIDE DEF c
<1> QED BY <1>1, <1>2

\* link[i] is the hash of what is behind the event i.
LEMMA ListLinks ==
  ASSUME NEW X, NEW events \in Seq(X), NEW empty, NEW prefix
  PROVE  \E link : /\ EventList(events, empty, prefix) = Field(link[0])
                   /\ link[Len(events)] = hash_noinput(empty)
                   /\ \A i \in 1..Len(events) : link[i - 1] = Link(prefix, link[i], events[i])
<1> DEFINE n == Len(events)
<1>1. n \in Nat /\ DOMAIN events = 1..n
  BY LenProperties
<1>2. PICK c : /\ IsList(events, empty, prefix, c)
               /\ EventList(events, empty, prefix) = Field(c[DOMAIN events])
  BY ListIsFold
<1> HIDE DEF n
<1> DEFINE link == [i \in 0..n |-> c[(i + 1)..n]]
<1>3. \A s \in SUBSET (1..n) : c[s] = ListStep(events, empty, prefix, c, s)
  BY <1>1, <1>2 DEF IsList
<1>4. link[0] = c[1..n] /\ link[n] = c[{}]
  <2>1. 0 + 1 = 1 /\ 0 \in 0..n /\ n \in 0..n /\ (n + 1)..n = {}
    BY <1>1
  <2> QED BY <2>1
<1>5. link[n] = hash_noinput(empty)
  <2>1. c[{}] = ListStep(events, empty, prefix, c, {})
    BY <1>3
  <2>2. c[{}] = hash_noinput(empty)
    BY <2>1 DEF ListStep
  <2> HIDE DEF link
  <2> QED BY <1>4, <2>2
<1>6. ASSUME NEW i \in 1..n PROVE link[i - 1] = Link(prefix, link[i], events[i])
  <2>1. i \in Nat /\ i <= n /\ i >= 1 /\ i - 1 \in 0..n /\ i \in 0..n /\ (i - 1) + 1 = i
    BY <1>1
  <2>2. link[i - 1] = c[i..n] /\ link[i] = c[(i + 1)..n]
    BY <2>1
  <2> HIDE DEF link
  <2>3. i..n \in SUBSET (1..n) /\ i..n # {} /\ i..n \in SUBSET Nat
    <3>1. i \in i..n /\ \A j \in i..n : j \in 1..n /\ j \in Nat
      BY <1>1, <2>1
    <3> QED BY <3>1
  <2>4. Min(i..n) = i
    <3>1. Min(i..n) \in i..n /\ \A j \in i..n : Min(i..n) <= j
      BY <2>3, LeastIs
    <3>2. i \in i..n
      BY <1>1, <2>1
    <3>3. Min(i..n) <= i /\ Min(i..n) >= i /\ Min(i..n) \in Int
      BY <3>1, <3>2
    <3> QED BY <2>1, <3>3
  <2>5. (i..n) \ {i} = (i + 1)..n
    <3>1. \A j : j \in (i..n) \ {i} <=> j \in (i + 1)..n
      BY <1>1, <2>1
    <3> QED BY <3>1
  <2>6. c[i..n] = Link(prefix, c[(i..n) \ {i}], events[i])
    <3>1. c[i..n] = ListStep(events, empty, prefix, c, i..n)
      BY <1>3, <2>3
    <3> QED BY <2>3, <2>4, <3>1 DEF ListStep
  <2> QED BY <2>2, <2>5, <2>6
<1> HIDE DEF link
<1>7. EventList(events, empty, prefix) = Field(link[0])
  <2>1. DOMAIN events = 1..n
    BY <1>1
  <2>2. c[DOMAIN events] = link[0]
    BY <1>4, <2>1, Zenon
  <2> QED BY <1>2, <2>2, Zenon
<1> QED BY <1>5, <1>6, <1>7 DEF n

\* A list is known from its hash: how many events there are, and each filled up.
LEMMA ListTells ==
  ASSUME NEW S, NEW a \in Seq(Seq(S)), NEW b \in Seq(Seq(S)), NEW empty, NEW prefix,
         Same(EventList(a, empty, prefix), EventList(b, empty, prefix))
  PROVE  EvenLists(a) = EvenLists(b)
<1> DEFINE m == Len(a)
           n == Len(b)
           X == Seq(S)
<1>1. /\ m \in Nat /\ n \in Nat
      /\ \A i \in 1..m : a[i] \in Seq(S)
      /\ \A i \in 1..n : b[i] \in Seq(S)
  BY ElementOfSeq, LenProperties
<1>14. a \in Seq(X) /\ b \in Seq(X)
  OBVIOUS
<1> HIDE DEF X
<1>2. PICK f : /\ EventList(a, empty, prefix) = Field(f[0])
               /\ f[m] = hash_noinput(empty)
               /\ \A i \in 1..m : f[i - 1] = Link(prefix, f[i], a[i])
  BY <1>14, ListLinks
<1>3. PICK g : /\ EventList(b, empty, prefix) = Field(g[0])
               /\ g[n] = hash_noinput(empty)
               /\ \A i \in 1..n : g[i - 1] = Link(prefix, g[i], b[i])
  BY <1>14, ListLinks
<1> HIDE DEF m, n
<1>4. f[0] = g[0]
  <2>1. Same(Field(f[0]), Field(g[0]))
    BY <1>2, <1>3
  <2> QED BY <2>1, FieldTells
<1>5. ASSUME NEW x, NEW y, NEW d, NEW e, Link(prefix, x, d) = Link(prefix, y, e)
      PROVE  x = y /\ hash_with_prefix("MinaZkappEvent", d) = hash_with_prefix("MinaZkappEvent", e)
  <2> DEFINE h(z) == hash_with_prefix("MinaZkappEvent", z)
  <2>1. Even(<<x, h(d)>>) = <<x, h(d)>> /\ Even(<<y, h(e)>>) = <<y, h(e)>>
    BY DEF Even
  <2>2. <<x, h(d)>> = <<y, h(e)>>
    <3> HIDE DEF h
    <3>1. hash_with_prefix(prefix, <<x, h(d)>>) = hash_with_prefix(prefix, <<y, h(e)>>)
      BY <1>5 DEF Link, h
    <3> QED BY <2>1, <3>1 DEF hash_with_prefix
  <2> HIDE DEF h
  <2>3. x = y /\ h(d) = h(e)
    BY <2>2
  <2> QED BY <2>3 DEF h
<1>6. ASSUME NEW x, NEW d PROVE Link(prefix, x, d) # hash_noinput(empty)
  <2>1. "data" \in DOMAIN Link(prefix, x, d) /\ "data" \notin DOMAIN hash_noinput(empty)
    BY DEF Link, hash_with_prefix, hash_noinput
  <2> QED BY <2>1
<1> DEFINE T == {k \in Nat : k <= m /\ k <= n => f[k] = g[k] /\ \A i \in 1..k : Even(a[i]) = Even(b[i])}
<1>7. 0 \in T
  BY <1>4
<1>8. ASSUME NEW k \in Nat, k \in T, k + 1 <= m, k + 1 <= n
      PROVE  f[k + 1] = g[k + 1] /\ \A i \in 1..(k + 1) : Even(a[i]) = Even(b[i])
  <2>1. f[k] = g[k] /\ \A i \in 1..k : Even(a[i]) = Even(b[i])
    <3>1. k <= m /\ k <= n
      BY <1>1, <1>8
    <3> QED BY <1>8, <3>1
  <2>2. k + 1 \in 1..m /\ k + 1 \in 1..n /\ (k + 1) - 1 = k
    BY <1>1, <1>8
  <2>3. Link(prefix, f[k + 1], a[k + 1]) = Link(prefix, g[k + 1], b[k + 1])
    BY <1>2, <1>3, <2>1, <2>2
  <2>4. /\ f[k + 1] = g[k + 1]
        /\ hash_with_prefix("MinaZkappEvent", a[k + 1]) = hash_with_prefix("MinaZkappEvent", b[k + 1])
    BY <1>5, <2>3
  <2>5. Even(a[k + 1]) = Even(b[k + 1])
    BY <2>4 DEF hash_with_prefix
  <2>6. \A i \in 1..(k + 1) : i \in 1..k \/ i = k + 1
    OBVIOUS
  <2> QED BY <2>1, <2>4, <2>5, <2>6
<1>9. Nat \subseteq T
  <2>1. \A k \in Nat : k \in T => k + 1 \in T
    <3>1. ASSUME NEW k \in Nat, k \in T
          PROVE  k + 1 <= m /\ k + 1 <= n
                   => f[k + 1] = g[k + 1] /\ \A i \in 1..(k + 1) : Even(a[i]) = Even(b[i])
      <4> HIDE DEF T
      <4> QED BY <1>8, <3>1
    <3> QED BY <3>1
  <2> HIDE DEF T
  <2> QED BY <1>7, <2>1, InductionOverSet
<1> DEFINE both(k) == f[k] = g[k] /\ \A i \in 1..k : Even(a[i]) = Even(b[i])
<1>13. ASSUME NEW k \in Nat, k <= m, k <= n PROVE both(k)
  <2>1. k \in T
    <3> HIDE DEF T
    <3> QED BY <1>9
  <2> QED BY <1>13, <2>1
<1> HIDE DEF T
<1>10. m = n
  <2>1. CASE m < n
    <3>1. f[m] = g[m]
      BY <1>1, <1>13, <2>1
    <3>2. m + 1 \in 1..n /\ (m + 1) - 1 = m
      BY <1>1, <2>1
    <3>3. g[m] = Link(prefix, g[m + 1], b[m + 1])
      BY <1>3, <3>2
    <3> QED BY <1>2, <1>6, <3>1, <3>3
  <2>2. CASE n < m
    <3>1. f[n] = g[n]
      BY <1>1, <1>13, <2>2
    <3>2. n + 1 \in 1..m /\ (n + 1) - 1 = n
      BY <1>1, <2>2
    <3>3. f[n] = Link(prefix, f[n + 1], a[n + 1])
      BY <1>2, <3>2
    <3> QED BY <1>3, <1>6, <3>1, <3>3
  <2> QED BY <1>1, <2>1, <2>2
<1>11. \A i \in 1..m : Even(a[i]) = Even(b[i])
  BY <1>1, <1>13, <1>10
<1>12. DOMAIN a = 1..m /\ DOMAIN b = 1..m
  BY <1>10, LenProperties DEF m, n
<1> QED BY <1>11, <1>12 DEF EvenLists

\* Lists that are filled up alike have one hash.
LEMMA ListsAlike ==
  ASSUME NEW S, NEW a \in Seq(Seq(S)), NEW b \in Seq(Seq(S)), NEW empty, NEW prefix,
         EvenLists(a) = EvenLists(b)
  PROVE  EventList(a, empty, prefix) = EventList(b, empty, prefix)
<1> DEFINE n == Len(a)
           X == Seq(S)
<1>1. n \in Nat /\ Len(b) \in Nat /\ DOMAIN a = 1..n /\ DOMAIN b = 1..Len(b)
  BY LenProperties
<1>2. DOMAIN EvenLists(a) = DOMAIN a /\ DOMAIN EvenLists(b) = DOMAIN b
  BY DEF EvenLists
<1>3. Len(b) = n
  <2>1. 1..n = 1..Len(b)
    BY <1>1, <1>2
  <2>2. ASSUME NEW x \in Nat, NEW y \in Nat, x < y PROVE 1..x # 1..y
    <3>1. y \in 1..y /\ y \notin 1..x
      BY <2>2
    <3> QED BY <3>1
  <2> DEFINE m == Len(b)
  <2> HIDE DEF n, m
  <2>3. n \in Nat /\ m \in Nat /\ 1..n = 1..m
    BY <1>1, <2>1 DEF m
  <2>4. ~(n < m) /\ ~(m < n)
    BY <2>2, <2>3, ZenonT(30)
  <2>5. n = m
    BY <2>3, <2>4
  <2> QED BY <2>5 DEF m
<1>4. \A i \in 1..n : Even(a[i]) = Even(b[i])
  <2>1. \A i \in 1..n : EvenLists(a)[i] = Even(a[i]) /\ EvenLists(b)[i] = Even(b[i])
    BY <1>1, <1>3 DEF EvenLists
  <2> QED BY <2>1
<1>11. a \in Seq(X) /\ b \in Seq(X)
  OBVIOUS
<1> HIDE DEF X
<1>5. PICK f : /\ EventList(a, empty, prefix) = Field(f[0])
               /\ f[n] = hash_noinput(empty)
               /\ \A i \in 1..n : f[i - 1] = Link(prefix, f[i], a[i])
  BY <1>11, ListLinks
<1>6. PICK g : /\ EventList(b, empty, prefix) = Field(g[0])
               /\ g[n] = hash_noinput(empty)
               /\ \A i \in 1..n : g[i - 1] = Link(prefix, g[i], b[i])
  <2>1. \E g : /\ EventList(b, empty, prefix) = Field(g[0])
               /\ g[Len(b)] = hash_noinput(empty)
               /\ \A i \in 1..Len(b) : g[i - 1] = Link(prefix, g[i], b[i])
    BY <1>11, ListLinks
  <2> QED BY <1>3, <2>1
<1> HIDE DEF n
<1> DEFINE T == {k \in Nat : k <= n => f[n - k] = g[n - k]}
<1>7. 0 \in T
  <2>1. n - 0 = n
    BY <1>1
  <2> QED BY <1>5, <1>6, <2>1
<1>8. ASSUME NEW k \in Nat, k \in T, k + 1 <= n PROVE f[n - (k + 1)] = g[n - (k + 1)]
  <2>1. n - k \in 1..n /\ (n - k) - 1 = n - (k + 1) /\ k <= n
    BY <1>1, <1>8
  <2>2. f[n - k] = g[n - k]
    BY <1>8, <2>1
  <2>3. Even(a[n - k]) = Even(b[n - k])
    BY <1>4, <2>1
  <2>4. Link(prefix, f[n - k], a[n - k]) = Link(prefix, g[n - k], b[n - k])
    BY <2>2, <2>3 DEF Link, hash_with_prefix
  <2>5. f[(n - k) - 1] = g[(n - k) - 1]
    BY <1>5, <1>6, <2>1, <2>4
  <2> QED BY <2>1, <2>5
<1>9. Nat \subseteq T
  <2>1. \A k \in Nat : k \in T => k + 1 \in T
    <3>1. ASSUME NEW k \in Nat, k \in T
          PROVE  k + 1 <= n => f[n - (k + 1)] = g[n - (k + 1)]
      <4> HIDE DEF T
      <4> QED BY <1>8, <3>1
    <3> QED BY <3>1
  <2> HIDE DEF T
  <2> QED BY <1>7, <2>1, InductionOverSet
<1>10. f[0] = g[0]
  <2>1. n \in T /\ n <= n /\ n - n = 0
    <3> HIDE DEF T
    <3> QED BY <1>1, <1>9
  <2>2. f[n - n] = g[n - n]
    BY <2>1
  <2> QED BY <2>1, <2>2
<1> QED BY <1>5, <1>6, <1>10

(* The elements a URI is packed into: chunks of 254 of its bits. *)
LEMMA ChunkGrows ==
  ASSUME NEW S, NEW s \in Seq(S), NEW m \in Nat, NEW n \in Nat, 1 <= m, m <= n + 1, n + 1 <= Len(s)
  PROVE  SubSeq(s, m, n) \o <<s[n + 1]>> = SubSeq(s, m, n + 1)
<1> DEFINE a == SubSeq(s, m, n)
           b == SubSeq(s, m, n + 1)
           one == <<s[n + 1]>>
<1>1. Len(s) \in Nat /\ \A i \in 1..Len(s) : s[i] \in S
  BY ElementOfSeq, LenProperties
<1>2. /\ m \in Int /\ n \in Int /\ n + 1 \in Int
      /\ \A i \in m..n : s[i] \in S
      /\ \A i \in m..(n + 1) : s[i] \in S
  BY <1>1
<1>3. /\ a \in Seq(S) /\ Len(a) = IF m <= n THEN n - m + 1 ELSE 0
      /\ \A i \in 1..(n - m + 1) : a[i] = s[m + i - 1]
  BY <1>2, SubSeqProperties
<1>4. /\ b \in Seq(S) /\ Len(b) = IF m <= n + 1 THEN (n + 1) - m + 1 ELSE 0
      /\ \A i \in 1..((n + 1) - m + 1) : b[i] = s[m + i - 1]
  <2> DEFINE k == n + 1
  <2>1. k \in Int /\ \A i \in m..k : s[i] \in S
    BY <1>2
  <2> HIDE DEF k
  <2>2. /\ SubSeq(s, m, k) \in Seq(S) /\ Len(SubSeq(s, m, k)) = IF m <= k THEN k - m + 1 ELSE 0
        /\ \A i \in 1..(k - m + 1) : SubSeq(s, m, k)[i] = s[m + i - 1]
    BY <1>2, <2>1, SubSeqProperties
  <2> QED BY <2>2 DEF k
<1>5. one \in Seq(S) /\ Len(one) = 1 /\ one[1] = s[n + 1]
  BY <1>1
<1> HIDE DEF a, b, one
<1>6. /\ a \o one \in Seq(S) /\ Len(a \o one) = Len(a) + Len(one)
      /\ \A i \in 1..(Len(a) + Len(one)) : (a \o one)[i] = IF i <= Len(a) THEN a[i] ELSE one[i - Len(a)]
  BY <1>3, <1>5, ConcatProperties
<1>7. Len(a) = n - m + 1 /\ Len(b) = n - m + 2 /\ Len(a \o one) = Len(b)
  BY <1>3, <1>4, <1>5, <1>6
<1>8. ASSUME NEW i \in 1..Len(a \o one) PROVE (a \o one)[i] = b[i]
  <2>1. b[i] = s[m + i - 1] /\ (a \o one)[i] = IF i <= Len(a) THEN a[i] ELSE one[i - Len(a)]
    <3>1. i \in 1..((n + 1) - m + 1) /\ i \in 1..(Len(a) + Len(one))
      BY <1>5, <1>7
    <3> QED BY <1>4, <1>6, <3>1
  <2>2. CASE i <= Len(a)
    <3>1. i \in 1..(n - m + 1)
      BY <1>7, <2>2
    <3> QED BY <1>3, <2>1, <2>2, <3>1
  <2>3. CASE ~(i <= Len(a))
    <3>1. i - Len(a) = 1 /\ m + i - 1 = n + 1
      BY <1>7, <2>3
    <3> QED BY <1>5, <2>1, <2>3, <3>1
  <2> QED BY <2>2, <2>3
<1> QED BY <1>4, <1>6, <1>7, <1>8, SeqEqual DEF a, b, one

Whole(bits, c) == Number(SubSeq(bits, 254 * (c - 1) + 1, 254 * c))
Elements(bits) ==
  [c \in 1..((Len(bits) + 253) \div 254) |->
     Number(SubSeq(bits, 254 * (c - 1) + 1, IF 254 * c < Len(bits) THEN 254 * c ELSE Len(bits)))]
\* After i bits there are k whole elements.
Chunks(p, bits, i, k) ==
  /\ 254 * k < i /\ i <= 254 * (k + 1)
  /\ p = [done |-> [c \in 1..k |-> Whole(bits, c)], current |-> SubSeq(bits, 254 * k + 1, i)]

\* The packer makes the next bit part of the chunk, or begins another.
LEMMA NextChunk ==
  ASSUME NEW bits \in Seq(Bit), NEW i \in Nat, i + 1 <= Len(bits), NEW k \in Nat, NEW p,
         Chunks(p, bits, i, k)
  PROVE  \E j \in Nat : Chunks(PackStep(p, <<bits[i + 1]>>), bits, i + 1, j)
<1> DEFINE done == [c \in 1..k |-> Whole(bits, c)]
           current == SubSeq(bits, 254 * k + 1, i)
           next == PackStep(p, <<bits[i + 1]>>)
           m == 254 * k + 1
<1>1. m \in Nat /\ 1 <= m /\ m <= i /\ i <= 254 * k + 254 /\ Len(bits) \in Nat
  BY LenProperties DEF Chunks
<1>2. p = [done |-> done, current |-> current]
  BY DEF Chunks
<1>3. Len(current) = i - m + 1 /\ current \in Seq(Bit)
  <2>1. \A j \in m..i : bits[j] \in Bit
    <3>1. \A j \in 1..Len(bits) : bits[j] \in Bit
      BY ElementOfSeq
    <3> QED BY <1>1, <3>1
  <2> HIDE DEF m
  <2>2. m \in Int /\ i \in Int
    BY <1>1
  <2>3. SubSeq(bits, m, i) \in Seq(Bit) /\ Len(SubSeq(bits, m, i)) = IF m <= i THEN i - m + 1 ELSE 0
    BY <2>1, <2>2, SubSeqProperties
  <2>4. SubSeq(bits, m, i) \in Seq(Bit) /\ Len(SubSeq(bits, m, i)) = i - m + 1
    BY <1>1, <2>3
  <2>5. current = SubSeq(bits, m, i)
    BY DEF m
  <2> QED BY <2>4, <2>5
<1>4. Len(<<bits[i + 1]>>) = 1
  OBVIOUS
<1>5. p.done = done /\ p.current = current
  BY <1>2
<1>6. CASE i + 1 <= 254 * (k + 1)
  <2>1. Len(current) + 1 < 255
    BY <1>1, <1>3, <1>6
  <2>2. next = [p EXCEPT !.current = @ \o <<bits[i + 1]>>]
    BY <1>4, <1>5, <2>1 DEF PackStep
  <2>3. next = [done |-> done, current |-> current \o <<bits[i + 1]>>]
    <3> HIDE DEF done, current, next
    <3> QED BY <1>2, <2>2
  <2>4. current \o <<bits[i + 1]>> = SubSeq(bits, m, i + 1)
    <3>1. SubSeq(bits, m, i) \o <<bits[i + 1]>> = SubSeq(bits, m, i + 1)
      <4> HIDE DEF m
      <4>1. m <= i + 1
        BY <1>1
      <4> QED BY <1>1, <4>1, ChunkGrows
    <3> QED BY <3>1
  <2>5. 254 * k < i + 1
    BY <1>1
  <2>6. Chunks(next, bits, i + 1, k)
    <3> HIDE DEF next, current
    <3> QED BY <1>6, <2>3, <2>4, <2>5 DEF Chunks
  <2> QED BY <2>6
<1>7. CASE i + 1 > 254 * (k + 1)
  <2>1. i = 254 * (k + 1)
    BY <1>1, <1>7
  <2>2. ~(Len(current) + 1 < 255)
    BY <1>1, <1>3, <2>1
  <2>3. next = [done |-> Append(done, Number(current)), current |-> <<bits[i + 1]>>]
    BY <1>4, <1>5, <2>2 DEF PackStep
  <2>4. Number(current) = Whole(bits, k + 1)
    <3>1. (k + 1) - 1 = k
      OBVIOUS
    <3> QED BY <2>1, <3>1 DEF Whole
  <2>5. Append(done, Number(current)) = [c \in 1..(k + 1) |-> Whole(bits, c)]
    <3> DEFINE w == Number(current)
               T == {Whole(bits, c) : c \in 1..(k + 1)}
               r == [c \in 1..(k + 1) |-> Whole(bits, c)]
    <3>1. \A c \in 1..(k + 1) : (c \in 1..k \/ c = k + 1) /\ Whole(bits, c) \in T
      OBVIOUS
    <3>2. \A c \in 1..k : c \in 1..(k + 1)
      OBVIOUS
    <3> HIDE DEF T
    <3>3. done \in Seq(T) /\ Len(done) = k /\ (\A c \in 1..k : done[c] = Whole(bits, c)) /\ w \in T
      <4>1. done \in [1..k -> T] /\ k + 1 \in 1..(k + 1)
        BY <3>1, <3>2
      <4>2. done \in Seq(T)
        BY <4>1
      <4> QED BY <2>4, <3>1, <4>1, <4>2
    <3>4. r \in Seq(T) /\ Len(r) = k + 1 /\ \A c \in 1..(k + 1) : r[c] = Whole(bits, c)
      <4> DEFINE n == k + 1
      <4>1. n \in Nat
        OBVIOUS
      <4>2. \A c \in 1..n : Whole(bits, c) \in T
        BY <3>1
      <4> HIDE DEF n
      <4>3. [c \in 1..n |-> Whole(bits, c)] \in [1..n -> T]
        BY <4>2
      <4>4. [c \in 1..n |-> Whole(bits, c)] \in Seq(T) /\ Len([c \in 1..n |-> Whole(bits, c)]) = n
        BY <4>1, <4>3
      <4>5. \A c \in 1..n : [d \in 1..n |-> Whole(bits, d)][c] = Whole(bits, c)
        OBVIOUS
      <4> QED BY <4>4, <4>5 DEF n
    <3> HIDE DEF done, w, r
    <3>5. /\ Append(done, w) \in Seq(T) /\ Len(Append(done, w)) = k + 1
          /\ \A c \in 1..k : Append(done, w)[c] = done[c]
          /\ Append(done, w)[k + 1] = w
      BY <3>3, Appended
    <3>6. \A c \in 1..(k + 1) : Append(done, w)[c] = r[c]
      BY <2>4, <3>1, <3>3, <3>4, <3>5 DEF w
    <3>7. Append(done, w) = r
      BY <3>4, <3>5, <3>6, SeqEqual
    <3> QED BY <3>7 DEF r, w
  <2>6. <<bits[i + 1]>> = SubSeq(bits, 254 * (k + 1) + 1, i + 1)
    <3> DEFINE n == i + 1
    <3>1. n \in Nat /\ 1 <= n /\ n = 254 * (k + 1) + 1
      BY <2>1
    <3>2. SubSeq(bits, n, i) \o <<bits[i + 1]>> = SubSeq(bits, n, i + 1)
      <4>1. n \in Nat /\ 1 <= n /\ n <= i + 1
        BY <3>1
      <4> HIDE DEF n
      <4> QED BY <4>1, ChunkGrows
    <3>3. SubSeq(bits, n, i) = <<>>
      <4>1. n \in Int /\ i \in Int /\ i < n
        OBVIOUS
      <4> HIDE DEF n
      <4>2. SubSeq(bits, n, i) = <<>>
        BY <4>1, SubSeqEmpty
      <4> QED BY <4>2
    <3> HIDE DEF n
    <3>4. <<>> \o <<bits[i + 1]>> = <<bits[i + 1]>>
      OBVIOUS
    <3> QED BY <3>1, <3>2, <3>3, <3>4
  <2>7. k + 1 \in Nat /\ 254 * (k + 1) < i + 1 /\ i + 1 <= 254 * ((k + 1) + 1)
    BY <2>1
  <2>8. Chunks(next, bits, i + 1, k + 1)
    <3> HIDE DEF next, done, current
    <3> QED BY <2>3, <2>5, <2>6, <2>7 DEF Chunks
  <2> QED BY <2>7, <2>8
<1>8. i + 1 <= 254 * (k + 1) \/ i + 1 > 254 * (k + 1)
  OBVIOUS
<1> QED BY <1>6, <1>7, <1>8

\* Its first bit begins the first chunk.
LEMMA FirstChunk ==
  ASSUME NEW bits \in Seq(Bit), 1 <= Len(bits)
  PROVE  Chunks(PackStep(Start(TRUE), <<bits[1]>>), bits, 1, 0)
<1> DEFINE one == <<bits[1]>>
<1>1. Start(TRUE) = [done |-> <<>>, current |-> <<>>]
  BY DEF Start
<1>2. Len(<<>>) + Len(one) < 255 /\ <<>> \o one = one
  OBVIOUS
<1>3. SubSeq(bits, 1, 1) = one
  <2>1. SubSeq(bits, 1, 0) = <<>>
    <3> DEFINE a == 1
               b == 0
    <3>1. a \in Int /\ b \in Int /\ b < a
      OBVIOUS
    <3> HIDE DEF a, b
    <3>2. SubSeq(bits, a, b) = <<>>
      BY <3>1, SubSeqEmpty
    <3> QED BY <3>2 DEF a, b
  <2>2. SubSeq(bits, 1, 0) \o <<bits[0 + 1]>> = SubSeq(bits, 1, 0 + 1)
    <3> DEFINE b == 0
               a == 1
    <3>1. a \in Nat /\ b \in Nat /\ 1 <= a /\ a <= b + 1 /\ b + 1 <= Len(bits)
      OBVIOUS
    <3> HIDE DEF a, b
    <3>2. SubSeq(bits, a, b) \o <<bits[b + 1]>> = SubSeq(bits, a, b + 1)
      BY <3>1, ChunkGrows
    <3> QED BY <3>2 DEF a, b
  <2>3. 0 + 1 = 1
    OBVIOUS
  <2> HIDE DEF one
  <2> QED BY <1>2, <2>1, <2>2, <2>3 DEF one
<1>4. PackStep(Start(TRUE), one) = [done |-> <<>>, current |-> one]
  <2>1. PackStep([done |-> <<>>, current |-> <<>>], one)
          = [[done |-> <<>>, current |-> <<>>] EXCEPT !.current = <<>> \o one]
    <3> HIDE DEF one
    <3> QED BY <1>2 DEF PackStep
  <2> HIDE DEF one
  <2>2. PackStep([done |-> <<>>, current |-> <<>>], one) = [done |-> <<>>, current |-> one]
    BY <1>2, <2>1
  <2> QED BY <1>1, <2>2
<1>5. [c \in 1..0 |-> Whole(bits, c)] = <<>>
  OBVIOUS
<1>6. 254 * 0 + 1 = 1 /\ 254 * 0 < 1 /\ 1 <= 254 * (0 + 1)
  OBVIOUS
<1> HIDE DEF one
<1>7. PackStep(Start(TRUE), one) = [done |-> [c \in 1..0 |-> Whole(bits, c)],
           current |-> SubSeq(bits, 254 * 0 + 1, 1)]
  BY <1>3, <1>4, <1>5, <1>6
<1> QED BY <1>6, <1>7 DEF Chunks, one

\* Where the bits end, the elements are the chunks.
LEMMA LastChunk ==
  ASSUME NEW bits \in Seq(Bit), NEW k \in Nat, NEW p, Chunks(p, bits, Len(bits), k)
  PROVE  Append(p.done, Number(p.current)) = Elements(bits)
<1> DEFINE n == Len(bits)
           done == [c \in 1..k |-> Whole(bits, c)]
           last == Number(SubSeq(bits, 254 * k + 1, n))
           element(c) == Number(SubSeq(bits, 254 * (c - 1) + 1, IF 254 * c < n THEN 254 * c ELSE n))
           S == {element(c) : c \in 1..(k + 1)}
<1>1. n \in Nat /\ 254 * k < n /\ n <= 254 * (k + 1)
  BY LenProperties DEF Chunks
<1>2. p.done = done /\ p.current = SubSeq(bits, 254 * k + 1, n)
  BY DEF Chunks
<1>3. (n + 253) \div 254 = k + 1
  <2> HIDE DEF n
  <2> QED BY <1>1
<1>4. \A c \in 1..k : element(c) = Whole(bits, c) /\ c \in 1..(k + 1)
  <2>1. ASSUME NEW c \in 1..k PROVE element(c) = Whole(bits, c) /\ c \in 1..(k + 1)
    <3>1. 254 * c <= 254 * k /\ 254 * c < n
      BY <1>1
    <3> HIDE DEF n
    <3> QED BY <3>1 DEF Whole
  <2> QED BY <2>1
<1>5. element(k + 1) = last /\ k + 1 \in 1..(k + 1)
  <2>1. ~(254 * (k + 1) < n) /\ (k + 1) - 1 = k
    BY <1>1
  <2> HIDE DEF n
  <2> QED BY <2>1
<1> HIDE DEF n, last, element
<1>6. \A c \in 1..(k + 1) : element(c) \in S
  OBVIOUS
<1> HIDE DEF S
<1>7. done \in Seq(S) /\ Len(done) = k /\ \A c \in 1..k : done[c] = element(c)
  <2>1. done = [c \in 1..k |-> element(c)] /\ \A c \in 1..k : element(c) \in S
    BY <1>4, <1>6
  <2>2. done \in [1..k -> S]
    <3> HIDE DEF done
    <3> QED BY <2>1
  <2> HIDE DEF done
  <2> QED BY <2>1, <2>2
<1>8. last \in S
  BY <1>5, <1>6
<1> DEFINE r == [c \in 1..(k + 1) |-> element(c)]
<1>9. r \in Seq(S) /\ Len(r) = k + 1 /\ \A c \in 1..(k + 1) : r[c] = element(c)
  <2> DEFINE m == k + 1
  <2>1. m \in Nat /\ \A c \in 1..m : element(c) \in S
    BY <1>6
  <2> HIDE DEF m
  <2>2. [c \in 1..m |-> element(c)] \in [1..m -> S]
    BY <2>1
  <2>3. [c \in 1..m |-> element(c)] \in Seq(S) /\ Len([c \in 1..m |-> element(c)]) = m
    BY <2>1, <2>2
  <2>4. \A c \in 1..m : [d \in 1..m |-> element(d)][c] = element(c)
    OBVIOUS
  <2> QED BY <2>3, <2>4 DEF m
<1>10. Append(done, last) = r
  <2> HIDE DEF done, r
  <2>1. /\ Append(done, last) \in Seq(S) /\ Len(Append(done, last)) = k + 1
        /\ \A c \in 1..k : Append(done, last)[c] = done[c]
        /\ Append(done, last)[k + 1] = last
    BY <1>7, <1>8, Appended
  <2>2. \A c \in 1..(k + 1) : c \in 1..k \/ c = k + 1
    OBVIOUS
  <2>3. \A c \in 1..(k + 1) : Append(done, last)[c] = r[c]
    BY <1>5, <1>7, <1>9, <2>1, <2>2
  <2> QED BY <1>9, <2>1, <2>3, SeqEqual
<1>11. Elements(bits) = r
  <2>1. Elements(bits) = [c \in 1..((n + 253) \div 254) |-> element(c)]
    BY DEF Elements, n, element
  <2> QED BY <1>3, <2>1
<1> QED BY <1>2, <1>10, <1>11 DEF last

\* Single bits are packed into chunks of 254 of them.
LEMMA SinglesPacked ==
  ASSUME NEW bits \in Seq(Bit), 1 <= Len(bits)
  PROVE  pack_to_fields([fields |-> <<>>, bits |-> Singles(bits)]) = Elements(bits)
<1> DEFINE n == Len(bits)
           single == Singles(bits)
           input == [fields |-> <<>>, bits |-> single]
<1>1. n \in Nat /\ Len(single) = n /\ \A i \in 1..n : single[i] = <<bits[i]>>
  BY SinglesAre, LenProperties
<1>2. Len(input.bits) \in Nat /\ input.bits # <<>>
  <2>1. Len(single) # 0 /\ Len(single) \in Nat
    BY <1>1
  <2> HIDE DEF single
  <2> QED BY <2>1
<1> HIDE DEF single
<1>3. PICK f : /\ IsLoop(TRUE, f, single)
               /\ pack_to_fields(input) = <<>> \o Append(f[n].done, Number(f[n].current))
  <2>1. input.bits = single /\ input.fields = <<>>
    OBVIOUS
  <2> HIDE DEF input
  <2>2. PICK f : /\ IsLoop(TRUE, f, input.bits)
                 /\ pack_to_fields(input)
                      = input.fields
                           \o Append(f[Len(input.bits)].done, Number(f[Len(input.bits)].current))
    BY <1>2, PackLoop
  <2> QED BY <1>1, <2>1, <2>2
<1>4. f[0] = Start(TRUE) /\ \A i \in 1..n : f[i] = PackStep(f[i - 1], <<bits[i]>>)
  <2>1. Len(single) \in Nat
    BY <1>1
  <2>2. f[0] = Start(TRUE) /\ \A i \in 1..n : f[i] = Step(TRUE, f[i - 1], single[i])
    <3>1. f[0] = Start(TRUE) /\ \A i \in 1..Len(single) : f[i] = Step(TRUE, f[i - 1], single[i])
      <4>1. IsLoop(TRUE, f, single)
        BY <1>3
      <4>2. 0 \in 0..Len(single) /\ \A i \in 1..Len(single) : i \in 0..Len(single) /\ i # 0
        BY <2>1
      <4>3. f = [i \in 0..Len(single) |-> IF i = 0 THEN Start(TRUE)
                 ELSE Step(TRUE, f[i - 1], single[i])]
        BY <4>1 DEF IsLoop
      <4> HIDE DEF input
      <4> QED BY <4>2, <4>3
    <3> QED BY <1>1, <3>1
  <2> QED BY <1>1, <2>2 DEF Step
<1> DEFINE T == {i \in Nat : i + 1 <= n => \E k \in Nat : Chunks(f[i + 1], bits, i + 1, k)}
<1> HIDE DEF n
<1>5. 0 \in T
  <2>1. f[1] = PackStep(f[1 - 1], <<bits[1]>>) /\ 1 - 1 = 0 /\ 0 + 1 = 1
    BY <1>1, <1>4 DEF n
  <2>2. Chunks(f[1], bits, 1, 0)
    BY <1>4, <2>1, FirstChunk
  <2>3. \E k \in Nat : Chunks(f[0 + 1], bits, 0 + 1, k)
    BY <2>1, <2>2
  <2> QED BY <2>3
<1>6. ASSUME NEW j \in Nat, j \in T PROVE j + 1 \in T
  <2> SUFFICES ASSUME (j + 1) + 1 <= n
               PROVE  \E k \in Nat : Chunks(f[(j + 1) + 1], bits, (j + 1) + 1, k)
    OBVIOUS
  <2> DEFINE i == j + 1
  <2>1. i \in Nat /\ i <= n /\ i + 1 \in 1..n /\ (i + 1) - 1 = i /\ i + 1 <= n
    BY <1>1
  <2>2. PICK k \in Nat : Chunks(f[i], bits, i, k)
    BY <1>6, <2>1
  <2> HIDE DEF i
  <2>3. \E l \in Nat : Chunks(PackStep(f[i], <<bits[i + 1]>>), bits, i + 1, l)
    BY <2>1, <2>2, NextChunk DEF n
  <2>4. f[i + 1] = PackStep(f[i], <<bits[i + 1]>>)
    BY <1>4, <2>1
  <2>5. \E l \in Nat : Chunks(f[i + 1], bits, i + 1, l)
    BY <2>3, <2>4
  <2> QED BY <2>5 DEF i
<1>7. Nat \subseteq T
  <2> HIDE DEF T
  <2> QED BY <1>5, <1>6, InductionOverSet
<1>8. PICK k \in Nat : Chunks(f[n], bits, n, k)
  <2>1. n - 1 \in T
    <3>1. n - 1 \in Nat
      BY <1>1 DEF n
    <3> HIDE DEF T
    <3> QED BY <1>7, <3>1
  <2>2. (n - 1) + 1 = n /\ (n - 1) + 1 <= n
    BY <1>1
  <2>3. \E k \in Nat : Chunks(f[(n - 1) + 1], bits, (n - 1) + 1, k)
    BY <2>1, <2>2
  <2> QED BY <2>2, <2>3
<1>9. Append(f[n].done, Number(f[n].current)) = Elements(bits)
  BY <1>8, LastChunk DEF n
<1>10. \A s : s = Elements(bits) => <<>> \o s = s
  <2>1. PICK S : Elements(bits) \in Seq(S)
    <3> DEFINE m == (Len(bits) + 253) \div 254
               element(c) == Number(SubSeq(bits, 254 * (c - 1) + 1, IF 254 * c < Len(bits) THEN 254 * c ELSE Len(bits)))
               S == {element(c) : c \in 1..m}
    <3>1. Elements(bits) = [c \in 1..m |-> element(c)]
      BY DEF Elements
    <3>2. m \in Nat
      BY LenProperties
    <3> HIDE DEF m, element
    <3>3. [c \in 1..m |-> element(c)] \in [1..m -> S]
      OBVIOUS
    <3> HIDE DEF S
    <3>4. Elements(bits) \in Seq(S)
      BY <3>1, <3>2, <3>3
    <3> QED BY <3>4
  <2> DEFINE e == Elements(bits)
  <2> HIDE DEF e
  <2>2. e \in Seq(S)
    BY <2>1 DEF e
  <2>3. <<>> \o e = e
    BY <2>2
  <2> QED BY <2>3 DEF e
<1>11. pack_to_fields(input) = Elements(bits)
  BY <1>3, <1>9, <1>10
<1> QED BY <1>11 DEF single

\* Bits that end in one do not make zero.
LEMMA NumberNotZero ==
  ASSUME NEW raw \in Seq(Bit), Len(raw) < 255, 1 <= Len(raw), raw[Len(raw)] = 1
  PROVE  Number(raw) # Zero
<1>1. Len(raw) \in Nat /\ Len(raw) \in 1..Len(raw) /\ Len(raw) + 1 - Len(raw) = 1
  BY LenProperties
<1>2. Digit(Number(raw).number, 1) = 1
  <2>1. Digit(Number(raw).number, Len(raw) + 1 - Len(raw)) = raw[Len(raw)]
    BY <1>1, NumberKeepsBits
  <2> QED BY <1>1, <2>1
<1>3. Zero.number = <<>>
  <2>1. <<>> \in Seq(Bit) /\ Len(<<>>) = 0
    OBVIOUS
  <2>2. Number(<<>>) \in Numbers /\ Len(Number(<<>>).number) <= 0
    <3> DEFINE none == <<>>
    <3>1. none \in Seq(Bit) /\ Len(none) = 0 /\ Len(none) < 255
      OBVIOUS
    <3> HIDE DEF none
    <3>2. Number(none) \in Numbers /\ Len(Number(none).number) <= Len(none)
      BY <3>1, NumberKeepsBits, NumberIsNoLonger
    <3> QED BY <3>1, <3>2 DEF none
  <2>3. Zero.number \in Seq(Bit) /\ Len(Zero.number) \in Nat /\ Len(Zero.number) <= 0
    BY <2>2, NumberIs DEF Zero
  <2> QED BY <2>3
<1>4. Digit(<<>>, 1) = 0
  BY DEF Digit
<1> QED BY <1>2, <1>3, <1>4

\* The last element of a URI is not zero: a one is behind its bits.
LEMMA ElementsEnd ==
  ASSUME NEW bits \in Seq(Bit), 1 <= Len(bits), bits[Len(bits)] = 1
  PROVE  \E S : /\ Elements(bits) \in Seq(S) /\ 1 <= Len(Elements(bits))
                /\ Elements(bits)[Len(Elements(bits))] # Zero
<1> DEFINE n == Len(bits)
           m == (n + 253) \div 254
           element(c) == Number(SubSeq(bits, 254 * (c - 1) + 1, IF 254 * c < n THEN 254 * c ELSE n))
           S == {element(c) : c \in 1..m}
<1>1. n \in Nat /\ 1 <= n /\ bits[n] = 1 /\ \A i \in 1..n : bits[i] \in Bit
  BY LenProperties, ElementOfSeq
<1>2. Elements(bits) = [c \in 1..m |-> element(c)]
  BY DEF Elements
<1> HIDE DEF n
<1>3. m \in Nat /\ 1 <= m /\ ~(254 * m < n) /\ 254 * (m - 1) + 1 <= n /\ n < 254 * (m - 1) + 255
  BY <1>1
<1> HIDE DEF m
<1>4. element(m) # Zero
  <2> DEFINE a == 254 * (m - 1) + 1
             raw == SubSeq(bits, a, n)
  <2>1. a \in Nat /\ 1 <= a /\ a <= n /\ n - a + 1 < 255
    BY <1>1, <1>3
  <2>2. element(m) = Number(raw)
    <3>1. (IF 254 * m < n THEN 254 * m ELSE n) = n
      BY <1>3
    <3> QED BY <3>1
  <2> HIDE DEF a, element
  <2>3. /\ raw \in Seq(Bit) /\ Len(raw) = IF a <= n THEN n - a + 1 ELSE 0
        /\ \A i \in 1..(n - a + 1) : raw[i] = bits[a + i - 1]
    <3>1. a \in Int /\ n \in Int /\ \A i \in a..n : bits[i] \in Bit
      BY <1>1, <2>1
    <3> QED BY <3>1, SubSeqProperties
  <2>4. Len(raw) = n - a + 1 /\ Len(raw) \in 1..(n - a + 1) /\ a + Len(raw) - 1 = n
    BY <1>1, <2>1, <2>3
  <2> HIDE DEF raw
  <2>5. raw[Len(raw)] = 1 /\ Len(raw) < 255 /\ 1 <= Len(raw)
    BY <1>1, <2>1, <2>3, <2>4
  <2> QED BY <2>2, <2>3, <2>5, NumberNotZero
<1> HIDE DEF element
<1>5. [c \in 1..m |-> element(c)] \in [1..m -> S]
  OBVIOUS
<1> HIDE DEF S
<1> DEFINE e == [c \in 1..m |-> element(c)]
<1>6. e \in Seq(S) /\ Len(e) = m /\ m \in 1..m
  BY <1>3, <1>5
<1>7. e[m] = element(m)
  BY <1>6
<1> HIDE DEF e
<1>8. e \in Seq(S) /\ 1 <= Len(e) /\ e[Len(e)] # Zero
  BY <1>3, <1>4, <1>6, <1>7
<1> QED BY <1>2, <1>8 DEF e

\* What does not end in zero is known from what it is filled up to.
LEMMA EvenEnds ==
  ASSUME NEW S, NEW d \in Seq(S), NEW T, NEW e \in Seq(T), Even(d) = Even(e),
         1 <= Len(d), d[Len(d)] # Zero, 1 <= Len(e), e[Len(e)] # Zero
  PROVE  d = e
<1> DEFINE U == S \cup T \cup {Zero}
<1>1. Zero \in U /\ S \subseteq U /\ T \subseteq U
  OBVIOUS
<1> HIDE DEF U
<1>2. d \in Seq(U) /\ e \in Seq(U) /\ Len(d) \in Nat /\ Len(e) \in Nat
  BY <1>1, LenProperties
<1>3. /\ Append(d, Zero) \in Seq(U) /\ Len(Append(d, Zero)) = Len(d) + 1
      /\ (\A k \in 1..Len(d) : Append(d, Zero)[k] = d[k]) /\ Append(d, Zero)[Len(d) + 1] = Zero
  BY <1>1, <1>2, Appended
<1>4. /\ Append(e, Zero) \in Seq(U) /\ Len(Append(e, Zero)) = Len(e) + 1
      /\ (\A k \in 1..Len(e) : Append(e, Zero)[k] = e[k]) /\ Append(e, Zero)[Len(e) + 1] = Zero
  BY <1>1, <1>2, Appended
<1>5. Even(d) = d \/ Even(d) = Append(d, Zero)
  BY DEF Even
<1>6. Even(e) = e \/ Even(e) = Append(e, Zero)
  BY DEF Even
<1>7. CASE d = e
  BY <1>7
<1>8. CASE d = Append(e, Zero)
  BY <1>4, <1>8
<1>9. CASE Append(d, Zero) = e
  BY <1>3, <1>9
<1>10. CASE Append(d, Zero) = Append(e, Zero)
  <2>1. Len(d) = Len(e)
    BY <1>2, <1>3, <1>4, <1>10
  <2>2. \A k \in 1..Len(d) : d[k] = e[k]
    BY <1>3, <1>4, <1>10, <2>1
  <2> QED BY <1>2, <2>1, <2>2, SeqsSame
<1> QED BY <1>5, <1>6, <1>7, <1>8, <1>9, <1>10

\* So a URI is packed into its elements, the last of them not zero,
LEMMA UriPacked ==
  ASSUME NEW uri \in Seq(Byte)
  PROVE  /\ pack_to_fields(UriInput(uri)) = UriElements(uri)
         /\ \E S : /\ UriElements(uri) \in Seq(S) /\ 1 <= Len(UriElements(uri))
                   /\ UriElements(uri)[Len(UriElements(uri))] # Zero
<1> DEFINE bits == UriBits(uri)
<1>1. bits \in Seq(Bit) /\ UriInput(uri) = [fields |-> <<>>, bits |-> Singles(bits)]
  BY UriBitsAre
<1>2. 1 <= Len(bits) /\ bits[Len(bits)] = 1
  <2> DEFINE b == BitsOfBytes(uri)
  <2>1. b \in Seq(Bit) /\ 1 \in Bit
    BY UriBitsAre DEF Bit
  <2> HIDE DEF b
  <2>2. Len(b) \in Nat /\ Len(Append(b, 1)) = Len(b) + 1 /\ Append(b, 1)[Len(b) + 1] = 1
    BY <2>1, LenProperties, Appended
  <2>3. bits = Append(b, 1)
    BY DEF b, UriBits
  <2> HIDE DEF bits
  <2> QED BY <2>2, <2>3
<1>3. UriElements(uri) = Elements(bits)
  BY DEF UriElements, Elements, UriBits
<1> HIDE DEF bits
<1> QED BY <1>1, <1>2, <1>3, SinglesPacked, ElementsEnd

\* and these elements are all that the hash of a URI tells of it.
LEMMA UriTells ==
  ASSUME NEW u \in Seq(Byte), NEW v \in Seq(Byte)
  PROVE  /\ Same(ZkappUri(u), ZkappUri(v)) => UriElements(u) = UriElements(v)
         /\ UriElements(u) = UriElements(v) => ZkappUri(u) = ZkappUri(v)
<1> DEFINE hash(uri) == hash_with_prefix("MinaZkappUri", UriElements(uri))
<1>1. ZkappUri(u) = Field(hash(u)) /\ ZkappUri(v) = Field(hash(v))
  BY UriPacked DEF ZkappUri
<1>2. ASSUME Same(ZkappUri(u), ZkappUri(v)) PROVE UriElements(u) = UriElements(v)
  <2>1. hash(u) = hash(v)
    BY <1>1, <1>2, FieldTells
  <2>2. Even(UriElements(u)) = Even(UriElements(v))
    BY <2>1 DEF hash_with_prefix
  <2> HIDE DEF hash
  <2> QED BY <2>2, UriPacked, EvenEnds
<1> QED BY <1>1, <1>2

(* What Kept keeps of a body, member by member. *)
KeptKey(o) == IF o = <<>> THEN o ELSE <<[o[1] EXCEPT !.data = ""]>>
KeptUri(o) == IF o = <<>> THEN o ELSE <<UriElements(o[1])>>
KeptSymbol(o) == IF o = <<>> THEN o ELSE <<SixBytes(o[1])>>
UpdateKept(u, v) ==
  /\ u.app_state = v.app_state /\ u.delegate = v.delegate
  /\ KeptKey(u.verification_key) = KeptKey(v.verification_key)
  /\ u.permissions = v.permissions
  /\ KeptUri(u.zkapp_uri) = KeptUri(v.zkapp_uri)
  /\ KeptSymbol(u.token_symbol) = KeptSymbol(v.token_symbol)
  /\ u.timing = v.timing /\ u.voting_for = v.voting_for
BodyKept(p, q) ==
  /\ p.public_key = q.public_key /\ p.token_id = q.token_id /\ UpdateKept(p.update, q.update)
  /\ p.balance_change = q.balance_change /\ p.increment_nonce = q.increment_nonce
  /\ EvenLists(p.events) = EvenLists(q.events) /\ EvenLists(p.actions) = EvenLists(q.actions)
  /\ p.call_data = q.call_data /\ p.preconditions = q.preconditions
  /\ p.use_full_commitment = q.use_full_commitment
  /\ p.implicit_account_creation_fee = q.implicit_account_creation_fee
  /\ p.may_use_token = q.may_use_token /\ p.authorization_kind = q.authorization_kind

UpdateMembers ==
  {"app_state", "delegate", "verification_key", "permissions", "zkapp_uri",
   "token_symbol", "timing", "voting_for"}
BodyMembers ==
  {"public_key", "token_id", "update", "balance_change", "increment_nonce",
   "events", "actions", "call_data", "call_depth", "preconditions",
   "use_full_commitment", "implicit_account_creation_fee", "may_use_token",
   "authorization_kind"}

\* What Kept makes of an update and of a body, member by member.
LEMMA KeptUpdateIs ==
  ASSUME NEW u \in UpdateType
  PROVE  /\ DOMAIN KeptUpdate(u) = UpdateMembers
         /\ KeptUpdate(u) = [x \in UpdateMembers |-> KeptUpdate(u)[x]]
         /\ KeptUpdate(u).app_state = u.app_state /\ KeptUpdate(u).delegate = u.delegate
         /\ KeptUpdate(u).verification_key = KeptKey(u.verification_key)
         /\ KeptUpdate(u).permissions = u.permissions
         /\ KeptUpdate(u).zkapp_uri = KeptUri(u.zkapp_uri)
         /\ KeptUpdate(u).token_symbol = KeptSymbol(u.token_symbol)
         /\ KeptUpdate(u).timing = u.timing /\ KeptUpdate(u).voting_for = u.voting_for
<1> DEFINE k == KeptKey(u.verification_key)
           r == KeptUri(u.zkapp_uri)
           s == KeptSymbol(u.token_symbol)
           e == [u EXCEPT !.verification_key = k, !.zkapp_uri = r, !.token_symbol = s]
<1>1. KeptUpdate(u) = e
  BY DEF KeptUpdate, KeptKey, KeptUri, KeptSymbol
<1> HIDE DEF k, r, s
<1>2. DOMAIN u = UpdateMembers
  BY DEF UpdateType, UpdateMembers
<1>3. DOMAIN e = UpdateMembers
  BY <1>2
<1>4. e = [x \in UpdateMembers |-> e[x]]
  <2>1. e = [x \in DOMAIN e |-> e[x]]
    BY Zenon
  <2> HIDE DEF e
  <2> QED BY <1>3, <2>1
<1>5. /\ e.app_state = u.app_state /\ e.delegate = u.delegate /\ e.verification_key = k
      /\ e.permissions = u.permissions /\ e.zkapp_uri = r /\ e.token_symbol = s
      /\ e.timing = u.timing /\ e.voting_for = u.voting_for
  BY <1>2 DEF UpdateMembers
<1> QED BY <1>1, <1>3, <1>4, <1>5 DEF k, r, s

LEMMA KeptIs ==
  ASSUME NEW p \in BodyType
  PROVE  /\ DOMAIN Kept(p) = BodyMembers
         /\ Kept(p) = [x \in BodyMembers |-> Kept(p)[x]]
         /\ Kept(p).public_key = p.public_key /\ Kept(p).token_id = p.token_id
         /\ Kept(p).update = KeptUpdate(p.update) /\ Kept(p).balance_change = p.balance_change
         /\ Kept(p).increment_nonce = p.increment_nonce /\ Kept(p).events = EvenLists(p.events)
         /\ Kept(p).actions = EvenLists(p.actions) /\ Kept(p).call_data = p.call_data
         /\ Kept(p).call_depth = 0 /\ Kept(p).preconditions = p.preconditions
         /\ Kept(p).use_full_commitment = p.use_full_commitment
         /\ Kept(p).implicit_account_creation_fee = p.implicit_account_creation_fee
         /\ Kept(p).may_use_token = p.may_use_token
         /\ Kept(p).authorization_kind = p.authorization_kind
<1> DEFINE u == KeptUpdate(p.update)
           v == EvenLists(p.events)
           a == EvenLists(p.actions)
           e == [p EXCEPT !.call_depth = 0, !.update = u, !.events = v, !.actions = a]
<1>1. Kept(p) = e
  BY DEF Kept
<1> HIDE DEF u, v, a
<1>2. DOMAIN p = BodyMembers
  BY DEF BodyType, BodyMembers
<1>3. DOMAIN e = BodyMembers
  BY <1>2
<1>4. e = [x \in BodyMembers |-> e[x]]
  <2>1. e = [x \in DOMAIN e |-> e[x]]
    BY Zenon
  <2> HIDE DEF e
  <2> QED BY <1>3, <2>1
<1>5. /\ e.public_key = p.public_key /\ e.token_id = p.token_id /\ e.update = u
      /\ e.balance_change = p.balance_change /\ e.increment_nonce = p.increment_nonce
      /\ e.events = v /\ e.actions = a /\ e.call_data = p.call_data /\ e.call_depth = 0
      /\ e.preconditions = p.preconditions /\ e.use_full_commitment = p.use_full_commitment
      /\ e.implicit_account_creation_fee = p.implicit_account_creation_fee
      /\ e.may_use_token = p.may_use_token /\ e.authorization_kind = p.authorization_kind
  BY <1>2 DEF BodyMembers
<1> QED BY <1>1, <1>3, <1>4, <1>5 DEF u, v, a

\* Kept makes the same of two bodies where it keeps the same of each member.
LEMMA KeptTells ==
  ASSUME NEW p \in BodyType, NEW q \in BodyType
  PROVE  Kept(p) = Kept(q) <=> BodyKept(p, q)
<1>1. p.update \in UpdateType /\ q.update \in UpdateType
  BY DEF BodyType
<1>2. KeptUpdate(p.update) = KeptUpdate(q.update) <=> UpdateKept(p.update, q.update)
  <2> DEFINE u == p.update
             v == q.update
  <2> HIDE DEF u, v
  <2>1. u \in UpdateType /\ v \in UpdateType
    BY <1>1 DEF u, v
  <2>2. ASSUME KeptUpdate(u) = KeptUpdate(v) PROVE UpdateKept(u, v)
    BY <2>1, <2>2, KeptUpdateIs DEF UpdateKept
  <2>3. ASSUME UpdateKept(u, v) PROVE KeptUpdate(u) = KeptUpdate(v)
    <3>1. /\ KeptUpdate(u).app_state = KeptUpdate(v).app_state
          /\ KeptUpdate(u).delegate = KeptUpdate(v).delegate
          /\ KeptUpdate(u).verification_key = KeptUpdate(v).verification_key
          /\ KeptUpdate(u).permissions = KeptUpdate(v).permissions
          /\ KeptUpdate(u).zkapp_uri = KeptUpdate(v).zkapp_uri
          /\ KeptUpdate(u).token_symbol = KeptUpdate(v).token_symbol
          /\ KeptUpdate(u).timing = KeptUpdate(v).timing
          /\ KeptUpdate(u).voting_for = KeptUpdate(v).voting_for
      BY <2>1, <2>3, KeptUpdateIs DEF UpdateKept
    <3>2. \A x \in UpdateMembers :
            \/ x = "app_state" \/ x = "delegate" \/ x = "verification_key" \/ x = "permissions"
            \/ x = "zkapp_uri" \/ x = "token_symbol" \/ x = "timing" \/ x = "voting_for"
      BY DEF UpdateMembers
    <3>3. \A x \in UpdateMembers : KeptUpdate(u)[x] = KeptUpdate(v)[x]
      BY <3>1, <3>2
    <3>4. /\ KeptUpdate(u) = [x \in UpdateMembers |-> KeptUpdate(u)[x]]
          /\ KeptUpdate(v) = [x \in UpdateMembers |-> KeptUpdate(v)[x]]
      BY <2>1, KeptUpdateIs
    <3> QED BY <3>3, <3>4
  <2> QED BY <2>2, <2>3 DEF u, v
<1>3. ASSUME Kept(p) = Kept(q) PROVE BodyKept(p, q)
  BY <1>2, <1>3, KeptIs DEF BodyKept
<1>4. ASSUME BodyKept(p, q) PROVE Kept(p) = Kept(q)
  <2>1. /\ Kept(p).public_key = Kept(q).public_key /\ Kept(p).token_id = Kept(q).token_id
        /\ Kept(p).update = Kept(q).update /\ Kept(p).balance_change = Kept(q).balance_change
        /\ Kept(p).increment_nonce = Kept(q).increment_nonce /\ Kept(p).events = Kept(q).events
        /\ Kept(p).actions = Kept(q).actions /\ Kept(p).call_data = Kept(q).call_data
        /\ Kept(p).call_depth = Kept(q).call_depth
        /\ Kept(p).preconditions = Kept(q).preconditions
        /\ Kept(p).use_full_commitment = Kept(q).use_full_commitment
        /\ Kept(p).implicit_account_creation_fee = Kept(q).implicit_account_creation_fee
        /\ Kept(p).may_use_token = Kept(q).may_use_token
        /\ Kept(p).authorization_kind = Kept(q).authorization_kind
    BY <1>2, <1>4, KeptIs DEF BodyKept
  <2>2. \A x \in BodyMembers :
          \/ x = "public_key" \/ x = "token_id" \/ x = "update" \/ x = "balance_change"
          \/ x = "increment_nonce" \/ x = "events" \/ x = "actions" \/ x = "call_data"
          \/ x = "call_depth" \/ x = "preconditions" \/ x = "use_full_commitment"
          \/ x = "implicit_account_creation_fee" \/ x = "may_use_token"
          \/ x = "authorization_kind"
    BY DEF BodyMembers
  <2>3. \A x \in BodyMembers : Kept(p)[x] = Kept(q)[x]
    BY <2>1, <2>2
  <2>4. /\ Kept(p) = [x \in BodyMembers |-> Kept(p)[x]]
        /\ Kept(q) = [x \in BodyMembers |-> Kept(q)[x]]
    BY KeptIs
  <2> QED BY <2>3, <2>4
<1> QED BY <1>3, <1>4

(* What the input of an update tells: all that is kept of it. *)
LEMMA KeyPartTells ==
  ASSUME NEW u \in UpdateType, NEW v \in UpdateType, Same(KeyPart(u), KeyPart(v))
  PROVE  KeptKey(u.verification_key) = KeptKey(v.verification_key)
<1> DEFINE o == u.verification_key
           p == v.verification_key
           K == [data : STRING, hash : Fp]
           f == IF o = <<>> THEN Zero ELSE o[1].hash
           g == IF p = <<>> THEN Zero ELSE p[1].hash
<1>1. KeyPart(u) = Packed(<<Bool(o # <<>>), Field(f)>>) /\ KeyPart(v)
           = Packed(<<Bool(p # <<>>), Field(g)>>)
  BY DEF KeyPart, Option
<1>2. o \in Optional(K) /\ p \in Optional(K)
  BY DEF UpdateType
<1> HIDE DEF f, g, o, p
<1>3. (o # <<>>) = (p # <<>>) /\ Same(Field(f), Field(g))
  BY <1>1, FieldAlike, OptionTells
<1>4. f = g
  BY <1>3, FieldTells
<1>5. CASE o = <<>>
  BY <1>3, <1>5 DEF KeptKey, o, p
<1>6. CASE o # <<>>
  <2>1. o[1] \in K /\ p[1] \in K /\ o[1].hash = p[1].hash
    <3> HIDE DEF K
    <3> QED BY <1>2, <1>3, <1>4, <1>6, OptionalGiven DEF f, g
  <2>2. \A k \in K : [k EXCEPT !.data = ""] = [x \in {"data", "hash"} |-> IF x
             = "data" THEN "" ELSE k.hash]
    <3>1. ASSUME NEW k \in K
          PROVE  [k EXCEPT !.data = ""] = [x \in {"data", "hash"} |-> IF x = "data" THEN "" ELSE k.hash]
      <4>1. DOMAIN k = {"data", "hash"}
        OBVIOUS
      <4>2. \A x \in {"data", "hash"} : [k EXCEPT !.data = ""][x] = IF x = "data" THEN "" ELSE k.hash
        BY <4>1
      <4>3. [k EXCEPT !.data = ""] = [x \in DOMAIN k |-> [k EXCEPT !.data = ""][x]]
        <5>1. \A h : [h EXCEPT !.data = ""] = [x \in DOMAIN h |-> [h EXCEPT !.data = ""][x]]
          BY Zenon
        <5> QED BY <5>1
      <4> QED BY <4>1, <4>2, <4>3
    <3> QED BY <3>1
  <2>3. [o[1] EXCEPT !.data = ""] = [p[1] EXCEPT !.data = ""]
    <3> HIDE DEF K
    <3> QED BY <2>1, <2>2
  <2> QED BY <1>3, <1>6, <2>3 DEF KeptKey, o, p
<1> QED BY <1>5, <1>6

LEMMA PermissionsPartTells ==
  ASSUME NEW u \in UpdateType, NEW v \in UpdateType, Same(PermissionsPart(u), PermissionsPart(v))
  PROVE  u.permissions = v.permissions
<1> DEFINE o == u.permissions
           p == v.permissions
           f == IF o = <<>> THEN EmptyPermissions ELSE o[1]
           g == IF p = <<>> THEN EmptyPermissions ELSE p[1]
<1>1. /\ PermissionsPart(u) = Packed(<<Bool(o # <<>>), Permissions(f)>>)
      /\ PermissionsPart(v) = Packed(<<Bool(p # <<>>), Permissions(g)>>)
  BY DEF PermissionsPart, Option
<1>2. o \in Optional(PermissionsType) /\ p \in Optional(PermissionsType)
  BY DEF UpdateType
<1> HIDE DEF o, p
<1>3. f \in PermissionsType /\ g \in PermissionsType
  BY <1>2, EmptyPermissionsType, OptionalGiven
<1> HIDE DEF f, g
<1>4. (o # <<>>) = (p # <<>>) /\ Same(Permissions(f), Permissions(g))
  BY <1>1, <1>3, PermissionsAlike, OptionTells
<1>5. f = g
  BY <1>3, <1>4, PermissionsTell
<1>6. o = p
  BY <1>2, <1>4, <1>5, OptionalsSame DEF f, g
<1> QED BY <1>6 DEF o, p

LEMMA UriPartTells ==
  ASSUME NEW u \in UpdateType, NEW v \in UpdateType, Same(UriPart(u), UriPart(v))
  PROVE  KeptUri(u.zkapp_uri) = KeptUri(v.zkapp_uri)
<1> DEFINE o == u.zkapp_uri
           p == v.zkapp_uri
           x == IF o = <<>> THEN EmptyUri ELSE ZkappUri(o[1])
           y == IF p = <<>> THEN EmptyUri ELSE ZkappUri(p[1])
           S == Seq(Byte)
<1>1. UriPart(u) = Packed(<<Bool(o # <<>>), x>>) /\ UriPart(v) = Packed(<<Bool(p # <<>>), y>>)
  BY DEF UriPart, Option
<1>2. Alike(x, y)
  BY FieldAlike DEF EmptyUri, ZkappUri
<1>3. o \in Optional(S) /\ p \in Optional(S)
  BY DEF UpdateType
<1> HIDE DEF o, p, x, y
<1>4. (o # <<>>) = (p # <<>>) /\ Same(x, y)
  BY <1>1, <1>2, OptionTells
<1>5. CASE o = <<>>
  BY <1>4, <1>5 DEF KeptUri, o, p
<1>6. CASE o # <<>>
  <2>1. o[1] \in S /\ p[1] \in S /\ Same(ZkappUri(o[1]), ZkappUri(p[1]))
    <3> HIDE DEF S
    <3> QED BY <1>3, <1>4, <1>6, OptionalGiven DEF x, y
  <2>2. UriElements(o[1]) = UriElements(p[1])
    BY <2>1, UriTells
  <2> QED BY <1>4, <1>6, <2>2 DEF KeptUri, o, p
<1> QED BY <1>5, <1>6

LEMMA SymbolPartTells ==
  ASSUME NEW u \in UpdateType, NEW v \in UpdateType, Same(SymbolPart(u), SymbolPart(v))
  PROVE  KeptSymbol(u.token_symbol) = KeptSymbol(v.token_symbol)
<1> DEFINE S == {s \in Seq(Byte) : Len(s) <= 6}
           o == u.token_symbol
           p == v.token_symbol
           f == IF o = <<>> THEN <<>> ELSE o[1]
           g == IF p = <<>> THEN <<>> ELSE p[1]
<1>1. /\ SymbolPart(u) = Packed(<<Bool(o # <<>>), TokenSymbol(f)>>)
      /\ SymbolPart(v) = Packed(<<Bool(p # <<>>), TokenSymbol(g)>>)
  BY DEF SymbolPart, Option
<1>2. o \in Optional(S) /\ p \in Optional(S) /\ <<>> \in S
  BY DEF UpdateType
<1> HIDE DEF o, p
<1>3. f \in S /\ g \in S
  <2> HIDE DEF S
  <2> QED BY <1>2, OptionalGiven
<1> HIDE DEF f, g
<1>4. (o # <<>>) = (p # <<>>) /\ Same(TokenSymbol(f), TokenSymbol(g))
  BY <1>1, <1>3, SymbolAlike, OptionTells
<1>5. SixBytes(f) = SixBytes(g)
  BY <1>3, <1>4, SymbolTells
<1>6. CASE o = <<>>
  BY <1>4, <1>6 DEF KeptSymbol, o, p
<1>7. CASE o # <<>>
  <2>1. f = o[1] /\ g = p[1]
    BY <1>4, <1>7 DEF f, g
  <2> QED BY <1>4, <1>5, <1>7, <2>1 DEF KeptSymbol, o, p
<1> QED BY <1>6, <1>7

LEMMA TimingPartTells ==
  ASSUME NEW u \in UpdateType, NEW v \in UpdateType, Same(TimingPart(u), TimingPart(v))
  PROVE  u.timing = v.timing
<1> DEFINE o == u.timing
           p == v.timing
           f == IF o = <<>> THEN EmptyTiming ELSE o[1]
           g == IF p = <<>> THEN EmptyTiming ELSE p[1]
<1>1. /\ TimingPart(u) = Packed(<<Bool(o # <<>>), TimingData(f)>>)
      /\ TimingPart(v) = Packed(<<Bool(p # <<>>), TimingData(g)>>)
  BY DEF TimingPart, Option
<1>2. o \in Optional(TimingType) /\ p \in Optional(TimingType)
  BY DEF UpdateType
<1>3. EmptyTiming \in TimingType
  BY EmptyWords DEF EmptyTiming, TimingType
<1> HIDE DEF o, p
<1>4. f \in TimingType /\ g \in TimingType
  BY <1>2, <1>3, OptionalGiven
<1> HIDE DEF f, g
<1>5. (o # <<>>) = (p # <<>>) /\ Same(TimingData(f), TimingData(g))
  BY <1>1, <1>4, TimingAlike, OptionTells
<1>6. f = g
  BY <1>4, <1>5, TimingTells
<1>7. o = p
  BY <1>2, <1>5, <1>6, OptionalsSame DEF f, g
<1> QED BY <1>7 DEF o, p

LEMMA UpdateTells ==
  ASSUME NEW u \in UpdateType, NEW v \in UpdateType, Same(UpdateInput(u), UpdateInput(v))
  PROVE  UpdateKept(u, v)
<1> DEFINE a == UpdateParts(u)
           b == UpdateParts(v)
<1>1. /\ DOMAIN a = 1..8 /\ DOMAIN b = 1..8 /\ UpdateInput(u) = Packed(a) /\ UpdateInput(v) = Packed(b)
      /\ \A i \in 1..8 : Alike(a[i], b[i])
  BY UpdatePartsAlike
<1> HIDE DEF a, b
<1>2. \A i \in 1..8 : Same(a[i], b[i])
  BY <1>1, PackedTells
<1>3. /\ Same(a[1], b[1]) /\ Same(a[2], b[2]) /\ Same(a[3], b[3]) /\ Same(a[4], b[4])
      /\ Same(a[5], b[5]) /\ Same(a[6], b[6]) /\ Same(a[7], b[7]) /\ Same(a[8], b[8])
  BY <1>2
<1>4. /\ Same(AppState(u.app_state), AppState(v.app_state))
      /\ Same(OptionKey(u.delegate), OptionKey(v.delegate))
      /\ Same(KeyPart(u), KeyPart(v)) /\ Same(PermissionsPart(u), PermissionsPart(v))
      /\ Same(UriPart(u), UriPart(v)) /\ Same(SymbolPart(u), SymbolPart(v))
      /\ Same(TimingPart(u), TimingPart(v))
      /\ Same(OptionField(u.voting_for), OptionField(v.voting_for))
  BY <1>3 DEF a, b, UpdateParts
<1>5. /\ u.app_state \in StateType /\ v.app_state \in StateType
      /\ u.delegate \in Optional(PublicKeyType) /\ v.delegate \in Optional(PublicKeyType)
      /\ u.voting_for \in Optional(Fp) /\ v.voting_for \in Optional(Fp)
  BY DEF UpdateType
<1>6. u.app_state = v.app_state /\ u.delegate = v.delegate /\ u.voting_for = v.voting_for
  BY <1>4, <1>5, AppStateTells, OptionKeyTells, OptionFieldTells
<1> QED BY <1>4, <1>6, KeyPartTells, PermissionsPartTells, UriPartTells, SymbolPartTells,
           TimingPartTells DEF UpdateKept

\* Nor does the input tell any more of the update.
LEMMA UpdateTold ==
  ASSUME NEW u \in UpdateType, NEW v \in UpdateType, UpdateKept(u, v)
  PROVE  UpdateInput(u) = UpdateInput(v)
<1> DEFINE KeyType == [data : STRING, hash : Fp]
           S == {s \in Seq(Byte) : Len(s) <= 6}
           UriType == Seq(Byte)
<1>1. /\ u.verification_key \in Optional(KeyType) /\ v.verification_key \in Optional(KeyType)
      /\ u.zkapp_uri \in Optional(UriType) /\ v.zkapp_uri \in Optional(UriType)
      /\ u.token_symbol \in Optional(S) /\ v.token_symbol \in Optional(S)
  BY DEF UpdateType
<1>2. /\ KeptKey(u.verification_key) = KeptKey(v.verification_key)
      /\ KeptUri(u.zkapp_uri) = KeptUri(v.zkapp_uri)
      /\ KeptSymbol(u.token_symbol) = KeptSymbol(v.token_symbol)
      /\ u.app_state = v.app_state /\ u.delegate = v.delegate /\ u.permissions = v.permissions
      /\ u.timing = v.timing /\ u.voting_for = v.voting_for
  BY DEF UpdateKept
<1>3. \A x : <<x>> # <<>> /\ <<x>>[1] = x
  OBVIOUS
<1>4. KeyPart(u) = KeyPart(v)
  <2> DEFINE o == u.verification_key
             p == v.verification_key
  <2>1. o \in Optional(KeyType) /\ p \in Optional(KeyType) /\ KeptKey(o) = KeptKey(p)
    BY <1>1, <1>2
  <2>2. KeyPart(u) = Option(o, LAMBDA k : Field(k.hash), Field(Zero))
        /\ KeyPart(v) = Option(p, LAMBDA k : Field(k.hash), Field(Zero))
    BY DEF KeyPart
  <2> HIDE DEF o, p
  <2>3. (o = <<>>) = (p = <<>>)
    BY <1>3, <2>1 DEF KeptKey
  <2>4. CASE o = <<>>
    BY <2>2, <2>3, <2>4
  <2>5. CASE o # <<>>
    <3>1. [o[1] EXCEPT !.data = ""] = [p[1] EXCEPT !.data = ""]
      <4>1. <<[o[1] EXCEPT !.data = ""]>> = <<[p[1] EXCEPT !.data = ""]>>
        BY <2>1, <2>3, <2>5 DEF KeptKey
      <4> DEFINE x == [o[1] EXCEPT !.data = ""]
                 y == [p[1] EXCEPT !.data = ""]
      <4>2. <<x>> = <<y>>
        BY <4>1
      <4> HIDE DEF x, y
      <4>3. x = y
        BY <1>3, <4>2
      <4> QED BY <4>3 DEF x, y
    <3>2. o[1] \in KeyType /\ p[1] \in KeyType
      <4> HIDE DEF KeyType
      <4> QED BY <2>1, <2>3, <2>5, OptionalGiven
    <3>3. o[1].hash = p[1].hash
      <4>1. \A k \in KeyType : [k EXCEPT !.data = ""].hash = k.hash
        OBVIOUS
      <4> HIDE DEF KeyType
      <4> QED BY <3>1, <3>2, <4>1
    <3>4. /\ KeyPart(u) = Packed(<<Bool(o # <<>>), Field(o[1].hash)>>)
          /\ KeyPart(v) = Packed(<<Bool(p # <<>>), Field(p[1].hash)>>)
      BY <2>2, <2>3, <2>5 DEF Option
    <3> QED BY <2>3, <2>5, <3>3, <3>4
  <2> QED BY <2>4, <2>5
<1>5. UriPart(u) = UriPart(v)
  <2> DEFINE o == u.zkapp_uri
             p == v.zkapp_uri
  <2>1. o \in Optional(UriType) /\ p \in Optional(UriType) /\ KeptUri(o) = KeptUri(p)
    BY <1>1, <1>2
  <2>2. UriPart(u) = Option(o, ZkappUri, EmptyUri) /\ UriPart(v) = Option(p, ZkappUri, EmptyUri)
    BY DEF UriPart
  <2> HIDE DEF o, p
  <2>3. (o = <<>>) = (p = <<>>)
    BY <1>3, <2>1 DEF KeptUri
  <2>4. CASE o = <<>>
    BY <2>2, <2>3, <2>4
  <2>5. CASE o # <<>>
    <3>1. UriElements(o[1]) = UriElements(p[1])
      BY <1>3, <2>1, <2>3, <2>5 DEF KeptUri
    <3>2. o[1] \in UriType /\ p[1] \in UriType
      <4> HIDE DEF UriType
      <4> QED BY <2>1, <2>3, <2>5, OptionalGiven
    <3>3. ZkappUri(o[1]) = ZkappUri(p[1])
      BY <3>1, <3>2, UriTells
    <3>4. /\ UriPart(u) = Packed(<<Bool(o # <<>>), ZkappUri(o[1])>>)
          /\ UriPart(v) = Packed(<<Bool(p # <<>>), ZkappUri(p[1])>>)
      BY <2>2, <2>3, <2>5 DEF Option
    <3> QED BY <2>3, <2>5, <3>3, <3>4
  <2> QED BY <2>4, <2>5
<1>6. SymbolPart(u) = SymbolPart(v)
  <2> DEFINE o == u.token_symbol
             p == v.token_symbol
  <2>1. KeptSymbol(o) = KeptSymbol(p)
    BY <1>2
  <2>2. SymbolPart(u) = Option(o, TokenSymbol, TokenSymbol(<<>>)) /\ SymbolPart(v)
             = Option(p, TokenSymbol, TokenSymbol(<<>>))
    BY DEF SymbolPart
  <2> HIDE DEF o, p
  <2>3. (o = <<>>) = (p = <<>>)
    BY <1>3, <2>1 DEF KeptSymbol
  <2>4. CASE o = <<>>
    BY <2>2, <2>3, <2>4
  <2>5. CASE o # <<>>
    <3>1. SixBytes(o[1]) = SixBytes(p[1])
      BY <1>3, <2>1, <2>3, <2>5 DEF KeptSymbol
    <3>2. TokenSymbol(o[1]) = TokenSymbol(p[1])
      BY <3>1 DEF TokenSymbol
    <3>3. /\ SymbolPart(u) = Packed(<<Bool(o # <<>>), TokenSymbol(o[1])>>)
          /\ SymbolPart(v) = Packed(<<Bool(p # <<>>), TokenSymbol(p[1])>>)
      BY <2>2, <2>3, <2>5 DEF Option
    <3> QED BY <2>3, <2>5, <3>2, <3>3
  <2> QED BY <2>4, <2>5
<1>7. PermissionsPart(u) = PermissionsPart(v) /\ TimingPart(u) = TimingPart(v)
  BY <1>2 DEF PermissionsPart, TimingPart
<1>8. UpdateParts(u) = UpdateParts(v)
  BY <1>2, <1>4, <1>5, <1>6, <1>7 DEF UpdateParts
<1> QED BY <1>8, UpdatePartsAlike

\* Preconditions are known from their inputs.
LEMMA EpochTells ==
  ASSUME NEW p \in EpochDataType, NEW q \in EpochDataType, Same(EpochData(p), EpochData(q))
  PROVE  p = q
<1> DEFINE a == EpochParts(p)
           b == EpochParts(q)
<1>1. /\ DOMAIN a = 1..6 /\ DOMAIN b = 1..6 /\ EpochData(p) = Packed(a) /\ EpochData(q) = Packed(b)
      /\ \A i \in 1..6 : Alike(a[i], b[i])
  BY EpochPartsAlike
<1> HIDE DEF a, b
<1>2. \A i \in 1..6 : Same(a[i], b[i])
  BY <1>1, PackedTells
<1>3. /\ Same(a[1], b[1]) /\ Same(a[2], b[2]) /\ Same(a[3], b[3])
      /\ Same(a[4], b[4]) /\ Same(a[5], b[5]) /\ Same(a[6], b[6])
  BY <1>2
<1>4. /\ Same(OptionField(p.ledger.hash), OptionField(q.ledger.hash))
      /\ Same(OptionRange(p.ledger.total_currency, 64), OptionRange(q.ledger.total_currency, 64))
      /\ Same(OptionField(p.seed), OptionField(q.seed))
      /\ Same(OptionField(p.start_checkpoint), OptionField(q.start_checkpoint))
      /\ Same(OptionField(p.lock_checkpoint), OptionField(q.lock_checkpoint))
      /\ Same(OptionRange(p.epoch_length, 32), OptionRange(q.epoch_length, 32))
  BY <1>3 DEF a, b, EpochParts
<1>5. /\ p.ledger.hash \in Optional(Fp) /\ q.ledger.hash \in Optional(Fp)
      /\ p.ledger.total_currency \in Optional(RangeType(64))
      /\ q.ledger.total_currency \in Optional(RangeType(64))
      /\ p.seed \in Optional(Fp) /\ q.seed \in Optional(Fp)
      /\ p.start_checkpoint \in Optional(Fp) /\ q.start_checkpoint \in Optional(Fp)
      /\ p.lock_checkpoint \in Optional(Fp) /\ q.lock_checkpoint \in Optional(Fp)
      /\ p.epoch_length \in Optional(RangeType(32)) /\ q.epoch_length \in Optional(RangeType(32))
  BY DEF EpochDataType
<1>6. /\ p.ledger.hash = q.ledger.hash /\ p.ledger.total_currency = q.ledger.total_currency
      /\ p.seed = q.seed /\ p.start_checkpoint = q.start_checkpoint
      /\ p.lock_checkpoint = q.lock_checkpoint /\ p.epoch_length = q.epoch_length
  BY <1>4, <1>5, OptionFieldTells, OptionRangeTells
<1>7. p.ledger = q.ledger
  BY <1>6 DEF EpochDataType
<1> QED BY <1>6, <1>7 DEF EpochDataType

LEMMA NetworkTells ==
  ASSUME NEW p \in NetworkType, NEW q \in NetworkType,
         Same(NetworkPreconditions(p), NetworkPreconditions(q))
  PROVE  p = q
<1> DEFINE a == NetworkParts(p)
           b == NetworkParts(q)
<1>1. /\ DOMAIN a = 1..7 /\ DOMAIN b = 1..7
      /\ NetworkPreconditions(p) = Packed(a) /\ NetworkPreconditions(q) = Packed(b)
      /\ \A i \in 1..7 : Alike(a[i], b[i])
  BY NetworkPartsAlike
<1> HIDE DEF a, b
<1>2. \A i \in 1..7 : Same(a[i], b[i])
  BY <1>1, PackedTells
<1>3. /\ Same(a[1], b[1]) /\ Same(a[2], b[2]) /\ Same(a[3], b[3]) /\ Same(a[4], b[4])
      /\ Same(a[5], b[5]) /\ Same(a[6], b[6]) /\ Same(a[7], b[7])
  BY <1>2
<1>4. /\ Same(OptionField(p.snarked_ledger_hash), OptionField(q.snarked_ledger_hash))
      /\ Same(OptionRange(p.blockchain_length, 32), OptionRange(q.blockchain_length, 32))
      /\ Same(OptionRange(p.min_window_density, 32), OptionRange(q.min_window_density, 32))
      /\ Same(OptionRange(p.total_currency, 64), OptionRange(q.total_currency, 64))
      /\ Same(OptionRange(p.global_slot_since_genesis, 32), OptionRange(q.global_slot_since_genesis, 32))
      /\ Same(EpochData(p.staking_epoch_data), EpochData(q.staking_epoch_data))
      /\ Same(EpochData(p.next_epoch_data), EpochData(q.next_epoch_data))
  BY <1>3 DEF a, b, NetworkParts
<1>5. /\ p.snarked_ledger_hash \in Optional(Fp) /\ q.snarked_ledger_hash \in Optional(Fp)
      /\ p.blockchain_length \in Optional(RangeType(32))
              /\ q.blockchain_length \in Optional(RangeType(32))
      /\ p.min_window_density \in Optional(RangeType(32))
              /\ q.min_window_density \in Optional(RangeType(32))
      /\ p.total_currency \in Optional(RangeType(64)) /\ q.total_currency \in Optional(RangeType(64))
      /\ p.global_slot_since_genesis \in Optional(RangeType(32))
      /\ q.global_slot_since_genesis \in Optional(RangeType(32))
      /\ p.staking_epoch_data \in EpochDataType /\ q.staking_epoch_data \in EpochDataType
      /\ p.next_epoch_data \in EpochDataType /\ q.next_epoch_data \in EpochDataType
  BY DEF NetworkType
<1>6. /\ p.snarked_ledger_hash = q.snarked_ledger_hash
      /\ p.blockchain_length = q.blockchain_length /\ p.min_window_density = q.min_window_density
      /\ p.total_currency = q.total_currency
      /\ p.global_slot_since_genesis = q.global_slot_since_genesis
      /\ p.staking_epoch_data = q.staking_epoch_data /\ p.next_epoch_data = q.next_epoch_data
  BY <1>4, <1>5, OptionFieldTells, OptionRangeTells, EpochTells
<1> QED BY <1>6 DEF NetworkType

LEMMA AccountTells ==
  ASSUME NEW p \in AccountType, NEW q \in AccountType,
         Same(AccountPreconditions(p), AccountPreconditions(q))
  PROVE  p = q
<1> DEFINE a == AccountParts(p)
           b == AccountParts(q)
<1>1. /\ DOMAIN a = 1..8 /\ DOMAIN b = 1..8
      /\ AccountPreconditions(p) = Packed(a) /\ AccountPreconditions(q) = Packed(b)
      /\ \A i \in 1..8 : Alike(a[i], b[i])
  BY AccountPartsAlike
<1> HIDE DEF a, b
<1>2. \A i \in 1..8 : Same(a[i], b[i])
  BY <1>1, PackedTells
<1>3. /\ Same(a[1], b[1]) /\ Same(a[2], b[2]) /\ Same(a[3], b[3]) /\ Same(a[4], b[4])
      /\ Same(a[5], b[5]) /\ Same(a[6], b[6]) /\ Same(a[7], b[7]) /\ Same(a[8], b[8])
  BY <1>2
<1>4. /\ Same(OptionRange(p.balance, 64), OptionRange(q.balance, 64))
      /\ Same(OptionRange(p.nonce, 32), OptionRange(q.nonce, 32))
      /\ Same(OptionField(p.receipt_chain_hash), OptionField(q.receipt_chain_hash))
      /\ Same(OptionKey(p.delegate), OptionKey(q.delegate))
      /\ Same(AppState(p.state), AppState(q.state))
      /\ Same(ActionState(p.action_state), ActionState(q.action_state))
      /\ Same(OptionBool(p.proved_state), OptionBool(q.proved_state))
      /\ Same(OptionBool(p.is_new), OptionBool(q.is_new))
  BY <1>3 DEF a, b, AccountParts
<1>5. /\ p.balance \in Optional(RangeType(64)) /\ q.balance \in Optional(RangeType(64))
      /\ p.nonce \in Optional(RangeType(32)) /\ q.nonce \in Optional(RangeType(32))
      /\ p.receipt_chain_hash \in Optional(Fp) /\ q.receipt_chain_hash \in Optional(Fp)
      /\ p.delegate \in Optional(PublicKeyType) /\ q.delegate \in Optional(PublicKeyType)
      /\ p.state \in StateType /\ q.state \in StateType
      /\ p.action_state \in Optional(Fp) /\ q.action_state \in Optional(Fp)
      /\ p.proved_state \in Optional(BOOLEAN) /\ q.proved_state \in Optional(BOOLEAN)
      /\ p.is_new \in Optional(BOOLEAN) /\ q.is_new \in Optional(BOOLEAN)
  BY DEF AccountType
<1>6. /\ p.balance = q.balance /\ p.nonce = q.nonce
      /\ p.receipt_chain_hash = q.receipt_chain_hash /\ p.delegate = q.delegate
      /\ p.state = q.state /\ p.action_state = q.action_state
      /\ p.proved_state = q.proved_state /\ p.is_new = q.is_new
  BY <1>4, <1>5, OptionFieldTells, OptionRangeTells, OptionKeyTells, AppStateTells,
     ActionStateTells, OptionBoolTells
<1> QED BY <1>6 DEF AccountType

LEMMA BalanceTells ==
  ASSUME NEW c \in [magnitude : Machine(64), sgn : {1, -1}],
         NEW d \in [magnitude : Machine(64), sgn : {1, -1}],
         Same(BalanceChange(c), BalanceChange(d))
  PROVE  c = d
<1> DEFINE m == c.magnitude
           n == d.magnitude
<1>1. m \in Machine(64) /\ n \in Machine(64) /\ c.sgn \in {1, -1} /\ d.sgn \in {1, -1}
  OBVIOUS
<1> HIDE DEF m, n
<1>2. Alike(Word(m), Word(n)) /\ Alike(Bool(c.sgn = 1), Bool(d.sgn = 1))
  BY <1>1, MachineAlike, BoolAlike
<1>3. Same(Word(m), Word(n)) /\ Same(Bool(c.sgn = 1), Bool(d.sgn = 1))
  <2>1. /\ BalanceChange(c) = Packed(<<Word(m), Bool(c.sgn = 1)>>)
        /\ BalanceChange(d) = Packed(<<Word(n), Bool(d.sgn = 1)>>)
    BY DEF BalanceChange, m, n
  <2> QED BY <1>2, <2>1, PairTells
<1>4. m = n
  BY <1>3, WordTells
<1>5. (c.sgn = 1) = (d.sgn = 1)
  <2>1. (c.sgn = 1) \in BOOLEAN /\ (d.sgn = 1) \in BOOLEAN
    OBVIOUS
  <2> QED BY <1>3, <2>1, BoolTells, Zenon
<1>6. c.sgn = d.sgn
  BY <1>1, <1>5
<1>7. c.magnitude = d.magnitude
  BY <1>4 DEF m, n
<1> QED BY <1>6, <1>7

LEMMA MayUseTells ==
  ASSUME NEW c \in [parents_own_token : BOOLEAN, inherit_from_parent : BOOLEAN],
         NEW d \in [parents_own_token : BOOLEAN, inherit_from_parent : BOOLEAN],
         Same(MayUseToken(c), MayUseToken(d))
  PROVE  c = d
<1>1. /\ Alike(Bool(c.parents_own_token), Bool(d.parents_own_token))
      /\ Alike(Bool(c.inherit_from_parent), Bool(d.inherit_from_parent))
  BY BoolAlike
<1>2. /\ Same(Bool(c.parents_own_token), Bool(d.parents_own_token))
      /\ Same(Bool(c.inherit_from_parent), Bool(d.inherit_from_parent))
  BY <1>1, PairTells DEF MayUseToken
<1>3. c.parents_own_token = d.parents_own_token /\ c.inherit_from_parent = d.inherit_from_parent
  <2>1. /\ c.parents_own_token \in BOOLEAN /\ d.parents_own_token \in BOOLEAN
        /\ c.inherit_from_parent \in BOOLEAN /\ d.inherit_from_parent \in BOOLEAN
    OBVIOUS
  <2> QED BY <1>2, <2>1, BoolTells
<1> QED BY <1>3

LEMMA KindTells ==
  ASSUME NEW c \in [is_signed : BOOLEAN, is_proved : BOOLEAN, verification_key_hash : Fp],
         NEW d \in [is_signed : BOOLEAN, is_proved : BOOLEAN, verification_key_hash : Fp],
         Same(AuthorizationKind(c), AuthorizationKind(d))
  PROVE  c = d
<1> DEFINE kind(k) == <<Bool(k.is_signed), Bool(k.is_proved), Field(k.verification_key_hash)>>
           a == kind(c)
           b == kind(d)
<1>1. /\ DOMAIN a = 1..3 /\ DOMAIN b = 1..3
      /\ AuthorizationKind(c) = Packed(a) /\ AuthorizationKind(d) = Packed(b)
  BY DEF AuthorizationKind
<1>2. Alike(a[1], b[1]) /\ Alike(a[2], b[2]) /\ Alike(a[3], b[3])
  BY BoolAlike, FieldAlike
<1> HIDE DEF a, b
<1>3. \A i \in 1..3 : i = 1 \/ i = 2 \/ i = 3
  OBVIOUS
<1>4. \A i \in 1..3 : Alike(a[i], b[i])
  BY <1>2, <1>3
<1>5. \A i \in 1..3 : Same(a[i], b[i])
  BY <1>1, <1>4, PackedTells
<1>6. Same(a[1], b[1]) /\ Same(a[2], b[2]) /\ Same(a[3], b[3])
  BY <1>5
<1>7. /\ Same(Bool(c.is_signed), Bool(d.is_signed)) /\ Same(Bool(c.is_proved), Bool(d.is_proved))
      /\ Same(Field(c.verification_key_hash), Field(d.verification_key_hash))
  BY <1>6 DEF a, b
<1>8. /\ c.is_signed = d.is_signed /\ c.is_proved = d.is_proved
      /\ c.verification_key_hash = d.verification_key_hash
  <2>1. /\ c.is_signed \in BOOLEAN /\ d.is_signed \in BOOLEAN
        /\ c.is_proved \in BOOLEAN /\ d.is_proved \in BOOLEAN
    OBVIOUS
  <2> QED BY <1>7, <2>1, BoolTells, FieldTells
<1> QED BY <1>8

(* The input of a body tells what Kept says it does, and no more.          *)
LEMMA BodyTells ==
  ASSUME NEW p \in BodyType, NEW q \in BodyType,
         Same(AccountUpdateInput(p), AccountUpdateInput(q))
  PROVE  BodyKept(p, q)
<1> DEFINE a == BodyParts(p)
           b == BodyParts(q)
<1>1. /\ DOMAIN a = 1..15 /\ DOMAIN b = 1..15
      /\ AccountUpdateInput(p) = Packed(a) /\ AccountUpdateInput(q) = Packed(b)
      /\ \A i \in 1..15 : Alike(a[i], b[i])
  BY BodyPartsAlike
<1> HIDE DEF a, b
<1>2. \A i \in 1..15 : Same(a[i], b[i])
  BY <1>1, PackedTells
<1>3. /\ Same(a[1], b[1]) /\ Same(a[2], b[2]) /\ Same(a[3], b[3]) /\ Same(a[4], b[4])
      /\ Same(a[5], b[5]) /\ Same(a[6], b[6]) /\ Same(a[7], b[7]) /\ Same(a[8], b[8])
  BY <1>2
<1>4. /\ Same(a[9], b[9]) /\ Same(a[10], b[10]) /\ Same(a[11], b[11]) /\ Same(a[12], b[12])
      /\ Same(a[13], b[13]) /\ Same(a[14], b[14]) /\ Same(a[15], b[15])
  BY <1>2
<1>5. /\ Same(PublicKey(p.public_key), PublicKey(q.public_key))
      /\ Same(Field(p.token_id), Field(q.token_id))
      /\ Same(UpdateInput(p.update), UpdateInput(q.update))
      /\ Same(BalanceChange(p.balance_change), BalanceChange(q.balance_change))
      /\ Same(Bool(p.increment_nonce), Bool(q.increment_nonce))
      /\ Same(Events(p.events), Events(q.events)) /\ Same(Actions(p.actions), Actions(q.actions))
      /\ Same(Field(p.call_data), Field(q.call_data))
  BY <1>3 DEF a, b, BodyParts
<1>6. /\ Same(NetworkPreconditions(p.preconditions.network), NetworkPreconditions(q.preconditions.network))
      /\ Same(AccountPreconditions(p.preconditions.account), AccountPreconditions(q.preconditions.account))
      /\ Same(OptionRange(p.preconditions.valid_while, 32), OptionRange(q.preconditions.valid_while, 32))
      /\ Same(Bool(p.use_full_commitment), Bool(q.use_full_commitment))
      /\ Same(Bool(p.implicit_account_creation_fee), Bool(q.implicit_account_creation_fee))
      /\ Same(MayUseToken(p.may_use_token), MayUseToken(q.may_use_token))
      /\ Same(AuthorizationKind(p.authorization_kind), AuthorizationKind(q.authorization_kind))
  BY <1>4 DEF a, b, BodyParts
<1>7. p.public_key = q.public_key /\ p.token_id = q.token_id /\ p.call_data = q.call_data
  <2>1. p.public_key \in PublicKeyType /\ q.public_key \in PublicKeyType
    BY DEF BodyType
  <2> QED BY <1>5, <2>1, KeyTells, FieldTells
<1>8. UpdateKept(p.update, q.update)
  <2>1. p.update \in UpdateType /\ q.update \in UpdateType
    BY DEF BodyType
  <2> QED BY <1>5, <2>1, UpdateTells
<1>9. p.balance_change = q.balance_change
  <2>1. /\ p.balance_change \in [magnitude : Machine(64), sgn : {1, -1}]
        /\ q.balance_change \in [magnitude : Machine(64), sgn : {1, -1}]
    BY DEF BodyType
  <2> QED BY <1>5, <2>1, BalanceTells
<1>10. /\ p.increment_nonce = q.increment_nonce /\ p.use_full_commitment = q.use_full_commitment
       /\ p.implicit_account_creation_fee = q.implicit_account_creation_fee
  <2>1. /\ p.increment_nonce \in BOOLEAN /\ q.increment_nonce \in BOOLEAN
        /\ p.use_full_commitment \in BOOLEAN /\ q.use_full_commitment \in BOOLEAN
        /\ p.implicit_account_creation_fee \in BOOLEAN /\ q.implicit_account_creation_fee \in BOOLEAN
    BY DEF BodyType
  <2> QED BY <1>5, <1>6, <2>1, BoolTells
<1>11. EvenLists(p.events) = EvenLists(q.events) /\ EvenLists(p.actions) = EvenLists(q.actions)
  <2>1. /\ p.events \in Seq(Seq(Fp)) /\ q.events \in Seq(Seq(Fp))
        /\ p.actions \in Seq(Seq(Fp)) /\ q.actions \in Seq(Seq(Fp))
    BY DEF BodyType
  <2> QED BY <1>5, <2>1, ListTells DEF Events, Actions
<1>12. p.preconditions = q.preconditions
  <2> DEFINE r == p.preconditions
             s == q.preconditions
  <2>1. /\ r \in [network : NetworkType, account : AccountType, valid_while : Optional(RangeType(32))]
        /\ s \in [network : NetworkType, account : AccountType, valid_while : Optional(RangeType(32))]
    BY DEF BodyType
  <2>2. /\ Same(NetworkPreconditions(r.network), NetworkPreconditions(s.network))
        /\ Same(AccountPreconditions(r.account), AccountPreconditions(s.account))
        /\ Same(OptionRange(r.valid_while, 32), OptionRange(s.valid_while, 32))
    BY <1>6
  <2> HIDE DEF r, s
  <2>3. /\ r.network \in NetworkType /\ s.network \in NetworkType
        /\ r.account \in AccountType /\ s.account \in AccountType
        /\ r.valid_while \in Optional(RangeType(32)) /\ s.valid_while \in Optional(RangeType(32))
    BY <2>1
  <2>4. r.network = s.network /\ r.account = s.account /\ r.valid_while = s.valid_while
    BY <2>2, <2>3, NetworkTells, AccountTells, OptionRangeTells
  <2>5. r = s
    BY <2>1, <2>4
  <2> QED BY <2>5 DEF r, s
<1>13. p.may_use_token = q.may_use_token /\ p.authorization_kind = q.authorization_kind
  <2>1. /\ p.may_use_token \in [parents_own_token : BOOLEAN, inherit_from_parent : BOOLEAN]
        /\ q.may_use_token \in [parents_own_token : BOOLEAN, inherit_from_parent : BOOLEAN]
    BY DEF BodyType
  <2>2. /\ p.authorization_kind \in [is_signed : BOOLEAN, is_proved : BOOLEAN, verification_key_hash : Fp]
        /\ q.authorization_kind \in [is_signed : BOOLEAN, is_proved : BOOLEAN, verification_key_hash : Fp]
    BY DEF BodyType
  <2> QED BY <1>6, <2>1, <2>2, MayUseTells, KindTells
<1> QED BY <1>7, <1>8, <1>9, <1>10, <1>11, <1>12, <1>13 DEF BodyKept

LEMMA BodyTold ==
  ASSUME NEW p \in BodyType, NEW q \in BodyType, BodyKept(p, q)
  PROVE  AccountUpdateInput(p) = AccountUpdateInput(q)
<1>1. UpdateInput(p.update) = UpdateInput(q.update)
  <2>1. p.update \in UpdateType /\ q.update \in UpdateType /\ UpdateKept(p.update, q.update)
    BY DEF BodyType, BodyKept
  <2> QED BY <2>1, UpdateTold
<1>2. Events(p.events) = Events(q.events) /\ Actions(p.actions) = Actions(q.actions)
  <2>1. /\ p.events \in Seq(Seq(Fp)) /\ q.events \in Seq(Seq(Fp))
        /\ p.actions \in Seq(Seq(Fp)) /\ q.actions \in Seq(Seq(Fp))
        /\ EvenLists(p.events) = EvenLists(q.events) /\ EvenLists(p.actions) = EvenLists(q.actions)
    BY DEF BodyType, BodyKept
  <2> QED BY <2>1, ListsAlike DEF Events, Actions
<1>3. BodyParts(p) = BodyParts(q)
  BY <1>1, <1>2 DEF BodyParts, BodyKept
<1> QED BY <1>3, BodyPartsAlike

\* The elements that are packed are behind the fields of the input.
LEMMA PackedBehind ==
  ASSUME NEW input, IsInput(input)
  PROVE  \E x \in Seq(Numbers) : pack_to_fields(input) = input.fields \o x
<1> DEFINE sizes == [i \in DOMAIN input.bits |-> Len(input.bits[i])]
<1>1. CASE input.bits = <<>>
  <2>1. PICK S : input.fields \in Seq(S)
    BY DEF IsInput
  <2>2. pack_to_fields(input) = input.fields /\ input.fields \o <<>> = input.fields
    BY <1>1, <2>1 DEF pack_to_fields
  <2>3. <<>> \in Seq(Numbers)
    OBVIOUS
  <2> QED BY <2>2, <2>3
<1>2. CASE input.bits # <<>>
  <2> DEFINE n == Len(input.bits)
  <2>1. n \in Nat /\ DOMAIN input.bits = 1..n
    BY LenProperties DEF IsInput
  <2>2. \A i \in 1..n : Len(input.bits[i]) \in Nat
    BY ElementOfSeq, LenProperties DEF IsInput
  <2>3. sizes = [i \in 1..n |-> Len(input.bits[i])]
    BY <2>1
  <2> HIDE DEF n
  <2>4. Len(sizes) = n /\ \A i \in 1..n : sizes[i] = Len(input.bits[i])
    <3>1. [i \in 1..n |-> Len(input.bits[i])] \in [1..n -> Nat]
      BY <2>2
    <3> HIDE DEF sizes
    <3> QED BY <2>1, <2>3, <3>1
  <2> HIDE DEF sizes
  <2>5. PICK raw, x : PackedRaw(input, Places(sizes), raw, x)
    BY <1>2, <2>4, PackedAre DEF n
  <2> QED BY <2>5 DEF PackedRaw
<1> QED BY <1>1, <1>2

\* Inputs of one layout are known from their elements, filled up.
LEMMA ElementsTell ==
  ASSUME NEW a, NEW b, Alike(a, b), Even(pack_to_fields(a)) = Even(pack_to_fields(b))
  PROVE  Same(a, b)
<1> DEFINE sizes(input) == [i \in DOMAIN input.bits |-> Len(input.bits[i])]
           elements(input) == SubSeq(pack_to_fields(input), Len(input.fields) + 1,
                                     Len(pack_to_fields(input)))
<1>1. IsInput(a) /\ IsInput(b)
  BY DEF Alike
<1>2. sizes(a) = sizes(b)
  <2> DEFINE n == Len(a.bits)
  <2>1. DOMAIN a.bits = 1..n /\ DOMAIN b.bits = 1..n
    BY <1>1, LenProperties DEF Alike, IsInput
  <2>2. \A i \in 1..n : Len(a.bits[i]) = Len(b.bits[i])
    BY DEF Alike
  <2> HIDE DEF n
  <2> QED BY <2>1, <2>2
<1> DEFINE places(input) == Places(sizes(input))
<1>3. /\ Len(elements(a)) = Len(places(a).widths)
      /\ Len(elements(b)) = Len(places(b).widths)
      /\ Unpack(elements(a), sizes(a), places(a)) = a.bits
      /\ Unpack(elements(b), sizes(b), places(b)) = b.bits
  BY <1>1, InputReadsBack DEF ReadsBack
<1>4. PICK x \in Seq(Numbers) : pack_to_fields(a) = a.fields \o x
  BY <1>1, PackedBehind
<1>5. PICK y \in Seq(Numbers) : pack_to_fields(b) = b.fields \o y
  BY <1>1, PackedBehind
<1>6. PICK S : a.fields \in Seq(S)
  BY <1>1 DEF IsInput
<1>7. PICK T : b.fields \in Seq(T)
  BY <1>1 DEF IsInput
<1>8. elements(a) = x /\ elements(b) = y
  <2>1. SubSeq(a.fields \o x, Len(a.fields) + 1, Len(a.fields \o x)) = x
    BY <1>6, BehindIs, Zenon
  <2>2. SubSeq(b.fields \o y, Len(b.fields) + 1, Len(b.fields \o y)) = y
    BY <1>7, BehindIs, Zenon
  <2> QED BY <1>4, <1>5, <2>1, <2>2
<1>9. places(a) = places(b)
  <2> HIDE DEF sizes
  <2> QED BY <1>2
<1> HIDE DEF sizes, elements, places
<1>10. Len(x) = Len(y)
  BY <1>3, <1>8, <1>9
<1> DEFINE U == S \cup T \cup Numbers
           s == a.fields \o x
           t == b.fields \o y
           l == Len(a.fields)
<1>11. a.fields \in Seq(U) /\ b.fields \in Seq(U) /\ x \in Seq(U) /\ y \in Seq(U)
  <2>1. S \subseteq U /\ T \subseteq U /\ Numbers \subseteq U
    OBVIOUS
  <2> HIDE DEF U
  <2> QED BY <1>6, <1>7, <2>1
<1>12. Len(a.fields) = l /\ Len(b.fields) = l /\ l \in Nat /\ Len(x) \in Nat
  <2>1. Len(a.fields) \in Nat
    BY <1>6, LenProperties, Zenon
  <2>2. Len(x) \in Nat
    BY LenProperties, Zenon
  <2>3. Len(a.fields) = Len(b.fields)
    BY DEF Alike
  <2> QED BY <2>1, <2>2, <2>3
<1> HIDE DEF U, l
<1>13. /\ s \in Seq(U) /\ Len(s) = l + Len(x) /\ \A k \in 1..l : s[k] = a.fields[k]
       /\ t \in Seq(U) /\ Len(t) = l + Len(x) /\ \A k \in 1..l : t[k] = b.fields[k]
  <2>1. ASSUME NEW f \in Seq(U), NEW z \in Seq(U), Len(f) = l, Len(z) = Len(x)
        PROVE  /\ f \o z \in Seq(U) /\ Len(f \o z) = l + Len(x)
               /\ \A k \in 1..l : (f \o z)[k] = f[k]
    <3>1. /\ f \o z \in Seq(U) /\ Len(f \o z) = Len(f) + Len(z)
          /\ \A k \in 1..(Len(f) + Len(z)) :
               (f \o z)[k] = IF k <= Len(f) THEN f[k] ELSE z[k - Len(f)]
      BY ConcatProperties
    <3>2. \A k \in 1..l : k \in 1..(Len(f) + Len(z)) /\ k <= Len(f)
      BY <1>12, <2>1
    <3> QED BY <2>1, <3>1, <3>2
  <2> QED BY <1>10, <1>11, <1>12, <2>1
<1>14. s = t
  <2>1. Even(s) = Even(t)
    BY <1>4, <1>5
  <2> HIDE DEF s, t
  <2>2. Len(s) = Len(t)
    BY <1>13
  <2> QED BY <1>13, <2>1, <2>2, EvenTells
<1>15. a.fields = b.fields
  <2>1. \A k \in 1..l : a.fields[k] = b.fields[k]
    <3> HIDE DEF s, t
    <3> QED BY <1>13, <1>14
  <2> QED BY <1>11, <1>12, <2>1, SeqsSame
<1>16. elements(a) = elements(b)
  BY <1>4, <1>5, <1>14, <1>15 DEF elements
<1>17. a.bits = b.bits
  BY <1>2, <1>3, <1>9, <1>16
<1> QED BY <1>15, <1>17 DEF Same

\* Bodies have one hash exactly where Kept makes the same of them.
LEMMA HashTells ==
  ASSUME NEW p \in BodyType, NEW q \in BodyType
  PROVE  hash_account_update(p) = hash_account_update(q) <=> Kept(p) = Kept(q)
<1> DEFINE a == AccountUpdateInput(p)
           b == AccountUpdateInput(q)
<1>1. ASSUME hash_account_update(p) = hash_account_update(q) PROVE Kept(p) = Kept(q)
  <2>1. Even(pack_to_fields(a)) = Even(pack_to_fields(b))
    <3> DEFINE x == Even(pack_to_fields(a))
               y == Even(pack_to_fields(b))
    <3>1. hash_account_update(p) = [prefix |-> BodyPrefix, data |-> x]
          /\ hash_account_update(q) = [prefix |-> BodyPrefix, data |-> y]
      BY Zenon DEF hash_account_update, hash_with_prefix
    <3> HIDE DEF x, y
    <3>2. x = y
      <4>1. [prefix |-> BodyPrefix, data |-> x] = [prefix |-> BodyPrefix, data |-> y]
        BY <1>1, <3>1, Zenon
      <4>2. [prefix |-> BodyPrefix, data |-> x].data = x /\ [prefix |-> BodyPrefix, data |-> y].data = y
        OBVIOUS
      <4> QED BY <4>1, <4>2, Zenon
    <3> QED BY <3>2 DEF x, y
  <2>2. Alike(a, b)
    BY BodyAlike
  <2> HIDE DEF a, b
  <2>3. Same(a, b)
    BY <2>1, <2>2, ElementsTell
  <2>4. BodyKept(p, q)
    BY <2>3, BodyTells DEF a, b
  <2> QED BY <2>4, KeptTells
<1>2. ASSUME Kept(p) = Kept(q) PROVE hash_account_update(p) = hash_account_update(q)
  <2>1. BodyKept(p, q)
    BY <1>2, KeptTells
  <2>2. a = b
    BY <2>1, BodyTold
  <2> QED BY <2>2 DEF hash_account_update
<1> QED BY <1>1, <1>2

(* What a fee payer makes of the default body. *)
PaidWith(p, k, c, s, n) ==
  [p EXCEPT !.public_key = k, !.balance_change = c, !.increment_nonce = TRUE,
            !.preconditions.network.global_slot_since_genesis = s,
            !.preconditions.account.nonce = n,
            !.use_full_commitment = TRUE, !.implicit_account_creation_fee = TRUE]

IsPaid(p, k, c, s, n, e) ==
  /\ DOMAIN e = BodyMembers /\ e = [x \in BodyMembers |-> e[x]]
  /\ e.public_key = k /\ e.balance_change = c /\ e.increment_nonce = TRUE
  /\ e.use_full_commitment = TRUE /\ e.implicit_account_creation_fee = TRUE
  /\ e.token_id = p.token_id /\ e.update = p.update /\ e.events = p.events
  /\ e.actions = p.actions /\ e.call_data = p.call_data /\ e.call_depth = p.call_depth
  /\ e.may_use_token = p.may_use_token /\ e.authorization_kind = p.authorization_kind
  /\ e.preconditions =
       [p.preconditions EXCEPT !.network.global_slot_since_genesis = s, !.account.nonce = n]

\* Each member of that body.
LEMMA PaidWithIs ==
  ASSUME NEW p \in BodyType, NEW k, NEW c, NEW s, NEW n
  PROVE  IsPaid(p, k, c, s, n, PaidWith(p, k, c, s, n))
<1> DEFINE e == PaidWith(p, k, c, s, n)
           p1 == [p EXCEPT !.public_key = k, !.balance_change = c, !.increment_nonce = TRUE]
           q1 == [p.preconditions EXCEPT !.network.global_slot_since_genesis = s]
           p2 == [p1 EXCEPT !.preconditions = q1]
           q2 == [q1 EXCEPT !.account.nonce = n]
           p3 == [p2 EXCEPT !.preconditions = q2]
           p4 == [p3 EXCEPT !.use_full_commitment = TRUE, !.implicit_account_creation_fee = TRUE]
<1>1. DOMAIN p = BodyMembers
  BY DEF BodyType, BodyMembers
<1>2. e = p4
  BY <1>1 DEF PaidWith, BodyMembers
<1>3. q2 = [p.preconditions EXCEPT !.network.global_slot_since_genesis = s, !.account.nonce = n]
  OBVIOUS
<1> HIDE DEF q1, q2, e
<1>4. DOMAIN p1 = BodyMembers /\ DOMAIN p2 = BodyMembers /\ DOMAIN p3 = BodyMembers
           /\ DOMAIN p4 = BodyMembers
  BY <1>1
<1>5. /\ p1.public_key = k /\ p1.balance_change = c /\ p1.increment_nonce = TRUE
      /\ p1.token_id = p.token_id /\ p1.update = p.update /\ p1.events = p.events
      /\ p1.actions = p.actions /\ p1.call_data = p.call_data /\ p1.call_depth = p.call_depth
      /\ p1.may_use_token = p.may_use_token /\ p1.authorization_kind = p.authorization_kind
  BY <1>1 DEF BodyMembers
<1> HIDE DEF p1
<1>6. \A x \in BodyMembers : x # "preconditions" => p2[x] = p1[x]
  BY <1>4
<1> HIDE DEF p2
<1>7. (\A x \in BodyMembers : x # "preconditions" => p3[x] = p2[x]) /\ p3.preconditions = q2
  BY <1>4 DEF BodyMembers
<1> HIDE DEF p3
<1>8. /\ \A x \in BodyMembers : x \notin {"use_full_commitment", "implicit_account_creation_fee"} => p4[x] = p3[x]
      /\ p4.use_full_commitment = TRUE /\ p4.implicit_account_creation_fee = TRUE
  BY <1>4 DEF BodyMembers
<1>9. p4 = [x \in BodyMembers |-> p4[x]]
  <2>1. p4 = [x \in DOMAIN p4 |-> p4[x]]
    BY Zenon
  <2> HIDE DEF p4
  <2> QED BY <1>4, <2>1
<1> HIDE DEF p4
<1>10. /\ p4.public_key = k /\ p4.balance_change = c /\ p4.increment_nonce = TRUE
       /\ p4.token_id = p.token_id /\ p4.update = p.update /\ p4.events = p.events
       /\ p4.actions = p.actions /\ p4.call_data = p.call_data /\ p4.call_depth = p.call_depth
       /\ p4.may_use_token = p.may_use_token /\ p4.authorization_kind = p.authorization_kind
       /\ p4.preconditions = q2
  <2> DEFINE M == {"public_key", "balance_change", "increment_nonce", "token_id", "update", "events",
                   "actions", "call_data", "call_depth", "may_use_token", "authorization_kind"}
  <2>1. \A x \in M : x \in BodyMembers /\ x # "preconditions"
                     /\ x \notin {"use_full_commitment", "implicit_account_creation_fee"}
    BY DEF BodyMembers
  <2>2. \A x \in M : p4[x] = p1[x]
    <3> HIDE DEF M
    <3> QED BY <1>6, <1>7, <1>8, <2>1
  <2>3. p4.preconditions = q2
    BY <1>7, <1>8 DEF BodyMembers
  <2> QED BY <1>5, <2>2, <2>3
<1> QED BY <1>2, <1>3, <1>4, <1>8, <1>9, <1>10 DEF e, IsPaid

PreconditionsType == [network : NetworkType, account : AccountType, valid_while : Optional(RangeType(32))]

\* Some value of a set is an Option of it.
LEMMA OptionalHas ==
  ASSUME NEW S, NEW x \in S PROVE <<x>> \in Optional(S)
BY DEF Optional

HasSlot(s, n, q) ==
  q \in PreconditionsType /\ q.network.global_slot_since_genesis = s /\ q.account.nonce = n

\* Preconditions but for the slot and the nonce set are what they were.
LEMMA PreconditionsWithSlot ==
  ASSUME NEW r \in PreconditionsType,
         NEW s \in Optional(RangeType(32)), NEW n \in Optional(RangeType(32))
  PROVE  HasSlot(s, n, [r EXCEPT !.network.global_slot_since_genesis = s, !.account.nonce = n])
<1> DEFINE q1 == [r EXCEPT !.network.global_slot_since_genesis = s]
           q == [r EXCEPT !.network.global_slot_since_genesis = s, !.account.nonce = n]
<1>1. q1 \in PreconditionsType /\ q1.network.global_slot_since_genesis = s
  BY DEF PreconditionsType, NetworkType
<1>2. q = [q1 EXCEPT !.account.nonce = n]
  OBVIOUS
<1> HIDE DEF q1, q
<1>3. q \in PreconditionsType /\ q.network = q1.network /\ q.account.nonce = n
  BY <1>1, <1>2 DEF PreconditionsType, AccountType
<1> QED BY <1>1, <1>3 DEF q, HasSlot

\* What a fee payer is turned into is a body, with the slot and nonce it has.
LEMMA PayerBodyIs ==
  ASSUME NEW f \in FeePayerType
  PROVE  /\ AccountUpdateFrom(f) \in BodyType
         /\ AccountUpdateFrom(f).public_key = f.public_key
         /\ AccountUpdateFrom(f).balance_change = [magnitude |-> f.fee, sgn |-> -1]
         /\ AccountUpdateFrom(f).preconditions.network.global_slot_since_genesis
              = <<[lower |-> Zeros(32), upper |-> LastSlot(f)]>>
         /\ AccountUpdateFrom(f).preconditions.account.nonce
              = <<[lower |-> f.nonce, upper |-> f.nonce]>>
<1> DEFINE e == AccountUpdateFrom(f)
           k == f.public_key
           c == [magnitude |-> f.fee, sgn |-> -1]
           s == <<[lower |-> Zeros(32), upper |-> LastSlot(f)]>>
           n == <<[lower |-> f.nonce, upper |-> f.nonce]>>
           p == DefaultBody
<1>1. e = PaidWith(p, k, c, s, n)
  BY DEF AccountUpdateFrom, PaidWith
<1>2. p \in BodyType
  BY DefaultType
<1>3. k \in PublicKeyType /\ c \in [magnitude : Machine(64), sgn : {1, -1}]
  BY DEF FeePayerType
<1>4. LastSlot(f) \in Machine(32) /\ f.nonce \in Machine(32) /\ Zeros(32) \in Machine(32)
  <2>1. f.valid_until \in Optional(Machine(32)) /\ f.nonce \in Machine(32)
    BY DEF FeePayerType
  <2>2. Zeros(32) \in Machine(32) /\ Ones(32) \in Machine(32)
    BY EmptyWords
  <2> QED BY <2>1, <2>2, OptionalGiven DEF LastSlot
<1>5. s \in Optional(RangeType(32)) /\ n \in Optional(RangeType(32))
  <2>1. /\ [lower |-> Zeros(32), upper |-> LastSlot(f)] \in RangeType(32)
        /\ [lower |-> f.nonce, upper |-> f.nonce] \in RangeType(32)
    BY <1>4 DEF RangeType
  <2> QED BY <2>1, OptionalHas
<1> HIDE DEF e, k, c, s, n, p
<1>6. IsPaid(p, k, c, s, n, e)
  BY <1>1, <1>2, PaidWithIs, Zenon
<1>7. p.preconditions \in PreconditionsType
  BY <1>2 DEF BodyType, PreconditionsType
<1>8. /\ e.preconditions \in PreconditionsType
      /\ e.preconditions.network.global_slot_since_genesis = s /\ e.preconditions.account.nonce = n
  <2>1. e.preconditions =
          [p.preconditions EXCEPT !.network.global_slot_since_genesis = s, !.account.nonce = n]
    BY <1>6 DEF IsPaid
  <2>2. HasSlot(s, n, e.preconditions)
    <3> DEFINE r == p.preconditions
    <3>1. r \in PreconditionsType
      BY <1>7
    <3> HIDE DEF r
    <3>2. HasSlot(s, n, [r EXCEPT !.network.global_slot_since_genesis = s, !.account.nonce = n])
      BY <1>5, <3>1, PreconditionsWithSlot
    <3>3. HasSlot(s, n, [p.preconditions EXCEPT !.network.global_slot_since_genesis
               = s, !.account.nonce = n])
      BY <3>2 DEF r
    <3> QED BY <2>1, <3>3, Zenon
  <2> QED BY <2>2 DEF HasSlot
<1>9. e \in BodyType
  <2>1. e = [public_key |-> e.public_key, token_id |-> e.token_id, update |-> e.update,
             balance_change |-> e.balance_change, increment_nonce |-> e.increment_nonce,
             events |-> e.events, actions |-> e.actions,
             call_data |-> e.call_data, call_depth |-> e.call_depth,
             preconditions |-> e.preconditions,
             use_full_commitment |-> e.use_full_commitment,
             implicit_account_creation_fee |-> e.implicit_account_creation_fee,
             may_use_token |-> e.may_use_token, authorization_kind |-> e.authorization_kind]
    BY <1>6 DEF BodyMembers, IsPaid
  <2>2. /\ e.public_key \in PublicKeyType /\ e.token_id \in Numbers /\ e.update \in UpdateType
        /\ e.balance_change \in [magnitude : Machine(64), sgn : {1, -1}]
        /\ e.increment_nonce \in BOOLEAN
        /\ e.events \in Seq(Seq(Fp)) /\ e.actions \in Seq(Seq(Fp)) /\ e.call_data \in Fp
        /\ e.call_depth \in Nat
    BY <1>2, <1>3, <1>6 DEF BodyType, IsPaid
  <2>3. /\ e.use_full_commitment \in BOOLEAN /\ e.implicit_account_creation_fee \in BOOLEAN
        /\ e.may_use_token \in [parents_own_token : BOOLEAN, inherit_from_parent : BOOLEAN]
        /\ e.authorization_kind \in [is_signed : BOOLEAN, is_proved : BOOLEAN, verification_key_hash : Fp]
    BY <1>2, <1>6 DEF BodyType, IsPaid
  <2> QED BY <1>8, <2>1, <2>2, <2>3 DEF BodyType, PreconditionsType
<1> QED BY <1>6, <1>8, <1>9 DEF IsPaid, e, k, c, s, n

\* A fee payer, but for a last slot that is not said to be the last.
Paid(f) == [f EXCEPT !.valid_until = <<LastSlot(f)>>]

\* Paid is known from the members of the fee payer, and they from it.
LEMMA PaidIs ==
  ASSUME NEW f \in FeePayerType, NEW g \in FeePayerType
  PROVE  Paid(f) = Paid(g) <=> /\ f.public_key = g.public_key /\ f.fee = g.fee
                               /\ f.nonce = g.nonce /\ LastSlot(f) = LastSlot(g)
<1> DEFINE M == {"public_key", "fee", "nonce", "valid_until"}
<1>1. ASSUME NEW h \in FeePayerType
      PROVE  /\ DOMAIN Paid(h) = M /\ Paid(h) = [x \in M |-> Paid(h)[x]]
             /\ Paid(h).public_key = h.public_key /\ Paid(h).fee = h.fee
             /\ Paid(h).nonce = h.nonce /\ Paid(h).valid_until = <<LastSlot(h)>>
  <2> DEFINE s == <<LastSlot(h)>>
             e == [h EXCEPT !.valid_until = s]
  <2>1. DOMAIN h = M
    BY DEF FeePayerType
  <2> HIDE DEF s
  <2>2. /\ DOMAIN e = M /\ e.public_key = h.public_key /\ e.fee = h.fee
        /\ e.nonce = h.nonce /\ e.valid_until = s
    BY <2>1
  <2>3. e = [x \in M |-> e[x]]
    <3>1. e = [x \in DOMAIN e |-> e[x]]
      BY Zenon
    <3> HIDE DEF e
    <3> QED BY <2>2, <3>1
  <2> QED BY <2>2, <2>3 DEF Paid, s
<1>2. \A x : <<x>>[1] = x
  OBVIOUS
<1>3. ASSUME Paid(f) = Paid(g)
      PROVE  /\ f.public_key = g.public_key /\ f.fee = g.fee
             /\ f.nonce = g.nonce /\ LastSlot(f) = LastSlot(g)
  <2> HIDE DEF M
  <2>1. /\ f.public_key = g.public_key /\ f.fee = g.fee /\ f.nonce = g.nonce
        /\ <<LastSlot(f)>> = <<LastSlot(g)>>
    BY <1>1, <1>3
  <2> QED BY <1>2, <2>1
<1>4. ASSUME f.public_key = g.public_key, f.fee = g.fee, f.nonce = g.nonce, LastSlot(f) = LastSlot(g)
      PROVE  Paid(f) = Paid(g)
  <2>1. /\ Paid(f).public_key = Paid(g).public_key /\ Paid(f).fee = Paid(g).fee
        /\ Paid(f).nonce = Paid(g).nonce /\ Paid(f).valid_until = Paid(g).valid_until
    <3> HIDE DEF M
    <3> QED BY <1>1, <1>4
  <2>2. \A x \in M : Paid(f)[x] = Paid(g)[x]
    BY <2>1
  <2>3. Paid(f) = [x \in M |-> Paid(f)[x]] /\ Paid(g) = [x \in M |-> Paid(g)[x]]
    BY <1>1
  <2> HIDE DEF M
  <2> QED BY <2>2, <2>3
<1> QED BY <1>3, <1>4

\* Fee payers have one hash exactly where Paid makes the same of them.
LEMMA FeePayerTells ==
  ASSUME NEW f \in FeePayerType, NEW g \in FeePayerType
  PROVE  hash_account_update(AccountUpdateFrom(f)) = hash_account_update(AccountUpdateFrom(g))
           <=> Paid(f) = Paid(g)
<1> DEFINE p == AccountUpdateFrom(f)
           q == AccountUpdateFrom(g)
<1>1. /\ p \in BodyType /\ q \in BodyType
      /\ p.public_key = f.public_key /\ q.public_key = g.public_key
      /\ p.balance_change = [magnitude |-> f.fee, sgn |-> -1]
      /\ q.balance_change = [magnitude |-> g.fee, sgn |-> -1]
      /\ p.preconditions.network.global_slot_since_genesis
           = <<[lower |-> Zeros(32), upper |-> LastSlot(f)]>>
      /\ q.preconditions.network.global_slot_since_genesis
           = <<[lower |-> Zeros(32), upper |-> LastSlot(g)]>>
      /\ p.preconditions.account.nonce = <<[lower |-> f.nonce, upper |-> f.nonce]>>
      /\ q.preconditions.account.nonce = <<[lower |-> g.nonce, upper |-> g.nonce]>>
  BY PayerBodyIs
<1>2. ASSUME Paid(f) = Paid(g) PROVE p = q
  <2>1. f.public_key = g.public_key /\ f.fee = g.fee /\ f.nonce = g.nonce /\ LastSlot(f) = LastSlot(g)
    BY <1>2, PaidIs
  <2> QED BY <2>1, Zenon DEF AccountUpdateFrom
<1> HIDE DEF p, q
<1>3. ASSUME hash_account_update(p) = hash_account_update(q) PROVE Paid(f) = Paid(g)
  <2>1. BodyKept(p, q)
    BY <1>1, <1>3, HashTells, KeptTells
  <2>2. /\ p.public_key = q.public_key /\ p.balance_change = q.balance_change
        /\ p.preconditions = q.preconditions
    BY <2>1 DEF BodyKept
  <2>3. /\ <<[lower |-> Zeros(32), upper |-> LastSlot(f)]>>
                = <<[lower |-> Zeros(32), upper |-> LastSlot(g)]>>
        /\ <<[lower |-> f.nonce, upper |-> f.nonce]>> = <<[lower |-> g.nonce, upper |-> g.nonce]>>
        /\ [magnitude |-> f.fee, sgn |-> -1] = [magnitude |-> g.fee, sgn |-> -1]
        /\ f.public_key = g.public_key
    BY <1>1, <2>2
  <2>4. \A a, b, c, d : <<[lower |-> a, upper |-> b]>> = <<[lower |-> c, upper |-> d]>> => b = d
    OBVIOUS
  <2>5. \A a, b : [magnitude |-> a, sgn |-> -1] = [magnitude |-> b, sgn |-> -1] => a = b
    OBVIOUS
  <2>6. LastSlot(f) = LastSlot(g) /\ f.nonce = g.nonce /\ f.fee = g.fee
    BY <2>3, <2>4, <2>5, Zenon
  <2> QED BY <2>3, <2>6, PaidIs
<1> QED BY <1>2, <1>3 DEF p, q

\* A sequence read from its end has its elements, and is known from that.
LEMMA Reversed ==
  ASSUME NEW S, NEW s \in Seq(S)
  PROVE  /\ Reverse(s) \in Seq(S) /\ Len(Reverse(s)) = Len(s)
         /\ \A i \in 1..Len(s) : Reverse(s)[i] = s[(Len(s) - i) + 1]
<1>1. Len(s) \in Nat /\ \A i \in 1..Len(s) : s[i] \in S /\ (Len(s) - i) + 1 \in 1..Len(s)
  BY ElementOfSeq, LenProperties
<1> DEFINE n == Len(s)
           r == [i \in 1..n |-> s[(n - i) + 1]]
<1>2. Reverse(s) = r
  BY DEF Reverse
<1>3. n \in Nat /\ \A i \in 1..n : s[(n - i) + 1] \in S
  BY <1>1
<1> HIDE DEF n
<1>4. r \in [1..n -> S]
  BY <1>3
<1>5. r \in Seq(S) /\ Len(r) = n /\ \A i \in 1..n : r[i] = s[(n - i) + 1]
  <2>1. \A i \in 1..n : r[i] = s[(n - i) + 1]
    OBVIOUS
  <2> HIDE DEF r
  <2>2. r \in Seq(S) /\ Len(r) = n
    BY <1>3, <1>4
  <2> QED BY <2>1, <2>2
<1> HIDE DEF r
<1> QED BY <1>2, <1>5 DEF n

LEMMA ReverseTells ==
  ASSUME NEW S, NEW s \in Seq(S), NEW t \in Seq(S), Len(s) = Len(t), Reverse(s) = Reverse(t)
  PROVE  s = t
<1>1. Len(s) \in Nat
  BY LenProperties
<1>2. ASSUME NEW k \in 1..Len(s) PROVE s[k] = t[k]
  <2> DEFINE i == (Len(s) - k) + 1
  <2>1. i \in 1..Len(s) /\ (Len(s) - i) + 1 = k
    BY <1>1
  <2> HIDE DEF i
  <2>2. Reverse(s)[i] = s[(Len(s) - i) + 1] /\ Reverse(t)[i] = t[(Len(t) - i) + 1]
    BY <2>1, Reversed
  <2>3. s[(Len(s) - i) + 1] = t[(Len(s) - i) + 1]
    BY <2>2
  <2> QED BY <2>1, <2>3
<1> QED BY <1>2, SeqsSame

\* The bits of a memo, in the pieces they come in and in the two elements they are packed into.
Octets(memo) == [i \in 1..34 |-> Reverse(Bits(memo[i], 8))]
MemoElement(bits, a, b) == Number(Reverse(SubSeq(bits, a, b)))

MemoType == [1..34 -> Byte]
InOctets(bits, octets, memo) ==
  /\ bits = FlattenSeq(octets)
  /\ octets \in Seq(Seq(Bit)) /\ Len(octets) = 34
  /\ \A i \in 1..34 : Len(octets[i]) = 8 /\ octets[i] = Reverse(Bits(memo[i], 8))
  /\ bits \in Seq(Bit) /\ Len(bits) = 272

\* A memo is 34 octets.
LEMMA OctetsAre ==
  ASSUME NEW memo \in MemoType
  PROVE  InOctets(BitsOfBytes(memo), Octets(memo), memo)
<1> DEFINE o == Octets(memo)
<1>1. BitsOfBytes(memo) = FlattenSeq(o)
  BY DEF BitsOfBytes, Octets, MemoType
<1>2. ASSUME NEW v \in Byte
      PROVE  Bits(v, 8) \in Seq(Bit) /\ Len(Bits(v, 8)) = 8
  <2> DEFINE w == 8
  <2>1. v \in Int /\ w \in Nat
    BY DEF Byte
  <2>2. Bits(v, w) \in Machine(w)
    <3> HIDE DEF w
    <3> QED BY <2>1, BitsAreBits
  <2> HIDE DEF w
  <2>3. Bits(v, w) \in Seq(Bit) /\ Len(Bits(v, w)) = w
    BY <2>1, <2>2, MachineIsSeq
  <2> QED BY <2>3 DEF w
<1>3. \A v \in Byte : Reverse(Bits(v, 8)) \in Seq(Bit) /\ Len(Reverse(Bits(v, 8))) = 8
  BY <1>2, Reversed
<1>4. o = [i \in 1..34 |-> Reverse(Bits(memo[i], 8))]
  BY DEF Octets
<1>5. \A i \in 1..34 : memo[i] \in Byte
  BY DEF MemoType
<1> HIDE DEF o
<1>6. /\ \A i \in 1..34 : o[i] = Reverse(Bits(memo[i], 8)) /\ Len(o[i]) = 8
      /\ o \in [1..34 -> Seq(Bit)]
  BY <1>3, <1>4, <1>5
<1>7. o \in Seq(Seq(Bit)) /\ Len(o) = 34
  <2> DEFINE n == 34
             X == Seq(Bit)
  <2>1. n \in Nat
    OBVIOUS
  <2> HIDE DEF n, X
  <2>2. \A f \in [1..n -> X] : f \in Seq(X) /\ Len(f) = n
    BY <2>1, FunctionIsSeq
  <2> QED BY <1>6, <2>2 DEF n, X
<1>8. FlattenSeq(o) \in Seq(Bit) /\ Len(FlattenSeq(o)) = 8 * 34
  BY <1>6, <1>7, FlattenOctets
<1>9. 8 * 34 = 272
  OBVIOUS
<1> QED BY <1>1, <1>4, <1>6, <1>7, <1>8, <1>9 DEF InOctets, o

\* They are packed into two elements,
LEMMA MemoPacked ==
  ASSUME NEW bits \in Seq(Bit), Len(bits) = 272
  PROVE  pack_bool_to_field_legacy(bits)
           = <<MemoElement(bits, 1, 254), MemoElement(bits, 255, 272)>>
<1> DEFINE element(c) == Number(Reverse(SubSeq(bits, 254 * (c - 1) + 1, IF 254 * c < 272 THEN 254 * c ELSE 272)))
<1>1. pack_bool_to_field_legacy(bits) = [c \in 1..2 |-> element(c)]
  <2>1. (272 + 253) \div 254 = 2
    OBVIOUS
  <2> QED BY <2>1 DEF pack_bool_to_field_legacy
<1>2. element(1) = MemoElement(bits, 1, 254)
  <2>1. 254 * (1 - 1) + 1 = 1 /\ 254 * 1 < 272 /\ 254 * 1 = 254
    OBVIOUS
  <2> QED BY <2>1 DEF MemoElement
<1>3. element(2) = MemoElement(bits, 255, 272)
  <2>1. 254 * (2 - 1) + 1 = 255 /\ ~(254 * 2 < 272)
    OBVIOUS
  <2> QED BY <2>1 DEF MemoElement
<1> HIDE DEF element
<1>4. [c \in 1..2 |-> element(c)] = <<element(1), element(2)>>
  OBVIOUS
<1> QED BY <1>1, <1>2, <1>3, <1>4

AlikeFrom(s, t, a, b) == \A k \in a..b : s[k] = t[k]
OneElement(a, b, n) == a \in Nat /\ b \in Nat /\ 1 <= a /\ a <= b /\ b <= n /\ b - a < 254
\* each of which tells its bits,
LEMMA MemoElementTells ==
  ASSUME NEW s \in Seq(Bit), NEW t \in Seq(Bit), NEW n, Len(s) = n, Len(t) = n,
         NEW a, NEW b, OneElement(a, b, n), MemoElement(s, a, b) = MemoElement(t, a, b)
  PROVE  AlikeFrom(s, t, a, b)
<1>0. a \in Nat /\ b \in Nat /\ 1 <= a /\ a <= b /\ b <= Len(s) /\ b - a < 254
      /\ Len(s) = Len(t) /\ Len(t) \in Nat
  BY LenProperties DEF OneElement
<1> DEFINE x == SubSeq(s, a, b)
           y == SubSeq(t, a, b)
<1>1. Len(s) \in Nat /\ \A i \in a..b : s[i] \in Bit /\ t[i] \in Bit
  <2>1. Len(s) \in Nat /\ \A i \in 1..Len(s) : s[i] \in Bit /\ t[i] \in Bit
    BY ElementOfSeq, LenProperties
  <2> QED BY <1>0, <2>1
<1>2. /\ x \in Seq(Bit) /\ Len(x) = IF a <= b THEN b - a + 1 ELSE 0
      /\ \A i \in 1..(b - a + 1) : x[i] = s[a + i - 1]
  BY <1>0, <1>1, SubSeqProperties
<1>3. /\ y \in Seq(Bit) /\ Len(y) = IF a <= b THEN b - a + 1 ELSE 0
      /\ \A i \in 1..(b - a + 1) : y[i] = t[a + i - 1]
  BY <1>0, <1>1, SubSeqProperties
<1>4. Number(Reverse(x)) = Number(Reverse(y))
  BY DEF MemoElement
<1> HIDE DEF x, y
<1>5. Len(x) = b - a + 1 /\ Len(y) = b - a + 1
  BY <1>0, <1>2, <1>3
<1>6. Reverse(x) \in Seq(Bit) /\ Reverse(y) \in Seq(Bit) /\ Len(Reverse(x)) = b - a + 1
           /\ Len(Reverse(y)) = b - a + 1
  BY <1>2, <1>3, <1>5, Reversed
<1>7. Reverse(x) = Reverse(y)
  <2>1. Len(Reverse(x)) < 255 /\ Len(Reverse(x)) = Len(Reverse(y))
    BY <1>0, <1>6
  <2> QED BY <1>4, <1>6, <2>1, NumberTells
<1>8. x = y
  BY <1>2, <1>3, <1>5, <1>7, ReverseTells
<1>9. ASSUME NEW k \in a..b PROVE s[k] = t[k]
  <2> DEFINE i == k - a + 1
  <2>1. i \in 1..(b - a + 1) /\ a + i - 1 = k
    BY <1>0
  <2> HIDE DEF i
  <2>2. x[i] = s[k] /\ y[i] = t[k]
    BY <1>2, <1>3, <2>1
  <2> QED BY <1>8, <2>2
<1> QED BY <1>9 DEF AlikeFrom

LEMMA PiecesTell ==
  ASSUME NEW s \in Seq(Bit), NEW t \in Seq(Bit), NEW n, Len(s) = n, Len(t) = n,
         NEW a, NEW p, NEW q, a = 1, \A k \in 1..n : k \in 1..p \/ k \in q..n,
         OneElement(a, p, n), MemoElement(s, a, p) = MemoElement(t, a, p),
         OneElement(q, n, n), MemoElement(s, q, n) = MemoElement(t, q, n)
  PROVE  s = t
<1>1. AlikeFrom(s, t, a, p)
  BY MemoElementTells, Zenon
<1>2. AlikeFrom(s, t, q, n)
  BY MemoElementTells, Zenon
<1>3. \A k \in 1..n : s[k] = t[k]
  BY <1>1, <1>2 DEF AlikeFrom
<1>4. Len(s) = Len(t) /\ \A k \in 1..Len(s) : s[k] = t[k]
  BY <1>3
<1> QED BY <1>4, SeqsSame

\* and both tell them all;
LEMMA MemoBitsTell ==
  ASSUME NEW s \in Seq(Bit), NEW t \in Seq(Bit), Len(s) = 272, Len(t) = 272,
         MemoElement(s, 1, 254) = MemoElement(t, 1, 254),
         MemoElement(s, 255, 272) = MemoElement(t, 255, 272)
  PROVE  s = t
<1> DEFINE n == 272
           a == 1
           p == 254
           q == 255
<1>1. OneElement(a, p, n) /\ OneElement(q, n, n)
  BY DEF OneElement
<1>2. a = 1 /\ \A k \in 1..n : k \in 1..p \/ k \in q..n
  OBVIOUS
<1>3. Len(s) = n /\ Len(t) = n
  OBVIOUS
<1>4. MemoElement(s, a, p) = MemoElement(t, a, p) /\ MemoElement(s, q, n) = MemoElement(t, q, n)
  OBVIOUS
<1> HIDE DEF n, a, p, q
<1> QED BY <1>1, <1>2, <1>3, <1>4, PiecesTell

\* the bits tell the octets, and these the bytes.
LEMMA OctetTells ==
  ASSUME NEW v \in Byte, NEW w \in Byte, Reverse(Bits(v, 8)) = Reverse(Bits(w, 8))
  PROVE  v = w
<1> DEFINE z == 8
<1>1. v \in Int /\ w \in Int /\ z \in Nat
  BY DEF Byte
<1>2. Bits(v, z) \in Machine(z) /\ Bits(w, z) \in Machine(z)
  <2> HIDE DEF z
  <2> QED BY <1>1, BitsAreBits
<1> DEFINE x == Bits(v, z)
           y == Bits(w, z)
<1>3. Reverse(x) = Reverse(y)
  OBVIOUS
<1>4. x \in Machine(z) /\ y \in Machine(z)
  BY <1>2
<1>5. x \in Seq(Bit) /\ Len(x) = z /\ y \in Seq(Bit) /\ Len(y) = z
  <2> HIDE DEF x, y, z
  <2> QED BY <1>1, <1>4, MachineIsSeq
<1>6. x = y
  <2> HIDE DEF x, y, z
  <2> QED BY <1>3, <1>5, ReverseTells
<1>7. Bits(v, 8) = Bits(w, 8)
  BY <1>6
<1> QED BY <1>7, BitsTell, Zenon

LEMMA OctetsTell ==
  ASSUME NEW m \in MemoType, NEW l \in MemoType, BitsOfBytes(m) = BitsOfBytes(l)
  PROVE  m = l
<1> DEFINE x == Octets(m)
           y == Octets(l)
           b == BitsOfBytes(m)
           n == 34
           w == 8
<1>1. InOctets(b, x, m) /\ InOctets(b, y, l)
  BY OctetsAre, Zenon
<1> HIDE DEF x, y, b
<1>2. /\ x \in Seq(Seq(Bit)) /\ y \in Seq(Seq(Bit)) /\ Len(x) = n /\ Len(y) = n
      /\ FlattenSeq(x) = FlattenSeq(y)
  BY <1>1, Zenon DEF InOctets
<1>3. \A i \in 1..n : /\ Len(x[i]) = w /\ x[i] = Reverse(Bits(m[i], 8))
                      /\ Len(y[i]) = w /\ y[i] = Reverse(Bits(l[i], 8))
  BY <1>1, Zenon DEF InOctets
<1>4. \A i \in 1..n : x[i] = y[i]
  <2> HIDE DEF n, w
  <2>1. Len(x) = Len(y) /\ \A i \in 1..Len(x) : Len(x[i]) = Len(y[i])
    BY <1>2, <1>3
  <2>2. \A i \in 1..Len(x) : x[i] = y[i]
    BY <1>2, <2>1, FlattenTells, Zenon
  <2> QED BY <1>2, <2>2
<1>5. ASSUME NEW i \in 1..34 PROVE m[i] = l[i]
  <2>1. m[i] \in Byte /\ l[i] \in Byte
    BY DEF MemoType
  <2>2. Reverse(Bits(m[i], 8)) = Reverse(Bits(l[i], 8))
    BY <1>3, <1>4, Zenon
  <2> QED BY <2>1, <2>2, OctetTells, Zenon
<1> QED BY <1>5 DEF MemoType

\* A memo is known from its hash.
LEMMA MemoTells ==
  ASSUME NEW m \in MemoType, NEW l \in MemoType, memo_hash(m) = memo_hash(l)
  PROVE  m = l
<1> DEFINE s == BitsOfBytes(m)
           t == BitsOfBytes(l)
           d == <<MemoElement(s, 1, 254), MemoElement(s, 255, 272)>>
           e == <<MemoElement(t, 1, 254), MemoElement(t, 255, 272)>>
<1>1. s \in Seq(Bit) /\ t \in Seq(Bit) /\ Len(s) = 272 /\ Len(t) = 272
  <2>1. InOctets(s, Octets(m), m) /\ InOctets(t, Octets(l), l)
    BY OctetsAre, Zenon
  <2> HIDE DEF s, t
  <2> QED BY <2>1 DEF InOctets
<1>2. pack_bool_to_field_legacy(s) = d /\ pack_bool_to_field_legacy(t) = e
  <2> HIDE DEF s, t
  <2> QED BY <1>1, MemoPacked
<1>3. d = e
  <2>1. Len(d) % 2 = 0 /\ Len(e) % 2 = 0
    <3>1. Len(d) = 2 /\ Len(e) = 2 /\ 2 % 2 = 0
      OBVIOUS
    <3> QED BY <3>1
  <2>2. memo_hash(m) = [prefix |-> "MinaZkappMemo", data |-> d]
        /\ memo_hash(l) = [prefix |-> "MinaZkappMemo", data |-> e]
    <3> HIDE DEF d, e
    <3> QED BY <1>2, <2>1 DEF memo_hash, hash_with_prefix, Even
  <2> HIDE DEF d, e
  <2>3. \A x, y : [prefix |-> "MinaZkappMemo", data |-> x]
             = [prefix |-> "MinaZkappMemo", data |-> y] => x = y
    OBVIOUS
  <2> QED BY <2>2, <2>3
<1>4. MemoElement(s, 1, 254) = MemoElement(t, 1, 254) /\ MemoElement(s, 255, 272)
           = MemoElement(t, 255, 272)
  <2>1. \A x1, x2, y1, y2 : <<x1, x2>> = <<y1, y2>> => x1 = y1 /\ x2 = y2
    OBVIOUS
  <2> QED BY <1>3, <2>1, Zenon
<1>5. s = t
  <2> HIDE DEF s, t, d, e
  <2> QED BY <1>1, <1>4, MemoBitsTell
<1> QED BY <1>5, OctetsTell

\* Sets with a bijection between them have one cardinality.
LEMMA SameNumber ==
  ASSUME NEW S, IsFiniteSet(S), NEW T, NEW h \in [S -> T],
         \A t \in T : \E s \in S : h[s] = t, \A r, s \in S : h[r] = h[s] => r = s
  PROVE  Cardinality(T) = Cardinality(S)
<1>1. h \in Surjection(S, T)
  BY DEF Surjection
<1>2. h \in Injection(S, T)
  BY DEF Injection, IsInjective
<1> QED BY <1>1, <1>2, FS_Surjection

ToldApart(f, g, S) == \A r, s \in S : f[r] = f[s] <=> g[r] = g[s]
CountedAlike(f, g, S) ==
  /\ Cardinality({f[s] : s \in S}) = Cardinality({g[s] : s \in S})
  /\ Cardinality({f[s] : s \in S}) = Cardinality({<<f[s], g[s]>> : s \in S})

\* Two functions that tell apart the same elements have as many values each,
\* and as many pairs of values.
LEMMA Counted ==
  ASSUME NEW S, IsFiniteSet(S), NEW f, NEW g, ToldApart(f, g, S)
  PROVE  CountedAlike(f, g, S)
<1> DEFINE A == {f[s] : s \in S}
           B == {g[s] : s \in S}
           C == {<<f[s], g[s]>> : s \in S}
           h == [s \in S |-> <<f[s], g[s]>>]
           first == [c \in C |-> c[1]]
           second == [c \in C |-> c[2]]
<1>1. IsFiniteSet(C)
  <2>1. h \in [S -> C] /\ \A c \in C : \E s \in S : h[s] = c
    OBVIOUS
  <2> HIDE DEF h, C
  <2>2. h \in Surjection(S, C)
    BY <2>1 DEF Surjection
  <2> QED BY <2>2, FS_Surjection
<1>2. Cardinality(A) = Cardinality(C)
  <2>1. first \in [C -> A] /\ \A a \in A : \E c \in C : first[c] = a
    <3>1. \A c \in C : c[1] \in A
      OBVIOUS
    <3>2. ASSUME NEW a \in A PROVE \E c \in C : c[1] = a
      <4>1. PICK s \in S : a = f[s]
        OBVIOUS
      <4>2. <<f[s], g[s]>> \in C /\ <<f[s], g[s]>>[1] = a
        BY <4>1
      <4> QED BY <4>2, Zenon
    <3> HIDE DEF A, C
    <3> QED BY <3>1, <3>2
  <2>2. ASSUME NEW r \in C, NEW s \in C, first[r] = first[s] PROVE r = s
    <3>1. PICK x \in S, y \in S : r = <<f[x], g[x]>> /\ s = <<f[y], g[y]>>
      OBVIOUS
    <3>2. first[r] = f[x] /\ first[s] = f[y]
      BY <3>1
    <3>3. f[x] = f[y] /\ g[x] = g[y]
      BY <2>2, <3>1, <3>2 DEF ToldApart
    <3> QED BY <3>1, <3>3, Zenon
  <2> HIDE DEF A, C, first
  <2> QED BY <1>1, <2>1, <2>2, SameNumber
<1>3. Cardinality(B) = Cardinality(C)
  <2>1. second \in [C -> B] /\ \A b \in B : \E c \in C : second[c] = b
    <3>1. \A c \in C : c[2] \in B
      OBVIOUS
    <3>2. ASSUME NEW b \in B PROVE \E c \in C : c[2] = b
      <4>1. PICK s \in S : b = g[s]
        OBVIOUS
      <4>2. <<f[s], g[s]>> \in C /\ <<f[s], g[s]>>[2] = b
        BY <4>1
      <4> QED BY <4>2, Zenon
    <3> HIDE DEF B, C
    <3> QED BY <3>1, <3>2
  <2>2. ASSUME NEW r \in C, NEW s \in C, second[r] = second[s] PROVE r = s
    <3>1. PICK x \in S, y \in S : r = <<f[x], g[x]>> /\ s = <<f[y], g[y]>>
      OBVIOUS
    <3>2. second[r] = g[x] /\ second[s] = g[y]
      BY <3>1
    <3>3. f[x] = f[y] /\ g[x] = g[y]
      BY <2>2, <3>1, <3>2 DEF ToldApart
    <3> QED BY <3>1, <3>3, Zenon
  <2> HIDE DEF B, C, second
  <2> QED BY <1>1, <2>1, <2>2, SameNumber
<1> HIDE DEF A, B, C
<1>4. Cardinality(A) = Cardinality(B) /\ Cardinality(A) = Cardinality(C)
  BY <1>2, <1>3
<1> QED BY <1>4 DEF A, B, C, CountedAlike

\* The three parts of HashedApart: bodies, fee payers and memos.
LEMMA BodiesApart == SameOnlyIf(hash_account_update, Kept, Bodies)
<1> DEFINE f == [s \in Bodies |-> hash_account_update(s)]
           g == [s \in Bodies |-> Kept(s)]
<1>1. \A r, s \in Bodies : f[r] = f[s] <=> g[r] = g[s]
  <2>1. \A r, s \in Bodies : hash_account_update(r) = hash_account_update(s) <=> Kept(r) = Kept(s)
    BY FormatAssumption, HashTells
  <2> QED BY <2>1
<1>2. /\ {f[s] : s \in Bodies} = {hash_account_update(s) : s \in Bodies}
      /\ {g[s] : s \in Bodies} = {Kept(s) : s \in Bodies}
      /\ {<<f[s], g[s]>> : s \in Bodies} = {<<hash_account_update(s), Kept(s)>> : s \in Bodies}
  OBVIOUS
<1> HIDE DEF f, g
<1>3. CountedAlike(f, g, Bodies)
  BY <1>1, FormatAssumption, Counted, Zenon DEF ToldApart
<1> QED BY <1>2, <1>3 DEF SameOnlyIf, CountedAlike

LEMMA FeePayersApart ==
  SameOnlyIf(LAMBDA f : hash_account_update(AccountUpdateFrom(f)),
             LAMBDA f : [f EXCEPT !.valid_until = <<LastSlot(f)>>], FeePayerBodies)
<1> DEFINE F(s) == hash_account_update(AccountUpdateFrom(s))
           S == FeePayerBodies
           f == [s \in S |-> F(s)]
           g == [s \in S |-> Paid(s)]
<1>1. \A r, s \in S : f[r] = f[s] <=> g[r] = g[s]
  <2>1. \A r, s \in S : F(r) = F(s) <=> Paid(r) = Paid(s)
    BY FormatAssumption, FeePayerTells
  <2> HIDE DEF F
  <2> QED BY <2>1
<1>2. /\ {f[s] : s \in S} = {F(s) : s \in S}
      /\ {g[s] : s \in S} = {Paid(s) : s \in S}
      /\ {<<f[s], g[s]>> : s \in S} = {<<F(s), Paid(s)>> : s \in S}
  <2> HIDE DEF F
  <2> QED OBVIOUS
<1>3. IsFiniteSet(S)
  BY FormatAssumption
<1> HIDE DEF f, g, S
<1>4. CountedAlike(f, g, S)
  BY <1>1, <1>3, Counted, Zenon DEF ToldApart
<1>5. /\ Cardinality({F(s) : s \in S}) = Cardinality({Paid(s) : s \in S})
      /\ Cardinality({F(s) : s \in S}) = Cardinality({<<F(s), Paid(s)>> : s \in S})
  BY <1>2, <1>4 DEF CountedAlike
<1> QED BY <1>5 DEF SameOnlyIf, Paid, S

LEMMA MemosApart == SameOnlyIf(memo_hash, LAMBDA memo : memo, Memos)
<1> DEFINE f == [s \in Memos |-> memo_hash(s)]
           g == [s \in Memos |-> s]
<1>1. \A r, s \in Memos : f[r] = f[s] <=> g[r] = g[s]
  <2>1. \A s \in Memos : s \in MemoType
    BY FormatAssumption DEF MemoType
  <2>2. \A r, s \in Memos : memo_hash(r) = memo_hash(s) => r = s
    BY <2>1, MemoTells
  <2> QED BY <2>2
<1>2. /\ {f[s] : s \in Memos} = {memo_hash(s) : s \in Memos}
      /\ {g[s] : s \in Memos} = {s : s \in Memos}
      /\ {<<f[s], g[s]>> : s \in Memos} = {<<memo_hash(s), s>> : s \in Memos}
  OBVIOUS
<1> HIDE DEF f, g
<1>3. CountedAlike(f, g, Memos)
  BY <1>1, FormatAssumption, Counted, Zenon DEF ToldApart
<1> QED BY <1>2, <1>3 DEF SameOnlyIf, CountedAlike

(* Signing commits to every member: two bodies of any values, with any     *)
(* number of events, app states and bytes of a URI, two fee payers and two *)
(* memos are hashed alike by hash_account_update and memo_hash exactly     *)
(* where they differ in nothing, or only in what Kept says no hash tells:  *)
(* what is filled up with zeros, a call's depth, a key's data, a last slot.*)
THEOREM BodiesAreHashedApart == Spec => []BodiesPackApart
<1>1. HashedApart
  BY BodiesApart, FeePayersApart, MemosApart DEF HashedApart
<1>2. BodiesPackApart
  BY <1>1 DEF BodiesPackApart
<1> QED BY <1>2, PTL
===============================================================================
