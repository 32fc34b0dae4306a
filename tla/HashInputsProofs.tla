--------------------------- MODULE HashInputsProofs ---------------------------
(***************************************************************************)
(* Theorems about HashInputs: the domains of networks, for any names, and  *)
(* the inputs of hashes, for any segments.                                 *)
(***************************************************************************)
EXTENDS HashInputs, EvenYProofs, Induction

(* What is filled up to twenty bytes can be told from the result as long   *)
(* as it does not end in the byte it is filled up with.                    *)
Stems == {s \in Seq(Byte) :
            Len(s) \in 1..MAX_PREFIX_LENGTH /\ s[Len(s)] # PADDING_CHAR}

LEMMA PaddingKeepsStems ==
  ASSUME NEW s \in Stems, NEW t \in Stems, create_custom_prefix(s) = create_custom_prefix(t)
  PROVE  s = t
<1> DEFINE m == Len(s)
           n == Len(t)
           Padded(u, l, i) == IF i <= l THEN u[i] ELSE PADDING_CHAR
<1>1. /\ s \in Seq(Byte) /\ m \in 1..20 /\ s[m] # PADDING_CHAR
      /\ t \in Seq(Byte) /\ n \in 1..20 /\ t[n] # PADDING_CHAR
  BY DomainAssumption DEF Stems
<1>2. \A i \in 1..20 : Padded(s, m, i) = Padded(t, n, i)
  <2>1. create_custom_prefix(s) = [i \in 1..20 |-> Padded(s, m, i)]
    BY DomainAssumption DEF create_custom_prefix
  <2>2. create_custom_prefix(t) = [i \in 1..20 |-> Padded(t, n, i)]
    BY DomainAssumption DEF create_custom_prefix
  <2> HIDE DEF Padded, m, n
  <2>3. [i \in 1..20 |-> Padded(s, m, i)] = [i \in 1..20 |-> Padded(t, n, i)]
    BY <2>1, <2>2
  <2> QED BY <2>3
<1> HIDE DEF m, n
<1>3. m = n
  <2>1. ~(m < n)
    <3>1. m < n => Padded(s, m, n) = PADDING_CHAR /\ Padded(t, n, n) = t[n]
      BY <1>1
    <3> QED BY <3>1, <1>1, <1>2
  <2>2. ~(n < m)
    <3>1. n < m => Padded(t, n, m) = PADDING_CHAR /\ Padded(s, m, m) = s[m]
      BY <1>1
    <3> QED BY <3>1, <1>1, <1>2
  <2> QED BY <1>1, <2>1, <2>2
<1>4. \A i \in 1..m : s[i] = t[i]
  <2> TAKE i \in 1..m
  <2>1. i \in 1..20 /\ i <= m /\ i <= n
    BY <1>1, <1>3
  <2> QED BY <1>2, <2>1
<1> QED BY <1>1, <1>3, <1>4, SeqEqual, Zenon DEF m, n

\* A domain that has been filled up is not changed by the hasher.
LEMMA DomainOfPrefix ==
  ASSUME NEW s
  PROVE  Domain(create_custom_prefix(s)) = create_custom_prefix(s)
<1> DEFINE p == create_custom_prefix(s)
           Padded(i) == IF i <= Len(s) THEN s[i] ELSE PADDING_CHAR
<1>1. p = [i \in 1..20 |-> Padded(i)]
  BY DomainAssumption DEF create_custom_prefix
<1> HIDE DEF Padded, p
<1>2. Len(p) = 20 /\ \A i \in 1..20 : p[i] = Padded(i)
  BY <1>1
<1>3. create_custom_prefix(p) = [i \in 1..20 |-> IF i <= 20 THEN p[i] ELSE PADDING_CHAR]
  BY <1>2, DomainAssumption DEF create_custom_prefix
<1>4. create_custom_prefix(p) = [i \in 1..20 |-> Padded(i)]
  BY <1>2, <1>3
<1> QED BY <1>1, <1>4 DEF Domain, p

\* A name before a suffix.
LEMMA StemOfName ==
  ASSUME NEW name \in Seq(Byte), NEW suffix \in Seq(Byte),
         Len(suffix) > 0, Len(name) + Len(suffix) <= 20,
         suffix[Len(suffix)] # PADDING_CHAR
  PROVE  /\ name \o suffix \in Stems
         /\ (name \o suffix)[Len(name \o suffix)] = suffix[Len(suffix)]
<1> DEFINE m == Len(name)
           n == Len(suffix)
           s == name \o suffix
<1>1. m \in Nat /\ n \in Nat /\ n > 0 /\ m + n <= 20
  BY LenProperties
<1>2. /\ s \in Seq(Byte) /\ Len(s) = m + n
      /\ \A i \in 1..(m + n) : s[i] = IF i <= m THEN name[i] ELSE suffix[i - m]
  BY ConcatProperties, Zenon
<1>3. suffix[n] # PADDING_CHAR
  OBVIOUS
<1> HIDE DEF m, n, s
<1>4. m + n \in 1..(m + n) /\ ~(m + n <= m) /\ (m + n) - m = n /\ m + n \in 1..20
  BY <1>1
<1>5. s[m + n] = suffix[n]
  BY <1>2, <1>4
<1> QED BY <1>2, <1>3, <1>4, <1>5, DomainAssumption DEF Stems, s, m, n

\* The texts domains are made of.
LEMMA Texts ==
  /\ Text.Signature \in Seq(Byte) /\ Len(Text.Signature) = 9 /\ Text.Signature[9] = 101
  /\ Text.ZkappBody \in Seq(Byte) /\ Len(Text.ZkappBody) = 9 /\ Text.ZkappBody[9] = 121
  /\ Text.Mina \in Seq(Byte) /\ Len(Text.Mina) = 4
  /\ Text.Coda \in Seq(Byte) /\ Len(Text.Coda) = 4
  /\ Text.Mainnet \in Seq(Byte) /\ Len(Text.Mainnet) = 7 /\ Text.Mainnet[7] = 116
  /\ Text.Testnet \in Seq(Byte) /\ Len(Text.Testnet) = 7
  /\ Text.Mainnet[1] = 77 /\ Text.Testnet[1] = 84
<1>1. \A x \in {77, 105, 110, 97, 67, 111, 100, 101, 115, 116, 84, 83, 103, 117, 114, 90, 107,
               112, 66, 121} : x \in Byte
  BY DEF Byte
<1>2. Text.Signature = <<83, 105, 103, 110, 97, 116, 117, 114, 101>>
  BY DEF Text
<1>3. Text.ZkappBody = <<90, 107, 97, 112, 112, 66, 111, 100, 121>>
  BY DEF Text
<1>4. Text.Mina = <<77, 105, 110, 97>> /\ Text.Coda = <<67, 111, 100, 97>>
  BY DEF Text
<1>5. Text.Mainnet = <<77, 97, 105, 110, 110, 101, 116>>
  BY DEF Text
<1>6. Text.Testnet = <<84, 101, 115, 116, 110, 101, 116>>
  BY DEF Text
<1>7. Text.Signature \in Seq(Byte) /\ Len(Text.Signature) = 9 /\ Text.Signature[9] = 101
  BY <1>1, <1>2
<1>8. Text.ZkappBody \in Seq(Byte) /\ Len(Text.ZkappBody) = 9 /\ Text.ZkappBody[9] = 121
  BY <1>1, <1>3
<1>9. /\ Text.Mina \in Seq(Byte) /\ Len(Text.Mina) = 4
      /\ Text.Coda \in Seq(Byte) /\ Len(Text.Coda) = 4
  BY <1>1, <1>4
<1>10. /\ Text.Mainnet \in Seq(Byte) /\ Len(Text.Mainnet) = 7
       /\ Text.Mainnet[7] = 116 /\ Text.Mainnet[1] = 77
  BY <1>1, <1>5
<1>11. Text.Testnet \in Seq(Byte) /\ Len(Text.Testnet) = 7 /\ Text.Testnet[1] = 84
  BY <1>1, <1>6
<1> QED BY <1>7, <1>8, <1>9, <1>10, <1>11

-------------------------------------------------------------------------------
(* The two domains of a network, before they are filled up: names before a *)
(* suffix, and the one of Mainnet for signatures.                          *)
SignatureName(n) == IF n.kind = "Testnet" THEN Text.Coda ELSE n.name
BodyName(n) ==
  CASE n.kind = "Mainnet" -> Text.Mainnet
    [] n.kind = "Testnet" -> Text.Testnet
    [] n.kind = "Custom"  -> n.name
MainnetStem == Text.Mina \o Text.Signature \o Text.Mainnet
SignatureStem(n) ==
  IF n.kind = "Mainnet" THEN MainnetStem ELSE SignatureName(n) \o Text.Signature
BodyStem(n) == BodyName(n) \o Text.ZkappBody

LEMMA MainnetIsStem == MainnetStem \in Stems /\ MainnetStem[Len(MainnetStem)] = 116
<1> DEFINE head == Text.Mina \o Text.Signature
<1>1. head \in Seq(Byte) /\ Len(head) = 13
  <2>1. head \in Seq(Byte) /\ Len(head) = Len(Text.Mina) + Len(Text.Signature)
    <3>1. Text.Mina \in Seq(Byte) /\ Text.Signature \in Seq(Byte)
      BY Texts
    <3> QED BY <3>1, ConcatProperties, Zenon
  <2> HIDE DEF head
  <2> QED BY <2>1, Texts
<1> HIDE DEF head
<1>2. /\ Len(Text.Mainnet) > 0 /\ Len(head) + Len(Text.Mainnet) <= 20
      /\ Text.Mainnet[Len(Text.Mainnet)] = 116 /\ 116 # PADDING_CHAR
  BY <1>1, Texts DEF PADDING_CHAR
<1>3. /\ head \o Text.Mainnet \in Stems
      /\ (head \o Text.Mainnet)[Len(head \o Text.Mainnet)] = Text.Mainnet[Len(Text.Mainnet)]
  <2>1. Text.Mainnet \in Seq(Byte)
    BY Texts
  <2>2. Len(Text.Mainnet) > 0 /\ Text.Mainnet[Len(Text.Mainnet)] # PADDING_CHAR
    BY <1>2
  <2>3. Len(head) + Len(Text.Mainnet) <= 20
    BY <1>2
  <2> QED BY <1>1, <2>1, <2>2, <2>3, StemOfName
<1>4. MainnetStem = head \o Text.Mainnet
  BY DEF MainnetStem, head
<1> QED BY <1>2, <1>3, <1>4

\* The networks are these, and their names leave room.
LEMMA NetworkNames ==
  ASSUME NEW n \in NetworksOf(Names)
  PROVE  /\ n.kind \in {"Mainnet", "Testnet", "Custom"}
         /\ n.kind # "Custom" => n = [kind |-> n.kind, name |-> <<>>]
         /\ n.kind = "Custom" => /\ n = [kind |-> "Custom", name |-> n.name]
                                 /\ n.name \notin Taken
         /\ n.kind # "Mainnet" =>
              SignatureName(n) \in Seq(Byte) /\ Len(SignatureName(n)) + 9 <= 20
         /\ BodyName(n) \in Seq(Byte) /\ Len(BodyName(n)) + 9 <= 20
<1>1. CASE n \in [kind : {"Mainnet", "Testnet"}, name : {<<>>}]
  <2>1. n = [kind |-> n.kind, name |-> <<>>] /\ n.kind \in {"Mainnet", "Testnet"}
    BY <1>1
  <2>2. /\ n.kind = "Testnet" => SignatureName(n) = Text.Coda /\ BodyName(n) = Text.Testnet
        /\ n.kind = "Mainnet" => BodyName(n) = Text.Mainnet
    BY DEF SignatureName, BodyName
  <2>3. /\ Text.Coda \in Seq(Byte) /\ Len(Text.Coda) + 9 <= 20
        /\ Text.Testnet \in Seq(Byte) /\ Len(Text.Testnet) + 9 <= 20
        /\ Text.Mainnet \in Seq(Byte) /\ Len(Text.Mainnet) + 9 <= 20
    BY Texts
  <2> QED BY <2>1, <2>2, <2>3
<1>2. CASE n \in [kind : {"Custom"}, name : {name \in Names \ Taken : Roomy(name)}]
  <2>1. /\ n = [kind |-> "Custom", name |-> n.name] /\ n.kind = "Custom"
        /\ n.name \in Names /\ n.name \notin Taken /\ Roomy(n.name)
    BY <1>2
  <2>2. n.name \in Seq(Byte) /\ Len(n.name) + 9 <= 20
    BY <2>1, Texts, DomainAssumption DEF Roomy
  <2> QED BY <2>1, <2>2 DEF SignatureName, BodyName
<1> QED BY <1>1, <1>2 DEF NetworksOf

\* The domains are these stems, filled up.
LEMMA DomainsAreStems ==
  ASSUME NEW n \in NetworksOf(Names)
  PROVE  /\ SignatureStem(n) \in Stems /\ BodyStem(n) \in Stems
         /\ SignatureStem(n)[Len(SignatureStem(n))] = IF n.kind = "Mainnet" THEN 116 ELSE 101
         /\ BodyStem(n)[Len(BodyStem(n))] = 121
         /\ Domain(into_domain_string(n)) = create_custom_prefix(SignatureStem(n))
         /\ Domain(ZkAppBodyPrefix(n)) = create_custom_prefix(BodyStem(n))
<1>1. /\ 101 # PADDING_CHAR /\ 121 # PADDING_CHAR
      /\ Len(Text.Signature) > 0 /\ Len(Text.ZkappBody) > 0
      /\ Text.Signature[Len(Text.Signature)] = 101 /\ Text.ZkappBody[Len(Text.ZkappBody)] = 121
  BY Texts DEF PADDING_CHAR
<1>2. n.kind \in {"Mainnet", "Testnet", "Custom"}
  BY NetworkNames
<1>3. BodyStem(n) \in Stems /\ BodyStem(n)[Len(BodyStem(n))] = 121
  <2>1. BodyName(n) \in Seq(Byte) /\ Len(BodyName(n)) + Len(Text.ZkappBody) <= 20
    BY NetworkNames, Texts
  <2>2. Text.ZkappBody \in Seq(Byte)
    BY Texts
  <2> QED BY <1>1, <2>1, <2>2, StemOfName DEF BodyStem
<1>4. /\ SignatureStem(n) \in Stems
      /\ SignatureStem(n)[Len(SignatureStem(n))] = IF n.kind = "Mainnet" THEN 116 ELSE 101
  <2>1. CASE n.kind = "Mainnet"
    BY <2>1, MainnetIsStem DEF SignatureStem
  <2>2. CASE n.kind # "Mainnet"
    <3>1. /\ SignatureName(n) \in Seq(Byte) /\ Text.Signature \in Seq(Byte)
          /\ Len(SignatureName(n)) + Len(Text.Signature) <= 20
      BY <2>2, NetworkNames, Texts
    <3>2. /\ SignatureName(n) \o Text.Signature \in Stems
          /\ (SignatureName(n) \o Text.Signature)[Len(SignatureName(n) \o Text.Signature)] = 101
      BY <1>1, <3>1, StemOfName
    <3> QED BY <2>2, <3>2 DEF SignatureStem
  <2> QED BY <2>1, <2>2
<1>5. Domain(into_domain_string(n)) = create_custom_prefix(SignatureStem(n))
  <2>1. CASE n.kind = "Mainnet"
    BY <2>1 DEF into_domain_string, SignatureStem, MainnetStem, Domain
  <2>2. CASE n.kind = "Testnet"
    BY <2>2 DEF into_domain_string, SignatureStem, SignatureName, Domain
  <2>3. CASE n.kind = "Custom"
    BY <2>3, DomainOfPrefix DEF into_domain_string, SignatureStem, SignatureName
  <2> QED BY <1>2, <2>1, <2>2, <2>3
<1>6. Domain(ZkAppBodyPrefix(n)) = create_custom_prefix(BodyStem(n))
  <2>1. CASE n.kind = "Mainnet"
    BY <2>1, DomainOfPrefix DEF ZkAppBodyPrefix, BodyStem, BodyName
  <2>2. CASE n.kind = "Testnet"
    BY <2>2, DomainOfPrefix DEF ZkAppBodyPrefix, BodyStem, BodyName
  <2>3. CASE n.kind = "Custom"
    BY <2>3, DomainOfPrefix DEF ZkAppBodyPrefix, BodyStem, BodyName
  <2> QED BY <1>2, <2>1, <2>2, <2>3
<1> QED BY <1>3, <1>4, <1>5, <1>6

\* Different networks have different stems.
LEMMA StemsApart ==
  ASSUME NEW m \in NetworksOf(Names), NEW n \in NetworksOf(Names)
  PROVE  /\ SignatureStem(m) # BodyStem(n)
         /\ SignatureStem(m) = SignatureStem(n) => m = n
         /\ BodyStem(m) = BodyStem(n) => m = n
<1>1. SignatureStem(m) # BodyStem(n)
  <2>1. SignatureStem(m)[Len(SignatureStem(m))] # BodyStem(n)[Len(BodyStem(n))]
    <3>1. SignatureStem(m)[Len(SignatureStem(m))] \in {101, 116}
      BY DomainsAreStems
    <3>2. BodyStem(n)[Len(BodyStem(n))] = 121
      BY DomainsAreStems
    <3> QED BY <3>1, <3>2
  <2> QED BY <2>1
<1>2. /\ m.kind \in {"Mainnet", "Testnet", "Custom"} /\ n.kind \in {"Mainnet", "Testnet", "Custom"}
      /\ m.kind # "Custom" => m = [kind |-> m.kind, name |-> <<>>]
      /\ n.kind # "Custom" => n = [kind |-> n.kind, name |-> <<>>]
      /\ m.kind = "Custom" => m = [kind |-> "Custom", name |-> m.name] /\ m.name \notin Taken
      /\ n.kind = "Custom" => n = [kind |-> "Custom", name |-> n.name] /\ n.name \notin Taken
  BY NetworkNames
<1>3. ASSUME SignatureStem(m) = SignatureStem(n) PROVE m = n
  <2>1. m.kind = "Mainnet" <=> n.kind = "Mainnet"
    <3>1. SignatureStem(m)[Len(SignatureStem(m))] = IF m.kind = "Mainnet" THEN 116 ELSE 101
      BY DomainsAreStems
    <3>2. SignatureStem(n)[Len(SignatureStem(n))] = IF n.kind = "Mainnet" THEN 116 ELSE 101
      BY DomainsAreStems
    <3> QED BY <1>3, <3>1, <3>2
  <2>2. CASE m.kind # "Mainnet"
    <3>1. /\ SignatureName(m) \in Seq(Byte) /\ SignatureName(n) \in Seq(Byte)
          /\ Text.Signature \in Seq(Byte)
      BY <2>1, <2>2, NetworkNames, Texts
    <3>2. SignatureName(m) \o Text.Signature = SignatureName(n) \o Text.Signature
      BY <1>3, <2>1, <2>2 DEF SignatureStem
    <3>3. SignatureName(m) = SignatureName(n)
      BY <3>1, <3>2, ConcatSimplifications, Zenon
    <3>4. Text.Coda \in Taken
      BY DEF Taken
    <3> QED BY <1>2, <2>1, <2>2, <3>3, <3>4 DEF SignatureName
  <2> QED BY <1>2, <2>1, <2>2
<1>4. ASSUME BodyStem(m) = BodyStem(n) PROVE m = n
  <2>1. BodyName(m) \in Seq(Byte) /\ BodyName(n) \in Seq(Byte) /\ Text.ZkappBody \in Seq(Byte)
    BY NetworkNames, Texts
  <2>2. BodyName(m) \o Text.ZkappBody = BodyName(n) \o Text.ZkappBody
    BY <1>4 DEF BodyStem
  <2>3. BodyName(m) = BodyName(n)
    BY <2>1, <2>2, ConcatSimplifications, Zenon
  <2>4. Text.Mainnet \in Taken /\ Text.Testnet \in Taken /\ Text.Mainnet # Text.Testnet
    BY Texts DEF Taken
  <2>5. /\ m.kind = "Mainnet" => BodyName(m) = Text.Mainnet
        /\ m.kind = "Testnet" => BodyName(m) = Text.Testnet
        /\ m.kind = "Custom" => BodyName(m) = m.name
        /\ n.kind = "Mainnet" => BodyName(n) = Text.Mainnet
        /\ n.kind = "Testnet" => BodyName(n) = Text.Testnet
        /\ n.kind = "Custom" => BodyName(n) = n.name
    BY DEF BodyName
  <2> QED BY <1>2, <2>3, <2>4, <2>5
<1> QED BY <1>1, <1>3, <1>4

(* Networks whose names leave room for the suffix, and are not those of    *)
(* Mina's own, have domains of their own (into_domain_string,              *)
(* ZkAppBodyPrefix): a signature for one is never one for another, and     *)
(* what is hashed of a body never is what is hashed of a message.          *)
LEMMA AllNetworksApart == NetworksApart
<1> SUFFICES ASSUME NEW m \in NetworksOf(Names), NEW n \in NetworksOf(Names)
    PROVE  /\ Domain(into_domain_string(m)) # Domain(ZkAppBodyPrefix(n))
           /\ m # n => /\ Domain(into_domain_string(m)) # Domain(into_domain_string(n))
                       /\ Domain(ZkAppBodyPrefix(m)) # Domain(ZkAppBodyPrefix(n))
  BY DEF NetworksApart
<1>1. /\ SignatureStem(m) \in Stems /\ SignatureStem(n) \in Stems
      /\ BodyStem(m) \in Stems /\ BodyStem(n) \in Stems
  BY DomainsAreStems
<1>2. /\ Domain(into_domain_string(m)) = create_custom_prefix(SignatureStem(m))
      /\ Domain(into_domain_string(n)) = create_custom_prefix(SignatureStem(n))
      /\ Domain(ZkAppBodyPrefix(m)) = create_custom_prefix(BodyStem(m))
      /\ Domain(ZkAppBodyPrefix(n)) = create_custom_prefix(BodyStem(n))
  BY DomainsAreStems
<1>3. Domain(into_domain_string(m)) = Domain(ZkAppBodyPrefix(n))
        => SignatureStem(m) = BodyStem(n)
  BY <1>1, <1>2, PaddingKeepsStems
<1>4. Domain(into_domain_string(m)) = Domain(into_domain_string(n))
        => SignatureStem(m) = SignatureStem(n)
  BY <1>1, <1>2, PaddingKeepsStems
<1>5. Domain(ZkAppBodyPrefix(m)) = Domain(ZkAppBodyPrefix(n)) => BodyStem(m) = BodyStem(n)
  BY <1>1, <1>2, PaddingKeepsStems
<1> QED BY <1>3, <1>4, <1>5, StemsApart

THEOREM DomainsStayApart == Spec => []DomainsApart
<1>1. DomainsApart
  BY AllNetworksApart DEF DomainsApart
<1> QED BY <1>1, PTL

-------------------------------------------------------------------------------
(* What is absorbed. *)

\* The bytes as the hasher sees them, which has zeros after the last one.
At(b, i) == IF i \in 1..Len(b) THEN b[i] ELSE 0

LEMMA AbsorbedKeeps ==
  ASSUME NEW b \in Seq(Byte)
  PROVE  \A i \in Nat \ {0} : At(Absorbed(b), i) = At(b, i)
<1> DEFINE l == Len(b)
           Zeros(n) == \A i \in (n + 1)..l : b[i] = 0
           T == {n \in 0..l : Zeros(n)}
           EndsAt(n) == Zeros(n) /\ (n = 0 \/ b[n] # 0)
           m == CHOOSE n \in 0..l : EndsAt(n)
<1>1. l \in Nat
  BY LenProperties
<1> HIDE DEF l
<1>2. l \in T
  BY <1>1
<1>3. \E n \in 0..l : EndsAt(n)
  <2>1. PICK n \in T : \A k \in T : n <= k
    <3>1. T \in SUBSET Nat
      BY <1>1
    <3> HIDE DEF T
    <3> QED BY <1>2, <3>1, LeastNumber
  <2>2. ASSUME n # 0, b[n] = 0 PROVE FALSE
    <3>1. n - 1 \in 0..l /\ Zeros(n - 1)
      BY <2>1, <2>2, <1>1
    <3> QED BY <2>1, <3>1, <1>1, SMTT(30)
  <2> QED BY <2>1, <2>2
<1>4. m \in 0..l /\ Zeros(m)
  BY <1>3
<1>5. Absorbed(b) = SubSeq(b, 1, m)
  BY DEF Absorbed, l
<1> HIDE DEF m
<1>6. \A i \in 1..m : b[i] \in Byte
  BY <1>1, <1>4, ElementOfSeq DEF l
<1>7. /\ Len(SubSeq(b, 1, m)) = m
      /\ \A i \in 1..m : SubSeq(b, 1, m)[i] = b[i]
  BY <1>1, <1>4, <1>6, SubSeqProperties
<1> HIDE DEF Zeros
<1>8. ASSUME NEW i \in Nat \ {0} PROVE At(SubSeq(b, 1, m), i) = At(b, i)
  <2>1. CASE i \in 1..m
    BY <1>1, <1>4, <1>7, <2>1 DEF At, l
  <2>2. CASE i \notin 1..m
    <3>1. At(SubSeq(b, 1, m), i) = 0
      BY <1>7, <2>2 DEF At
    <3>2. i \in 1..Len(b) => b[i] = 0
      BY <1>1, <1>4, <2>2 DEF Zeros, l
    <3> QED BY <3>1, <3>2 DEF At
  <2> QED BY <2>1, <2>2
<1> QED BY <1>5, <1>8

\* The number that eight bytes stand for.
LEMMA NumberWritten ==
  ASSUME NEW n \in Nat, FitsU32(n)
  PROVE  /\ u64_to_le_bytes(n) \in Seq(Byte) /\ Len(u64_to_le_bytes(n)) = 8
         /\ \A k \in 1..4 : u64_to_le_bytes(n)[k] = u32_to_le_bytes(n)[k]
<1> DEFINE b == u32_to_le_bytes(n)
           z == <<0, 0, 0, 0>>
<1>1. b \in Seq(Byte) /\ Len(b) = 4
  <2>1. \A k \in 1..4 : (n \div 256^(k - 1)) % 256 \in Byte
    <3>1. 256^(1 - 1) = 1 /\ 256^(2 - 1) = 256 /\ 256^(3 - 1) = 65536 /\ 256^(4 - 1) = 16777216
      OBVIOUS
    <3>2. /\ n \div 1 \in Nat /\ n \div 256 \in Nat /\ n \div 65536 \in Nat
          /\ n \div 16777216 \in Nat
      OBVIOUS
    <3>3. \A j \in Nat : j % 256 \in Byte
      BY DEF Byte
    <3> QED BY <3>1, <3>2, <3>3
  <2>2. b = [k \in 1..4 |-> (n \div 256^(k - 1)) % 256]
    BY DEF u32_to_le_bytes
  <2>3. /\ [k \in 1..4 |-> (n \div 256^(k - 1)) % 256] \in Seq(Byte)
        /\ Len([k \in 1..4 |-> (n \div 256^(k - 1)) % 256]) = 4
    BY <2>1
  <2> QED BY <2>2, <2>3
<1>2. z \in Seq(Byte) /\ Len(z) = 4
  BY DEF Byte
<1> HIDE DEF b, z
<1>3. /\ b \o z \in Seq(Byte) /\ Len(b \o z) = Len(b) + Len(z)
      /\ \A k \in 1..(Len(b) + Len(z)) : (b \o z)[k] = IF k <= Len(b) THEN b[k] ELSE z[k - Len(b)]
  BY <1>1, <1>2, ConcatProperties, Zenon
<1>4. u64_to_le_bytes(n) = b \o z
  BY DEF u64_to_le_bytes, b, z
<1> QED BY <1>1, <1>2, <1>3, <1>4 DEF b

LEMMA NumberRead ==
  ASSUME NEW m \in Nat, FitsU32(m), NEW n \in Nat, FitsU32(n),
         \A k \in 1..8 : u64_to_le_bytes(m)[k] = u64_to_le_bytes(n)[k]
  PROVE  m = n
<1>1. \A k \in 1..4 : u32_to_le_bytes(m)[k] = u32_to_le_bytes(n)[k]
  BY NumberWritten
<1>2. /\ u32_to_le_bytes(m)[1] = u32_to_le_bytes(n)[1]
      /\ u32_to_le_bytes(m)[2] = u32_to_le_bytes(n)[2]
      /\ u32_to_le_bytes(m)[3] = u32_to_le_bytes(n)[3]
      /\ u32_to_le_bytes(m)[4] = u32_to_le_bytes(n)[4]
  BY <1>1
<1> QED BY <1>2, LengthReadsBack

\* What can be hashed: lengths are those that u64_to_le_bytes writes.
Hashable(v) == /\ v \in Seq(Seq(Byte)) /\ FitsU32(Len(v))
               /\ \A i \in 1..Len(v) : FitsU32(Len(v[i]))

Counted(segment) == u64_to_le_bytes(Len(segment)) \o segment

LEMMA CountedParts ==
  ASSUME NEW segment \in Seq(Byte), FitsU32(Len(segment))
  PROVE  /\ Counted(segment) \in Seq(Byte) /\ Len(Counted(segment)) = 8 + Len(segment)
         /\ \A k \in 1..8 : Counted(segment)[k] = u64_to_le_bytes(Len(segment))[k]
         /\ \A k \in 1..Len(segment) : Counted(segment)[8 + k] = segment[k]
<1> DEFINE b == u64_to_le_bytes(Len(segment))
           l == Len(segment)
<1>1. l \in Nat /\ b \in Seq(Byte) /\ Len(b) = 8
  BY LenProperties, NumberWritten
<1> HIDE DEF b
<1>2. /\ b \o segment \in Seq(Byte) /\ Len(b \o segment) = Len(b) + Len(segment)
      /\ \A k \in 1..(Len(b) + Len(segment)) :
           (b \o segment)[k] = IF k <= Len(b) THEN b[k] ELSE segment[k - Len(b)]
  BY <1>1, ConcatProperties, Zenon
<1>3. Counted(segment) = b \o segment
  BY DEF Counted, b
<1> HIDE DEF l
<1>4. /\ Len(b \o segment) = 8 + l
      /\ \A k \in 1..(8 + l) :
           (b \o segment)[k] = IF k <= 8 THEN b[k] ELSE segment[k - 8]
  BY <1>1, <1>2 DEF l
<1>5. \A k \in 1..8 : (b \o segment)[k] = b[k]
  BY <1>1, <1>4
<1>6. \A k \in 1..l : (b \o segment)[8 + k] = segment[k]
  BY <1>1, <1>4
<1> QED BY <1>2, <1>3, <1>4, <1>5, <1>6 DEF b, l

\* Where the hasher sees the segments: each is behind its length.
Places(v, place) ==
  /\ place \in [1..(Len(v) + 1) -> Nat] /\ place[1] = 8
  /\ \A i \in 1..Len(v) :
       /\ place[i + 1] = place[i] + 8 + Len(v[i])
       /\ \A k \in 1..8 :
            At(HashElement(v), place[i] + k) = u64_to_le_bytes(Len(v[i]))[k]
       /\ \A k \in 1..Len(v[i]) : At(HashElement(v), place[i] + 8 + k) = v[i][k]

LEMMA HashElementPlaces ==
  ASSUME NEW v, Hashable(v)
  PROVE  /\ HashElement(v) \in Seq(Byte)
         /\ \A k \in 1..8 : At(HashElement(v), k) = u64_to_le_bytes(Len(v))[k]
         /\ \E place : Places(v, place)
<1> DEFINE n == Len(v)
           parts == [i \in DOMAIN v |-> Counted(v[i])]
           b == u64_to_le_bytes(n)
           flat == FlattenSeq(parts)
           h == b \o flat
<1>1. /\ n \in Nat /\ DOMAIN v = 1..n
      /\ \A i \in 1..n : v[i] \in Seq(Byte) /\ Len(v[i]) \in Nat /\ FitsU32(Len(v[i]))
  BY LenProperties, ElementOfSeq DEF Hashable
<1>2. parts \in Seq(Seq(Byte)) /\ Len(parts) = n /\ \A i \in 1..n : parts[i] = Counted(v[i])
  <2>1. \A i \in 1..n : Counted(v[i]) \in Seq(Byte)
    BY <1>1, CountedParts
  <2>2. parts = [i \in 1..n |-> Counted(v[i])]
    BY <1>1
  <2> HIDE DEF n
  <2>3. /\ [i \in 1..n |-> Counted(v[i])] \in Seq(Seq(Byte))
        /\ Len([i \in 1..n |-> Counted(v[i])]) = n
    BY <1>1, <2>1
  <2> QED BY <1>1, <2>2, <2>3
<1>3. b \in Seq(Byte) /\ Len(b) = 8
  BY <1>1, NumberWritten DEF Hashable
<1>4. HashElement(v) = h
  BY DEF HashElement, Counted
<1> HIDE DEF n, parts, b
<1>5. /\ flat \in Seq(Byte)
      /\ \E place \in [1..(Len(parts) + 1) -> Nat] :
              /\ place[1] = 0
              /\ \A i \in 1..Len(parts) :
                   /\ place[i + 1] = place[i] + Len(parts[i])
                   /\ place[i + 1] <= Len(flat)
                   /\ \A k \in 1..Len(parts[i]) : flat[place[i] + k] = parts[i][k]
  BY <1>2, FlattenPlaces, ZenonT(30)
<1> HIDE DEF flat
<1>6. /\ b \o flat \in Seq(Byte) /\ Len(b \o flat) = Len(b) + Len(flat)
      /\ \A k \in 1..(Len(b) + Len(flat)) :
           (b \o flat)[k] = IF k <= Len(b) THEN b[k] ELSE flat[k - Len(b)]
  <2>1. b \in Seq(Byte) /\ flat \in Seq(Byte)
    BY <1>3, <1>5
  <2> QED BY <2>1, ConcatProperties, Zenon
<1> DEFINE l == Len(flat)
<1>7. l \in Nat
  BY <1>5, LenProperties
<1>8. /\ h \in Seq(Byte) /\ Len(h) = 8 + l
      /\ \A k \in 1..(8 + l) : h[k] = IF k <= 8 THEN b[k] ELSE flat[k - 8]
  BY <1>3, <1>6
<1> HIDE DEF h, l
<1>9. \A k \in 1..8 : At(h, k) = b[k]
  <2> TAKE k \in 1..8
  <2>1. k \in 1..(8 + l) /\ k <= 8
    BY <1>7
  <2>2. k \in 1..Len(h) /\ h[k] = b[k]
    BY <1>8, <2>1
  <2> QED BY <2>2 DEF At
<1>10. \A k \in 1..l : At(h, 8 + k) = flat[k]
  <2> TAKE k \in 1..l
  <2>1. 8 + k \in 1..(8 + l) /\ ~(8 + k <= 8) /\ (8 + k) - 8 = k
    BY <1>7
  <2>2. 8 + k \in 1..Len(h) /\ h[8 + k] = flat[k]
    BY <1>8, <2>1
  <2> QED BY <2>2 DEF At
<1>11. PICK place \in [1..(n + 1) -> Nat] :
              /\ place[1] = 0
              /\ \A i \in 1..n :
                   /\ place[i + 1] = place[i] + Len(parts[i])
                   /\ place[i + 1] <= Len(flat)
                   /\ \A k \in 1..Len(parts[i]) : flat[place[i] + k] = parts[i][k]
  BY <1>2, <1>5
<1> DEFINE behind == [i \in 1..(n + 1) |-> 8 + place[i]]
<1>12. behind \in [1..(n + 1) -> Nat] /\ behind[1] = 8
  BY <1>1, <1>11 DEF n
<1>13. ASSUME NEW i \in 1..n
       PROVE  /\ behind[i + 1] = behind[i] + 8 + Len(v[i])
              /\ \A k \in 1..8 : At(h, behind[i] + k) = u64_to_le_bytes(Len(v[i]))[k]
              /\ \A k \in 1..Len(v[i]) : At(h, behind[i] + 8 + k) = v[i][k]
  <2> DEFINE p == place[i]
             r == place[i + 1]
             s == v[i]
             m == Len(v[i])
  <2>1. i \in 1..(n + 1) /\ i + 1 \in 1..(n + 1)
    BY <1>1 DEF n
  <2>2. behind[i] = 8 + p /\ behind[i + 1] = 8 + r /\ p \in Nat /\ r \in Nat /\ m \in Nat
    BY <1>1, <1>11, <2>1
  <2>3. s \in Seq(Byte) /\ FitsU32(Len(s)) /\ parts[i] = Counted(s)
    BY <1>1, <1>2
  <2>4. /\ Len(parts[i]) = 8 + m
        /\ \A k \in 1..8 : parts[i][k] = u64_to_le_bytes(m)[k]
        /\ \A k \in 1..m : parts[i][8 + k] = s[k]
    BY <2>3, CountedParts, ZenonT(30)
  <2>5. r = p + (8 + m) /\ r <= l /\ \A k \in 1..(8 + m) : flat[p + k] = parts[i][k]
    BY <1>11, <2>4 DEF l
  <2> HIDE DEF p, r, m, behind
  <2>a. p + (8 + m) <= l
    BY <2>5
  <2>6. behind[i + 1] = behind[i] + 8 + m
    BY <2>2, <2>5
  <2>7. ASSUME NEW k \in 1..8 PROVE At(h, behind[i] + k) = u64_to_le_bytes(m)[k]
    <3>1. p + k \in 1..l /\ k \in 1..(8 + m) /\ behind[i] + k = 8 + (p + k)
      BY <1>7, <2>2, <2>a
    <3> QED BY <1>10, <2>4, <2>5, <3>1
  <2>8. ASSUME NEW k \in 1..m PROVE At(h, behind[i] + 8 + k) = s[k]
    <3>1. /\ p + (8 + k) \in 1..l /\ 8 + k \in 1..(8 + m)
          /\ behind[i] + 8 + k = 8 + (p + (8 + k))
      BY <1>7, <2>2, <2>a
    <3> QED BY <1>10, <2>4, <2>5, <3>1
  <2> QED BY <2>6, <2>7, <2>8 DEF m
<1> HIDE DEF behind
<1>14. Places(v, behind)
  BY <1>4, <1>12, <1>13 DEF Places, n
<1> QED BY <1>4, <1>8, <1>9, <1>14 DEF b, n

(* What is absorbed tells what was hashed: first how many segments there   *)
(* are, then, one after the other, how long each is and what it is.        *)
LEMMA AbsorbedTells ==
  ASSUME NEW v, Hashable(v), NEW w, Hashable(w),
         Absorbed(HashElement(v)) = Absorbed(HashElement(w))
  PROVE  v = w
<1> DEFINE n == Len(v)
<1>1. \A i \in Nat \ {0} : At(HashElement(v), i) = At(HashElement(w), i)
  <2>1. HashElement(v) \in Seq(Byte) /\ HashElement(w) \in Seq(Byte)
    BY HashElementPlaces
  <2> QED BY <2>1, AbsorbedKeeps
<1>2. /\ n \in Nat /\ Len(w) \in Nat
      /\ \A i \in 1..n : v[i] \in Seq(Byte) /\ Len(v[i]) \in Nat /\ FitsU32(Len(v[i]))
      /\ \A i \in 1..Len(w) : w[i] \in Seq(Byte) /\ Len(w[i]) \in Nat /\ FitsU32(Len(w[i]))
  BY LenProperties, ElementOfSeq DEF Hashable
<1>3. Len(w) = n
  <2>1. \A k \in 1..8 : u64_to_le_bytes(n)[k] = u64_to_le_bytes(Len(w))[k]
    BY <1>1, HashElementPlaces
  <2> QED BY <1>2, <2>1, NumberRead DEF Hashable
<1>4. PICK a : Places(v, a)
  BY HashElementPlaces
<1>5. PICK b : Places(w, b)
  BY HashElementPlaces
<1> DEFINE T == {j \in Nat : j <= n => a[j + 1] = b[j + 1] /\ \A i \in 1..j : v[i] = w[i]}
<1> HIDE DEF n
<1>6. 0 \in T
  BY <1>4, <1>5 DEF Places
<1>7. ASSUME NEW j \in Nat, j \in T PROVE j + 1 \in T
  <2> SUFFICES ASSUME j + 1 <= n
               PROVE  a[(j + 1) + 1] = b[(j + 1) + 1] /\ \A i \in 1..(j + 1) : v[i] = w[i]
    OBVIOUS
  <2> DEFINE m == j + 1
             p == a[m]
             s == v[m]
             t == w[m]
  <2>1. m \in 1..n /\ m \in 1..(n + 1) /\ j <= n
    BY <1>2
  <2>2. a[m] = b[m] /\ \A i \in 1..j : v[i] = w[i]
    BY <1>7, <2>1
  <2>3. /\ s \in Seq(Byte) /\ Len(s) \in Nat /\ FitsU32(Len(s))
        /\ t \in Seq(Byte) /\ Len(t) \in Nat /\ FitsU32(Len(t))
    BY <1>2, <1>3, <2>1
  <2>4. /\ p \in Nat /\ a[m + 1] = p + 8 + Len(s)
        /\ \A k \in 1..8 : At(HashElement(v), p + k) = u64_to_le_bytes(Len(s))[k]
        /\ \A k \in 1..Len(s) : At(HashElement(v), p + 8 + k) = s[k]
    <3> HIDE DEF m
    <3> QED BY <1>4, <2>1 DEF Places, n
  <2>5. /\ b[m + 1] = p + 8 + Len(t)
        /\ \A k \in 1..8 : At(HashElement(w), p + k) = u64_to_le_bytes(Len(t))[k]
        /\ \A k \in 1..Len(t) : At(HashElement(w), p + 8 + k) = t[k]
    <3> HIDE DEF m
    <3> QED BY <1>3, <1>5, <2>1, <2>2 DEF Places
  <2> HIDE DEF p, s, t
  <2>a. p \in Nat
    BY <2>4
  <2>6. Len(s) = Len(t)
    <3>1. ASSUME NEW k \in 1..8
          PROVE  u64_to_le_bytes(Len(s))[k] = u64_to_le_bytes(Len(t))[k]
      <4>1. p + k \in Nat \ {0}
        BY <2>a
      <4>2. At(HashElement(v), p + k) = At(HashElement(w), p + k)
        BY <4>1, <1>1
      <4> QED BY <4>2, <2>4, <2>5
    <3> QED BY <2>3, <3>1, NumberRead
  <2>7. s = t
    <3>1. ASSUME NEW k \in 1..Len(s) PROVE s[k] = t[k]
      <4>1. p + 8 + k \in Nat \ {0} /\ k \in 1..Len(t)
        BY <2>3, <2>4, <2>6
      <4> QED BY <4>1, <1>1, <2>4, <2>5
    <3> QED BY <2>3, <2>6, <3>1, SeqEqual
  <2>8. a[m + 1] = b[m + 1]
    BY <2>4, <2>5, <2>6
  <2>9. \A i \in 1..m : i \in 1..j \/ i = m
    OBVIOUS
  <2> QED BY <2>2, <2>7, <2>8, <2>9 DEF s, t
<1>8. Nat \subseteq T
  <2> HIDE DEF T
  <2> QED BY <1>6, <1>7, InductionOverSet
<1>9. n \in T /\ n <= n
  <2>1. n \in Nat
    BY <1>2 DEF n
  <2> HIDE DEF T
  <2> QED BY <2>1, <1>8
<1>10. \A i \in 1..n : v[i] = w[i]
  BY <1>9
<1>11. v \in Seq(Seq(Byte)) /\ w \in Seq(Seq(Byte))
  BY DEF Hashable
<1>12. Len(v) = Len(w) /\ \A i \in 1..Len(v) : v[i] = w[i]
  BY <1>3, <1>10 DEF n
<1> QED BY <1>11, <1>12, SeqEqual

\* The image of a finite set under something that tells its members apart.
LEMMA AsMany ==
  ASSUME NEW S, IsFiniteSet(S), NEW f \in [S -> {Absorbed(HashElement(v)) : v \in S}],
         \A v \in S : f[v] = Absorbed(HashElement(v)),
         \A v, w \in S : f[v] = f[w] => v = w
  PROVE  Cardinality({Absorbed(HashElement(v)) : v \in S}) = Cardinality(S)
<1> DEFINE T == {Absorbed(HashElement(v)) : v \in S}
<1>1. f \in Injection(S, T)
  BY DEF Injection, IsInjective
<1>2. f \in Surjection(S, T)
  BY DEF Surjection
<1>3. ExistsBijection(S, T)
  BY <1>1, <1>2 DEF ExistsBijection, Bijection
<1> QED BY <1>3, FS_Bijection

\* The segments, and what is hashed for the purposes of the suite.
Segments == UNION {{segments[i] : i \in DOMAIN segments} : segments \in Segmentations}
HashedFor == {hashed_for(p, m) : p \in Purposes, m \in Segments}

LEMMA FinitelyMany == IsFiniteSet(Segmentations \cup HashedFor)
<1> DEFINE Of(segments) == {segments[i] : i \in DOMAIN segments}
           All == {Of(segments) : segments \in Segmentations}
<1>1. ASSUME NEW segments \in Segmentations PROVE IsFiniteSet(Of(segments))
  <2>1. Len(segments) \in Nat /\ DOMAIN segments = 1..Len(segments)
    BY InputAssumption, LenProperties
  <2>2. IsFiniteSet(1..Len(segments))
    BY <2>1, FS_Interval
  <2>3. [i \in 1..Len(segments) |-> segments[i]] \in Surjection(1..Len(segments), Of(segments))
    BY <2>1 DEF Surjection
  <2> HIDE DEF Of
  <2> QED BY <2>2, <2>3, FS_Surjection
<1>2. IsFiniteSet(All)
  <2>1. [segments \in Segmentations |-> Of(segments)] \in Surjection(Segmentations, All)
    BY DEF Surjection
  <2> HIDE DEF All
  <2> QED BY <2>1, InputAssumption, FS_Surjection
<1>3. IsFiniteSet(Segments)
  <2>1. \A T \in All : IsFiniteSet(T)
    BY <1>1
  <2>2. Segments = UNION All
    BY DEF Segments
  <2> HIDE DEF All
  <2> QED BY <1>2, <2>1, <2>2, FS_UNION
<1>4. IsFiniteSet(Purposes)
  <2>1. Purposes = ((((({} \cup {"rho"}) \cup {"nonce"}) \cup {"msg"}) \cup {"com"})
                      \cup {"dkg"}) \cup {"id"}
    BY DEF Purposes
  <2>2. \A S, x : IsFiniteSet(S) => IsFiniteSet(S \cup {x})
    BY FS_AddElement
  <2> QED BY <2>1, <2>2, FS_EmptySet
<1>5. IsFiniteSet(Purposes \X Segments)
  BY <1>3, <1>4, FS_Product
<1>6. IsFiniteSet(HashedFor)
  <2> DEFINE f == [pm \in Purposes \X Segments |-> hashed_for(pm[1], pm[2])]
  <2>1. f \in Surjection(Purposes \X Segments, HashedFor)
    <3>1. f \in [Purposes \X Segments -> HashedFor]
      BY DEF HashedFor
    <3>2. ASSUME NEW t \in HashedFor PROVE \E pm \in Purposes \X Segments : f[pm] = t
      <4>1. PICK p \in Purposes, m \in Segments : t = hashed_for(p, m)
        BY DEF HashedFor
      <4>2. <<p, m>> \in Purposes \X Segments /\ f[<<p, m>>] = t
        BY <4>1
      <4> QED BY <4>2
    <3> HIDE DEF f
    <3> QED BY <3>1, <3>2 DEF Surjection
  <2> HIDE DEF f
  <2> QED BY <1>5, <2>1, FS_Surjection
<1> QED BY <1>6, InputAssumption, FS_Union

LEMMA PurposeTexts ==
  /\ Text.bluepallas \in Seq(Byte) /\ Len(Text.bluepallas) \in 0..10
  /\ \A p \in Purposes : Text[p] \in Seq(Byte) /\ Len(Text[p]) \in 0..10
<1>1. \A x \in {98, 108, 117, 101, 112, 97, 115, 114, 104, 111, 110, 99, 109, 103, 100, 107, 105} :
        x \in Byte
  BY DEF Byte
<1>2. Text.bluepallas = <<98, 108, 117, 101, 112, 97, 108, 108, 97, 115>>
  BY DEF Text
<1>3. Text.rho = <<114, 104, 111>> /\ Text.nonce = <<110, 111, 110, 99, 101>>
  BY DEF Text
<1>4. Text.msg = <<109, 115, 103>> /\ Text.com = <<99, 111, 109>>
  BY DEF Text
<1>5. Text.dkg = <<100, 107, 103>> /\ Text.id = <<105, 100>>
  BY DEF Text
<1>6. Text.bluepallas \in Seq(Byte) /\ Len(Text.bluepallas) \in 0..10
  BY <1>1, <1>2
<1>7. \A t \in {Text.rho, Text.nonce, Text.msg, Text.com, Text.dkg, Text.id} :
        t \in Seq(Byte) /\ Len(t) \in 0..10
  <2>1. Text.rho \in Seq(Byte) /\ Len(Text.rho) = 3
    BY <1>1, <1>3
  <2>2. Text.nonce \in Seq(Byte) /\ Len(Text.nonce) = 5
    BY <1>1, <1>3
  <2>3. /\ Text.msg \in Seq(Byte) /\ Len(Text.msg) = 3
        /\ Text.com \in Seq(Byte) /\ Len(Text.com) = 3
    BY <1>1, <1>4
  <2>4. /\ Text.dkg \in Seq(Byte) /\ Len(Text.dkg) = 3
        /\ Text.id \in Seq(Byte) /\ Len(Text.id) = 2
    BY <1>1, <1>5
  <2> QED BY <2>1, <2>2, <2>3, <2>4
<1>8. ASSUME NEW p \in Purposes
      PROVE  Text[p] \in {Text.rho, Text.nonce, Text.msg, Text.com, Text.dkg, Text.id}
  BY DEF Purposes
<1> QED BY <1>6, <1>7, <1>8

LEMMA AllHashable == \A v \in Segmentations \cup HashedFor : Hashable(v)
<1>1. ASSUME NEW v \in Segmentations PROVE Hashable(v)
  <2>1. v \in Seq(Seq(Byte)) /\ DOMAIN v = 1..Len(v)
    BY InputAssumption, LenProperties
  <2> QED BY <2>1, InputAssumption DEF Hashable
<1>2. ASSUME NEW m \in Segments PROVE m \in Seq(Byte) /\ FitsU32(Len(m))
  <2>1. PICK v \in Segmentations : \E i \in DOMAIN v : m = v[i]
    BY DEF Segments
  <2>2. PICK i \in 1..Len(v) : m = v[i]
    BY <2>1, InputAssumption, LenProperties
  <2> QED BY <1>1, <2>2, ElementOfSeq DEF Hashable
<1>3. ASSUME NEW p \in Purposes, NEW m \in Segments PROVE Hashable(hashed_for(p, m))
  <2>1. /\ CONTEXT_STRING \in Seq(Byte) /\ Len(CONTEXT_STRING) \in 0..10
        /\ Text[p] \in Seq(Byte) /\ Len(Text[p]) \in 0..10
    BY PurposeTexts DEF CONTEXT_STRING
  <2>2. m \in Seq(Byte) /\ FitsU32(Len(m))
    BY <1>2
  <2>3. \A n \in 0..10 : FitsU32(n)
    BY DEF FitsU32
  <2> DEFINE v == <<CONTEXT_STRING, Text[p], m>>
  <2>4. v \in Seq(Seq(Byte)) /\ Len(v) = 3 /\ v[1] = CONTEXT_STRING /\ v[2] = Text[p] /\ v[3] = m
    BY <2>1, <2>2
  <2>5. \A i \in 1..3 : FitsU32(Len(v[i]))
    <3>1. FitsU32(Len(v[1])) /\ FitsU32(Len(v[2])) /\ FitsU32(Len(v[3]))
      BY <2>1, <2>2, <2>3, <2>4
    <3>2. \A i \in 1..3 : i = 1 \/ i = 2 \/ i = 3
      OBVIOUS
    <3> HIDE DEF v
    <3> QED BY <3>1, <3>2
  <2>6. hashed_for(p, m) = v
    BY DEF hashed_for
  <2>7. FitsU32(3)
    BY <2>3
  <2> HIDE DEF v
  <2> QED BY <2>4, <2>5, <2>6, <2>7 DEF Hashable
<1> QED BY <1>1, <1>3 DEF HashedFor

(* Whatever is hashed, however it is cut and for whatever purpose: what    *)
(* the hasher of the suite takes of different inputs is different.         *)
THEOREM HashInputsStayApart == Spec => []HashInputsApart
<1> DEFINE S == Segmentations \cup HashedFor
           f == [v \in S |-> Absorbed(HashElement(v))]
<1>1. \A v, w \in S : f[v] = f[w] => v = w
  BY AbsorbedTells, AllHashable
<1>2. /\ f \in [S -> {Absorbed(HashElement(v)) : v \in S}]
      /\ \A v \in S : f[v] = Absorbed(HashElement(v))
  OBVIOUS
<1>3. IsFiniteSet(S)
  BY FinitelyMany
<1> HIDE DEF f
<1>4. Cardinality({Absorbed(HashElement(v)) : v \in S}) = Cardinality(S)
  <2> HIDE DEF S
  <2> QED BY <1>1, <1>2, <1>3, AsMany
<1>5. InputsApart
  BY <1>4 DEF InputsApart, HashedFor, Segments
<1>6. HashInputsApart
  BY <1>5 DEF HashInputsApart
<1> QED BY <1>6, PTL
===============================================================================
