----------------------------- MODULE EvenYProofs -----------------------------
(* Theorems about EvenY, for any group, parities, hashes and signers. *)
EXTENDS EvenY, Induction

(* The two hooks of the ciphersuite agree: what a signer negates of its    *)
(* nonces is what the coordinator negates of the signer's commitments.     *)
LEMMA HooksAgree ==
  ASSUME NEW p, NEW i \in DOMAIN p, NEW rho
  PROVE  LET own == pre_commitment_sign(p, p[i], rho)
         IN own.package = pre_commitment_aggregate(p, rho)
            /\ own.nonces = pre_commitment_aggregate(p, rho)[i]
  BY DEF pre_commitment_sign, pre_commitment_aggregate, negate_package, negate_nonces,
         negate_commitments

(* So sign() gives a share that passes the coordinator's test. *)
LEMMA ShareFits ==
  ASSUME NEW i \in Participants, IInv, sign(i)
  PROVE  verify_share(i)'
<1> DEFINE rho == binding_factors(package)
           own == pre_commitment_sign(package, nonces[i], rho)
<1>1. i \in DOMAIN package /\ nonces[i] = package[i]
  BY DEF IInv, sign
<1>2. own.package = pre_commitment_aggregate(package, rho)
      /\ own.nonces = pre_commitment_aggregate(package, rho)[i]
  BY <1>1, HooksAgree
<1>3. shares'[i] = signature_share(i)
  BY DEF IInv, sign
<1>4. package' = package /\ poly' = poly /\ message' = message
  BY DEF sign
<1> QED
  BY <1>2, <1>3, <1>4 DEF signature_share, verify_share, verifying_share, binding_factors,
                          challenge, verifying_key

(* The test depends on the package, the key and this share only. *)
LEMMA TestKept ==
  ASSUME NEW i, poly' = poly, message' = message, package' = package, shares'[i] = shares[i]
  PROVE  verify_share(i)' = verify_share(i)
  BY DEF verify_share, binding_factors, challenge, verifying_key

(* The inductive invariant of EvenY: what correct signers have sent passes *)
(* the coordinator's test at any time.                                     *)
THEOREM InductiveInvariant == Spec => []IInv
<1>1. Init => IInv
  BY DEF Init, IInv, BlamesOnlyFaulty, Failed
<1>2. IInv /\ [Next]_vars => IInv'
  <2> SUFFICES ASSUME IInv, [Next]_vars PROVE IInv'
    OBVIOUS
  <2>1. ASSUME NEW i \in Participants, commit(i) PROVE IInv'
    <3>1. package = <<>> /\ package' = package /\ shares' = shares /\ result' = result
      BY <2>1 DEF commit
    <3> QED
      BY <3>1 DEF IInv, BlamesOnlyFaulty, Failed
  <2>2. ASSUME NEW signers \in SUBSET Participants, SigningPackage(signers) PROVE IInv'
    <3>1. DOMAIN package' = signers /\ signers # {} /\ shares' = shares /\ result' = result
      BY <2>2 DEF SigningPackage
    <3>2. \A i \in signers : package'[i] = nonces'[i] /\ shares'[i] = None
      BY <2>2 DEF SigningPackage, IInv
    <3> QED
      BY <3>1, <3>2 DEF IInv, BlamesOnlyFaulty, Failed
  <2>3. ASSUME NEW i \in Participants, sign(i) \/ SendAnything(i) PROVE IInv'
    <3>1. /\ i \in DOMAIN package /\ DOMAIN shares' = Participants
          /\ package' = package /\ poly' = poly /\ message' = message
          /\ nonces' = nonces /\ result' = result
          /\ \A j \in Participants \ {i} : shares'[j] = shares[j]
      BY <2>3 DEF sign, SendAnything, IInv
    <3>2. i \notin Faulty => verify_share(i)'
      BY <2>3, ShareFits DEF SendAnything
    <3>3. \A j \in DOMAIN package \ Faulty :
            j # i /\ shares'[j] # None => verify_share(j)'
      BY <3>1, TestKept DEF IInv
    <3> QED
      BY <3>1, <3>2, <3>3 DEF IInv, BlamesOnlyFaulty, Failed
  <2>4. CASE aggregate
    <3>1. UNCHANGED <<poly, nonces, message, package, shares>>
      BY <2>4 DEF aggregate
    <3>2. \A i \in DOMAIN package \ Faulty : shares[i] # None => verify_share(i) /\ verify_share(i)'
      BY <3>1, TestKept DEF IInv
    <3>3. BlamesOnlyFaulty'
      BY <2>4, <3>2 DEF aggregate, BlamesOnlyFaulty, Failed
    <3> QED
      BY <3>1, <3>2, <3>3 DEF IInv
  <2>5. CASE UNCHANGED vars
    <3>1. \A i \in DOMAIN package \ Faulty : shares[i] # None => verify_share(i)'
      BY <2>5, TestKept DEF IInv, vars
    <3> QED
      BY <2>5, <3>1 DEF IInv, vars, BlamesOnlyFaulty, Failed
  <2> QED
    BY <2>1, <2>2, <2>3, <2>4, <2>5 DEF Next
<1> QED
  BY <1>1, <1>2, PTL DEF Spec

(* aggregate() never blames a correct signer, however the others behave. *)
THEOREM NobodyBlamedWrongly == Spec => []BlamesOnlyFaulty
<1>1. IInv => BlamesOnlyFaulty
  BY DEF IInv
<1> QED
  BY <1>1, InductiveInvariant, PTL

-------------------------------------------------------------------------------
(* The message as bytes (PallasMessageCodec).                              *)

\* Where the parts are in three sequences one after the other.
LEMMA ThreeParts ==
  ASSUME NEW S, NEW a \in Seq(S), NEW b \in Seq(S), NEW c \in Seq(S),
         NEW s, s = (a \o b) \o c
  PROVE  /\ s \in Seq(S) /\ Len(s) = Len(a) + Len(b) + Len(c)
         /\ \A i \in 1..Len(a) : s[i] = a[i]
         /\ \A i \in 1..Len(b) : s[Len(a) + i] = b[i]
         /\ \A i \in 1..Len(c) : s[Len(a) + Len(b) + i] = c[i]
<1> DEFINE ab == a \o b
           l == Len(a)
           m == Len(b)
           n == Len(c)
<1>1. l \in Nat /\ m \in Nat /\ n \in Nat
  BY LenProperties
<1>2. /\ ab \in Seq(S) /\ Len(ab) = l + m
      /\ \A i \in 1..(l + m) : ab[i] = IF i <= l THEN a[i] ELSE b[i - l]
  BY ConcatProperties, Zenon
<1> HIDE DEF ab
<1>3. /\ s \in Seq(S) /\ Len(s) = Len(ab) + n
      /\ \A i \in 1..(Len(ab) + n) : s[i] = IF i <= Len(ab) THEN ab[i] ELSE c[i - Len(ab)]
  <2>1. ab \in Seq(S) /\ s = ab \o c
    BY <1>2 DEF ab
  <2> QED BY <2>1, ConcatProperties, ZenonT(30)
<1> HIDE DEF l, m, n
<1>4. s \in Seq(S) /\ Len(s) = l + m + n
  BY <1>1, <1>2, <1>3
<1>5. \A i \in 1..l : s[i] = a[i]
  BY <1>1, <1>2, <1>3
<1>6. \A i \in 1..m : s[l + i] = b[i]
  <2> TAKE i \in 1..m
  <2>1. l + i \in 1..(l + m) /\ ~(l + i <= l) /\ (l + i) - l = i /\ l + i \in 1..((l + m) + n)
    BY <1>1
  <2> QED BY <2>1, <1>2, <1>3
<1>7. \A i \in 1..n : s[l + m + i] = c[i]
  <2> TAKE i \in 1..n
  <2>1. /\ l + m + i \in 1..((l + m) + n) /\ ~(l + m + i <= l + m)
        /\ (l + m + i) - (l + m) = i
    BY <1>1
  <2> QED BY <2>1, <1>2, <1>3
<1> QED BY <1>4, <1>5, <1>6, <1>7 DEF l, m, n

\* The length as four bytes is read as the same number.
LEMMA LengthReadsBack ==
  ASSUME NEW n \in Nat, FitsU32(n)
  PROVE  LET b == u32_to_le_bytes(n) IN
         /\ b \in Seq(Nat) /\ Len(b) = 4
         /\ b[1] + 256 * b[2] + 65536 * b[3] + 16777216 * b[4] = n
<1> DEFINE b == u32_to_le_bytes(n)
           byte(k) == (n \div 256^(k - 1)) % 256
<1>1. /\ 256^(1 - 1) = 1 /\ 256^(2 - 1) = 256 /\ 256^(3 - 1) = 65536
      /\ 256^(4 - 1) = 16777216 /\ 256^3 = 16777216
  OBVIOUS
<1>2. /\ byte(1) = n % 256 /\ byte(2) = (n \div 256) % 256
      /\ byte(3) = (n \div 65536) % 256 /\ byte(4) = (n \div 16777216) % 256
  BY <1>1
<1>3. byte(1) \in Nat /\ byte(2) \in Nat /\ byte(3) \in Nat /\ byte(4) \in Nat
  BY <1>2
<1>4. byte(1) + 256 * byte(2) + 65536 * byte(3) + 16777216 * byte(4) = n
  BY <1>1, <1>2 DEF FitsU32
<1>5. b = [k \in 1..4 |-> byte(k)]
  BY DEF u32_to_le_bytes
<1> HIDE DEF byte, b
<1>6. b[1] = byte(1) /\ b[2] = byte(2) /\ b[3] = byte(3) /\ b[4] = byte(4)
  BY <1>5
<1>7. b \in [1..4 -> Nat]
  <2>1. \A k \in 1..4 : byte(k) \in Nat
    BY <1>3
  <2> QED BY <2>1, <1>5
<1>8. b \in Seq(Nat) /\ Len(b) = 4
  <2>1. \A k \in 1..4 : byte(k) \in Nat
    BY <1>3
  <2>2. [k \in 1..4 |-> byte(k)] \in Seq(Nat) /\ Len([k \in 1..4 |-> byte(k)]) = 4
    BY <2>1
  <2> QED BY <1>5, <2>2
<1> QED BY <1>4, <1>6, <1>8 DEF b

\* A part of a sequence that is equal to another sequence.
LEMMA PartIs ==
  ASSUME NEW S, NEW b, NEW t \in Seq(S), NEW k \in Nat,
         \A i \in 1..Len(t) : b[k + i] = t[i]
  PROVE  SubSeq(b, k + 1, k + Len(t)) = t
<1> DEFINE n == Len(t)
           sub == SubSeq(b, k + 1, k + n)
<1>1. n \in Nat /\ \A i \in 1..n : t[i] \in S
  BY LenProperties, ElementOfSeq
<1>2. \A i \in 1..n : b[k + i] = t[i]
  OBVIOUS
<1> HIDE DEF n
<1>3. \A j \in (k + 1)..(k + n) : b[j] \in S
  <2> TAKE j \in (k + 1)..(k + n)
  <2>1. j - k \in 1..n /\ k + (j - k) = j
    BY <1>1
  <2> QED BY <2>1, <1>1, <1>2
<1>4. k + 1 \in Int /\ k + n \in Int
  BY <1>1
<1>5. /\ sub \in Seq(S)
      /\ Len(sub) = IF k + 1 <= k + n THEN (k + n) - (k + 1) + 1 ELSE 0
      /\ \A i \in 1..((k + n) - (k + 1) + 1) : sub[i] = b[(k + 1) + i - 1]
  BY <1>3, <1>4, SubSeqProperties
<1> HIDE DEF sub
<1>6. Len(sub) = n
  BY <1>1, <1>5
<1>7. \A i \in 1..n : sub[i] = t[i]
  <2> TAKE i \in 1..n
  <2>1. i \in 1..((k + n) - (k + 1) + 1) /\ (k + 1) + i - 1 = k + i
    BY <1>1
  <2> QED BY <2>1, <1>2, <1>5
<1>8. sub = t
  BY <1>5, <1>6, <1>7, SeqEqual DEF n
<1> QED BY <1>8 DEF sub, n

(* deserialize makes of the bytes of a message the message: the length of  *)
(* the name moves all that follows it, and nothing but the end of the name *)
(* and of the input is taken for it.                                       *)
LEMMA CodecReadsBack ==
  ASSUME NEW m \in PallasMessage, serializable(m), FitsU32(Len(m.input))
  PROVE  deserialize(serialize(m)) = m /\ deserialize(serialize(m)) # Error
<1> DEFINE input == m.input
           name == m.network_id.name
           kind == m.network_id.kind
           nb == network_bytes(m.network_id)
           flag == IF m.is_legacy THEN 1 ELSE 0
           lb == u32_to_le_bytes(Len(input))
           head == (<<1>> \o nb) \o <<flag>>
           b == serialize(m)
           k == Len(nb)
<1>1. /\ input \in Seq(Byte) /\ m.is_legacy \in BOOLEAN
      /\ m.network_id \in NetworkId /\ Len(name) <= MAX_PREFIX_LENGTH
      /\ m = [input |-> input, network_id |-> m.network_id, is_legacy |-> m.is_legacy]
  BY DEF PallasMessage, serializable
<1>2. /\ kind \in {"Testnet", "Mainnet", "Custom"} /\ name \in Seq(0..127)
      /\ m.network_id = [kind |-> kind, name |-> name]
      /\ kind # "Custom" => name = <<>>
  <2> DEFINE id == m.network_id
  <2>1. CASE id \in [kind : {"Testnet", "Mainnet"}, name : {<<>>}]
    <3>1. id.name = <<>> /\ id.kind \in {"Testnet", "Mainnet"}
          /\ id = [kind |-> id.kind, name |-> id.name]
      BY <2>1
    <3>2. <<>> \in Seq(0..127)
      OBVIOUS
    <3> QED BY <3>1, <3>2
  <2>2. CASE id \in [kind : {"Custom"}, name : Seq(0..127)]
    BY <2>2
  <2> QED BY <1>1, <2>1, <2>2 DEF NetworkId
<1>3. input \in Seq(Nat) /\ Len(input) \in Nat /\ name \in Seq(Nat) /\ Len(name) \in Nat
  <2>1. Byte \subseteq Nat /\ 0..127 \subseteq Nat
    BY DEF Byte
  <2>2. input \in Seq(Nat) /\ name \in Seq(Nat)
    BY <1>1, <1>2, <2>1, SeqMonotonic, Zenon
  <2> QED BY <2>2, LenProperties, Zenon
<1>4. /\ nb \in Seq(Nat)
      /\ kind = "Testnet" => k = 1 /\ nb[1] = 0
      /\ kind = "Mainnet" => k = 1 /\ nb[1] = 1
      /\ kind = "Custom" => /\ k = 2 + Len(name) /\ nb[1] = 2 /\ nb[2] = Len(name)
                            /\ \A i \in 1..Len(name) : nb[2 + i] = name[i]
  <2>1. CASE kind = "Testnet"
    <3>1. nb = <<0>>
      BY <2>1 DEF network_bytes
    <3> QED BY <2>1, <3>1
  <2>2. CASE kind = "Mainnet"
    <3>1. nb = <<1>>
      BY <2>2 DEF network_bytes
    <3> QED BY <2>2, <3>1
  <2>3. CASE kind = "Custom"
    <3> DEFINE two == <<2, Len(name)>>
               l == Len(name)
    <3>1. nb = two \o name
      BY <2>3 DEF network_bytes
    <3>2. two \in Seq(Nat) /\ Len(two) = 2 /\ two[1] = 2 /\ two[2] = l
      BY <1>3
    <3> HIDE DEF two
    <3>3. /\ two \o name \in Seq(Nat) /\ Len(two \o name) = Len(two) + l
          /\ \A i \in 1..(Len(two) + l) :
               (two \o name)[i] = IF i <= Len(two) THEN two[i] ELSE name[i - Len(two)]
      BY <1>3, <3>2, ConcatProperties, Zenon
    <3> HIDE DEF nb
    <3>4. /\ nb \in Seq(Nat) /\ Len(nb) = 2 + l
          /\ \A i \in 1..(2 + l) : nb[i] = IF i <= 2 THEN two[i] ELSE name[i - 2]
      BY <3>1, <3>2, <3>3
    <3>5. l \in Nat
      BY <1>3
    <3> HIDE DEF l
    <3>6. nb[1] = 2 /\ nb[2] = l
      BY <3>2, <3>4, <3>5
    <3>7. \A i \in 1..l : nb[2 + i] = name[i]
      <4> TAKE i \in 1..l
      <4>1. 2 + i \in 1..(2 + l) /\ ~(2 + i <= 2) /\ (2 + i) - 2 = i
        BY <3>5
      <4> QED BY <3>4, <4>1
    <3> QED BY <2>3, <3>4, <3>6, <3>7 DEF l
  <2> QED BY <1>2, <2>1, <2>2, <2>3
<1> HIDE DEF nb
<1>5. k \in Nat
  BY <1>4, LenProperties, Zenon
<1>6. flag \in 0..1 /\ (flag = 1 <=> m.is_legacy)
  BY <1>1
<1>7. /\ lb \in Seq(Nat) /\ Len(lb) = 4
      /\ lb[1] + 256 * lb[2] + 65536 * lb[3] + 16777216 * lb[4] = Len(input)
  BY <1>3, LengthReadsBack
<1> HIDE DEF lb, flag
<1>8. /\ head \in Seq(Nat) /\ Len(head) = 2 + k
      /\ head[1] = 1 /\ head[k + 2] = flag
      /\ \A i \in 1..k : head[1 + i] = nb[i]
  <2> DEFINE one == <<1>>
             last == <<flag>>
  <2>1. one \in Seq(Nat) /\ Len(one) = 1 /\ one[1] = 1
    OBVIOUS
  <2>2. last \in Seq(Nat) /\ Len(last) = 1 /\ last[1] = flag
    BY <1>6
  <2>3. head = (one \o nb) \o last
    OBVIOUS
  <2> HIDE DEF one, last, head
  <2>4. /\ head \in Seq(Nat) /\ Len(head) = Len(one) + k + Len(last)
        /\ \A i \in 1..Len(one) : head[i] = one[i]
        /\ \A i \in 1..k : head[Len(one) + i] = nb[i]
        /\ \A i \in 1..Len(last) : head[Len(one) + k + i] = last[i]
    <3>1. nb \in Seq(Nat) /\ one \in Seq(Nat) /\ last \in Seq(Nat)
      BY <1>4, <2>1, <2>2
    <3> HIDE DEF k
    <3>2. /\ head \in Seq(Nat) /\ Len(head) = Len(one) + Len(nb) + Len(last)
          /\ \A i \in 1..Len(one) : head[i] = one[i]
          /\ \A i \in 1..Len(nb) : head[Len(one) + i] = nb[i]
          /\ \A i \in 1..Len(last) : head[Len(one) + Len(nb) + i] = last[i]
      BY <3>1, <2>3, ThreeParts
    <3> QED BY <3>2 DEF k
  <2> HIDE DEF k
  <2>5. head[1 + k + 1] = last[1] /\ head[1] = one[1]
    BY <2>1, <2>2, <2>4
  <2>6. 1 + k + 1 = k + 2 /\ 1 + k + 1 = 2 + k
    BY <1>5
  <2> QED BY <2>1, <2>2, <2>4, <2>5, <2>6
<1>9. b = (head \o lb) \o input
  BY DEF serialize, nb, flag, lb
<1> HIDE DEF head, b, k
<1>10. /\ b \in Seq(Nat) /\ Len(b) = (2 + k) + 4 + Len(input)
       /\ \A i \in 1..(2 + k) : b[i] = head[i]
       /\ \A i \in 1..4 : b[(2 + k) + i] = lb[i]
       /\ \A i \in 1..Len(input) : b[(2 + k) + 4 + i] = input[i]
  <2>1. /\ b \in Seq(Nat) /\ Len(b) = Len(head) + Len(lb) + Len(input)
        /\ \A i \in 1..Len(head) : b[i] = head[i]
        /\ \A i \in 1..Len(lb) : b[Len(head) + i] = lb[i]
        /\ \A i \in 1..Len(input) : b[Len(head) + Len(lb) + i] = input[i]
    <3>1. head \in Seq(Nat) /\ lb \in Seq(Nat) /\ input \in Seq(Nat)
      BY <1>3, <1>7, <1>8
    <3> HIDE DEF input
    <3> QED BY <3>1, <1>9, ThreeParts
  <2>2. Len(head) = 2 + k /\ Len(lb) = 4
    BY <1>7, <1>8
  <2> QED BY <2>1, <2>2
<1>11. /\ b[1] = 1 /\ b[k + 2] = flag
       /\ \A i \in 1..k : b[1 + i] = nb[i]
  <2>1. 1 \in 1..(2 + k) /\ k + 2 \in 1..(2 + k) /\ \A i \in 1..k : 1 + i \in 1..(2 + k)
    BY <1>5
  <2> QED BY <2>1, <1>8, <1>10
<1>12. /\ kind = "Testnet" => k = 1 /\ b[2] = 0
       /\ kind = "Mainnet" => k = 1 /\ b[2] = 1
       /\ kind = "Custom" => /\ k = 2 + Len(name) /\ b[2] = 2 /\ b[3] = Len(name)
                             /\ \A i \in 1..Len(name) : b[3 + i] = name[i]
  <2>1. CASE kind = "Testnet"
    <3>1. 1 \in 1..k /\ 1 + 1 = 2
      BY <2>1, <1>4
    <3> QED BY <2>1, <3>1, <1>4, <1>11
  <2>2. CASE kind = "Mainnet"
    <3>1. 1 \in 1..k /\ 1 + 1 = 2
      BY <2>2, <1>4
    <3> QED BY <2>2, <3>1, <1>4, <1>11
  <2>3. CASE kind = "Custom"
    <3>1. 1 \in 1..k /\ 2 \in 1..k /\ 1 + 1 = 2 /\ 1 + 2 = 3
      BY <2>3, <1>3, <1>4
    <3>2. b[2] = nb[1] /\ b[3] = nb[2]
      BY <3>1, <1>11
    <3>3. ASSUME NEW i \in 1..Len(name) PROVE b[3 + i] = name[i]
      <4>1. 2 + i \in 1..k /\ 1 + (2 + i) = 3 + i
        BY <2>3, <1>3, <1>4
      <4> QED BY <2>3, <4>1, <1>4, <1>11
    <3> QED BY <2>3, <3>2, <3>3, <1>4
  <2> QED BY <1>2, <2>1, <2>2, <2>3
<1>13. network_id_ok(b) /\ flag_index(b) = k + 2
  <2> DEFINE l == Len(name)
             n == Len(input)
             size == Len(b)
  <2>a. l \in Nat /\ n \in Nat /\ k \in Nat /\ size = (2 + k) + 4 + n
        /\ (kind = "Custom" => k = 2 + l)
    BY <1>3, <1>5, <1>10, <1>12
  <2>1. Len(b) >= 3 /\ (kind = "Custom" => Len(b) >= 3 + Len(name))
    <3> HIDE DEF l, n, size
    <3>1. size >= 3 /\ (kind = "Custom" => size >= 3 + l)
      BY <2>a
    <3> QED BY <3>1 DEF l, size
  <2> QED BY <2>1, <1>1, <1>2, <1>3, <1>11, <1>12 DEF network_id_ok, flag_index
<1>14. u32_from_le_bytes(b, (k + 2) + 1) = Len(input)
  <2>1. /\ (k + 2) + 1 = (2 + k) + 1 /\ ((k + 2) + 1) + 1 = (2 + k) + 2
        /\ ((k + 2) + 1) + 2 = (2 + k) + 3 /\ ((k + 2) + 1) + 3 = (2 + k) + 4
    BY <1>5
  <2>2. /\ b[(2 + k) + 1] = lb[1] /\ b[(2 + k) + 2] = lb[2]
        /\ b[(2 + k) + 3] = lb[3] /\ b[(2 + k) + 4] = lb[4]
    BY <1>10
  <2>3. u32_from_le_bytes(b, (k + 2) + 1)
          = lb[1] + 256 * lb[2] + 65536 * lb[3] + 16777216 * lb[4]
    BY <2>1, <2>2 DEF u32_from_le_bytes
  <2> QED BY <2>3, <1>7
<1>15. SubSeq(b, (k + 2) + 5, Len(b)) = input
  <2>1. /\ (2 + k) + 4 \in Nat /\ (k + 2) + 5 = ((2 + k) + 4) + 1
        /\ Len(b) = ((2 + k) + 4) + Len(input)
    BY <1>3, <1>5, <1>10
  <2>2. \A i \in 1..Len(input) : b[((2 + k) + 4) + i] = input[i]
    BY <1>10
  <2>3. SubSeq(b, ((2 + k) + 4) + 1, ((2 + k) + 4) + Len(input)) = input
    <3> DEFINE p == (2 + k) + 4
    <3>1. p \in Nat /\ input \in Seq(Byte) /\ \A i \in 1..Len(input) : b[p + i] = input[i]
      BY <1>1, <2>1, <2>2
    <3> HIDE DEF p, input
    <3>2. SubSeq(b, p + 1, p + Len(input)) = input
      BY <3>1, PartIs, SMTT(30)
    <3> QED BY <3>2 DEF p
  <2> QED BY <2>1, <2>3
<1>16. SubSeq(b, 4, (k + 2) - 1) = name
  <2>1. CASE kind = "Custom"
    <3>1. 4 = 3 + 1 /\ (k + 2) - 1 = 3 + Len(name) /\ 3 \in Nat
      BY <2>1, <1>3, <1>12
    <3>2. SubSeq(b, 3 + 1, 3 + Len(name)) = name
      BY <2>1, <1>2, <1>12, <3>1, PartIs
    <3> QED BY <3>1, <3>2
  <2>2. CASE kind # "Custom"
    <3>1. k = 1 /\ name = <<>>
      BY <2>2, <1>2, <1>12
    <3>2. (k + 2) - 1 = 2 /\ 4 \in Int /\ 2 \in Int /\ 2 < 4
      BY <3>1
    <3>3. SubSeq(b, 4, 2) = <<>>
      BY <3>2, SubSeqEmpty
    <3> QED BY <3>1, <3>2, <3>3
  <2> QED BY <2>1, <2>2
<1>17. <<"Testnet", "Mainnet", "Custom">>[b[2] + 1] = kind
  BY <1>2, <1>12
<1>18. /\ ~(k + 2 > Len(b)) /\ b[k + 2] \in 0..1 /\ ~(Len(b) < (k + 2) + 4)
       /\ Len(b) = (k + 2) + 4 + u32_from_le_bytes(b, (k + 2) + 1)
  <2> DEFINE n == Len(input)
             size == Len(b)
  <2>1. n \in Nat /\ k \in Nat /\ size = (2 + k) + 4 + n
    BY <1>3, <1>5, <1>10
  <2>2. b[k + 2] \in 0..1 /\ u32_from_le_bytes(b, (k + 2) + 1) = n
    BY <1>6, <1>11, <1>14
  <2> HIDE DEF n, size
  <2>3. ~(k + 2 > size) /\ ~(size < (k + 2) + 4) /\ size = (k + 2) + 4 + n
    BY <2>1
  <2> QED BY <2>2, <2>3 DEF size
<1>19. deserialize(b) =
         [input |-> SubSeq(b, (k + 2) + 5, Len(b)), is_legacy |-> b[k + 2] = 1,
          network_id |-> [kind |-> <<"Testnet", "Mainnet", "Custom">>[b[2] + 1],
                          name |-> SubSeq(b, 4, (k + 2) - 1)]]
  BY <1>13, <1>18 DEF deserialize
<1>20. (b[k + 2] = 1) = m.is_legacy
  BY <1>1, <1>6, <1>11
<1>21. deserialize(b) =
         [input |-> input, is_legacy |-> m.is_legacy,
          network_id |-> [kind |-> kind, name |-> name]]
  BY <1>15, <1>16, <1>17, <1>19, <1>20
<1>22. deserialize(b) = m
  BY <1>1, <1>2, <1>21
<1>23. deserialize(b) # Error
  <2>1. DOMAIN deserialize(b) = {"input", "is_legacy", "network_id"}
    BY <1>21
  <2>2. DOMAIN Error = {"error"}
    BY DEF Error
  <2> QED BY <2>1, <2>2
<1> QED BY <1>22, <1>23 DEF b

(* What challenge() hashes is the message of the package, for any network, *)
(* any mode and any input: signers, coordinator and node mean the same.    *)
MessageKnown == message \in Messages \cup {None}
THEOREM MessageAlwaysReadsBack == Spec => []MessageReadsBack
<1>1. Init => MessageKnown
  BY DEF Init, MessageKnown
<1>2. MessageKnown /\ [Next]_vars => MessageKnown'
  BY DEF MessageKnown, Next, vars, commit, SigningPackage, sign, SendAnything, aggregate
<1>3. MessageKnown => MessageReadsBack
  <2> SUFFICES ASSUME message \in Messages, serializable(message)
               PROVE message_read(serialize(message)) = message
    BY DEF MessageKnown, MessageReadsBack
  <2>1. message \in PallasMessage /\ FitsU32(Len(message.input))
    BY GroupAssumption
  <2>2. deserialize(serialize(message)) = message /\ deserialize(serialize(message)) # Error
    BY <2>1, CodecReadsBack
  <2> QED BY <2>2 DEF message_read
<1> QED BY <1>1, <1>2, <1>3, PTL DEF Spec

-------------------------------------------------------------------------------
(* Numbers modulo q.                                                       *)
Congruent(a, b) == \E k \in Int : a - b = k * q

LEMMA Order == q \in Nat /\ q > 0 /\ 0 \in Scalars /\ \A s \in Scalars : s \in Int
  BY GroupAssumption DEF Scalars

LEMMA CongruentIsEquivalence ==
  ASSUME NEW a \in Int, NEW b \in Int, NEW c \in Int
  PROVE  /\ Congruent(a, a)
         /\ Congruent(a, b) => Congruent(b, a)
         /\ Congruent(a, b) /\ Congruent(b, c) => Congruent(a, c)
<1>1. Congruent(a, a)
  <2>1. a - a = 0 * q
    BY Order
  <2> QED BY <2>1 DEF Congruent
<1>2. ASSUME Congruent(a, b) PROVE Congruent(b, a)
  <2>1. PICK k \in Int : a - b = k * q
    BY <1>2 DEF Congruent
  <2>2. b - a = (-k) * q /\ -k \in Int
    BY <2>1, Order
  <2> QED BY <2>2 DEF Congruent
<1>3. ASSUME Congruent(a, b), Congruent(b, c) PROVE Congruent(a, c)
  <2>1. PICK k \in Int : a - b = k * q
    BY <1>3 DEF Congruent
  <2>2. PICK l \in Int : b - c = l * q
    BY <1>3 DEF Congruent
  <2>3. a - c = (k + l) * q /\ k + l \in Int
    BY <2>1, <2>2, Order
  <2> QED BY <2>3 DEF Congruent
<1> QED BY <1>1, <1>2, <1>3

LEMMA CongruentOperations ==
  ASSUME NEW a \in Int, NEW b \in Int, NEW c \in Int, NEW d \in Int,
         Congruent(a, b), Congruent(c, d)
  PROVE  Congruent(a + c, b + d) /\ Congruent(a * c, b * d)
<1>1. PICK k \in Int : a - b = k * q
  BY DEF Congruent
<1>2. PICK l \in Int : c - d = l * q
  BY DEF Congruent
<1>3. a = b + k * q /\ c = d + l * q
  BY <1>1, <1>2, Order
<1>4. (a + c) - (b + d) = (k + l) * q /\ k + l \in Int
  BY <1>3, Order
<1>5. (a * c) - (b * d) = (k * c + b * l) * q /\ k * c + b * l \in Int
  BY <1>3, Order
<1> QED BY <1>4, <1>5 DEF Congruent

LEMMA CongruentInside ==
  ASSUME NEW a \in Int, NEW b \in Int, NEW c \in Int, Congruent(a, b)
  PROVE  Congruent(c + a, c + b) /\ Congruent(c * a, c * b)
<1>1. Congruent(c, c)
  BY CongruentIsEquivalence
<1> QED BY <1>1, CongruentOperations

LEMMA Remainder ==
  ASSUME NEW a \in Int
  PROVE  a % q \in Scalars /\ Congruent(a % q, a) /\ Congruent(a, a % q)
<1>1. a % q \in 0..(q - 1) /\ a \div q \in Int /\ a = q * (a \div q) + (a % q)
  BY Order
<1> DEFINE r == a % q
           k == a \div q
<1>2. r \in 0..(q - 1) /\ k \in Int /\ a = q * k + r
  BY <1>1
<1> HIDE DEF r, k
<1>3. r - a = (-k) * q /\ -k \in Int /\ a - r = k * q
  BY <1>2, Order
<1>4. r \in Scalars /\ Congruent(r, a) /\ Congruent(a, r)
  BY <1>2, <1>3 DEF Congruent, Scalars
<1> QED BY <1>4 DEF r

LEMMA CongruentScalars ==
  ASSUME NEW a \in Scalars, NEW b \in Scalars, Congruent(a, b)
  PROVE  a = b
<1>1. PICK k \in Int : a - b = k * q
  BY DEF Congruent
<1>2. a \in 0..(q - 1) /\ b \in 0..(q - 1)
  BY DEF Scalars
<1>3. k <= 0
  <2> SUFFICES ASSUME k >= 1 PROVE FALSE
    OBVIOUS
  <2>1. k * q >= q
    BY Order
  <2> QED BY <1>1, <1>2, <2>1, Order
<1>4. k >= 0
  <2> SUFFICES ASSUME k <= -1 PROVE FALSE
    OBVIOUS
  <2>1. k * q <= -q
    BY Order
  <2> QED BY <1>1, <1>2, <2>1, Order
<1>5. k = 0
  BY <1>3, <1>4
<1> QED BY <1>1, <1>2, <1>5, Order

LEMMA CongruentRemainders ==
  ASSUME NEW a \in Int, NEW b \in Int, Congruent(a, b)
  PROVE  a % q = b % q
<1>1. /\ a % q \in Scalars /\ Congruent(a % q, a)
      /\ b % q \in Scalars /\ Congruent(b, b % q)
  BY Remainder
<1>2. Congruent(a % q, b % q)
  <2>1. a % q \in Int /\ b % q \in Int
    BY <1>1, Order
  <2>2. Congruent(a % q, b)
    BY <1>1, <2>1, CongruentIsEquivalence
  <2> QED BY <1>1, <2>1, <2>2, CongruentIsEquivalence
<1> QED BY <1>1, <1>2, CongruentScalars

\* What holds of every summand holds of the sums.
LEMMA SumCombines ==
  ASSUME NEW S, IsFiniteSet(S), NEW f, NEW g, NEW h, NEW a \in Int, NEW b \in Int,
         \A x \in S : /\ f[x] \in Int /\ g[x] \in Int /\ h[x] \in Int
                      /\ Congruent(h[x], a * f[x] + b * g[x])
  PROVE  Congruent(SumFunctionOnSet(h, S), a * SumFunctionOnSet(f, S) + b * SumFunctionOnSet(g, S))
<1> DEFINE Holds(s) == Congruent(SumFunctionOnSet(h, s),
                                 a * SumFunctionOnSet(f, s) + b * SumFunctionOnSet(g, s))
           T == {s \in SUBSET S : Holds(s)}
<1>1. \A s \in SUBSET S : IsFiniteSet(s)
  BY FS_Subset
<1>2. {} \in T
  <2>1. SumFunctionOnSet(h, {}) = 0 /\ SumFunctionOnSet(f, {}) = 0 /\ SumFunctionOnSet(g, {}) = 0
    BY SumRules
  <2>2. a * 0 + b * 0 = 0 /\ Congruent(0, 0)
    BY CongruentIsEquivalence
  <2> QED BY <2>1, <2>2
<1>3. ASSUME NEW R \in SUBSET S, NEW x \in S \ R, R \in T PROVE R \cup {x} \in T
  <2> DEFINE s == R \cup {x}
  <2>1. s \in SUBSET S /\ x \in s /\ s \ {x} = R /\ IsFiniteSet(s) /\ IsFiniteSet(R)
    BY <1>1
  <2> HIDE DEF s
  <2> DEFINE F == SumFunctionOnSet(f, R)
             G == SumFunctionOnSet(g, R)
             H == SumFunctionOnSet(h, R)
  <2>2. /\ F \in Int /\ G \in Int /\ H \in Int
        /\ SumFunctionOnSet(f, s) = f[x] + F /\ SumFunctionOnSet(g, s) = g[x] + G
        /\ SumFunctionOnSet(h, s) = h[x] + H
    <3>1. \A y \in s : f[y] \in Int /\ g[y] \in Int /\ h[y] \in Int
      BY <2>1
    <3>2. \A y \in R : f[y] \in Int /\ g[y] \in Int /\ h[y] \in Int
      OBVIOUS
    <3>3. F \in Int /\ G \in Int /\ H \in Int
      BY <2>1, <3>2, SumRules
    <3> HIDE DEF F, G, H
    <3>4. \A k : (\A y \in s : k[y] \in Int) =>
                 SumFunctionOnSet(k, s) = k[x] + SumFunctionOnSet(k, s \ {x})
      BY <2>1, SumRules
    <3>5. /\ SumFunctionOnSet(f, s) = f[x] + F /\ SumFunctionOnSet(g, s) = g[x] + G
          /\ SumFunctionOnSet(h, s) = h[x] + H
      BY <2>1, <3>1, <3>4 DEF F, G, H
    <3> QED BY <3>3, <3>5
  <2>3. Congruent(H, a * F + b * G)
    BY <1>3
  <2>4. /\ x \in S /\ f[x] \in Int /\ g[x] \in Int /\ h[x] \in Int
        /\ Congruent(h[x], a * f[x] + b * g[x])
    OBVIOUS
  <2> HIDE DEF F, G, H
  <2> DEFINE u == a * f[x] + b * g[x]
             v == a * F + b * G
  <2>5. u \in Int /\ v \in Int /\ a * (f[x] + F) + b * (g[x] + G) = u + v
    BY <2>2, <2>4
  <2>6. Congruent(h[x] + H, u + v)
    <3>1. Congruent(h[x], u) /\ Congruent(H, v)
      BY <2>3, <2>4
    <3> HIDE DEF u, v
    <3> QED BY <2>2, <2>4, <2>5, <3>1, CongruentOperations
  <2>7. Holds(s)
    BY <2>2, <2>5, <2>6
  <2>8. s \in T
    BY <2>1, <2>7
  <2> QED BY <2>8 DEF s
<1>4. SUBSET S \subseteq T
  <2> HIDE DEF T
  <2> QED BY <1>2, <1>3, InductionOverSubsets
<1> QED BY <1>4

LEMMA InverseIs ==
  ASSUME NEW d \in Int, d % q # 0
  PROVE  inverse(d % q) \in Scalars /\ Congruent(d * inverse(d % q), 1)
<1> DEFINE s == d % q
           t == inverse(s)
<1>1. s \in Scalars \ {0} /\ Congruent(d, s)
  BY Remainder
<1>2. t \in Scalars /\ (s * t) % q = 1
  <2>1. \E u \in Scalars : (s * u) % q = 1
    BY <1>1, FieldAssumption
  <2> HIDE DEF s
  <2> QED BY <2>1 DEF inverse
<1> HIDE DEF s, t
<1>3. s \in Int /\ t \in Int /\ s * t \in Int /\ d * t \in Int
  BY <1>1, <1>2, Order
<1>4. Congruent(s * t, 1)
  BY <1>2, <1>3, Remainder
<1>5. Congruent(d * t, s * t)
  BY <1>1, <1>3, CongruentIsEquivalence, CongruentOperations
<1>6. Congruent(d * t, 1)
  BY <1>3, <1>4, <1>5, CongruentIsEquivalence
<1> QED BY <1>2, <1>6 DEF s, t

LEMMA DistinctParticipants ==
  ASSUME NEW i \in Participants, NEW j \in Participants, i # j
  PROVE  i \in Int /\ j \in Int /\ (j - i) % q # 0
<1>1. i \in Scalars /\ j \in Scalars /\ i \in Int /\ j \in Int
  BY GroupAssumption, Order
<1>2. ASSUME (j - i) % q = 0 PROVE FALSE
  <2>1. Congruent(j - i, 0)
    BY <1>1, <1>2, Remainder
  <2>2. Congruent(i + (j - i), i + 0)
    <3> DEFINE d == j - i
    <3>1. d \in Int /\ 0 \in Int /\ Congruent(d, 0)
      BY <1>1, <2>1
    <3> HIDE DEF d
    <3>2. Congruent(i + d, i + 0)
      BY <1>1, <3>1, CongruentInside
    <3> QED BY <3>2 DEF d
  <2>3. i + (j - i) = j /\ i + 0 = i
    BY <1>1
  <2> QED BY <1>1, <2>2, <2>3, CongruentScalars
<1> QED BY <1>1, <1>2

LEMMA SignersFinite ==
  ASSUME NEW S \in SUBSET Participants
  PROVE  IsFiniteSet(S)
<1>1. IsFiniteSet(0..(q - 1))
  BY Order, FS_Interval
<1>2. S \in SUBSET (0..(q - 1))
  BY GroupAssumption DEF Scalars
<1> QED BY <1>1, <1>2, FS_Subset

-------------------------------------------------------------------------------
(* Interpolation: what the Lagrange coefficients of a set of signers make  *)
(* of the values of a polynomial.                                          *)
Factors(i, S) == [j \in S \ {i} |-> j * inverse((j - i) % q)]
Product(f) == FoldFunction(LAMBDA x, y : x * y, 1, f)

LEMMA FactorsAre ==
  ASSUME NEW S \in SUBSET Participants, NEW i \in S
  PROVE  /\ DOMAIN Factors(i, S) = S \ {i} /\ IsFiniteSet(DOMAIN Factors(i, S))
         /\ \A j \in DOMAIN Factors(i, S) : Factors(i, S)[j] \in Int
         /\ Product(Factors(i, S)) \in Int
         /\ derive_interpolating_value(i, S) = Product(Factors(i, S)) % q
<1>1. DOMAIN Factors(i, S) = S \ {i} /\ IsFiniteSet(S \ {i})
  BY SignersFinite, FS_RemoveElement DEF Factors
<1>2. ASSUME NEW j \in S \ {i} PROVE Factors(i, S)[j] \in Int
  <2>1. j \in Int /\ i \in Int /\ (j - i) % q # 0
    BY DistinctParticipants
  <2>2. inverse((j - i) % q) \in Int
    <3> DEFINE d == j - i
    <3>1. d \in Int /\ d % q # 0
      BY <2>1
    <3> HIDE DEF d
    <3>2. inverse(d % q) \in Scalars
      BY <3>1, InverseIs
    <3> QED BY <3>2, Order DEF d
  <2> QED BY <2>1, <2>2 DEF Factors
<1>3. Product(Factors(i, S)) \in Int
  BY <1>1, <1>2, ProductRules DEF Product
<1>4. derive_interpolating_value(i, S) = Product(Factors(i, S)) % q
  BY DEF derive_interpolating_value, Product, Factors
<1> QED BY <1>1, <1>2, <1>3, <1>4

LEMMA CoefficientIsScalar ==
  ASSUME NEW S \in SUBSET Participants, NEW i \in S
  PROVE  derive_interpolating_value(i, S) \in Scalars /\ derive_interpolating_value(i, S) \in Int
  BY FactorsAre, Remainder, Order

LEMMA CoefficientAlone ==
  ASSUME NEW i \in Participants
  PROVE  Congruent(derive_interpolating_value(i, {i}), 1)
<1>1. Product(Factors(i, {i})) = 1
  BY FactorsAre, ProductRules DEF Product
<1>2. derive_interpolating_value(i, {i}) = 1 % q
  BY <1>1, FactorsAre
<1> QED BY <1>2, Remainder

\* The factor of one signer n in the coefficient of another.
LEMMA CoefficientWithout ==
  ASSUME NEW S \in SUBSET Participants, NEW i \in S, NEW n \in S, i # n
  PROVE  Congruent((i - n) * derive_interpolating_value(i, S),
                   (-n) * derive_interpolating_value(i, S \ {n}))
<1> DEFINE R == S \ {n}
           P == Product(Factors(i, S))
           Q == Product(Factors(i, R))
           t == inverse((n - i) % q)
<1>1. R \in SUBSET Participants /\ i \in R
  OBVIOUS
<1>2. P = Factors(i, S)[n] * Q
  <2>1. n \in DOMAIN Factors(i, S) /\ DOMAIN Factors(i, R) = DOMAIN Factors(i, S) \ {n}
    BY DEF Factors
  <2>2. \A j \in DOMAIN Factors(i, R) : Factors(i, R)[j] = Factors(i, S)[j]
    BY DEF Factors
  <2>3. IsFiniteSet(DOMAIN Factors(i, S)) /\ \A j \in DOMAIN Factors(i, S) : Factors(i, S)[j] \in Int
    BY FactorsAre
  <2>4. \A f : IsFiniteSet(DOMAIN f) /\ (\A x \in DOMAIN f : f[x] \in Int) =>
          \A a \in DOMAIN f : \A g :
            DOMAIN g = DOMAIN f \ {a} /\ (\A x \in DOMAIN g : g[x] = f[x]) =>
              Product(f) = f[a] * Product(g)
    BY ProductRules DEF Product
  <2> QED BY <2>1, <2>2, <2>3, <2>4
<1>3. i \in Int /\ n \in Int /\ (n - i) % q # 0
  BY DistinctParticipants
<1>4. Factors(i, S)[n] = n * t
  BY DEF Factors
<1>5. t \in Int /\ Congruent((n - i) * t, 1)
  BY <1>3, InverseIs, Order
<1>6. P \in Int /\ Q \in Int
  BY <1>1, FactorsAre
<1> HIDE DEF P, Q, t, R
<1>7. Congruent((i - n) * P, (-n) * Q)
  <2>1. (i - n) * P = ((n - i) * t) * ((-n) * Q)
    BY <1>2, <1>3, <1>4, <1>5, <1>6
  <2>2. 1 * ((-n) * Q) = (-n) * Q
    BY <1>3, <1>6
  <2> DEFINE u == (-n) * Q
             v == (n - i) * t
  <2>3. u \in Int /\ v \in Int
    BY <1>3, <1>5, <1>6
  <2>4. Congruent(v * u, 1 * u)
    <3>1. Congruent(v, 1) /\ Congruent(u, u)
      BY <1>5, <2>3, CongruentIsEquivalence
    <3> HIDE DEF u, v
    <3> QED BY <2>3, <3>1, CongruentOperations
  <2> QED BY <2>1, <2>2, <2>4
<1> DEFINE p == derive_interpolating_value(i, S)
           o == derive_interpolating_value(i, R)
<1>8. p \in Int /\ o \in Int /\ Congruent(p, P) /\ Congruent(Q, o)
  BY <1>1, <1>6, FactorsAre, CoefficientIsScalar, Remainder DEF P, Q
<1> HIDE DEF p, o
<1>9. Congruent((i - n) * p, (i - n) * P) /\ Congruent((-n) * Q, (-n) * o)
  <2> DEFINE d == i - n
             e == -n
  <2>1. d \in Int /\ e \in Int
    BY <1>3
  <2> HIDE DEF d, e
  <2>2. Congruent(d * p, d * P) /\ Congruent(e * Q, e * o)
    BY <1>6, <1>8, <2>1, CongruentInside
  <2> QED BY <2>2 DEF d, e
<1>10. Congruent((i - n) * p, (-n) * o)
  <2> DEFINE w == (i - n) * p
             x == (i - n) * P
             y == (-n) * Q
             z == (-n) * o
  <2>1. w \in Int /\ x \in Int /\ y \in Int /\ z \in Int
    BY <1>3, <1>6, <1>8
  <2>2. Congruent(w, x) /\ Congruent(x, y) /\ Congruent(y, z)
    BY <1>7, <1>9
  <2> HIDE DEF w, x, y, z
  <2>3. Congruent(w, z)
    BY <2>1, <2>2, CongruentIsEquivalence
  <2> QED BY <2>3 DEF w, z
<1> QED BY <1>10 DEF p, o, R

\* What the coefficients of the signers make of their values of g.
Interpolated(S, g) == SumFunctionOnSet([i \in S |-> derive_interpolating_value(i, S) * g[i]], S)

LEMMA InterpolatedIsNumber ==
  ASSUME NEW S \in SUBSET Participants, NEW g, \A i \in S : g[i] \in Int
  PROVE  Interpolated(S, g) \in Int
<1> DEFINE f == [i \in S |-> derive_interpolating_value(i, S) * g[i]]
<1>1. \A i \in S : f[i] \in Int
  <2> TAKE i \in S
  <2>1. derive_interpolating_value(i, S) \in Int /\ g[i] \in Int
    BY CoefficientIsScalar
  <2> QED BY <2>1
<1> HIDE DEF f
<1>2. SumFunctionOnSet(f, S) \in Int
  BY <1>1, SignersFinite, SumRules
<1> QED BY <1>2 DEF Interpolated, f

LEMMA InterpolatedIsLinear ==
  ASSUME NEW S \in SUBSET Participants, NEW f, NEW g, NEW h, NEW a \in Int, NEW b \in Int,
         \A i \in S : /\ f[i] \in Int /\ g[i] \in Int /\ h[i] \in Int
                      /\ Congruent(h[i], a * f[i] + b * g[i])
  PROVE  Congruent(Interpolated(S, h), a * Interpolated(S, f) + b * Interpolated(S, g))
<1> DEFINE l(i) == derive_interpolating_value(i, S)
           F == [i \in S |-> l(i) * f[i]]
           G == [i \in S |-> l(i) * g[i]]
           H == [i \in S |-> l(i) * h[i]]
<1>1. ASSUME NEW i \in S
      PROVE  /\ F[i] \in Int /\ G[i] \in Int /\ H[i] \in Int
             /\ Congruent(H[i], a * F[i] + b * G[i])
  <2> DEFINE c == l(i)
             u == a * f[i] + b * g[i]
  <2>1. c \in Int /\ f[i] \in Int /\ g[i] \in Int /\ h[i] \in Int
    BY CoefficientIsScalar
  <2>2. F[i] = c * f[i] /\ G[i] = c * g[i] /\ H[i] = c * h[i]
    OBVIOUS
  <2> HIDE DEF c, F, G, H
  <2>3. u \in Int /\ Congruent(h[i], u)
    BY <2>1
  <2>4. c * u = a * F[i] + b * G[i]
    BY <2>1, <2>2
  <2> HIDE DEF u
  <2>5. Congruent(c * h[i], c * u)
    BY <2>1, <2>3, CongruentInside
  <2> QED BY <2>1, <2>2, <2>4, <2>5
<1> HIDE DEF F, G, H, l
<1>2. Congruent(SumFunctionOnSet(H, S), a * SumFunctionOnSet(F, S) + b * SumFunctionOnSet(G, S))
  BY <1>1, SignersFinite, SumCombines
<1> QED BY <1>2 DEF Interpolated, F, G, H, l

\* A signer at whose place a function is zero can be left out.
LEMMA InterpolatedWithout ==
  ASSUME NEW S \in SUBSET Participants, NEW n \in S, NEW g, NEW h,
         \A i \in S : g[i] \in Int /\ h[i] = (i - n) * g[i]
  PROVE  Congruent(Interpolated(S, h), (-n) * Interpolated(S \ {n}, g))
<1> DEFINE R == S \ {n}
           H == [i \in S |-> derive_interpolating_value(i, S) * h[i]]
           G == [i \in R |-> derive_interpolating_value(i, R) * g[i]]
<1>1. R \in SUBSET Participants /\ IsFiniteSet(R) /\ IsFiniteSet(S) /\ R \subseteq S
  BY SignersFinite
<1>2. \A i \in S : i \in Int
  BY GroupAssumption, Order
<1>3. ASSUME NEW i \in S PROVE H[i] \in Int
  <2>1. derive_interpolating_value(i, S) \in Int /\ g[i] \in Int /\ i \in Int /\ n \in Int
    BY <1>2, CoefficientIsScalar
  <2>2. h[i] = (i - n) * g[i]
    OBVIOUS
  <2>3. h[i] \in Int
    BY <2>1, <2>2
  <2> QED BY <2>1, <2>3
<1>4. H[n] = 0
  <2>1. n \in Int /\ g[n] \in Int /\ h[n] = (n - n) * g[n] /\ derive_interpolating_value(n, S) \in Int
    BY <1>2, CoefficientIsScalar
  <2>2. h[n] = 0
    BY <2>1
  <2> QED BY <2>1, <2>2
<1>5. ASSUME NEW i \in R
      PROVE  G[i] \in Int /\ Congruent(H[i], (-n) * G[i] + 0 * G[i])
  <2> DEFINE p == derive_interpolating_value(i, S)
             o == derive_interpolating_value(i, R)
             x == g[i]
  <2>1. i \in S /\ i # n /\ i \in Int /\ n \in Int /\ p \in Int /\ o \in Int /\ x \in Int
    BY <1>1, <1>2, CoefficientIsScalar
  <2>2. G[i] = o * x /\ H[i] = p * ((i - n) * x)
    OBVIOUS
  <2>3. Congruent((i - n) * p, (-n) * o)
    BY <2>1, CoefficientWithout
  <2> HIDE DEF p, o, x, G, H
  <2> DEFINE u == (i - n) * p
             v == (-n) * o
  <2>4. u \in Int /\ v \in Int /\ H[i] = x * u /\ (-n) * G[i] + 0 * G[i] = x * v
    BY <2>1, <2>2
  <2>5. Congruent(x * u, x * v)
    <3>1. Congruent(u, v)
      BY <2>3
    <3> HIDE DEF u, v
    <3> QED BY <2>1, <2>4, <3>1, CongruentInside
  <2> HIDE DEF u, v
  <2> QED BY <2>1, <2>2, <2>4, <2>5
<1> HIDE DEF G, H, R
<1>6. SumFunctionOnSet(H, S) = H[n] + SumFunctionOnSet(H, S \ {n})
  BY <1>1, <1>3, SumRules
<1>7. SumFunctionOnSet(H, R) \in Int /\ SumFunctionOnSet(G, R) \in Int
  BY <1>1, <1>3, <1>5, SumRules
<1>8. n \in Int /\ -n \in Int /\ 0 \in Int
  BY <1>2
<1>9. Congruent(SumFunctionOnSet(H, R), (-n) * SumFunctionOnSet(G, R) + 0 * SumFunctionOnSet(G, R))
  <2> DEFINE e == -n
  <2>1. e \in Int
    BY <1>8
  <2>2. \A i \in R : G[i] \in Int /\ H[i] \in Int /\ Congruent(H[i], e * G[i] + 0 * G[i])
    BY <1>1, <1>3, <1>5
  <2> HIDE DEF e
  <2>3. Congruent(SumFunctionOnSet(H, R), e * SumFunctionOnSet(G, R) + 0 * SumFunctionOnSet(G, R))
    BY <1>1, <2>1, <2>2, SumCombines
  <2> QED BY <2>3 DEF e
<1>10. Congruent(SumFunctionOnSet(H, S), (-n) * SumFunctionOnSet(G, R))
  <2> DEFINE y == SumFunctionOnSet(H, S)
             z == SumFunctionOnSet(G, R)
             w == SumFunctionOnSet(H, R)
  <2>1. y = w /\ (-n) * z + 0 * z = (-n) * z
    <3>1. y = 0 + w
      BY <1>4, <1>6 DEF R
    <3>2. w \in Int /\ z \in Int
      BY <1>7
    <3> HIDE DEF y, z, w
    <3> QED BY <1>8, <3>1, <3>2
  <2>2. Congruent(w, (-n) * z + 0 * z)
    BY <1>9
  <2> HIDE DEF y, z, w
  <2>3. Congruent(y, (-n) * z)
    BY <2>1, <2>2
  <2> QED BY <2>3 DEF y, z
<1> QED BY <1>10 DEF Interpolated, G, H, R

\* The coefficients of any signers add up to one.
LEMMA CoefficientsAddUp ==
  ASSUME NEW S \in SUBSET Participants, S # {}, NEW ones, \A i \in Participants : ones[i] = 1
  PROVE  Congruent(Interpolated(S, ones), 1)
<1> DEFINE T == {n \in Nat : \A s \in SUBSET Participants :
                   Cardinality(s) = n + 1 => Congruent(Interpolated(s, ones), 1)}
<1>1. \A s \in SUBSET Participants : IsFiniteSet(s) /\ Cardinality(s) \in Nat
  BY SignersFinite, FS_CardinalityType
<1>2. 0 \in T
  <2> SUFFICES ASSUME NEW s \in SUBSET Participants, Cardinality(s) = 0 + 1
               PROVE  Congruent(Interpolated(s, ones), 1)
    OBVIOUS
  <2>1. PICK i : s = {i}
    <3>1. IsFiniteSet(s) /\ Cardinality(s) = 1
      BY <1>1
    <3>2. \E i : s = {i}
      BY <3>1, FS_Singleton
    <3> QED BY <3>2
  <2> DEFINE l == derive_interpolating_value(i, {i})
             f == [j \in {i} |-> derive_interpolating_value(j, {i}) * ones[j]]
  <2>2. i \in Participants /\ l \in Int /\ Congruent(l, 1) /\ f[i] = l * 1
    BY <2>1, CoefficientIsScalar, CoefficientAlone
  <2>3. f[i] = l /\ f[i] \in Int
    BY <2>2
  <2> HIDE DEF f, l
  <2>4. /\ SumFunctionOnSet(f, {i}) = f[i] + SumFunctionOnSet(f, {i} \ {i})
        /\ SumFunctionOnSet(f, {}) = 0
    <3>1. IsFiniteSet({i}) /\ \A x \in {i} : f[x] \in Int
      BY <2>3, FS_Singleton
    <3>2. \A t : IsFiniteSet(t) /\ (\A x \in t : f[x] \in Int) =>
             \A x \in t : SumFunctionOnSet(f, t) = f[x] + SumFunctionOnSet(f, t \ {x})
      BY SumRules
    <3>3. \A t : IsFiniteSet(t) /\ (\A x \in t : f[x] \in Int) => SumFunctionOnSet(f, {}) = 0
      BY SumRules
    <3> QED BY <3>1, <3>2, <3>3
  <2>5. {i} \ {i} = {}
    OBVIOUS
  <2>6. SumFunctionOnSet(f, {i}) = l
    <3>1. SumFunctionOnSet(f, {i} \ {i}) = 0
      BY <2>4, <2>5
    <3>2. SumFunctionOnSet(f, {i}) = l + 0
      BY <2>3, <2>4, <3>1
    <3> QED BY <2>2, <3>2
  <2> QED BY <2>1, <2>2, <2>6 DEF Interpolated, f
<1>3. ASSUME NEW n \in Nat, n \in T PROVE n + 1 \in T
  <2> SUFFICES ASSUME NEW s \in SUBSET Participants, Cardinality(s) = (n + 1) + 1
               PROVE  Congruent(Interpolated(s, ones), 1)
    OBVIOUS
  <2>1. PICK a : a \in s
    BY <1>1, FS_EmptySet
  <2>2. Cardinality(s \ {a}) = n + 1
    <3>1. Cardinality(s \ {a}) = Cardinality(s) - 1
      BY <1>1, <2>1, FS_RemoveElement
    <3> QED BY <3>1
  <2>3. PICK b : b \in s \ {a}
    <3>1. s \ {a} # {}
      BY <2>2, FS_EmptySet
    <3> QED BY <3>1
  <2>4. Cardinality(s \ {b}) = n + 1
    <3>1. Cardinality(s \ {b}) = Cardinality(s) - 1
      BY <1>1, <2>3, FS_RemoveElement
    <3> QED BY <3>1
  <2>5. /\ a \in Int /\ b \in Int /\ (b - a) % q # 0
        /\ \A i \in s : i \in Int /\ ones[i] = 1
    BY <2>1, <2>3, DistinctParticipants, GroupAssumption, Order
  <2> DEFINE A == Interpolated(s \ {a}, ones)
             B == Interpolated(s \ {b}, ones)
             X == Interpolated(s, ones)
             fa == [i \in s |-> (i - a) * ones[i]]
             fb == [i \in s |-> (i - b) * ones[i]]
             h == [i \in s |-> b - a]
             FA == Interpolated(s, fa)
             FB == Interpolated(s, fb)
             H == Interpolated(s, h)
  <2>6. Congruent(A, 1) /\ Congruent(B, 1)
    BY <1>3, <2>2, <2>4
  <2>7. /\ A \in Int /\ B \in Int /\ X \in Int /\ FA \in Int /\ FB \in Int /\ H \in Int
    <3>1. \A i \in s : fa[i] \in Int /\ fb[i] \in Int /\ h[i] \in Int /\ ones[i] \in Int
      BY <2>5
    <3> HIDE DEF fa, fb, h
    <3> QED BY <3>1, InterpolatedIsNumber
  <2>8. Congruent(FA, (-a) * A) /\ Congruent(FB, (-b) * B)
    <3>1. \A i \in s : fa[i] = (i - a) * ones[i] /\ fb[i] = (i - b) * ones[i] /\ ones[i] \in Int
      BY <2>5
    <3> HIDE DEF fa, fb
    <3> QED BY <2>1, <2>3, <3>1, InterpolatedWithout
  <2>9. Congruent(H, 1 * FA + (-1) * FB) /\ Congruent(H, (b - a) * X + 0 * X)
    <3>1. ASSUME NEW i \in s
          PROVE  /\ fa[i] \in Int /\ fb[i] \in Int /\ h[i] \in Int /\ ones[i] \in Int
                 /\ Congruent(h[i], 1 * fa[i] + (-1) * fb[i])
                 /\ Congruent(h[i], (b - a) * ones[i] + 0 * ones[i])
      <4>1. /\ fa[i] = (i - a) * 1 /\ fb[i] = (i - b) * 1 /\ h[i] = b - a /\ ones[i] = 1
            /\ i \in Int
        BY <2>5
      <4> HIDE DEF fa, fb, h
      <4>2. /\ fa[i] \in Int /\ fb[i] \in Int /\ h[i] \in Int
            /\ 1 * fa[i] + (-1) * fb[i] = h[i] /\ (b - a) * ones[i] + 0 * ones[i] = h[i]
        BY <2>5, <4>1
      <4>3. Congruent(h[i], h[i])
        BY <4>2, CongruentIsEquivalence
      <4> QED BY <4>1, <4>2, <4>3
    <3> HIDE DEF fa, fb, h
    <3>2. Congruent(Interpolated(s, h), 1 * Interpolated(s, fa) + (-1) * Interpolated(s, fb))
      <4> DEFINE e == -1
      <4>1. e \in Int /\ \A i \in s : /\ fa[i] \in Int /\ fb[i] \in Int /\ h[i] \in Int
                                      /\ Congruent(h[i], 1 * fa[i] + e * fb[i])
        BY <3>1
      <4> HIDE DEF e
      <4>2. Congruent(Interpolated(s, h), 1 * Interpolated(s, fa) + e * Interpolated(s, fb))
        BY <4>1, InterpolatedIsLinear
      <4> QED BY <4>2 DEF e
    <3>3. Congruent(Interpolated(s, h), (b - a) * Interpolated(s, ones) + 0 * Interpolated(s, ones))
      <4> DEFINE d == b - a
      <4>1. d \in Int /\ \A i \in s : /\ h[i] \in Int /\ ones[i] \in Int
                                      /\ Congruent(h[i], d * ones[i] + 0 * ones[i])
        BY <2>5, <3>1
      <4> HIDE DEF d
      <4>2. Congruent(Interpolated(s, h), d * Interpolated(s, ones) + 0 * Interpolated(s, ones))
        BY <4>1, InterpolatedIsLinear
      <4> QED BY <4>2 DEF d
    <3> QED BY <3>2, <3>3
  <2> HIDE DEF A, B, X, FA, FB, H, fa, fb, h
  <2> DEFINE d == b - a
             t == inverse(d % q)
  <2>10. d \in Int /\ t \in Int /\ Congruent(d * t, 1)
    <3>1. d \in Int /\ d % q # 0
      BY <2>5
    <3> HIDE DEF d
    <3> QED BY <3>1, InverseIs, Order
  \* (b - a) X = FA - FB = -a A + b B = b - a, modulo q.
  <2>11. Congruent(d * X, d)
    <3>1. PICK k1 \in Int : FA - (-a) * A = k1 * q
      BY <2>8 DEF Congruent
    <3>2. PICK k2 \in Int : FB - (-b) * B = k2 * q
      BY <2>8 DEF Congruent
    <3>3. PICK k3 \in Int : A - 1 = k3 * q
      BY <2>6 DEF Congruent
    <3>4. PICK k4 \in Int : B - 1 = k4 * q
      BY <2>6 DEF Congruent
    <3>5. PICK k5 \in Int : H - (1 * FA + (-1) * FB) = k5 * q
      BY <2>9 DEF Congruent
    <3>6. PICK k6 \in Int : H - ((b - a) * X + 0 * X) = k6 * q
      BY <2>9 DEF Congruent
    <3>7. /\ A = 1 + k3 * q /\ B = 1 + k4 * q
          /\ FA = (-a) * A + k1 * q /\ FB = (-b) * B + k2 * q
          /\ H = FA - FB + k5 * q /\ d * X = H - k6 * q
      BY <2>5, <2>7, <3>1, <3>2, <3>3, <3>4, <3>5, <3>6, Order
    <3> DEFINE k == (-a) * k3 + k1 + b * k4 - k2 + k5 - k6
    <3>8. d * X - d = k * q /\ k \in Int
      BY <2>5, <3>7, Order
    <3> HIDE DEF k
    <3> QED BY <3>8 DEF Congruent
  <2> HIDE DEF d, t
  <2>12. Congruent(t * (d * X), t * d)
    <3> DEFINE e == d * X
    <3>1. e \in Int /\ Congruent(e, d)
      BY <2>7, <2>10, <2>11
    <3> HIDE DEF e
    <3>2. Congruent(t * e, t * d)
      BY <2>10, <3>1, CongruentInside
    <3> QED BY <3>2 DEF e
  <2>13. Congruent(X, 1)
    <3>1. PICK k \in Int : t * (d * X) - t * d = k * q
      BY <2>12 DEF Congruent
    <3>2. PICK l \in Int : d * t - 1 = l * q
      BY <2>10 DEF Congruent
    <3>3. d * t = 1 + l * q /\ (d * t) * X - d * t = k * q
      BY <2>7, <2>10, <3>1, <3>2, Order
    <3>4. (1 + l * q) * X - (1 + l * q) = k * q
      BY <3>3
    <3>5. X - 1 = (k + l - l * X) * q /\ k + l - l * X \in Int
      BY <2>7, <3>4, Order
    <3> QED BY <3>5 DEF Congruent
  <2> QED BY <2>13 DEF X
<1>4. Nat \subseteq T
  <2> HIDE DEF T
  <2> QED BY <1>2, <1>3, InductionOverSet
<1>5. Cardinality(S) - 1 \in Nat /\ (Cardinality(S) - 1) + 1 = Cardinality(S)
  <2>1. Cardinality(S) \in Nat /\ Cardinality(S) # 0
    BY <1>1, FS_EmptySet
  <2> QED BY <2>1
<1>6. Cardinality(S) - 1 \in T
  <2> HIDE DEF T
  <2> QED BY <1>4, <1>5
<1> QED BY <1>5, <1>6

-------------------------------------------------------------------------------
(* The polynomial of the coefficients f, from the k-th on, at i: v[k].     *)
IsValue(v, f, i) ==
  v = [k \in 1..(Len(f) + 1) |-> IF k = Len(f) + 1 THEN 0 ELSE (f[k] + i * v[k + 1]) % q]

LEMMA ValueExists ==
  ASSUME NEW f, Len(f) \in Nat, NEW i
  PROVE  \E v : IsValue(v, f, i)
<1> DEFINE n == Len(f)
           From(v, m) ==
             v = [k \in (n + 1 - m)..(n + 1) |-> IF k = n + 1 THEN 0 ELSE (f[k] + i * v[k + 1]) % q]
           T == {m \in Nat : \E v : From(v, m)}
<1>1. 0 \in T
  <2> DEFINE v == [k \in (n + 1 - 0)..(n + 1) |-> 0]
  <2>1. \A k \in (n + 1 - 0)..(n + 1) : k = n + 1
    OBVIOUS
  <2>2. v = [k \in (n + 1 - 0)..(n + 1) |-> IF k = n + 1 THEN 0 ELSE (f[k] + i * v[k + 1]) % q]
    BY <2>1
  <2> HIDE DEF v
  <2>3. From(v, 0)
    BY <2>2
  <2> HIDE DEF From
  <2> QED BY <2>3
<1>2. ASSUME NEW m \in Nat, m \in T PROVE m + 1 \in T
  <2>1. PICK v : From(v, m)
    BY <1>2
  <2> DEFINE a == n + 1 - (m + 1)
             w == [k \in a..(n + 1) |-> IF k = a THEN (f[k] + i * v[k + 1]) % q ELSE v[k]]
  <2>2. ASSUME NEW k \in a..(n + 1)
        PROVE  w[k] = IF k = n + 1 THEN 0 ELSE (f[k] + i * w[k + 1]) % q
    <3>1. CASE k = a
      <4>1. k # n + 1 /\ k + 1 \in a..(n + 1) /\ k + 1 # a
        BY <3>1
      <4>2. w[k + 1] = v[k + 1] /\ w[k] = (f[k] + i * v[k + 1]) % q
        BY <3>1, <4>1
      <4> HIDE DEF w, a
      <4> QED BY <4>1, <4>2
    <3>2. CASE k = n + 1
      <4>1. k # a /\ k \in (n + 1 - m)..(n + 1)
        BY <3>2
      <4>2. w[k] = v[k] /\ v[k] = 0
        BY <2>1, <3>2, <4>1
      <4> HIDE DEF w, a
      <4> QED BY <3>2, <4>2
    <3>3. CASE k # a /\ k # n + 1
      <4>1. k \in (n + 1 - m)..(n + 1) /\ k + 1 \in a..(n + 1) /\ k + 1 # a
        BY <3>3
      <4>2. w[k] = v[k] /\ w[k + 1] = v[k + 1]
        BY <3>3, <4>1
      <4>3. v[k] = (f[k] + i * v[k + 1]) % q
        BY <2>1, <3>3, <4>1
      <4> HIDE DEF w, a
      <4> QED BY <3>3, <4>2, <4>3
    <3> QED BY <3>1, <3>2, <3>3
  <2>3. From(w, m + 1)
    <3>1. w = [k \in a..(n + 1) |-> w[k]]
      OBVIOUS
    <3> HIDE DEF w
    <3> QED BY <2>2, <3>1
  <2> HIDE DEF From, w
  <2> QED BY <2>3
<1>3. Nat \subseteq T
  <2> HIDE DEF T
  <2> QED BY <1>1, <1>2, InductionOverSet
<1>4. n \in T
  <2> HIDE DEF T
  <2> QED BY <1>3
<1>5. PICK v : From(v, n)
  BY <1>4
<1>6. n + 1 - n = 1
  OBVIOUS
<1> QED BY <1>5, <1>6 DEF IsValue

LEMMA ShareIsValue ==
  ASSUME NEW f, Len(f) \in Nat \ {0}, NEW i
  PROVE  \E v : IsValue(v, f, i) /\ signing_share(f, i) = v[1]
<1> DEFINE value == CHOOSE v : IsValue(v, f, i)
<1>1. IsValue(value, f, i)
  BY ValueExists
<1>2. signing_share(f, i) = value[1]
  BY DEF signing_share, IsValue
<1> QED BY <1>1, <1>2

LEMMA ValueIs ==
  ASSUME NEW f \in Seq(Scalars), NEW i \in Participants, NEW v, IsValue(v, f, i)
  PROVE  /\ v[Len(f) + 1] = 0
         /\ \A k \in 1..(Len(f) + 1) : v[k] \in Scalars
         /\ \A k \in 1..Len(f) : f[k] \in Int /\ Congruent(v[k], f[k] + i * v[k + 1])
<1> DEFINE n == Len(f)
<1>1. n \in Nat /\ i \in Int /\ \A k \in 1..n : f[k] \in Int
  BY GroupAssumption, LenProperties, ElementOfSeq, Order
<1> HIDE DEF n
<1>2. \A k \in 1..(n + 1) : v[k] = IF k = n + 1 THEN 0 ELSE (f[k] + i * v[k + 1]) % q
  BY DEF IsValue, n
<1>3. v[n + 1] = 0
  BY <1>1, <1>2
<1> DEFINE T == {m \in Nat : m <= n => v[n + 1 - m] \in Scalars}
<1>4. 0 \in T
  <2>1. v[n + 1 - 0] = v[n + 1]
    BY <1>1
  <2> QED BY <1>3, <2>1, Order
<1>5. ASSUME NEW m \in Nat, m \in T PROVE m + 1 \in T
  <2> SUFFICES ASSUME m + 1 <= n PROVE v[n + 1 - (m + 1)] \in Scalars
    OBVIOUS
  <2> DEFINE k == n + 1 - (m + 1)
  <2>1. k \in 1..n /\ k \in 1..(n + 1) /\ k # n + 1 /\ k + 1 = n + 1 - m /\ m <= n
    BY <1>1
  <2>2. v[k + 1] \in Int
    BY <1>5, <2>1, Order
  <2>3. v[k] = (f[k] + i * v[k + 1]) % q
    BY <1>2, <2>1
  <2>4. f[k] + i * v[k + 1] \in Int
    BY <1>1, <2>1, <2>2
  <2> HIDE DEF k
  <2>5. v[k] \in Scalars
    BY <2>3, <2>4, Remainder
  <2> QED BY <2>5 DEF k
<1>6. Nat \subseteq T
  <2> HIDE DEF T
  <2> QED BY <1>4, <1>5, InductionOverSet
<1>7. ASSUME NEW k \in 1..(n + 1) PROVE v[k] \in Scalars
  <2>1. n + 1 - k \in Nat /\ n + 1 - k <= n /\ n + 1 - (n + 1 - k) = k
    BY <1>1
  <2>2. n + 1 - k \in T
    <3> HIDE DEF T
    <3> QED BY <1>6, <2>1
  <2> QED BY <2>1, <2>2
<1>8. ASSUME NEW k \in 1..n PROVE Congruent(v[k], f[k] + i * v[k + 1])
  <2> DEFINE x == f[k] + i * v[k + 1]
  <2>1. k \in 1..(n + 1) /\ k + 1 \in 1..(n + 1) /\ k # n + 1
    BY <1>1
  <2>2. v[k + 1] \in Int /\ v[k] = x % q
    BY <1>2, <1>7, <2>1, Order
  <2>3. x \in Int
    BY <1>1, <2>2
  <2> HIDE DEF x
  <2>4. Congruent(v[k], x)
    BY <2>2, <2>3, Remainder
  <2> QED BY <2>4 DEF x
<1> QED BY <1>1, <1>3, <1>7, <1>8 DEF n

(* Signers that are as many as the coefficients make of their key shares   *)
(* the signing key.                                                        *)
LEMMA Interpolation ==
  ASSUME NEW f \in Seq(Scalars), Len(f) \in Nat \ {0},
         NEW S \in SUBSET Participants, Cardinality(S) >= Len(f)
  PROVE  Congruent(Interpolated(S, [i \in Participants |-> signing_share(f, i)]), f[1])
<1> DEFINE n == Len(f)
           V(i) == CHOOSE v : IsValue(v, f, i) /\ signing_share(f, i) = v[1]
           At(k) == [i \in Participants |-> V(i)[k]]
           C(k) == IF k = n + 1 THEN 0 ELSE f[k]
           ones == [i \in Participants |-> 1]
<1>1. ASSUME NEW i \in Participants PROVE IsValue(V(i), f, i) /\ signing_share(f, i) = V(i)[1]
  <2>1. \E v : IsValue(v, f, i) /\ signing_share(f, i) = v[1]
    BY ShareIsValue
  <2> QED BY <2>1
<1> HIDE DEF V
<1>2. /\ \A i \in Participants : V(i)[n + 1] = 0
      /\ \A i \in Participants, k \in 1..(n + 1) : V(i)[k] \in Int
      /\ \A i \in Participants, k \in 1..n :
           f[k] \in Int /\ Congruent(V(i)[k], f[k] + i * V(i)[k + 1])
  BY <1>1, ValueIs, Order
<1>3. n \in Nat \ {0} /\ \A k \in 1..n : f[k] \in Int
  BY ElementOfSeq, Order
<1>4. \A s \in SUBSET Participants : IsFiniteSet(s) /\ Cardinality(s) \in Nat
  BY SignersFinite, FS_CardinalityType
<1>5. \A i \in Participants : i \in Int
  BY GroupAssumption, Order
<1>6. \A k : \A i \in Participants : At(k)[i] = V(i)[k]
  OBVIOUS
<1>7. \A i \in Participants : ones[i] = 1
  OBVIOUS
<1> DEFINE Claim(k, s) == Congruent(Interpolated(s, At(k)), C(k))
           T == {m \in Nat : m <= n => \A s \in SUBSET Participants :
                               Cardinality(s) >= m => Claim(n + 1 - m, s)}
<1>8. At(1) = [i \in Participants |-> signing_share(f, i)] /\ C(1) = f[1]
  <2>1. At(1) = [i \in Participants |-> signing_share(f, i)]
    BY <1>1
  <2>2. C(1) = f[1]
    BY <1>3
  <2> QED BY <2>1, <2>2
<1> HIDE DEF At, n, ones
<1>9. 0 \in T
  <2> SUFFICES ASSUME NEW s \in SUBSET Participants PROVE Claim(n + 1 - 0, s)
    OBVIOUS
  <2> DEFINE g == At(n + 1)
             x == Interpolated(s, g)
  <2>1. \A i \in s : g[i] = 0
    BY <1>2, <1>6
  <2>2. \A i \in s : g[i] \in Int /\ Congruent(g[i], 0 * g[i] + 0 * g[i])
    <3>1. Congruent(0, 0) /\ 0 * 0 + 0 * 0 = 0
      BY CongruentIsEquivalence
    <3> HIDE DEF g
    <3> QED BY <2>1, <3>1
  <2> HIDE DEF g
  <2>3. x \in Int /\ Congruent(x, 0 * x + 0 * x)
    BY <2>2, InterpolatedIsNumber, InterpolatedIsLinear
  <2> HIDE DEF x
  <2>4. 0 * x + 0 * x = 0
    BY <2>3
  <2>5. Congruent(x, 0)
    BY <2>3, <2>4
  <2>6. n + 1 - 0 = n + 1 /\ C(n + 1) = 0
    BY <1>3
  <2> HIDE DEF C
  <2> QED BY <2>5, <2>6 DEF x, g
<1>10. ASSUME NEW m \in Nat, m \in T PROVE m + 1 \in T
  <2> SUFFICES ASSUME m + 1 <= n, NEW s \in SUBSET Participants, Cardinality(s) >= m + 1
               PROVE  Claim(n + 1 - (m + 1), s)
    OBVIOUS
  <2> DEFINE k == n + 1 - (m + 1)
  <2>1. k \in 1..n /\ k + 1 \in 1..(n + 1) /\ k \in 1..(n + 1) /\ k + 1 = n + 1 - m /\ m <= n
    BY <1>3
  <2> HIDE DEF k
  <2>2. PICK x : x \in s
    BY <1>4, FS_EmptySet
  <2>3. Cardinality(s \ {x}) >= m /\ s \ {x} \in SUBSET Participants
    <3>1. Cardinality(s \ {x}) = Cardinality(s) - 1
      BY <1>4, <2>2, FS_RemoveElement
    <3>2. Cardinality(s) \in Nat
      BY <1>4
    <3> QED BY <3>1, <3>2
  <2> DEFINE g == At(k + 1)
             v == At(k)
             h == [i \in Participants |-> i * g[i]]
             d == [i \in Participants |-> (i - x) * g[i]]
             c == C(k + 1)
             G == Interpolated(s, g)
             X == Interpolated(s \ {x}, g)
             W == Interpolated(s, v)
             H == Interpolated(s, h)
             D == Interpolated(s, d)
             O == Interpolated(s, ones)
  <2>4. Congruent(G, c) /\ Congruent(X, c)
    <3>1. Claim(n + 1 - m, s) /\ Claim(n + 1 - m, s \ {x})
      <4>1. Cardinality(s) >= m
        BY <1>4
      <4> HIDE DEF Claim
      <4> QED BY <1>10, <2>1, <2>3, <4>1
    <3> QED BY <2>1, <3>1
  <2>5. ASSUME NEW i \in Participants
        PROVE  /\ i \in Int /\ g[i] \in Int /\ v[i] \in Int /\ ones[i] = 1 /\ f[k] \in Int
               /\ h[i] = i * g[i] /\ d[i] = (i - x) * g[i]
               /\ Congruent(v[i], f[k] + i * g[i])
    <3>1. g[i] = V(i)[k + 1] /\ v[i] = V(i)[k]
      BY <1>6
    <3>2. h[i] = i * g[i] /\ d[i] = (i - x) * g[i]
      OBVIOUS
    <3> HIDE DEF g, v, h, d
    <3>3. /\ V(i)[k + 1] \in Int /\ V(i)[k] \in Int /\ f[k] \in Int
          /\ Congruent(V(i)[k], f[k] + i * V(i)[k + 1])
      BY <1>2, <2>1
    <3> QED BY <1>5, <1>7, <3>1, <3>2, <3>3
  <2>6. x \in Int /\ c \in Int /\ f[k] \in Int /\ C(k) = f[k]
    BY <1>3, <1>5, <2>1, <2>2
  <2> HIDE DEF g, v, h, d, c, C
  <2>7. \A i \in Participants : h[i] \in Int /\ d[i] \in Int
    BY <2>5, <2>6
  <2>8. G \in Int /\ W \in Int /\ H \in Int /\ D \in Int /\ O \in Int
    BY <2>5, <2>7, InterpolatedIsNumber
  <2>9. X \in Int
    BY <2>3, <2>5, InterpolatedIsNumber
  <2>10. Congruent(O, 1)
    BY <1>7, <2>2, CoefficientsAddUp
  <2>11. Congruent(D, (-x) * X)
    <3>1. \A i \in s : g[i] \in Int /\ d[i] = (i - x) * g[i]
      BY <2>5
    <3> QED BY <2>2, <3>1, InterpolatedWithout
  <2>12. Congruent(H, 1 * D + x * G)
    <3>1. ASSUME NEW i \in s PROVE Congruent(h[i], 1 * d[i] + x * g[i])
      <4>1. h[i] = 1 * d[i] + x * g[i]
        BY <2>5, <2>6
      <4>2. Congruent(h[i], h[i])
        BY <2>7, CongruentIsEquivalence
      <4> QED BY <4>1, <4>2
    <3> DEFINE a == 1
    <3>2. a \in Int /\ \A i \in s : /\ d[i] \in Int /\ g[i] \in Int /\ h[i] \in Int
                                    /\ Congruent(h[i], a * d[i] + x * g[i])
      BY <2>5, <2>7, <3>1
    <3> HIDE DEF a
    <3>3. Congruent(H, a * D + x * G)
      BY <2>6, <3>2, InterpolatedIsLinear
    <3> QED BY <3>3 DEF a
  <2>13. Congruent(W, f[k] * O + 1 * H)
    <3> DEFINE a == f[k]
    <3>1. ASSUME NEW i \in s PROVE Congruent(v[i], a * ones[i] + 1 * h[i])
      <4>1. a * ones[i] + 1 * h[i] = f[k] + i * g[i]
        BY <2>5, <2>7
      <4> QED BY <2>5, <4>1
    <3>2. a \in Int /\ \A i \in s : /\ ones[i] \in Int /\ h[i] \in Int /\ v[i] \in Int
                                    /\ Congruent(v[i], a * ones[i] + 1 * h[i])
      BY <2>5, <2>6, <2>7, <3>1
    <3> HIDE DEF a
    <3>3. Congruent(W, a * O + 1 * H)
      BY <3>2, InterpolatedIsLinear
    <3> QED BY <3>3 DEF a
  <2> HIDE DEF G, X, W, H, D, O
  <2> DEFINE e == f[k]
  <2>14. Congruent(W, e)
    <3>1. PICK k1 \in Int : G - c = k1 * q
      BY <2>4 DEF Congruent
    <3>2. PICK k2 \in Int : X - c = k2 * q
      BY <2>4 DEF Congruent
    <3>3. PICK k3 \in Int : O - 1 = k3 * q
      BY <2>10 DEF Congruent
    <3>4. PICK k4 \in Int : D - (-x) * X = k4 * q
      BY <2>11 DEF Congruent
    <3>5. PICK k5 \in Int : H - (1 * D + x * G) = k5 * q
      BY <2>12 DEF Congruent
    <3>6. PICK k6 \in Int : W - (e * O + 1 * H) = k6 * q
      BY <2>13 DEF Congruent
    <3>7. e \in Int
      BY <2>6
    <3> HIDE DEF e
    <3>8. /\ G = c + k1 * q /\ X = c + k2 * q /\ O = 1 + k3 * q
          /\ D = (-x) * X + k4 * q /\ H = D + x * G + k5 * q
          /\ W = e * O + H + k6 * q
      BY <2>6, <2>8, <2>9, <3>1, <3>2, <3>3, <3>4, <3>5, <3>6, <3>7, Order
    <3> DEFINE l == e * k3 - x * k2 + k4 + x * k1 + k5 + k6
    <3>9. W - e = l * q /\ l \in Int
      BY <2>6, <3>7, <3>8, Order
    <3> HIDE DEF l
    <3> QED BY <3>9 DEF Congruent
  <2> QED BY <2>6, <2>14 DEF k, W, v
<1>11. Nat \subseteq T
  <2> HIDE DEF T
  <2> QED BY <1>9, <1>10, InductionOverSet
<1>12. n \in T
  <2> HIDE DEF T
  <2> QED BY <1>3, <1>11
<1>13. Claim(n + 1 - n, S)
  <2>1. Cardinality(S) >= n /\ n <= n
    BY <1>3 DEF n
  <2> HIDE DEF Claim
  <2> QED BY <1>12, <2>1
<1>14. n + 1 - n = 1
  BY <1>3
<1>15. Claim(1, S)
  <2> HIDE DEF Claim
  <2> QED BY <1>13, <1>14
<1> QED BY <1>8, <1>15

-------------------------------------------------------------------------------
(* What is signed for: the sum of the commitments, and its parity.         *)
Commitments == [hiding : Scalars, binding : Scalars]

LEMMA CommitmentIsSum ==
  ASSUME NEW S \in SUBSET Participants, NEW p \in [S -> Commitments],
         NEW rho, \A i \in S : rho[i] \in Int
  PROVE  LET f == [i \in S |-> group_commitment_share(p[i], rho[i])] IN
         /\ \A i \in S : /\ f[i] \in Scalars
                         /\ p[i].hiding \in Scalars /\ p[i].binding \in Scalars
                         /\ Congruent(f[i], p[i].hiding + rho[i] * p[i].binding)
         /\ SumFunctionOnSet(f, S) \in Int
         /\ compute_group_commitment(p, rho) = SumFunctionOnSet(f, S) % q
         /\ compute_group_commitment(p, rho) \in Scalars
<1> DEFINE f == [i \in S |-> group_commitment_share(p[i], rho[i])]
<1>1. ASSUME NEW i \in S
      PROVE  /\ f[i] \in Scalars /\ p[i].hiding \in Scalars /\ p[i].binding \in Scalars
             /\ Congruent(f[i], p[i].hiding + rho[i] * p[i].binding)
  <2> DEFINE x == p[i].hiding + rho[i] * p[i].binding
  <2>1. p[i].hiding \in Scalars /\ p[i].binding \in Scalars
    BY DEF Commitments
  <2>2. x \in Int
    BY <2>1, Order
  <2>3. f[i] = x % q
    BY DEF group_commitment_share
  <2> HIDE DEF x, f
  <2>4. f[i] \in Scalars /\ Congruent(f[i], x)
    BY <2>2, <2>3, Remainder
  <2> QED BY <2>1, <2>4 DEF x
<1>2. compute_group_commitment(p, rho) = SumFunctionOnSet(f, S) % q
  BY DEF compute_group_commitment, SumFunction
<1> HIDE DEF f
<1>3. SumFunctionOnSet(f, S) \in Int
  BY <1>1, SignersFinite, Order, SumRules
<1> QED BY <1>1, <1>2, <1>3, Remainder DEF f

LEMMA NegatedPackage ==
  ASSUME NEW S \in SUBSET Participants, NEW p \in [S -> Commitments],
         NEW rho, \A i \in S : rho[i] \in Int
  PROVE  /\ negate_package(p) \in [S -> Commitments]
         /\ Congruent(compute_group_commitment(negate_package(p), rho),
                      -compute_group_commitment(p, rho))
<1> DEFINE r == negate_package(p)
           f == [i \in S |-> group_commitment_share(p[i], rho[i])]
           g == [i \in S |-> group_commitment_share(r[i], rho[i])]
           F == SumFunctionOnSet(f, S)
           G == SumFunctionOnSet(g, S)
<1>1. ASSUME NEW i \in S
      PROVE  /\ r[i] \in Commitments
             /\ Congruent(r[i].hiding, -p[i].hiding) /\ Congruent(r[i].binding, -p[i].binding)
  <2> DEFINE a == -p[i].hiding
             b == -p[i].binding
  <2>1. a \in Int /\ b \in Int
    BY Order DEF Commitments
  <2>2. r[i] = [hiding |-> a % q, binding |-> b % q]
    BY DEF negate_package, negate_commitments
  <2> HIDE DEF a, b, r
  <2>3. /\ a % q \in Scalars /\ Congruent(a % q, a)
        /\ b % q \in Scalars /\ Congruent(b % q, b)
    BY <2>1, Remainder
  <2> QED BY <2>2, <2>3 DEF a, b, Commitments
<1>2. r \in [S -> Commitments]
  BY <1>1 DEF negate_package
<1> HIDE DEF r
<1>3. /\ \A i \in S : /\ f[i] \in Int /\ g[i] \in Int
                      /\ p[i].hiding \in Int /\ p[i].binding \in Int
                      /\ r[i].hiding \in Int /\ r[i].binding \in Int
                      /\ Congruent(f[i], p[i].hiding + rho[i] * p[i].binding)
                      /\ Congruent(g[i], r[i].hiding + rho[i] * r[i].binding)
      /\ F \in Int /\ compute_group_commitment(p, rho) = F % q
      /\ G \in Int /\ compute_group_commitment(r, rho) = G % q
  BY <1>2, CommitmentIsSum, Order
<1> HIDE DEF f, g
<1> DEFINE e == -1
<1>4. ASSUME NEW i \in S PROVE Congruent(g[i], e * f[i] + 0 * f[i])
  <2> DEFINE h == p[i].hiding
             b == p[i].binding
             h1 == r[i].hiding
             b1 == r[i].binding
             o == rho[i]
             x == f[i]
             y == g[i]
  <2>1. /\ h \in Int /\ b \in Int /\ h1 \in Int /\ b1 \in Int /\ o \in Int /\ x \in Int /\ y \in Int
        /\ Congruent(x, h + o * b) /\ Congruent(y, h1 + o * b1)
        /\ Congruent(h1, -h) /\ Congruent(b1, -b)
    BY <1>1, <1>3
  <2> HIDE DEF h, b, h1, b1, o, x, y
  <2>2. PICK k1 \in Int : x - (h + o * b) = k1 * q
    BY <2>1 DEF Congruent
  <2>3. PICK k2 \in Int : y - (h1 + o * b1) = k2 * q
    BY <2>1 DEF Congruent
  <2>4. PICK k3 \in Int : h1 - (-h) = k3 * q
    BY <2>1 DEF Congruent
  <2>5. PICK k4 \in Int : b1 - (-b) = k4 * q
    BY <2>1 DEF Congruent
  <2>6. /\ x = h + o * b + k1 * q /\ y = h1 + o * b1 + k2 * q
        /\ h1 = k3 * q - h /\ b1 = k4 * q - b
    BY <2>1, <2>2, <2>3, <2>4, <2>5, Order
  <2> DEFINE l == k1 + k2 + k3 + o * k4
  <2>7. y - (e * x + 0 * x) = l * q /\ l \in Int
    BY <2>1, <2>6, Order
  <2> HIDE DEF l, e
  <2>8. Congruent(y, e * x + 0 * x)
    BY <2>7 DEF Congruent
  <2> QED BY <2>8 DEF x, y
<1>5. Congruent(G, e * F + 0 * F)
  <2>1. e \in Int /\ IsFiniteSet(S) /\ 0 \in Int
    BY SignersFinite
  <2> HIDE DEF e
  <2> QED BY <1>3, <1>4, <2>1, SumCombines
<1> DEFINE x == compute_group_commitment(p, rho)
           y == compute_group_commitment(r, rho)
<1> HIDE DEF F, G
<1>6. /\ x \in Int /\ y \in Int /\ Congruent(x, F) /\ Congruent(y, G)
  BY <1>3, Remainder, Order
<1> HIDE DEF x, y
<1>7. Congruent(y, -x)
  <2>1. PICK k1 \in Int : x - F = k1 * q
    BY <1>6 DEF Congruent
  <2>2. PICK k2 \in Int : y - G = k2 * q
    BY <1>6 DEF Congruent
  <2>3. PICK k3 \in Int : G - (e * F + 0 * F) = k3 * q
    BY <1>5 DEF Congruent
  <2>4. x = F + k1 * q /\ y = G + k2 * q /\ G = k3 * q - F
    BY <1>3, <1>6, <2>1, <2>2, <2>3, Order
  <2>5. y - (-x) = (k1 + k2 + k3) * q /\ k1 + k2 + k3 \in Int
    BY <1>3, <1>6, <2>4, Order
  <2> QED BY <2>5 DEF Congruent
<1> QED BY <1>2, <1>7 DEF x, y, r

(* What the coordinator's hook makes of a package has an even sum, or one  *)
(* that is the identity.                                                   *)
LEMMA SumIsEven ==
  ASSUME NEW S \in SUBSET Participants, NEW p \in [S -> Commitments],
         NEW rho, \A i \in S : rho[i] \in Int
  PROVE  LET R == compute_group_commitment(pre_commitment_aggregate(p, rho), rho) IN
         /\ pre_commitment_aggregate(p, rho) \in [S -> Commitments]
         /\ R \in Scalars /\ is_even(R)
<1> DEFINE x == compute_group_commitment(p, rho)
           y == compute_group_commitment(negate_package(p), rho)
<1>1. x \in Scalars
  BY CommitmentIsSum
<1>2. CASE is_even(x)
  BY <1>1, <1>2 DEF pre_commitment_aggregate, needs_negation
<1>3. CASE ~is_even(x)
  <2>1. negate_package(p) \in [S -> Commitments] /\ Congruent(y, -x)
    BY NegatedPackage
  <2>2. y \in Scalars
    BY <2>1, CommitmentIsSum
  <2>3. pre_commitment_aggregate(p, rho) = negate_package(p)
    BY <1>3 DEF pre_commitment_aggregate, needs_negation
  <2>4. x # 0 /\ q - x \in Even
    BY <1>1, <1>3, EvenAssumption DEF is_even
  <2> HIDE DEF x, y
  <2>5. q - x \in Scalars
    BY <1>1, <2>4, Order DEF Scalars
  <2>6. PICK k \in Int : y - (-x) = k * q
    BY <2>1 DEF Congruent
  <2>7. y - (q - x) = (k - 1) * q /\ k - 1 \in Int
    BY <1>1, <2>2, <2>6, Order
  <2>8. Congruent(y, q - x)
    BY <2>7 DEF Congruent
  <2>9. y = q - x
    <3> DEFINE d == q - x
    <3>1. d \in Scalars /\ Congruent(y, d)
      BY <2>5, <2>8
    <3> HIDE DEF d
    <3>2. y = d
      BY <2>2, <3>1, CongruentScalars
    <3> QED BY <3>2 DEF d
  <2> QED BY <2>1, <2>2, <2>3, <2>4, <2>9 DEF is_even, y
<1> QED BY <1>2, <1>3

-------------------------------------------------------------------------------
(* What signers and coordinator compute from a package. *)
Agreed(S) ==
  /\ poly \in Polynomials /\ message \in Messages /\ serializable(message)
  /\ S \in SUBSET Participants /\ package \in [S -> Nonces]

Rho == binding_factors(package)
Commitment == compute_group_commitment(pre_commitment_aggregate(package, Rho), Rho)

LEMMA Computed ==
  ASSUME NEW S, Agreed(S)
  PROVE  /\ package \in [S -> Commitments] /\ \A i \in S : Rho[i] \in Int
         /\ pre_commitment_aggregate(package, Rho) \in [S -> Commitments]
         /\ Commitment \in Scalars /\ is_even(Commitment)
         /\ poly \in Seq(Scalars) /\ Len(poly) \in 1..min_signers /\ verifying_key \in Scalars
         /\ message_read(serialize(message)) = message
         /\ \A R \in Scalars : challenge(R) \in Scalars
<1>1. package \in [S -> Commitments] /\ S \in SUBSET Participants
  BY GroupAssumption DEF Agreed, Commitments
<1>2. \A i \in S : Rho[i] \in Int
  <2>1. \A i \in S : Rho[i] = H1(i, package)
    BY DEF Rho, binding_factors, Agreed
  <2>2. \A i \in S : H1(i, package) \in Scalars
    BY FieldAssumption DEF Agreed
  <2> QED BY <2>1, <2>2, Order
<1>3. /\ pre_commitment_aggregate(package, Rho) \in [S -> Commitments]
      /\ Commitment \in Scalars /\ is_even(Commitment)
  BY <1>1, <1>2, SumIsEven DEF Commitment
<1>4. poly \in Seq(Scalars) /\ Len(poly) \in 1..min_signers
  BY PolynomialAssumption DEF Agreed
<1>5. verifying_key \in Scalars
  <2>1. 1 \in 1..Len(poly)
    BY <1>4, GroupAssumption
  <2> QED BY <1>4, <2>1, ElementOfSeq DEF verifying_key
<1>6. message_read(serialize(message)) = message
  <2>1. message \in PallasMessage /\ serializable(message) /\ FitsU32(Len(message.input))
    BY GroupAssumption DEF Agreed
  <2>2. deserialize(serialize(message)) = message /\ deserialize(serialize(message)) # Error
    BY <2>1, CodecReadsBack
  <2> QED BY <2>2 DEF message_read
<1>7. ASSUME NEW R \in Scalars PROVE challenge(R) \in Scalars
  <2>1. challenge(R) = H2({R, -R % q}, verifying_key, message)
    BY <1>6 DEF challenge, abscissa
  <2> QED BY <1>5, <2>1, FieldAssumption DEF Agreed
<1> QED BY <1>1, <1>2, <1>3, <1>4, <1>5, <1>6, <1>7

(* Shares that all pass the test of the coordinator add up to a signature. *)
LEMMA SharesMakeSignature ==
  ASSUME NEW S, Agreed(S), Cardinality(S) >= min_signers,
         \A i \in S : shares[i] \in Scalars /\ verify_share(i)
  PROVE  verify(Signature)
<1> DEFINE p == pre_commitment_aggregate(package, Rho)
           c == challenge(Commitment)
           f == [i \in S |-> group_commitment_share(p[i], Rho[i])]
           s == [i \in Participants |-> signing_share(poly, i)]
           g == [i \in S |-> derive_interpolating_value(i, S) * s[i]]
           h == [i \in S |-> shares[i]]
           F == SumFunctionOnSet(f, S)
           G == SumFunctionOnSet(g, S)
           H == SumFunctionOnSet(h, S)
           y == verifying_key
<1>1. /\ p \in [S -> Commitments] /\ S \in SUBSET Participants /\ DOMAIN package = S
      /\ Commitment \in Scalars /\ c \in Scalars /\ y \in Scalars
      /\ poly \in Seq(Scalars) /\ Len(poly) \in Nat \ {0} /\ Cardinality(S) >= Len(poly)
      /\ \A i \in S : Rho[i] \in Int
  <2>1. Len(poly) \in 1..min_signers
    BY Computed
  <2>2. Len(poly) \in Nat \ {0} /\ Cardinality(S) >= Len(poly)
    <3>1. Cardinality(S) \in Nat /\ min_signers \in Nat
      BY SignersFinite, FS_CardinalityType, GroupAssumption DEF Agreed
    <3> QED BY <2>1, <3>1
  <2> QED BY <2>2, Computed DEF Agreed
<1>2. /\ \A i \in S : /\ f[i] \in Scalars /\ p[i].hiding \in Scalars /\ p[i].binding \in Scalars
                      /\ Congruent(f[i], p[i].hiding + Rho[i] * p[i].binding)
      /\ F \in Int /\ Commitment = F % q
  <2> HIDE DEF p
  <2>1. \A rho : (\A i \in S : rho[i] \in Int) =>
          LET k == [i \in S |-> group_commitment_share(p[i], rho[i])] IN
          /\ \A i \in S : /\ k[i] \in Scalars
                          /\ p[i].hiding \in Scalars /\ p[i].binding \in Scalars
                          /\ Congruent(k[i], p[i].hiding + rho[i] * p[i].binding)
          /\ SumFunctionOnSet(k, S) \in Int
          /\ compute_group_commitment(p, rho) = SumFunctionOnSet(k, S) % q
    BY <1>1, CommitmentIsSum
  <2> QED BY <1>1, <2>1 DEF Commitment, p
<1>3. \A i \in Participants : s[i] \in Scalars
  <2> TAKE i \in Participants
  <2>1. PICK v : IsValue(v, poly, i) /\ signing_share(poly, i) = v[1]
    BY <1>1, ShareIsValue
  <2>2. 1 \in 1..(Len(poly) + 1)
    BY <1>1
  <2> QED BY <1>1, <2>1, <2>2, ValueIs
<1>4. \A i \in S : g[i] \in Int
  <2> TAKE i \in S
  <2>1. derive_interpolating_value(i, S) \in Int /\ s[i] \in Int
    BY <1>1, <1>3, CoefficientIsScalar, Order
  <2> HIDE DEF s
  <2> QED BY <2>1
<1>5. ASSUME NEW i \in S
      PROVE  h[i] \in Int /\ Congruent(h[i], 1 * f[i] + c * g[i])
  <2> DEFINE l == derive_interpolating_value(i, S)
             o == Rho[i]
             a == p[i].hiding
             b == p[i].binding
             x == a + o * b + l * s[i] * c
  <2>1. h[i] = x % q /\ h[i] \in Scalars
    <3>1. signing_share(poly, i) = s[i]
      BY <1>1
    <3>2. shares[i] = x % q
      BY <1>1, <3>1 DEF verify_share, Rho, Commitment, verifying_share
    <3> QED BY <3>2
  <2>2. l \in Int /\ o \in Int /\ a \in Int /\ b \in Int /\ s[i] \in Int /\ c \in Int
        /\ f[i] \in Int /\ g[i] = l * s[i]
    BY <1>1, <1>2, <1>3, CoefficientIsScalar, Order
  <2>3. Congruent(f[i], a + o * b)
    BY <1>2
  <2> DEFINE u == s[i]
  <2>4. u \in Int /\ x = a + o * b + l * u * c /\ g[i] = l * u
    BY <2>2
  <2> HIDE DEF l, o, a, b, x, f, g, h, c, s, u
  <2>5. x \in Int
    BY <2>2, <2>4
  <2>6. Congruent(h[i], x)
    BY <2>1, <2>5, Remainder
  <2>7. h[i] \in Int
    BY <2>1, Order
  <2>8. PICK k1 \in Int : h[i] - x = k1 * q
    BY <2>6 DEF Congruent
  <2>9. PICK k2 \in Int : f[i] - (a + o * b) = k2 * q
    BY <2>3 DEF Congruent
  <2>10. h[i] = x + k1 * q /\ f[i] = a + o * b + k2 * q
    <3>1. h[i] = x + k1 * q
      BY <2>5, <2>7, <2>8, Order
    <3>2. f[i] = a + o * b + k2 * q
      <4> DEFINE t == a + o * b
      <4>1. t \in Int /\ f[i] - t = k2 * q
        BY <2>2, <2>9
      <4> HIDE DEF t
      <4>2. f[i] = t + k2 * q
        BY <2>2, <4>1, Order
      <4> QED BY <4>2 DEF t
    <3> QED BY <3>1, <3>2
  <2>11. h[i] - (1 * f[i] + c * g[i]) = (k1 - k2) * q /\ k1 - k2 \in Int
    BY <2>2, <2>4, <2>10, Order
  <2> QED BY <2>7, <2>11 DEF Congruent
<1>6. Congruent(G, y)
  <2>1. Congruent(Interpolated(S, s), poly[1])
    BY <1>1, Interpolation
  <2> QED BY <2>1 DEF Interpolated, verifying_key
<1>7. Signature.z = H % q /\ Signature.R = Commitment
  BY <1>1 DEF Signature, Rho, Commitment, SumFunction
<1> HIDE DEF f, g, h, s, c, y, p
<1>8. Congruent(H, 1 * F + c * G) /\ H \in Int /\ G \in Int
  <2>1. IsFiniteSet(S) /\ c \in Int
    BY <1>1, SignersFinite, Order
  <2> DEFINE one == 1
  <2>2. one \in Int /\ \A i \in S : /\ f[i] \in Int /\ g[i] \in Int /\ h[i] \in Int
                                    /\ Congruent(h[i], one * f[i] + c * g[i])
    BY <1>2, <1>4, <1>5, Order
  <2> HIDE DEF one
  <2>3. Congruent(H, one * F + c * G)
    BY <2>1, <2>2, SumCombines
  <2>4. H \in Int /\ G \in Int
    BY <2>1, <2>2, SumRules
  <2> QED BY <2>3, <2>4 DEF one
<1>9. Congruent(Commitment, F)
  BY <1>2, Remainder
<1> HIDE DEF F, G, H
<1> DEFINE x == Commitment + c * y
<1>10. Congruent(H, x) /\ x \in Int
  <2>0. Commitment \in Int /\ c \in Int /\ y \in Int
    BY <1>1, Order
  <2>1. PICK k1 \in Int : H - (1 * F + c * G) = k1 * q
    BY <1>8 DEF Congruent
  <2>2. PICK k2 \in Int : G - y = k2 * q
    BY <1>6 DEF Congruent
  <2>3. PICK k3 \in Int : Commitment - F = k3 * q
    BY <1>9 DEF Congruent
  <2>4. H = F + c * G + k1 * q /\ G = y + k2 * q /\ F = Commitment - k3 * q
    BY <1>2, <1>8, <2>0, <2>1, <2>2, <2>3, Order
  <2> DEFINE l == k1 + c * k2 - k3
  <2>5. H - x = l * q /\ l \in Int
    BY <2>0, <2>4, Order
  <2>6. x \in Int
    BY <2>0
  <2> HIDE DEF l, x
  <2> QED BY <2>5, <2>6 DEF Congruent
<1> HIDE DEF x
<1>11. H % q = x % q
  BY <1>8, <1>10, CongruentRemainders
<1> QED BY <1>7, <1>11 DEF verify, x, c, y

(* The node computes the R of the signature from its z, and finds it even. *)
LEMMA VerifiedIsAccepted ==
  ASSUME NEW S, Agreed(S), verify(Signature), Signature.R # 0, Signature.z \in Int
  PROVE  mina_verify(abscissa(Signature.R), Signature.z)
<1> DEFINE R == Signature.R
           z == Signature.z
           c == challenge(R)
           y == verifying_key
           x == R + c * y
           w == z - c * y
<1>1. R \in Scalars /\ is_even(R) /\ y \in Scalars /\ c \in Scalars
      /\ c = H2(abscissa(R), y, message)
  <2>1. R = Commitment
    BY DEF Signature, Rho, Commitment
  <2>2. message_read(serialize(message)) = message
    BY Computed
  <2> QED BY <2>1, <2>2, Computed DEF challenge
<1>2. R \in Int /\ y \in Int /\ c \in Int /\ x \in Int
  BY <1>1, Order
<1>3. z = x % q
  BY DEF verify
<1>4. z \in Int /\ w \in Int
  BY <1>2
<1>5. Congruent(z, x)
  <2> HIDE DEF z, x
  <2> QED BY <1>2, <1>3, Remainder
<1> HIDE DEF z, R, c, y
<1>6. Congruent(w, R)
  <2>1. PICK k \in Int : z - x = k * q
    BY <1>5 DEF Congruent
  <2>2. w - R = k * q
    BY <1>2, <1>4, <2>1, Order
  <2> QED BY <2>2 DEF Congruent
<1> HIDE DEF w
<1>7. w % q = R
  <2>1. w % q \in Scalars /\ Congruent(w % q, w)
    BY <1>4, Remainder
  <2> DEFINE r == w % q
  <2>2. r \in Scalars /\ r \in Int /\ Congruent(r, w)
    BY <2>1, Order
  <2> HIDE DEF r
  <2>3. Congruent(r, R)
    BY <1>2, <1>4, <1>6, <2>2, CongruentIsEquivalence
  <2>4. r = R
    BY <1>1, <2>2, <2>3, CongruentScalars
  <2> QED BY <2>4 DEF r
<1>8. (z - H2(abscissa(R), y, message) * y) % q = R
  BY <1>1, <1>7 DEF w
<1>9. R # 0
  BY DEF R
<1> QED BY <1>1, <1>8, <1>9 DEF mina_verify, z, R, y

-------------------------------------------------------------------------------
(* What aggregate() has found of the shares in the package, which do not   *)
(* change any more.                                                        *)
ResultInv ==
  /\ package # <<>> => message \in Messages
  /\ result # None =>
       /\ package # <<>> /\ serializable(message)
       /\ \A i \in DOMAIN package : shares[i] # None
       /\ result = IF verify(Signature) THEN [signature |-> Signature]
                   ELSE [culprits |-> {i \in DOMAIN package : ~verify_share(i)}]

\* There are signers of a package: a commitment of each, all drawn by them.
LEMMA PackageOf ==
  ASSUME TypeOK, IInv, ResultInv, package # <<>>, serializable(message)
  PROVE  Agreed(DOMAIN package)
<1>1. PICK signers \in SUBSET Participants : package \in [signers -> Nonces]
  BY DEF TypeOK
<1> QED BY <1>1 DEF TypeOK, ResultInv, Agreed

LEMMA SignatureIsTyped ==
  ASSUME NEW S, Agreed(S), \A i \in S : shares[i] \in Scalars
  PROVE  Signature \in [R : Scalars, z : Scalars]
<1> DEFINE h == [i \in S |-> shares[i]]
           H == SumFunctionOnSet(h, S)
<1>1. \A i \in S : h[i] \in Int
  BY Order
<1>2. Signature.R = Commitment /\ Signature.z = H % q
      /\ Signature = [R |-> Signature.R, z |-> Signature.z]
  BY DEF Agreed, Signature, Rho, Commitment, SumFunction
<1>3. H \in Int
  <2>1. IsFiniteSet(S)
    BY SignersFinite DEF Agreed
  <2> HIDE DEF h
  <2> QED BY <1>1, <2>1, SumRules
<1> HIDE DEF H
<1>4. Signature.z \in Scalars /\ Signature.R \in Scalars
  BY <1>2, <1>3, Remainder, Computed
<1> QED BY <1>2, <1>4

LEMMA ShareIsScalar ==
  ASSUME NEW i \in Participants, TypeOK, IInv, ResultInv, sign(i)
  PROVE  signature_share(i) \in Scalars
<1> DEFINE S == DOMAIN package
           p == pre_commitment_aggregate(package, Rho)
           own == pre_commitment_sign(package, nonces[i], Rho)
           l == derive_interpolating_value(i, S)
           s == signing_share(poly, i)
           c == challenge(Commitment)
<1>1. i \in S /\ serializable(message) /\ package # <<>>
  BY DEF sign
<1>2. Agreed(S) /\ S \in SUBSET Participants
  BY <1>1, PackageOf DEF Agreed
<1>3. nonces[i] = package[i]
  BY <1>1 DEF IInv
<1>4. own.package = p /\ own.nonces = p[i]
  BY <1>1, <1>3, HooksAgree
<1>5. /\ p \in [S -> Commitments] /\ Rho[i] \in Int /\ Commitment \in Scalars
      /\ \A R \in Scalars : challenge(R) \in Scalars
      /\ poly \in Seq(Scalars) /\ Len(poly) \in Nat \ {0}
  BY <1>1, <1>2, Computed
<1>6. p[i].hiding \in Int /\ p[i].binding \in Int /\ Rho[i] \in Int /\ c \in Int
  BY <1>1, <1>5, Order DEF Commitments
<1>7. l \in Int
  BY <1>1, <1>2, CoefficientIsScalar
<1>8. s \in Int
  <2>1. PICK v : IsValue(v, poly, i) /\ signing_share(poly, i) = v[1]
    BY <1>5, ShareIsValue
  <2>2. 1 \in 1..(Len(poly) + 1)
    BY <1>5
  <2> QED BY <1>5, <2>1, <2>2, ValueIs, Order
<1> DEFINE x == p[i].hiding + Rho[i] * p[i].binding + l * s * c
<1>9. signature_share(i) = x % q
  BY <1>4 DEF signature_share, Rho, Commitment
<1>10. x \in Int
  <2> HIDE DEF p, l, s, c
  <2> QED BY <1>6, <1>7, <1>8
<1> HIDE DEF x
<1> QED BY <1>9, <1>10, Remainder

(* Types, and what result is of the shares.                                *)
LEMMA TypesAreKept ==
  ASSUME TypeOK, IInv, ResultInv, [Next]_vars
  PROVE  TypeOK'
<1>1. ASSUME NEW i \in Participants, commit(i) PROVE TypeOK'
  <2>1. PICK n \in Nonces : nonces' = [nonces EXCEPT ![i] = n]
    BY <1>1 DEF commit
  <2>2. nonces' \in [Participants -> Nonces \cup {None}]
    BY <2>1 DEF TypeOK
  <2> QED BY <1>1, <2>2 DEF commit, TypeOK
<1>2. ASSUME NEW signers \in SUBSET Participants, SigningPackage(signers) PROVE TypeOK'
  <2>1. \A i \in signers : nonces[i] \in Nonces
    BY <1>2 DEF SigningPackage, TypeOK
  <2>2. package' \in [signers -> Nonces]
    BY <1>2, <2>1 DEF SigningPackage
  <2> QED BY <1>2, <2>2 DEF SigningPackage, TypeOK
<1>3. ASSUME NEW i \in Participants, sign(i) PROVE TypeOK'
  <2>1. signature_share(i) \in Scalars
    BY <1>3, ShareIsScalar
  <2>2. shares' = [shares EXCEPT ![i] = signature_share(i)]
    BY <1>3 DEF sign
  <2>3. shares' \in [Participants -> Scalars \cup {None}]
    BY <2>1, <2>2 DEF TypeOK
  <2> QED BY <1>3, <2>3 DEF sign, TypeOK
<1>4. ASSUME NEW i \in Participants, SendAnything(i) PROVE TypeOK'
  <2>1. PICK z \in Scalars : shares' = [shares EXCEPT ![i] = z]
    BY <1>4 DEF SendAnything
  <2>2. shares' \in [Participants -> Scalars \cup {None}]
    BY <2>1 DEF TypeOK
  <2> QED BY <1>4, <2>2 DEF SendAnything, TypeOK
<1>5. CASE aggregate
  <2>1. Agreed(DOMAIN package) /\ \A i \in DOMAIN package : shares[i] \in Scalars
    <3>1. package # <<>> /\ serializable(message) /\ \A i \in DOMAIN package : shares[i] # None
      BY <1>5 DEF aggregate
    <3>2. Agreed(DOMAIN package)
      BY <3>1, PackageOf
    <3> QED BY <3>1, <3>2 DEF Agreed, TypeOK
  <2>2. Signature \in [R : Scalars, z : Scalars]
    BY <2>1, SignatureIsTyped
  <2>3. \/ result' \in [signature : [R : Scalars, z : Scalars]]
        \/ result' \in [culprits : SUBSET Participants]
    <3>1. CASE verify(Signature)
      <4>1. result' = [signature |-> Signature]
        BY <1>5, <3>1 DEF aggregate
      <4> QED BY <2>2, <4>1
    <3>2. CASE ~verify(Signature)
      <4> DEFINE C == {i \in DOMAIN package : ~verify_share(i)}
      <4>1. result' = [culprits |-> C]
        BY <1>5, <3>2 DEF aggregate
      <4>2. C \in SUBSET Participants
        BY <2>1 DEF Agreed
      <4> HIDE DEF C
      <4> QED BY <4>1, <4>2
    <3> QED BY <3>1, <3>2
  <2> QED BY <1>5, <2>3 DEF aggregate, TypeOK
<1>6. CASE UNCHANGED vars
  BY <1>6 DEF vars, TypeOK
<1> QED BY <1>1, <1>2, <1>3, <1>4, <1>5, <1>6 DEF Next

LEMMA ResultIsKept ==
  ASSUME TypeOK, IInv, ResultInv, [Next]_vars
  PROVE  ResultInv'
<1>1. ASSUME UNCHANGED <<poly, message, package, shares>>
      PROVE  /\ verify(Signature)' = verify(Signature)
             /\ Signature' = Signature
             /\ \A i : verify_share(i)' = verify_share(i)
  <2>1. \A i : verify_share(i)' = verify_share(i)
    BY <1>1, TestKept
  <2>2. Signature' = Signature
    BY <1>1 DEF Signature
  <2>3. verify(Signature)' = verify(Signature)
    BY <1>1, <2>2 DEF verify, challenge, verifying_key
  <2> QED BY <2>1, <2>2, <2>3
<1>2. ASSUME NEW i \in Participants, commit(i) PROVE ResultInv'
  <2>1. result = None /\ result' = None /\ package' = <<>>
    BY <1>2 DEF commit, ResultInv
  <2> QED BY <2>1 DEF ResultInv
<1>3. ASSUME NEW signers \in SUBSET Participants, SigningPackage(signers) PROVE ResultInv'
  <2>1. result = None /\ result' = None /\ message' \in Messages
    BY <1>3 DEF SigningPackage, ResultInv
  <2> QED BY <2>1 DEF ResultInv
<1>4. ASSUME NEW i \in Participants, sign(i) \/ SendAnything(i) PROVE ResultInv'
  <2>1. result = None /\ result' = None /\ package' = package /\ message' = message
    BY <1>4 DEF sign, SendAnything, ResultInv
  <2> QED BY <2>1 DEF ResultInv
<1>5. CASE aggregate
  <2>1. UNCHANGED <<poly, message, package, shares>>
    BY <1>5 DEF aggregate
  <2> DEFINE C == {i \in DOMAIN package : ~verify_share(i)}
  <2>2. /\ package # <<>> /\ serializable(message)
        /\ \A i \in DOMAIN package : shares[i] # None
        /\ result' = IF verify(Signature) THEN [signature |-> Signature]
                     ELSE [culprits |-> C]
    BY <1>5 DEF aggregate
  <2>3. C = C'
    BY <1>1, <2>1
  <2> QED BY <1>1, <2>1, <2>2, <2>3 DEF ResultInv
<1>6. CASE UNCHANGED vars
  <2>1. UNCHANGED <<poly, message, package, shares>> /\ result' = result
    BY <1>6 DEF vars
  <2> DEFINE C == {i \in DOMAIN package : ~verify_share(i)}
  <2>2. C = C'
    BY <1>1, <2>1
  <2> QED BY <1>1, <2>1, <2>2 DEF ResultInv
<1> QED BY <1>2, <1>3, <1>4, <1>5, <1>6 DEF Next

THEOREM ResultsAreOfShares == Spec => [](TypeOK /\ IInv /\ ResultInv)
<1>1. Init => TypeOK /\ ResultInv
  <2> SUFFICES ASSUME Init PROVE TypeOK /\ ResultInv
    OBVIOUS
  <2>1. package \in [{} -> Nonces] /\ {} \in SUBSET Participants
    BY DEF Init
  <2> QED BY <2>1 DEF Init, TypeOK, ResultInv
<1>2. IInv /\ TypeOK /\ ResultInv /\ [Next]_vars => TypeOK' /\ ResultInv'
  BY TypesAreKept, ResultIsKept
<1> QED BY <1>1, <1>2, InductiveInvariant, PTL DEF Spec

(* Types of the variables.                                                 *)
THEOREM TypeCorrect == Spec => []TypeOK
<1> QED BY ResultsAreOfShares, PTL

(* Whatever polynomial has the key, whatever the group, the parities and   *)
(* the hashes: of a package of min_signers or more aggregate() makes a     *)
(* signature that Mina accepts, or somebody has sent a wrong share.        *)
THEOREM SignatureOrCulprits == Spec => []AggregatesOrBlames
<1>1. TypeOK /\ IInv /\ ResultInv => AggregatesOrBlames
  <2> SUFFICES ASSUME TypeOK, IInv, ResultInv, result # None,
                      Cardinality(DOMAIN package) >= min_signers
               PROVE  IF Failed THEN result.culprits # {}
                      ELSE result.signature.R # 0 =>
                             mina_verify(abscissa(result.signature.R), result.signature.z)
    BY DEF AggregatesOrBlames
  <2> DEFINE S == DOMAIN package
             C == {i \in S : ~verify_share(i)}
  <2>1. /\ package # <<>> /\ serializable(message) /\ \A i \in S : shares[i] # None
        /\ result = IF verify(Signature) THEN [signature |-> Signature] ELSE [culprits |-> C]
    BY DEF ResultInv
  <2>2. Agreed(S) /\ \A i \in S : shares[i] \in Scalars
    <3>1. Agreed(S)
      BY <2>1, PackageOf
    <3> QED BY <2>1, <3>1 DEF Agreed, TypeOK
  <2> HIDE DEF C
  <2>3. CASE verify(Signature)
    <3>1. result = [signature |-> Signature] /\ ~Failed
      <4>1. result = [signature |-> Signature]
        BY <2>1, <2>3
      <4>2. "signature" \in DOMAIN result /\ "signature" \notin {"culprits"}
        BY <4>1
      <4> QED BY <4>1, <4>2 DEF Failed
    <3>2. result.signature = Signature
      BY <3>1
    <3>3. Signature.z \in Int
      BY <2>2, SignatureIsTyped, Order
    <3>4. Signature.R # 0 => mina_verify(abscissa(Signature.R), Signature.z)
      BY <2>2, <2>3, <3>3, VerifiedIsAccepted
    <3> QED BY <3>1, <3>2, <3>4
  <2>4. CASE ~verify(Signature)
    <3>1. result = [culprits |-> C]
      BY <2>1, <2>4
    <3>2. result.culprits = C /\ Failed
      BY <3>1 DEF Failed
    <3>3. C # {}
      <4>1. ASSUME \A i \in S : verify_share(i) PROVE FALSE
        BY <2>2, <2>4, <4>1, SharesMakeSignature
      <4> QED BY <4>1 DEF C
    <3> QED BY <3>2, <3>3
  <2> QED BY <2>3, <2>4
<1> QED BY <1>1, ResultsAreOfShares, PTL
===============================================================================
