----------------------------- MODULE TxChainProofs -----------------------------
(***************************************************************************)
(* Theorems about TxChain, for any keys, transactions, networks, files and *)
(* coordinators.                                                           *)
(***************************************************************************)
EXTENDS TxChain, Induction

Authorizations == Foreign \cup Signatures

\* More authorizations, more commands.
LEMMA CommandsMonotonic ==
  ASSUME NEW A, NEW B, A \subseteq B
  PROVE  ZKAppCommand(A) \subseteq ZKAppCommand(B)
<1>1. FeePayer(A) \subseteq FeePayer(B) /\ AccountUpdate(A) \subseteq AccountUpdate(B)
  BY DEF FeePayer, AccountUpdate
<1>2. Seq(AccountUpdate(A)) \subseteq Seq(AccountUpdate(B))
  BY <1>1
<1> QED BY <1>1, <1>2 DEF ZKAppCommand

\* Injection changes authorizations and nothing else.
LEMMA InjectionFillsPlaces ==
  ASSUME NEW cmd \in ZKAppCommand(Authorizations), NEW key, NEW sig \in Authorizations
  PROVE  LET inj == inject_signature(cmd, key, sig) IN
         /\ inj \in ZKAppCommand(Authorizations)
         /\ inj.tag = cmd.tag /\ inj.memo = cmd.memo /\ inj.fee_payer.body = cmd.fee_payer.body
         /\ inj.fee_payer.authorization =
              IF cmd.fee_payer.body.public_key = key THEN sig ELSE cmd.fee_payer.authorization
         /\ DOMAIN inj.account_updates = DOMAIN cmd.account_updates
         /\ \A i \in DOMAIN cmd.account_updates :
              /\ inj.account_updates[i].body = cmd.account_updates[i].body
              /\ inj.account_updates[i].signature =
                   IF Fillable(cmd.account_updates[i].body)
                        /\ cmd.account_updates[i].body.public_key = key
                   THEN sig ELSE cmd.account_updates[i].signature
<1> DEFINE ups == cmd.account_updates
           fp == [cmd.fee_payer EXCEPT !.authorization =
                    IF cmd.fee_payer.body.public_key = key THEN sig ELSE @]
           put(u) == IF should_inject(u.body, key) /\ u.body.use_full_commitment
                     THEN [u EXCEPT !.signature = sig] ELSE u
           new == [i \in DOMAIN ups |-> put(ups[i])]
           inj == inject_signature(cmd, key, sig)
<1>1. /\ cmd.fee_payer \in FeePayer(Authorizations)
      /\ ups \in Seq(AccountUpdate(Authorizations))
      /\ cmd.tag = "ZkApp" /\ cmd.memo \in Rests
  BY DEF ZKAppCommand
<1>2. inj = [cmd EXCEPT !.fee_payer = fp, !.account_updates = new]
  BY <1>1 DEF inject_signature, ZKAppCommand, FeePayer
<1>3. /\ inj = [tag |-> "ZkApp", fee_payer |-> fp, account_updates |-> new, memo |-> cmd.memo]
      /\ inj.tag = cmd.tag /\ inj.memo = cmd.memo
      /\ inj.fee_payer = fp /\ inj.account_updates = new
  <2> HIDE DEF fp, new, inj
  <2> QED BY <1>2, <1>1 DEF ZKAppCommand
<1>4. /\ fp \in FeePayer(Authorizations) /\ fp.body = cmd.fee_payer.body
      /\ fp.authorization =
           IF cmd.fee_payer.body.public_key = key THEN sig ELSE cmd.fee_payer.authorization
  BY <1>1 DEF FeePayer
<1>5. ASSUME NEW u \in AccountUpdate(Authorizations)
      PROVE  /\ put(u) \in AccountUpdate(Authorizations) /\ put(u).body = u.body
             /\ put(u).signature = IF Fillable(u.body) /\ u.body.public_key = key
                                   THEN sig ELSE u.signature
  BY DEF AccountUpdate, should_inject, Fillable
<1> HIDE DEF put, fp, inj
<1>6. DOMAIN new = DOMAIN ups /\ \A i \in DOMAIN ups : new[i] = put(ups[i])
  OBVIOUS
<1>7. new \in Seq(AccountUpdate(Authorizations))
  <2>1. DOMAIN ups = 1..Len(ups) /\ Len(ups) \in Nat
        /\ \A i \in 1..Len(ups) : ups[i] \in AccountUpdate(Authorizations)
    BY <1>1
  <2>2. new \in [1..Len(ups) -> AccountUpdate(Authorizations)]
    BY <2>1, <1>5
  <2> QED BY <2>1, <2>2
<1>8. \A i \in DOMAIN ups : ups[i] \in AccountUpdate(Authorizations)
  BY <1>1
<1>9. inj \in ZKAppCommand(Authorizations)
  <2> HIDE DEF new
  <2> QED BY <1>3, <1>4, <1>7, <1>1 DEF ZKAppCommand
<1> HIDE DEF new
<1> QED BY <1>3, <1>4, <1>5, <1>6, <1>8, <1>9 DEF inj

\* The message is made of the network and the bodies.
LEMMA MessageOfBodies ==
  ASSUME NEW env, NEW other,
         env.network = other.network, env.tx.tag = "ZkApp", other.tx.tag = "ZkApp",
         env.tx.memo = other.tx.memo, env.tx.fee_payer.body = other.tx.fee_payer.body,
         DOMAIN env.tx.account_updates = DOMAIN other.tx.account_updates,
         \A i \in DOMAIN env.tx.account_updates :
           env.tx.account_updates[i].body = other.tx.account_updates[i].body
  PROVE  /\ to_pallas_message(env) = to_pallas_message(other)
         /\ Hashable(env) <=> Hashable(other)
<1>1. BodiesOf(env.tx) = BodiesOf(other.tx)
  BY DEF BodiesOf
<1>2. zk_commit(env.tx, env.network) = zk_commit(other.tx, other.network)
  BY <1>1 DEF zk_commit
<1>3. committable(env.tx) <=> committable(other.tx)
  BY <1>1 DEF committable
<1> QED BY <1>2, <1>3 DEF to_pallas_message, Hashable

\* What a session does to a sound envelope.
LEMMA SessionKeepsSound ==
  ASSUME NEW env \in Envelopes, NEW groups \in SUBSET Groups, NEW key \in Groups,
         Sound(env, groups), Hashable(env)
  PROVE  LET doc == new_with_zkapp_injection(key, SignatureOf(key, env), env) IN
         /\ doc \in Documents /\ doc.kind = "signed"
         /\ doc.signature = SignatureOf(doc.publicKey, doc.payload)
         /\ Sound(doc.payload, groups \cup {key})
<1> DEFINE sig == SignatureOf(key, env)
           inj == inject_signature(env.tx, key, sig)
           new == IF env.tx.tag = "ZkApp" THEN [env EXCEPT !.tx = inj] ELSE env
           doc == new_with_zkapp_injection(key, sig, env)
<1>1. sig \in Signatures
  BY DEF Sound, SignatureOf, Signatures
<1>2. env.network \in Networks /\ env = [network |-> env.network, tx |-> env.tx]
      /\ env.tx \in ZKAppCommand(Authorizations) \cup LegacyTransaction(Keys)
  BY DEF Envelopes, Authorizations
<1>3. doc = [kind |-> "signed", publicKey |-> key, signature |-> sig, payload |-> new]
  BY DEF new_with_zkapp_injection
<1>4. SUFFICES /\ new \in Envelopes
               /\ to_pallas_message(new) = to_pallas_message(env)
               /\ Sound(new, groups \cup {key})
  <2> HIDE DEF new, sig
  <2>1. doc.kind = "signed" /\ doc.publicKey = key /\ doc.signature = sig /\ doc.payload = new
    BY <1>3
  <2>2. doc \in Documents
    BY <1>3, <1>4, <1>1 DEF Documents
  <2>3. sig = SignatureOf(key, new)
    BY <1>4 DEF sig, SignatureOf
  <2> QED BY <2>1, <2>2, <2>3, <1>4 DEF doc, sig
<1>5. CASE env.tx.tag # "ZkApp"
  BY <1>5 DEF Sound, PlacesFit, Filled, Hashable
<1>6. CASE env.tx.tag = "ZkApp"
  <2>1. env.tx \in ZKAppCommand(Authorizations)
    BY <1>6, <1>2 DEF LegacyTransaction
  <2>2. sig \in Authorizations
    BY <1>1 DEF Authorizations
  <2> HIDE DEF sig
  <2>3. /\ inj \in ZKAppCommand(Authorizations)
        /\ inj.tag = "ZkApp" /\ inj.memo = env.tx.memo
        /\ inj.fee_payer.body = env.tx.fee_payer.body
        /\ inj.fee_payer.authorization =
             IF env.tx.fee_payer.body.public_key = key THEN sig
             ELSE env.tx.fee_payer.authorization
        /\ DOMAIN inj.account_updates = DOMAIN env.tx.account_updates
        /\ \A i \in DOMAIN env.tx.account_updates :
             /\ inj.account_updates[i].body = env.tx.account_updates[i].body
             /\ inj.account_updates[i].signature =
                  IF Fillable(env.tx.account_updates[i].body)
                       /\ env.tx.account_updates[i].body.public_key = key
                  THEN sig ELSE env.tx.account_updates[i].signature
    BY <2>1, <2>2, <1>6, InjectionFillsPlaces
  <2> HIDE DEF inj
  <2>4. /\ new = [network |-> env.network, tx |-> inj]
        /\ new.network = env.network /\ new.tx = inj /\ new \in Envelopes
    BY <1>6, <1>2, <2>3 DEF Envelopes, Authorizations
  <2> HIDE DEF new
  <2>5. to_pallas_message(new) = to_pallas_message(env) /\ (Hashable(new) <=> Hashable(env))
    BY <2>3, <2>4, <1>6, MessageOfBodies
  <2>6. \A k : SignatureOf(k, new) = SignatureOf(k, env)
    BY <2>5 DEF SignatureOf
  <2>7. sig = SignatureOf(key, new)
    BY <2>6 DEF sig
  <2>8. PlacesFit(new)
    <3>1. PlacesFit(env)
      BY DEF Sound
    <3>2. \/ inj.fee_payer.authorization \in Foreign
          \/ inj.fee_payer.authorization = SignatureOf(inj.fee_payer.body.public_key, new)
      BY <3>1, <2>3, <2>6, <2>7, <1>6 DEF PlacesFit
    <3>3. ASSUME NEW i \in DOMAIN inj.account_updates
          PROVE  LET u == inj.account_updates[i]
                 IN \/ u.signature \in Foreign
                    \/ Fillable(u.body) /\ u.signature = SignatureOf(u.body.public_key, new)
      BY <3>1, <2>3, <2>6, <2>7, <1>6 DEF PlacesFit
    <3> QED BY <3>2, <3>3, <2>4 DEF PlacesFit
  <2>9. Filled(new, groups \cup {key})
    <3>1. Filled(env, groups)
      BY DEF Sound
    <3>2. inj.fee_payer.body.public_key \in groups \cup {key} =>
            inj.fee_payer.authorization = SignatureOf(inj.fee_payer.body.public_key, new)
      BY <3>1, <2>3, <2>6, <2>7, <1>6 DEF Filled
    <3>3. ASSUME NEW i \in DOMAIN inj.account_updates
          PROVE  LET u == inj.account_updates[i]
                 IN Fillable(u.body) /\ u.body.public_key \in groups \cup {key} =>
                      u.signature = SignatureOf(u.body.public_key, new)
      BY <3>1, <2>3, <2>6, <2>7, <1>6 DEF Filled
    <3> QED BY <3>2, <3>3, <2>4 DEF Filled
  <2> QED BY <2>4, <2>5, <2>8, <2>9 DEF Sound
<1> QED BY <1>5, <1>6

\* What is read of a legacy document is a legacy transaction.
LEMMA DeserializeType ==
  ASSUME NEW keys, NEW document \in LegacyDocument(keys), readable(document)
  PROVE  /\ deserialize(document) \in LegacyTransaction(keys)
         /\ deserialize(document).tag = "Legacy"
<1>1. MEMO_BYTES \in Nat /\ MEMO_BYTES <= 257 /\ NoExpiry \in Nat
  BY MemoAssumption
<1>2. /\ document.from \in keys /\ document.to \in keys /\ document.fee \in Nat
      /\ document.nonce \in Nat /\ document.valid_until \in Nat
      /\ document.memo \in Seq(Byte) /\ document.amount \in Seq(Nat)
  BY DEF LegacyDocument, Optional
<1>3. set_memo_str(document.memo) \in [1..MEMO_BYTES -> Byte]
  <2>1. Len(document.memo) \in Byte
    <3>1. Len(document.memo) \in Nat
      BY <1>2
    <3>2. Len(document.memo) <= MEMO_BYTES - 2
      BY DEF readable, memo_fits
    <3> DEFINE n == Len(document.memo)
    <3>3. n \in Nat /\ n <= MEMO_BYTES - 2
      BY <3>1, <3>2
    <3> HIDE DEF n
    <3>4. n \in 0..255
      BY <3>3, <1>1
    <3> QED BY <3>4 DEF n, Byte
  <2>2. \A i \in 1..Len(document.memo) : document.memo[i] \in Byte
    BY <1>2
  <2>3. 0 \in Byte /\ 1 \in Byte
    BY DEF Byte
  <2>4. ASSUME NEW i \in 1..MEMO_BYTES
        PROVE  (IF i = 1 THEN 1
                ELSE IF i = 2 THEN Len(document.memo)
                ELSE IF i - 2 <= Len(document.memo) THEN document.memo[i - 2] ELSE 0) \in Byte
    <3>1. CASE i \in 1..2
      BY <3>1, <2>1, <2>3
    <3>2. CASE i \notin 1..2 /\ i - 2 <= Len(document.memo)
      <4>1. i - 2 \in 1..Len(document.memo)
        BY <3>2, <1>1, <1>2
      <4> QED BY <4>1, <3>2, <2>2
    <3>3. CASE i \notin 1..2 /\ ~(i - 2 <= Len(document.memo))
      BY <3>3, <2>3
    <3> QED BY <3>1, <3>2, <3>3
  <2> QED BY <2>4 DEF set_memo_str
<1> DEFINE new == IF document.kind = DELEGATION_TX_TAG
                  THEN new_delegation(document.from, document.to, document.fee, document.nonce)
                  ELSE new_payment(document.from, document.to, document.amount[1],
                                   document.fee, document.nonce)
<1>4. new \in LegacyTransaction(keys)
  <2> DEFINE blank == [i \in 1..MEMO_BYTES |-> IF i = 1 THEN 1 ELSE 0]
  <2>1. blank \in [1..MEMO_BYTES -> Byte]
    BY DEF Byte
  <2> HIDE DEF blank
  <2>2. CASE document.kind = DELEGATION_TX_TAG
    <3>1. new = [tag |-> "Legacy", kind |-> DELEGATION_TX_TAG, source_pk |-> document.from,
                 receiver_pk |-> document.to, fee_payer_pk |-> document.from,
                 fee |-> document.fee, fee_token |-> 1, nonce |-> document.nonce,
                 valid_until |-> NoExpiry, memo |-> blank, token_id |-> 1, amount |-> 0,
                 token_locked |-> FALSE]
      BY <2>2 DEF new_delegation, NewTransaction, blank
    <3> HIDE DEF new
    <3> QED BY <3>1, <2>1, <1>1, <1>2 DEF LegacyTransaction
  <2>3. CASE document.kind # DELEGATION_TX_TAG
    <3>1. document.amount[1] \in Nat
      BY <2>3, <1>2 DEF readable
    <3>2. new = [tag |-> "Legacy", kind |-> PAYMENT_TX_TAG, source_pk |-> document.from,
                 receiver_pk |-> document.to, fee_payer_pk |-> document.from,
                 fee |-> document.fee, fee_token |-> 1, nonce |-> document.nonce,
                 valid_until |-> NoExpiry, memo |-> blank, token_id |-> 1,
                 amount |-> document.amount[1], token_locked |-> FALSE]
      BY <2>3 DEF new_payment, NewTransaction, blank
    <3> HIDE DEF new
    <3> QED BY <3>1, <3>2, <2>1, <1>1, <1>2 DEF LegacyTransaction
  <2> QED BY <2>2, <2>3
<1>5. deserialize(document) =
        [new EXCEPT !.memo = set_memo_str(document.memo), !.valid_until = document.valid_until]
  BY DEF deserialize
<1> HIDE DEF new
<1> QED BY <1>2, <1>3, <1>4, <1>5 DEF LegacyTransaction

\* A transaction nobody has signed here.
LEMMA FreshIsSound ==
  ASSUME NEW n \in Networks, NEW t \in Transactions, Readable(t)
  PROVE  /\ [network |-> n, tx |-> transaction(t)] \in Envelopes
         /\ Sound([network |-> n, tx |-> transaction(t)], {})
<1> DEFINE tx == transaction(t)
           env == [network |-> n, tx |-> tx]
<1>1. tx \in ZKAppCommand(Foreign) \cup LegacyTransaction(Keys)
  <2>1. t \in ZKAppCommand(Foreign) \cup LegacyDocument(Keys)
    BY ChainAssumption
  <2>2. CASE t.tag = "Legacy"
    <3>1. t \in LegacyDocument(Keys)
      BY <2>1, <2>2 DEF ZKAppCommand
    <3> QED BY <3>1, <2>2, DeserializeType DEF transaction, Readable
  <2>3. CASE t.tag # "Legacy"
    <3>1. t \in ZKAppCommand(Foreign)
      BY <2>1, <2>3 DEF LegacyDocument
    <3> QED BY <3>1, <2>3 DEF transaction
  <2> QED BY <2>2, <2>3
<1>2. ZKAppCommand(Foreign) \subseteq ZKAppCommand(Authorizations)
  BY CommandsMonotonic DEF Authorizations
<1>3. env \in Envelopes /\ env.tx = tx
  BY <1>1, <1>2 DEF Envelopes, Authorizations
<1>4. to_pallas_message(env) \in Messages
  BY DEF Messages, env
<1> HIDE DEF env, tx
<1>5. ASSUME tx.tag = "ZkApp"
      PROVE  /\ tx.fee_payer.authorization \in Foreign
             /\ \A i \in DOMAIN tx.account_updates : tx.account_updates[i].signature \in Foreign
  <2>1. tx.fee_payer \in FeePayer(Foreign) /\ tx.account_updates \in Seq(AccountUpdate(Foreign))
    BY <1>1, <1>5 DEF ZKAppCommand, LegacyTransaction
  <2>2. \A i \in DOMAIN tx.account_updates : tx.account_updates[i] \in AccountUpdate(Foreign)
    BY <2>1
  <2> QED BY <2>1, <2>2 DEF FeePayer, AccountUpdate
<1>6. PlacesFit(env) /\ Filled(env, {})
  BY <1>3, <1>5 DEF PlacesFit, Filled
<1> QED BY <1>3, <1>4, <1>6 DEF Sound, env, tx

\* What a coordinator reads.
LEMMA ReadingIsSound ==
  ASSUME IInv, NEW f \in Files, NEW n \in Networks, Parses(file[f])
  PROVE  LET env == from_str_network(file[f], try_from(n)) IN
         env \in Envelopes /\ Sound(env, by[f])
<1>1. try_from(n) \in Networks
  BY ChainAssumption DEF try_from
<1>2. file[f] \in Documents /\ file[f] # Missing
  BY DEF IInv, TypeOK, Parses
<1>3. CASE file[f].kind = "signed"
  <2>1. file[f].payload \in Envelopes
    BY <1>2, <1>3 DEF Documents, Missing
  <2> QED BY <2>1, <1>3 DEF IInv, from_str_network
<1>4. CASE file[f].kind # "signed"
  <2>1. file[f].tx \in Transactions /\ Readable(file[f].tx)
    BY <1>2, <1>4 DEF Documents, Parses
  <2>2. by[f] = {}
    BY <1>4 DEF IInv
  <2> QED BY <2>1, <2>2, <1>1, <1>4, FreshIsSound DEF from_str_network
<1> QED BY <1>3, <1>4

LEMMA InitIInv == Init => IInv
<1> SUFFICES ASSUME Init PROVE IInv
  OBVIOUS
<1>1. /\ file \in [Files -> Documents]
      /\ \A f \in Files : file[f].kind # "signed"
  BY DEF Init, Documents, Missing
<1>2. TypeOK
  BY <1>1, ChainAssumption DEF Init, TypeOK
<1>3. SignaturesFit
  BY <1>1 DEF Init, SignaturesFit
<1> QED BY <1>1, <1>2, <1>3 DEF Init, IInv

\* The part of IInv about one coordinator, one file and the request.
CoSound(c) ==
  co[c] # Idle =>
    /\ Sound(co[c].envelope, co[c].by)
    /\ co[c].signature # NoSignature =>
         /\ Hashable(co[c].envelope)
         /\ co[c].signature = SignatureOf(co[c].group, co[c].envelope)
FileSound(f) ==
  IF file[f].kind = "signed"
  THEN /\ by[f] # {} /\ Sound(file[f].payload, by[f])
       /\ file[f].signature = SignatureOf(file[f].publicKey, file[f].payload)
  ELSE by[f] = {}
RequestSound ==
  request # NoRequest =>
    /\ Sound(request.envelope, request.by) /\ request.by # {}
    /\ request.signature.msg = to_pallas_message(request.envelope)

LEMMA IInvParts ==
  IInv <=> /\ TypeOK /\ RequestSound
           /\ \A c \in Coordinators : CoSound(c)
           /\ \A f \in Files : FileSound(f)
BY DEF IInv, SignaturesFit, CoSound, FileSound, RequestSound, Sound

LEMMA NextIInv == IInv /\ [Next]_vars => IInv'
<1> SUFFICES ASSUME IInv, [Next]_vars PROVE IInv'
  OBVIOUS
<1> USE DEF TypeOK
<1>1. /\ TypeOK /\ RequestSound
      /\ \A c \in Coordinators : CoSound(c)
      /\ \A f \in Files : FileSound(f)
  BY IInvParts
<1>2. SUFFICES TypeOK' /\ RequestSound'
               /\ (\A c \in Coordinators : CoSound(c)')
               /\ (\A f \in Files : FileSound(f)')
  BY DEF IInv, SignaturesFit, CoSound, FileSound, RequestSound, Sound
<1>3. ASSUME NEW c \in Coordinators, NEW g \in Groups, NEW f \in Files, NEW n \in Networks,
             run(c, g, f, n)
      PROVE  TypeOK' /\ RequestSound' /\ (\A d \in Coordinators : CoSound(d)')
             /\ (\A e \in Files : FileSound(e)')
  <2> DEFINE env == from_str_network(file[f], try_from(n))
             new == [group |-> g, network |-> n, signature |-> NoSignature, by |-> by[f],
                     envelope |-> env]
  <2>1. env \in Envelopes /\ Sound(env, by[f])
    BY <1>3, ReadingIsSound DEF run
  <2>2. by[f] \in SUBSET Groups
    BY <1>1
  <2> HIDE DEF env
  <2>3. new \in Runs
    BY <2>1, <2>2 DEF Runs
  <2>4. co' = [co EXCEPT ![c] = new] /\ runs' = runs + 1 /\ runs < MaxRuns
        /\ UNCHANGED <<file, by, request>>
    BY <1>3 DEF run, env
  <2>5. TypeOK'
    <3> HIDE DEF new
    <3> QED BY <1>1, <2>3, <2>4, ChainAssumption
  <2>6. ASSUME NEW d \in Coordinators PROVE CoSound(d)'
    <3>1. CASE d = c
      <4>1. co'[c] = new
        BY <2>4, <1>1
      <4> QED BY <3>1, <4>1, <2>1 DEF CoSound
    <3>2. CASE d # c
      <4>1. co'[d] = co[d]
        BY <3>2, <2>4, <1>1
      <4> QED BY <4>1, <1>1 DEF CoSound
    <3> QED BY <3>1, <3>2
  <2>7. RequestSound' /\ \A e \in Files : FileSound(e)'
    BY <2>4, <1>1 DEF RequestSound, FileSound
  <2> QED BY <2>5, <2>6, <2>7
<1>4. ASSUME NEW c \in Coordinators, coordinate_signing(c)
      PROVE  TypeOK' /\ RequestSound' /\ (\A d \in Coordinators : CoSound(d)')
             /\ (\A e \in Files : FileSound(e)')
  <2> DEFINE new == [co[c] EXCEPT !.signature = SignatureOf(co[c].group, co[c].envelope)]
  <2>1. co[c] \in Runs /\ Sound(co[c].envelope, co[c].by) /\ Hashable(co[c].envelope)
    BY <1>1, <1>4 DEF coordinate_signing, CoSound
  <2>2. SignatureOf(co[c].group, co[c].envelope) \in Signatures
    BY <2>1 DEF Runs, Sound, SignatureOf, Signatures
  <2>3. co' = [co EXCEPT ![c] = new] /\ UNCHANGED <<file, by, runs, request>>
    BY <1>4, <1>1 DEF coordinate_signing, SignatureOf
  <2>4. /\ new \in Runs /\ new.envelope = co[c].envelope /\ new.by = co[c].by
        /\ new.group = co[c].group
        /\ new.signature = SignatureOf(co[c].group, co[c].envelope)
    BY <2>1, <2>2 DEF Runs
  <2> HIDE DEF new
  <2>5. TypeOK'
    BY <1>1, <2>3, <2>4
  <2>6. ASSUME NEW d \in Coordinators PROVE CoSound(d)'
    <3>1. CASE d = c
      <4>1. co'[c] = new
        BY <2>3, <1>1
      <4> QED BY <3>1, <4>1, <2>1, <2>4 DEF CoSound
    <3>2. CASE d # c
      <4>1. co'[d] = co[d]
        BY <3>2, <2>3, <1>1
      <4> QED BY <4>1, <1>1 DEF CoSound
    <3> QED BY <3>1, <3>2
  <2>7. RequestSound' /\ \A e \in Files : FileSound(e)'
    BY <2>3, <1>1 DEF RequestSound, FileSound
  <2> QED BY <2>5, <2>6, <2>7
<1>5. ASSUME NEW c \in Coordinators, co' = [co EXCEPT ![c] = Idle]
      PROVE  \A d \in Coordinators : co' \in [Coordinators -> Runs \cup {Idle}] /\ CoSound(d)'
  <2>1. ASSUME NEW d \in Coordinators PROVE co'[d] \in {co[d], Idle}
    BY <1>1, <1>5
  <2>2. ASSUME NEW d \in Coordinators PROVE CoSound(d)'
    BY <2>1, <1>1 DEF CoSound
  <2> QED BY <1>1, <1>5, <2>2
<1>6. ASSUME NEW c \in Coordinators, End(c)
      PROVE  TypeOK' /\ RequestSound' /\ (\A d \in Coordinators : CoSound(d)')
             /\ (\A e \in Files : FileSound(e)')
  <2>1. RequestSound' /\ \A e \in Files : FileSound(e)'
    BY <1>6, <1>1 DEF End, RequestSound, FileSound
  <2> QED BY <2>1, <1>1, <1>5, <1>6 DEF End
<1>7. ASSUME NEW c \in Coordinators, NEW out \in Files, save_signature(c, out)
      PROVE  TypeOK' /\ RequestSound' /\ (\A d \in Coordinators : CoSound(d)')
             /\ (\A e \in Files : FileSound(e)')
  <2> DEFINE doc == new_with_zkapp_injection(co[c].group, co[c].signature, co[c].envelope)
  <2>1. /\ co[c] \in Runs /\ Sound(co[c].envelope, co[c].by) /\ Hashable(co[c].envelope)
        /\ co[c].signature = SignatureOf(co[c].group, co[c].envelope)
    BY <1>1, <1>7 DEF save_signature, CoSound
  <2>2. co[c].envelope \in Envelopes /\ co[c].group \in Groups /\ co[c].by \in SUBSET Groups
    BY <2>1 DEF Runs
  <2>3. /\ doc \in Documents /\ doc.kind = "signed"
        /\ doc.signature = SignatureOf(doc.publicKey, doc.payload)
        /\ Sound(doc.payload, co[c].by \cup {co[c].group})
    <3>1. doc = new_with_zkapp_injection(co[c].group, SignatureOf(co[c].group, co[c].envelope),
                                         co[c].envelope)
      BY <2>1
    <3> HIDE DEF doc
    <3> QED BY <2>1, <2>2, <3>1, SessionKeepsSound
  <2>4. /\ file' = [file EXCEPT ![out] = doc]
        /\ by' = [by EXCEPT ![out] = co[c].by \cup {co[c].group}]
        /\ co' = [co EXCEPT ![c] = Idle] /\ UNCHANGED <<runs, request>>
    BY <1>7 DEF save_signature
  <2> HIDE DEF doc
  <2>5. TypeOK'
    BY <1>1, <1>5, <2>2, <2>3, <2>4
  <2>6. ASSUME NEW e \in Files PROVE FileSound(e)'
    <3>1. CASE e = out
      <4>1. file'[out] = doc /\ by'[out] = co[c].by \cup {co[c].group}
        BY <2>4, <1>1
      <4> QED BY <3>1, <4>1, <2>3 DEF FileSound
    <3>2. CASE e # out
      <4>1. file'[e] = file[e] /\ by'[e] = by[e]
        BY <3>2, <2>4, <1>1
      <4> QED BY <4>1, <1>1 DEF FileSound
    <3> QED BY <3>1, <3>2
  <2>7. RequestSound'
    BY <2>4, <1>1 DEF RequestSound
  <2> QED BY <2>4, <2>5, <2>6, <2>7, <1>5
<1>8. ASSUME NEW c \in Coordinators, NEW out \in Files, CutShort(c, out)
      PROVE  TypeOK' /\ RequestSound' /\ (\A d \in Coordinators : CoSound(d)')
             /\ (\A e \in Files : FileSound(e)')
  <2>1. Missing \in Documents /\ Missing.kind # "signed"
    BY DEF Documents, Missing
  <2>2. TypeOK'
    BY <1>1, <1>5, <1>8, <2>1 DEF CutShort
  <2>3. ASSUME NEW e \in Files PROVE FileSound(e)'
    <3>1. \/ file'[e] = file[e] /\ by'[e] = by[e]
          \/ file'[e] = Missing /\ by'[e] = {}
      BY <1>1, <1>8 DEF CutShort
    <3> QED BY <3>1, <2>1, <1>1 DEF FileSound
  <2>4. RequestSound'
    BY <1>8, <1>1 DEF CutShort, RequestSound
  <2> QED BY <2>2, <2>3, <2>4, <1>5, <1>8 DEF CutShort
<1>9. ASSUME NEW f \in Files, graphql_build_command(f)
      PROVE  TypeOK' /\ RequestSound' /\ (\A d \in Coordinators : CoSound(d)')
             /\ (\A e \in Files : FileSound(e)')
  <2>1. /\ file[f].payload \in Envelopes /\ file[f].signature \in Signatures
        /\ by[f] \in SUBSET Groups
    BY <1>1, <1>9 DEF graphql_build_command, Documents, Missing
  <2>2. /\ request' = [envelope |-> file[f].payload, signature |-> file[f].signature,
                       by |-> by[f]]
        /\ UNCHANGED <<file, by, co, runs>>
    BY <1>9 DEF graphql_build_command
  <2>3. TypeOK'
    BY <1>1, <2>1, <2>2 DEF Requests
  <2>4. RequestSound'
    <3>1. /\ by[f] # {} /\ Sound(file[f].payload, by[f])
          /\ file[f].signature = SignatureOf(file[f].publicKey, file[f].payload)
      BY <1>1, <1>9 DEF graphql_build_command, FileSound
    <3>2. file[f].signature.msg = to_pallas_message(file[f].payload)
      BY <3>1 DEF SignatureOf
    <3>3. /\ request'.envelope = file[f].payload /\ request'.by = by[f]
          /\ request'.signature = file[f].signature
      BY <2>2
    <3>4. Sound(request'.envelope, request'.by)
      BY <3>1, <3>3
    <3> QED BY <3>1, <3>2, <3>3, <3>4 DEF RequestSound
  <2>5. (\A d \in Coordinators : CoSound(d)') /\ (\A e \in Files : FileSound(e)')
    BY <2>2, <1>1 DEF CoSound, FileSound
  <2> QED BY <2>3, <2>4, <2>5
<1>10. CASE UNCHANGED vars
  BY <1>1, <1>10 DEF vars, RequestSound, CoSound, FileSound
<1> QED BY <1>3, <1>4, <1>6, <1>7, <1>8, <1>9, <1>10 DEF Next

(* The inductive invariant: types, and that every envelope a file, a       *)
(* coordinator or the request holds is sound for the sessions behind it.   *)
THEOREM InductiveInvariant == Spec => []IInv
BY InitIInv, NextIInv, PTL DEF Spec

(* Whatever sessions run on whatever files, a signature that a session has *)
(* put in or beside a command (inject_signature, new_with_zkapp_injection) *)
(* is the one of that place's key on the command and network as they are.  *)
THEOREM SignaturesAlwaysFit == Spec => []SignaturesFit
<1>1. IInv => SignaturesFit
  BY DEF IInv
<1> QED BY <1>1, InductiveInvariant, PTL

(* When all the groups named have had their session, the request verifies. *)
THEOREM CompleteChainVerifies == Spec => []ChainVerifies
<1>1. IInv => ChainVerifies
  <2> DEFINE env == request.envelope
  <2> SUFFICES ASSUME IInv, request # NoRequest
               PROVE ChainVerifies
    BY DEF ChainVerifies
  <2>1. /\ Sound(env, request.by) /\ Hashable(env)
        /\ request.signature.msg = to_pallas_message(env)
    BY DEF IInv, Sound
  <2>2. CASE env.tx.tag = "ZkApp" /\ SignersOf(env.tx) \subseteq request.by
    <3>1. /\ env.tx.fee_payer.body.public_key \in request.by
          /\ \A i \in DOMAIN env.tx.account_updates :
               Fillable(env.tx.account_updates[i].body) =>
                 env.tx.account_updates[i].body.public_key \in request.by
      BY <2>2 DEF SignersOf
    <3>2. Verifies(env, request.signature)
      BY <2>1, <2>2, <3>1 DEF Sound, Filled, Hashable, Verifies
    <3> QED BY <3>2 DEF ChainVerifies
  <2>3. CASE env.tx.tag # "ZkApp" /\ request.signature.key = env.tx.source_pk
    <3>1. request \in Requests
      BY DEF IInv, TypeOK
    <3>2. env.tx.tag = "Legacy" /\ request.signature \in Signatures
      BY <3>1, <2>3 DEF Requests, Envelopes, ZKAppCommand, LegacyTransaction
    <3>3. request.signature = [key |-> env.tx.source_pk, msg |-> to_pallas_message(env)]
      BY <3>2, <2>1, <2>3 DEF Signatures
    <3> QED BY <3>2, <3>3 DEF ChainVerifies, Verifies, SignatureOf
  <2> QED BY <2>2, <2>3 DEF ChainVerifies
<1> QED BY <1>1, InductiveInvariant, PTL
-------------------------------------------------------------------------------
(* Legacy transactions in their three forms.                               *)

\* The memo of a transaction gives the text back, and the node's is the same.
LEMMA MemoOfText ==
  ASSUME NEW text \in Seq(Byte), memo_fits(text)
  PROVE  /\ set_memo_str(text)[2] = Len(text)
         /\ SubSeq(set_memo_str(text), 3, 2 + Len(text)) = text
         /\ NodeMemo(text) = set_memo_str(text)
<1> DEFINE n == Len(text)
           memo == set_memo_str(text)
           zeros == [i \in 1..(MEMO_BYTES - 2 - n) |-> 0]
<1>1. n \in Nat /\ DOMAIN text = 1..n /\ \A i \in 1..n : text[i] \in Byte
  BY LenProperties, ElementOfSeq
<1>2. n <= MEMO_BYTES - 2 /\ MEMO_BYTES \in Nat
  BY MemoAssumption DEF memo_fits
<1>3. memo = [i \in 1..MEMO_BYTES |->
                IF i = 1 THEN 1 ELSE IF i = 2 THEN n ELSE IF i - 2 <= n THEN text[i - 2] ELSE 0]
  BY DEF set_memo_str
<1> HIDE DEF memo, n
<1>4. memo[2] = n
  BY <1>1, <1>2, <1>3
<1>5. \A i \in 1..n : memo[i + 2] = text[i]
  <2> TAKE i \in 1..n
  <2>1. i + 2 \in 1..MEMO_BYTES /\ i + 2 # 1 /\ i + 2 # 2 /\ (i + 2) - 2 = i /\ i <= n
    BY <1>1, <1>2
  <2> QED BY <2>1, <1>3
<1>6. SubSeq(memo, 3, 2 + n) = text
  <2> DEFINE sub == SubSeq(memo, 3, 2 + n)
  <2>1. \A i \in 3..(2 + n) : memo[i] \in Byte
    <3> TAKE i \in 3..(2 + n)
    <3>1. i - 2 \in 1..n /\ (i - 2) + 2 = i
      BY <1>1
    <3> QED BY <3>1, <1>1, <1>5
  <2>2. /\ sub \in Seq(Byte)
        /\ Len(sub) = IF 3 <= 2 + n THEN (2 + n) - 3 + 1 ELSE 0
        /\ \A i \in 1..((2 + n) - 3 + 1) : sub[i] = memo[3 + i - 1]
    <3>1. 3 \in Int /\ 2 + n \in Int
      BY <1>1
    <3> QED BY <2>1, <3>1, SubSeqProperties
  <2> HIDE DEF sub
  <2>3. Len(sub) = n
    BY <2>2, <1>1
  <2>4. \A i \in 1..n : sub[i] = text[i]
    <3> TAKE i \in 1..n
    <3>1. i \in 1..((2 + n) - 3 + 1) /\ 3 + i - 1 = i + 2
      BY <1>1
    <3> QED BY <3>1, <2>2, <1>5
  <2>5. sub = text
    BY <2>2, <2>3, <2>4, SeqEqual DEF n
  <2> QED BY <2>5 DEF sub
<1>7. NodeMemo(text) = memo
  <2> DEFINE head == <<1, n>>
             tail == head \o text
             whole == tail \o zeros
             rest == MEMO_BYTES - 2 - n
  <2>1. head \in Seq(Nat) /\ Len(head) = 2 /\ head[1] = 1 /\ head[2] = n
    BY <1>1
  <2>2. text \in Seq(Nat)
    <3>1. Byte \subseteq Nat
      BY DEF Byte
    <3> QED BY <3>1, SeqMonotonic, Zenon
  <2>3. rest \in Nat /\ zeros \in Seq(Nat) /\ Len(zeros) = rest
        /\ \A i \in 1..rest : zeros[i] = 0
    <3>1. rest \in Nat
      BY <1>1, <1>2
    <3> HIDE DEF rest
    <3>2. zeros = [i \in 1..rest |-> 0]
      BY DEF rest, n
    <3> HIDE DEF zeros
    <3> QED BY <3>1, <3>2
  <2> HIDE DEF head, zeros
  <2>4. /\ tail \in Seq(Nat) /\ Len(tail) = 2 + n
        /\ \A i \in 1..(2 + n) : tail[i] = IF i <= 2 THEN head[i] ELSE text[i - 2]
    <3>1. /\ head \o text \in Seq(Nat) /\ Len(head \o text) = Len(head) + Len(text)
          /\ \A i \in 1..(Len(head) + Len(text)) :
               (head \o text)[i] = IF i <= Len(head) THEN head[i] ELSE text[i - Len(head)]
      BY <2>1, <2>2, ConcatProperties, Zenon
    <3> QED BY <3>1, <2>1 DEF n, tail
  <2> HIDE DEF tail, rest
  <2>5. /\ whole \in Seq(Nat) /\ Len(whole) = (2 + n) + rest
        /\ \A i \in 1..((2 + n) + rest) :
             whole[i] = IF i <= 2 + n THEN tail[i] ELSE zeros[i - (2 + n)]
    <3>1. /\ tail \o zeros \in Seq(Nat) /\ Len(tail \o zeros) = Len(tail) + Len(zeros)
          /\ \A i \in 1..(Len(tail) + Len(zeros)) :
               (tail \o zeros)[i] = IF i <= Len(tail) THEN tail[i] ELSE zeros[i - Len(tail)]
      BY <2>3, <2>4, ConcatProperties, Zenon
    <3> QED BY <3>1, <2>3, <2>4 DEF whole
  <2>6. NodeMemo(text) = whole
    BY DEF NodeMemo, whole, tail, head, zeros, n
  <2> HIDE DEF whole
  <2>7. Len(whole) = MEMO_BYTES
    BY <2>5, <1>1, <1>2 DEF rest
  <2>8. \A i \in 1..MEMO_BYTES : whole[i] = memo[i]
    <3> TAKE i \in 1..MEMO_BYTES
    <3>1. i \in 1..((2 + n) + rest)
      BY <1>1, <1>2 DEF rest
    <3>2. CASE i = 1 \/ i = 2
      BY <3>1, <3>2, <2>1, <2>4, <2>5, <1>1, <1>3
    <3>3. CASE i > 2 /\ i - 2 <= n
      BY <3>1, <3>3, <2>4, <2>5, <1>1, <1>3, SMTT(30)
    <3>4. CASE i > 2 /\ ~(i - 2 <= n)
      <4>1. i - (2 + n) \in 1..rest /\ ~(i <= 2 + n)
        BY <3>4, <1>1, <1>2 DEF rest
      <4> QED BY <3>1, <3>4, <4>1, <2>3, <2>5, <1>3
    <3> QED BY <3>2, <3>3, <3>4, <1>2
  <2>9. DOMAIN memo = 1..MEMO_BYTES /\ DOMAIN whole = 1..MEMO_BYTES
    BY <2>5, <2>7, <1>3, LenProperties
  <2>10. whole = memo
    <3>1. memo = [i \in 1..MEMO_BYTES |-> memo[i]]
      BY <1>3
    <3>2. whole = [i \in 1..MEMO_BYTES |-> whole[i]]
      BY <2>5, <2>7, LenProperties
    <3> QED BY <3>1, <3>2, <2>8
  <2> QED BY <2>6, <2>10
<1> QED BY <1>4, <1>6, <1>7 DEF memo, n

\* The members of what is read of a document.
LEMMA DeserializeMembers ==
  ASSUME NEW keys, NEW document \in LegacyDocument(keys), readable(document)
  PROVE  LET tx == deserialize(document) IN
         /\ tx \in LegacyTransaction(keys)
         /\ tx.tag = "Legacy" /\ tx.kind = document.kind
         /\ tx.source_pk = document.from /\ tx.receiver_pk = document.to
         /\ tx.fee_payer_pk = document.from
         /\ tx.fee = document.fee /\ tx.fee_token = 1 /\ tx.nonce = document.nonce
         /\ tx.valid_until = document.valid_until /\ tx.memo = set_memo_str(document.memo)
         /\ tx.token_id = 1 /\ tx.token_locked = FALSE
         /\ tx.amount = IF document.kind = DELEGATION_TX_TAG THEN 0 ELSE document.amount[1]
         /\ document.kind \in {PAYMENT_TX_TAG, DELEGATION_TX_TAG}
         /\ document.amount = IF document.kind = DELEGATION_TX_TAG THEN <<>> ELSE <<tx.amount>>
<1> DEFINE tx == deserialize(document)
           new == IF document.kind = DELEGATION_TX_TAG
                  THEN new_delegation(document.from, document.to, document.fee, document.nonce)
                  ELSE new_payment(document.from, document.to, document.amount[1],
                                   document.fee, document.nonce)
<1>1. tx \in LegacyTransaction(keys) /\ tx.tag = "Legacy"
  BY DeserializeType
<1>2. tx = [new EXCEPT !.memo = set_memo_str(document.memo),
                       !.valid_until = document.valid_until]
  BY DEF deserialize
<1>3. document.kind \in {PAYMENT_TX_TAG, DELEGATION_TX_TAG}
  BY DEF readable
<1>4. PAYMENT_TX_TAG # DELEGATION_TX_TAG
  BY DEF PAYMENT_TX_TAG, DELEGATION_TX_TAG
<1>5. /\ new.kind = document.kind
      /\ new.source_pk = document.from /\ new.receiver_pk = document.to
      /\ new.fee_payer_pk = document.from
      /\ new.fee = document.fee /\ new.fee_token = 1 /\ new.nonce = document.nonce
      /\ new.token_id = 1 /\ new.token_locked = FALSE
      /\ new.amount = IF document.kind = DELEGATION_TX_TAG THEN 0 ELSE document.amount[1]
      /\ DOMAIN new = {"tag", "kind", "source_pk", "receiver_pk", "fee_payer_pk", "fee",
                       "fee_token", "nonce", "valid_until", "memo", "token_id", "amount",
                       "token_locked"}
  <2>1. CASE document.kind = DELEGATION_TX_TAG
    BY <2>1 DEF new_delegation, NewTransaction
  <2>2. CASE document.kind = PAYMENT_TX_TAG
    BY <2>2, <1>4 DEF new_payment, NewTransaction
  <2> QED BY <2>1, <2>2, <1>3
<1>6. document.amount = IF document.kind = DELEGATION_TX_TAG THEN <<>> ELSE <<new.amount>>
  <2>1. CASE document.kind = DELEGATION_TX_TAG
    BY <2>1, <1>4 DEF readable
  <2>2. CASE document.kind = PAYMENT_TX_TAG
    <3>1. document.amount \in Seq(Nat) /\ Len(document.amount) <= 1 /\ document.amount # <<>>
      BY <2>2, <1>4 DEF readable, LegacyDocument, Optional
    <3>2. Len(document.amount) = 1
      <4> DEFINE n == Len(document.amount)
      <4>1. n \in Nat \ {0} /\ n <= 1
        BY <3>1, EmptySeq, Zenon
      <4> HIDE DEF n
      <4>2. n = 1
        BY <4>1
      <4> QED BY <4>2 DEF n
    <3>3. document.amount = <<document.amount[1]>>
      BY <3>1, <3>2
    <3> QED BY <3>3, <2>2, <1>4, <1>5
  <2> QED BY <2>1, <2>2, <1>3
<1> HIDE DEF new, tx
<1>7. /\ tx.kind = new.kind /\ tx.source_pk = new.source_pk
      /\ tx.receiver_pk = new.receiver_pk /\ tx.fee_payer_pk = new.fee_payer_pk
      /\ tx.fee = new.fee /\ tx.fee_token = new.fee_token /\ tx.nonce = new.nonce
      /\ tx.token_id = new.token_id /\ tx.token_locked = new.token_locked
      /\ tx.amount = new.amount
      /\ tx.memo = set_memo_str(document.memo) /\ tx.valid_until = document.valid_until
  BY <1>2, <1>5
<1> QED BY <1>1, <1>3, <1>5, <1>6, <1>7 DEF tx

\* What is written of a transaction that was read is the document again.
LEMMA WrittenAsRead ==
  ASSUME NEW keys, NEW document \in LegacyDocument(keys), readable(document)
  PROVE  serialize(deserialize(document)) = document
<1> DEFINE tx == deserialize(document)
<1>1. /\ tx.kind = document.kind
      /\ tx.source_pk = document.from /\ tx.receiver_pk = document.to
      /\ tx.fee = document.fee /\ tx.nonce = document.nonce
      /\ tx.valid_until = document.valid_until /\ tx.memo = set_memo_str(document.memo)
      /\ document.amount = IF document.kind = DELEGATION_TX_TAG THEN <<>> ELSE <<tx.amount>>
  BY DeserializeMembers
<1>2. document.memo \in Seq(Byte) /\ memo_fits(document.memo)
  BY DEF LegacyDocument, readable
<1> HIDE DEF tx
<1>3. get_memo_string(tx) = document.memo
  BY <1>1, <1>2, MemoOfText DEF get_memo_string
<1>4. serialize(tx) =
        [tag |-> "Legacy", kind |-> document.kind, from |-> document.from,
         to |-> document.to, fee |-> document.fee, amount |-> document.amount,
         nonce |-> document.nonce, valid_until |-> document.valid_until,
         memo |-> document.memo]
  BY <1>1, <1>3 DEF serialize
<1>5. document =
        [tag |-> "Legacy", kind |-> document.kind, from |-> document.from,
         to |-> document.to, fee |-> document.fee, amount |-> document.amount,
         nonce |-> document.nonce, valid_until |-> document.valid_until,
         memo |-> document.memo]
  BY DEF LegacyDocument
<1> QED BY <1>4, <1>5 DEF tx

\* The node builds what was read of the document, whatever nonce it expects.
LEMMA NodeBuildsTheSame ==
  ASSUME NEW keys, NEW document \in LegacyDocument(keys), readable(document), NEW next_nonce
  PROVE  Submitted(to_graphql_query_json(deserialize(document)), next_nonce)
           = deserialize(document)
<1> DEFINE tx == deserialize(document)
           input == to_graphql_query_json(tx)
           built == Submitted(input, next_nonce)
<1>1. /\ tx \in LegacyTransaction(keys)
      /\ tx.tag = "Legacy" /\ tx.kind = document.kind
      /\ tx.source_pk = document.from /\ tx.fee_payer_pk = document.from
      /\ tx.fee_token = 1 /\ tx.memo = set_memo_str(document.memo)
      /\ tx.token_id = 1 /\ tx.token_locked = FALSE
      /\ tx.amount = IF document.kind = DELEGATION_TX_TAG THEN 0 ELSE document.amount[1]
      /\ document.kind \in {PAYMENT_TX_TAG, DELEGATION_TX_TAG}
  BY DeserializeMembers
<1>2. document.memo \in Seq(Byte) /\ memo_fits(document.memo)
  BY DEF LegacyDocument, readable
<1> HIDE DEF tx
<1>3. get_memo_string(tx) = document.memo /\ NodeMemo(document.memo) = tx.memo
  BY <1>1, <1>2, MemoOfText DEF get_memo_string
<1>4. /\ input.mutation = IF tx.kind = DELEGATION_TX_TAG THEN "sendDelegation" ELSE "sendPayment"
      /\ input.from = tx.source_pk /\ input.to = tx.receiver_pk /\ input.fee = tx.fee
      /\ input.nonce = <<tx.nonce>> /\ input.validUntil = <<tx.valid_until>>
      /\ input.memo = <<document.memo>>
      /\ input.amount = IF tx.kind = DELEGATION_TX_TAG THEN <<>> ELSE <<tx.amount>>
  <2>1. CASE tx.kind = DELEGATION_TX_TAG
    BY <2>1, <1>3 DEF to_graphql_query_json, is_delegation, SendDelegationInput
  <2>2. CASE tx.kind # DELEGATION_TX_TAG
    BY <2>2, <1>3 DEF to_graphql_query_json, is_delegation, SendPaymentInput
  <2> QED BY <2>1, <2>2
<1> HIDE DEF input
<1>5. \A x, d : Given(<<x>>, d) = x /\ Given(<<>>, d) = d
  BY DEF Given
<1>6. /\ Given(input.nonce, next_nonce) = tx.nonce
      /\ Given(input.validUntil, NoExpiry) = tx.valid_until
      /\ NodeMemo(Given(input.memo, <<>>)) = tx.memo
  BY <1>3, <1>4, <1>5
<1>7. Given(input.amount, 0) = tx.amount
  BY <1>1, <1>4, <1>5
<1>8. (IF input.mutation = "sendDelegation" THEN DELEGATION_TX_TAG ELSE PAYMENT_TX_TAG) = tx.kind
  BY <1>1, <1>4
<1>9. built =
        [tag |-> "Legacy", kind |-> tx.kind, source_pk |-> tx.source_pk,
         receiver_pk |-> tx.receiver_pk, fee_payer_pk |-> tx.source_pk, fee |-> tx.fee,
         fee_token |-> 1, nonce |-> tx.nonce, valid_until |-> tx.valid_until,
         memo |-> tx.memo, token_id |-> 1, amount |-> tx.amount, token_locked |-> FALSE]
  BY <1>4, <1>6, <1>7, <1>8 DEF Submitted
<1>10. tx =
        [tag |-> "Legacy", kind |-> tx.kind, source_pk |-> tx.source_pk,
         receiver_pk |-> tx.receiver_pk, fee_payer_pk |-> tx.source_pk, fee |-> tx.fee,
         fee_token |-> 1, nonce |-> tx.nonce, valid_until |-> tx.valid_until,
         memo |-> tx.memo, token_id |-> 1, amount |-> tx.amount, token_locked |-> FALSE]
  BY <1>1 DEF LegacyTransaction
<1> QED BY <1>9, <1>10 DEF built, input, tx

\* Transactions of which the same is hashed are the same.
LEMMA InputTellsTransaction ==
  ASSUME NEW keys, NEW tx \in LegacyTransaction(keys), NEW other \in LegacyTransaction(keys),
         to_roinput(tx) = to_roinput(other)
  PROVE  tx = other
<1>1. /\ tx.fee_payer_pk = other.fee_payer_pk /\ tx.source_pk = other.source_pk
      /\ tx.receiver_pk = other.receiver_pk /\ tx.fee = other.fee
      /\ tx.fee_token = other.fee_token /\ tx.nonce = other.nonce
      /\ tx.valid_until = other.valid_until /\ tx.memo = other.memo
      /\ tx.kind = other.kind /\ tx.token_id = other.token_id
      /\ tx.amount = other.amount /\ tx.token_locked = other.token_locked
  BY DEF to_roinput
<1> QED BY <1>1 DEF LegacyTransaction

\* The transaction of a sound envelope was read of what somebody wrote.
LEMMA SoundIsRead ==
  ASSUME NEW env \in Envelopes, NEW groups, Sound(env, groups), env.tx.tag = "Legacy"
  PROVE  \E document \in LegacyDocument(Keys) :
           readable(document) /\ env.tx = deserialize(document)
<1>1. PICK n \in Networks, t \in {u \in Transactions : Readable(u)} :
        to_pallas_message(env) = to_pallas_message([network |-> n, tx |-> transaction(t)])
  BY DEF Sound, Messages
<1> DEFINE read == [network |-> n, tx |-> transaction(t)]
<1>2. read.tx = transaction(t)
  OBVIOUS
<1> HIDE DEF read
<1>3. read.tx.tag = "Legacy" /\ to_roinput(env.tx) = to_roinput(read.tx)
  <2>1. to_pallas_message(env) = <<env.network, "Legacy", to_roinput(env.tx)>>
    BY DEF to_pallas_message
  <2>2. to_pallas_message(env) = to_pallas_message(read)
    BY <1>1 DEF read
  <2>3. /\ read.tx.tag = "Legacy"
        /\ to_roinput(env.tx) = IF read.tx.tag = "ZkApp" THEN zk_commit(read.tx, read.network)
                                ELSE to_roinput(read.tx)
    BY <2>1, <2>2 DEF to_pallas_message
  <2> QED BY <2>3
<1>4. t.tag = "Legacy"
  BY <1>2, <1>3 DEF transaction
<1>5. t \in LegacyDocument(Keys) /\ readable(t) /\ read.tx = deserialize(t)
  <2>1. t \in ZKAppCommand(Foreign) \cup LegacyDocument(Keys)
    BY ChainAssumption
  <2> QED BY <2>1, <1>2, <1>4 DEF ZKAppCommand, Readable, transaction
<1>6. read.tx \in LegacyTransaction(Keys)
  BY <1>5, DeserializeType
<1>7. env.tx \in LegacyTransaction(Keys)
  BY DEF Envelopes, ZKAppCommand
<1>8. env.tx = read.tx
  BY <1>3, <1>6, <1>7, InputTellsTransaction
<1> QED BY <1>5, <1>8

\* A file that a session has written.
LEMMA OutputIsSound ==
  ASSUME IInv, NEW f \in Outputs
  PROVE  /\ file[f].payload \in Envelopes
         /\ file[f].signature.msg = to_pallas_message(file[f].payload)
         /\ Sound(file[f].payload, by[f]) /\ Hashable(file[f].payload)
<1>1. f \in Files /\ file[f].kind = "signed"
  BY DEF Outputs
<1>2. file[f] \in Documents
  BY <1>1 DEF IInv, TypeOK
<1>3. file[f].payload \in Envelopes
  BY <1>1, <1>2 DEF Documents, Missing
<1>4. Sound(file[f].payload, by[f]) /\ by[f] # {}
  BY <1>1 DEF IInv
<1>5. file[f].signature.msg = to_pallas_message(file[f].payload)
  <2>1. file[f].signature = SignatureOf(file[f].publicKey, file[f].payload)
    BY <1>1 DEF IInv, SignaturesFit
  <2> QED BY <2>1 DEF SignatureOf
<1> QED BY <1>3, <1>4, <1>5 DEF Sound

LEMMA OutputIsRead ==
  ASSUME IInv, NEW f \in LegacyOutputs
  PROVE  \E document \in LegacyDocument(Keys) :
           readable(document) /\ file[f].payload.tx = deserialize(document)
BY OutputIsSound, SoundIsRead DEF LegacyOutputs

(* Whatever is written of a signed transaction (serialize) is read as the  *)
(* same transaction (deserialize), so that everybody who gets the file or  *)
(* the message of a session hashes what was signed.                        *)
THEOREM OutputsReadBack == Spec => []SavedReadsBack
<1>1. IInv => SavedReadsBack
  <2> SUFFICES ASSUME IInv, NEW f \in LegacyOutputs
               PROVE  LET tx == file[f].payload.tx
                      IN readable(serialize(tx)) /\ deserialize(serialize(tx)) = tx
    BY DEF SavedReadsBack
  <2>1. PICK document \in LegacyDocument(Keys) :
          readable(document) /\ file[f].payload.tx = deserialize(document)
    BY OutputIsRead
  <2>2. serialize(deserialize(document)) = document
    BY <2>1, WrittenAsRead
  <2> QED BY <2>1, <2>2
<1> QED BY <1>1, InductiveInvariant, PTL

-------------------------------------------------------------------------------
(* The forest of calls.                                                    *)

\* What is put in front of a sequence can be told from the result.
Sequence(t) == \E S : t \in Seq(S)

LEMMA InFront ==
  ASSUME NEW s, Sequence(s), NEW x
  PROVE  Sequence(<<x>> \o s) /\ <<x>> \o s # <<>>
<1>1. PICK S : s \in Seq(S)
  BY DEF Sequence
<1> DEFINE V == S \cup {x}
<1>2. s \in Seq(V) /\ <<x>> \in Seq(V) /\ Len(<<x>>) = 1
  BY <1>1, SeqMonotonic
<1> HIDE DEF V
<1>3. <<x>> \o s \in Seq(V) /\ Len(<<x>> \o s) = 1 + Len(s) /\ Len(s) \in Nat
  BY <1>2, ConcatProperties, LenProperties
<1> QED BY <1>3, EmptySeq DEF Sequence

LEMMA InFrontApart ==
  ASSUME NEW s, Sequence(s), NEW t, Sequence(t), NEW x, NEW y, <<x>> \o s = <<y>> \o t
  PROVE  x = y /\ s = t
<1>1. PICK S : s \in Seq(S)
  BY DEF Sequence
<1>2. PICK T : t \in Seq(T)
  BY DEF Sequence
<1> DEFINE V == (S \cup T) \cup {x, y}
<1>3. s \in Seq(V) /\ t \in Seq(V) /\ <<x>> \in Seq(V) /\ <<y>> \in Seq(V)
  BY <1>1, <1>2, SeqMonotonic
<1> HIDE DEF V
<1>4. Len(<<x>>) = 1 /\ Len(<<y>>) = 1 /\ Len(s) \in Nat /\ Len(t) \in Nat
  BY <1>3, LenProperties
<1>5. /\ Len(<<x>> \o s) = Len(<<x>>) + Len(s)
      /\ \A i \in 1..(Len(<<x>>) + Len(s)) :
           (<<x>> \o s)[i] = IF i <= Len(<<x>>) THEN <<x>>[i] ELSE s[i - Len(<<x>>)]
  BY <1>3, ConcatProperties, Zenon
<1>6. /\ Len(<<y>> \o t) = Len(<<y>>) + Len(t)
      /\ \A i \in 1..(Len(<<y>>) + Len(t)) :
           (<<y>> \o t)[i] = IF i <= Len(<<y>>) THEN <<y>>[i] ELSE t[i - Len(<<y>>)]
  BY <1>3, ConcatProperties, Zenon
<1>7. x = y
  BY <1>4, <1>5, <1>6
<1>8. <<x>> \o s = <<x>> \o t
  BY <1>7
<1> QED BY <1>3, <1>7, <1>8, ConcatSimplifications, Zenon

\* Updates in the order of the command, with the depths zk_commit accepts.
Descending(b) ==
  /\ Len(b) \in Nat /\ is_call_depth_valid(b)
  /\ \A i \in 1..Len(b) : b[i].call_depth \in Nat

LEMMA NotDeeperThanMany ==
  ASSUME NEW b, Descending(b)
  PROVE  \A i \in 1..Len(b) : b[i].call_depth <= i - 1
<1> DEFINE n == Len(b)
           T == {j \in Nat : j + 1 <= n => b[j + 1].call_depth <= j}
<1>1. n \in Nat /\ \A i \in 1..n : b[i].call_depth \in Nat
  BY DEF Descending
<1>2. /\ 1 <= n => b[1].call_depth = 0
      /\ \A i \in 2..n : b[i].call_depth <= b[i - 1].call_depth + 1
  <2>1. b = <<>> => n = 0
    BY EmptySeq
  <2> QED BY <2>1 DEF Descending, is_call_depth_valid
<1> HIDE DEF n
<1>3. 0 \in T
  BY <1>1, <1>2
<1>4. ASSUME NEW j \in Nat, j \in T PROVE j + 1 \in T
  <2> SUFFICES ASSUME (j + 1) + 1 <= n PROVE b[(j + 1) + 1].call_depth <= j + 1
    OBVIOUS
  <2>1. (j + 1) + 1 \in 2..n /\ j + 1 \in 1..n /\ (j + 1) + 1 \in 1..n /\ ((j + 1) + 1) - 1 = j + 1
    BY <1>1
  <2>2. b[j + 1].call_depth <= j
    BY <1>4, <1>1
  <2>3. b[(j + 1) + 1].call_depth <= b[j + 1].call_depth + 1
    BY <1>2, <2>1
  <2> DEFINE x == b[(j + 1) + 1].call_depth
             y == b[j + 1].call_depth
  <2>4. x \in Nat /\ y \in Nat /\ x <= y + 1 /\ y <= j
    BY <1>1, <2>1, <2>2, <2>3
  <2> HIDE DEF x, y
  <2>5. x <= j + 1
    BY <2>4
  <2> QED BY <2>5 DEF x
<1>5. Nat \subseteq T
  <2> HIDE DEF T
  <2> QED BY <1>3, <1>4, InductionOverSet
<1>6. ASSUME NEW i \in 1..n PROVE b[i].call_depth <= i - 1
  <2>1. i - 1 \in Nat /\ (i - 1) + 1 = i /\ i <= n
    BY <1>1
  <2>2. i - 1 \in T
    BY <1>5, <2>1
  <2> QED BY <2>1, <2>2
<1> QED BY <1>6 DEF n

-------------------------------------------------------------------------------
\* One step of the descent, and what it returns.
Ends(b, i, d) == i > Len(b) \/ b[i].call_depth < d
Step(b, f, i, d) ==
  IF Ends(b, i, d) THEN [trees |-> <<>>, next |-> i]
  ELSE [trees |-> <<[update |-> pack(b[i]), children |-> f[<<i + 1, d + 1>>].trees]>>
                    \o f[<<f[<<i + 1, d + 1>>].next, d>>].trees,
        next |-> f[<<f[<<i + 1, d + 1>>].next, d>>].next]
Places(b, low) == (low..(Len(b) + 1)) \X (0..Len(b))
Returns(b, r, i, d) ==
  /\ r.next \in i..(Len(b) + 1) /\ Sequence(r.trees)
  /\ r.next <= Len(b) => b[r.next].call_depth < d
IsDescent(f, b, low) ==
  /\ f = [at \in Places(b, low) |-> Step(b, f, at[1], at[2])]
  /\ \A i \in low..(Len(b) + 1), d \in 0..Len(b) :
       f[<<i, d>>] = Step(b, f, i, d) /\ Returns(b, f[<<i, d>>], i, d)

\* A step looks at what comes behind it only.
LEMMA StepLooksBehind ==
  ASSUME NEW b, Descending(b), NEW i \in 1..(Len(b) + 1), NEW d \in 0..Len(b), NEW f,
         \A j \in (i + 1)..(Len(b) + 1), e \in 0..Len(b) : Returns(b, f[<<j, e>>], j, e)
  PROVE  /\ Returns(b, Step(b, f, i, d), i, d)
         /\ ~Ends(b, i, d) =>
              /\ i \in 1..Len(b) /\ i + 1 \in (i + 1)..(Len(b) + 1) /\ d + 1 \in 0..Len(b)
              /\ f[<<i + 1, d + 1>>].next \in (i + 1)..(Len(b) + 1)
              /\ Returns(b, f[<<i + 1, d + 1>>], i + 1, d + 1)
              /\ Returns(b, f[<<f[<<i + 1, d + 1>>].next, d>>], f[<<i + 1, d + 1>>].next, d)
<1> DEFINE n == Len(b)
           children == f[<<i + 1, d + 1>>]
           siblings == f[<<children.next, d>>]
<1>1. n \in Nat /\ \A k \in 1..n : b[k].call_depth \in Nat /\ b[k].call_depth <= k - 1
  BY NotDeeperThanMany DEF Descending
<1>2. CASE Ends(b, i, d)
  <2>1. Step(b, f, i, d) = [trees |-> <<>>, next |-> i]
    BY <1>2 DEF Step
  <2>2. Sequence(<<>>)
    BY EmptySeq DEF Sequence
  <2>3. i <= n => b[i].call_depth < d
    BY <1>1, <1>2 DEF Ends
  <2> QED BY <1>1, <1>2, <2>1, <2>2, <2>3 DEF Returns
<1>3. CASE ~Ends(b, i, d)
  <2>1. i \in 1..n /\ ~(b[i].call_depth < d)
    BY <1>1, <1>3 DEF Ends
  <2>2. i + 1 \in (i + 1)..(n + 1) /\ d + 1 \in 0..n
    BY <1>1, <2>1
  <2>3. Returns(b, children, i + 1, d + 1)
    BY <2>2
  <2> HIDE DEF children
  <2>4. children.next \in (i + 1)..(n + 1)
    BY <2>3 DEF Returns
  <2>5. Returns(b, siblings, children.next, d)
    BY <2>4
  <2> HIDE DEF siblings
  <2> DEFINE tree == [update |-> pack(b[i]), children |-> children.trees]
  <2>6. Step(b, f, i, d) = [trees |-> <<tree>> \o siblings.trees, next |-> siblings.next]
    BY <1>3 DEF Step, children, siblings
  <2> HIDE DEF tree
  <2>7. Sequence(<<tree>> \o siblings.trees)
    BY <2>5, InFront DEF Returns
  <2>8. siblings.next \in i..(n + 1) /\ (siblings.next <= n => b[siblings.next].call_depth < d)
    BY <1>1, <2>4, <2>5 DEF Returns
  <2>9. Returns(b, Step(b, f, i, d), i, d)
    BY <2>6, <2>7, <2>8 DEF Returns
  <2> QED BY <1>3, <2>1, <2>2, <2>3, <2>4, <2>5, <2>9 DEF children, siblings
<1> QED BY <1>2, <1>3

LEMMA StepOfEqual ==
  ASSUME NEW b, Descending(b), NEW i \in 1..(Len(b) + 1), NEW d \in 0..Len(b), NEW f, NEW g,
         \A j \in (i + 1)..(Len(b) + 1), e \in 0..Len(b) :
           Returns(b, f[<<j, e>>], j, e) /\ g[<<j, e>>] = f[<<j, e>>]
  PROVE  Step(b, g, i, d) = Step(b, f, i, d)
<1>1. CASE Ends(b, i, d)
  BY <1>1 DEF Step
<1>2. CASE ~Ends(b, i, d)
  <2>1. /\ i + 1 \in (i + 1)..(Len(b) + 1) /\ d + 1 \in 0..Len(b)
        /\ f[<<i + 1, d + 1>>].next \in (i + 1)..(Len(b) + 1)
    BY <1>2, StepLooksBehind
  <2>2. g[<<i + 1, d + 1>>] = f[<<i + 1, d + 1>>]
    BY <2>1
  <2>3. g[<<f[<<i + 1, d + 1>>].next, d>>] = f[<<f[<<i + 1, d + 1>>].next, d>>]
    BY <2>1
  <2> QED BY <2>2, <2>3 DEF Step
<1> QED BY <1>1, <1>2

LEMMA DescentExists ==
  ASSUME NEW b, Descending(b)
  PROVE  \E f : IsDescent(f, b, 1)
<1> DEFINE n == Len(b)
           T == {k \in Nat : k <= n => \E f : IsDescent(f, b, (n + 1) - k)}
<1>1. n \in Nat
  BY DEF Descending
<1>2. 0 \in T
  <2> DEFINE f == [at \in Places(b, n + 1) |-> [trees |-> <<>>, next |-> at[1]]]
  <2>1. ASSUME NEW i \in (n + 1)..(n + 1), NEW d \in 0..n
        PROVE  /\ <<i, d>> \in Places(b, n + 1) /\ i = n + 1
               /\ f[<<i, d>>] = [trees |-> <<>>, next |-> i]
               /\ Step(b, f, i, d) = [trees |-> <<>>, next |-> i]
               /\ Returns(b, f[<<i, d>>], i, d)
    <3>1. i = n + 1 /\ Ends(b, i, d)
      BY <1>1 DEF Ends
    <3>2. <<i, d>> \in Places(b, n + 1)
      BY DEF Places
    <3>3. Sequence(<<>>)
      BY EmptySeq DEF Sequence
    <3>4. f[<<i, d>>] = [trees |-> <<>>, next |-> i]
      BY <3>2
    <3>5. Returns(b, [trees |-> <<>>, next |-> i], i, d)
      BY <1>1, <3>1, <3>3 DEF Returns
    <3> HIDE DEF f
    <3> QED BY <3>1, <3>2, <3>4, <3>5 DEF Step
  <2>2. f = [at \in Places(b, n + 1) |-> Step(b, f, at[1], at[2])]
    <3>1. ASSUME NEW at \in Places(b, n + 1) PROVE [trees |-> <<>>, next |-> at[1]] = Step(b, f, at[1], at[2])
      <4>1. at[1] \in (n + 1)..(n + 1) /\ at[2] \in 0..n
        BY DEF Places
      <4> HIDE DEF f
      <4> QED BY <2>1, <4>1
    <3> QED BY <3>1
  <2> HIDE DEF f
  <2>3. IsDescent(f, b, n + 1)
    BY <2>1, <2>2 DEF IsDescent
  <2>4. (n + 1) - 0 = n + 1
    BY <1>1
  <2> HIDE DEF n
  <2> QED BY <2>3, <2>4
<1>3. ASSUME NEW k \in Nat, k \in T PROVE k + 1 \in T
  <2> SUFFICES ASSUME k + 1 <= n PROVE \E f : IsDescent(f, b, (n + 1) - (k + 1))
    OBVIOUS
  <2> DEFINE i == n - k
  <2>1. i \in 1..n /\ i + 1 = (n + 1) - k /\ i = (n + 1) - (k + 1) /\ k <= n
    BY <1>1
  <2>2. PICK f : IsDescent(f, b, i + 1)
    BY <1>3, <2>1
  <2> HIDE DEF i
  <2> DEFINE g == [at \in Places(b, i) |-> IF at[1] = i THEN Step(b, f, i, at[2]) ELSE f[at]]
  <2>3. \A j \in (i + 1)..(n + 1), e \in 0..n :
          f[<<j, e>>] = Step(b, f, j, e) /\ Returns(b, f[<<j, e>>], j, e)
    BY <2>2 DEF IsDescent
  <2>4. \A j \in (i + 1)..(n + 1), e \in 0..n : g[<<j, e>>] = f[<<j, e>>]
    <3> TAKE j \in (i + 1)..(n + 1), e \in 0..n
    <3>1. <<j, e>> \in Places(b, i) /\ j # i
      BY <1>1, <2>1 DEF Places
    <3> QED BY <3>1
  <2>5. \A e \in 0..n : g[<<i, e>>] = Step(b, f, i, e)
    <3> TAKE e \in 0..n
    <3>1. <<i, e>> \in Places(b, i)
      BY <1>1, <2>1 DEF Places
    <3> QED BY <3>1
  <2>6. DOMAIN g = Places(b, i) /\ g = [at \in Places(b, i) |-> g[at]]
    OBVIOUS
  <2> HIDE DEF g
  <2>7. ASSUME NEW j \in i..(n + 1), NEW e \in 0..n
        PROVE  g[<<j, e>>] = Step(b, g, j, e) /\ Returns(b, g[<<j, e>>], j, e)
    <3>1. j \in 1..(n + 1)
      BY <1>1, <2>1
    <3>2. \A l \in (j + 1)..(n + 1), h \in 0..n :
            Returns(b, f[<<l, h>>], l, h) /\ g[<<l, h>>] = f[<<l, h>>]
      <4> TAKE l \in (j + 1)..(n + 1), h \in 0..n
      <4>1. l \in (i + 1)..(n + 1)
        BY <1>1, <2>1
      <4> QED BY <2>3, <2>4, <4>1
    <3>3. Step(b, g, j, e) = Step(b, f, j, e) /\ Returns(b, Step(b, f, j, e), j, e)
      BY <3>1, <3>2, StepOfEqual, StepLooksBehind
    <3>4. g[<<j, e>>] = Step(b, f, j, e)
      <4>1. j = i \/ j \in (i + 1)..(n + 1)
        BY <1>1, <2>1
      <4> QED BY <2>3, <2>4, <2>5, <4>1
    <3> QED BY <3>3, <3>4
  <2>8. g = [at \in Places(b, i) |-> Step(b, g, at[1], at[2])]
    <3>1. ASSUME NEW at \in Places(b, i) PROVE g[at] = Step(b, g, at[1], at[2])
      <4>1. at = <<at[1], at[2]>> /\ at[1] \in i..(n + 1) /\ at[2] \in 0..n
        BY DEF Places
      <4> QED BY <2>7, <4>1
    <3> QED BY <2>6, <3>1
  <2>9. IsDescent(g, b, i)
    BY <2>7, <2>8 DEF IsDescent
  <2> QED BY <2>1, <2>9
<1>4. Nat \subseteq T
  <2> HIDE DEF T
  <2> QED BY <1>2, <1>3, InductionOverSet
<1>5. n \in T /\ n <= n /\ (n + 1) - n = 1
  <2> HIDE DEF T
  <2> QED BY <1>1, <1>4
<1>6. \E f : IsDescent(f, b, (n + 1) - n)
  BY <1>5
<1> HIDE DEF n, T
<1> QED BY <1>5, <1>6

LEMMA DescentReturns ==
  ASSUME NEW b, Descending(b), NEW f,
         f = [at \in Places(b, 1) |-> Step(b, f, at[1], at[2])]
  PROVE  IsDescent(f, b, 1)
<1> DEFINE n == Len(b)
           T == {k \in Nat : k <= n =>
                   \A i \in ((n + 1) - k)..(n + 1), d \in 0..n : Returns(b, f[<<i, d>>], i, d)}
<1>1. n \in Nat
  BY DEF Descending
<1>2. \A i \in 1..(n + 1), d \in 0..n : f[<<i, d>>] = Step(b, f, i, d)
  <2> TAKE i \in 1..(n + 1), d \in 0..n
  <2>1. <<i, d>> \in Places(b, 1) /\ <<i, d>>[1] = i /\ <<i, d>>[2] = d
    BY DEF Places
  <2> QED BY <2>1
<1>3. ASSUME NEW i \in 1..(n + 1), NEW d \in 0..n,
             \A j \in (i + 1)..(n + 1), e \in 0..n : Returns(b, f[<<j, e>>], j, e)
      PROVE  Returns(b, f[<<i, d>>], i, d)
  <2>1. Returns(b, Step(b, f, i, d), i, d)
    BY <1>3, StepLooksBehind
  <2>2. f[<<i, d>>] = Step(b, f, i, d)
    BY <1>2
  <2> QED BY <2>1, <2>2
<1> HIDE DEF n
<1>4. 0 \in T
  <2> SUFFICES ASSUME NEW i \in (n + 1)..(n + 1), NEW d \in 0..n
               PROVE  Returns(b, f[<<i, d>>], i, d)
    BY <1>1
  <2>1. i \in 1..(n + 1) /\ (i + 1)..(n + 1) = {}
    BY <1>1
  <2> QED BY <1>3, <2>1
<1>5. ASSUME NEW k \in Nat, k \in T PROVE k + 1 \in T
  <2> SUFFICES ASSUME k + 1 <= n, NEW i \in ((n + 1) - (k + 1))..(n + 1), NEW d \in 0..n
               PROVE  Returns(b, f[<<i, d>>], i, d)
    OBVIOUS
  <2>1. \A j \in ((n + 1) - k)..(n + 1), e \in 0..n : Returns(b, f[<<j, e>>], j, e)
    <3>1. k <= n
      BY <1>1
    <3> QED BY <1>5, <3>1
  <2>2. i \in 1..(n + 1) /\ \A j \in (i + 1)..(n + 1) : j \in ((n + 1) - k)..(n + 1)
    BY <1>1
  <2> QED BY <1>3, <2>1, <2>2
<1>6. Nat \subseteq T
  <2> HIDE DEF T
  <2> QED BY <1>4, <1>5, InductionOverSet
<1>7. n \in T
  <2> HIDE DEF T
  <2> QED BY <1>1, <1>6
<1>8. \A i \in 1..(n + 1), d \in 0..n : Returns(b, f[<<i, d>>], i, d)
  <2>1. n <= n /\ (n + 1) - n = 1
    BY <1>1
  <2> QED BY <1>7, <2>1
<1> QED BY <1>2, <1>8 DEF IsDescent, n

LEMMA ForestIs ==
  ASSUME NEW b, Descending(b)
  PROVE  \E f : IsDescent(f, b, 1) /\ CallForest(b) = f[<<1, 0>>].trees
<1> DEFINE step == CHOOSE f : f = [at \in Places(b, 1) |-> Step(b, f, at[1], at[2])]
<1>1. \E f : f = [at \in Places(b, 1) |-> Step(b, f, at[1], at[2])]
  BY DescentExists DEF IsDescent
<1>2. step = [at \in Places(b, 1) |-> Step(b, step, at[1], at[2])]
  BY <1>1
<1>3. CallForest(b) = step[<<1, 0>>].trees
  BY DEF CallForest, Step, Ends, Places
<1> HIDE DEF step
<1>4. IsDescent(step, b, 1)
  BY <1>2, DescentReturns
<1> QED BY <1>3, <1>4

-------------------------------------------------------------------------------
(* Two descents that find the same trees from an update on have gone over  *)
(* updates that are alike: their depths and all that is packed of them.    *)
Alike(b, c, i, j) ==
  \A k \in i..(j - 1) : b[k].call_depth = c[k].call_depth /\ pack(b[k]) = pack(c[k])
\* No update is deeper than the place it is found at.
Entered(b, i, d) == i <= Len(b) => b[i].call_depth <= d

LEMMA SameTrees ==
  ASSUME NEW b, Descending(b), NEW c, Descending(c),
         NEW f, IsDescent(f, b, 1), NEW g, IsDescent(g, c, 1),
         NEW k \in Nat,
         \A j \in 1..(Len(b) + 1), e \in 0..Len(b) :
           /\ (Len(b) + 1) - j < k /\ j <= Len(c) + 1 /\ e <= Len(c)
           /\ Entered(b, j, e) /\ Entered(c, j, e) /\ f[<<j, e>>].trees = g[<<j, e>>].trees
           => f[<<j, e>>].next = g[<<j, e>>].next /\ Alike(b, c, j, f[<<j, e>>].next),
         NEW i \in 1..(Len(b) + 1), NEW d \in 0..Len(b),
         (Len(b) + 1) - i = k, i <= Len(c) + 1, d <= Len(c),
         Entered(b, i, d), Entered(c, i, d), f[<<i, d>>].trees = g[<<i, d>>].trees
  PROVE  f[<<i, d>>].next = g[<<i, d>>].next /\ Alike(b, c, i, f[<<i, d>>].next)
<1> DEFINE m == Len(b)
           n == Len(c)
<1>1. /\ m \in Nat /\ n \in Nat /\ i \in 1..(n + 1) /\ d \in 0..n
      /\ \A j \in 1..m : b[j].call_depth \in Nat
      /\ \A j \in 1..n : c[j].call_depth \in Nat
  BY DEF Descending
<1>2. /\ f[<<i, d>>] = Step(b, f, i, d) /\ g[<<i, d>>] = Step(c, g, i, d)
      /\ \A j \in 1..(m + 1), e \in 0..m : Returns(b, f[<<j, e>>], j, e)
      /\ \A j \in 1..(n + 1), e \in 0..n : Returns(c, g[<<j, e>>], j, e)
  BY <1>1 DEF IsDescent
<1> DEFINE F == f[<<i + 1, d + 1>>]
           G == g[<<i + 1, d + 1>>]
           FF == f[<<F.next, d>>]
           GG == g[<<G.next, d>>]
           s == [update |-> pack(b[i]), children |-> F.trees]
           t == [update |-> pack(c[i]), children |-> G.trees]
<1>3. ~Ends(b, i, d) =>
        /\ i \in 1..m /\ d + 1 \in 0..m /\ F.next \in (i + 1)..(m + 1)
        /\ Returns(b, F, i + 1, d + 1) /\ Returns(b, FF, F.next, d)
        /\ Step(b, f, i, d) = [trees |-> <<s>> \o FF.trees, next |-> FF.next]
  <2>1. \A j \in (i + 1)..(m + 1), e \in 0..m : Returns(b, f[<<j, e>>], j, e)
    <3> TAKE j \in (i + 1)..(m + 1), e \in 0..m
    <3>1. j \in 1..(m + 1)
      BY <1>1
    <3> QED BY <1>2, <3>1
  <2> QED BY <2>1, StepLooksBehind DEF Step
<1>4. ~Ends(c, i, d) =>
        /\ i \in 1..n /\ d + 1 \in 0..n /\ G.next \in (i + 1)..(n + 1)
        /\ Returns(c, G, i + 1, d + 1) /\ Returns(c, GG, G.next, d)
        /\ Step(c, g, i, d) = [trees |-> <<t>> \o GG.trees, next |-> GG.next]
  <2>1. \A j \in (i + 1)..(n + 1), e \in 0..n : Returns(c, g[<<j, e>>], j, e)
    <3> TAKE j \in (i + 1)..(n + 1), e \in 0..n
    <3>1. j \in 1..(n + 1)
      BY <1>1
    <3> QED BY <1>2, <3>1
  <2> QED BY <1>1, <2>1, StepLooksBehind DEF Step
<1>5. CASE Ends(b, i, d)
  <2>1. Step(b, f, i, d) = [trees |-> <<>>, next |-> i]
    BY <1>5 DEF Step
  <2>2. Ends(c, i, d)
    <3>1. SUFFICES ASSUME ~Ends(c, i, d) PROVE FALSE
      OBVIOUS
    <3>2. <<t>> \o GG.trees # <<>>
      <4>1. Sequence(GG.trees)
        BY <1>4, <3>1 DEF Returns
      <4> HIDE DEF t, GG
      <4> QED BY <4>1, InFront
    <3> HIDE DEF t, GG
    <3> QED BY <1>2, <1>4, <2>1, <3>1, <3>2
  <2>3. Step(c, g, i, d) = [trees |-> <<>>, next |-> i]
    BY <2>2 DEF Step
  <2>4. Alike(b, c, i, i)
    BY <1>1 DEF Alike
  <2> QED BY <1>2, <2>1, <2>3, <2>4
<1>6. CASE ~Ends(b, i, d)
  <2> HIDE DEF F, G, FF, GG, s, t
  <2>1. ~Ends(c, i, d)
    <3>1. SUFFICES ASSUME Ends(c, i, d) PROVE FALSE
      OBVIOUS
    <3>2. Step(c, g, i, d) = [trees |-> <<>>, next |-> i]
      BY <3>1 DEF Step
    <3>3. <<s>> \o FF.trees # <<>>
      BY <1>3, <1>6, InFront DEF Returns
    <3> QED BY <1>2, <1>3, <1>6, <3>2, <3>3
  <2>2. s = t /\ FF.trees = GG.trees
    <3>1. Sequence(FF.trees) /\ Sequence(GG.trees)
      BY <1>3, <1>4, <1>6, <2>1 DEF Returns
    <3>2. <<s>> \o FF.trees = <<t>> \o GG.trees
      <4>1. f[<<i, d>>].trees = <<s>> \o FF.trees
        BY <1>2, <1>3, <1>6, SMTT(30)
      <4>2. g[<<i, d>>].trees = <<t>> \o GG.trees
        BY <1>2, <1>4, <2>1, SMTT(30)
      <4> QED BY <4>1, <4>2
    <3>3. \A p, q, x, y : Sequence(p) /\ Sequence(q) /\ <<x>> \o p = <<y>> \o q => x = y /\ p = q
      BY InFrontApart
    <3> QED BY <3>1, <3>2, <3>3, Zenon
  <2>3. pack(b[i]) = pack(c[i]) /\ F.trees = G.trees
    BY <2>2 DEF s, t
  <2>4. /\ i \in 1..m /\ i \in 1..n /\ d + 1 \in 0..m /\ d + 1 \in 0..n
        /\ F.next \in (i + 1)..(m + 1) /\ G.next \in (i + 1)..(n + 1)
        /\ F.next <= m => b[F.next].call_depth < d + 1
        /\ G.next <= n => c[G.next].call_depth < d + 1
    BY <1>3, <1>4, <1>6, <2>1 DEF Returns
  <2>5. b[i].call_depth = d /\ c[i].call_depth = d
    BY <1>1, <1>6, <2>1, <2>4, SMTT(30) DEF Ends, Entered
  <2>6. Entered(b, i + 1, d + 1) /\ Entered(c, i + 1, d + 1)
    <3>1. \A j \in 2..m : b[j].call_depth <= b[j - 1].call_depth + 1
      BY DEF Descending, is_call_depth_valid
    <3>2. \A j \in 2..n : c[j].call_depth <= c[j - 1].call_depth + 1
      BY DEF Descending, is_call_depth_valid
    <3>3. (i + 1) - 1 = i /\ (i + 1 <= m => i + 1 \in 2..m) /\ (i + 1 <= n => i + 1 \in 2..n)
      BY <1>1, <2>4
    <3> QED BY <2>5, <3>1, <3>2, <3>3 DEF Entered
  <2>7. F.next = G.next /\ Alike(b, c, i + 1, F.next)
    <3>1. i + 1 \in 1..(m + 1) /\ (m + 1) - (i + 1) < k /\ i + 1 <= n + 1 /\ d + 1 <= n
      BY <1>1, <2>4
    <3> QED BY <2>3, <2>4, <2>6, <3>1 DEF F, G
  <2>8. FF.next = GG.next /\ Alike(b, c, F.next, FF.next)
    <3>1. /\ F.next \in 1..(m + 1) /\ (m + 1) - F.next < k /\ F.next <= n + 1 /\ d <= n
          /\ F.next \in Nat
      BY <1>1, <2>4, <2>7
    <3>2. Entered(b, F.next, d) /\ Entered(c, F.next, d)
      <4>1. F.next <= m => b[F.next].call_depth \in Nat
        BY <1>1, <3>1
      <4>2. F.next <= n => c[F.next].call_depth \in Nat
        BY <1>1, <3>1
      <4> QED BY <1>1, <2>4, <2>7, <4>1, <4>2 DEF Entered
    <3> QED BY <2>2, <2>7, <3>1, <3>2 DEF FF, GG
  <2>9. f[<<i, d>>].next = FF.next /\ g[<<i, d>>].next = GG.next
    BY <1>2, <1>3, <1>4, <1>6, <2>1
  <2>10. Alike(b, c, i, FF.next)
    <3>1. F.next \in (i + 1)..(m + 1) /\ FF.next \in F.next..(m + 1)
      BY <1>3, <1>6 DEF Returns
    <3>2. \A j \in i..(FF.next - 1) : j = i \/ j \in (i + 1)..(F.next - 1) \/ j \in F.next..(FF.next - 1)
      BY <1>1, <3>1
    <3> QED BY <2>3, <2>5, <2>7, <2>8, <3>2 DEF Alike
  <2> QED BY <2>8, <2>9, <2>10
<1> QED BY <1>5, <1>6

LEMMA SameForest ==
  ASSUME NEW b, Descending(b), NEW c, Descending(c),
         NEW f, IsDescent(f, b, 1), NEW g, IsDescent(g, c, 1),
         f[<<1, 0>>].trees = g[<<1, 0>>].trees
  PROVE  f[<<1, 0>>].next = g[<<1, 0>>].next /\ Alike(b, c, 1, f[<<1, 0>>].next)
<1> DEFINE m == Len(b)
           n == Len(c)
           Found(j, e) ==
             /\ j <= n + 1 /\ e <= n
             /\ Entered(b, j, e) /\ Entered(c, j, e) /\ f[<<j, e>>].trees = g[<<j, e>>].trees
           Same(j, e) == f[<<j, e>>].next = g[<<j, e>>].next /\ Alike(b, c, j, f[<<j, e>>].next)
           T == {k \in Nat : \A j \in 1..(m + 1), e \in 0..m :
                               (m + 1) - j < k /\ Found(j, e) => Same(j, e)}
<1>1. m \in Nat /\ n \in Nat
  BY DEF Descending
<1>2. ASSUME NEW k \in Nat,
             \A j \in 1..(m + 1), e \in 0..m : (m + 1) - j < k /\ Found(j, e) => Same(j, e),
             NEW i \in 1..(m + 1), NEW d \in 0..m, (m + 1) - i = k, Found(i, d)
      PROVE  Same(i, d)
  BY <1>2, SameTrees
<1> HIDE DEF m, n, Found, Same
<1>3. 0 \in T
  <2> SUFFICES ASSUME NEW j \in 1..(m + 1), NEW e \in 0..m, (m + 1) - j < 0 PROVE FALSE
    OBVIOUS
  <2> QED BY <1>1
<1>4. ASSUME NEW k \in Nat, k \in T PROVE k + 1 \in T
  <2> SUFFICES ASSUME NEW j \in 1..(m + 1), NEW e \in 0..m, (m + 1) - j < k + 1, Found(j, e)
               PROVE  Same(j, e)
    OBVIOUS
  <2>1. \A l \in 1..(m + 1), h \in 0..m : (m + 1) - l < k /\ Found(l, h) => Same(l, h)
    BY <1>4
  <2>2. (m + 1) - j < k \/ (m + 1) - j = k
    BY <1>1
  <2> QED BY <1>2, <2>1, <2>2
<1>5. Nat \subseteq T
  <2> HIDE DEF T
  <2> QED BY <1>3, <1>4, InductionOverSet
<1>6. m + 2 \in T
  <2> HIDE DEF T
  <2> QED BY <1>1, <1>5
<1>7. Entered(b, 1, 0) /\ Entered(c, 1, 0)
  <2>1. ASSUME NEW a, Descending(a) PROVE Entered(a, 1, 0)
    <3>1. a = <<>> => Len(a) = 0
      BY EmptySeq
    <3> QED BY <2>1, <3>1 DEF Descending, is_call_depth_valid, Entered
  <2> QED BY <2>1
<1>8. Found(1, 0)
  BY <1>1, <1>7 DEF Found, n
<1>9. Same(1, 0)
  <2>1. 1 \in 1..(m + 1) /\ 0 \in 0..m /\ (m + 1) - 1 < m + 2
    BY <1>1
  <2> QED BY <1>6, <1>8, <2>1
<1> QED BY <1>9 DEF Same

\* Two commands with the same forest of calls have updates that are alike.
LEMMA ForestTells ==
  ASSUME NEW b, Descending(b), NEW c, Descending(c), CallForest(b) = CallForest(c)
  PROVE  Len(b) = Len(c) /\ Alike(b, c, 1, Len(b) + 1)
<1>1. PICK f : IsDescent(f, b, 1) /\ CallForest(b) = f[<<1, 0>>].trees
  BY ForestIs
<1>2. PICK g : IsDescent(g, c, 1) /\ CallForest(c) = g[<<1, 0>>].trees
  BY ForestIs
<1>3. f[<<1, 0>>].next = g[<<1, 0>>].next /\ Alike(b, c, 1, f[<<1, 0>>].next)
  BY <1>1, <1>2, SameForest
<1>4. ASSUME NEW a, Descending(a), NEW h, IsDescent(h, a, 1) PROVE h[<<1, 0>>].next = Len(a) + 1
  <2>1. Len(a) \in Nat /\ \A i \in 1..Len(a) : a[i].call_depth \in Nat
    BY <1>4 DEF Descending
  <2>2. 1 \in 1..(Len(a) + 1) /\ 0 \in 0..Len(a)
    BY <2>1
  <2>3. Returns(a, h[<<1, 0>>], 1, 0)
    BY <1>4, <2>2 DEF IsDescent
  <2> DEFINE x == h[<<1, 0>>].next
  <2>4. x \in 1..(Len(a) + 1) /\ (x <= Len(a) => a[x].call_depth < 0)
    BY <2>3 DEF Returns
  <2> HIDE DEF x
  <2>5. x <= Len(a) => a[x].call_depth \in Nat
    BY <2>1, <2>4
  <2>6. x = Len(a) + 1
    BY <2>1, <2>4, <2>5
  <2> QED BY <2>6 DEF x
<1>5. Len(b) + 1 = Len(c) + 1 /\ Len(b) \in Nat /\ Len(c) \in Nat
  BY <1>1, <1>2, <1>3, <1>4 DEF Descending
<1>6. Len(b) = Len(c)
  BY <1>5
<1> QED BY <1>1, <1>3, <1>4, <1>6

-------------------------------------------------------------------------------
(* What a message tells of the transaction.                                *)
\* The bodies of the updates of a command that zk_commit takes.
LEMMA BodiesDescend ==
  ASSUME NEW cmd \in ZKAppCommand(Authorizations), committable(cmd)
  PROVE  /\ BodiesOf(cmd) \in Seq(AccountUpdateBody)
         /\ Descending(BodiesOf(cmd))
<1> DEFINE updates == cmd.account_updates
           bodies == BodiesOf(cmd)
<1>1. updates \in Seq(AccountUpdate(Authorizations))
  BY DEF ZKAppCommand
<1>2. Len(updates) \in Nat /\ DOMAIN updates = 1..Len(updates)
  BY <1>1, LenProperties
<1>3. \A i \in 1..Len(updates) : updates[i].body \in AccountUpdateBody
  <2>1. \A i \in 1..Len(updates) : updates[i] \in AccountUpdate(Authorizations)
    BY <1>1, ElementOfSeq
  <2> QED BY <2>1 DEF AccountUpdate
<1>4. bodies = [i \in 1..Len(updates) |-> updates[i].body]
  BY <1>2 DEF BodiesOf
<1> HIDE DEF updates, bodies
<1>5. bodies \in Seq(AccountUpdateBody) /\ Len(bodies) = Len(updates)
  BY <1>2, <1>3, <1>4
<1>6. \A i \in 1..Len(bodies) : bodies[i].call_depth \in Nat
  BY <1>3, <1>4, <1>5 DEF AccountUpdateBody
<1> QED BY <1>2, <1>5, <1>6 DEF bodies, committable, Descending

\* All that packing leaves out of a body is its depth.
LEMMA PackKeepsBody ==
  ASSUME NEW body \in AccountUpdateBody, NEW other \in AccountUpdateBody,
         pack(body) = pack(other), body.call_depth = other.call_depth
  PROVE  body = other
<1>1. /\ body.public_key = other.public_key
      /\ body.use_full_commitment = other.use_full_commitment
      /\ body.is_signed = other.is_signed /\ body.is_proved = other.is_proved
      /\ body.dummy_key_hash = other.dummy_key_hash /\ body.rest = other.rest
  BY DEF pack
<1> QED BY <1>1 DEF AccountUpdateBody

\* Updates that are alike in everything the forest tells are the same.
LEMMA AlikeIsSame ==
  ASSUME NEW b \in Seq(AccountUpdateBody), NEW c \in Seq(AccountUpdateBody),
         Descending(b), Descending(c), CallForest(b) = CallForest(c)
  PROVE  b = c
<1>1. Len(b) = Len(c) /\ Len(b) \in Nat /\ Alike(b, c, 1, Len(b) + 1)
  BY ForestTells DEF Descending
<1>2. ASSUME NEW i \in 1..Len(b) PROVE b[i] = c[i]
  <2>1. i \in 1..((Len(b) + 1) - 1) /\ i \in 1..Len(c)
    BY <1>1
  <2>2. b[i].call_depth = c[i].call_depth /\ pack(b[i]) = pack(c[i])
    BY <1>1, <2>1 DEF Alike
  <2>3. b[i] \in AccountUpdateBody /\ c[i] \in AccountUpdateBody
    BY <2>1, ElementOfSeq
  <2> QED BY <2>2, <2>3, PackKeepsBody
<1> QED BY <1>1, <1>2, SeqEqual

LEMMA CommitmentTellsCommand ==
  ASSUME NEW cmd \in ZKAppCommand(Authorizations), NEW other \in ZKAppCommand(Authorizations),
         committable(cmd), committable(other), NEW network, NEW network_other,
         zk_commit(cmd, network) = zk_commit(other, network_other)
  PROVE  Bare(cmd) = Bare(other)
<1>1. /\ cmd.memo = other.memo /\ CallForest(BodiesOf(cmd)) = CallForest(BodiesOf(other))
      /\ pack(FeePayerUpdate(cmd.fee_payer.body)) = pack(FeePayerUpdate(other.fee_payer.body))
  BY DEF zk_commit
<1>2. BodiesOf(cmd) = BodiesOf(other)
  BY <1>1, BodiesDescend, AlikeIsSame
<1>3. cmd.fee_payer.body = other.fee_payer.body
  <2>1. cmd.fee_payer.body \in FeePayerBody /\ other.fee_payer.body \in FeePayerBody
    BY DEF ZKAppCommand, FeePayer
  <2>2. /\ cmd.fee_payer.body.public_key = other.fee_payer.body.public_key
        /\ cmd.fee_payer.body.rest = other.fee_payer.body.rest
    BY <1>1 DEF pack, FeePayerUpdate
  <2> QED BY <2>1, <2>2 DEF FeePayerBody
<1>4. cmd.tag = "ZkApp" /\ other.tag = "ZkApp"
  BY DEF ZKAppCommand
<1> QED BY <1>1, <1>2, <1>3, <1>4 DEF Bare

(* No two signed transactions have the same message (to_roinput,           *)
(* zk_commit): the signature on one is never one on another, or on the     *)
(* same on another network, whatever members differ, the depths of the     *)
(* updates included, which are not packed.                                 *)
THEOREM MessagesTellTransactions == Spec => []MessageTellsTransaction
<1>1. IInv => MessageTellsTransaction
  <2> SUFFICES ASSUME IInv, NEW f \in Outputs, NEW g \in Outputs,
                      file[f].signature.msg = file[g].signature.msg
               PROVE  /\ file[f].payload.network = file[g].payload.network
                      /\ Bare(file[f].payload.tx) = Bare(file[g].payload.tx)
    BY DEF MessageTellsTransaction
  <2> DEFINE env == file[f].payload
             other == file[g].payload
  <2>1. /\ env \in Envelopes /\ Hashable(env) /\ other \in Envelopes /\ Hashable(other)
        /\ to_pallas_message(env) = to_pallas_message(other)
    BY OutputIsSound
  <2> HIDE DEF env, other
  <2>2. /\ env.network = other.network /\ env.tx.tag = other.tx.tag
        /\ env.tx.tag = "ZkApp" => zk_commit(env.tx, env.network) = zk_commit(other.tx, other.network)
        /\ env.tx.tag # "ZkApp" => to_roinput(env.tx) = to_roinput(other.tx)
    BY <2>1 DEF to_pallas_message
  <2>3. Bare(env.tx) = Bare(other.tx)
    <3>1. CASE env.tx.tag = "ZkApp"
      <4>1. env.tx \in ZKAppCommand(Authorizations) /\ other.tx \in ZKAppCommand(Authorizations)
        BY <2>1, <2>2, <3>1 DEF Envelopes, LegacyTransaction, Authorizations
      <4> QED BY <2>1, <2>2, <3>1, <4>1, CommitmentTellsCommand DEF Hashable
    <3>2. CASE env.tx.tag # "ZkApp"
      <4>1. env.tx \in LegacyTransaction(Keys) /\ other.tx \in LegacyTransaction(Keys)
        BY <2>1, <2>2, <3>2 DEF Envelopes, ZKAppCommand
      <4>2. env.tx = other.tx
        BY <2>2, <3>2, <4>1, InputTellsTransaction
      <4> QED BY <4>2
    <3> QED BY <3>1, <3>2
  <2> QED BY <2>2, <2>3 DEF env, other
<1> QED BY <1>1, InductiveInvariant, PTL

(* The shape of the forest ties a signature to the depths of the updates:  *)
(* call_forest makes different forests of different depths that zk_commit  *)
(* accepts, for any number of updates.                                     *)
THEOREM CommitmentsKeepDepths == Spec => []CommitmentKeepsDepths
<1>1. ASSUME NEW n \in 0..MaxUpdates PROVE DistinctForests[n]
  <2> DEFINE Body(d) ==
               [FeePayerUpdate([public_key |-> "key", rest |-> NoRest]) EXCEPT !.call_depth = d]
             valid == {b \in {[i \in 1..n |-> Body(depth[i])] : depth \in [1..n -> 0..n]} :
                         is_call_depth_valid(b)}
  <2>1. DistinctForests[n] = \A b, c \in valid : CallForest(b) = CallForest(c) => b = c
    BY DEF DistinctForests
  <2>2. \A d : Body(d).call_depth = d
    BY DEF FeePayerUpdate
  <2> HIDE DEF Body
  <2>3. ASSUME NEW b \in valid
        PROVE  \E depth \in [1..n -> 0..n] :
                 /\ b = [i \in 1..n |-> Body(depth[i])] /\ Len(b) = n /\ Descending(b)
                 /\ \A i \in 1..n : b[i].call_depth = depth[i]
    <3>1. PICK depth \in [1..n -> 0..n] : b = [i \in 1..n |-> Body(depth[i])]
      OBVIOUS
    <3>2. n \in Nat /\ Len(b) = n
      BY <3>1
    <3>3. \A i \in 1..n : b[i].call_depth = depth[i] /\ depth[i] \in Nat
      BY <2>2, <3>1
    <3>4. is_call_depth_valid(b)
      OBVIOUS
    <3> HIDE DEF valid
    <3>5. Descending(b)
      BY <3>2, <3>3, <3>4 DEF Descending
    <3> QED BY <3>1, <3>2, <3>3, <3>5
  <2> HIDE DEF valid
  <2>4. ASSUME NEW b \in valid, NEW c \in valid, CallForest(b) = CallForest(c) PROVE b = c
    <3>1. PICK x \in [1..n -> 0..n] :
            /\ b = [i \in 1..n |-> Body(x[i])] /\ Len(b) = n /\ Descending(b)
            /\ \A i \in 1..n : b[i].call_depth = x[i]
      BY <2>3
    <3>2. PICK y \in [1..n -> 0..n] :
            /\ c = [i \in 1..n |-> Body(y[i])] /\ Len(c) = n /\ Descending(c)
            /\ \A i \in 1..n : c[i].call_depth = y[i]
      BY <2>3
    <3>3. Alike(b, c, 1, n + 1)
      BY <2>4, <3>1, <3>2, ForestTells
    <3>4. \A i \in 1..n : x[i] = y[i]
      <4>1. \A i \in 1..n : i \in 1..((n + 1) - 1)
        OBVIOUS
      <4> QED BY <3>1, <3>2, <3>3, <4>1 DEF Alike
    <3>5. x = y
      BY <3>4
    <3> QED BY <3>1, <3>2, <3>5
  <2> QED BY <2>1, <2>4
<1>2. IInv => CommitmentKeepsDepths
  <2> SUFFICES ASSUME NEW f \in Files, NEW n \in 0..Len(file[f].payload.tx.account_updates),
                      IInv, file[f].kind = "signed", file[f].payload.tx.tag = "ZkApp",
                      n <= MaxUpdates
               PROVE  DistinctForests[n]
    BY DEF CommitmentKeepsDepths
  <2> QED BY <1>1
<1> QED BY <1>2, InductiveInvariant, PTL

(* The node rebuilds the transaction that was signed from the request      *)
(* (to_graphql_query_json), so it checks the signature against the message *)
(* that the group signed.                                                  *)
THEOREM NodeReadsTheSame == Spec => []NodeReadsWhatWasSigned
<1>1. IInv => NodeReadsWhatWasSigned
  <2> DEFINE env == request.envelope
  <2> SUFFICES ASSUME IInv, request # NoRequest, env.tx.tag = "Legacy", NEW next_nonce \in 0..1
               PROVE  to_pallas_message([env EXCEPT
                        !.tx = Submitted(to_graphql_query_json(@), next_nonce)])
                          = request.signature.msg
    BY DEF NodeReadsWhatWasSigned
  <2>1. env \in Envelopes
    <3>1. request \in Requests
      BY DEF IInv, TypeOK
    <3> QED BY <3>1 DEF Requests
  <2>2. Sound(env, request.by) /\ request.signature.msg = to_pallas_message(env)
    BY DEF IInv
  <2> HIDE DEF env
  <2>3. PICK document \in LegacyDocument(Keys) :
          readable(document) /\ env.tx = deserialize(document)
    BY <2>1, <2>2, SoundIsRead
  <2>4. Submitted(to_graphql_query_json(env.tx), next_nonce) = env.tx
    BY <2>3, NodeBuildsTheSame
  <2>5. [env EXCEPT !.tx = Submitted(to_graphql_query_json(@), next_nonce)] = env
    BY <2>1, <2>4 DEF Envelopes
  <2> QED BY <2>2, <2>5
<1> QED BY <1>1, InductiveInvariant, PTL
===============================================================================
