----------------------------- MODULE ZkAppCommand -----------------------------
(***************************************************************************)
(* zkApp commands: the commitment that is signed, and the places in the    *)
(* command where the signature goes.                                       *)
(*                                                                         *)
(* A hash is the term it is taken of: Poseidon is free of collisions, and  *)
(* absorbing the prefixes and the packed fields loses nothing.  What the   *)
(* model can tell is what goes into the hash: the forest of calls stands   *)
(* for call_forest_hash of it.  What no code branches on (balances,        *)
(* events, preconditions, fee and nonce) is the member "rest" of a body.   *)
(***************************************************************************)
EXTENDS Naturals, Sequences

CONSTANTS
  Keys,     \* public keys of accounts
  Rests,    \* everything else in the body of an update
  NoRest    \* what AccountUpdate::default() has there

ASSUME NoRestAssumption == NoRest \in Rests

FeePayerBody == [public_key : Keys, rest : Rests]

AccountUpdateBody ==
  [public_key : Keys, call_depth : Nat, use_full_commitment : BOOLEAN,
   is_signed : BOOLEAN, is_proved : BOOLEAN, dummy_key_hash : BOOLEAN, rest : Rests]

(* The fee payer and the updates each have a body and an authorization; of *)
(* the authorization of an update only the signature matters here.         *)
FeePayer(Authorizations) == [body : FeePayerBody, authorization : Authorizations]
AccountUpdate(Authorizations) == [body : AccountUpdateBody, signature : Authorizations]
ZKAppCommand(Authorizations) ==
  [tag : {"ZkApp"}, fee_payer : FeePayer(Authorizations),
   account_updates : Seq(AccountUpdate(Authorizations)), memo : Rests]

(* A fee payer is hashed as the update that takes the fee. *)
FeePayerUpdate(body) ==
  [public_key |-> body.public_key, call_depth |-> 0, use_full_commitment |-> TRUE,
   is_signed |-> TRUE, is_proved |-> FALSE, dummy_key_hash |-> TRUE, rest |-> body.rest]

(* Packing takes all of a body but the call depth. *)
pack(body) == [public_key |-> body.public_key, use_full_commitment |-> body.use_full_commitment,
               is_signed |-> body.is_signed, is_proved |-> body.is_proved,
               dummy_key_hash |-> body.dummy_key_hash, rest |-> body.rest]

is_call_depth_valid(bodies) ==
  /\ bodies # <<>> => bodies[1].call_depth = 0
  /\ \A i \in 2..Len(bodies) : bodies[i].call_depth <= bodies[i - 1].call_depth + 1

authorization_kind_valid(body) ==
  /\ ~(body.is_proved /\ body.is_signed)
  /\ body.is_proved \/ body.dummy_key_hash

(* The forest of the calls, with the mistake that children are looked for *)
(* at the depth of their caller.                                          *)
CallForest_SameDepth(bodies) ==
  LET n == Len(bodies)
      step[at \in (1..(n + 1)) \X (0..n)] ==
        LET i == at[1]
            d == at[2]
        IN IF i > n \/ bodies[i].call_depth < d THEN [trees |-> <<>>, next |-> i]
           ELSE LET children == step[<<i + 1, d>>]
                    siblings == step[<<children.next, d>>]
                IN [trees |-> <<[update |-> pack(bodies[i]), children |-> children.trees]>>
                                \o siblings.trees,
                    next |-> siblings.next]
  IN step[<<1, 0>>].trees

(* The forest of the calls.  step[<<i, d>>] is the recursive descent that  *)
(* finds update i at the head of the queue and is at depth d: the trees    *)
(* it takes off the queue and the index of the first update it leaves.     *)
CallForest(bodies) ==
  LET n == Len(bodies)
      step[at \in (1..(n + 1)) \X (0..n)] ==
        LET i == at[1]
            d == at[2]
        IN IF i > n \/ bodies[i].call_depth < d THEN [trees |-> <<>>, next |-> i]
           ELSE LET children == step[<<i + 1, d + 1>>]
                    siblings == step[<<children.next, d>>]
                IN [trees |-> <<[update |-> pack(bodies[i]), children |-> children.trees]>>
                                \o siblings.trees,
                    next |-> siblings.next]
  IN step[<<1, 0>>].trees

BodiesOf(cmd) == [i \in DOMAIN cmd.account_updates |-> cmd.account_updates[i].body]

(* The whole commitment and the network, which is in the prefix of every   *)
(* update's hash; committable says when zk_commit returns no error.        *)
committable(cmd) ==
  /\ is_call_depth_valid(BodiesOf(cmd))
  /\ \A i \in DOMAIN cmd.account_updates :
       authorization_kind_valid(cmd.account_updates[i].body)
zk_commit(cmd, network) ==
  <<network, cmd.memo, pack(FeePayerUpdate(cmd.fee_payer.body)), CallForest(BodiesOf(cmd))>>

(* The signature of a group goes to the fee payer and to the updates with  *)
(* its key that are authorized by a signature of the whole commitment;     *)
(* what was there is overwritten.                                          *)
should_inject(body, key) == body.is_signed /\ body.public_key = key

\* Mistakes: nothing is injected when somebody else pays the fee; the
\* commitment an update asks for is not looked at.
inject_signature_Payer(cmd, key, sig) ==
  IF cmd.fee_payer.body.public_key # key THEN cmd
  ELSE [cmd EXCEPT
     !.fee_payer.authorization = sig,
     !.account_updates =
        [i \in DOMAIN @ |->
           IF should_inject(@[i].body, key) /\ @[i].body.use_full_commitment
           THEN [@[i] EXCEPT !.signature = sig] ELSE @[i]]]
inject_signature_Partial(cmd, key, sig) ==
  [cmd EXCEPT
     !.fee_payer.authorization =
        IF cmd.fee_payer.body.public_key = key THEN sig ELSE @,
     !.account_updates =
        [i \in DOMAIN @ |->
           IF should_inject(@[i].body, key) THEN [@[i] EXCEPT !.signature = sig] ELSE @[i]]]

inject_signature(cmd, key, sig) ==
  [cmd EXCEPT
     !.fee_payer.authorization =
        IF cmd.fee_payer.body.public_key = key THEN sig ELSE @,
     !.account_updates =
        [i \in DOMAIN @ |->
           IF should_inject(@[i].body, key) /\ @[i].body.use_full_commitment
           THEN [@[i] EXCEPT !.signature = sig] ELSE @[i]]]
=============================================================================
