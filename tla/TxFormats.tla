------------------------------- MODULE TxFormats -------------------------------
(* The chain of sessions and the formats its zkApp commands are in. *)
EXTENDS TxChain, ZkAppDocuments

(* The types of what is packed and written: machine numbers by their bits, *)
(* and field elements by their digits (or the one hash that is a constant).*)
Bit == {0, 1}
Machine(w) == [1..w -> Bit]
Numbers == [number : {<<>>} \cup {d \in Seq(Bit) : Len(d) \in 1..254 /\ d[1] = 1}]
Fp == Numbers \cup {DUMMY_HASH}

PublicKeyType == [x : Numbers, is_odd : BOOLEAN]
RangeType(w) == [lower : Machine(w), upper : Machine(w)]
StateType == [1..APP_STATE_LENGTH -> Optional(Fp)]
TimingType ==
  [initial_minimum_balance : Machine(64), cliff_time : Machine(32), cliff_amount : Machine(64),
   vesting_period : Machine(32), vesting_increment : Machine(64)]
PermissionsType ==
  [edit_state : AuthRequired, access : AuthRequired, send : AuthRequired,
   receive : AuthRequired, set_delegate : AuthRequired, set_permissions : AuthRequired,
   set_verification_key : [auth : AuthRequired, txn_version : Machine(32)],
   set_zkapp_uri : AuthRequired, edit_action_state : AuthRequired,
   set_token_symbol : AuthRequired, increment_nonce : AuthRequired,
   set_voting_for : AuthRequired, set_timing : AuthRequired]
UpdateType ==
  [app_state : StateType, delegate : Optional(PublicKeyType),
   verification_key : Optional([data : STRING, hash : Fp]),
   permissions : Optional(PermissionsType), zkapp_uri : Optional(Seq(Byte)),
   token_symbol : Optional({symbol \in Seq(Byte) : Len(symbol) <= 6}),
   timing : Optional(TimingType), voting_for : Optional(Fp)]
EpochDataType ==
  [ledger : [hash : Optional(Fp), total_currency : Optional(RangeType(64))],
   seed : Optional(Fp), start_checkpoint : Optional(Fp), lock_checkpoint : Optional(Fp),
   epoch_length : Optional(RangeType(32))]
NetworkType ==
  [snarked_ledger_hash : Optional(Fp), blockchain_length : Optional(RangeType(32)),
   min_window_density : Optional(RangeType(32)), total_currency : Optional(RangeType(64)),
   global_slot_since_genesis : Optional(RangeType(32)),
   staking_epoch_data : EpochDataType, next_epoch_data : EpochDataType]
AccountType ==
  [balance : Optional(RangeType(64)), nonce : Optional(RangeType(32)),
   receipt_chain_hash : Optional(Fp), delegate : Optional(PublicKeyType), state : StateType,
   action_state : Optional(Fp), proved_state : Optional(BOOLEAN), is_new : Optional(BOOLEAN)]
BodyType ==
  [public_key : PublicKeyType, token_id : Numbers, update : UpdateType,
   balance_change : [magnitude : Machine(64), sgn : {1, -1}], increment_nonce : BOOLEAN,
   events : Seq(Seq(Fp)), actions : Seq(Seq(Fp)), call_data : Fp, call_depth : Nat,
   preconditions : [network : NetworkType, account : AccountType,
                    valid_while : Optional(RangeType(32))],
   use_full_commitment : BOOLEAN, implicit_account_creation_fee : BOOLEAN,
   may_use_token : [parents_own_token : BOOLEAN, inherit_from_parent : BOOLEAN],
   authorization_kind : [is_signed : BOOLEAN, is_proved : BOOLEAN,
                         verification_key_hash : Fp]]
FeePayerType ==
  [public_key : PublicKeyType, fee : Machine(64), nonce : Machine(32),
   valid_until : Optional(Machine(32))]

ASSUME FormatAssumption ==
  /\ APP_STATE_LENGTH \in Nat /\ TXN_VERSION_CURRENT \in Nat
  /\ Bodies \subseteq BodyType /\ FeePayerBodies \subseteq FeePayerType
  /\ IsFiniteSet(Bodies) /\ IsFiniteSet(FeePayerBodies) /\ IsFiniteSet(Memos)
  /\ Memos \subseteq {memo \in [1..34 -> Byte] : memo[1] = 1} /\ Uris \subseteq Seq(Byte)
  /\ Sigs \subseteq [field : Numbers, scalar : Numbers]
  /\ {MEMO_VERSION_BYTE, TOKEN_ID_VERSION_BYTE, SIGNATURE_VERSION_BYTE} \subseteq Byte
  /\ MEMO_VERSION_BYTE # TOKEN_ID_VERSION_BYTE

-------------------------------------------------------------------------------
(* What a group signs and saves in a session is a command like any other. *)
ZkAppSigned == \E f \in Files : file[f].kind = "signed" /\ file[f].payload.tx.tag = "ZkApp"

(* All bodies have one layout (the empty input of a type is as wide as its *)
(* values), and whoever knows it reads every bit back: no element of       *)
(* pack_to_fields overflows the field, at the boundary of 255 bits too,    *)
(* which the single bits of a URI of 32 bytes meet exactly.                *)
PackingReadsBack == ZkAppSigned => PackedReadsBack

(* Signing commits to every member: two bodies, fee payers or memos that   *)
(* differ in one (a value, or Some of the empty value for None) are not    *)
(* hashed alike by hash_account_update and memo_hash, but for what Kept    *)
(* says no hash can tell.                                                  *)
BodiesPackApart == ZkAppSigned => HashedApart

(* What one session writes the next one reads, member for member: a change *)
(* would make every signature in the document worthless.  A text of another*)
(* kind, and a memo with one wrong byte, are refused.                      *)
DocumentsReadBack == ZkAppSigned => ReadAsWritten
===============================================================================
