-------------------------------- MODULE Packing --------------------------------
(***************************************************************************)
(* How the body of an account update becomes the field elements that are   *)
(* hashed: module ZkAppCommand takes for granted that packing loses        *)
(* nothing but the call depth, and here is why it may.                     *)
(*                                                                         *)
(* A machine number is the sequence of its bits, most significant first.   *)
(* A field element is a number below 2^254, or the term of a hash.  An     *)
(* Option is a sequence of at most one value.                              *)
(***************************************************************************)
EXTENDS Integers, Sequences, FiniteSets, SequencesExt

CONSTANTS
  APP_STATE_LENGTH,     \* 8, or 32 after the Mesa hardfork
  TXN_VERSION_CURRENT,  \* 3, or 4 after the Mesa hardfork
  Bodies,               \* bodies of updates
  FeePayerBodies, Memos, Uris,
  BodyPrefix            \* the prefix of the network

Bits(n, w) == [i \in 1..w |-> IF w - i > 30 THEN 0 ELSE (n \div 2^(w - i)) % 2]
Zeros(w) == [i \in 1..w |-> 0]
Ones(w) == [i \in 1..w |-> 1]

(* The order of the field is 2^254 and a little: with another bit a number *)
(* is reduced, and what it was cannot be told.                             *)
Number(bits) ==
  LET ones == {i \in DOMAIN bits : bits[i] = 1}
      digits == IF ones = {} THEN <<>> ELSE SubSeq(bits, Min(ones), Len(bits))
  IN [number |-> IF Len(digits) < 255 THEN digits ELSE <<2>>]
Zero == Number(<<>>)
One == Number(<<1>>)

(* The sponge takes two elements at a time and fills up with zero; it does *)
(* not take the length.                                                    *)
Even(data) == IF Len(data) % 2 = 0 THEN data ELSE Append(data, Zero)
hash_noinput(prefix) == [prefix |-> prefix]
hash_with_prefix(prefix, data) == [prefix |-> prefix, data |-> Even(data)]

DUMMY_HASH == [dummy |-> "verification key"]
EmptyKey == [x |-> Zero, is_odd |-> FALSE]

-------------------------------------------------------------------------------
(* PackedInput: field elements, and bits in the pieces they came in. *)
Field(f) == [fields |-> <<f>>, bits |-> <<>>]
Word(bits) == [fields |-> <<>>, bits |-> <<bits>>]
Bool(b) == Word(IF b THEN <<1>> ELSE <<0>>)
Packed(inputs) ==
  [fields |-> FlattenSeq([i \in DOMAIN inputs |-> inputs[i].fields]),
   bits |-> FlattenSeq([i \in DOMAIN inputs |-> inputs[i].bits])]

(* append_bytes: the first byte is the least significant. *)
Bytes(bytes) == Word(FlattenSeq(Reverse([i \in DOMAIN bytes |-> Bits(bytes[i], 8)])))

\* The mistake of filling an element up to the last of its 255 bits.
pack_to_fields_Full(input) ==
  LET packed[i \in 0..Len(input.bits)] ==
        IF i = 0 THEN [done |-> <<>>, current |-> <<>>]
        ELSE LET before == packed[i - 1]
                 piece == input.bits[i]
             IN IF Len(before.current) + Len(piece) <= 255
                THEN [before EXCEPT !.current = @ \o piece]
                ELSE [done |-> Append(before.done, Number(before.current)), current |-> piece]
      last == packed[Len(input.bits)]
  IN IF input.bits = <<>> THEN input.fields
     ELSE input.fields \o Append(last.done, Number(last.current))

pack_to_fields(input) ==
  LET packed[i \in 0..Len(input.bits)] ==
        IF i = 0 THEN [done |-> <<>>, current |-> <<>>]
        ELSE LET before == packed[i - 1]
                 piece == input.bits[i]
             IN IF Len(before.current) + Len(piece) < 255
                THEN [before EXCEPT !.current = @ \o piece]
                ELSE [done |-> Append(before.done, Number(before.current)), current |-> piece]
      last == packed[Len(input.bits)]
  IN IF input.bits = <<>> THEN input.fields
     ELSE input.fields \o Append(last.done, Number(last.current))

(* Bits of the bytes of a string, from the least significant of each. *)
BitsOfBytes(bytes) == FlattenSeq([i \in DOMAIN bytes |-> Reverse(Bits(bytes[i], 8))])

(* Chunks of 254 bits, the first bit of each the least significant. *)
pack_bool_to_field_legacy(bits) ==
  [c \in 1..((Len(bits) + 253) \div 254) |->
     Number(Reverse(SubSeq(bits, 254 * (c - 1) + 1,
                           IF 254 * c < Len(bits) THEN 254 * c ELSE Len(bits))))]
memo_hash(memo) ==
  hash_with_prefix("MinaZkappMemo", pack_bool_to_field_legacy(BitsOfBytes(memo)))

-------------------------------------------------------------------------------
(* What an Option packs to: a flag, and the value or the empty input of    *)
(* its type, which has to be of the same sizes.                            *)
Option(option, packed(_), empty) ==
  Packed(<<Bool(option # <<>>), IF option = <<>> THEN empty ELSE packed(option[1])>>)

PublicKey(key) == Packed(<<Field(key.x), Bool(key.is_odd)>>)
RangeCondition(range) == Packed(<<Word(range.lower), Word(range.upper)>>)

OptionBool(b) == Option(b, Bool, Bool(FALSE))
OptionField(f) == Option(f, Field, Field(Zero))
OptionKey(key) == Option(key, PublicKey, PublicKey(EmptyKey))
OptionRange(range, w) ==
  Option(range, RangeCondition, RangeCondition([lower |-> Zeros(w), upper |-> Ones(w)]))
ActionState(state) ==
  Option(state, Field, Field(hash_noinput("MinaZkappActionStateEmptyElt")))
AppState(state) == Packed([i \in 1..APP_STATE_LENGTH |-> OptionField(state[i])])

AuthRequired == {"None", "Either", "Proof", "Signature", "Impossible", "Both"}
\* The mistake of taking Both, which is left over, for Impossible.
encode_Both(auth) ==
  [constant |-> auth \in {"None", "Impossible", "Both"},
   signature_necessary |-> auth \in {"Signature", "Impossible", "Both"},
   signature_sufficient |-> auth \in {"None", "Either", "Signature"}]
encode(auth) ==
  [constant |-> auth \in {"None", "Impossible"},
   signature_necessary |-> auth \in {"Signature", "Impossible", "Both"},
   signature_sufficient |-> auth \in {"None", "Either", "Signature"}]
Auth(auth) ==
  Packed(<<Bool(encode(auth).constant), Bool(encode(auth).signature_necessary),
           Bool(encode(auth).signature_sufficient)>>)

SetVerificationKey(set) == Packed(<<Auth(set.auth), Word(set.txn_version)>>)
PermissionOrder ==
  <<"edit_state", "access", "send", "receive", "set_delegate", "set_permissions",
    "set_verification_key", "set_zkapp_uri", "edit_action_state", "set_token_symbol",
    "increment_nonce", "set_voting_for", "set_timing">>
Permissions(permissions) ==
  Packed([i \in DOMAIN PermissionOrder |->
    IF PermissionOrder[i] = "set_verification_key"
    THEN SetVerificationKey(permissions.set_verification_key)
    ELSE Auth(permissions[PermissionOrder[i]])])
EmptyPermissions ==
  [member \in ToSet(PermissionOrder) |->
    IF member = "set_verification_key"
    THEN [auth |-> "None", txn_version |-> Bits(TXN_VERSION_CURRENT, 32)] ELSE "None"]

TimingData(timing) ==
  Packed(<<Word(timing.initial_minimum_balance), Word(timing.cliff_time),
           Word(timing.cliff_amount), Word(timing.vesting_period),
           Word(timing.vesting_increment)>>)
EmptyTiming ==
  [initial_minimum_balance |-> Zeros(64), cliff_time |-> Zeros(32),
   cliff_amount |-> Zeros(64), vesting_period |-> Zeros(32), vesting_increment |-> Zeros(64)]

(* At most six bytes (from_str), filled up with zeros. *)
SixBytes(symbol) == [i \in 1..6 |-> IF i <= Len(symbol) THEN symbol[i] ELSE 0]
TokenSymbol(symbol) == Bytes(SixBytes(symbol))

UriInput(uri) ==
  LET bits == Append(BitsOfBytes(uri), 1)
  IN [fields |-> <<>>, bits |-> [i \in DOMAIN bits |-> <<bits[i]>>]]
ZkappUri(uri) == Field(hash_with_prefix("MinaZkappUri", pack_to_fields(UriInput(uri))))
EmptyUri == Field(hash_with_prefix("MinaZkappUri", <<Zero, Zero>>))

(* Lists of events or actions, hashed from the last. *)
EventList(events, empty, prefix) ==
  Field(FoldRight(LAMBDA event, acc :
                    hash_with_prefix(prefix, <<acc, hash_with_prefix("MinaZkappEvent", event)>>),
                  events, hash_noinput(empty)))
Events(events) == EventList(events, "MinaZkappEventsEmpty", "MinaZkappEvents")
Actions(actions) == EventList(actions, "MinaZkappActionsEmpty", "MinaZkappSeqEvents")

UpdateInput(update) ==
  Packed(<<AppState(update.app_state),
           OptionKey(update.delegate),
           Option(update.verification_key, LAMBDA key : Field(key.hash), Field(Zero)),
           Option(update.permissions, Permissions, Permissions(EmptyPermissions)),
           Option(update.zkapp_uri, ZkappUri, EmptyUri),
           Option(update.token_symbol, TokenSymbol, TokenSymbol(<<>>)),
           Option(update.timing, TimingData, TimingData(EmptyTiming)),
           OptionField(update.voting_for)>>)

-------------------------------------------------------------------------------
EpochData(epoch) ==
  Packed(<<OptionField(epoch.ledger.hash), OptionRange(epoch.ledger.total_currency, 64),
           OptionField(epoch.seed), OptionField(epoch.start_checkpoint),
           OptionField(epoch.lock_checkpoint), OptionRange(epoch.epoch_length, 32)>>)

NetworkPreconditions(network) ==
  Packed(<<OptionField(network.snarked_ledger_hash),
           OptionRange(network.blockchain_length, 32),
           OptionRange(network.min_window_density, 32),
           OptionRange(network.total_currency, 64),
           OptionRange(network.global_slot_since_genesis, 32),
           EpochData(network.staking_epoch_data), EpochData(network.next_epoch_data)>>)

AccountPreconditions(account) ==
  Packed(<<OptionRange(account.balance, 64), OptionRange(account.nonce, 32),
           OptionField(account.receipt_chain_hash), OptionKey(account.delegate),
           AppState(account.state), ActionState(account.action_state),
           OptionBool(account.proved_state), OptionBool(account.is_new)>>)

BalanceChange(change) == Packed(<<Word(change.magnitude), Bool(change.sgn = 1)>>)
MayUseToken(may) == Packed(<<Bool(may.parents_own_token), Bool(may.inherit_from_parent)>>)
AuthorizationKind(kind) ==
  Packed(<<Bool(kind.is_signed), Bool(kind.is_proved), Field(kind.verification_key_hash)>>)

AccountUpdateInput(body) ==
  Packed(<<PublicKey(body.public_key), Field(body.token_id), UpdateInput(body.update),
           BalanceChange(body.balance_change), Bool(body.increment_nonce),
           Events(body.events), Actions(body.actions), Field(body.call_data),
           NetworkPreconditions(body.preconditions.network),
           AccountPreconditions(body.preconditions.account),
           OptionRange(body.preconditions.valid_while, 32),
           Bool(body.use_full_commitment), Bool(body.implicit_account_creation_fee),
           MayUseToken(body.may_use_token), AuthorizationKind(body.authorization_kind)>>)

hash_account_update(body) ==
  hash_with_prefix(BodyPrefix, pack_to_fields(AccountUpdateInput(body)))

-------------------------------------------------------------------------------
(* The bodies that Default makes, and the one a fee payer is turned into. *)
NoneOf(n) == [i \in 1..n |-> <<>>]
DefaultUpdate ==
  [app_state |-> NoneOf(APP_STATE_LENGTH), delegate |-> <<>>, verification_key |-> <<>>,
   permissions |-> <<>>, zkapp_uri |-> <<>>, token_symbol |-> <<>>, timing |-> <<>>,
   voting_for |-> <<>>]
DefaultEpoch ==
  [ledger |-> [hash |-> <<>>, total_currency |-> <<>>], seed |-> <<>>,
   start_checkpoint |-> <<>>, lock_checkpoint |-> <<>>, epoch_length |-> <<>>]
DefaultPreconditions ==
  [network |-> [snarked_ledger_hash |-> <<>>, blockchain_length |-> <<>>,
                min_window_density |-> <<>>, total_currency |-> <<>>,
                global_slot_since_genesis |-> <<>>,
                staking_epoch_data |-> DefaultEpoch, next_epoch_data |-> DefaultEpoch],
   account |-> [balance |-> <<>>, nonce |-> <<>>, receipt_chain_hash |-> <<>>,
                delegate |-> <<>>, state |-> NoneOf(APP_STATE_LENGTH),
                action_state |-> <<>>, proved_state |-> <<>>, is_new |-> <<>>],
   valid_while |-> <<>>]
DefaultBody ==
  [public_key |-> EmptyKey, token_id |-> One, update |-> DefaultUpdate,
   balance_change |-> [magnitude |-> Zeros(64), sgn |-> 1], increment_nonce |-> FALSE,
   events |-> <<>>, actions |-> <<>>, call_data |-> Zero, call_depth |-> 0,
   preconditions |-> DefaultPreconditions,
   use_full_commitment |-> FALSE, implicit_account_creation_fee |-> FALSE,
   may_use_token |-> [parents_own_token |-> FALSE, inherit_from_parent |-> FALSE],
   authorization_kind |-> [is_signed |-> TRUE, is_proved |-> FALSE,
                           verification_key_hash |-> DUMMY_HASH]]

LastSlot(fee_payer) == IF fee_payer.valid_until = <<>> THEN Ones(32) ELSE fee_payer.valid_until[1]
AccountUpdateFrom(fee_payer) ==
  [DefaultBody EXCEPT
     !.public_key = fee_payer.public_key,
     !.balance_change = [magnitude |-> fee_payer.fee, sgn |-> -1],
     !.increment_nonce = TRUE,
     !.preconditions.network.global_slot_since_genesis =
        <<[lower |-> Zeros(32), upper |-> LastSlot(fee_payer)]>>,
     !.preconditions.account.nonce =
        <<[lower |-> fee_payer.nonce, upper |-> fee_payer.nonce]>>,
     !.use_full_commitment = TRUE,
     !.implicit_account_creation_fee = TRUE]

-------------------------------------------------------------------------------
(* The values of F are the same only where those of what it keeps are. *)
SameOnlyIf(F(_), kept(_), S) ==
  Cardinality({F(s) : s \in S}) = Cardinality({kept(s) : s \in S})
  /\ Cardinality({F(s) : s \in S}) = Cardinality({<<F(s), kept(s)>> : s \in S})

(* What a signature does not cover: the depth of the call, which the       *)
(* forest has, and the data of a verification key, of which it has the     *)
(* hash; a fee payer without valid_until has the last slot there is.  Nor  *)
(* does it cover where a text ends: a symbol and an event are not told from*)
(* what they are filled up to, and bits of a URI that are zero in front of *)
(* its last element, after whole ones of 254 bits, may be there or not.    *)
UriElements(uri) ==
  LET bits == Append(BitsOfBytes(uri), 1)
  IN [c \in 1..((Len(bits) + 253) \div 254) |->
        Number(SubSeq(bits, 254 * (c - 1) + 1,
                      IF 254 * c < Len(bits) THEN 254 * c ELSE Len(bits)))]
EvenLists(events) == [i \in DOMAIN events |-> Even(events[i])]
KeptUpdate(update) ==
  [update EXCEPT
     !.verification_key = IF @ = <<>> THEN @ ELSE <<[@[1] EXCEPT !.data = ""]>>,
     !.zkapp_uri = IF @ = <<>> THEN @ ELSE <<UriElements(@[1])>>,
     !.token_symbol = IF @ = <<>> THEN @ ELSE <<SixBytes(@[1])>>]
Kept(body) ==
  [body EXCEPT !.call_depth = 0, !.update = KeptUpdate(@),
               !.events = EvenLists(@), !.actions = EvenLists(@)]

(* Two bodies, fee payers or memos that differ are hashed differently. *)
HashedApart ==
  /\ SameOnlyIf(hash_account_update, Kept, Bodies)
  /\ SameOnlyIf(LAMBDA f : hash_account_update(AccountUpdateFrom(f)),
                LAMBDA f : [f EXCEPT !.valid_until = <<LastSlot(f)>>], FeePayerBodies)
  /\ SameOnlyIf(memo_hash, LAMBDA memo : memo, Memos)

(* Reading packed elements back by the sizes of the pieces alone: the      *)
(* element of each piece and its offset there, and the elements' widths.   *)
Places(sizes) ==
  LET places[i \in 0..Len(sizes)] ==
        IF i = 0 THEN [widths |-> <<>>, element |-> <<>>, offset |-> <<>>]
        ELSE LET before == places[i - 1]
                 n == Len(before.widths)
                 width == IF n = 0 THEN 255 ELSE before.widths[n]
             IN IF width + sizes[i] < 255
                THEN [widths |-> [before.widths EXCEPT ![n] = @ + sizes[i]],
                      element |-> Append(before.element, n),
                      offset |-> Append(before.offset, width)]
                ELSE [widths |-> Append(before.widths, sizes[i]),
                      element |-> Append(before.element, n + 1),
                      offset |-> Append(before.offset, 0)]
  IN places[Len(sizes)]
Digit(number, place) ==
  IF place <= Len(number) THEN number[Len(number) + 1 - place] ELSE 0
Unpack(elements, sizes, places) ==
  [i \in DOMAIN sizes |->
    LET number == elements[places.element[i]].number
        end == places.widths[places.element[i]] - places.offset[i] + 1
    IN [d \in 1..sizes[i] |-> Digit(number, end - d)]]

ReadsBack(input) ==
  LET sizes == [i \in DOMAIN input.bits |-> Len(input.bits[i])]
      places == Places(sizes)
      packed == pack_to_fields(input)
      elements == SubSeq(packed, Len(input.fields) + 1, Len(packed))
  IN /\ Len(elements) = Len(places.widths)
     /\ Unpack(elements, sizes, places) = input.bits

(* Bodies are all laid out alike, and the pieces can be read back. *)
PackedReadsBack ==
  /\ \A body \in Bodies :
       LET input == AccountUpdateInput(body)
           default == AccountUpdateInput(DefaultBody)
       IN /\ Len(input.fields) = Len(default.fields) /\ Len(input.bits) = Len(default.bits)
          /\ \A i \in DOMAIN input.bits : Len(input.bits[i]) = Len(default.bits[i])
          /\ ReadsBack(input)
  /\ \A uri \in Uris : ReadsBack(UriInput(uri))
===============================================================================
