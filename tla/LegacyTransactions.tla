-------------------------- MODULE LegacyTransactions --------------------------
(***************************************************************************)
(* Payments and delegations in their three forms: the document that is     *)
(* read and written as JSON, the transaction that is hashed and signed,    *)
(* and the GraphQL input from which a node builds the transaction again.   *)
(*                                                                         *)
(* A string is the sequence of its UTF-8 bytes; an Option a sequence of at *)
(* most one value.  Numbers of documents are those that parse.             *)
(***************************************************************************)
EXTENDS Naturals, Sequences, FiniteSets

CONSTANTS
  MEMO_BYTES,   \* 34: a version byte, a length byte and the text
  NoExpiry      \* the last slot there is, u32::MAX

ASSUME MemoAssumption == MEMO_BYTES \in 2..257 /\ NoExpiry \in Nat

PAYMENT_TX_TAG == <<FALSE, FALSE, FALSE>>
DELEGATION_TX_TAG == <<FALSE, FALSE, TRUE>>

Byte == 0..255
Optional(S) == {o \in Seq(S) : Len(o) <= 1}

LegacyTransaction(keys) ==
  [tag : {"Legacy"}, kind : {PAYMENT_TX_TAG, DELEGATION_TX_TAG},
   source_pk : keys, receiver_pk : keys, fee_payer_pk : keys,
   fee : Nat, fee_token : Nat, nonce : Nat, valid_until : Nat,
   memo : [1..MEMO_BYTES -> Byte], token_id : Nat, amount : Nat, token_locked : BOOLEAN]

LegacyDocument(keys) ==
  [tag : {"Legacy"}, kind : BOOLEAN \X BOOLEAN \X BOOLEAN, from : keys, to : keys,
   fee : Nat, amount : Optional(Nat), nonce : Nat, valid_until : Nat, memo : Seq(Byte)]

(* new_payment and new_delegation differ in the tag and the amount. *)
NewTransaction(kind, from, to, amount, fee, nonce) ==
  [tag |-> "Legacy", kind |-> kind, source_pk |-> from, receiver_pk |-> to,
   fee_payer_pk |-> from, fee |-> fee, fee_token |-> 1, nonce |-> nonce,
   valid_until |-> NoExpiry, memo |-> [i \in 1..MEMO_BYTES |-> IF i = 1 THEN 1 ELSE 0],
   token_id |-> 1, amount |-> amount, token_locked |-> FALSE]
new_payment(from, to, amount, fee, nonce) ==
  NewTransaction(PAYMENT_TX_TAG, from, to, amount, fee, nonce)
new_delegation(from, to, fee, nonce) ==
  NewTransaction(DELEGATION_TX_TAG, from, to, 0, fee, nonce)

(* set_memo_str refuses a text of too many bytes; it pads by characters    *)
(* and copies bytes, which panics when the two numbers differ.             *)
Characters(text) == Cardinality({i \in DOMAIN text : text[i] \notin 128..191})
memo_fits(text) == Len(text) <= MEMO_BYTES - 2 /\ Characters(text) = Len(text)
set_memo_str(text) ==
  [i \in 1..MEMO_BYTES |->
     IF i = 1 THEN 1
     ELSE IF i = 2 THEN Len(text)
     ELSE IF i - 2 <= Len(text) THEN text[i - 2] ELSE 0]
get_memo_string(tx) == SubSeq(tx.memo, 3, 2 + tx.memo[2])

(* Where deserialize returns no error. *)
readable(document) ==
  /\ memo_fits(document.memo)
  /\ \/ document.kind = PAYMENT_TX_TAG /\ document.amount # <<>>
     \/ document.kind = DELEGATION_TX_TAG /\ document.amount = <<>>
deserialize(document) ==
  LET new == IF document.kind = DELEGATION_TX_TAG
             THEN new_delegation(document.from, document.to, document.fee, document.nonce)
             ELSE new_payment(document.from, document.to, document.amount[1],
                              document.fee, document.nonce)
  IN [new EXCEPT !.memo = set_memo_str(document.memo), !.valid_until = document.valid_until]

\* The mistake of writing the amount of a delegation, too.
serialize_Amount(tx) ==
  [tag |-> "Legacy", kind |-> tx.kind, from |-> tx.source_pk, to |-> tx.receiver_pk,
   fee |-> tx.fee, amount |-> <<tx.amount>>,
   nonce |-> tx.nonce, valid_until |-> tx.valid_until, memo |-> get_memo_string(tx)]
serialize(tx) ==
  [tag |-> "Legacy", kind |-> tx.kind, from |-> tx.source_pk, to |-> tx.receiver_pk,
   fee |-> tx.fee, amount |-> IF tx.kind = DELEGATION_TX_TAG THEN <<>> ELSE <<tx.amount>>,
   nonce |-> tx.nonce, valid_until |-> tx.valid_until, memo |-> get_memo_string(tx)]

\* The mistake of leaving out the tag.
to_roinput_NoTag(tx) ==
  <<tx.fee_payer_pk, tx.source_pk, tx.receiver_pk, tx.fee, tx.fee_token, tx.nonce,
    tx.valid_until, tx.memo, tx.token_id, tx.amount, tx.token_locked>>
to_roinput(tx) ==
  <<tx.fee_payer_pk, tx.source_pk, tx.receiver_pk, tx.fee, tx.fee_token, tx.nonce,
    tx.valid_until, tx.memo, tx.kind, tx.token_id, tx.amount, tx.token_locked>>

(* The input of the mutations sendDelegation and sendPayment. *)
\* Mistake: the delegation never expires.
SendDelegationInput_NoExpiry(tx) ==
  [mutation |-> "sendDelegation", from |-> tx.source_pk, to |-> tx.receiver_pk,
   amount |-> <<>>, fee |-> tx.fee, nonce |-> <<tx.nonce>>,
   memo |-> <<get_memo_string(tx)>>, validUntil |-> <<>>]
SendDelegationInput(tx) ==
  [mutation |-> "sendDelegation", from |-> tx.source_pk, to |-> tx.receiver_pk,
   amount |-> <<>>, fee |-> tx.fee, nonce |-> <<tx.nonce>>,
   memo |-> <<get_memo_string(tx)>>, validUntil |-> <<tx.valid_until>>]
SendPaymentInput(tx) ==
  [mutation |-> "sendPayment", from |-> tx.source_pk, to |-> tx.receiver_pk,
   amount |-> <<tx.amount>>, fee |-> tx.fee, nonce |-> <<tx.nonce>>,
   memo |-> <<get_memo_string(tx)>>, validUntil |-> <<tx.valid_until>>]
is_delegation(tx) == tx.kind = DELEGATION_TX_TAG
to_graphql_query_json(tx) ==
  IF is_delegation(tx) THEN SendDelegationInput(tx) ELSE SendPaymentInput(tx)

(* The transaction a node builds of the input, with its own defaults. *)
NodeMemo(text) ==
  <<1, Len(text)>> \o text \o [i \in 1..(MEMO_BYTES - 2 - Len(text)) |-> 0]
Given(option, default) == IF option = <<>> THEN default ELSE option[1]
Submitted(input, next_nonce) ==
  [tag |-> "Legacy",
   kind |-> IF input.mutation = "sendDelegation" THEN DELEGATION_TX_TAG ELSE PAYMENT_TX_TAG,
   source_pk |-> input.from, receiver_pk |-> input.to, fee_payer_pk |-> input.from,
   fee |-> input.fee, fee_token |-> 1, nonce |-> Given(input.nonce, next_nonce),
   valid_until |-> Given(input.validUntil, NoExpiry),
   memo |-> NodeMemo(Given(input.memo, <<>>)),
   token_id |-> 1, amount |-> Given(input.amount, 0), token_locked |-> FALSE]
===============================================================================
