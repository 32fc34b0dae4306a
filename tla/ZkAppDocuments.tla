---------------------------- MODULE ZkAppDocuments ----------------------------
(***************************************************************************)
(* zkApp commands as JSON: what each member is written as, and what is     *)
(* read of it again in the next session, by every participant and by the   *)
(* node.  A field element, a key, a word of an enum stand for their text;  *)
(* a decimal is the number without its width; Base58 text is its bytes and *)
(* their checksum.                                                         *)
(* A text that is refused reads as the empty sequence.                     *)
(***************************************************************************)
EXTENDS Packing

CONSTANTS
  MEMO_VERSION_BYTE, TOKEN_ID_VERSION_BYTE, SIGNATURE_VERSION_BYTE,   \* 20, 28, 154
  Sigs          \* signatures: the abscissa of R and the scalar

Decimal(bits) == Number(bits).number
ReadDecimal(digits, w) == IF Len(digits) <= w THEN Zeros(w - Len(digits)) \o digits ELSE <<>>

(* A checksum is a term, as hashes are: it is another one for other bytes. *)
(* With fewer than the four bytes of the checksum and the one of the       *)
(* version a text is too short.                                            *)
compute_checksum(input) == [double_sha256 |-> input]
to_base58_check(input, version) ==
  LET data == <<version>> \o input IN [data |-> data, checksum |-> compute_checksum(data)]
from_base58_check(text, version) ==
  IF text.data # <<>> /\ Head(text.data) = version /\ text.checksum = compute_checksum(text.data)
  THEN Tail(text.data) ELSE <<>>

WriteMemo(memo) == to_base58_check(memo, MEMO_VERSION_BYTE)
ReadMemo(text) ==
  LET decoded == from_base58_check(text, MEMO_VERSION_BYTE)
  IN IF Len(decoded) = 34 /\ decoded[1] = 1 THEN decoded ELSE <<>>

(* Token ids are 32 bytes, the first the least significant. *)
ByteAt(number, i) ==
  SumFunction([place \in 1..8 |-> 2^(place - 1) * Digit(number, 8 * (i - 1) + place)])
LittleEndian(n) == [i \in 1..32 |-> ByteAt(n.number, i)]
FromLittleEndian(bytes) ==
  Number(FlattenSeq([i \in 1..32 |-> Bits(bytes[33 - i], 8)]))
WriteTokenId(id) == to_base58_check(LittleEndian(id), TOKEN_ID_VERSION_BYTE)
\* The mistake of reading the bytes in the other order.
ReadTokenId_BigEndian(text) ==
  LET decoded == from_base58_check(text, TOKEN_ID_VERSION_BYTE)
  IN IF Len(decoded) = 32
     THEN Number(FlattenSeq([i \in 1..32 |-> Bits(decoded[i], 8)])) ELSE <<>>
ReadTokenId(text) ==
  LET decoded == from_base58_check(text, TOKEN_ID_VERSION_BYTE)
  IN IF Len(decoded) = 32 THEN FromLittleEndian(decoded) ELSE <<>>

(* A signature inside a command: two numbers after a version number.  The  *)
(* node reads it; this program only ever writes it.                        *)
SIGNATURE_VERSION_NUMBER == 1
to_base58(sig) ==
  to_base58_check(<<SIGNATURE_VERSION_NUMBER>> \o LittleEndian(sig.field)
                    \o LittleEndian(sig.scalar), SIGNATURE_VERSION_BYTE)
NodeSignature(text) ==
  LET decoded == from_base58_check(text, SIGNATURE_VERSION_BYTE)
  IN IF Len(decoded) = 65 /\ decoded[1] = 1
     THEN [field |-> FromLittleEndian(SubSeq(decoded, 2, 33)),
           scalar |-> FromLittleEndian(SubSeq(decoded, 34, 65))]
     ELSE <<>>

WriteSign(sgn) == IF sgn > 0 THEN "Positive" ELSE "Negative"
ReadSign(word) == CASE word = "Positive" -> 1 [] word = "Negative" -> -1 [] OTHER -> <<>>

(* A symbol has at most six bytes; a URI has no limit. *)
ReadSymbol(text) == IF Len(text) <= 6 THEN <<text>> ELSE <<>>

-------------------------------------------------------------------------------
(* The decimals of a body: what becomes of those that are w bits wide. *)
MapRange(range, w, F(_, _)) ==
  [i \in DOMAIN range |-> [lower |-> F(range[i].lower, w), upper |-> F(range[i].upper, w)]]
MapEpoch(epoch, F(_, _)) ==
  [epoch EXCEPT !.ledger.total_currency = MapRange(@, 64, F),
                !.epoch_length = MapRange(@, 32, F)]
MapPreconditions(preconditions, F(_, _)) ==
  [preconditions EXCEPT
     !.network.blockchain_length = MapRange(@, 32, F),
     !.network.min_window_density = MapRange(@, 32, F),
     !.network.total_currency = MapRange(@, 64, F),
     !.network.global_slot_since_genesis = MapRange(@, 32, F),
     !.network.staking_epoch_data = MapEpoch(@, F),
     !.network.next_epoch_data = MapEpoch(@, F),
     !.account.balance = MapRange(@, 64, F),
     !.account.nonce = MapRange(@, 32, F),
     !.valid_while = MapRange(@, 32, F)]
MapPermissions(permissions, F(_, _)) ==
  [i \in DOMAIN permissions |->
     [permissions[i] EXCEPT !["set_verification_key"].txn_version = F(@, 32)]]

Written(bits, w) == Decimal(bits)
WriteBody(body) ==
  [body EXCEPT
     !.token_id = WriteTokenId(@),
     !.update.permissions = MapPermissions(@, Written),
     !.balance_change = [magnitude |-> Decimal(@.magnitude), sgn |-> WriteSign(@.sgn)],
     !.preconditions = MapPreconditions(@, Written)]
ReadBody(document) ==
  [document EXCEPT
     !.token_id = ReadTokenId(@),
     !.update.permissions = MapPermissions(@, ReadDecimal),
     !.update.token_symbol = IF @ = <<>> THEN @ ELSE ReadSymbol(@[1]),
     !.balance_change = [magnitude |-> ReadDecimal(@.magnitude, 64), sgn |-> ReadSign(@.sgn)],
     !.preconditions = MapPreconditions(@, ReadDecimal)]

(* valid_until is null when there is none. *)
WriteFeePayer(body) ==
  [body EXCEPT !.fee = Decimal(@), !.nonce = Decimal(@),
               !.valid_until = [i \in DOMAIN @ |-> Decimal(@[i])]]
ReadFeePayer(document) ==
  [document EXCEPT !.fee = ReadDecimal(@, 64), !.nonce = ReadDecimal(@, 32),
                   !.valid_until = [i \in DOMAIN @ |-> ReadDecimal(@[i], 32)]]

-------------------------------------------------------------------------------
(* Members read as they were written; other text is refused. *)
ReadAsWritten ==
  /\ \A body \in Bodies : ReadBody(WriteBody(body)) = body
  /\ \A body \in FeePayerBodies : ReadFeePayer(WriteFeePayer(body)) = body
  /\ \A sig \in Sigs : NodeSignature(to_base58(sig)) = sig
  /\ \A memo \in Memos :
       /\ ReadMemo(WriteMemo(memo)) = memo
       /\ ReadTokenId(WriteMemo(memo)) = <<>>
       /\ \A i \in 1..35, wrong \in {0, 20, 28} :
            WriteMemo(memo).data[i] # wrong =>
              ReadMemo([WriteMemo(memo) EXCEPT !.data[i] = wrong]) = <<>>
===============================================================================
