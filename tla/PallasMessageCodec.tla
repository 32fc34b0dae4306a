-------------------------- MODULE PallasMessageCodec --------------------------
(***************************************************************************)
(* The message that is hashed into the challenge goes through frost_core   *)
(* as bytes: signers and coordinator serialize it, challenge() reads it    *)
(* back.  The input of the hash function is its own serialization, and the *)
(* bytes of names are those of ASCII, which are UTF-8.                     *)
(***************************************************************************)
EXTENDS Naturals, Sequences

CONSTANT MAX_PREFIX_LENGTH   \* of the name of a network

Byte == 0..255
NetworkId ==
  [kind : {"Testnet", "Mainnet"}, name : {<<>>}] \cup [kind : {"Custom"}, name : Seq(0..127)]
PallasMessage == [input : Seq(Byte), network_id : NetworkId, is_legacy : BOOLEAN]

Error == [error |-> "DeSerializationError"]
Panic == [error |-> "index out of bounds"]

(* serialize() returns an error for a long name. *)
serializable(m) == Len(m.network_id.name) <= MAX_PREFIX_LENGTH

network_bytes(n) ==
  CASE n.kind = "Testnet" -> <<0>>
    [] n.kind = "Mainnet" -> <<1>>
    [] n.kind = "Custom" -> <<2, Len(n.name)>> \o n.name
\* The length of an input is cast to 32 bits.
FitsU32(n) == n \div 256^3 < 256
u32_to_le_bytes(n) == [k \in 1..4 |-> (n \div 256^(k - 1)) % 256]
serialize(m) ==
  <<1>> \o network_bytes(m.network_id) \o <<IF m.is_legacy THEN 1 ELSE 0>>
    \o u32_to_le_bytes(Len(m.input)) \o m.input

(* The first bytes are right, a name included; where the flag is then. *)
network_id_ok(b) ==
  /\ Len(b) >= 3 /\ b[1] = 1 /\ b[2] \in 0..2
  /\ b[2] = 2 => b[3] <= MAX_PREFIX_LENGTH /\ Len(b) >= 3 + b[3]
\* Mistake: the length byte of a name is not counted.
flag_index_NoLength(b) == IF b[2] = 2 THEN 3 + b[3] ELSE 3
flag_index(b) == IF b[2] = 2 THEN 4 + b[3] ELSE 3

u32_from_le_bytes(b, start) == b[start] + 256 * b[start + 1] + 65536 * b[start + 2]
                                 + 16777216 * b[start + 3]

deserialize(b) ==
  LET flag == flag_index(b)
  IN IF ~network_id_ok(b) THEN Error
     ELSE IF flag > Len(b) THEN Panic
     ELSE IF \/ b[flag] \notin 0..1 \/ Len(b) < flag + 4
             \/ Len(b) # flag + 4 + u32_from_le_bytes(b, flag + 1)
          THEN Error
     ELSE [input |-> SubSeq(b, flag + 5, Len(b)), is_legacy |-> b[flag] = 1,
           network_id |-> [kind |-> <<"Testnet", "Mainnet", "Custom">>[b[2] + 1],
                           name |-> SubSeq(b, 4, flag - 1)]]

(* What challenge() hashes: bytes it cannot read count as a legacy message. *)
from_raw_bytes_default(b) ==
  [input |-> b, network_id |-> [kind |-> "Testnet", name |-> <<>>], is_legacy |-> TRUE]
message_read(b) == IF deserialize(b) = Error THEN from_raw_bytes_default(b) ELSE deserialize(b)
===============================================================================
