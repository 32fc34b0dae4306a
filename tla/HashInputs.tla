------------------------------ MODULE HashInputs ------------------------------
(***************************************************************************)
(* What the two hashes of a signature are told apart by.  The suite hashes *)
(* byte strings for six purposes, of which EvenY has the binding factors;  *)
(* challenges and commitments are hashed under a domain that comes from    *)
(* the name of the network.  Text is the sequence of its bytes.            *)
(***************************************************************************)
EXTENDS EvenY, SequencesExt

CONSTANTS
  Segmentations,  \* sequences of byte strings to be hashed
  Names           \* names of networks

\* Lengths are those that u64_to_le_bytes writes.
ASSUME InputAssumption ==
  /\ IsFiniteSet(Segmentations)
  /\ \A segments \in Segmentations :
       /\ segments \in Seq(Seq(Byte)) /\ FitsU32(Len(segments))
       /\ \A i \in DOMAIN segments : FitsU32(Len(segments[i]))
\* The longest domain there is has room for, and no more than, that of Mainnet.
ASSUME DomainAssumption == MAX_PREFIX_LENGTH = 20 /\ Names \subseteq Seq(Byte)

Text == [bluepallas |-> <<98, 108, 117, 101, 112, 97, 108, 108, 97, 115>>,
         rho |-> <<114, 104, 111>>, nonce |-> <<110, 111, 110, 99, 101>>,
         msg |-> <<109, 115, 103>>, com |-> <<99, 111, 109>>,
         dkg |-> <<100, 107, 103>>, id |-> <<105, 100>>,
         Signature |-> <<83, 105, 103, 110, 97, 116, 117, 114, 101>>,
         ZkappBody |-> <<90, 107, 97, 112, 112, 66, 111, 100, 121>>,
         Mina |-> <<77, 105, 110, 97>>, Coda |-> <<67, 111, 100, 97>>,
         Mainnet |-> <<77, 97, 105, 110, 110, 101, 116>>,
         Testnet |-> <<84, 101, 115, 116, 110, 101, 116>>]

-------------------------------------------------------------------------------
(* PallasHashElement: how many segments, then each after its length. *)
u64_to_le_bytes(n) == u32_to_le_bytes(n) \o <<0, 0, 0, 0>>

\* Mistakes: the number, or the lengths, of the segments are left out.
HashElement_NoLengths(value) == u64_to_le_bytes(Len(value)) \o FlattenSeq(value)

HashElement(value) ==
  u64_to_le_bytes(Len(value))
    \o FlattenSeq([i \in DOMAIN value |-> u64_to_le_bytes(Len(value[i])) \o value[i]])

(* The bits become field elements of 254 bits, the last one and the last   *)
(* pair filled up with zeros; the length is not hashed.                    *)
Absorbed(bytes) ==
  SubSeq(bytes, 1, CHOOSE n \in 0..Len(bytes) :
                     /\ \A i \in n + 1..Len(bytes) : bytes[i] = 0
                     /\ n = 0 \/ bytes[n] # 0)

(* H1, H3, H4, H5, HDKG and HID; each takes a context and its own name.    *)
CONTEXT_STRING == Text.bluepallas
Purposes == {"rho", "nonce", "msg", "com", "dkg", "id"}
hashed_for(purpose, m) == <<CONTEXT_STRING, Text[purpose], m>>

-------------------------------------------------------------------------------
(* Domains are twenty bytes; the hasher fills up shorter ones as well.     *)
PADDING_CHAR == 42
create_custom_prefix(prefix) ==
  [i \in 1..MAX_PREFIX_LENGTH |-> IF i <= Len(prefix) THEN prefix[i] ELSE PADDING_CHAR]

\* Mistake: the name of the network is all there is to its domain.
into_domain_string_NameOnly(n) ==
  CASE n.kind = "Mainnet" -> Text.Mina \o Text.Signature \o Text.Mainnet
    [] n.kind = "Testnet" -> Text.Coda \o Text.Signature
    [] n.kind = "Custom"  -> create_custom_prefix(n.name)

into_domain_string(n) ==
  CASE n.kind = "Mainnet" -> Text.Mina \o Text.Signature \o Text.Mainnet
    [] n.kind = "Testnet" -> Text.Coda \o Text.Signature
    [] n.kind = "Custom"  -> create_custom_prefix(n.name \o Text.Signature)

ZkAppBodyPrefix(n) ==
  CASE n.kind = "Mainnet" -> create_custom_prefix(Text.Mainnet \o Text.ZkappBody)
    [] n.kind = "Testnet" -> create_custom_prefix(Text.Testnet \o Text.ZkappBody)
    [] n.kind = "Custom"  -> create_custom_prefix(n.name \o Text.ZkappBody)

Domain(prefix) == create_custom_prefix(prefix)

-------------------------------------------------------------------------------
(* Different inputs are different in the elements that Poseidon takes. *)
InputsApart ==
  LET bytes == UNION {{segments[i] : i \in DOMAIN segments} : segments \in Segmentations}
      inputs == Segmentations \cup {hashed_for(p, m) : p \in Purposes, m \in bytes}
  IN Cardinality({Absorbed(HashElement(value)) : value \in inputs}) = Cardinality(inputs)

(* The names of which create_custom_prefix cuts nothing, without those     *)
(* that have the domains of Mina's own networks.                           *)
Roomy(name) == Len(name) + Len(Text.Signature) <= MAX_PREFIX_LENGTH
Taken == {Text.Coda, Text.Mainnet, Text.Testnet}
NetworksOf(names) ==
  [kind : {"Mainnet", "Testnet"}, name : {<<>>}]
    \cup [kind : {"Custom"}, name : {n \in names \ Taken : Roomy(n)}]
NetworksApart ==
  \A m, n \in NetworksOf(Names) :
    /\ Domain(into_domain_string(m)) # Domain(ZkAppBodyPrefix(n))
    /\ m # n => /\ Domain(into_domain_string(m)) # Domain(into_domain_string(n))
                /\ Domain(ZkAppBodyPrefix(m)) # Domain(ZkAppBodyPrefix(n))

Signed == result # None /\ ~Failed

(* hasher.rs: the counts are there "to prevent padding and segmentation-   *)
(* based collision".  What a signature rests on are hashes of the suite:   *)
(* however segments are cut, whatever zeros they end in, and for whatever  *)
(* purpose they are hashed, different inputs stay different.               *)
HashInputsApart == Signed => InputsApart

(* A signature is for one network: up to 11 bytes names have domains of    *)
(* their own, for messages and for bodies of zkApps (into_domain_string,   *)
(* ZkAppBodyPrefix).  Longer names lose the end of the suffix.             *)
DomainsApart == Signed => NetworksApart
===============================================================================
