-------------------------------- MODULE MCEvenY --------------------------------
(* The instance of EvenY and HashInputs for TLC: a group of order 7. *)
EXTENDS HashInputs

\* The squares modulo 7: of a number and its negative one is a square.
Squares == {(s * s) % 7 : s \in 0..6}

\* Hashes: something that depends on all that is hashed.
H1Of(i, p) ==
  (1 + i * i + MapThenSumSet(LAMBDA j : (j + 1) * p[j].hiding + 3 * j * p[j].binding, DOMAIN p)) % 7
H2Of(xs, pk, m) ==
  (1 + MapThenSumSet(LAMBDA E : E * E, xs) + 3 * pk + Len(m.input)
     + Len(m.network_id.name) + (IF m.is_legacy THEN 2 ELSE 0)
     + (CASE m.network_id.kind = "Testnet" -> 0 [] m.network_id.kind = "Mainnet" -> 3
          [] OTHER -> 4)) % 7

\* A name of n bytes; an input of n bytes.
Custom(n) == [kind |-> "Custom", name |-> [k \in 1..n |-> 97]]
Message(network, legacy, n) ==
  [input |-> [k \in 1..n |-> k % 256], network_id |-> network, is_legacy |-> legacy]
SomeMessages ==
  {Message([kind |-> "Mainnet", name |-> <<>>], FALSE, 300), Message(Custom(20), TRUE, 0),
   Message(Custom(21), FALSE, 5)}

Lines == {<<s, a>> : s \in 1..6, a \in {0, 3, 5}}
SomeNonces == {[hiding |-> n[1], binding |-> n[2]] : n \in {<<1, 2>>, <<3, 3>>, <<6, 1>>, <<4, 5>>}}

\* Segments that end in zeros, or look like lengths of others.
Strings == UNION {[1..n -> 0..1] : n \in 0..3} \cup {<<2, 0, 0, 0, 0, 0, 0, 0>>}
SomeSegmentations == UNION {[1..n -> Strings] : n \in 0..3}
\* Names that end like a suffix or like its padding, and the longest ones.
Letters == {83, 90, PADDING_CHAR}
SomeNames ==
  UNION {[1..n -> Letters] : n \in 0..3}
    \cup {Text.Signature, Text.ZkappBody, <<90>> \o Text.Signature, Text.Coda, Text.Mainnet,
          Text.Mina \o <<83, 105, 103, 110, 97, 116, 117>>, [k \in 1..11 |-> 97],
          [k \in 1..11 |-> PADDING_CHAR], [k \in 1..12 |-> 97]}
================================================================================
