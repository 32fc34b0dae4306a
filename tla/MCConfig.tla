------------------------------- MODULE MCConfig -------------------------------
(* Instances of ConfigStore for TLC. *)
EXTENDS ConfigStore, TLC

CONSTANTS
  f,            \* a user's file
  d, e,         \* files that a trusted dealer also writes
  k1, k2, o,      \* keys: for init, and that of somebody else
  g, h          \* groups of key generation, and of the dealer

\* What a user does to one file from two terminals: among it imports of the
\* own keys, and of one key under two names.
Everyday ==
  {[op |-> "init", file |-> f],
   [op |-> "import", file |-> f, name |-> 1, key |-> o],
   [op |-> "import", file |-> f, name |-> 2, key |-> o],
   [op |-> "import", file |-> f, name |-> 2, key |-> k1],
   [op |-> "remove-contact", file |-> f, key |-> o],
   [op |-> "remove-group", file |-> f, group |-> g]}
    \cup {[op |-> "dkg", file |-> f, group |-> g, members |-> {o, k}] : k \in {k1, k2}}

\* The dealer is given two files, or one of them twice.
Deal(first, second) ==
  [op |-> "trusted-dealer", paths |-> <<first, second>>, names |-> <<1, 2>>, group |-> h]
Dealing ==
  {[op |-> "init", file |-> x] : x \in {d, e}}
    \cup {[op |-> "remove-contact", file |-> d, key |-> k] : k \in {k1, k2}}
    \cup {[op |-> "remove-group", file |-> d, group |-> h],
          [op |-> "import", file |-> d, name |-> 1, key |-> o],
          Deal(d, e), Deal(d, d)}
All == Everyday \cup Dealing
=============================================================================
