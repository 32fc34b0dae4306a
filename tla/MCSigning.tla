------------------------------ MODULE MCSigning ------------------------------
(* Instances of Signing for TLC. *)
EXTENDS Signing, TLC

CONSTANTS
  a, b, c,                \* signers
  a1, a2, a3, b1, b2, x   \* processes of a and of b, and made up commitments

\* a1, a2, a3 belong to a, the others to b.
Belongs == [i \in Procs |-> IF i \in {a1, a2, a3} THEN a ELSE b]

\* What a faulty c sends: commitments (its own, or a copy of a's), shares and
\* messages that do not parse, readable or not.
FromC(kind, chan, nonce) ==
  [kind |-> kind, from |-> c, chan |-> chan, seq |-> 0, nonce |-> nonce, pkg |-> NoPackage]
Anything ==
  {FromC(k, Readable, n) : k \in {"Commit", "Share"}, n \in {x, a1}}
    \cup {FromC("Garbage", h, x) : h \in {Readable, Unreadable}}
=============================================================================
