---------------------------- MODULE SigningPromise ----------------------------
(***************************************************************************)
(* What a signing session promises: a group signature comes out only for a *)
(* signing package that every correct signer the coordinator chose has     *)
(* signed, and each of them signs at most one package of the session,      *)
(* however many processes it starts.                                       *)
(***************************************************************************)
CONSTANTS
  Correct,    \* the chosen signers the promise is made to
  Packages,   \* signing packages
  NoPackage   \* "no signature yet"

VARIABLES
  signed,     \* <<signer, package>> for each share that was given
  released    \* the package there is a group signature for

pvars == <<signed, released>>

PInit ==
  /\ signed = {}
  /\ released = NoPackage

\* The first and only share of q.
GiveShare(q) ==
  /\ \A share \in signed : share[1] # q
  /\ \E share \in signed' :
       /\ share[1] = q /\ share[2] \in Packages
       /\ signed' = signed \cup {share}
  /\ UNCHANGED released

Release ==
  /\ released = NoPackage
  /\ released' \in Packages
  /\ \A q \in Correct : <<q, released'>> \in signed
  /\ UNCHANGED signed

PNext == Release \/ \E q \in Correct : GiveShare(q)

PSpec == PInit /\ [][PNext]_pvars
=============================================================================
