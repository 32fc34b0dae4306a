-------------------------------- MODULE MCDkg --------------------------------
(* Instances of Dkg for TLC: package contents are strings, so that the sets *)
(* of versions can be given to every configuration from here.               *)
EXTENDS Dkg, TLC

CONSTANTS a, b, c   \* participants

\* One content is enough when everybody is correct.
OneVer == {"good"}
\* Two sound packages to equivocate with, and one with a wrong proof.
ThreeVer == {"good", "alt", "bad"}
TwoSound == {"good", "alt"}

Say(kind, orig, ver) == [kind |-> kind, from |-> c, orig |-> orig, ver |-> ver]

\* c sends a one package and b another, true and false echoes, a share that
\* fits only one of the packages, and a message that does not decrypt.
Equivocation ==
  {<<a, Say("R1", c, "good")>>, <<a, Say("Echo", b, "good")>>, <<a, Say("R2", c, "good")>>,
   <<b, Say("R1", c, "good")>>, <<b, Say("R1", c, "alt")>>, <<b, Say("Echo", a, "good")>>,
   <<b, Say("R2", c, "good")>>, <<b, Say("Junk", c, "good")>>}
=============================================================================
