----------------------------- MODULE DkgAgreement -----------------------------
(***************************************************************************)
(* What distributed key generation promises to its correct participants:   *)
(* they accept one and the same collection of round 1 packages, hence one  *)
(* group key, and nobody ends with a key share before all of them have     *)
(* accepted.  Nothing is promised about who gets that far.                 *)
(***************************************************************************)
CONSTANTS
  Correct,   \* the participants the promise is made to
  Views      \* the collections of packages there are

VARIABLES
  accepted,  \* for each participant, the set of what it accepted: none or one
  finished   \* the participants that ended with a key share

avars == <<accepted, finished>>

AInit ==
  /\ accepted = [p \in Correct |-> {}]
  /\ finished = {}

Accept(p, v) ==
  /\ accepted[p] = {}
  /\ \A q \in Correct : accepted[q] \subseteq {v}
  /\ accepted' = [accepted EXCEPT ![p] = {v}]
  /\ UNCHANGED finished

Obtain(p) ==
  /\ \A q \in Correct : accepted[q] # {}
  /\ finished' = finished \cup {p}
  /\ UNCHANGED accepted

ANext ==
  \E p \in Correct : Obtain(p) \/ \E v \in Views : Accept(p, v)

ASpec == AInit /\ [][ANext]_avars
=============================================================================
