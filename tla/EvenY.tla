-------------------------------- MODULE EvenY --------------------------------
(***************************************************************************)
(* The ciphersuite: a signature that several participants make together is *)
(* one that Mina accepts, whose R has an even y.  Whether R has is known   *)
(* when all commitments are there; if not, every signer negates its nonces *)
(* and the commitments of all, and the coordinator, who has no nonces, the *)
(* commitments alone.                                                      *)
(*                                                                         *)
(* The group is cyclic of prime order q, and an element stands for its     *)
(* logarithm: -E is the element with the same x and the other y.  Which of *)
(* the two has the even y, and the hashes, can be anything (Even, H1, H2). *)
(* frost_core, which calls the two hooks of the suite, is external.  The   *)
(* message is the one that all have made of the transaction in the package. *)
(***************************************************************************)
EXTENDS PallasMessageCodec, Integers, FiniteSets, FiniteSetsExt

CONSTANTS
  q,             \* the order of the group
  Even,          \* the elements with an even y
  H1(_, _),      \* the binding factor of a participant in a package
  H2(_, _, _),   \* the challenge: from the x of R, verifying key and message
  Messages,      \* messages to be signed
  Participants,  \* identifiers, which are scalars
  min_signers,
  Polynomials,   \* what keys are split with: sequences of coefficients
  Nonces,        \* what nonces are drawn from
  Faulty,        \* participants whose shares can be anything
  None

Scalars == 0..(q - 1)

ASSUME GroupAssumption ==
  /\ q \in Nat \ {0, 1} /\ min_signers \in Nat /\ Participants \subseteq Scalars \ {0}
  /\ Nonces \subseteq [hiding : Scalars, binding : Scalars] /\ Faulty \subseteq Participants
  /\ None \notin Scalars /\ None \notin Nonces
  /\ \A m \in Messages : m \in PallasMessage /\ FitsU32(Len(m.input)) /\ None # m
\* Of two elements with one x the y of one is even; the identity's counts as 0.
ASSUME EvenAssumption ==
  0 \in Even /\ \A E \in Scalars \ {0} : E \in Even <=> q - E \notin Even
\* Keys are split with at most min_signers coefficients.
ASSUME PolynomialAssumption ==
  \A f \in Polynomials : f \in Seq(Scalars) /\ Len(f) \in 1..min_signers
\* q is a prime; hashes are scalars.
ASSUME FieldAssumption ==
  /\ \A s \in Scalars \ {0} : \E t \in Scalars : (s * t) % q = 1
  /\ \A i \in Participants, S \in SUBSET Participants : \A p \in [S -> Nonces] : H1(i, p) \in Scalars
  /\ \A E, pk \in Scalars, m \in Messages : H2({E, -E % q}, pk, m) \in Scalars

VARIABLES
  poly,      \* the polynomial that key shares are values of
  nonces,    \* per participant, the nonces it has drawn
  message,   \* the message in the signing package
  package,   \* the commitments of the chosen signers in it
  shares,    \* the signature shares
  result     \* what aggregate() returns

vars == <<poly, nonces, message, package, shares, result>>

is_even(E) == E \in Even
abscissa(E) == {E, -E % q}

-------------------------------------------------------------------------------
(* Keys: shares of a signing key, public values. *)
\* value[k]: the polynomial of the coefficients from the k-th on.
signing_share(f, i) ==
  LET n == Len(f)
      value[k \in 1..(n + 1)] ==
        IF k = n + 1 THEN 0 ELSE (f[k] + i * value[k + 1]) % q
  IN value[1]
verifying_share(f, i) == signing_share(f, i)
verifying_key == poly[1]

(* The Lagrange coefficient of i among the signers S. *)
inverse(s) == CHOOSE t \in Scalars : (s * t) % q = 1
derive_interpolating_value(i, S) ==
  FoldFunction(LAMBDA x, y : x * y, 1, [j \in S \ {i} |-> j * inverse((j - i) % q)]) % q

(* Commitments to nonces are these, as elements. *)
binding_factors(p) == [i \in DOMAIN p |-> H1(i, p)]
group_commitment_share(commitment, rho) == (commitment.hiding + rho * commitment.binding) % q
compute_group_commitment(p, rho) ==
  SumFunction([i \in DOMAIN p |-> group_commitment_share(p[i], rho[i])]) % q

-------------------------------------------------------------------------------
\* Mistakes: one of the two nonces is forgotten; the test is of the sum of
\* the hiding commitments; the coordinator leaves the package as it is, or
\* does not wait for the commitments of all.
negate_nonces_Hiding(n) == [n EXCEPT !.hiding = -n.hiding % q]
needs_negation_Hiding(p, rho) == ~is_even(SumFunction([i \in DOMAIN p |-> p[i].hiding]) % q)
pre_commitment_aggregate_Plain(p, rho) == p

(* NegateY, for nonces, commitments and packages. *)
negate_nonces(n) == [hiding |-> -n.hiding % q, binding |-> -n.binding % q]
negate_commitments(c) == [hiding |-> -c.hiding % q, binding |-> -c.binding % q]
negate_package(p) == [i \in DOMAIN p |-> negate_commitments(p[i])]

needs_negation(p, rho) == ~is_even(compute_group_commitment(p, rho))

(* The hooks: of a signer, and of the coordinator.  The binding factors    *)
(* have been computed before and stay those of the package that was sent.  *)
pre_commitment_sign(p, n, rho) ==
  IF needs_negation(p, rho)
  THEN [package |-> negate_package(p), nonces |-> negate_nonces(n)]
  ELSE [package |-> p, nonces |-> n]
pre_commitment_aggregate(p, rho) ==
  IF needs_negation(p, rho) THEN negate_package(p) ELSE p

challenge(R) == H2(abscissa(R), verifying_key, message_read(serialize(message)))

signature_share(i) ==
  LET rho == binding_factors(package)
      own == pre_commitment_sign(package, nonces[i], rho)
      c == challenge(compute_group_commitment(own.package, rho))
  IN (own.nonces.hiding + rho[i] * own.nonces.binding
        + derive_interpolating_value(i, DOMAIN package) * signing_share(poly, i) * c) % q

(* What the coordinator compares a share with when the sum is wrong. *)
verify_share(i) ==
  LET rho == binding_factors(package)
      p == pre_commitment_aggregate(package, rho)
      c == challenge(compute_group_commitment(p, rho))
  IN shares[i] = (p[i].hiding + rho[i] * p[i].binding
                    + derive_interpolating_value(i, DOMAIN package) * verifying_share(poly, i) * c) % q

Signature ==
  LET rho == binding_factors(package)
  IN [R |-> compute_group_commitment(pre_commitment_aggregate(package, rho), rho),
      z |-> SumFunction([i \in DOMAIN package |-> shares[i]]) % q]
verify(signature) ==
  signature.z = (signature.R + challenge(signature.R) * verifying_key) % q

-------------------------------------------------------------------------------
Init ==
  /\ poly \in Polynomials
  /\ nonces = [i \in Participants |-> None]
  /\ message = None /\ package = <<>>
  /\ shares = [i \in Participants |-> None]
  /\ result = None

(* The identity is not serialized: such commitments never leave a signer. *)
commit(i) ==
  /\ nonces[i] = None /\ package = <<>>
  /\ \E n \in Nonces :
       /\ n.hiding # 0 /\ n.binding # 0
       /\ nonces' = [nonces EXCEPT ![i] = n]
  /\ UNCHANGED <<poly, message, package, shares, result>>

SigningPackage_Early(signers) ==
  /\ package = <<>> /\ signers # {}
  /\ package' = [i \in signers |-> nonces[i]] /\ message' \in Messages
  /\ UNCHANGED <<poly, nonces, shares, result>>

SigningPackage(signers) ==
  /\ package = <<>> /\ signers # {}
  /\ \A i \in signers : nonces[i] # None
  /\ package' = [i \in signers |-> nonces[i]] /\ message' \in Messages
  /\ UNCHANGED <<poly, nonces, shares, result>>

sign(i) ==
  /\ i \in DOMAIN package \ Faulty /\ shares[i] = None
  /\ serializable(message) /\ Cardinality(DOMAIN package) >= min_signers
  /\ shares' = [shares EXCEPT ![i] = signature_share(i)]
  /\ UNCHANGED <<poly, nonces, message, package, result>>

SendAnything(i) ==
  /\ i \in DOMAIN package \cap Faulty /\ shares[i] = None
  /\ \E z \in Scalars : shares' = [shares EXCEPT ![i] = z]
  /\ UNCHANGED <<poly, nonces, message, package, result>>

(* Of those to blame the library names the first. *)
aggregate ==
  /\ package # <<>> /\ result = None /\ serializable(message)
  /\ \A i \in DOMAIN package : shares[i] # None
  /\ result' = IF verify(Signature) THEN [signature |-> Signature]
               ELSE [culprits |-> {i \in DOMAIN package : ~verify_share(i)}]
  /\ UNCHANGED <<poly, nonces, message, package, shares>>

Next ==
  \/ \E i \in Participants : commit(i) \/ sign(i) \/ SendAnything(i)
  \/ \E signers \in SUBSET Participants : SigningPackage(signers)
  \/ aggregate

Spec == Init /\ [][Next]_vars

-------------------------------------------------------------------------------
(* Types of the variables. *)
TypeOK ==
  /\ poly \in Polynomials
  /\ nonces \in [Participants -> Nonces \cup {None}] /\ message \in Messages \cup {None}
  /\ \E signers \in SUBSET Participants : package \in [signers -> Nonces]
  /\ shares \in [Participants -> Scalars \cup {None}]
  /\ \/ result = None
     \/ result \in [signature : [R : Scalars, z : Scalars]]
     \/ result \in [culprits : SUBSET Participants]

Failed == result # None /\ DOMAIN result = {"culprits"}

(* Nobody is blamed wrongly: what a signer's hook negates is what the      *)
(* coordinator's negates, so a share made by sign() passes the test of     *)
(* aggregate(), whatever the others sent and whatever parity came out.     *)
BlamesOnlyFaulty == Failed => result.culprits \subseteq Faulty

(* What challenge() hashes, at signers and coordinator, is the message     *)
(* that was put into the package, input, network and mode: of whatever     *)
(* serialize returns deserialize makes the same, without a panic.          *)
MessageReadsBack ==
  message # None /\ serializable(message) => message_read(serialize(message)) = message

(* The inductive invariant: the test would be passed at any time before.   *)
IInv ==
  /\ DOMAIN shares = Participants /\ DOMAIN package \subseteq Participants
  /\ package = <<>> => \A i \in Participants : shares[i] = None
  /\ \A i \in DOMAIN package : package[i] = nonces[i]
  /\ \A i \in DOMAIN package \ Faulty : shares[i] # None => verify_share(i)
  /\ BlamesOnlyFaulty

(* A signature as Mina has it is the x of R and z (translate_sig), and     *)
(* mina_signer wants the R it computes from these and the message, which   *)
(* it has from the transaction itself, to have an even y.                  *)
mina_verify(rx, s) ==
  LET R == (s - H2(rx, verifying_key, message) * verifying_key) % q
  IN R # 0 /\ is_even(R) /\ abscissa(R) = rx

(* Aggregation yields a signature that Mina accepts, or names somebody: in *)
(* particular it does the former when all signers are correct.  Left out   *)
(* are an R that is the identity, as unlikely as to guess a key, and, for  *)
(* which sign() gives no share, a package below the threshold.             *)
AggregatesOrBlames ==
  result # None /\ Cardinality(DOMAIN package) >= min_signers =>
    IF Failed THEN result.culprits # {}
    ELSE result.signature.R # 0 =>
           mina_verify(abscissa(result.signature.R), result.signature.z)
===============================================================================
