-------------------------------- MODULE TxChain --------------------------------
(***************************************************************************)
(* One transaction on its way through the signing sessions of several      *)
(* groups.  A coordinator reads a file (a transaction, or the output of an *)
(* earlier session), has its group sign, puts the signature where it       *)
(* belongs and writes the result; a file that holds a result is made into  *)
(* the GraphQL request for the node.  Coordinators overlap as they please, *)
(* and any file may be the input and the output of any of them.            *)
(*                                                                         *)
(* A session (module Signing) is one step here: it yields the signature of *)
(* the group on the message, or nothing.  A signature is the key and the   *)
(* message it verifies for.                                                *)
(***************************************************************************)
EXTENDS ZkAppCommand, LegacyTransactions

CONSTANTS
  Groups,        \* keys held by groups that sign with this program
  Foreign,       \* authorizations made elsewhere: none, dummies, partial commitments
  Transactions,  \* the commands and documents that wallets and scripts write
  Networks,      \* network names of command lines and documents
  Files, Coordinators,
  MaxRuns,       \* bound on the runs of coordinators
  MaxUpdates,    \* bound on the updates in a command, for CommitmentKeepsDepths
  Idle, NoSignature, NoRequest

to_pallas_message(envelope) ==
  <<envelope.network, envelope.tx.tag,
    IF envelope.tx.tag = "ZkApp" THEN zk_commit(envelope.tx, envelope.network)
    ELSE to_roinput(envelope.tx)>>

(* A file that holds neither a command nor a legacy document is refused.   *)
(* Commands are kept as they are read: module ZkAppDocuments is about that. *)
Readable(t) == t.tag = "Legacy" => readable(t)
transaction(t) == IF t.tag = "Legacy" THEN deserialize(t) ELSE t

Messages == {to_pallas_message([network |-> n, tx |-> transaction(t)]) :
               n \in Networks, t \in {u \in Transactions : Readable(u)}}
Signatures == [key : Groups, msg : Messages]
Envelopes == [network : Networks,
              tx : ZKAppCommand(Foreign \cup Signatures) \cup LegacyTransaction(Keys)]

Missing == [kind |-> "none"]
Documents == {Missing}
  \cup [kind : {"transaction"}, tx : Transactions]
  \cup [kind : {"signed"}, publicKey : Groups, signature : Signatures, payload : Envelopes]

Runs == [group : Groups, network : Networks, envelope : Envelopes,
         signature : Signatures \cup {NoSignature}, by : SUBSET Groups]
Requests == [envelope : Envelopes, signature : Signatures, by : SUBSET Groups]

ASSUME ChainAssumption ==
  /\ Groups \subseteq Keys
  /\ Transactions \subseteq ZKAppCommand(Foreign) \cup LegacyDocument(Keys)
  /\ "testnet" \in Networks /\ MaxRuns \in Nat
  /\ Idle \notin Runs /\ NoSignature \notin Signatures /\ NoRequest \notin Requests

VARIABLES
  file,     \* the document in each file
  by,       \* history: the groups whose sessions led to the file
  co,       \* what each coordinator is doing
  runs,     \* coordinators started so far
  request   \* the last GraphQL request, with the envelope it was built from
vars == <<file, by, co, runs, request>>

Init ==
  /\ file \in [Files -> {Missing} \cup [kind : {"transaction"}, tx : Transactions]]
  /\ by = [f \in Files |-> {}]
  /\ co = [c \in Coordinators |-> Idle]
  /\ runs = 0
  /\ request = NoRequest

(* devnet is another name of testnet on the command line, and names of     *)
(* more than 20 bytes are refused there.                                   *)
MAX_PREFIX_LENGTH == 20
accepts(name) == Len(name) <= MAX_PREFIX_LENGTH
try_from(name) == IF name = "devnet" THEN "testnet" ELSE name

\* The mistake of using the flag for the output of an earlier session, too.
from_str_network_Flag(document, network) ==
  IF document.kind = "signed" THEN [document.payload EXCEPT !.network = network]
  ELSE [network |-> network, tx |-> transaction(document.tx)]

from_str_network(document, network) ==
  IF document.kind = "signed" THEN document.payload
  ELSE [network |-> network, tx |-> transaction(document.tx)]
Parses(document) ==
  /\ document # Missing
  /\ document.kind = "transaction" => Readable(document.tx)

(* A coordinator for group g starts on file f; an error ends it here. *)
run(c, g, f, network) ==
  /\ co[c] = Idle /\ runs < MaxRuns
  /\ accepts(network) /\ Parses(file[f])
  /\ co' = [co EXCEPT ![c] =
       [group |-> g, network |-> network, signature |-> NoSignature, by |-> by[f],
        envelope |-> from_str_network(file[f], try_from(network))]]
  /\ runs' = runs + 1
  /\ UNCHANGED <<file, by, request>>

(* Everybody in the session hashes the transaction; to_roinput unwraps the *)
(* error of zk_commit, so with a bad one all that comes is End.            *)
Hashable(envelope) == envelope.tx.tag = "ZkApp" => committable(envelope.tx)
coordinate_signing(c) ==
  /\ co[c] # Idle /\ co[c].signature = NoSignature
  /\ Hashable(co[c].envelope)
  /\ co' = [co EXCEPT ![c].signature =
       [key |-> co[c].group, msg |-> to_pallas_message(co[c].envelope)]]
  /\ UNCHANGED <<file, by, runs, request>>

(* The session fails, a participant declines, or the coordinator is killed. *)
End(c) ==
  /\ co[c] # Idle
  /\ co' = [co EXCEPT ![c] = Idle]
  /\ UNCHANGED <<file, by, runs, request>>

(* Only a zkApp command has places for the signature inside. *)
new_with_zkapp_injection(key, sig, payload) ==
  [kind |-> "signed", publicKey |-> key, signature |-> sig,
   payload |-> IF payload.tx.tag = "ZkApp"
               THEN [payload EXCEPT !.tx = inject_signature(payload.tx, key, sig)]
               ELSE payload]

save_signature(c, out) ==
  /\ co[c] # Idle /\ co[c].signature # NoSignature
  /\ file' = [file EXCEPT ![out] =
       new_with_zkapp_injection(co[c].group, co[c].signature, co[c].envelope)]
  /\ by' = [by EXCEPT ![out] = co[c].by \cup {co[c].group}]
  /\ co' = [co EXCEPT ![c] = Idle]
  /\ UNCHANGED <<runs, request>>

(* fs::write truncates the file first; here the process dies after that. *)
CutShort(c, out) ==
  /\ co[c] # Idle /\ co[c].signature # NoSignature
  /\ file' = [file EXCEPT ![out] = Missing]
  /\ by' = [by EXCEPT ![out] = {}]
  /\ co' = [co EXCEPT ![c] = Idle]
  /\ UNCHANGED <<runs, request>>

(* The request has the zkApp command alone, or the legacy transaction and  *)
(* the signature beside it; the network is not part of either.             *)
graphql_build_command(f) ==
  /\ file[f].kind = "signed"
  /\ request' = [envelope |-> file[f].payload, signature |-> file[f].signature, by |-> by[f]]
  /\ UNCHANGED <<file, by, co, runs>>

Next ==
  \/ \E c \in Coordinators :
       \/ \E g \in Groups, f \in Files, n \in Networks : run(c, g, f, n)
       \/ coordinate_signing(c)
       \/ End(c)
       \/ \E out \in Files : save_signature(c, out) \/ CutShort(c, out)
  \/ \E f \in Files : graphql_build_command(f)

Spec == Init /\ [][Next]_vars

-------------------------------------------------------------------------------
(* Types of the variables. *)
TypeOK ==
  /\ file \in [Files -> Documents] /\ by \in [Files -> SUBSET Groups]
  /\ co \in [Coordinators -> Runs \cup {Idle}]
  /\ runs \in 0..MaxRuns
  /\ request \in Requests \cup {NoRequest}

SignatureOf(key, envelope) == [key |-> key, msg |-> to_pallas_message(envelope)]

(* The place inside a command that a signature of this key may fill. *)
Fillable(body) == body.is_signed /\ body.use_full_commitment

PlacesFit(envelope) ==
  envelope.tx.tag = "ZkApp" =>
    /\ \/ envelope.tx.fee_payer.authorization \in Foreign
       \/ envelope.tx.fee_payer.authorization
            = SignatureOf(envelope.tx.fee_payer.body.public_key, envelope)
    /\ \A i \in DOMAIN envelope.tx.account_updates :
         LET u == envelope.tx.account_updates[i]
         IN \/ u.signature \in Foreign
            \/ Fillable(u.body) /\ u.signature = SignatureOf(u.body.public_key, envelope)

Filled(envelope, groups) ==
  envelope.tx.tag = "ZkApp" =>
    /\ envelope.tx.fee_payer.body.public_key \in groups =>
         envelope.tx.fee_payer.authorization
           = SignatureOf(envelope.tx.fee_payer.body.public_key, envelope)
    /\ \A i \in DOMAIN envelope.tx.account_updates :
         LET u == envelope.tx.account_updates[i]
         IN Fillable(u.body) /\ u.body.public_key \in groups =>
              u.signature = SignatureOf(u.body.public_key, envelope)

(* What is true of an envelope that came out of the sessions of groups:    *)
(* apart from the authorizations it is a transaction somebody wrote, on a  *)
(* network somebody named; what is filled in fits, and nothing is missing. *)
Sound(envelope, groups) ==
  /\ to_pallas_message(envelope) \in Messages
  /\ PlacesFit(envelope) /\ Filled(envelope, groups)
  /\ groups # {} => Hashable(envelope)

(* Signatures fit: wherever a session has put a signature, inside the      *)
(* command (inject_signature) or beside it, it is that of the key of the   *)
(* place and verifies for the command and the network as they now are,     *)
(* however many signatures have been put in since and from whatever file   *)
(* the session started.                                                    *)
SignaturesFit ==
  /\ \A f \in Files : file[f].kind = "signed" =>
       /\ file[f].signature = SignatureOf(file[f].publicKey, file[f].payload)
       /\ PlacesFit(file[f].payload)
  /\ \A c \in Coordinators : co[c] # Idle =>
       /\ PlacesFit(co[c].envelope)
       /\ co[c].signature # NoSignature =>
            co[c].signature = SignatureOf(co[c].group, co[c].envelope)

(* The inductive invariant: no session of the chain is lost either. *)
IInv ==
  /\ TypeOK
  /\ SignaturesFit
  /\ \A f \in Files :
       IF file[f].kind = "signed" THEN by[f] # {} /\ Sound(file[f].payload, by[f])
       ELSE by[f] = {}
  /\ \A c \in Coordinators : co[c] # Idle =>
       /\ Sound(co[c].envelope, co[c].by)
       /\ co[c].signature # NoSignature => Hashable(co[c].envelope)
  /\ request # NoRequest =>
       /\ Sound(request.envelope, request.by) /\ request.by # {}
       /\ request.signature.msg = to_pallas_message(request.envelope)

(* What a Mina node asks of the signatures in a request (those of partial  *)
(* commitments apart): every place verifies for the key it belongs to.     *)
Verifies(envelope, signature) ==
  IF envelope.tx.tag = "Legacy" THEN signature = SignatureOf(envelope.tx.source_pk, envelope)
  ELSE /\ committable(envelope.tx)
       /\ envelope.tx.fee_payer.authorization
            = SignatureOf(envelope.tx.fee_payer.body.public_key, envelope)
       /\ \A i \in DOMAIN envelope.tx.account_updates :
            LET u == envelope.tx.account_updates[i]
            IN Fillable(u.body) => u.signature = SignatureOf(u.body.public_key, envelope)

SignersOf(tx) ==
  {tx.fee_payer.body.public_key}
    \cup {tx.account_updates[i].body.public_key :
            i \in {j \in DOMAIN tx.account_updates : Fillable(tx.account_updates[j].body)}}

(* A chain ends well: when every group a zkApp command names has had its   *)
(* session, in any order, with whatever other groups in between, and       *)
(* whatever else was going on with the same files, the request the last    *)
(* file yields verifies.  A legacy transaction has one place only: there   *)
(* the last session has to be that of the sender.                          *)
ChainVerifies ==
  request # NoRequest =>
    \/ IF request.envelope.tx.tag = "ZkApp"
       THEN ~(SignersOf(request.envelope.tx) \subseteq request.by)
       ELSE request.signature.key # request.envelope.tx.source_pk
    \/ Verifies(request.envelope, request.signature)

(* mina-frost-client/README.md: the --network flag of the coordinator      *)
(* chooses the network.                                                    *)
NetworkFlagChooses ==
  \A c \in Coordinators :
    co[c] # Idle => co[c].envelope.network = try_from(co[c].network)

(* Packing leaves the call depth out of an update's hash (AccountUpdate-   *)
(* Body::pack), so it is the shape of the forest alone that ties a         *)
(* signature to the depths: of the ways to call n updates that only differ *)
(* in their depth, no two have the same forest.                            *)
DistinctForests ==
  [n \in 0..MaxUpdates |->
    LET Body(d) == [FeePayerUpdate([public_key |-> "key", rest |-> NoRest]) EXCEPT !.call_depth = d]
        valid == {b \in {[i \in 1..n |-> Body(depth[i])] : depth \in [1..n -> 0..n]} :
                    is_call_depth_valid(b)}
    IN \A b, c \in valid : CallForest(b) = CallForest(c) => b = c]
CommitmentKeepsDepths ==
  \A f \in Files :
    file[f].kind = "signed" /\ file[f].payload.tx.tag = "ZkApp" =>
      \A n \in 0..Len(file[f].payload.tx.account_updates) :
        n <= MaxUpdates => DistinctForests[n]

Outputs == {f \in Files : file[f].kind = "signed"}
LegacyOutputs == {f \in Outputs : file[f].payload.tx.tag = "Legacy"}

(* Files and the messages of a session hold serialize of a transaction,    *)
(* and everybody works on what deserialize makes of it: for whatever has   *)
(* been signed that is the same transaction, so the signature still holds. *)
SavedReadsBack ==
  \A f \in LegacyOutputs :
    LET tx == file[f].payload.tx
    IN readable(serialize(tx)) /\ deserialize(serialize(tx)) = tx

\* A transaction without what sessions put into it.
Bare(tx) ==
  IF tx.tag = "ZkApp"
  THEN [memo |-> tx.memo, fee_payer |-> tx.fee_payer.body, updates |-> BodiesOf(tx)]
  ELSE tx

(* Who signs a message signs one transaction on one network: if of two     *)
(* outputs only the amount, the kind, the memo, or the call depth of one   *)
(* update differs, so do the messages.                                     *)
MessageTellsTransaction ==
  \A f, g \in Outputs :
    file[f].signature.msg = file[g].signature.msg =>
      /\ file[f].payload.network = file[g].payload.network
      /\ Bare(file[f].payload.tx) = Bare(file[g].payload.tx)

(* The node sees the GraphQL input alone and rebuilds the transaction with *)
(* its own idea of the memo and of what is left out: what it checks the    *)
(* signature against is the transaction that was signed, whatever nonce    *)
(* it has for the account.                                                 *)
NodeReadsWhatWasSigned ==
  request # NoRequest /\ request.envelope.tx.tag = "Legacy" =>
    \A next_nonce \in 0..1 :
      to_pallas_message([request.envelope EXCEPT
        !.tx = Submitted(to_graphql_query_json(@), next_nonce)]) = request.signature.msg
===============================================================================
