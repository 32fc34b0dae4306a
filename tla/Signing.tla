------------------------------- MODULE Signing -------------------------------
(***************************************************************************)
(* A signing session as mina-frost-client runs it: the coordinator         *)
(* (coordinate_signing() over its HTTPComms, with a                        *)
(* CoordinatorSessionState) and the processes of the signers it chose      *)
(* (sign() over theirs).  A signer may start any number of processes in    *)
(* one session: frostd gives them one mailbox, because it keys mailboxes   *)
(* by public key, and each of them has nonces and a Noise context of its   *)
(* own.                                                                    *)
(*                                                                         *)
(* What is abstracted.  A process stands for the nonces it draws, so its   *)
(* commitments are its name.  The signing package is the map of            *)
(* commitments: the message to sign is the same throughout the session.  A *)
(* signature share names the nonces and the package it was made with; it   *)
(* is valid when both are the coordinator's.                               *)
(*                                                                         *)
(* Noise (cipher.rs): the coordinator keeps one receiving context per      *)
(* signer.  The first message it can read ties the context to the process  *)
(* that sent it, and from then on exactly the next message of that process *)
(* can be read.  A signer's process reads only one message, the first the  *)
(* coordinator sends to its public key, which every fresh context reads.   *)
(***************************************************************************)
EXTENDS Frostd, Naturals, FiniteSets

CONSTANTS
  Signers,        \* config.signers: the public keys the coordinator chose
  Faulty,         \* those of them whose processes may send anything
  Procs,          \* the processes the other signers start
  Owner,          \* whose process it is
  Crashable,      \* processes that may be killed at any point
  Nonces,         \* signing commitments: those of Procs, and made up ones
  NoNonce,        \* "no commitments received"
  MinSigners,     \* the threshold of the group
  Repertoire,     \* bound: the messages the faulty choose from
  MaxFaultySends, \* bound: how many they send
  MayCloseAll,    \* whether "sessions --close-all" is run beside the coordinator
  MayCrash,       \* whether the coordinator's process may be killed
  NoShare         \* "no signature share received"

\* A Noise context that has read nothing; messages of faulty signers are
\* readable as they please.
Fresh == "fresh"
Readable == "readable"
Unreadable == "unreadable"

Package == [Signers -> Nonces \cup {NoNonce}]
NoPackage == [q \in Signers |-> NoNonce]
Message == [kind : {"Commit", "Share", "Garbage"}, from : Signers,
            chan : Procs \cup {Readable, Unreadable}, seq : {0, 1},
            nonce : Nonces, pkg : Package]
Share == [nonce : Nonces, pkg : Package]

Correct == Signers \ Faulty

ASSUME SigningAssumption ==
  /\ IsFiniteSet(Signers) /\ Signers # {}
  /\ Faulty \subseteq Signers
  /\ Owner \in [Procs -> Correct]
  /\ Crashable \subseteq Procs
  /\ Procs \subseteq Nonces
  /\ NoNonce \notin Nonces /\ NoShare \notin Share
  /\ {Fresh, Readable, Unreadable} \cap Procs = {}
  /\ MinSigners \in Nat /\ MaxFaultySends \in Nat
  /\ Repertoire \subseteq {m \in Message : m.from \in Faulty
                                           /\ m.chan \in {Readable, Unreadable}}
  /\ MayCloseAll \in BOOLEAN /\ MayCrash \in BOOLEAN

VARIABLES
  session,      \* frostd: status of the session
  cbox,         \* frostd: the coordinator's mailbox
  queue,        \* frostd: the mailbox of each signer
  cpc,          \* where the coordinator is in coordinate_signing()
  cst,          \* the variant of its CoordinatorSessionState
  commitments,  \* the commitments it stored
  shares,       \* the signature shares it stored
  seen,         \* commitment_senders, then seen_share_senders
  noise,        \* recv_noise_map: the process and the number of its next message
  batch,        \* r.msgs: the messages of the last answer not yet handled
  toSend,       \* signers the package has still to be sent to
  cwhy,         \* the error the coordinator ended with
  pc,           \* where each process is in sign()
  got,          \* the signing package it received
  faultySends   \* messages faulty signers sent

coordinator == <<cpc, cst, commitments, shares, seen, noise, batch, toSend, cwhy>>
processes == <<pc, got>>
vars == <<session, cbox, queue, coordinator, processes, faultySends>>

-----------------------------------------------------------------------------
WC    == "WaitingForCommitments"
WS    == "WaitingForSignatureShares"
Ready == "SignatureSharesReady"
States == {WC, WS, Ready}

CoordinatorPcs == {"start", "collect", "sending", "await", "closing", "aggregating",
                   "cleanup", "signed", "failed", "panicked", "crashed"}
ProcPcs == {"start", "waiting", "confirm", "signing", "done", "declined", "failed", "crashed"}
EndedProcs == {"done", "declined", "failed", "crashed"}

TypeOK ==
  /\ session \in SessionStatus
  /\ cbox \in Seq(Message)
  /\ queue \in [Signers -> Seq(Package)]
  /\ cpc \in CoordinatorPcs
  /\ cst \in States
  /\ commitments \in Package
  /\ shares \in [Signers -> Share \cup {NoShare}]
  /\ seen \in SUBSET Signers
  /\ noise \in [Signers -> [chan : Procs \cup {Fresh}, next : 0 .. 2]]
  /\ batch \in Seq(Message)
  /\ toSend \in SUBSET Signers
  /\ cwhy \in {"-", "session", "badShares"}
  /\ pc \in [Procs -> ProcPcs]
  /\ got \in [Procs -> Package]
  /\ faultySends \in 0 .. MaxFaultySends

Init ==
  /\ session = "none"
  /\ cbox = <<>>
  /\ queue = [q \in Signers |-> <<>>]
  /\ cpc = "start"
  /\ cst = WC
  /\ commitments = NoPackage
  /\ shares = [q \in Signers |-> NoShare]
  /\ seen = {}
  /\ noise = [q \in Signers |-> [chan |-> Fresh, next |-> 0]]
  /\ batch = <<>>
  /\ toSend = {}
  /\ cwhy = "-"
  /\ pc = [i \in Procs |-> "start"]
  /\ got = [i \in Procs |-> NoPackage]
  /\ faultySends = 0

-----------------------------------------------------------------------------
(***************************************************************************)
(* CoordinatorSessionState.                                                *)
(***************************************************************************)
Committed == {q \in Signers : commitments[q] # NoNonce}

\* Mutant: TRUE one state early.
has_signature_shares_Early(s) == s \in {WS, Ready}

has_commitments(s)      == s = WS
has_signature_shares(s) == s = Ready

\* commitments() and signature_shares() panic in every other state.
commitments_panics(s)      == s # WS
signature_shares_panics(s) == s # Ready

\* Mutant: complete when the threshold is reached.
handle_commitments_Threshold(m) ==
  LET map == [commitments EXCEPT ![m.from] = m.nonce]
  IN  /\ commitments' = map
      /\ cst' = IF Cardinality({q \in Signers : map[q] # NoNonce}) >= MinSigners
                  THEN WS ELSE WC
      /\ UNCHANGED shares

\* handle_commitments: complete when num_signers senders are in the map.
handle_commitments(m) ==
  LET map == [commitments EXCEPT ![m.from] = m.nonce]
  IN  /\ commitments' = map
      /\ cst' = IF \A q \in Signers : map[q] # NoNonce THEN WS ELSE WC
      /\ UNCHANGED shares

\* handle_signature_share: complete when everybody in the package has a share.
handle_signature_share(m) ==
  LET map == [shares EXCEPT ![m.from] = [nonce |-> m.nonce, pkg |-> m.pkg]]
  IN  /\ shares' = map
      /\ cst' = IF {q \in Signers : map[q] # NoShare} = Committed THEN Ready ELSE WS
      /\ UNCHANGED commitments

\* recv() succeeds when the message is what its state deserialises; a share
\* must come from somebody in the package.
Accepts(m) ==
  \/ cst = WC /\ m.kind = "Commit"
  \/ cst = WS /\ m.kind = "Share" /\ m.from \in Committed

recv(m) ==
  \/ cst = WC /\ handle_commitments(m)
  \/ cst = WS /\ handle_signature_share(m)

-----------------------------------------------------------------------------
(***************************************************************************)
(* The Noise context for the messages of one signer.                       *)
(***************************************************************************)
Decrypts(m) ==
  \/ m.chan = Readable
  \/ m.chan \in Procs /\ noise[m.from].chan = Fresh /\ m.seq = 0
  \/ m.chan \in Procs /\ noise[m.from].chan = m.chan /\ m.seq = noise[m.from].next

\* What reading m leaves the context in.
AfterReading(m) ==
  IF m.chan = Readable THEN noise
  ELSE [noise EXCEPT ![m.from] = [chan |-> m.chan, next |-> m.seq + 1]]

-----------------------------------------------------------------------------
(***************************************************************************)
(* The coordinator.  An error that leaves one of the two loops goes        *)
(* through cleanup_on_error(), which closes the session if there is one.   *)
(***************************************************************************)
CFail(error) ==
  /\ cpc' = "cleanup"
  /\ cwhy' = error

\* Log in, create_new_session, and the ciphers.
OpenSession ==
  /\ cpc = "start"
  /\ session' = "open"
  /\ cpc' = "collect"
  /\ UNCHANGED <<cbox, queue, cst, commitments, shares, seen, noise, batch, toSend, cwhy,
                 processes, faultySends>>

LoopEnds ==
  \/ cpc = "collect" /\ has_commitments(cst)
  \/ cpc = "await" /\ has_signature_shares(cst)

\* receive(as_coordinator: true).  An empty answer changes nothing.
Fetch ==
  /\ cpc \in {"collect", "await"}
  /\ batch = <<>>
  /\ ~LoopEnds
  /\ \/ /\ session = "open"
        /\ cbox # <<>>
        /\ batch' = cbox
        /\ cbox' = <<>>
        /\ UNCHANGED <<cpc, cwhy>>
     \/ /\ session # "open"
        /\ CFail("session")
        /\ UNCHANGED <<batch, cbox>>
  /\ UNCHANGED <<session, queue, cst, commitments, shares, seen, noise, toSend,
                 processes, faultySends>>

\* "attempted to rejoin the session; ignoring": not even decrypted.
SkipRejoin(m) ==
  /\ m.from \in seen
  /\ UNCHANGED <<cpc, cwhy, cst, commitments, shares, seen, noise>>

\* Mutants: the failure is an error; the context counts the message.
SkipUnreadable_Fails(m) ==
  /\ m.from \notin seen
  /\ ~Decrypts(m)
  /\ CFail("session")
  /\ UNCHANGED <<cst, commitments, shares, seen, noise>>
SkipUnreadable_Counts(m) ==
  /\ m.from \notin seen
  /\ ~Decrypts(m)
  /\ noise' = [noise EXCEPT ![m.from].next = @ + 1]
  /\ UNCHANGED <<cpc, cwhy, cst, commitments, shares, seen>>

\* "failed to decrypt message; ignoring".
SkipUnreadable(m) ==
  /\ m.from \notin seen
  /\ ~Decrypts(m)
  /\ UNCHANGED <<cpc, cwhy, cst, commitments, shares, seen, noise>>

\* "ignoring invalid commitment" or "signature share": the Noise context has
\* moved on all the same, the sender may try again.
SkipInvalid(m) ==
  /\ m.from \notin seen
  /\ Decrypts(m)
  /\ ~Accepts(m)
  /\ noise' = AfterReading(m)
  /\ UNCHANGED <<cpc, cwhy, cst, commitments, shares, seen>>

\* Mutant: the sender is not remembered.
Take_Forgets(m) ==
  /\ m.from \notin seen
  /\ Decrypts(m)
  /\ Accepts(m)
  /\ noise' = AfterReading(m)
  /\ recv(m)
  /\ UNCHANGED <<cpc, cwhy, seen>>

Take(m) ==
  /\ m.from \notin seen
  /\ Decrypts(m)
  /\ Accepts(m)
  /\ noise' = AfterReading(m)
  /\ seen' = seen \cup {m.from}
  /\ recv(m)
  /\ UNCHANGED <<cpc, cwhy>>

HandleMsg ==
  /\ cpc \in {"collect", "await"}
  /\ batch # <<>>
  /\ LET m == Head(batch)
     IN  SkipRejoin(m) \/ SkipUnreadable(m) \/ SkipInvalid(m) \/ Take(m)
  /\ batch' = Tail(batch)
  /\ UNCHANGED <<session, cbox, queue, toSend, processes, faultySends>>

\* commitments(), and SigningPackage::new.
LeaveCollect ==
  /\ cpc = "collect" /\ batch = <<>> /\ LoopEnds
  /\ IF commitments_panics(cst)
       THEN cpc' = "panicked" /\ UNCHANGED toSend
       ELSE cpc' = "sending" /\ toSend' = Signers
  /\ UNCHANGED <<session, cbox, queue, cst, commitments, shares, seen, noise, batch, cwhy,
                 processes, faultySends>>

\* Mutant: the share loop starts with the senders of the commitments.
SendPackage_KeepsSeen(q) ==
  /\ cpc = "sending"
  /\ q \in toSend
  /\ IF session = "open"
       THEN /\ queue' = Delivered(queue, q, commitments)
            /\ toSend' = toSend \ {q}
            /\ IF toSend = {q} THEN cpc' = "await" ELSE UNCHANGED cpc
            /\ UNCHANGED <<cwhy, seen>>
       ELSE CFail("session") /\ UNCHANGED <<queue, toSend, seen>>
  /\ UNCHANGED <<session, cbox, cst, commitments, shares, noise, batch,
                 processes, faultySends>>

\* The package goes to one signer after the other, in the order of a HashMap.
\* The share loop starts with an empty seen_share_senders.
SendPackage(q) ==
  /\ cpc = "sending"
  /\ q \in toSend
  /\ IF session = "open"
       THEN /\ queue' = Delivered(queue, q, commitments)
            /\ toSend' = toSend \ {q}
            /\ IF toSend = {q}
                 THEN cpc' = "await" /\ seen' = {}
                 ELSE UNCHANGED <<cpc, seen>>
            /\ UNCHANGED cwhy
       ELSE CFail("session") /\ UNCHANGED <<queue, toSend, seen>>
  /\ UNCHANGED <<session, cbox, cst, commitments, shares, noise, batch,
                 processes, faultySends>>

LeaveAwait ==
  /\ cpc = "await" /\ batch = <<>> /\ LoopEnds
  /\ cpc' = "closing"
  /\ UNCHANGED <<session, cbox, queue, cst, commitments, shares, seen, noise, batch, toSend,
                 cwhy, processes, faultySends>>

Forget ==
  /\ cbox' = <<>>
  /\ queue' = Discarded(queue)

\* Mutant: the session is left open.
CloseSession_LeavesOpen ==
  /\ cpc = "closing"
  /\ cpc' = "aggregating"
  /\ UNCHANGED <<session, cbox, queue, cwhy, cst, commitments, shares, seen, noise, batch,
                 toSend, processes, faultySends>>

\* close_session: an error if somebody closed it before.
CloseSession ==
  /\ cpc = "closing"
  /\ IF session = "open"
       THEN cpc' = "aggregating" /\ UNCHANGED cwhy
       ELSE CFail("session")
  /\ session' = "closed"
  /\ Forget
  /\ UNCHANGED <<cst, commitments, shares, seen, noise, batch, toSend, processes, faultySends>>

\* signature_shares(), then aggregate() verifies the shares of the package.
ValidShare(q) ==
  /\ shares[q] # NoShare
  /\ shares[q].nonce = commitments[q]
  /\ shares[q].pkg = commitments

Aggregate ==
  /\ cpc = "aggregating"
  /\ IF signature_shares_panics(cst) THEN cpc' = "panicked" /\ UNCHANGED cwhy
     ELSE IF /\ Cardinality(Committed) >= MinSigners
             /\ \A q \in Committed : ValidShare(q)
            THEN cpc' = "signed" /\ UNCHANGED cwhy
            ELSE CFail("badShares")
  /\ UNCHANGED <<session, cbox, queue, cst, commitments, shares, seen, noise, batch, toSend,
                 processes, faultySends>>

Cleanup ==
  /\ cpc = "cleanup"
  /\ cpc' = "failed"
  /\ session' = "closed"
  /\ Forget
  /\ UNCHANGED <<cst, commitments, shares, seen, noise, batch, toSend, cwhy, processes,
                 faultySends>>

-----------------------------------------------------------------------------
(***************************************************************************)
(* A signer's process.  No error of it is cleaned up after.                *)
(***************************************************************************)
Become(i, label) == pc' = [pc EXCEPT ![i] = label]

\* Nonces, log in, get_session_info, and the commitments to the coordinator.
SendCommitments(i) ==
  /\ pc[i] = "start"
  /\ session # "none"
  /\ IF session = "open"
       THEN /\ cbox' = Append(cbox, [kind |-> "Commit", from |-> Owner[i], chan |-> i,
                                     seq |-> 0, nonce |-> i, pkg |-> NoPackage])
            /\ Become(i, "waiting")
       ELSE Become(i, "failed") /\ UNCHANGED cbox
  /\ UNCHANGED <<session, queue, coordinator, got, faultySends>>

\* The loop that waits for the package: the first message of the first answer
\* that is not empty is taken for it, the rest of the answer is dropped.  A
\* message of anybody but the coordinator is NoPackage: it cannot be decrypted.
ReceivePackage(i) ==
  /\ pc[i] = "waiting"
  /\ \/ /\ session = "open"
        /\ queue[Owner[i]] # <<>>
        /\ queue' = Drained(queue, Owner[i])
        /\ \/ /\ Head(queue[Owner[i]]) # NoPackage
              /\ got' = [got EXCEPT ![i] = Head(queue[Owner[i]])]
              /\ Become(i, "confirm")
           \/ /\ Head(queue[Owner[i]]) = NoPackage
              /\ Become(i, "failed")
              /\ UNCHANGED got
     \/ /\ session # "open"
        /\ Become(i, "failed")
        /\ UNCHANGED <<got, queue>>
  /\ UNCHANGED <<session, cbox, coordinator, faultySends>>

\* confirm_message(): the user answers y, or anything else.
Confirm(i) ==
  /\ pc[i] = "confirm"
  /\ Become(i, "signing") \/ Become(i, "declined")
  /\ UNCHANGED <<session, cbox, queue, coordinator, got, faultySends>>

\* round2::sign refuses a package that is too small or names other commitments
\* for this signer than those of its nonces.
Signs(i) ==
  /\ got[i][Owner[i]] = i
  /\ Cardinality({q \in Signers : got[i][q] # NoNonce}) >= MinSigners

\* sign() and send_signature_share().
SendShare(i) ==
  /\ pc[i] = "signing"
  /\ IF Signs(i) /\ session = "open"
       THEN /\ cbox' = Append(cbox, [kind |-> "Share", from |-> Owner[i], chan |-> i,
                                     seq |-> 1, nonce |-> i, pkg |-> got[i]])
            /\ Become(i, "done")
       ELSE Become(i, "failed") /\ UNCHANGED cbox
  /\ UNCHANGED <<session, queue, coordinator, got, faultySends>>

-----------------------------------------------------------------------------
(***************************************************************************)
(* The environment: processes that are killed, signers that send anything  *)
(* (under their own key only: frostd and Noise authenticate the sender),   *)
(* and the coordinator's user closing all sessions from another terminal.  *)
(***************************************************************************)
Crash(i) ==
  /\ i \in Crashable
  /\ pc[i] \notin EndedProcs
  /\ Become(i, "crashed")
  /\ UNCHANGED <<session, cbox, queue, coordinator, got, faultySends>>

CoordinatorCrash ==
  /\ MayCrash
  /\ cpc \notin {"start", "signed", "failed", "panicked", "crashed"}
  /\ cpc' = "crashed"
  /\ UNCHANGED <<session, cbox, queue, cst, commitments, shares, seen, noise, batch, toSend,
                 cwhy, processes, faultySends>>

\* A share is made for the package of the session or for nothing.
FaultySend(m) ==
  /\ session = "open"
  /\ faultySends < MaxFaultySends
  /\ faultySends' = faultySends + 1
  /\ \E v \in {commitments, NoPackage} : cbox' = Append(cbox, [m EXCEPT !.pkg = v])
  /\ UNCHANGED <<session, queue, coordinator, processes>>

\* Messages of one signer to another, which this program never sends.
FaultyPost(q) ==
  /\ session = "open"
  /\ Faulty # {}
  /\ faultySends < MaxFaultySends
  /\ faultySends' = faultySends + 1
  /\ queue' = Delivered(queue, q, NoPackage)
  /\ UNCHANGED <<session, cbox, coordinator, processes>>

CloseAll ==
  /\ MayCloseAll
  /\ session = "open"
  /\ session' = "closed"
  /\ Forget
  /\ UNCHANGED <<coordinator, processes, faultySends>>

-----------------------------------------------------------------------------
CoordinatorStep ==
  \/ OpenSession \/ Fetch \/ HandleMsg \/ LeaveCollect
  \/ \E q \in Signers : SendPackage(q)
  \/ LeaveAwait \/ CloseSession \/ Aggregate \/ Cleanup

Step(i) ==
  SendCommitments(i) \/ ReceivePackage(i) \/ Confirm(i) \/ SendShare(i)

FaultyStep ==
  \/ \E m \in Repertoire : FaultySend(m)
  \/ \E q \in Correct : FaultyPost(q)

Next ==
  \/ CoordinatorStep
  \/ \E i \in Procs : Step(i) \/ Crash(i)
  \/ FaultyStep
  \/ CloseAll
  \/ CoordinatorCrash

Spec == Init /\ [][Next]_vars

(***************************************************************************)
(* Every process is an async task that runs until it ends, and a user      *)
(* starts the process of a session it was told of and answers the prompt.  *)
(***************************************************************************)
Fairness == WF_vars(CoordinatorStep) /\ \A i \in Procs : WF_vars(Step(i))

FairSpec == Spec /\ Fairness
-----------------------------------------------------------------------------
(***************************************************************************)
(* Properties.                                                             *)
(***************************************************************************)
\* A signature comes out only when every correct signer the coordinator chose
\* gave a share for that very package, and no signer gives two
\* (coordinate_signing() and sign() together, with any number of processes of
\* the signers).
Promise == INSTANCE SigningPromise WITH
  Packages <- Package,
  signed   <- {<<Owner[i], got[i]>> : i \in {j \in Procs : pc[j] = "done"}},
  released <- IF cpc = "signed" THEN commitments ELSE NoPackage

KeepsPromise == Promise!PSpec

\* "A malicious or broken participant must not be able to kill the
\* coordinator": it only fails when somebody closes the session, or when all
\* shares are there and that of a faulty signer is wrong.
NotKilledByMessages ==
  /\ cwhy = "session" => MayCloseAll
  /\ cwhy = "badShares" => \/ \E q \in Faulty : ~ValidShare(q)
                           \/ Cardinality(Signers) < MinSigners

\* commitments() and signature_shares() are out of reach until they may be
\* called.
NoPanic == cpc # "panicked"

\* recv() "should be called for new Msgs until" the state has moved on: what the
\* rest of an answer holds is then skipped, whoever sent it.
NothingAfterComplete ==
  /\ cpc = "collect" /\ cst # WC => seen = Signers
  /\ cpc = "await" /\ cst # WS => seen = Signers

\* The Noise context of a signer stays tied to the process whose commitments
\* were stored and expects its next message, whatever other processes of that
\* signer send in between: its share can be read.
ContextInStep ==
  \A q \in Correct : commitments[q] # NoNonce =>
    noise[q] = [chan |-> commitments[q], next |-> IF shares[q] = NoShare THEN 1 ELSE 2]

\* The user of a process does not answer y, or the process is killed.
Interrupted == \E i \in Procs : pc[i] \in {"declined", "crashed"}

\* The package was fetched by a process whose commitments are not in it, while
\* the one that could sign it keeps waiting.
Intercepted ==
  \E i \in Procs : pc[i] = "failed" /\ got[i] # NoPackage /\ got[i][Owner[i]] # i

\* Somebody else closed the session before the coordinator did, or killed it.
Stopped ==
  \/ cpc = "crashed"
  \/ session = "closed" /\ cpc \in {"collect", "sending", "await", "closing"}

\* With correct signers a session ends with a signature, unless a user or a
\* second process of a signer gets in the way.
CompletesUnlessIntercepted ==
  <>(cpc = "signed") \/ <>(Interrupted \/ Intercepted \/ Stopped)

\* Processes that are left over when the coordinator is through, or when the
\* session was closed on it, do not wait for ever: their next call fails.
LeftoversEnd ==
  (session = "closed" \/ cpc \in {"signed", "failed"}) ~> \A i \in Procs : pc[i] \in EndedProcs

-----------------------------------------------------------------------------
(***************************************************************************)
(* What a test says and the code does not keep.                            *)
(***************************************************************************)
\* "When a participant accidentally re-joins a session with a fresh Noise
\* context, ... the signing session completes successfully"
\* (tests/duplicate_participant.rs).  The second process may fetch the package
\* from the mailbox they share.
CompletesDespiteRejoin ==
  <>(cpc = "signed") \/ <>Interrupted

-----------------------------------------------------------------------------
(***************************************************************************)
(* The inductive invariant behind the safety properties.                   *)
(***************************************************************************)
\* What is known of a message on its way to the coordinator.
MessageInv(m) ==
  m.from \in Correct =>
    /\ m.chan \in Procs /\ Owner[m.chan] = m.from /\ m.nonce = m.chan
    /\ (m.kind = "Commit" /\ m.seq = 0) \/ (m.kind = "Share" /\ m.seq = 1)
    /\ m.kind = "Share" => pc[m.chan] = "done" /\ m.pkg = got[m.chan]

ChannelInv ==
  /\ \A k \in 1 .. Len(cbox) : MessageInv(cbox[k])
  /\ \A k \in 1 .. Len(batch) : MessageInv(batch[k])

\* There is one package: the commitments, once they are complete.
PackageInv ==
  /\ \A q \in Signers : \A k \in 1 .. Len(queue[q]) :
       queue[q][k] # NoPackage => cst # WC /\ queue[q][k] = commitments
  /\ \A i \in Procs : pc[i] \in {"confirm", "signing", "done"} =>
       cst # WC /\ got[i] = commitments
  /\ \A i \in Procs : pc[i] = "done" => got[i][Owner[i]] = i

\* The share of a correct signer that was stored is that of a process that gave
\* it.
ShareInv ==
  \A q \in Correct : shares[q] # NoShare =>
    \E i \in Procs : /\ Owner[i] = q /\ pc[i] = "done"
                     /\ shares[q] = [nonce |-> i, pkg |-> got[i]]

Shared == {q \in Signers : shares[q] # NoShare}

\* How far the state is at each point of coordinate_signing().
CoordinatorInv ==
  /\ cst # WC => Committed = Signers
  /\ cst = Ready => Shared = Signers
  /\ cpc = "start" => cst = WC
  /\ cpc \in {"start", "collect"} => seen = Committed
  /\ cpc \in {"start", "collect", "sending"} => cst # Ready /\ Shared = {}
  /\ cpc \in {"sending", "await"} => cst # WC
  /\ cpc = "await" => seen = Shared
  /\ cpc \in {"closing", "aggregating", "signed"} => cst = Ready
  /\ cpc \notin {"start", "aggregating", "cleanup", "signed", "failed", "crashed"} =>
       session = "open" \/ MayCloseAll
  /\ cwhy # "-" => cpc \in {"cleanup", "failed", "crashed"}

\* The Noise context of a correct signer is tied to a process by the commitments
\* that are stored, and by nothing else.
ContextInv ==
  /\ ContextInStep
  /\ \A q \in Correct : noise[q].chan = Fresh <=> commitments[q] = NoNonce

IInv ==
  /\ TypeOK /\ ChannelInv /\ PackageInv /\ ShareInv /\ CoordinatorInv /\ ContextInv
  /\ NotKilledByMessages /\ NoPanic
=============================================================================
