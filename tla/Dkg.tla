--------------------------------- MODULE Dkg ---------------------------------
(***************************************************************************)
(* Distributed key generation as mina-frost-client runs it: one process    *)
(* per participant (keygen() over HTTPComms), each with a DKGSessionState, *)
(* exchanging messages through one frostd session.                         *)
(*                                                                         *)
(* What is abstracted.  An identifier is derived from the public key and   *)
(* the session, so the two are one value here.  A round 1 package is a     *)
(* version in Ver: two packages of one participant are equal exactly when  *)
(* their versions are.  A round 2 package carries the version of the       *)
(* commitments it was made for, because all part3 can tell is whether the  *)
(* secret share fits the sender's commitments.  Every process that runs    *)
(* once sends its messages to a peer over one Noise channel and frostd     *)
(* keeps their order, so they decrypt; a message that does not (from a     *)
(* participant that broke down or was started twice) is of kind "Junk".    *)
(*                                                                         *)
(* A step is one HTTP call, the handling of one received message, or the   *)
(* local computation between two calls.                                    *)
(***************************************************************************)
EXTENDS Frostd, Naturals, FiniteSets

CONSTANTS
  Participants,   \* the public keys of the session
  Creator,        \* the participant that was given the others' public keys
  Faulty,         \* participants whose process may send anything
  Crashable,      \* participants whose process may be killed at any point
  Ver,            \* contents of a round 1 package
  Sound,          \* those whose proof of knowledge verifies
  Genuine,        \* what a correct process sends as its own package
  NoPkg,          \* "no package stored"
  Repertoire,     \* bound: the <<recipient, message>> the faulty choose from
  MaxFaultySends, \* bound: how many of them it sends to one recipient
  Paced           \* bound: it waits until the recipient has nothing left to handle

Message == [kind : {"R1", "Echo", "R2", "Junk"}, from : Participants,
            orig : Participants, ver : Ver]

ASSUME DkgAssumption ==
  /\ IsFiniteSet(Participants) /\ Cardinality(Participants) >= 2
  /\ Creator \in Participants
  /\ Faulty \subseteq Participants
  /\ Crashable \subseteq Participants
  /\ Sound \subseteq Ver /\ Genuine \in Sound
  /\ NoPkg \notin Ver
  /\ Repertoire \subseteq Participants \X Message
  /\ MaxFaultySends \in Nat
  /\ Paced \in BOOLEAN

VARIABLES
  session,      \* frostd: status of the session
  queue,        \* frostd: the mailbox of each participant
  pc,           \* where each process is in keygen()
  todo,         \* messages it has still to send in this round, as
                \* <<recipient, original sender of the package>>
  inbox,        \* r.msgs: the messages of the last answer not yet handled
  st,           \* the variant of its DKGSessionState
  r1,           \* round1_packages
  bc,           \* keys of round1_broadcasted_packages: <<original, sender>>
  r2,           \* round2_packages
  why,          \* the error a process ended with
  faultySends   \* messages each participant was sent by faulty ones

vars == <<session, queue, pc, todo, inbox, st, r1, bc, r2, why, faultySends>>

-----------------------------------------------------------------------------
Correct == Participants \ Faulty
Others(p) == Participants \ {p}

\* The variants of DKGSessionState.
W1    == "WaitingForRound1Packages"
WB    == "WaitingForRound1PackagesBroadcast"
W2    == "WaitingForRound2Packages"
Ready == "Round2PackagesReady"
States == {W1, WB, W2, Ready}

Polling == {"pollR1", "pollEcho", "pollR2"}
Sending == {"sendR1", "sendEcho", "sendR2"}
Running == Polling \cup Sending \cup {"closing", "finishing"}
Ended   == {"done", "failed", "panicked", "crashed"}
Pcs     == {"start", "cleanup", "faulty"} \cup Running \cup Ended

Errors == {"parse", "wrongState", "ownEcho", "redundantEcho", "noOriginal",
           "mismatch", "duplicate", "decrypt", "session", "badR1", "badR2"}

TypeOK ==
  /\ session \in SessionStatus
  /\ queue \in [Participants -> Seq(Message)]
  /\ pc \in [Participants -> Pcs]
  /\ todo \in [Participants -> SUBSET (Participants \X Participants)]
  /\ inbox \in [Participants -> Seq(Message)]
  /\ st \in [Participants -> States]
  /\ r1 \in [Participants -> [Participants -> Ver \cup {NoPkg}]]
  /\ bc \in [Participants -> SUBSET (Participants \X Participants)]
  /\ r2 \in [Participants -> [Participants -> Ver \cup {NoPkg}]]
  /\ why \in [Participants -> Errors \cup {"-"}]
  /\ faultySends \in [Participants -> 0 .. MaxFaultySends]

Init ==
  /\ session = "none"
  /\ queue = [p \in Participants |-> <<>>]
  /\ pc = [p \in Participants |-> IF p \in Faulty THEN "faulty" ELSE "start"]
  /\ todo = [p \in Participants |-> {}]
  /\ inbox = [p \in Participants |-> <<>>]
  /\ st = [p \in Participants |-> W1]
  /\ r1 = [p \in Participants |-> [q \in Participants |-> NoPkg]]
  /\ bc = [p \in Participants |-> {}]
  /\ r2 = [p \in Participants |-> [q \in Participants |-> NoPkg]]
  /\ why = [p \in Participants |-> "-"]
  /\ faultySends = [p \in Participants |-> 0]

-----------------------------------------------------------------------------
(***************************************************************************)
(* DKGSessionState: what its accessors answer.                             *)
(***************************************************************************)
Stored(map) == {q \in Participants : map[q] # NoPkg}

\* Mutant: ready as soon as the round is entered.
has_round2_packages_Early(s) == s \in {W2, Ready}

has_round1_packages(s)           == s \in {WB, W2}
has_round1_broadcast_packages(s) == s = W2
has_round2_packages(s)           == s = Ready

\* round1_packages() and round2_packages() panic in every other state.
round1_packages_panics(s) == s \notin {WB, W2}
round2_packages_panics(s) == s # Ready

\* Mutants: a map that is missing is not missed; the original sender is not added
\* to the identifiers of its map.
AllEchoed_SomeMaps(p, echoes) ==
  \A o \in {e[1] : e \in echoes} :
    {e[2] : e \in {x \in echoes : x[1] = o}} \cup {o} = Stored(r1[p])
AllEchoed_NoOriginal(p, echoes) ==
  LET others == Stored(r1[p])
  IN  /\ {e[1] : e \in echoes} = others
      /\ \A o \in others : {e[2] : e \in {x \in echoes : x[1] = o}} = others

\* The test at the end of handle_round1_package_broadcast: there is a map for
\* every other participant, and it has an entry of everybody else.  (What the
\* entries hold was compared with the original before it was inserted.)
AllEchoed(p, echoes) ==
  LET others == Stored(r1[p])
  IN  /\ {e[1] : e \in echoes} = others
      /\ \A o \in others : {e[2] : e \in {x \in echoes : x[1] = o}} \cup {o} = others

-----------------------------------------------------------------------------
(***************************************************************************)
(* Leaving keygen() with an error or a panic.  The error reaches keygen(), *)
(* which calls cleanup_on_error() before returning it; a panic ends the    *)
(* process where it is.                                                    *)
(***************************************************************************)
Fail(p, error) ==
  /\ pc' = [pc EXCEPT ![p] = "cleanup"]
  /\ why' = [why EXCEPT ![p] = error]

Panic(p) ==
  /\ pc' = [pc EXCEPT ![p] = "panicked"]
  /\ UNCHANGED why

Goto(p, label) ==
  /\ pc' = [pc EXCEPT ![p] = label]
  /\ UNCHANGED why

\* close_session: frostd refuses everybody but the creator, and the refusal is
\* dropped.
Cleanup(p) ==
  /\ pc[p] = "cleanup"
  /\ pc' = [pc EXCEPT ![p] = "failed"]
  /\ IF p = Creator /\ session = "open"
       THEN session' = "closed" /\ queue' = Discarded(queue)
       ELSE UNCHANGED <<session, queue>>
  /\ UNCHANGED <<todo, inbox, st, r1, bc, r2, why, faultySends>>

-----------------------------------------------------------------------------
(***************************************************************************)
(* get_identifier_and_max_signers(): the creator creates the session, the  *)
(* others look it up.  Users start their process once the creator told     *)
(* them that the session exists.  part1 and the ciphers come before the    *)
(* first message is sent.                                                  *)
(***************************************************************************)
Begin(p) ==
  /\ Goto(p, "sendR1")
  /\ todo' = [todo EXCEPT ![p] = Others(p) \X {p}]

CreateSession ==
  /\ session = "none"
  /\ session' = "open"
  /\ IF Creator \in Faulty
       THEN UNCHANGED <<pc, todo, why>>
       ELSE pc[Creator] = "start" /\ Begin(Creator)
  /\ UNCHANGED <<queue, inbox, st, r1, bc, r2, faultySends>>

Join(p) ==
  /\ p # Creator
  /\ pc[p] = "start"
  /\ session # "none"
  /\ IF session = "open"
       THEN Begin(p)
       ELSE Fail(p, "session") /\ UNCHANGED todo
  /\ UNCHANGED <<session, queue, inbox, st, r1, bc, r2, faultySends>>

-----------------------------------------------------------------------------
(***************************************************************************)
(* Sending.  self.pubkeys is a HashMap: the order of the recipients is not *)
(* specified.  For one recipient the echoes follow each other.             *)
(***************************************************************************)
PollAfter(label) ==
  CASE label = "sendR1"   -> "pollR1"
    [] label = "sendEcho" -> "pollEcho"
    [] label = "sendR2"   -> "pollR2"

\* The next message: the echoes begun for a recipient are finished first.
NextToSend(p, e) ==
  /\ e \in todo[p]
  /\ pc[p] = "sendEcho" =>
       \A q \in Others(p) \ {e[1]} :
         \/ q \notin {x[1] : x \in todo[p]}
         \/ \A o \in Others(p) \ {q} : <<q, o>> \in todo[p]

\* What p sends to e[1] about e[2].
Outgoing(p, e) ==
  CASE pc[p] = "sendR1"   -> [kind |-> "R1",   from |-> p, orig |-> p,    ver |-> Genuine]
    [] pc[p] = "sendEcho" -> [kind |-> "Echo", from |-> p, orig |-> e[2], ver |-> r1[p][e[2]]]
    [] pc[p] = "sendR2"   -> [kind |-> "R2",   from |-> p, orig |-> p,    ver |-> Genuine]

SendOne(p, e) ==
  /\ pc[p] \in Sending
  /\ NextToSend(p, e)
  /\ IF session = "open"
       THEN /\ queue' = Delivered(queue, e[1], Outgoing(p, e))
            /\ todo' = [todo EXCEPT ![p] = @ \ {e}]
            /\ IF todo[p] = {e}
                 THEN Goto(p, PollAfter(pc[p]))
                 ELSE UNCHANGED <<pc, why>>
       ELSE Fail(p, "session") /\ UNCHANGED <<queue, todo>>
  /\ UNCHANGED <<session, inbox, st, r1, bc, r2, faultySends>>

Send(p) == \E e \in todo[p] : SendOne(p, e)

-----------------------------------------------------------------------------
(***************************************************************************)
(* The receive loops: fetch everything the mailbox holds, handle it message *)
(* by message, and only then look whether the round is complete.           *)
(***************************************************************************)
\* Mutant: the echo loop waits for the round 1 packages only.
LoopEnds_NoEchoWait(p) ==
  CASE pc[p] = "pollR1"   -> has_round1_packages(st[p])
    [] pc[p] = "pollEcho" -> has_round1_packages(st[p])
    [] pc[p] = "pollR2"   -> has_round2_packages(st[p])
    [] OTHER              -> FALSE

LoopEnds(p) ==
  CASE pc[p] = "pollR1"   -> has_round1_packages(st[p])
    [] pc[p] = "pollEcho" -> has_round1_broadcast_packages(st[p])
    [] pc[p] = "pollR2"   -> has_round2_packages(st[p])
    [] OTHER              -> FALSE

\* An empty answer changes nothing: the process sleeps and asks again.
Fetch(p) ==
  /\ pc[p] \in Polling
  /\ inbox[p] = <<>>
  /\ ~LoopEnds(p)
  /\ \/ /\ session = "open"
        /\ queue[p] # <<>>
        /\ inbox' = [inbox EXCEPT ![p] = queue[p]]
        /\ queue' = Drained(queue, p)
        /\ UNCHANGED <<pc, why>>
     \/ /\ session # "open"
        /\ Fail(p, "session")
        /\ UNCHANGED <<inbox, queue>>
  /\ UNCHANGED <<session, todo, st, r1, bc, r2, faultySends>>

Refuse(p, error) == Fail(p, error) /\ UNCHANGED <<st, r1, bc, r2>>

\* handle_round1_package: a package of the same sender is overwritten.
handle_round1_package(p, m) ==
  LET packages == [r1[p] EXCEPT ![m.from] = m.ver]
      complete == Cardinality(Stored(packages)) = Cardinality(Participants) - 1
      next     == IF Cardinality(Participants) > 2 THEN WB ELSE W2
  IN  /\ r1' = [r1 EXCEPT ![p] = packages]
      /\ st' = [st EXCEPT ![p] = IF complete THEN next ELSE @]
      /\ UNCHANGED <<pc, why, bc, r2>>

\* Mutant: the echo is not compared with the package received.
EchoError_NotCompared(p, m) ==
  IF m.orig = p THEN "ownEcho"
  ELSE IF m.orig = m.from THEN "redundantEcho"
  ELSE IF r1[p][m.orig] = NoPkg THEN "noOriginal"
  ELSE IF <<m.orig, m.from>> \in bc[p] THEN "duplicate"
  ELSE "-"

\* The checks of handle_round1_package_broadcast, in their order.
EchoError(p, m) ==
  IF m.orig = p THEN "ownEcho"
  ELSE IF m.orig = m.from THEN "redundantEcho"
  ELSE IF r1[p][m.orig] = NoPkg THEN "noOriginal"
  ELSE IF r1[p][m.orig] # m.ver THEN "mismatch"
  ELSE IF <<m.orig, m.from>> \in bc[p] THEN "duplicate"
  ELSE "-"

handle_round1_package_broadcast(p, m) ==
  LET echoes == bc[p] \cup {<<m.orig, m.from>>}
  IN  IF EchoError(p, m) # "-"
        THEN Refuse(p, EchoError(p, m))
        ELSE /\ bc' = [bc EXCEPT ![p] = echoes]
             /\ st' = [st EXCEPT ![p] = IF AllEchoed(p, echoes) THEN W2 ELSE @]
             /\ UNCHANGED <<pc, why, r1, r2>>

\* handle_round2_package: a package of the same sender is overwritten.
handle_round2_package(p, m) ==
  LET packages == [r2[p] EXCEPT ![m.from] = m.ver]
      complete == Stored(packages) = Stored(r1[p])
  IN  /\ r2' = [r2 EXCEPT ![p] = packages]
      /\ st' = [st EXCEPT ![p] = IF complete THEN Ready ELSE @]
      /\ UNCHANGED <<pc, why, r1, bc>>

\* The kind of message the deserialisation of each state accepts.
Expected == [s \in {W1, WB, W2} |-> CASE s = W1 -> "R1" [] s = WB -> "Echo" [] s = W2 -> "R2"]

\* Mutant: a round 1 package that is sent again is taken during the echo round too.
recv_LateR1(p, m) ==
  \/ m.kind = "Junk" /\ Refuse(p, "decrypt")
  \/ m.kind # "Junk" /\ st[p] = Ready /\ Refuse(p, "wrongState")
  \/ m.kind # "Junk" /\ st[p] # Ready /\ m.kind # Expected[st[p]] /\ Refuse(p, "parse")
  \/ m.kind = "R1"   /\ st[p] \in {W1, WB} /\ handle_round1_package(p, m)
  \/ m.kind = "Echo" /\ st[p] = WB /\ handle_round1_package_broadcast(p, m)
  \/ m.kind = "R2"   /\ st[p] = W2 /\ handle_round2_package(p, m)

\* cipher.decrypt(), then DKGSessionState::recv(); any error leaves the loop.
recv(p, m) ==
  \/ m.kind = "Junk" /\ Refuse(p, "decrypt")
  \/ m.kind # "Junk" /\ st[p] = Ready /\ Refuse(p, "wrongState")
  \/ m.kind # "Junk" /\ st[p] # Ready /\ m.kind # Expected[st[p]] /\ Refuse(p, "parse")
  \/ m.kind = "R1"   /\ st[p] = W1 /\ handle_round1_package(p, m)
  \/ m.kind = "Echo" /\ st[p] = WB /\ handle_round1_package_broadcast(p, m)
  \/ m.kind = "R2"   /\ st[p] = W2 /\ handle_round2_package(p, m)

Handle(p) ==
  /\ pc[p] \in Polling
  /\ inbox[p] # <<>>
  /\ recv(p, Head(inbox[p]))
  /\ inbox' = [inbox EXCEPT ![p] = Tail(@)]
  /\ UNCHANGED <<session, queue, todo, faultySends>>

-----------------------------------------------------------------------------
(***************************************************************************)
(* Between the rounds.                                                     *)
(***************************************************************************)
\* get_round1_packages() returns round1_packages(), part2 verifies the proof
\* of knowledge in each of them, and get_round2_packages() starts sending.
EnterRound2(p) ==
  IF round1_packages_panics(st[p]) THEN Panic(p) /\ UNCHANGED todo
  ELSE IF \E q \in Others(p) : r1[p][q] \notin Sound
         THEN Fail(p, "badR1") /\ UNCHANGED todo
         ELSE /\ Goto(p, "sendR2")
              /\ todo' = [todo EXCEPT ![p] = Others(p) \X {p}]

\* Mutants: every participant's package is echoed, its own included; a package is
\* echoed to its original sender too.
LeaveRound1_EchoesOwn(p) ==
  /\ pc[p] = "pollR1" /\ inbox[p] = <<>> /\ LoopEnds(p)
  /\ Goto(p, "sendEcho")
  /\ todo' = [todo EXCEPT ![p] = {e \in Others(p) \X Participants : e[1] # e[2]}]
  /\ UNCHANGED <<session, queue, inbox, st, r1, bc, r2, faultySends>>
LeaveRound1_EchoesBack(p) ==
  /\ pc[p] = "pollR1" /\ inbox[p] = <<>> /\ LoopEnds(p)
  /\ Goto(p, "sendEcho")
  /\ todo' = [todo EXCEPT ![p] = Others(p) \X Stored(r1[p])]
  /\ UNCHANGED <<session, queue, inbox, st, r1, bc, r2, faultySends>>

\* The echo broadcast is skipped when has_round1_broadcast_packages() holds
\* already; otherwise everybody is sent the package of everybody else.
LeaveRound1(p) ==
  /\ pc[p] = "pollR1" /\ inbox[p] = <<>> /\ LoopEnds(p)
  /\ IF has_round1_broadcast_packages(st[p])
       THEN EnterRound2(p)
       ELSE IF round1_packages_panics(st[p])
              THEN Panic(p) /\ UNCHANGED todo
              ELSE /\ Goto(p, "sendEcho")
                   /\ todo' = [todo EXCEPT ![p] =
                        {e \in Others(p) \X Stored(r1[p]) : e[1] # e[2]}]
  /\ UNCHANGED <<session, queue, inbox, st, r1, bc, r2, faultySends>>

LeaveEcho(p) ==
  /\ pc[p] = "pollEcho" /\ inbox[p] = <<>> /\ LoopEnds(p)
  /\ EnterRound2(p)
  /\ UNCHANGED <<session, queue, inbox, st, r1, bc, r2, faultySends>>

LeaveRound2(p) ==
  /\ pc[p] = "pollR2" /\ inbox[p] = <<>> /\ LoopEnds(p)
  /\ Goto(p, IF p = Creator THEN "closing" ELSE "finishing")
  /\ UNCHANGED <<session, queue, todo, inbox, st, r1, bc, r2, faultySends>>

\* The creator closes the session as soon as it has its own packages.
CloseSession(p) ==
  /\ pc[p] = "closing"
  /\ session' = "closed"
  /\ queue' = Discarded(queue)
  /\ Goto(p, "finishing")
  /\ UNCHANGED <<todo, inbox, st, r1, bc, r2, faultySends>>

\* logout, round2_packages(), part3 (each share must fit its sender's
\* commitments) and get_pubkey_identifier_map().
Finish(p) ==
  /\ pc[p] = "finishing"
  /\ IF round2_packages_panics(st[p]) THEN Panic(p)
     ELSE IF \E q \in Others(p) : r2[p][q] # r1[p][q]
            THEN Fail(p, "badR2")
            ELSE Goto(p, "done")
  /\ UNCHANGED <<session, queue, todo, inbox, st, r1, bc, r2, faultySends>>

-----------------------------------------------------------------------------
(***************************************************************************)
(* The environment: a process that is killed (nothing is cleaned up), and  *)
(* participants whose messages are arbitrary.  frostd authenticates the    *)
(* sender, so they speak for themselves only.                              *)
(***************************************************************************)
Crash(p) ==
  /\ p \in Crashable
  /\ pc[p] \in Running
  /\ pc' = [pc EXCEPT ![p] = "crashed"]
  /\ UNCHANGED <<session, queue, todo, inbox, st, r1, bc, r2, why, faultySends>>

FaultySend(q, m) ==
  /\ m.from \in Faulty /\ q \in Correct
  /\ session = "open"
  /\ faultySends[q] < MaxFaultySends
  /\ Paced => queue[q] = <<>> /\ inbox[q] = <<>>
  /\ faultySends' = [faultySends EXCEPT ![q] = @ + 1]
  /\ queue' = Delivered(queue, q, m)
  /\ UNCHANGED <<session, pc, todo, inbox, st, r1, bc, r2, why>>

FaultyClose ==
  /\ Creator \in Faulty
  /\ session = "open"
  /\ session' = "closed"
  /\ queue' = Discarded(queue)
  /\ UNCHANGED <<pc, todo, inbox, st, r1, bc, r2, why, faultySends>>

-----------------------------------------------------------------------------
\* What a process does by itself, one step at a time.
Step(p) ==
  \/ Join(p) \/ Send(p) \/ Fetch(p) \/ Handle(p)
  \/ LeaveRound1(p) \/ LeaveEcho(p) \/ LeaveRound2(p)
  \/ CloseSession(p) \/ Finish(p) \/ Cleanup(p)

Next ==
  \/ CreateSession
  \/ \E p \in Correct : Step(p) \/ Crash(p)
  \/ \E e \in Repertoire : FaultySend(e[1], e[2])
  \/ FaultyClose

Spec == Init /\ [][Next]_vars

(***************************************************************************)
(* Each process is one async task that runs until it ends: a step that     *)
(* stays possible is taken.  Nothing is assumed of crashes or of faulty    *)
(* participants.                                                           *)
(***************************************************************************)
Fairness == WF_vars(CreateSession) /\ \A p \in Correct : WF_vars(Step(p))

FairSpec == Spec /\ Fairness
-----------------------------------------------------------------------------
(***************************************************************************)
(* Properties.                                                             *)
(***************************************************************************)
\* The round 1 packages p works with, its own included: they determine the
\* group's verifying key and everybody's verifying share.
View(p) == [q \in Participants |-> IF q = p THEN Genuine ELSE r1[p][q]]

\* p has accepted its round 1 packages for good.
Verified(p) == st[p] \in {W2, Ready}

\* The echo broadcast does its work: two correct participants that left it hold
\* the same package of every participant, whatever the faulty ones sent to
\* whom and in whatever order messages were fetched
\* (handle_round1_package_broadcast).
EchoConsistency ==
  \A p, q \in Correct : Verified(p) /\ Verified(q) => View(p) = View(q)

\* Nobody ends with a key share before every correct participant has verified
\* the round 1 packages: a round 2 package leaves a process only after that.
DoneAfterAllVerified ==
  \A p, q \in Correct : pc[p] = "done" => Verified(q)

\* The two together, as an implementation of what DkgAgreement promises.
Agreement == INSTANCE DkgAgreement WITH
  Views    <- [Participants -> Ver],
  accepted <- [p \in Correct |-> IF Verified(p) THEN {View(p)} ELSE {}],
  finished <- {p \in Correct : pc[p] = "done"}

ImplementsAgreement == Agreement!ASpec

\* The gates has_round1_packages() and has_round2_packages() keep the panicking
\* accessors round1_packages() and round2_packages() out of reach.
NoPanic == \A p \in Participants : pc[p] # "panicked"

\* While every participant is correct nobody is accused of a wrong, repeated or
\* missing package: a process can only fail because a message of a later round
\* came early or because the session is gone.
NoFalseAccusation ==
  Faulty = {} => \A p \in Participants : why[p] \in {"-", "parse", "wrongState", "session"}

\* An answer that holds messages of a later round than the loop p is in.
RoundOf(kind) == CASE kind = "R1" -> 1 [] kind = "Echo" -> 2 [] OTHER -> 3
LoopRound(p) == CASE pc[p] = "pollR1" -> 1 [] pc[p] = "pollEcho" -> 2 [] OTHER -> 3
RunsAhead(p) ==
  /\ pc[p] \in {"pollR1", "pollEcho"}
  /\ inbox[p] # <<>>
  /\ \E i \in 1 .. Len(inbox[p]) : RoundOf(inbox[p][i].kind) > LoopRound(p)

\* The session is gone while somebody has still to send or fetch through it.
ClosedOn(p) == session = "closed" /\ pc[p] \in Polling \cup Sending \cup {"start"}

\* The only two ways an undisturbed key generation can fail to finish: a process
\* fetches a message of a later round than the one its loop collects, or the
\* creator closes the session on somebody.  Otherwise, if no process is killed,
\* everybody gets a key.
FinishesInStep ==
  \/ <>(\E p \in Participants : pc[p] = "crashed" \/ RunsAhead(p) \/ ClosedOn(p))
  \/ <>(\A p \in Participants : pc[p] = "done")

-----------------------------------------------------------------------------
(***************************************************************************)
(* What the comments and tests say and the code does not keep.             *)
(***************************************************************************)
\* has_round1_packages() "Returns if all participants sent their Round 1
\* Packages": the loop that waits for them then ends.  It is FALSE again once
\* the round 2 packages are complete, and the loop polls for ever.
Round1LoopEnds ==
  \A p \in Correct :
    (pc[p] = "pollR1" /\ Stored(r1[p]) = Others(p)) ~> pc[p] # "pollR1"

\* Forming a group by key generation succeeds in every process
\* (form_group_with_dkg in the integration tests).  A message of the next round
\* that overtakes a slower participant's message of this round ends it; so does
\* a participant that got all packages and echoes in one answer and therefore
\* leaves its own echoes out (get_round1_packages).
NobodyFails == \A p \in Correct : pc[p] # "failed"

-----------------------------------------------------------------------------
(***************************************************************************)
(* The inductive invariant behind EchoConsistency, DoneAfterAllVerified    *)
(* and NoFalseAccusation.                                                  *)
(***************************************************************************)
\* What is known of a message m on its way to q.
MessageInv(m, q) ==
  /\ m.from # q
  /\ m.from \in Correct =>
       /\ m.kind \in {"R1", "R2"} => m.ver = Genuine
       /\ m.kind = "R2" => Verified(m.from)
       /\ m.kind = "Echo" =>
            st[m.from] # W1 /\ m.ver = r1[m.from][m.orig] /\ m.orig \notin {m.from, q}
       /\ m.kind # "Junk"

ChannelInv ==
  \A q \in Participants :
    /\ \A i \in 1 .. Len(queue[q]) : MessageInv(queue[q][i], q)
    /\ \A i \in 1 .. Len(inbox[q]) : MessageInv(inbox[q][i], q)

\* The position of a process tells how far its DKGSessionState is.
ControlInv ==
  \A p \in Correct :
    /\ pc[p] # "faulty"
    /\ pc[p] \in {"sendEcho", "pollEcho"} => st[p] # W1
    /\ pc[p] \in {"sendR2", "pollR2"} => Verified(p)
    /\ pc[p] \in {"closing", "finishing", "done"} => st[p] = Ready
    /\ pc[p] \in Sending => \A e \in todo[p] : e[1] # p
    /\ pc[p] = "sendEcho" => \A e \in todo[p] : e[2] # p /\ e[1] # e[2]

\* Round 1 packages: complete and final once the state is left that collects
\* them, and those of correct participants are their own.
Round1Inv ==
  \A p \in Correct :
    /\ r1[p][p] = NoPkg
    /\ st[p] # W1 => \A q \in Others(p) : r1[p][q] # NoPkg
    /\ \A q \in Correct : r1[p][q] \in {NoPkg, Genuine}

\* An echo that was accepted agrees with what its sender holds.
EchoInv ==
  \A p \in Correct :
    /\ st[p] = W1 => bc[p] = {}
    /\ \A o \in Participants, s \in Correct :
         <<o, s>> \in bc[p] => st[s] # W1 /\ r1[p][o] = r1[s][o]
    /\ Verified(p) => \A o, s \in Others(p) : o # s => <<o, s>> \in bc[p]

\* Round 2 packages of correct participants come from verified ones.
Round2Inv ==
  \A p \in Correct :
    /\ \A q \in Correct : r2[p][q] # NoPkg => Verified(q) /\ r2[p][q] = Genuine
    /\ st[p] = Ready => \A q \in Others(p) : r2[p][q] # NoPkg

\* s has still to tell q of the package of o.
ToEcho(s, q, o) ==
  \/ pc[s] \in {"start", "sendR1", "pollR1"}
  \/ pc[s] = "sendEcho" /\ <<q, o>> \in todo[s]

\* Where in a box the echoes are that s sent of the package of o.
Echoes(box, s, o) ==
  {i \in 1 .. Len(box) : box[i].kind = "Echo" /\ box[i].from = s /\ box[i].orig = o}

\* A correct participant tells each other one of a package once: the echo is
\* either still to be sent, or in the mailbox, or in the answer being handled,
\* or accepted.
OnceInv ==
  \A s \in Correct, q, o \in Participants :
    LET waiting  == Echoes(queue[q], s, o)
        fetched  == Echoes(inbox[q], s, o)
        accepted == <<o, s>> \in bc[q]
    IN  /\ \A i, j \in waiting : i = j
        /\ \A i, j \in fetched : i = j
        /\ waiting # {} => fetched = {} /\ ~accepted
        /\ fetched # {} => ~accepted
        /\ ToEcho(s, q, o) => waiting = {} /\ fetched = {} /\ ~accepted

IInv ==
  TypeOK /\ ChannelInv /\ ControlInv /\ Round1Inv /\ EchoInv /\ Round2Inv /\ OnceInv
=============================================================================
