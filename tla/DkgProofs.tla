------------------------------ MODULE DkgProofs ------------------------------
(***************************************************************************)
(* Proofs about Dkg for any number of participants and any set of faulty   *)
(* ones: the inductive invariant IInv, the agreement of the correct        *)
(* participants on the round 1 packages, and the refinement of             *)
(* DkgAgreement.                                                           *)
(***************************************************************************)
EXTENDS Dkg, FiniteSetTheorems, TLAPS

-----------------------------------------------------------------------------
(***************************************************************************)
(* Counting participants.                                                  *)
(***************************************************************************)
\* round1_packages.len() == pubkeys.len() - 1 means that every other
\* participant is a key of the map.
LEMMA CountIsAll ==
  ASSUME NEW p \in Participants, NEW S \in SUBSET Others(p),
         Cardinality(S) = Cardinality(Participants) - 1
  PROVE  S = Others(p)
<1>1. /\ IsFiniteSet(Others(p))
      /\ Cardinality(Others(p)) = Cardinality(Participants) - 1
  BY DkgAssumption, FS_RemoveElement DEF Others
<1>2. QED
  BY <1>1, FS_Subset

\* Three different participants are more than two.
LEMMA ThreeAreMoreThanTwo ==
  ASSUME NEW x \in Participants, NEW y \in Participants, NEW z \in Participants,
         x # y, y # z, x # z
  PROVE  Cardinality(Participants) > 2
<1>1. IsFiniteSet({}) /\ Cardinality({}) = 0
  BY FS_EmptySet
<1>2. IsFiniteSet({x}) /\ Cardinality({x}) = 1
  BY FS_Singleton
<1>3. IsFiniteSet({x} \cup {y}) /\ Cardinality({x} \cup {y}) = 2
  BY <1>2, FS_AddElement
<1>4. Cardinality(({x} \cup {y}) \cup {z}) = 3
  BY <1>3, FS_AddElement
<1>5. ({x} \cup {y}) \cup {z} \subseteq Participants
  OBVIOUS
<1>6. Cardinality(({x} \cup {y}) \cup {z}) <= Cardinality(Participants)
  BY <1>5, DkgAssumption, FS_Subset
<1>7. Cardinality(Participants) \in Nat
  BY DkgAssumption, FS_CardinalityType
<1>8. QED
  BY <1>4, <1>6, <1>7

-----------------------------------------------------------------------------
(***************************************************************************)
(* The initial states.                                                     *)
(***************************************************************************)
\* Nothing has been sent or received yet.
LEMMA InitIInv == Init => IInv
<1> SUFFICES ASSUME Init PROVE IInv
  OBVIOUS
<1> USE DkgAssumption DEF Init
<1>1. TypeOK
  BY DEF TypeOK, SessionStatus, Pcs, States, W1
<1>2. ChannelInv
  BY DEF ChannelInv
<1>3. ControlInv
  BY DEF ControlInv, Correct, Sending
<1>4. Round1Inv
  BY DEF Round1Inv, Correct
<1>5. EchoInv
  BY DEF EchoInv, Correct, Verified, W1, W2, Ready
<1>6. Round2Inv
  BY DEF Round2Inv, Correct, W1, Ready
<1>7. OnceInv
  BY DEF OnceInv, Echoes
<1>8. QED
  BY <1>1, <1>2, <1>3, <1>4, <1>5, <1>6, <1>7 DEF IInv

-----------------------------------------------------------------------------
(***************************************************************************)
(* What a step can do to the state of the DKGSessionStates.                *)
(***************************************************************************)
\* Only the handling of a message changes a DKGSessionState, and only that of
\* the process that handles it.
LEMMA OnlyHandleChangesState ==
  ASSUME Next, \A p \in Correct : ~Handle(p)
  PROVE  UNCHANGED <<st, r1, bc, r2>>
<1>1. CASE CreateSession
  BY <1>1 DEF CreateSession
<1>2. ASSUME NEW p \in Correct, Step(p) \/ Crash(p)
      PROVE  UNCHANGED <<st, r1, bc, r2>>
  BY <1>2 DEF Step, Join, Send, SendOne, Fetch, LeaveRound1, LeaveEcho,
              LeaveRound2, CloseSession, Finish, Cleanup, Crash
<1>3. ASSUME NEW e \in Repertoire, FaultySend(e[1], e[2])
      PROVE  UNCHANGED <<st, r1, bc, r2>>
  BY <1>3 DEF FaultySend
<1>4. CASE FaultyClose
  BY <1>4 DEF FaultyClose
<1>5. QED
  BY <1>1, <1>2, <1>3, <1>4 DEF Next

\* The three ways in which handling a message changes it.
HandlesR1(p, m)   == m.kind = "R1"   /\ st[p] = W1 /\ handle_round1_package(p, m)
HandlesR2(p, m)   == m.kind = "R2"   /\ st[p] = W2 /\ handle_round2_package(p, m)
HandlesEcho(p, m) ==
  /\ m.kind = "Echo" /\ st[p] = WB
  /\ EchoError(p, m) = "-"
  /\ handle_round1_package_broadcast(p, m)

\* Handling a message either leaves all of it alone or is one of them, applied
\* to a message of which MessageInv holds.
LEMMA HandleCases ==
  ASSUME NEW p \in Correct, IInv, Handle(p)
  PROVE  \/ UNCHANGED <<st, r1, bc, r2>>
         \/ \E m \in Message :
              /\ MessageInv(m, p)
              /\ HandlesR1(p, m) \/ HandlesEcho(p, m) \/ HandlesR2(p, m)
<1> DEFINE m == Head(inbox[p])
<1>1. inbox[p] \in Seq(Message) /\ inbox[p] # <<>>
  BY DEF IInv, TypeOK, Handle, Correct
<1>2. m \in Message /\ 1 \in 1 .. Len(inbox[p]) /\ m = inbox[p][1]
  BY <1>1
<1>3. MessageInv(m, p)
  BY <1>2 DEF IInv, ChannelInv, Correct
<1>4. recv(p, m)
  BY DEF Handle
<1>5. \/ UNCHANGED <<st, r1, bc, r2>>
      \/ HandlesR1(p, m) \/ HandlesEcho(p, m) \/ HandlesR2(p, m)
  BY <1>4 DEF recv, Refuse, HandlesR1, HandlesR2, HandlesEcho, handle_round1_package_broadcast
<1>6. QED
  BY <1>2, <1>3, <1>5

\* A state is never left backwards, and the round 1 packages are final once
\* the state that collects them is left.
LEMMA Monotone ==
  ASSUME IInv, [Next]_vars, NEW s \in Correct
  PROVE  /\ st[s] # W1 => st'[s] # W1 /\ r1'[s] = r1[s]
         /\ Verified(s) => Verified(s)'
         /\ st[s] = Ready => st'[s] = Ready
<1>1. CASE UNCHANGED <<st, r1, bc, r2>>
  BY <1>1 DEF Verified
<1>2. ASSUME NEW p \in Correct, NEW m \in Message,
             HandlesR1(p, m) \/ HandlesEcho(p, m) \/ HandlesR2(p, m)
      PROVE  /\ st[s] # W1 => st'[s] # W1 /\ r1'[s] = r1[s]
             /\ Verified(s) => Verified(s)'
             /\ st[s] = Ready => st'[s] = Ready
  <2>1. TypeOK
    BY DEF IInv
  <2>2. s \in Participants /\ p \in Participants
    BY DEF Correct
  <2>3. CASE HandlesR1(p, m)
    BY <2>1, <2>2, <2>3 DEF TypeOK, HandlesR1, handle_round1_package, Verified, W1, WB, W2, Ready
  <2>4. CASE HandlesEcho(p, m)
    BY <2>1, <2>2, <2>4 DEF TypeOK, HandlesEcho, handle_round1_package_broadcast, Verified, W1, WB, W2, Ready
  <2>5. CASE HandlesR2(p, m)
    BY <2>1, <2>2, <2>5 DEF TypeOK, HandlesR2, handle_round2_package, Verified, W1, WB, W2, Ready
  <2>6. QED
    BY <1>2, <2>3, <2>4, <2>5
<1>3. CASE UNCHANGED vars
  BY <1>3, <1>1 DEF vars
<1>4. CASE Next
  BY <1>1, <1>2, <1>4, OnlyHandleChangesState, HandleCases
<1>5. QED
  BY <1>3, <1>4

\* What is known of a message stays true of it while it travels.
LEMMA MessageStable ==
  ASSUME IInv, [Next]_vars, NEW m \in Message, NEW q \in Participants, MessageInv(m, q)
  PROVE  MessageInv(m, q)'
BY Monotone DEF MessageInv

-----------------------------------------------------------------------------
(***************************************************************************)
(* Round1Inv, EchoInv and Round2Inv: only the handlers matter.             *)
(***************************************************************************)
\* The stored packages of a complete first round are those of all others.
LEMMA StoredIsAll ==
  ASSUME NEW p \in Correct, IInv, st[p] # W1
  PROVE  Stored(r1[p]) = Others(p)
BY DEF IInv, Round1Inv, Stored, Others

\* A round 1 package is stored, the last one makes the collection final.
LEMMA Round1Step ==
  ASSUME NEW p \in Correct, NEW m \in Message, IInv, MessageInv(m, p), HandlesR1(p, m)
  PROVE  Round1Inv' /\ EchoInv' /\ Round2Inv'
<1> DEFINE packages == [r1[p] EXCEPT ![m.from] = m.ver]
<1> DEFINE complete == Cardinality(Stored(packages)) = Cardinality(Participants) - 1
<1>1. /\ TypeOK /\ Round1Inv /\ EchoInv /\ Round2Inv
      /\ p \in Participants
      /\ m.from \in Others(p) /\ m.ver \in Ver /\ m.ver # NoPkg
      /\ m.from \in Correct => m.ver = Genuine
      /\ st[p] = W1
  BY DkgAssumption DEF IInv, Correct, MessageInv, Message, HandlesR1, Others
<1>2. /\ r1' = [r1 EXCEPT ![p] = packages]
      /\ st' = [st EXCEPT ![p] = IF complete THEN IF Cardinality(Participants) > 2 THEN WB ELSE W2 ELSE @]
      /\ UNCHANGED <<bc, r2>>
  BY DEF HandlesR1, handle_round1_package
<1> HIDE DEF complete
<1>3. /\ st'[p] \in {W1, WB, W2}
      /\ \A q \in Participants : q # p => st'[q] = st[q] /\ r1'[q] = r1[q]
      /\ r1'[p] = packages
      /\ st'[p] # W1 => complete
      /\ st'[p] = W2 => Cardinality(Participants) <= 2
  <2>1. Cardinality(Participants) \in Nat
    BY DkgAssumption, FS_CardinalityType
  <2>2. QED
    BY <1>1, <1>2, <2>1 DEF TypeOK, W1, WB, W2
<1>4. packages[p] = NoPkg /\ Stored(packages) \subseteq Others(p)
  BY <1>1 DEF Round1Inv, Stored, Others, TypeOK
<1>5. complete => \A q \in Others(p) : packages[q] # NoPkg
  BY <1>1, <1>4, CountIsAll DEF complete, Stored
<1>6. \A q \in Correct : packages[q] \in {NoPkg, Genuine}
  BY <1>1 DEF Round1Inv, Correct, TypeOK
<1>7. Round1Inv'
  <2> SUFFICES ASSUME NEW q \in Correct
               PROVE  /\ r1'[q][q] = NoPkg
                      /\ st'[q] # W1 => \A x \in Others(q) : r1'[q][x] # NoPkg
                      /\ \A x \in Correct : r1'[q][x] \in {NoPkg, Genuine}
    BY DEF Round1Inv
  <2>1. CASE q = p
    BY <2>1, <1>3, <1>4, <1>5, <1>6
  <2>2. CASE q # p
    BY <2>2, <1>1, <1>3 DEF Round1Inv, Correct
  <2>3. QED
    BY <2>1, <2>2
<1>8. bc[p] = {}
  BY <1>1 DEF EchoInv
<1>9. \A x, y \in Others(p) : st'[p] = W2 => x = y
  BY <1>1, <1>3, ThreeAreMoreThanTwo, FS_CardinalityType, DkgAssumption DEF Others
<1>10. EchoInv'
  <2> SUFFICES ASSUME NEW q \in Correct
               PROVE  /\ st'[q] = W1 => bc'[q] = {}
                      /\ \A o \in Participants, s \in Correct :
                           <<o, s>> \in bc'[q] => st'[s] # W1 /\ r1'[q][o] = r1'[s][o]
                      /\ Verified(q)' => \A o, s \in Others(q) : o # s => <<o, s>> \in bc'[q]
    BY DEF EchoInv
  <2>1. CASE q = p
    BY <2>1, <1>2, <1>3, <1>8, <1>9 DEF Verified, W1, WB, W2, Ready
  <2>2. CASE q # p
    <3>1. \A o \in Participants, s \in Correct : <<o, s>> \in bc[q] => s # p
      BY <1>1 DEF EchoInv
    <3>2. QED
      BY <2>2, <3>1, <1>1, <1>2, <1>3 DEF EchoInv, Verified, Correct
  <2>3. QED
    BY <2>1, <2>2
<1>11. Round2Inv'
  <2>1. st'[p] # Ready
    BY <1>3 DEF W1, WB, W2, Ready
  <2>2. \A q \in Correct : Verified(q) => Verified(q)'
    BY <1>1, <1>3 DEF Verified, W1, W2, Ready, Correct
  <2>3. QED
    BY <2>1, <2>2, <1>1, <1>2, <1>3 DEF Round2Inv, Correct
<1>12. QED
  BY <1>7, <1>10, <1>11

\* An accepted echo agrees with what its sender holds, and the last one completes
\* the exchange: everybody has echoed everybody.
LEMMA EchoStep ==
  ASSUME NEW p \in Correct, NEW m \in Message, IInv, MessageInv(m, p), HandlesEcho(p, m)
  PROVE  Round1Inv' /\ EchoInv' /\ Round2Inv'
<1> DEFINE echoes == bc[p] \cup {<<m.orig, m.from>>}
<1>1. /\ TypeOK /\ Round1Inv /\ EchoInv /\ Round2Inv
      /\ p \in Participants
      /\ m.from \in Others(p) /\ m.orig \in Participants
      /\ m.from \in Correct => st[m.from] # W1 /\ m.ver = r1[m.from][m.orig]
      /\ st[p] = WB
      /\ r1[p][m.orig] = m.ver
  BY DEF IInv, Correct, MessageInv, Message, HandlesEcho, EchoError, Others
<1>2. /\ bc' = [bc EXCEPT ![p] = echoes]
      /\ st' = [st EXCEPT ![p] = IF AllEchoed(p, echoes) THEN W2 ELSE @]
      /\ UNCHANGED <<r1, r2>>
  BY DEF HandlesEcho, handle_round1_package_broadcast
<1>3. /\ st'[p] \in {WB, W2}
      /\ \A q \in Participants : q # p => st'[q] = st[q] /\ bc'[q] = bc[q]
      /\ bc'[p] = echoes
      /\ st'[p] = W2 => AllEchoed(p, echoes)
  BY <1>1, <1>2 DEF TypeOK, WB, W2
<1>4. \A q \in Participants : /\ st[q] # W1 <=> st'[q] # W1
                              /\ Verified(q) => Verified(q)'
  BY <1>1, <1>3 DEF Verified, W1, WB, W2, Ready
<1>5. Round1Inv'
  BY <1>1, <1>2, <1>4 DEF Round1Inv, Correct, Others
<1>6. st'[p] = W2 => \A o, s \in Others(p) : o # s => <<o, s>> \in echoes
  <2> SUFFICES ASSUME st'[p] = W2, NEW o \in Others(p), NEW s \in Others(p), o # s
               PROVE  <<o, s>> \in echoes
    OBVIOUS
  <2>1. Stored(r1[p]) = Others(p)
    BY <1>1, StoredIsAll DEF W1, WB
  <2>2. s \in {e[2] : e \in {x \in echoes : x[1] = o}} \cup {o}
    BY <1>3, <2>1 DEF AllEchoed
  <2>3. PICK e \in echoes : e[1] = o /\ e[2] = s
    BY <2>2
  <2>4. e = <<o, s>>
    BY <2>3, <1>1 DEF TypeOK, Others
  <2>5. QED
    BY <2>3, <2>4
<1>7. EchoInv'
  <2> SUFFICES ASSUME NEW q \in Correct
               PROVE  /\ st'[q] = W1 => bc'[q] = {}
                      /\ \A o \in Participants, s \in Correct :
                           <<o, s>> \in bc'[q] => st'[s] # W1 /\ r1'[q][o] = r1'[s][o]
                      /\ Verified(q)' => \A o, s \in Others(q) : o # s => <<o, s>> \in bc'[q]
    BY DEF EchoInv
  <2>1. CASE q = p
    <3>1. \A o \in Participants, s \in Correct :
            <<o, s>> \in echoes => st[s] # W1 /\ r1[p][o] = r1[s][o]
      BY <1>1 DEF EchoInv
    <3>2. QED
      BY <2>1, <3>1, <1>2, <1>3, <1>4, <1>6 DEF Verified, W1, WB, W2, Ready, Correct
  <2>2. CASE q # p
    <3>1. Verified(q)' <=> Verified(q)
      BY <2>2, <1>3 DEF Verified, Correct
    <3>2. q \in Participants /\ st'[q] = st[q] /\ bc'[q] = bc[q] /\ r1' = r1
      BY <2>2, <1>2, <1>3 DEF Correct
    <3>3. \A s \in Correct : st[s] # W1 <=> st'[s] # W1
      BY <1>4 DEF Correct
    <3>4. QED
      BY <3>1, <3>2, <3>3, <1>1 DEF EchoInv
  <2>3. QED
    BY <2>1, <2>2
<1>8. Round2Inv'
  <2>1. \A q \in Correct : st'[q] = Ready => st[q] = Ready
    BY <1>1, <1>3 DEF Correct, WB, W2, Ready
  <2> SUFFICES ASSUME NEW q \in Correct
               PROVE  /\ \A x \in Correct : r2'[q][x] # NoPkg => Verified(x)' /\ r2'[q][x] = Genuine
                      /\ st'[q] = Ready => \A x \in Others(q) : r2'[q][x] # NoPkg
    BY DEF Round2Inv
  <2>2. QED
    BY <2>1, <1>1, <1>2, <1>4 DEF Round2Inv, Correct
<1>9. QED
  BY <1>5, <1>7, <1>8

\* A round 2 package touches r2 of its receiver, and only a verified
\* participant has sent one.
LEMMA Round2Step ==
  ASSUME NEW p \in Correct, NEW m \in Message, IInv, MessageInv(m, p), HandlesR2(p, m)
  PROVE  Round1Inv' /\ EchoInv' /\ Round2Inv'
<1> DEFINE packages == [r2[p] EXCEPT ![m.from] = m.ver]
<1>1. /\ TypeOK /\ Round1Inv /\ EchoInv /\ Round2Inv
      /\ p \in Participants
      /\ m.from \in Others(p) /\ m.ver \in Ver /\ m.ver # NoPkg
      /\ m.from \in Correct => Verified(m.from) /\ m.ver = Genuine
      /\ st[p] = W2
  BY DkgAssumption DEF IInv, Correct, MessageInv, Message, HandlesR2, Others
<1>2. /\ r2' = [r2 EXCEPT ![p] = packages]
      /\ st' = [st EXCEPT ![p] = IF Stored(packages) = Stored(r1[p]) THEN Ready ELSE @]
      /\ UNCHANGED <<r1, bc>>
  BY DEF HandlesR2, handle_round2_package
<1>3. /\ st'[p] \in {W2, Ready}
      /\ \A q \in Participants : q # p => st'[q] = st[q] /\ r2'[q] = r2[q]
      /\ r2'[p] = packages
      /\ st'[p] = Ready => Stored(packages) = Stored(r1[p])
  BY <1>1, <1>2 DEF TypeOK, W2, Ready
<1>4. \A q \in Participants : /\ st[q] # W1 <=> st'[q] # W1
                              /\ Verified(q) <=> Verified(q)'
  BY <1>1, <1>3 DEF Verified, W1, WB, W2, Ready
<1>5. Round1Inv'
  BY <1>1, <1>2, <1>4 DEF Round1Inv, Correct, Others
<1>6. EchoInv'
  BY <1>1, <1>2, <1>4 DEF EchoInv, Correct, Others
<1>7. Round2Inv'
  <2>1. Stored(r1[p]) = Others(p)
    BY <1>1, StoredIsAll DEF W1, W2
  <2>2. st'[p] = Ready => \A q \in Others(p) : packages[q] # NoPkg
    BY <1>3, <2>1 DEF Stored
  <2>3. \A q \in Correct : packages[q] # NoPkg => Verified(q) /\ packages[q] = Genuine
    BY <1>1 DEF Round2Inv, Correct, TypeOK
  <2> SUFFICES ASSUME NEW q \in Correct
               PROVE  /\ \A x \in Correct : r2'[q][x] # NoPkg => Verified(x)' /\ r2'[q][x] = Genuine
                      /\ st'[q] = Ready => \A x \in Others(q) : r2'[q][x] # NoPkg
    BY DEF Round2Inv
  <2>4. CASE q = p
    BY <2>4, <2>2, <2>3, <1>3, <1>4 DEF Correct
  <2>5. CASE q # p
    BY <2>5, <1>1, <1>3, <1>4 DEF Round2Inv, Correct
  <2>6. QED
    BY <2>4, <2>5
<1>8. QED
  BY <1>5, <1>6, <1>7

\* The three parts of the invariant that speak of the DKGSessionStates are
\* preserved by every step.
LEMMA StateInvStep ==
  ASSUME IInv, [Next]_vars
  PROVE  Round1Inv' /\ EchoInv' /\ Round2Inv'
<1>1. CASE UNCHANGED <<st, r1, bc, r2>>
  BY <1>1 DEF IInv, Round1Inv, EchoInv, Round2Inv, Verified
<1>2. CASE UNCHANGED vars
  BY <1>1, <1>2 DEF vars
<1>3. CASE Next
  BY <1>1, <1>3, OnlyHandleChangesState, HandleCases, Round1Step, EchoStep, Round2Step
<1>4. QED
  BY <1>2, <1>3
-----------------------------------------------------------------------------
(***************************************************************************)
(* ChannelInv: what is under way.                                          *)
(***************************************************************************)
\* The messages that may be on their way to q.
Known(q) == {m \in Message : MessageInv(m, q)}

\* What a process sends is known of: it comes from the state the sender is in.
LEMMA OutgoingKnown ==
  ASSUME IInv, NEW p \in Correct, NEW e \in todo[p], pc[p] \in Sending
  PROVE  e[1] \in Participants /\ Outgoing(p, e) \in Known(e[1])
<1>1. /\ p \in Participants /\ e \in Participants \X Participants
      /\ e[1] # p
      /\ Genuine \in Ver
  BY DkgAssumption DEF IInv, TypeOK, ControlInv, Correct
<1>2. CASE pc[p] = "sendR1"
  BY <1>1, <1>2 DEF Outgoing, Known, Message, MessageInv
<1>3. CASE pc[p] = "sendEcho"
  <2>1. st[p] # W1 /\ e[2] \in Others(p) /\ e[1] # e[2]
    BY <1>1, <1>3 DEF IInv, ControlInv, Sending, Others
  <2>2. r1[p][e[2]] \in Ver
    BY <1>1, <2>1 DEF IInv, TypeOK, Round1Inv, Others
  <2>3. PICK m : m = [kind |-> "Echo", from |-> p, orig |-> e[2], ver |-> r1[p][e[2]]]
    OBVIOUS
  <2>4. m \in Message /\ m.from = p /\ m.kind = "Echo" /\ m.orig = e[2] /\ m.ver = r1[p][e[2]]
    BY <1>1, <2>2, <2>3 DEF Message
  <2>5. MessageInv(m, e[1])
    BY <1>1, <2>1, <2>4 DEF MessageInv, Others
  <2>6. QED
    BY <1>1, <1>3, <2>3, <2>4, <2>5 DEF Outgoing, Known
<1>4. CASE pc[p] = "sendR2"
  <2>1. Verified(p)
    BY <1>4 DEF IInv, ControlInv
  <2>2. QED
    BY <1>1, <1>4, <2>1 DEF Outgoing, Known, Message, MessageInv
<1>5. QED
  BY <1>2, <1>3, <1>4 DEF Sending

\* What a step can do to the mailboxes and to the answers being handled.
LEMMA MailCases ==
  ASSUME IInv, Next
  PROVE  \/ UNCHANGED <<queue, inbox>>
         \/ queue' = Discarded(queue) /\ UNCHANGED inbox
         \/ \E to \in Participants : \E m \in Known(to) :
              queue' = Delivered(queue, to, m) /\ UNCHANGED inbox
         \/ \E p \in Correct :
              queue' = Drained(queue, p) /\ inbox' = [inbox EXCEPT ![p] = queue[p]]
         \/ \E p \in Correct :
              /\ inbox[p] # <<>>
              /\ inbox' = [inbox EXCEPT ![p] = Tail(@)]
              /\ UNCHANGED queue
<1>1. CASE CreateSession
  BY <1>1 DEF CreateSession
<1>2. ASSUME NEW p \in Correct, Send(p)
      PROVE  \/ UNCHANGED <<queue, inbox>>
             \/ \E to \in Participants : \E m \in Known(to) :
                  queue' = Delivered(queue, to, m) /\ UNCHANGED inbox
  BY <1>2, OutgoingKnown DEF Send, SendOne
<1>3. ASSUME NEW p \in Correct, Fetch(p)
      PROVE  \/ UNCHANGED <<queue, inbox>>
             \/ queue' = Drained(queue, p) /\ inbox' = [inbox EXCEPT ![p] = queue[p]]
  BY <1>3 DEF Fetch
<1>4. ASSUME NEW p \in Correct, Handle(p)
      PROVE  /\ inbox[p] # <<>>
             /\ inbox' = [inbox EXCEPT ![p] = Tail(@)]
             /\ UNCHANGED queue
  BY <1>4 DEF Handle
<1>5. ASSUME NEW p \in Correct, CloseSession(p) \/ Cleanup(p)
      PROVE  UNCHANGED <<queue, inbox>> \/ (queue' = Discarded(queue) /\ UNCHANGED inbox)
  BY <1>5 DEF CloseSession, Cleanup
<1>6. ASSUME NEW p \in Correct,
             Join(p) \/ LeaveRound1(p) \/ LeaveEcho(p) \/ LeaveRound2(p) \/ Finish(p) \/ Crash(p)
      PROVE  UNCHANGED <<queue, inbox>>
  BY <1>6 DEF Join, LeaveRound1, LeaveEcho, LeaveRound2, Finish, Crash
<1>7. ASSUME NEW e \in Repertoire, FaultySend(e[1], e[2])
      PROVE  \E to \in Participants : \E m \in Known(to) :
               queue' = Delivered(queue, to, m) /\ UNCHANGED inbox
  <2>1. e[1] \in Participants /\ e[2] \in Message
    BY DkgAssumption
  <2>2. e[2].from # e[1] /\ e[2].from \notin Correct
    BY <1>7 DEF FaultySend, Correct
  <2>3. e[2] \in Known(e[1])
    BY <2>1, <2>2 DEF Known, MessageInv
  <2>4. QED
    BY <1>7, <2>1, <2>3 DEF FaultySend
<1>8. CASE FaultyClose
  BY <1>8 DEF FaultyClose
<1>9. QED
  BY <1>1, <1>2, <1>3, <1>4, <1>5, <1>6, <1>7, <1>8 DEF Next, Step

\* Every mailbox and every answer holds known messages only.
LEMMA BoxesAreKnown ==
  ASSUME IInv, NEW q \in Participants
  PROVE  queue[q] \in Seq(Known(q)) /\ inbox[q] \in Seq(Known(q))
<1>1. queue[q] \in Seq(Message) /\ inbox[q] \in Seq(Message)
  BY DEF IInv, TypeOK
<1>2. /\ \A i \in 1 .. Len(queue[q]) : queue[q][i] \in Known(q)
      /\ \A i \in 1 .. Len(inbox[q]) : inbox[q][i] \in Known(q)
  BY <1>1 DEF IInv, ChannelInv, Known
<1>3. QED
  BY <1>1, <1>2

\* They still do after a step.
LEMMA MailStep ==
  ASSUME IInv, [Next]_vars
  PROVE  /\ queue' \in [Participants -> Seq(Message)]
         /\ inbox' \in [Participants -> Seq(Message)]
         /\ ChannelInv'
<1>1. /\ queue \in [Participants -> Seq(Message)]
      /\ inbox \in [Participants -> Seq(Message)]
  BY DEF IInv, TypeOK
<1> DEFINE AllKnown ==
      /\ queue' = [q \in Participants |-> queue'[q]]
      /\ inbox' = [q \in Participants |-> inbox'[q]]
      /\ \A q \in Participants : queue'[q] \in Seq(Known(q)) /\ inbox'[q] \in Seq(Known(q))
<1>2. AllKnown
  <2>1. CASE UNCHANGED <<queue, inbox>>
    BY <2>1, <1>1, BoxesAreKnown
  <2>2. CASE queue' = Discarded(queue) /\ UNCHANGED inbox
    BY <2>2, <1>1, BoxesAreKnown DEF Discarded
  <2>3. ASSUME NEW to \in Participants, NEW m \in Known(to),
               queue' = Delivered(queue, to, m) /\ UNCHANGED inbox
        PROVE  AllKnown
    <3>1. queue' = [q \in Participants |-> IF q = to THEN Append(queue[q], m) ELSE queue[q]]
      BY <2>3, <1>1 DEF Delivered
    <3>2. Append(queue[to], m) \in Seq(Known(to))
      BY <2>3, BoxesAreKnown
    <3>3. QED
      BY <2>3, <3>1, <3>2, <1>1, BoxesAreKnown
  <2>4. ASSUME NEW p \in Correct,
               queue' = Drained(queue, p) /\ inbox' = [inbox EXCEPT ![p] = queue[p]]
        PROVE  AllKnown
    <3>1. /\ queue' = [q \in Participants |-> IF q = p THEN <<>> ELSE queue[q]]
          /\ inbox' = [q \in Participants |-> IF q = p THEN queue[q] ELSE inbox[q]]
      BY <2>4, <1>1 DEF Drained
    <3>2. QED
      BY <3>1, BoxesAreKnown
  <2>5. ASSUME NEW p \in Correct, inbox[p] # <<>>,
               inbox' = [inbox EXCEPT ![p] = Tail(@)] /\ UNCHANGED queue
        PROVE  AllKnown
    <3>1. inbox' = [q \in Participants |-> IF q = p THEN Tail(inbox[q]) ELSE inbox[q]]
      BY <2>5, <1>1
    <3>2. Tail(inbox[p]) \in Seq(Known(p))
      BY <2>5, BoxesAreKnown DEF Correct
    <3>3. QED
      BY <2>5, <3>1, <3>2, <1>1, BoxesAreKnown
  <2>6. CASE UNCHANGED vars
    BY <2>1, <2>6 DEF vars
  <2>7. CASE Next
    BY <2>1, <2>2, <2>3, <2>4, <2>5, <2>7, MailCases
  <2>8. QED
    BY <2>6, <2>7
<1>3. /\ queue' \in [Participants -> Seq(Message)]
      /\ inbox' \in [Participants -> Seq(Message)]
  <2>1. ASSUME NEW q \in Participants, NEW s \in Seq(Known(q)) PROVE s \in Seq(Message)
    BY DEF Known
  <2>2. \A q \in Participants : queue'[q] \in Seq(Message) /\ inbox'[q] \in Seq(Message)
    BY <1>2, <2>1
  <2>3. QED
    BY <1>2, <2>2
<1>4. ChannelInv'
  <2> SUFFICES ASSUME NEW q \in Participants
               PROVE  /\ \A i \in 1 .. Len(queue'[q]) : MessageInv(queue[q][i], q)'
                      /\ \A i \in 1 .. Len(inbox'[q]) : MessageInv(inbox[q][i], q)'
    BY DEF ChannelInv
  <2>1. \A m \in Known(q) : MessageInv(m, q)'
    BY MessageStable DEF Known
  <2>2. /\ \A i \in 1 .. Len(queue'[q]) : queue'[q][i] \in Known(q)
        /\ \A i \in 1 .. Len(inbox'[q]) : inbox'[q][i] \in Known(q)
    BY <1>2
  <2>3. QED
    BY <2>1, <2>2 DEF MessageInv
<1>5. QED
  BY <1>3, <1>4
-----------------------------------------------------------------------------
(***************************************************************************)
(* ControlInv: where the processes are.                                    *)
(***************************************************************************)
\* What ControlInv says of one process.
ControlOf(s) ==
  /\ pc[s] # "faulty"
  /\ pc[s] \in {"sendEcho", "pollEcho"} => st[s] # W1
  /\ pc[s] \in {"sendR2", "pollR2"} => Verified(s)
  /\ pc[s] \in {"closing", "finishing", "done"} => st[s] = Ready
  /\ pc[s] \in Sending => \A e \in todo[s] : e[1] # s
  /\ pc[s] = "sendEcho" => \A e \in todo[s] : e[2] # s /\ e[1] # e[2]

\* A process that stays where it is keeps it, and so does one that is killed,
\* fails or panics.
LEMMA ControlStays ==
  ASSUME IInv, [Next]_vars, NEW s \in Correct,
         \/ pc'[s] = pc[s] /\ todo'[s] \subseteq todo[s]
         \/ pc'[s] \in {"cleanup", "panicked", "crashed", "failed"}
  PROVE  ControlOf(s)'
<1>1. ControlOf(s)
  BY DEF IInv, ControlInv, ControlOf
<1>2. CASE pc'[s] = pc[s] /\ todo'[s] \subseteq todo[s]
  BY <1>1, <1>2, Monotone DEF ControlOf, Verified
<1>3. CASE pc'[s] \in {"cleanup", "panicked", "crashed", "failed"}
  BY <1>3 DEF ControlOf, Sending
<1>4. QED
  BY <1>2, <1>3

\* The steps of one process leave the position of the others alone.
LEMMA OthersStay ==
  ASSUME IInv, NEW p \in Correct, Step(p) \/ Crash(p), NEW s \in Participants, s # p
  PROVE  pc'[s] = pc[s] /\ todo'[s] = todo[s]
<1>1. /\ pc \in [Participants -> Pcs]
      /\ todo \in [Participants -> SUBSET (Participants \X Participants)]
      /\ p \in Participants
  BY DEF IInv, TypeOK, Correct
<1>2. CASE Handle(p)
  BY <1>1, <1>2 DEF Handle, recv, Refuse, Fail, handle_round1_package,
                    handle_round1_package_broadcast, handle_round2_package
<1>3. CASE Join(p) \/ Send(p) \/ Fetch(p)
  BY <1>1, <1>3 DEF Join, Begin, Goto, Fail, Send, SendOne, Fetch
<1>4. CASE LeaveRound1(p) \/ LeaveEcho(p) \/ LeaveRound2(p)
  BY <1>1, <1>4 DEF LeaveRound1, LeaveEcho, LeaveRound2, EnterRound2, Goto, Fail, Panic
<1>5. CASE CloseSession(p) \/ Finish(p) \/ Cleanup(p) \/ Crash(p)
  BY <1>1, <1>5 DEF CloseSession, Finish, Cleanup, Crash, Goto, Fail, Panic
<1>6. QED
  BY <1>2, <1>3, <1>4, <1>5 DEF Step

\* What begins a round of sending, for the sake of ControlOf.
LEMMA RoundBegins ==
  ASSUME IInv, NEW p \in Correct
  PROVE  /\ Begin(p) => pc'[p] = "sendR1" /\ \A e \in todo'[p] : e[1] # p
         /\ EnterRound2(p) =>
              \/ pc'[p] \in {"cleanup", "panicked"}
              \/ pc'[p] = "sendR2" /\ \A e \in todo'[p] : e[1] # p
<1>1. /\ pc \in [Participants -> Pcs]
      /\ todo \in [Participants -> SUBSET (Participants \X Participants)]
      /\ p \in Participants
  BY DEF IInv, TypeOK, Correct
<1>2. \A e \in Others(p) \X {p} : e[1] # p
  BY DEF Others
<1>3. QED
  BY <1>1, <1>2 DEF Begin, EnterRound2, Goto, Fail, Panic

\* One case per action: each leaves ControlOf with the process it moves.
LEMMA ControlStep ==
  ASSUME IInv, [Next]_vars
  PROVE  ControlInv'
<1> SUFFICES ASSUME NEW s \in Correct PROVE ControlOf(s)'
  BY DEF ControlInv, ControlOf
<1>1. /\ pc \in [Participants -> Pcs]
      /\ todo \in [Participants -> SUBSET (Participants \X Participants)]
      /\ s \in Participants
      /\ ControlOf(s)
  BY DEF IInv, TypeOK, Correct, ControlInv, ControlOf
<1>2. CASE UNCHANGED <<pc, todo>>
  BY <1>2, ControlStays
<1>3. CASE CreateSession
  <2>1. CASE Creator \in Faulty
    BY <1>2, <1>3, <2>1 DEF CreateSession
  <2>2. CASE Creator \notin Faulty
    <3>1. Begin(Creator) /\ Creator \in Correct
      BY <1>3, <2>2, DkgAssumption DEF CreateSession, Correct
    <3>2. CASE s = Creator
      BY <3>1, <3>2, RoundBegins DEF ControlOf, Sending
    <3>3. CASE s # Creator
      BY <3>1, <3>3, <1>1, ControlStays DEF Begin, Goto
    <3>4. QED
      BY <3>2, <3>3
  <2>3. QED
    BY <2>1, <2>2
<1>4. ASSUME NEW p \in Correct, Step(p) \/ Crash(p), s # p
      PROVE  ControlOf(s)'
  BY <1>4, OthersStay, ControlStays DEF Correct
<1>5. CASE Join(s)
  BY <1>5, <1>1, RoundBegins, ControlStays DEF Join, Fail, ControlOf, Sending
<1>6. CASE Send(s)
  <2> PICK e \in todo[s] : SendOne(s, e)
    BY <1>6 DEF Send
  <2>1. CASE pc'[s] = pc[s] \/ pc'[s] = "cleanup"
    BY <2>1, <1>1, ControlStays DEF SendOne
  <2>2. CASE pc'[s] = PollAfter(pc[s])
    BY <2>2, <1>1, Monotone DEF SendOne, PollAfter, ControlOf, Sending, Verified
  <2>3. QED
    BY <2>1, <2>2, <1>1 DEF SendOne, Goto, Fail
<1>7. CASE Fetch(s)
  BY <1>7, <1>1, ControlStays DEF Fetch, Fail
<1>8. CASE Handle(s)
  BY <1>8, <1>1, ControlStays DEF Handle, recv, Refuse, Fail, handle_round1_package,
                   handle_round1_package_broadcast, handle_round2_package
<1>9. CASE LeaveRound1(s)
  <2>1. CASE has_round1_broadcast_packages(st[s])
    <3>1. EnterRound2(s) /\ Verified(s)'
      BY <1>9, <2>1 DEF LeaveRound1, has_round1_broadcast_packages, Verified
    <3>2. QED
      BY <3>1, RoundBegins DEF ControlOf, Sending
  <2>2. CASE ~has_round1_broadcast_packages(st[s]) /\ ~round1_packages_panics(st[s])
    <3>1. /\ pc'[s] = "sendEcho"
          /\ todo'[s] = {e \in Others(s) \X Stored(r1[s]) : e[1] # e[2]}
      BY <1>9, <2>2, <1>1 DEF LeaveRound1, Goto
    <3>2. st'[s] # W1
      BY <1>9, <2>2 DEF LeaveRound1, round1_packages_panics, W1, WB, W2
    <3>3. s \notin Stored(r1[s])
      BY DEF IInv, Round1Inv, Stored
    <3>4. QED
      BY <3>1, <3>2, <3>3 DEF ControlOf, Sending, Others
  <2>3. CASE ~has_round1_broadcast_packages(st[s]) /\ round1_packages_panics(st[s])
    BY <1>9, <2>3, <1>1, ControlStays DEF LeaveRound1, Panic
  <2>4. QED
    BY <2>1, <2>2, <2>3
<1>10. CASE LeaveEcho(s)
  <2>1. EnterRound2(s) /\ Verified(s)'
    BY <1>10 DEF LeaveEcho, LoopEnds, has_round1_broadcast_packages, Verified
  <2>2. QED
    BY <2>1, RoundBegins DEF ControlOf, Sending
<1>11. CASE LeaveRound2(s)
  <2>1. pc'[s] \in {"closing", "finishing"} /\ st'[s] = Ready
    BY <1>11, <1>1 DEF LeaveRound2, LoopEnds, has_round2_packages, Goto
  <2>2. QED
    BY <2>1 DEF ControlOf, Sending
<1>12. CASE CloseSession(s) \/ Finish(s)
  <2>1. st'[s] = Ready
    BY <1>12, <1>1 DEF CloseSession, Finish, ControlOf
  <2>2. pc'[s] \in {"finishing", "done", "panicked", "cleanup"}
    BY <1>12, <1>1 DEF CloseSession, Finish, Goto, Fail, Panic
  <2>3. QED
    BY <2>1, <2>2 DEF ControlOf, Sending
<1>13. CASE Cleanup(s) \/ Crash(s)
  BY <1>13, <1>1, ControlStays DEF Cleanup, Crash
<1>14. ASSUME NEW e \in Repertoire, FaultySend(e[1], e[2])
       PROVE  ControlOf(s)'
  BY <1>14, <1>2 DEF FaultySend
<1>15. CASE FaultyClose
  BY <1>15, <1>2 DEF FaultyClose
<1>16. CASE UNCHANGED vars
  BY <1>16, <1>2 DEF vars
<1>17. ASSUME Step(s) \/ Crash(s) PROVE ControlOf(s)'
  BY <1>17, <1>5, <1>6, <1>7, <1>8, <1>9, <1>10, <1>11, <1>12, <1>13 DEF Step
<1>18. QED
  BY <1>3, <1>4, <1>14, <1>15, <1>16, <1>17 DEF Next
-----------------------------------------------------------------------------
(***************************************************************************)
(* TypeOK.                                                                 *)
(***************************************************************************)
\* The variables a DKGSessionState consists of.
LEMMA StateTypeStep ==
  ASSUME IInv, [Next]_vars
  PROVE  /\ st' \in [Participants -> States]
         /\ r1' \in [Participants -> [Participants -> Ver \cup {NoPkg}]]
         /\ bc' \in [Participants -> SUBSET (Participants \X Participants)]
         /\ r2' \in [Participants -> [Participants -> Ver \cup {NoPkg}]]
<1> DEFINE Maps == [Participants -> Ver \cup {NoPkg}]
           EchoSets == SUBSET (Participants \X Participants)
           T == /\ st \in [Participants -> States]
                /\ r1 \in [Participants -> Maps]
                /\ bc \in [Participants -> EchoSets]
                /\ r2 \in [Participants -> Maps]
<1> SUFFICES T'
  OBVIOUS
<1>1. T
  BY DEF IInv, TypeOK
<1>2. CASE UNCHANGED <<st, r1, bc, r2>>
  BY <1>1, <1>2
<1>3. ASSUME NEW p \in Correct, NEW m \in Message,
             HandlesR1(p, m) \/ HandlesEcho(p, m) \/ HandlesR2(p, m)
      PROVE  T'
  <2>1. /\ m.from \in Participants /\ m.orig \in Participants /\ m.ver \in Ver
        /\ p \in Participants
    BY DEF Message, Correct
  <2>2. /\ {W1, WB, W2, Ready} \subseteq States
        /\ \A map \in Maps : [map EXCEPT ![m.from] = m.ver] \in Maps
        /\ \A set \in EchoSets : set \cup {<<m.orig, m.from>>} \in EchoSets
    BY <2>1 DEF States
  <2>3. \/ \E s \in States, map \in Maps :
             st' = [st EXCEPT ![p] = s] /\ r1' = [r1 EXCEPT ![p] = map] /\ bc' = bc /\ r2' = r2
        \/ \E s \in States, set \in EchoSets :
             st' = [st EXCEPT ![p] = s] /\ bc' = [bc EXCEPT ![p] = set] /\ r1' = r1 /\ r2' = r2
        \/ \E s \in States, map \in Maps :
             st' = [st EXCEPT ![p] = s] /\ r2' = [r2 EXCEPT ![p] = map] /\ r1' = r1 /\ bc' = bc
    <3> HIDE DEF Maps, EchoSets
    <3>1. st[p] \in States /\ r1[p] \in Maps /\ bc[p] \in EchoSets /\ r2[p] \in Maps
      BY <1>1, <2>1
    <3>2. CASE HandlesR1(p, m)
      BY <2>2, <3>1, <3>2 DEF HandlesR1, handle_round1_package
    <3>3. CASE HandlesEcho(p, m)
      BY <2>2, <3>1, <3>3 DEF HandlesEcho, handle_round1_package_broadcast
    <3>4. CASE HandlesR2(p, m)
      BY <2>2, <3>1, <3>4 DEF HandlesR2, handle_round2_package
    <3>5. QED
      BY <1>3, <3>2, <3>3, <3>4
  <2> HIDE DEF Maps, EchoSets
  <2>4. QED
    BY <1>1, <2>1, <2>3
<1>4. CASE UNCHANGED vars
  BY <1>4, <1>2 DEF vars
<1>5. CASE Next
  BY <1>2, <1>3, <1>5, OnlyHandleChangesState, HandleCases
<1>6. QED
  BY <1>4, <1>5

\* The variables of the control.
LEMMA ControlTypeStep ==
  ASSUME IInv, [Next]_vars
  PROVE  /\ session' \in SessionStatus
         /\ pc' \in [Participants -> Pcs]
         /\ todo' \in [Participants -> SUBSET (Participants \X Participants)]
         /\ why' \in [Participants -> Errors \cup {"-"}]
         /\ faultySends' \in [Participants -> 0 .. MaxFaultySends]
<1> DEFINE T ==
      /\ session \in SessionStatus
      /\ pc \in [Participants -> Pcs]
      /\ todo \in [Participants -> SUBSET (Participants \X Participants)]
      /\ why \in [Participants -> Errors \cup {"-"}]
      /\ faultySends \in [Participants -> 0 .. MaxFaultySends]
<1> SUFFICES T'
  OBVIOUS
<1>1. T
  BY DEF IInv, TypeOK
<1>2. {"none", "open", "closed"} \subseteq SessionStatus
  BY DEF SessionStatus
<1>3. /\ {"cleanup", "panicked", "crashed", "failed", "done", "finishing", "closing"} \subseteq Pcs
      /\ Sending \subseteq Pcs /\ Polling \subseteq Pcs
  BY DEF Pcs, Running, Ended, Sending, Polling
<1>4. ASSUME NEW p \in Participants, Begin(p) \/ EnterRound2(p)
      PROVE  /\ pc' \in [Participants -> Pcs]
             /\ todo' \in [Participants -> SUBSET (Participants \X Participants)]
             /\ why' \in [Participants -> Errors \cup {"-"}]
  BY <1>1, <1>3, <1>4 DEF Begin, EnterRound2, Goto, Fail, Panic, Others, Sending, Errors
<1>5. CASE CreateSession
  BY <1>1, <1>2, <1>4, <1>5, DkgAssumption DEF CreateSession
<1>6. ASSUME NEW p \in Correct, Step(p) \/ Crash(p)
      PROVE  T'
  <2>1. p \in Participants
    BY DEF Correct
  <2>2. CASE Join(p)
    BY <1>1, <1>3, <1>4, <2>1, <2>2 DEF Join, Fail, Errors
  <2>3. CASE Send(p)
    <3> PICK e \in todo[p] : SendOne(p, e)
      BY <2>3 DEF Send
    <3>1. pc[p] \in Sending => PollAfter(pc[p]) \in Pcs
      BY <1>3 DEF PollAfter, Sending, Polling
    <3>2. /\ UNCHANGED <<session, faultySends>>
          /\ todo' = todo \/ todo' = [todo EXCEPT ![p] = @ \ {e}]
          /\ \/ UNCHANGED <<pc, why>>
             \/ Fail(p, "session")
             \/ Goto(p, PollAfter(pc[p])) /\ pc[p] \in Sending
      BY DEF SendOne
    <3>3. /\ todo' \in [Participants -> SUBSET (Participants \X Participants)]
          /\ pc' \in [Participants -> Pcs]
      BY <1>1, <1>3, <2>1, <3>1, <3>2 DEF Goto, Fail
    <3>4. why' \in [Participants -> Errors \cup {"-"}]
      BY <1>1, <2>1, <3>2 DEF Goto, Fail, Errors
    <3>5. QED
      BY <1>1, <3>2, <3>3, <3>4
  <2>4. CASE Fetch(p)
    BY <1>1, <1>3, <2>1, <2>4 DEF Fetch, Fail, Errors
  <2>5. CASE Handle(p)
    <3>1. \A m : EchoError(p, m) # "-" => EchoError(p, m) \in Errors
      BY DEF EchoError, Errors
    <3>2. {"decrypt", "wrongState", "parse"} \subseteq Errors
      BY DEF Errors
    <3>3. /\ UNCHANGED <<session, todo, faultySends>>
          /\ \/ UNCHANGED <<pc, why>>
             \/ \E error \in Errors : Fail(p, error)
      BY <2>5, <3>1, <3>2 DEF Handle, recv, Refuse, handle_round1_package,
                    handle_round1_package_broadcast, handle_round2_package
    <3>4. QED
      BY <1>1, <1>3, <2>1, <3>3 DEF Fail
  <2>6. CASE LeaveRound1(p)
    <3>1. CASE EnterRound2(p)
      BY <1>1, <1>4, <2>1, <2>6, <3>1 DEF LeaveRound1
    <3>2. CASE Panic(p) /\ UNCHANGED todo
      BY <1>1, <1>3, <2>1, <2>6, <3>2 DEF LeaveRound1, Panic
    <3>3. CASE /\ Goto(p, "sendEcho")
               /\ todo' = [todo EXCEPT ![p] =
                             {e \in Others(p) \X Stored(r1[p]) : e[1] # e[2]}]
      <4>1. {e \in Others(p) \X Stored(r1[p]) : e[1] # e[2]} \in SUBSET (Participants \X Participants)
        BY DEF Others, Stored
      <4>2. QED
        BY <1>1, <1>3, <2>1, <2>6, <3>3, <4>1 DEF LeaveRound1, Goto, Sending
    <3>4. QED
      BY <2>6, <3>1, <3>2, <3>3 DEF LeaveRound1
  <2>7. CASE LeaveEcho(p)
    BY <1>1, <1>4, <2>1, <2>7 DEF LeaveEcho
  <2>8. CASE LeaveRound2(p)
    BY <1>1, <1>3, <2>1, <2>8 DEF LeaveRound2, Goto
  <2>9. CASE CloseSession(p) \/ Finish(p)
    BY <1>1, <1>2, <1>3, <2>1, <2>9 DEF CloseSession, Finish, Goto, Fail, Panic, Errors
  <2>10. CASE Cleanup(p) \/ Crash(p)
    BY <1>1, <1>2, <1>3, <2>1, <2>10 DEF Cleanup, Crash
  <2>11. QED
    BY <1>6, <2>2, <2>3, <2>4, <2>5, <2>6, <2>7, <2>8, <2>9, <2>10 DEF Step
<1>7. ASSUME NEW e \in Repertoire, FaultySend(e[1], e[2])
      PROVE  T'
  <2>1. e[1] \in Participants
    BY DkgAssumption
  <2>2. faultySends[e[1]] + 1 \in 0 .. MaxFaultySends
    BY <1>1, <1>7, <2>1, DkgAssumption DEF FaultySend
  <2>3. QED
    BY <1>1, <1>7, <2>1, <2>2 DEF FaultySend
<1>8. CASE FaultyClose
  BY <1>1, <1>2, <1>8 DEF FaultyClose
<1>9. CASE UNCHANGED vars
  BY <1>1, <1>9 DEF vars
<1>10. QED
  BY <1>5, <1>6, <1>7, <1>8, <1>9 DEF Next

-----------------------------------------------------------------------------
(***************************************************************************)
(* OnceInv: how often a correct participant repeats a package.             *)
(***************************************************************************)
\* A message that arrives behind the others, and the first one taken away.
LEMMA EchoesAppend ==
  ASSUME NEW box \in Seq(Message), NEW m \in Message, NEW s, NEW o
  PROVE  Echoes(Append(box, m), s, o)
           = Echoes(box, s, o)
               \cup (IF m.kind = "Echo" /\ m.from = s /\ m.orig = o THEN {Len(box) + 1} ELSE {})
<1> DEFINE longer == Append(box, m)
<1>1. /\ Len(longer) = Len(box) + 1 /\ Len(box) \in Nat
      /\ longer[Len(box) + 1] = m
      /\ \A i \in 1 .. Len(box) : longer[i] = box[i]
  OBVIOUS
<1> HIDE DEF longer
<1>2. \A i : i \in 1 .. Len(longer) <=> (i \in 1 .. Len(box) \/ i = Len(box) + 1)
  BY <1>1
<1>3. QED
  BY <1>1, <1>2 DEF Echoes, longer

LEMMA EchoesTail ==
  ASSUME NEW box \in Seq(Message), box # <<>>, NEW s, NEW o
  PROVE  /\ Echoes(Tail(box), s, o) = {i \in 1 .. Len(box) - 1 : i + 1 \in Echoes(box, s, o)}
         /\ 1 \in Echoes(box, s, o) <=>
              (Head(box).kind = "Echo" /\ Head(box).from = s /\ Head(box).orig = o)
<1>1. /\ Len(box) \in Nat \ {0} /\ Len(Tail(box)) = Len(box) - 1 /\ Head(box) = box[1]
      /\ \A i \in 1 .. Len(box) - 1 : Tail(box)[i] = box[i + 1] /\ i + 1 \in 1 .. Len(box)
  OBVIOUS
<1>2. QED
  BY <1>1 DEF Echoes

\* What is not still to be sent never is again: the echoes are decided on when
\* the first round is left.
LEMMA ToEchoOnlyShrinks ==
  ASSUME IInv, [Next]_vars, NEW s \in Correct, NEW q, NEW o, ToEcho(s, q, o)'
  PROVE  ToEcho(s, q, o)
<1>1. /\ pc \in [Participants -> Pcs]
      /\ todo \in [Participants -> SUBSET (Participants \X Participants)]
      /\ s \in Participants
  BY DEF IInv, TypeOK, Correct
<1>2. CASE UNCHANGED <<pc[s], todo[s]>>
  BY <1>2 DEF ToEcho
<1>3. CASE CreateSession
  BY <1>1, <1>3 DEF CreateSession, Begin, Goto, ToEcho
<1>4. ASSUME NEW p \in Correct, Step(p) \/ Crash(p), s # p
      PROVE  ToEcho(s, q, o)
  BY <1>1, <1>2, <1>4, OthersStay
<1>5. CASE Join(s) \/ Fetch(s)
  BY <1>1, <1>5 DEF Join, Begin, Fetch, Goto, Fail, ToEcho, Polling
<1>6. CASE Send(s)
  <2> PICK e \in todo[s] : SendOne(s, e)
    BY <1>6 DEF Send
  <2>1. todo'[s] \subseteq todo[s] /\ pc'[s] \in {pc[s], PollAfter(pc[s]), "cleanup"}
        /\ pc[s] \in Sending
    BY <1>1 DEF SendOne, Goto, Fail
  <2>2. QED
    BY <2>1 DEF PollAfter, Sending, ToEcho
<1>7. CASE Handle(s)
  BY <1>1, <1>7 DEF Handle, recv, Refuse, Fail, handle_round1_package,
                    handle_round1_package_broadcast, handle_round2_package, ToEcho
<1>8. CASE LeaveRound1(s)
  BY <1>8 DEF LeaveRound1, ToEcho
<1>9. CASE LeaveEcho(s) \/ LeaveRound2(s) \/ CloseSession(s) \/ Finish(s) \/ Cleanup(s) \/ Crash(s)
  BY <1>1, <1>9 DEF LeaveEcho, EnterRound2, LeaveRound2, CloseSession, Finish, Cleanup, Crash,
                    Goto, Fail, Panic, ToEcho
<1>10. CASE (\E e \in Repertoire : FaultySend(e[1], e[2])) \/ FaultyClose \/ UNCHANGED vars
  BY <1>2, <1>10 DEF FaultySend, FaultyClose, vars
<1>11. QED
  BY <1>3, <1>4, <1>5, <1>6, <1>7, <1>8, <1>9, <1>10 DEF Next, Step

\* What a step can do to the echoes under way: a participant sends one that it
\* had still to send, somebody faulty sends something, an answer is fetched, and
\* what is handled may be accepted.
LEMMA EchoCases ==
  ASSUME IInv, Next
  PROVE  \/ UNCHANGED <<inbox, bc>> /\ (queue' = queue \/ queue' = Discarded(queue))
         \/ \E p \in Correct : \E e \in todo[p] :
              /\ pc[p] \in Sending
              /\ queue' = Delivered(queue, e[1], Outgoing(p, e)) /\ UNCHANGED <<inbox, bc>>
              /\ ~ToEcho(p, e[1], e[2])' \/ pc[p] # "sendEcho"
         \/ \E q \in Participants : \E m \in Message :
              /\ m.from \notin Correct
              /\ queue' = Delivered(queue, q, m) /\ UNCHANGED <<inbox, bc>>
         \/ \E p \in Correct :
              /\ inbox[p] = <<>> /\ queue' = Drained(queue, p)
              /\ inbox' = [inbox EXCEPT ![p] = queue[p]] /\ UNCHANGED bc
         \/ \E p \in Correct :
              /\ inbox[p] # <<>> /\ inbox' = [inbox EXCEPT ![p] = Tail(@)] /\ UNCHANGED queue
              /\ \/ UNCHANGED bc
                 \/ LET m == Head(inbox[p])
                    IN  m.kind = "Echo" /\ bc' = [bc EXCEPT ![p] = @ \cup {<<m.orig, m.from>>}]
<1>1. /\ pc \in [Participants -> Pcs]
      /\ todo \in [Participants -> SUBSET (Participants \X Participants)]
      /\ Correct \subseteq Participants
  BY DEF IInv, TypeOK, Correct
<1>2. CASE CreateSession
  BY <1>2 DEF CreateSession
<1>3. ASSUME NEW p \in Correct, NEW e \in todo[p], SendOne(p, e)
      PROVE  /\ UNCHANGED <<inbox, bc>> /\ pc[p] \in Sending
             /\ \/ queue' = queue
                \/ /\ queue' = Delivered(queue, e[1], Outgoing(p, e))
                   /\ ~ToEcho(p, e[1], e[2])' \/ pc[p] # "sendEcho"
  <2>1. UNCHANGED <<inbox, bc>> /\ pc[p] \in Sending
    BY <1>3 DEF SendOne
  <2>2. CASE session # "open"
    BY <1>3, <2>1, <2>2 DEF SendOne
  <2>3. CASE session = "open"
    <3>1. /\ queue' = Delivered(queue, e[1], Outgoing(p, e))
          /\ todo' = [todo EXCEPT ![p] = @ \ {e}]
          /\ pc' = pc \/ pc' = [pc EXCEPT ![p] = PollAfter(pc[p])]
      BY <1>3, <2>3 DEF SendOne, Goto
    <3>2. <<e[1], e[2]>> \notin todo'[p]
      <4>1. <<e[1], e[2]>> = e
        BY <1>1, <1>3
      <4>2. QED
        BY <1>1, <3>1, <4>1
    <3>3. pc[p] = "sendEcho" => pc'[p] \in {"sendEcho", "pollEcho"}
      BY <1>1, <3>1 DEF PollAfter
    <3>4. pc[p] = "sendEcho" => ~ToEcho(p, e[1], e[2])'
      BY <3>2, <3>3 DEF ToEcho
    <3>5. QED
      BY <2>1, <3>1, <3>4
  <2>4. QED
    BY <2>2, <2>3
<1>4. ASSUME NEW p \in Correct, Fetch(p)
      PROVE  \/ UNCHANGED <<queue, inbox, bc>>
             \/ /\ inbox[p] = <<>> /\ queue' = Drained(queue, p)
                /\ inbox' = [inbox EXCEPT ![p] = queue[p]] /\ UNCHANGED bc
  BY <1>4 DEF Fetch
<1>5. ASSUME NEW p \in Correct, Handle(p)
      PROVE  /\ inbox[p] # <<>> /\ inbox' = [inbox EXCEPT ![p] = Tail(@)] /\ UNCHANGED queue
             /\ \/ UNCHANGED bc
                \/ LET m == Head(inbox[p])
                   IN  m.kind = "Echo" /\ bc' = [bc EXCEPT ![p] = @ \cup {<<m.orig, m.from>>}]
  BY <1>5 DEF Handle, recv, Refuse, handle_round1_package, handle_round1_package_broadcast,
              handle_round2_package
<1>6. ASSUME NEW p \in Correct, CloseSession(p) \/ Cleanup(p)
      PROVE  UNCHANGED <<inbox, bc>> /\ (queue' = queue \/ queue' = Discarded(queue))
  BY <1>6 DEF CloseSession, Cleanup
<1>7. ASSUME NEW p \in Correct,
             Join(p) \/ LeaveRound1(p) \/ LeaveEcho(p) \/ LeaveRound2(p) \/ Finish(p) \/ Crash(p)
      PROVE  UNCHANGED <<queue, inbox, bc>>
  BY <1>7 DEF Join, LeaveRound1, LeaveEcho, LeaveRound2, Finish, Crash
<1>8. ASSUME NEW e \in Repertoire, FaultySend(e[1], e[2])
      PROVE  /\ e[1] \in Participants /\ e[2] \in Message /\ e[2].from \notin Correct
             /\ queue' = Delivered(queue, e[1], e[2]) /\ UNCHANGED <<inbox, bc>>
  BY <1>8, DkgAssumption DEF FaultySend, Correct
<1>9. CASE FaultyClose
  BY <1>9 DEF FaultyClose
<1>10. QED
  BY <1>2, <1>3, <1>4, <1>5, <1>6, <1>7, <1>8, <1>9 DEF Next, Step, Send

\* OnceInv for one sender, receiver and package.
Once(s, q, o) ==
  LET waiting  == Echoes(queue[q], s, o)
      fetched  == Echoes(inbox[q], s, o)
      accepted == <<o, s>> \in bc[q]
  IN  /\ \A i, j \in waiting : i = j
      /\ \A i, j \in fetched : i = j
      /\ waiting # {} => fetched = {} /\ ~accepted
      /\ fetched # {} => ~accepted
      /\ ToEcho(s, q, o) => waiting = {} /\ fetched = {} /\ ~accepted

LEMMA OnceStep ==
  ASSUME IInv, [Next]_vars
  PROVE  OnceInv'
<1> SUFFICES ASSUME NEW s \in Correct, NEW q \in Participants, NEW o \in Participants
             PROVE  Once(s, q, o)'
  BY DEF OnceInv, Once
<1>1. Once(s, q, o)
  BY DEF IInv, OnceInv, Once
<1>2. /\ queue \in [Participants -> Seq(Message)]
      /\ inbox \in [Participants -> Seq(Message)]
      /\ bc \in [Participants -> SUBSET (Participants \X Participants)]
      /\ Correct \subseteq Participants
      /\ queue[q] \in Seq(Message) /\ inbox[q] \in Seq(Message)
  BY DEF IInv, TypeOK, Correct
<1>3. ToEcho(s, q, o)' => ToEcho(s, q, o)
  BY ToEchoOnlyShrinks
<1> DEFINE W == Echoes(queue[q], s, o)
           F == Echoes(inbox[q], s, o)
           A == <<o, s>> \in bc[q]
<1>4. Echoes(<<>>, s, o) = {}
  BY DEF Echoes
<1>5. CASE UNCHANGED <<queue[q], inbox[q], bc[q]>>
  BY <1>1, <1>3, <1>5 DEF Once
<1>6. CASE UNCHANGED <<inbox, bc>> /\ queue' = Discarded(queue)
  <2>1. queue'[q] = <<>>
    BY <1>2, <1>6 DEF Discarded
  <2>2. QED
    BY <1>1, <1>3, <1>4, <1>6, <2>1 DEF Once
<1>7. ASSUME NEW m \in Message, queue' = Delivered(queue, q, m), UNCHANGED <<inbox, bc>>,
             m.kind # "Echo" \/ m.from # s \/ m.orig # o
      PROVE  Once(s, q, o)'
  <2>1. queue'[q] = Append(queue[q], m)
    BY <1>2, <1>7 DEF Delivered
  <2>2. Echoes(queue'[q], s, o) = W
    <3>1. ~(m.kind = "Echo" /\ m.from = s /\ m.orig = o)
      BY <1>7
    <3>2. Echoes(Append(queue[q], m), s, o)
            = W \cup (IF m.kind = "Echo" /\ m.from = s /\ m.orig = o
                        THEN {Len(queue[q]) + 1} ELSE {})
      BY <1>2, EchoesAppend
    <3>3. QED
      BY ONLY <2>1, <3>1, <3>2
  <2>3. QED
    BY <1>1, <1>3, <1>7, <2>2 DEF Once
<1>8. ASSUME NEW e \in todo[s], pc[s] = "sendEcho", e[1] = q, e[2] = o,
             queue' = Delivered(queue, q, Outgoing(s, e)), UNCHANGED <<inbox, bc>>,
             ~ToEcho(s, q, o)'
      PROVE  Once(s, q, o)'
  <2>1. ToEcho(s, q, o)
    <3>1. e = <<e[1], e[2]>>
      BY <1>2 DEF IInv, TypeOK
    <3>2. QED
      BY <1>8, <3>1 DEF ToEcho
  <2>2. W = {} /\ F = {} /\ ~A
    BY <1>1, <2>1 DEF Once
  <2>3. Outgoing(s, e) \in Message
    BY <1>8, OutgoingKnown DEF Known, Sending
  <2>4. queue'[q] = Append(queue[q], Outgoing(s, e))
    BY <1>2, <1>8 DEF Delivered
  <2>5. \A i, j \in Echoes(queue'[q], s, o) : i = j
    <3> DEFINE m == Outgoing(s, e)
    <3>1. Echoes(Append(queue[q], m), s, o)
            = W \cup (IF m.kind = "Echo" /\ m.from = s /\ m.orig = o
                        THEN {Len(queue[q]) + 1} ELSE {})
      BY <1>2, <2>3, EchoesAppend
    <3> HIDE DEF m, W
    <3>2. Echoes(queue'[q], s, o) \subseteq {Len(queue[q]) + 1}
      BY <2>2, <2>4, <3>1 DEF m
    <3>3. QED
      BY <3>2
  <2>6. QED
    BY <1>8, <2>2, <2>5 DEF Once
<1>9. ASSUME NEW p \in Correct, NEW e \in todo[p], pc[p] \in Sending,
             queue' = Delivered(queue, e[1], Outgoing(p, e)), UNCHANGED <<inbox, bc>>,
             ~ToEcho(p, e[1], e[2])' \/ pc[p] # "sendEcho"
      PROVE  Once(s, q, o)'
  <2>1. e[1] \in Participants /\ Outgoing(p, e) \in Message
    BY <1>9, OutgoingKnown DEF Known
  <2>2. CASE e[1] # q
    BY <1>2, <1>5, <1>9, <2>1, <2>2 DEF Delivered
  <2>3. CASE e[1] = q /\ p = s /\ e[2] = o /\ pc[p] = "sendEcho"
    BY <1>8, <1>9, <2>3
  <2>4. CASE e[1] = q /\ ~(p = s /\ e[2] = o /\ pc[p] = "sendEcho")
    <3>1. \/ Outgoing(p, e).kind # "Echo"
          \/ Outgoing(p, e).from # s
          \/ Outgoing(p, e).orig # o
      BY <1>9, <2>4 DEF Outgoing, Sending
    <3>2. QED
      BY <1>7, <1>9, <2>1, <2>4, <3>1
  <2>5. QED
    BY <2>2, <2>3, <2>4
<1>10. ASSUME NEW r \in Participants, NEW m \in Message, m.from \notin Correct,
              queue' = Delivered(queue, r, m), UNCHANGED <<inbox, bc>>
       PROVE  Once(s, q, o)'
  <2>1. CASE r # q
    BY <1>2, <1>5, <1>10, <2>1 DEF Delivered
  <2>2. CASE r = q
    BY <1>7, <1>10, <2>2
  <2>3. QED
    BY <2>1, <2>2
<1>11. ASSUME NEW p \in Correct, inbox[p] = <<>>, queue' = Drained(queue, p),
              inbox' = [inbox EXCEPT ![p] = queue[p]], UNCHANGED bc
       PROVE  Once(s, q, o)'
  <2>1. CASE p # q
    BY <1>2, <1>5, <1>11, <2>1 DEF Drained
  <2>2. CASE p = q
    <3>1. Echoes(queue'[q], s, o) = {} /\ Echoes(inbox'[q], s, o) = W
      BY <1>2, <1>4, <1>11, <2>2 DEF Drained
    <3>2. QED
      BY <1>1, <1>3, <1>11, <3>1 DEF Once
  <2>3. QED
    BY <2>1, <2>2
<1>12. ASSUME NEW p \in Correct, inbox[p] # <<>>, inbox' = [inbox EXCEPT ![p] = Tail(@)],
              UNCHANGED queue,
              \/ UNCHANGED bc
              \/ LET m == Head(inbox[p])
                 IN  m.kind = "Echo" /\ bc' = [bc EXCEPT ![p] = @ \cup {<<m.orig, m.from>>}]
       PROVE  Once(s, q, o)'
  <2>1. CASE p # q
    BY <1>2, <1>5, <1>12, <2>1
  <2>2. CASE p = q
    <3> DEFINE m == Head(inbox[q])
    <3>1. inbox'[q] = Tail(inbox[q])
      BY <1>2, <1>12, <2>2
    <3>2. /\ Echoes(inbox'[q], s, o) = {i \in 1 .. Len(inbox[q]) - 1 : i + 1 \in F}
          /\ 1 \in F <=> (m.kind = "Echo" /\ m.from = s /\ m.orig = o)
      BY <1>2, <1>12, <2>2, <3>1, EchoesTail
    <3>3. bc'[q] = bc[q] \/ (m.kind = "Echo" /\ bc'[q] = bc[q] \cup {<<m.orig, m.from>>})
      BY <1>2, <1>12, <2>2
    <3>4. Len(inbox[q]) \in Nat
      BY <1>2
    <3> HIDE DEF m, F, W, A
    <3>5. CASE 1 \in F
      <4>1. F = {1} /\ W = {} /\ ~ToEcho(s, q, o)
        BY <1>1, <3>5 DEF Once, F, W
      <4>2. Echoes(inbox'[q], s, o) = {}
        BY <3>2, <3>4, <4>1
      <4>3. QED
        BY <1>3, <1>12, <4>1, <4>2 DEF Once, W
    <3>6. CASE 1 \notin F
      <4>1. (<<o, s>> \in bc'[q]) <=> A
        BY <3>2, <3>3, <3>6 DEF A
      <4>2. \A i, j \in Echoes(inbox'[q], s, o) : i = j
        BY <1>1, <3>2, <3>4 DEF Once, F
      <4>3. Echoes(inbox'[q], s, o) # {} => F # {}
        BY <3>2
      <4>4. QED
        BY <1>1, <1>3, <1>12, <4>1, <4>2, <4>3 DEF Once, F, W, A
    <3>7. QED
      BY <3>5, <3>6
  <2>3. QED
    BY <2>1, <2>2
<1>13. CASE UNCHANGED vars
  BY <1>5, <1>13 DEF vars
<1>14. CASE Next
  BY <1>5, <1>6, <1>9, <1>10, <1>11, <1>12, <1>14, EchoCases
<1>15. QED
  BY <1>13, <1>14

-----------------------------------------------------------------------------
(***************************************************************************)
(* The theorems.                                                           *)
(***************************************************************************)
\* The invariant is inductive.
LEMMA NextIInv == IInv /\ [Next]_vars => IInv'
<1> SUFFICES ASSUME IInv, [Next]_vars PROVE IInv'
  OBVIOUS
<1>1. TypeOK'
  BY StateTypeStep, ControlTypeStep, MailStep DEF TypeOK
<1>2. QED
  BY <1>1, MailStep, ControlStep, StateInvStep, OnceStep DEF IInv

\* The inductive invariant: what is known of the messages under way
\* (MessageInv), how far a process is in keygen(), and what the
\* three rounds have established in its DKGSessionState.
THEOREM InductiveInvariant == Spec => []IInv
<1>1. IInv /\ UNCHANGED vars => IInv'
  BY NextIInv
<1>2. QED
  BY InitIInv, NextIInv, PTL DEF Spec

\* Type correctness.
THEOREM TypeCorrect == Spec => []TypeOK
<1>1. IInv => TypeOK
  BY DEF IInv
<1>2. QED
  BY <1>1, InductiveInvariant, PTL

\* Two correct participants that verified hold the same packages.
LEMMA IInvConsistent == IInv => EchoConsistency
<1> SUFFICES ASSUME IInv, NEW p \in Correct, NEW q \in Correct, Verified(p), Verified(q)
             PROVE  View(p) = View(q)
  BY DEF EchoConsistency
<1>1. Round1Inv /\ EchoInv /\ p \in Participants /\ q \in Participants
  BY DEF IInv, Correct
<1>2. st[p] # W1 /\ st[q] # W1
  BY DEF Verified, W1, W2, Ready
<1>3. CASE p = q
  BY <1>3
<1>4. CASE p # q
  <2> SUFFICES ASSUME NEW x \in Participants
               PROVE  (IF x = p THEN Genuine ELSE r1[p][x]) = (IF x = q THEN Genuine ELSE r1[q][x])
    BY DEF View
  <2>1. CASE x = p
    BY <1>1, <1>2, <1>4, <2>1 DEF Round1Inv, Others
  <2>2. CASE x = q
    BY <1>1, <1>2, <1>4, <2>2 DEF Round1Inv, Others
  <2>3. CASE x # p /\ x # q
    <3>1. <<x, q>> \in bc[p]
      BY <1>1, <1>4, <2>3 DEF EchoInv, Others
    <3>2. QED
      BY <1>1, <2>3, <3>1 DEF EchoInv
  <2>4. QED
    BY <2>1, <2>2, <2>3
<1>5. QED
  BY <1>3, <1>4

\* The echo broadcast does its work whatever the faulty participants send, for
\* any number of participants (handle_round1_package_broadcast).
THEOREM EchoBroadcastAgrees == Spec => []EchoConsistency
BY IInvConsistent, InductiveInvariant, PTL

\* A process that is done has a round 2 package of everybody, and correct
\* participants send theirs only after they verified.
LEMMA IInvDone == IInv => DoneAfterAllVerified
<1> SUFFICES ASSUME IInv, NEW p \in Correct, NEW q \in Correct, pc[p] = "done"
             PROVE  Verified(q)
  BY DEF DoneAfterAllVerified
<1>1. ControlInv /\ Round2Inv /\ q \in Participants
  BY DEF IInv, Correct
<1>2. st[p] = Ready
  BY <1>1 DEF ControlInv
<1>3. CASE p = q
  BY <1>2, <1>3 DEF Verified
<1>4. CASE p # q
  BY <1>1, <1>2, <1>4 DEF Round2Inv, Others
<1>5. QED
  BY <1>3, <1>4

\* Nobody has a key before all correct participants verified.
THEOREM DoneIsLast == Spec => []DoneAfterAllVerified
BY IInvDone, InductiveInvariant, PTL

\* The accessors that panic are called in the right states only.
LEMMA NoPanicStep == IInv /\ NoPanic /\ [Next]_vars => NoPanic'
<1> SUFFICES ASSUME IInv, NoPanic, [Next]_vars, NEW s \in Participants
             PROVE  pc'[s] # "panicked"
  BY DEF NoPanic
<1>1. pc \in [Participants -> Pcs] /\ pc[s] # "panicked"
  BY DEF IInv, TypeOK, NoPanic
<1>2. CASE UNCHANGED pc
  BY <1>1, <1>2
<1>3. CASE CreateSession
  BY <1>1, <1>3, DkgAssumption DEF CreateSession, Begin, Goto
<1>4. ASSUME NEW p \in Correct, Step(p) \/ Crash(p), s # p
      PROVE  pc'[s] # "panicked"
  BY <1>1, <1>4, OthersStay
<1>5. ASSUME s \in Correct, Step(s) \/ Crash(s)
      PROVE  pc'[s] # "panicked"
  <2>1. CASE Handle(s)
    BY <1>1, <2>1 DEF Handle, recv, Refuse, Fail, handle_round1_package,
                      handle_round1_package_broadcast, handle_round2_package
  <2>2. CASE Send(s)
    BY <1>1, <2>2 DEF Send, SendOne, Goto, Fail, PollAfter, Sending
  <2>3. CASE Join(s) \/ Fetch(s)
    BY <1>1, <2>3 DEF Join, Begin, Fetch, Goto, Fail
  <2>4. CASE LeaveRound1(s)
    BY <1>1, <2>4 DEF LeaveRound1, EnterRound2, LoopEnds, has_round1_packages,
                      round1_packages_panics, Goto, Fail
  <2>5. CASE LeaveEcho(s)
    BY <1>1, <2>5 DEF LeaveEcho, EnterRound2, LoopEnds, has_round1_broadcast_packages,
                      round1_packages_panics, Goto, Fail
  <2>6. CASE Finish(s)
    BY <1>1, <1>5, <2>6 DEF Finish, IInv, ControlInv, round2_packages_panics, Goto, Fail
  <2>7. CASE LeaveRound2(s) \/ CloseSession(s) \/ Cleanup(s) \/ Crash(s)
    BY <1>1, <2>7 DEF LeaveRound2, CloseSession, Cleanup, Crash, Goto
  <2>8. QED
    BY <1>5, <2>1, <2>2, <2>3, <2>4, <2>5, <2>6, <2>7 DEF Step
<1>6. ASSUME NEW e \in Repertoire, FaultySend(e[1], e[2])
      PROVE  pc'[s] # "panicked"
  BY <1>2, <1>6 DEF FaultySend
<1>7. CASE FaultyClose
  BY <1>2, <1>7 DEF FaultyClose
<1>8. CASE UNCHANGED vars
  BY <1>2, <1>8 DEF vars
<1>9. QED
  BY <1>3, <1>4, <1>5, <1>6, <1>7, <1>8 DEF Next

\* round1_packages() and round2_packages() never panic, whatever is received.
THEOREM NeverPanics == Spec => []NoPanic
<1>1. Init => NoPanic
  BY DEF Init, NoPanic
<1>2. QED
  BY <1>1, NoPanicStep, InductiveInvariant, PTL DEF Spec

-----------------------------------------------------------------------------
(***************************************************************************)
(* While everybody is correct, nobody is accused.                          *)
(***************************************************************************)
\* The checks of handle_round1_package_broadcast pass on the echoes of correct
\* participants: they hold the original, it is the sender's, and the echo at the
\* head of an answer has not been accepted before.
LEMMA EchoIsFine ==
  ASSUME IInv, Faulty = {}, NEW p \in Correct, inbox[p] # <<>>,
         Head(inbox[p]).kind = "Echo", st[p] = WB
  PROVE  EchoError(p, Head(inbox[p])) = "-"
<1> DEFINE m == Head(inbox[p])
<1>1. Correct = Participants
  BY DEF Correct
<1>2. /\ inbox[p] \in Seq(Message) /\ inbox[p] # <<>>
      /\ m \in Message /\ m = inbox[p][1] /\ 1 \in 1 .. Len(inbox[p])
  BY <1>1 DEF IInv, TypeOK
<1>3. MessageInv(m, p)
  BY <1>1, <1>2 DEF IInv, ChannelInv
<1>4. m.from \in Participants /\ m.orig \in Participants
  BY <1>2 DEF Message
<1>5. /\ m.orig \notin {m.from, p} /\ m.from # p
      /\ st[m.from] # W1 /\ m.ver = r1[m.from][m.orig]
  BY <1>1, <1>3, <1>4 DEF MessageInv
<1>6. r1[p][m.orig] = Genuine /\ r1[m.from][m.orig] = Genuine
  <2>1. st[p] # W1
    BY DEF WB, W1
  <2>2. QED
    BY <1>1, <1>4, <1>5, <2>1 DEF IInv, Round1Inv, Others
<1>7. Genuine # NoPkg
  BY DkgAssumption
<1>8. <<m.orig, m.from>> \notin bc[p]
  <2>1. 1 \in Echoes(inbox[p], m.from, m.orig)
    BY <1>2 DEF Echoes
  <2> HIDE DEF m
  <2>2. \A s \in Correct, q, o \in Participants : Once(s, q, o)
    BY DEF IInv, OnceInv, Once
  <2>3. Once(m.from, p, m.orig)
    BY <1>1, <1>4, <2>2
  <2>4. QED
    BY <2>1, <2>3 DEF Once
<1>9. QED
  BY <1>5, <1>6, <1>7, <1>8 DEF EchoError

\* Whatever the message, handling it ends a process with an accepted reason only.
LEMMA HandleAccusesNobody ==
  ASSUME IInv, Faulty = {}, NEW p \in Correct, Handle(p)
  PROVE  why' = why \/ \E error \in {"parse", "wrongState"} : why' = [why EXCEPT ![p] = error]
<1> DEFINE m == Head(inbox[p])
<1>1. m.kind # "Junk"
  <2>1. /\ Correct = Participants
        /\ inbox[p] \in Seq(Message) /\ inbox[p] # <<>>
        /\ m \in Message /\ m = inbox[p][1] /\ 1 \in 1 .. Len(inbox[p])
    BY DEF IInv, TypeOK, Correct, Handle
  <2>2. MessageInv(m, p) /\ m.from \in Correct
    BY <2>1 DEF IInv, ChannelInv, Message
  <2>3. QED
    BY <2>2 DEF MessageInv
<1>2. m.kind = "Echo" /\ st[p] = WB => EchoError(p, m) = "-"
  BY EchoIsFine DEF Handle
<1> HIDE DEF m
<1>3. recv(p, m)
  BY DEF Handle, m
<1>4. QED
  BY <1>1, <1>2, <1>3 DEF recv, Refuse, Fail, handle_round1_package,
                          handle_round1_package_broadcast, handle_round2_package

\* part2 verifies proofs of knowledge, part3 compares shares with commitments:
\* both are given what correct participants sent.
LEMMA RoundsAccuseNobody ==
  ASSUME IInv, Faulty = {}, NEW p \in Correct,
         LeaveRound1(p) \/ LeaveEcho(p) \/ LeaveRound2(p) \/ Finish(p)
  PROVE  why' = why
<1>1. Correct = Participants /\ Genuine \in Sound
  BY DkgAssumption DEF Correct
<1>2. st[p] # W1 => \A q \in Others(p) : r1[p][q] = Genuine
  BY <1>1 DEF IInv, Round1Inv, Others
<1>3. EnterRound2(p) => why' = why
  BY <1>1, <1>2 DEF EnterRound2, round1_packages_panics, Panic, Goto, W1, WB, W2
<1>4. CASE LeaveRound1(p) \/ LeaveEcho(p)
  BY <1>3, <1>4 DEF LeaveRound1, LeaveEcho, Panic, Goto
<1>5. CASE LeaveRound2(p)
  BY <1>5 DEF LeaveRound2, Goto
<1>6. CASE Finish(p)
  <2>1. st[p] = Ready /\ st[p] # W1
    BY <1>6 DEF Finish, IInv, ControlInv, Ready, W1
  <2>2. \A q \in Others(p) : r2[p][q] = Genuine
    BY <1>1, <2>1 DEF IInv, Round2Inv, Others
  <2>3. QED
    BY <1>2, <1>6, <2>1, <2>2 DEF Finish, Panic, Goto
<1>7. QED
  BY <1>4, <1>5, <1>6

LEMMA AccusationStep == IInv /\ NoFalseAccusation /\ [Next]_vars => NoFalseAccusation'
<1> SUFFICES ASSUME IInv, NoFalseAccusation, [Next]_vars, Faulty = {}
             PROVE  \A p \in Participants : why'[p] \in {"-", "parse", "wrongState", "session"}
  BY DEF NoFalseAccusation
<1> DEFINE Blameless == {"parse", "wrongState", "session"}
<1>1. /\ why \in [Participants -> Errors \cup {"-"}]
      /\ \A p \in Participants : why[p] \in Blameless \cup {"-"}
  BY DEF IInv, TypeOK, NoFalseAccusation
<1>2. why' = why \/ \E p \in Correct, error \in Blameless : why' = [why EXCEPT ![p] = error]
  <2>1. CASE CreateSession
    BY <2>1 DEF CreateSession, Begin, Goto
  <2>2. ASSUME NEW p \in Correct, Join(p) \/ Send(p) \/ Fetch(p)
        PROVE  why' = why \/ why' = [why EXCEPT ![p] = "session"]
    BY <2>2 DEF Join, Begin, Send, SendOne, Fetch, Goto, Fail
  <2>3. ASSUME NEW p \in Correct, CloseSession(p) \/ Cleanup(p) \/ Crash(p)
        PROVE  why' = why
    BY <2>3 DEF CloseSession, Cleanup, Crash, Goto
  <2>4. CASE (\E e \in Repertoire : FaultySend(e[1], e[2])) \/ FaultyClose \/ UNCHANGED vars
    BY <2>4 DEF FaultySend, FaultyClose, vars
  <2>5. QED
    BY <2>1, <2>2, <2>3, <2>4, HandleAccusesNobody, RoundsAccuseNobody DEF Next, Step
<1>3. QED
  BY <1>1, <1>2 DEF Correct

\* While every participant is correct nobody is accused of a wrong, repeated or
\* missing package, in any order of the messages: every error of
\* handle_round1_package_broadcast, part2 and part3 is out of reach.
THEOREM NobodyIsAccused == Spec => []NoFalseAccusation
<1>1. Init => NoFalseAccusation
  BY DEF Init, NoFalseAccusation
<1>2. QED
  BY <1>1, AccusationStep, InductiveInvariant, PTL DEF Spec

-----------------------------------------------------------------------------
(***************************************************************************)
(* Dkg implements DkgAgreement.                                            *)
(***************************************************************************)
\* The variables of DkgAgreement.
Accepted == [p \in Correct |-> IF Verified(p) THEN {View(p)} ELSE {}]
DoneSet  == {p \in Correct : pc[p] = "done"}

\* A step makes at most one process accept, and what it accepts is what every
\* process that accepted before it holds.
LEMMA AcceptStep ==
  ASSUME IInv, IInv', EchoConsistency', [Next]_vars
  PROVE  \/ Accepted' = Accepted
         \/ /\ DoneSet' = DoneSet
            /\ \E p \in Correct, v \in [Participants -> Ver] :
                 /\ Accepted[p] = {}
                 /\ \A q \in Correct : Accepted[q] \subseteq {v}
                 /\ Accepted' = [Accepted EXCEPT ![p] = {v}]
<1>1. \A q \in Correct : Verified(q) => Verified(q)' /\ View(q)' = View(q)
  BY Monotone DEF View, Verified, W1, W2, Ready
<1>2. CASE \A q \in Correct : Verified(q)' => Verified(q)
  BY <1>1, <1>2 DEF Accepted
<1>3. CASE \E q \in Correct : Verified(q)' /\ ~Verified(q)
  <2> PICK p \in Correct : Verified(p)' /\ ~Verified(p)
    BY <1>3
  <2>1. ~UNCHANGED st
    BY DEF Verified
  <2>2. Next /\ \E x \in Correct : Handle(x)
    BY <2>1, OnlyHandleChangesState DEF vars
  <2> PICK x \in Correct : Handle(x)
    BY <2>2
  <2>3. \A q \in Participants : q # x => st'[q] = st[q]
    <3>1. TypeOK
      BY DEF IInv
    <3>2. st' = st \/ \E s : st' = [st EXCEPT ![x] = s]
      BY HandleCases DEF HandlesR1, HandlesEcho, HandlesR2, handle_round1_package,
                         handle_round1_package_broadcast, handle_round2_package
    <3>3. QED
      BY <3>1, <3>2 DEF TypeOK
  <2>4. x = p
    BY <2>3 DEF Verified, Correct
  <2>5. DoneSet' = DoneSet
    <3>1. pc'[p] \in {pc[p], "cleanup"} /\ pc[p] # "done"
      BY <2>4 DEF Handle, Polling, recv, Refuse, Fail, handle_round1_package, IInv, TypeOK,
                  handle_round1_package_broadcast, handle_round2_package, Correct
    <3>2. \A q \in Participants : q # p => pc'[q] = pc[q]
      BY <2>4, OthersStay DEF Step
    <3>3. QED
      BY <3>1, <3>2 DEF DoneSet, Correct
  <2>6. View(p)' \in [Participants -> Ver]
    <3>1. TypeOK' /\ Round1Inv' /\ st'[p] # W1 /\ Genuine \in Ver
      BY DkgAssumption DEF IInv, Verified, W1, W2, Ready
    <3>2. \A q \in Participants : q # p => r1'[p][q] \in Ver
      BY <3>1 DEF TypeOK, Round1Inv, Others, Correct
    <3>3. QED
      BY <3>1, <3>2 DEF View
  <2>7. \A q \in Correct : Verified(q) => View(q) = View(p)'
    BY <1>1 DEF EchoConsistency
  <2>8. \A q \in Correct : q # p => (Verified(q)' <=> Verified(q))
    BY <2>3, <2>4 DEF Verified, Correct
  <2>9. Accepted' = [Accepted EXCEPT ![p] = {View(p)'}]
    BY <1>1, <2>8 DEF Accepted
  <2>10. QED
    BY <2>5, <2>6, <2>7, <2>9 DEF Accepted
<1>4. QED
  BY <1>2, <1>3
\* A process ends with a key in finishing, when everybody has accepted.
LEMMA ObtainStep ==
  ASSUME IInv, IInv', DoneAfterAllVerified', [Next]_vars, DoneSet' # DoneSet
  PROVE  /\ Accepted' = Accepted
         /\ \E p \in Correct :
              /\ \A q \in Correct : Accepted[q] # {}
              /\ DoneSet' = DoneSet \cup {p}
<1>1. pc \in [Participants -> Pcs]
  BY DEF IInv, TypeOK
<1>2. PICK p \in Correct : Finish(p)
  <2> SUFFICES ASSUME \A p \in Correct : ~Finish(p)
               PROVE  DoneSet' = DoneSet
    OBVIOUS
  <2>1. CASE UNCHANGED pc
    BY <2>1 DEF DoneSet
  <2>2. ASSUME NEW p \in Correct, Step(p) \/ Crash(p)
        PROVE  DoneSet' = DoneSet
    <3>1. \A q \in Participants : q # p => pc'[q] = pc[q]
      BY <2>2, OthersStay
    <3>2. p \in Participants
      BY DEF Correct
    <3>3. pc'[p] = "done" <=> pc[p] = "done"
      <4>1. CASE Handle(p)
        BY <1>1, <3>2, <4>1 DEF Handle, Polling, recv, Refuse, Fail, handle_round1_package,
                          handle_round1_package_broadcast, handle_round2_package
      <4>2. CASE Send(p)
        BY <1>1, <3>2, <4>2 DEF Send, SendOne, Goto, Fail, PollAfter, Sending
      <4>3. CASE Join(p) \/ Fetch(p)
        BY <1>1, <3>2, <4>3 DEF Join, Begin, Fetch, Goto, Fail, Polling
      <4>4. CASE LeaveRound1(p) \/ LeaveEcho(p) \/ LeaveRound2(p)
        BY <1>1, <3>2, <4>4 DEF LeaveRound1, LeaveEcho, LeaveRound2, EnterRound2, Goto, Fail, Panic
      <4>5. CASE CloseSession(p) \/ Cleanup(p) \/ Crash(p)
        BY <1>1, <3>2, <4>5 DEF CloseSession, Cleanup, Crash, Goto, Running, Polling, Sending
      <4>6. QED
        BY <2>2, <4>1, <4>2, <4>3, <4>4, <4>5 DEF Step
    <3>4. QED
      BY <3>1, <3>3 DEF DoneSet, Correct
  <2>3. CASE CreateSession
    BY <1>1, <2>3, DkgAssumption DEF CreateSession, Begin, Goto, DoneSet, Correct
  <2>4. ASSUME NEW e \in Repertoire, FaultySend(e[1], e[2])
        PROVE  DoneSet' = DoneSet
    BY <2>1, <2>4 DEF FaultySend
  <2>5. CASE FaultyClose
    BY <2>1, <2>5 DEF FaultyClose
  <2>6. CASE UNCHANGED vars
    BY <2>1, <2>6 DEF vars
  <2>7. QED
    BY <2>2, <2>3, <2>4, <2>5, <2>6 DEF Next
<1>3. UNCHANGED <<st, r1>> /\ Accepted' = Accepted
  BY <1>2 DEF Finish, Accepted, Verified, View
<1>4. \A q \in Correct : q # p => pc'[q] = pc[q]
  BY <1>2, OthersStay DEF Step, Correct
<1>5. pc'[p] = "done" /\ DoneSet' = DoneSet \cup {p}
  BY <1>1, <1>2, <1>4 DEF Finish, Goto, Fail, Panic, DoneSet, Correct
<1>6. \A q \in Correct : Verified(q)
  BY <1>3, <1>5 DEF DoneAfterAllVerified, Verified
<1>7. QED
  BY <1>3, <1>5, <1>6 DEF Accepted

\* Every behaviour of the processes is one DkgAgreement allows: accepting is
\* what the last round 1 package of two or the last echo of more does, and
\* obtaining a key is what Finish does.
THEOREM DkgImplementsAgreement == Spec => ImplementsAgreement
<1>1. Init => Agreement!AInit
  BY DEF Init, Agreement!AInit, Verified, W1, W2, Ready, Correct
<1>2. IInv /\ IInv' /\ EchoConsistency' /\ DoneAfterAllVerified' /\ [Next]_vars
        => [Agreement!ANext]_(Agreement!avars)
  <2> SUFFICES ASSUME IInv, IInv', EchoConsistency', DoneAfterAllVerified', [Next]_vars
               PROVE  Agreement!ANext \/ (Accepted' = Accepted /\ DoneSet' = DoneSet)
    BY DEF Agreement!avars, Accepted, DoneSet
  <2>1. CASE DoneSet' # DoneSet
    <3>1. PICK p \in Correct : /\ Accepted' = Accepted
                               /\ \A q \in Correct : Accepted[q] # {}
                               /\ DoneSet' = DoneSet \cup {p}
      BY <2>1, ObtainStep
    <3>2. Agreement!Obtain(p)
      BY <3>1 DEF Agreement!Obtain, Accepted, DoneSet
    <3>3. QED
      BY <3>2 DEF Agreement!ANext
  <2>2. CASE DoneSet' = DoneSet /\ Accepted' # Accepted
    <3>1. PICK p \in Correct, v \in [Participants -> Ver] :
                 /\ Accepted[p] = {}
                 /\ \A q \in Correct : Accepted[q] \subseteq {v}
                 /\ Accepted' = [Accepted EXCEPT ![p] = {v}]
      BY <2>2, AcceptStep
    <3>2. Agreement!Accept(p, v)
      BY <2>2, <3>1 DEF Agreement!Accept, Accepted, DoneSet
    <3>3. QED
      BY <3>2 DEF Agreement!ANext
  <2>3. QED
    BY <2>1, <2>2
<1>3. QED
  BY <1>1, <1>2, InductiveInvariant, EchoBroadcastAgrees, DoneIsLast, PTL
     DEF Spec, ImplementsAgreement, Agreement!ASpec
=============================================================================
