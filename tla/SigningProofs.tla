----------------------------- MODULE SigningProofs -----------------------------
(***************************************************************************)
(* Proofs about Signing for any set of signers, any number of processes of *)
(* each and any messages of the faulty ones: the inductive invariant IInv, *)
(* what the coordinator can fail of, and the refinement of SigningPromise. *)
(***************************************************************************)
EXTENDS Signing, FiniteSetTheorems, TLAPS

-----------------------------------------------------------------------------
(***************************************************************************)
(* The initial states.                                                     *)
(***************************************************************************)
\* Nothing has been sent or received yet.
LEMMA InitIInv == Init => IInv
<1> SUFFICES ASSUME Init PROVE IInv
  OBVIOUS
<1> USE SigningAssumption DEF Init
<1>1. NoPackage \in Package /\ \A q \in Signers : NoPackage[q] = NoNonce
  BY DEF Package, NoPackage
<1>2. TypeOK
  BY <1>1 DEF TypeOK, SessionStatus, CoordinatorPcs, States, WC, ProcPcs, Fresh
<1>3. ChannelInv
  BY DEF ChannelInv
<1>4. PackageInv /\ ShareInv
  BY DEF PackageInv, ShareInv, Correct
<1>5. CoordinatorInv /\ ContextInv
  BY <1>1 DEF CoordinatorInv, Committed, Shared, WC, Ready, ContextInv, ContextInStep, Correct
<1>6. NotKilledByMessages /\ NoPanic
  BY DEF NotKilledByMessages, NoPanic
<1>7. QED
  BY <1>2, <1>3, <1>4, <1>5, <1>6 DEF IInv

-----------------------------------------------------------------------------
(***************************************************************************)
(* Who changes what.                                                       *)
(***************************************************************************)
\* The coordinator does not touch the processes, and nobody else the
\* coordinator.
LEMMA Frames ==
  ASSUME Next
  PROVE  \/ (CoordinatorStep \/ CoordinatorCrash) /\ UNCHANGED processes
         \/ /\ UNCHANGED coordinator
            /\ \/ \E i \in Procs : Step(i) \/ Crash(i)
               \/ (CloseAll \/ FaultyStep) /\ UNCHANGED processes
<1>1. CoordinatorStep \/ CoordinatorCrash => UNCHANGED processes
  BY DEF CoordinatorStep, OpenSession, Fetch, HandleMsg, LeaveCollect, SendPackage, LeaveAwait,
         CloseSession, Aggregate, Cleanup, CoordinatorCrash, processes
<1>2. ASSUME NEW i \in Procs, Step(i) \/ Crash(i)
      PROVE  UNCHANGED coordinator
  BY <1>2 DEF Step, SendCommitments, ReceivePackage, Confirm, SendShare, Crash
<1>3. CloseAll \/ FaultyStep => UNCHANGED <<coordinator, processes>>
  BY DEF CloseAll, FaultyStep, FaultySend, FaultyPost
<1>4. QED
  BY <1>1, <1>2, <1>3 DEF Next

\* What is sent to the coordinator arrives behind the rest.
LEMMA BoxTypes ==
  ASSUME cbox \in Seq(Message), NEW m \in Message,
         cbox' = cbox \/ cbox' = Append(cbox, m)
  PROVE  cbox' \in Seq(Message)
  OBVIOUS

\* The message that HandleMsg handles.
LEMMA HeadKnown ==
  ASSUME TypeOK, ChannelInv, HandleMsg
  PROVE  /\ Head(batch) \in Message /\ MessageInv(Head(batch))
         /\ Tail(batch) \in Seq(Message)
         /\ \A k \in 1 .. Len(Tail(batch)) : MessageInv(Tail(batch)[k])
<1>1. batch \in Seq(Message) /\ batch # <<>>
  BY DEF TypeOK, HandleMsg
<1>2. 1 \in 1 .. Len(batch) /\ Head(batch) = batch[1] /\ Head(batch) \in Message
  BY <1>1
<1>3. /\ Tail(batch) \in Seq(Message) /\ Len(Tail(batch)) = Len(batch) - 1
      /\ \A k \in 1 .. Len(Tail(batch)) : Tail(batch)[k] = batch[k + 1]
  BY <1>1
<1>4. \A k \in 1 .. Len(Tail(batch)) : k + 1 \in 1 .. Len(batch)
  BY <1>1, <1>3
<1>5. QED
  BY <1>2, <1>3, <1>4 DEF ChannelInv

\* A process that gave its share stays as it is.
LEMMA DoneStays ==
  ASSUME TypeOK, [Next]_vars, NEW i \in Procs, pc[i] = "done"
  PROVE  pc'[i] = "done" /\ got'[i] = got[i]
<1>1. ASSUME NEW j \in Procs, Step(j) \/ Crash(j)
      PROVE  pc'[i] = "done" /\ got'[i] = got[i]
  BY <1>1 DEF TypeOK, Step, SendCommitments, ReceivePackage, Confirm, SendShare, Crash, Become,
              EndedProcs
<1>2. CASE UNCHANGED processes
  BY <1>2 DEF processes
<1>3. QED
  BY <1>1, <1>2, Frames DEF vars

\* Once the commitments are complete they stay as they are.
LEMMA CommitmentsFixed ==
  ASSUME [Next]_vars, cst # WC
  PROVE  cst' # WC /\ commitments' = commitments
<1>1. CASE HandleMsg
  BY <1>1 DEF HandleMsg, SkipRejoin, SkipUnreadable, SkipInvalid, Take, recv,
              handle_signature_share, WC, WS, Ready
<1>2. CASE UNCHANGED coordinator
  BY <1>2 DEF coordinator
<1>3. CASE CoordinatorStep \/ CoordinatorCrash
  BY <1>1, <1>3 DEF CoordinatorStep, OpenSession, Fetch, LeaveCollect, SendPackage, LeaveAwait,
                    CloseSession, Aggregate, Cleanup, CoordinatorCrash
<1>4. QED
  BY <1>2, <1>3, Frames DEF vars

-----------------------------------------------------------------------------
(***************************************************************************)
(* Types.                                                                  *)
(***************************************************************************)
\* Storing commitments or a share, and reading a message.
LEMMA RecvTypes ==
  ASSUME TypeOK, NEW m \in Message, recv(m)
  PROVE  /\ cst' \in States
         /\ commitments' \in Package
         /\ shares' \in [Signers -> Share \cup {NoShare}]
<1>1. m.from \in Signers /\ [nonce |-> m.nonce, pkg |-> m.pkg] \in Share
  BY DEF Message, Share
<1>2. CASE handle_commitments(m)
  <2>1. [commitments EXCEPT ![m.from] = m.nonce] \in Package
    BY <1>1 DEF TypeOK, Package, Message
  <2>2. QED
    BY <1>2, <2>1 DEF handle_commitments, TypeOK, States
<1>3. CASE handle_signature_share(m)
  <2>1. [shares EXCEPT ![m.from] = [nonce |-> m.nonce, pkg |-> m.pkg]]
          \in [Signers -> Share \cup {NoShare}]
    BY <1>1 DEF TypeOK
  <2>2. QED
    BY <1>3, <2>1 DEF handle_signature_share, TypeOK, States
<1>4. QED
  BY <1>2, <1>3 DEF recv

LEMMA NoiseTypes ==
  ASSUME TypeOK, NEW m \in Message, Decrypts(m)
  PROVE  AfterReading(m) \in [Signers -> [chan : Procs \cup {Fresh}, next : 0 .. 2]]
<1>1. m.from \in Signers /\ m.seq \in {0, 1}
  BY DEF Message
<1>2. CASE m.chan = Readable
  BY <1>2 DEF AfterReading, TypeOK
<1>3. CASE m.chan # Readable
  <2>1. m.chan \in Procs /\ m.seq + 1 \in 0 .. 2
    BY <1>1, <1>3 DEF Decrypts
  <2>2. [chan |-> m.chan, next |-> m.seq + 1] \in [chan : Procs \cup {Fresh}, next : 0 .. 2]
    BY <2>1
  <2>3. QED
    BY <1>1, <1>3, <2>2 DEF AfterReading, TypeOK
<1>4. QED
  BY <1>2, <1>3

LEMMA ForgetTypes ==
  ASSUME TypeOK, Forget
  PROVE  cbox' \in Seq(Message) /\ queue' \in [Signers -> Seq(Package)]
<1>1. DOMAIN queue = Signers
  BY DEF TypeOK
<1>2. QED
  BY <1>1 DEF Forget, Discarded

\* Every step of the coordinator keeps the types.
LEMMA CoordinatorTypes ==
  ASSUME TypeOK, ChannelInv, CoordinatorStep \/ CoordinatorCrash, UNCHANGED processes
  PROVE  TypeOK'
<1> USE DEF TypeOK, processes
<1>1. CASE OpenSession
  BY <1>1 DEF OpenSession, SessionStatus, CoordinatorPcs
<1>2. CASE Fetch
  BY <1>2 DEF Fetch, CFail, CoordinatorPcs
<1>3. CASE HandleMsg
  <2> DEFINE m == Head(batch)
  <2>1. m \in Message /\ batch' \in Seq(Message)
    BY <1>3, HeadKnown DEF HandleMsg
  <2>2. UNCHANGED <<cpc, cwhy, session, cbox, queue, toSend, faultySends>>
    BY <1>3 DEF HandleMsg, SkipRejoin, SkipUnreadable, SkipInvalid, Take
  <2>3. CASE SkipRejoin(m) \/ SkipUnreadable(m)
    BY <2>1, <2>2, <2>3 DEF SkipRejoin, SkipUnreadable
  <2>4. CASE SkipInvalid(m)
    <3>1. noise' \in [Signers -> [chan : Procs \cup {Fresh}, next : 0 .. 2]]
      BY <2>1, <2>4, NoiseTypes DEF SkipInvalid
    <3>2. UNCHANGED <<cst, commitments, shares, seen>>
      BY <2>4 DEF SkipInvalid
    <3>3. QED
      BY <2>1, <2>2, <3>1, <3>2
  <2>5. CASE Take(m)
    <3>1. noise' \in [Signers -> [chan : Procs \cup {Fresh}, next : 0 .. 2]]
      BY <2>1, <2>5, NoiseTypes DEF Take
    <3>2. /\ cst' \in States
          /\ commitments' \in Package
          /\ shares' \in [Signers -> Share \cup {NoShare}]
      BY <2>1, <2>5, RecvTypes DEF Take
    <3>3. seen' \in SUBSET Signers
      BY <2>1, <2>5 DEF Take, Message
    <3>4. QED
      BY <2>1, <2>2, <3>1, <3>2, <3>3
  <2>6. QED
    BY <1>3, <2>3, <2>4, <2>5 DEF HandleMsg
<1>4. CASE LeaveCollect \/ LeaveAwait
  BY <1>4 DEF LeaveCollect, LeaveAwait, CoordinatorPcs
<1>5. ASSUME NEW q \in Signers, SendPackage(q)
      PROVE  TypeOK'
  <2>1. Delivered(queue, q, commitments) \in [Signers -> Seq(Package)]
    BY DEF Delivered
  <2>2. QED
    BY <1>5, <2>1 DEF SendPackage, CFail, CoordinatorPcs
<1>6. CASE CloseSession \/ Cleanup
  <2>1. cbox' \in Seq(Message) /\ queue' \in [Signers -> Seq(Package)]
    BY <1>6, ForgetTypes DEF CloseSession, Cleanup
  <2>2. QED
    BY <1>6, <2>1 DEF CloseSession, Cleanup, CFail, SessionStatus, CoordinatorPcs
<1>7. CASE Aggregate \/ CoordinatorCrash
  BY <1>7 DEF Aggregate, CoordinatorCrash, CFail, CoordinatorPcs
<1>8. QED
  BY <1>1, <1>2, <1>3, <1>4, <1>5, <1>6, <1>7 DEF CoordinatorStep

\* And so does everybody else's.
LEMMA OtherTypes ==
  ASSUME TypeOK, UNCHANGED coordinator,
         \/ \E i \in Procs : Step(i) \/ Crash(i)
         \/ (CloseAll \/ FaultyStep) /\ UNCHANGED processes
  PROVE  TypeOK'
<1> USE SigningAssumption DEF TypeOK, coordinator
<1>1. ASSUME NEW i \in Procs, Step(i) \/ Crash(i)
      PROVE  TypeOK'
  <2>1. i \in Nonces /\ Owner[i] \in Signers /\ NoPackage \in Package
    BY DEF Correct, NoPackage, Package
  <2>2. CASE SendCommitments(i)
    <3> DEFINE m == [kind |-> "Commit", from |-> Owner[i], chan |-> i, seq |-> 0,
                     nonce |-> i, pkg |-> NoPackage]
    <3>1. m \in Message
      BY <2>1 DEF Message
    <3>2. cbox' \in Seq(Message)
      <4>1. cbox' = cbox \/ cbox' = Append(cbox, m)
        BY <2>2 DEF SendCommitments
      <4>2. QED
        BY <3>1, <4>1, BoxTypes
    <3>3. pc' \in [Procs -> ProcPcs]
      BY <2>2 DEF SendCommitments, Become, ProcPcs
    <3>4. QED
      BY <2>2, <3>2, <3>3 DEF SendCommitments
  <2>3. CASE ReceivePackage(i)
    <3>1. queue[Owner[i]] # <<>> => Head(queue[Owner[i]]) \in Package
      BY <2>1
    <3>2. <<>> \in Seq(Package)
      OBVIOUS
    <3>3. Drained(queue, Owner[i]) \in [Signers -> Seq(Package)]
      BY <3>2 DEF Drained
    <3>4. pc' \in [Procs -> ProcPcs]
      BY <2>3 DEF ReceivePackage, Become, ProcPcs
    <3>5. got' \in [Procs -> Package]
      BY <2>3, <3>1 DEF ReceivePackage
    <3>6. queue' \in [Signers -> Seq(Package)]
      BY <2>3, <3>3 DEF ReceivePackage
    <3>7. QED
      BY <2>3, <3>4, <3>5, <3>6 DEF ReceivePackage
  <2>4. CASE Confirm(i) \/ Crash(i)
    BY <2>4 DEF Confirm, Crash, Become, ProcPcs
  <2>5. CASE SendShare(i)
    <3> DEFINE m == [kind |-> "Share", from |-> Owner[i], chan |-> i, seq |-> 1,
                     nonce |-> i, pkg |-> got[i]]
    <3>1. m \in Message
      BY <2>1 DEF Message
    <3>2. cbox' \in Seq(Message)
      <4>1. cbox' = cbox \/ cbox' = Append(cbox, m)
        BY <2>5 DEF SendShare
      <4>2. QED
        BY <3>1, <4>1, BoxTypes
    <3>3. pc' \in [Procs -> ProcPcs]
      BY <2>5 DEF SendShare, Become, ProcPcs
    <3>4. QED
      BY <2>5, <3>2, <3>3 DEF SendShare
  <2>6. QED
    BY <1>1, <2>2, <2>3, <2>4, <2>5 DEF Step
<1>2. ASSUME NEW m \in Repertoire, FaultySend(m), UNCHANGED processes
      PROVE  TypeOK'
  <2>1. NoPackage \in Package /\ m \in Message
    BY DEF NoPackage, Package
  <2>2. \A v \in {commitments, NoPackage} : [m EXCEPT !.pkg = v] \in Message
    BY <2>1 DEF Message
  <2>3. cbox' \in Seq(Message)
    <3>1. PICK v \in {commitments, NoPackage} : cbox' = Append(cbox, [m EXCEPT !.pkg = v])
      BY <1>2 DEF FaultySend
    <3>2. QED
      BY <2>2, <3>1, BoxTypes
  <2>4. faultySends' \in 0 .. MaxFaultySends
    BY <1>2 DEF FaultySend
  <2>5. QED
    BY <1>2, <2>3, <2>4 DEF FaultySend, processes
<1>3. ASSUME CloseAll, UNCHANGED processes
      PROVE  TypeOK'
  <2>1. cbox' \in Seq(Message) /\ queue' \in [Signers -> Seq(Package)]
    BY <1>3, ForgetTypes DEF CloseAll
  <2>2. QED
    BY <1>3, <2>1 DEF CloseAll, SessionStatus, processes
<1>4. ASSUME NEW q \in Correct, FaultyPost(q), UNCHANGED processes
      PROVE  TypeOK'
  <2>1. NoPackage \in Package
    BY DEF NoPackage, Package
  <2>2. Delivered(queue, q, NoPackage) \in [Signers -> Seq(Package)]
    BY <2>1 DEF Delivered, Correct
  <2>3. faultySends' \in 0 .. MaxFaultySends
    BY <1>4 DEF FaultyPost
  <2>4. QED
    BY <1>4, <2>2, <2>3 DEF FaultyPost, processes
<1>5. QED
  BY <1>1, <1>2, <1>3, <1>4 DEF FaultyStep

LEMMA TypeStep == TypeOK /\ ChannelInv /\ [Next]_vars => TypeOK'
<1>1. TypeOK /\ UNCHANGED vars => TypeOK'
  BY DEF TypeOK, vars, coordinator, processes
<1>2. QED
  BY <1>1, Frames, CoordinatorTypes, OtherTypes

-----------------------------------------------------------------------------
(***************************************************************************)
(* Messages.                                                               *)
(***************************************************************************)
\* What is known of a message stays true: the process that sent a share is done.
LEMMA MessageStable ==
  ASSUME TypeOK, [Next]_vars, NEW m, MessageInv(m)
  PROVE  MessageInv(m)'
  BY DoneStays DEF MessageInv

\* Where the messages for the coordinator come from.
LEMMA BoxCases ==
  ASSUME TypeOK, PackageInv, [Next]_vars
  PROVE  \/ UNCHANGED <<cbox, batch>>
         \/ batch' = cbox /\ cbox' = <<>>
         \/ cbox' = cbox /\ HandleMsg /\ batch' = Tail(batch)
         \/ cbox' = <<>> /\ batch' = batch
         \/ batch' = batch /\ \E m : cbox' = Append(cbox, m) /\ MessageInv(m)'
<1> USE SigningAssumption
<1>1. CASE CoordinatorStep \/ CoordinatorCrash
  BY <1>1 DEF CoordinatorStep, OpenSession, Fetch, HandleMsg, LeaveCollect, SendPackage,
              LeaveAwait, CloseSession, Aggregate, Cleanup, CoordinatorCrash, Forget
<1>2. ASSUME NEW i \in Procs, Step(i) \/ Crash(i), UNCHANGED coordinator
      PROVE  batch' = batch /\ (cbox' = cbox \/ \E m : cbox' = Append(cbox, m) /\ MessageInv(m)')
  <2>1. batch' = batch
    BY <1>2 DEF coordinator
  <2>2. CASE SendCommitments(i)
    <3> DEFINE m == [kind |-> "Commit", from |-> Owner[i], chan |-> i, seq |-> 0,
                     nonce |-> i, pkg |-> NoPackage]
    <3>1. MessageInv(m)'
      BY DEF MessageInv
    <3>2. cbox' = cbox \/ cbox' = Append(cbox, m)
      BY <2>2 DEF SendCommitments
    <3> HIDE DEF m
    <3>3. QED
      BY <2>1, <3>1, <3>2
  <2>3. CASE SendShare(i)
    <3>1. PICK m : m = [kind |-> "Share", from |-> Owner[i], chan |-> i, seq |-> 1,
                        nonce |-> i, pkg |-> got[i]]
      OBVIOUS
    <3>2. \/ cbox' = cbox
          \/ cbox' = Append(cbox, m) /\ pc'[i] = "done" /\ got' = got
      BY <2>3, <3>1 DEF SendShare, Become, TypeOK
    <3>3. pc'[i] = "done" /\ got' = got => MessageInv(m)'
      BY <3>1 DEF MessageInv
    <3>4. QED
      BY <2>1, <3>2, <3>3
  <2>4. CASE ReceivePackage(i) \/ Confirm(i) \/ Crash(i)
    BY <2>1, <2>4 DEF ReceivePackage, Confirm, Crash
  <2>5. QED
    BY <1>2, <2>2, <2>3, <2>4 DEF Step
<1>3. ASSUME NEW r \in Repertoire, FaultySend(r)
      PROVE  batch' = batch /\ \E m : cbox' = Append(cbox, m) /\ MessageInv(m)'
  <2>1. PICK v \in {commitments, NoPackage} : cbox' = Append(cbox, [r EXCEPT !.pkg = v])
    BY <1>3 DEF FaultySend
  <2>2. batch' = batch /\ r \in Message /\ r.from \in Faulty
    BY <1>3 DEF FaultySend, coordinator
  <2> DEFINE m == [r EXCEPT !.pkg = v]
  <2>3. m.from \notin Correct
    BY <2>2 DEF Message, Correct
  <2>4. MessageInv(m)'
    BY <2>3 DEF MessageInv
  <2> HIDE DEF m
  <2>5. QED
    BY <2>1, <2>2, <2>4 DEF m
<1>4. CASE CloseAll
  BY <1>4 DEF CloseAll, Forget, coordinator
<1>5. CASE UNCHANGED vars
  BY <1>5 DEF vars, coordinator
<1>6. ASSUME NEW q \in Correct, FaultyPost(q)
      PROVE  UNCHANGED <<cbox, batch>>
  BY <1>6 DEF FaultyPost, coordinator
<1>7. QED
  BY <1>1, <1>2, <1>3, <1>4, <1>5, <1>6, Frames DEF FaultyStep

LEMMA ChannelStep ==
  ASSUME TypeOK, ChannelInv, PackageInv, [Next]_vars
  PROVE  ChannelInv'
<1> USE DEF TypeOK
<1>1. \A m : MessageInv(m) => MessageInv(m)'
  BY MessageStable
<1>2. \A k \in 1 .. Len(cbox) : \E m : m = cbox[k] /\ MessageInv(m)'
  BY <1>1 DEF ChannelInv
<1>3. \A k \in 1 .. Len(batch) : \E m : m = batch[k] /\ MessageInv(m)'
  BY <1>1 DEF ChannelInv
<1>4. /\ \A k \in 1 .. Len(cbox') : \E m : m = cbox'[k] /\ MessageInv(m)'
      /\ \A k \in 1 .. Len(batch') : \E m : m = batch'[k] /\ MessageInv(m)'
  <2>1. CASE \/ UNCHANGED <<cbox, batch>>
             \/ batch' = cbox /\ cbox' = <<>>
             \/ cbox' = <<>> /\ batch' = batch
    BY <1>2, <1>3, <2>1
  <2>2. CASE cbox' = cbox /\ HandleMsg /\ batch' = Tail(batch)
    <3>1. batch # <<>>
      BY <2>2 DEF HandleMsg
    <3>2. \A k \in 1 .. Len(Tail(batch)) :
            k + 1 \in 1 .. Len(batch) /\ Tail(batch)[k] = batch[k + 1]
      BY <3>1
    <3>3. QED
      BY <1>2, <1>3, <2>2, <3>2
  <2>3. CASE batch' = batch /\ \E m : cbox' = Append(cbox, m) /\ MessageInv(m)'
    <3>1. PICK m : cbox' = Append(cbox, m) /\ MessageInv(m)'
      BY <2>3
    <3>2. \A k \in 1 .. Len(cbox') :
            cbox'[k] = m \/ (k \in 1 .. Len(cbox) /\ cbox'[k] = cbox[k])
      BY <3>1
    <3>3. QED
      BY <1>2, <1>3, <2>3, <3>1, <3>2
  <2>4. QED
    BY <2>1, <2>2, <2>3, BoxCases
<1>5. QED
  BY <1>4 DEF ChannelInv, MessageInv

-----------------------------------------------------------------------------
(***************************************************************************)
(* The package and the shares.                                             *)
(***************************************************************************)
\* A mailbox of a signer grows by the package, is emptied, or stays.
LEMMA QueueStep ==
  ASSUME TypeOK, TypeOK', PackageInv, CoordinatorInv, [Next]_vars
  PROVE  \A q \in Signers : \A k \in 1 .. Len(queue'[q]) :
           queue'[q][k] # NoPackage => cst' # WC /\ queue'[q][k] = commitments'
<1> USE DEF TypeOK
<1>1. \A q \in Signers : \A k \in 1 .. Len(queue[q]) :
        queue[q][k] # NoPackage => cst' # WC /\ queue[q][k] = commitments'
  BY CommitmentsFixed DEF PackageInv
<1>2. CASE UNCHANGED queue
  BY <1>1, <1>2
<1>3. CASE Forget
  BY <1>3 DEF Forget, Discarded
<1>4. ASSUME NEW p \in Signers, SendPackage(p)
      PROVE  \A q \in Signers : \A k \in 1 .. Len(queue'[q]) :
               queue'[q][k] # NoPackage => cst' # WC /\ queue'[q][k] = commitments'
  <2>1. UNCHANGED <<cst, commitments>> /\ cst # WC
    BY <1>4 DEF SendPackage, CoordinatorInv
  <2>2. queue' = queue \/ queue' = [queue EXCEPT ![p] = Append(@, commitments)]
    BY <1>4 DEF SendPackage, Delivered
  <2>3. CASE queue' = [queue EXCEPT ![p] = Append(@, commitments)]
    <3>1. \A k \in 1 .. Len(queue'[p]) :
            \/ queue'[p][k] = commitments
            \/ k \in 1 .. Len(queue[p]) /\ queue'[p][k] = queue[p][k]
      <4>1. queue[p] \in Seq(Package) /\ queue'[p] = Append(queue[p], commitments)
        BY <2>3
      <4>2. QED
        BY <4>1
    <3>2. \A q \in Signers : q # p => queue'[q] = queue[q]
      BY <2>3
    <3>3. \A k \in 1 .. Len(queue'[p]) :
            queue'[p][k] # NoPackage => cst' # WC /\ queue'[p][k] = commitments'
      BY <1>1, <2>1, <3>1
    <3>4. ASSUME NEW q \in Signers, NEW k \in 1 .. Len(queue'[q]), queue'[q][k] # NoPackage
          PROVE  cst' # WC /\ queue'[q][k] = commitments'
      <4>1. CASE q = p
        BY <3>3, <3>4, <4>1
      <4>2. CASE q # p
        <5>1. queue'[q] = queue[q]
          BY <3>2, <4>2
        <5>2. QED
          BY <1>1, <3>4, <5>1
      <4>3. QED
        BY <4>1, <4>2
    <3>5. QED
      BY <3>4
  <2>4. QED
    BY <1>1, <2>1, <2>2, <2>3
<1>5. ASSUME NEW i \in Procs, ReceivePackage(i)
      PROVE  \A q \in Signers : \A k \in 1 .. Len(queue'[q]) :
               queue'[q][k] # NoPackage => cst' # WC /\ queue'[q][k] = commitments'
  <2>1. queue' = queue \/ queue' = [queue EXCEPT ![Owner[i]] = <<>>]
    BY <1>5 DEF ReceivePackage, Drained
  <2>2. \A q \in Signers : queue'[q] = queue[q] \/ queue'[q] = <<>>
    BY <2>1
  <2>3. QED
    BY <1>1, <2>2
<1>6. CASE CoordinatorStep \/ CoordinatorCrash
  <2>1. UNCHANGED queue \/ Forget \/ \E p \in Signers : SendPackage(p)
    BY <1>6 DEF CoordinatorStep, OpenSession, Fetch, HandleMsg, LeaveCollect,
                LeaveAwait, CloseSession, Aggregate, Cleanup, CoordinatorCrash
  <2>2. QED
    BY <1>2, <1>3, <1>4, <2>1
<1>7. ASSUME NEW i \in Procs, Step(i) \/ Crash(i)
      PROVE  UNCHANGED queue \/ ReceivePackage(i)
  BY <1>7 DEF Step, SendCommitments, Confirm, SendShare, Crash
<1>8. CASE CloseAll \/ \E m \in Repertoire : FaultySend(m)
  BY <1>2, <1>3, <1>8 DEF CloseAll, FaultySend
<1>9. ASSUME NEW p \in Correct, FaultyPost(p)
      PROVE  \A q \in Signers : \A k \in 1 .. Len(queue'[q]) :
               queue'[q][k] # NoPackage => cst' # WC /\ queue'[q][k] = commitments'
  <2>1. p \in Signers /\ queue' = [queue EXCEPT ![p] = Append(@, NoPackage)]
    BY <1>9 DEF FaultyPost, Delivered, Correct
  <2>2. \A k \in 1 .. Len(queue'[p]) :
          \/ queue'[p][k] = NoPackage
          \/ k \in 1 .. Len(queue[p]) /\ queue'[p][k] = queue[p][k]
    <3>1. queue[p] \in Seq(Package) /\ queue'[p] = Append(queue[p], NoPackage)
      BY <2>1
    <3>2. QED
      BY <3>1
  <2>3. \A q \in Signers : q # p => queue'[q] = queue[q]
    BY <2>1
  <2>4. \A k \in 1 .. Len(queue'[p]) :
          queue'[p][k] # NoPackage => cst' # WC /\ queue'[p][k] = commitments'
    BY <1>1, <2>1, <2>2
  <2>5. ASSUME NEW q \in Signers, NEW k \in 1 .. Len(queue'[q]), queue'[q][k] # NoPackage
        PROVE  cst' # WC /\ queue'[q][k] = commitments'
    <3>1. CASE q = p
      BY <2>4, <2>5, <3>1
    <3>2. CASE q # p
      <4>1. queue'[q] = queue[q]
        BY <2>3, <3>2
      <4>2. QED
        BY <1>1, <2>5, <4>1
    <3>3. QED
      BY <3>1, <3>2
  <2>6. QED
    BY <2>5
<1>10. QED
  BY <1>2, <1>5, <1>6, <1>7, <1>8, <1>9, Frames DEF vars, FaultyStep

\* A process that has a package has the package.
LEMMA GotStep ==
  ASSUME TypeOK, PackageInv, [Next]_vars, NEW i \in Procs
  PROVE  /\ pc'[i] \in {"confirm", "signing", "done"} => cst' # WC /\ got'[i] = commitments'
         /\ pc'[i] = "done" => got'[i][Owner[i]] = i
<1> USE SigningAssumption DEF TypeOK
<1>1. pc[i] \in {"confirm", "signing", "done"} => cst' # WC /\ got[i] = commitments'
  BY CommitmentsFixed DEF PackageInv
<1>2. CASE pc'[i] = pc[i] /\ got'[i] = got[i]
  BY <1>1, <1>2 DEF PackageInv
<1>3. CASE SendCommitments(i) \/ Confirm(i) \/ Crash(i)
  BY <1>1, <1>3 DEF SendCommitments, Confirm, Crash, Become
<1>4. CASE ReceivePackage(i)
  <2>1. \/ pc'[i] = "failed"
        \/ /\ queue[Owner[i]] # <<>> /\ Head(queue[Owner[i]]) # NoPackage
           /\ got'[i] = Head(queue[Owner[i]]) /\ pc'[i] = "confirm"
    BY <1>4 DEF ReceivePackage, Become
  <2>2. Owner[i] \in Signers /\ queue[Owner[i]] \in Seq(Package)
    BY DEF Correct
  <2>3. queue[Owner[i]] # <<>> =>
          1 \in 1 .. Len(queue[Owner[i]]) /\ Head(queue[Owner[i]]) = queue[Owner[i]][1]
    BY <2>2
  <2>4. queue[Owner[i]] # <<>> /\ Head(queue[Owner[i]]) # NoPackage =>
          cst # WC /\ Head(queue[Owner[i]]) = commitments
    BY <2>2, <2>3 DEF PackageInv
  <2>5. QED
    BY <2>1, <2>4, CommitmentsFixed
<1>5. CASE SendShare(i)
  BY <1>1, <1>5 DEF SendShare, Become, Signs
<1>6. ASSUME NEW j \in Procs, j # i, Step(j) \/ Crash(j)
      PROVE  pc'[i] = pc[i] /\ got'[i] = got[i]
  BY <1>6 DEF Step, SendCommitments, ReceivePackage, Confirm, SendShare, Crash, Become
<1>7. CASE UNCHANGED processes
  BY <1>2, <1>7 DEF processes
<1>8. QED
  BY <1>2, <1>3, <1>4, <1>5, <1>6, <1>7, Frames DEF Step, vars

LEMMA PackageStep ==
  ASSUME TypeOK, TypeOK', PackageInv, CoordinatorInv, [Next]_vars
  PROVE  PackageInv'
  BY QueueStep, GotStep DEF PackageInv

\* A share is stored only as it was sent.
LEMMA ShareStep ==
  ASSUME TypeOK, ChannelInv, ShareInv, [Next]_vars
  PROVE  ShareInv'
<1> SUFFICES ASSUME NEW q \in Correct, shares'[q] # NoShare
             PROVE  \E i \in Procs : /\ Owner[i] = q /\ pc'[i] = "done"
                                     /\ shares'[q] = [nonce |-> i, pkg |-> got'[i]]
  BY DEF ShareInv
<1>1. q \in Signers
  BY DEF Correct
<1>2. CASE shares'[q] = shares[q]
  <2>1. PICK i \in Procs : /\ Owner[i] = q /\ pc[i] = "done"
                          /\ shares[q] = [nonce |-> i, pkg |-> got[i]]
    BY <1>2 DEF ShareInv
  <2>2. pc'[i] = "done" /\ got'[i] = got[i]
    BY <2>1, DoneStays
  <2>3. QED
    BY <1>2, <2>1, <2>2
<1>3. CASE HandleMsg /\ shares'[q] # shares[q]
  <2> DEFINE m == Head(batch)
  <2>1. m \in Message /\ MessageInv(m)
    BY <1>3, HeadKnown
  <2>2. m.kind = "Share" /\ handle_signature_share(m)
    BY <1>3 DEF HandleMsg, SkipRejoin, SkipUnreadable, SkipInvalid, Take, Accepts, recv,
                handle_commitments, WC, WS
  <2>3. m.from = q /\ shares'[q] = [nonce |-> m.nonce, pkg |-> m.pkg]
    BY <1>1, <1>3, <2>1, <2>2 DEF handle_signature_share, TypeOK, Message
  <2>4. /\ m.chan \in Procs /\ Owner[m.chan] = q /\ m.nonce = m.chan
        /\ pc[m.chan] = "done" /\ m.pkg = got[m.chan]
    BY <2>1, <2>2, <2>3 DEF MessageInv
  <2>5. QED
    BY <2>3, <2>4, DoneStays
<1>4. UNCHANGED shares \/ HandleMsg
  <2>1. CoordinatorStep \/ CoordinatorCrash => UNCHANGED shares \/ HandleMsg
    BY DEF CoordinatorStep, OpenSession, Fetch, LeaveCollect, SendPackage, LeaveAwait,
           CloseSession, Aggregate, Cleanup, CoordinatorCrash
  <2>2. QED
    BY <2>1, Frames DEF vars, coordinator
<1>5. QED
  BY <1>2, <1>3, <1>4

-----------------------------------------------------------------------------
(***************************************************************************)
(* The coordinator.                                                        *)
(***************************************************************************)
\* What storing commitments does to the invariant.
LEMMA CommitmentStored ==
  ASSUME TypeOK, CoordinatorInv, cpc = "collect", NEW m \in Message, m.from \notin seen,
         handle_commitments(m), cst = WC
  PROVE  /\ Committed' = seen \cup {m.from}
         /\ cst' # WC => Committed' = Signers
         /\ cst' # Ready /\ Shared' = {}
<1>1. m.from \in Signers /\ m.nonce # NoNonce
  BY SigningAssumption DEF Message
<1>2. commitments' = [commitments EXCEPT ![m.from] = m.nonce] /\ shares' = shares
  BY DEF handle_commitments
<1>3. Committed' = seen \cup {m.from}
  BY <1>1, <1>2 DEF TypeOK, Package, Committed, CoordinatorInv
<1>4. QED
  BY <1>2, <1>3 DEF handle_commitments, Committed, CoordinatorInv, Shared, WC, WS, Ready

\* And storing a share: who is in the package is Signers, so it is complete
\* when everybody has sent one.
LEMMA ShareStored ==
  ASSUME TypeOK, CoordinatorInv, NEW m \in Message, m.from \notin seen,
         handle_signature_share(m), cst = WS, cpc = "await"
  PROVE  /\ Shared' = seen \cup {m.from}
         /\ cst' = Ready => Shared' = Signers
         /\ Committed' = Committed /\ cst' # WC
<1>1. m.from \in Signers /\ [nonce |-> m.nonce, pkg |-> m.pkg] # NoShare
  BY SigningAssumption DEF Message, Share
<1>2. shares' = [shares EXCEPT ![m.from] = [nonce |-> m.nonce, pkg |-> m.pkg]]
      /\ commitments' = commitments
  BY DEF handle_signature_share
<1>3. Shared' = seen \cup {m.from} /\ Committed' = Committed
  BY <1>1, <1>2 DEF TypeOK, Shared, Committed, CoordinatorInv
<1>4. {q \in Signers : shares'[q] # NoShare} = Shared'
  BY DEF Shared
<1>5. cst' = IF Shared' = Committed THEN Ready ELSE WS
  BY <1>2, <1>4 DEF handle_signature_share
<1>6. QED
  BY <1>3, <1>5 DEF CoordinatorInv, WC, WS, Ready

\* Taking a message of a sender seen before, or when all is there, is ruled out.
LEMMA HandleKeepsCoordinatorInv ==
  ASSUME TypeOK, ChannelInv, CoordinatorInv, HandleMsg
  PROVE  CoordinatorInv'
<1> DEFINE m == Head(batch)
<1>1. m \in Message /\ m.from \in Signers
  BY HeadKnown DEF Message
<1>2. UNCHANGED <<cpc, cwhy, session>> /\ cpc \in {"collect", "await"}
  <2>1. UNCHANGED session /\ cpc \in {"collect", "await"}
    BY DEF HandleMsg
  <2>2. UNCHANGED <<cpc, cwhy>>
    BY DEF HandleMsg, SkipRejoin, SkipUnreadable, SkipInvalid, Take
  <2>3. QED
    BY <2>1, <2>2
<1>3. CASE UNCHANGED <<cst, commitments, shares, seen>>
  BY <1>2, <1>3 DEF CoordinatorInv, Committed, Shared
<1>4. CASE Take(m)
  <2>1. m.from \notin seen /\ seen' = seen \cup {m.from} /\ recv(m) /\ Accepts(m)
    BY <1>4 DEF Take
  <2>2. CASE cpc = "collect"
    <3>1. seen = Committed /\ cst # Ready
      BY <2>2 DEF CoordinatorInv
    <3>2. cst = WC /\ handle_commitments(m)
      BY <1>1, <2>1, <3>1 DEF recv, CoordinatorInv, WC, WS, Ready
    <3>3. /\ Committed' = seen \cup {m.from}
          /\ cst' # WC => Committed' = Signers
          /\ cst' # Ready /\ Shared' = {}
      BY <1>1, <2>1, <2>2, <3>2, CommitmentStored
    <3>4. QED
      BY <1>2, <2>1, <2>2, <3>3 DEF CoordinatorInv
  <2>3. CASE cpc = "await"
    <3>1. cst = WS /\ handle_signature_share(m)
      BY <2>1, <2>3 DEF recv, CoordinatorInv
    <3>2. /\ Shared' = seen \cup {m.from}
          /\ cst' = Ready => Shared' = Signers
          /\ Committed' = Committed /\ cst' # WC
      BY <1>1, <2>1, <2>3, <3>1, ShareStored
    <3>3. Committed = Signers
      BY <3>1 DEF CoordinatorInv, WC, WS
    <3>4. QED
      BY <1>2, <2>1, <2>3, <3>2, <3>3 DEF CoordinatorInv
  <2>4. QED
    BY <1>2, <2>2, <2>3
<1>5. QED
  BY <1>3, <1>4 DEF HandleMsg, SkipRejoin, SkipUnreadable, SkipInvalid

LEMMA CoordinatorInvStep ==
  ASSUME TypeOK, ChannelInv, CoordinatorInv, [Next]_vars
  PROVE  CoordinatorInv'
<1>1. CASE OpenSession
  BY <1>1 DEF OpenSession, CoordinatorInv, Committed, Shared
<1>2. CASE Fetch
  BY <1>2 DEF Fetch, CFail, CoordinatorInv, Committed, Shared
<1>3. CASE HandleMsg
  BY <1>3, HandleKeepsCoordinatorInv
<1>4. CASE LeaveCollect
  BY <1>4 DEF LeaveCollect, LoopEnds, has_commitments, commitments_panics, CoordinatorInv,
              Committed, Shared, WC, WS, Ready
<1>5. ASSUME NEW q \in Signers, SendPackage(q)
      PROVE  CoordinatorInv'
  BY <1>5 DEF SendPackage, CFail, CoordinatorInv, Committed, Shared
<1>6. CASE LeaveAwait
  BY <1>6 DEF LeaveAwait, LoopEnds, has_signature_shares, CoordinatorInv, Committed, Shared
<1>7. CASE CloseSession \/ Cleanup
  BY <1>7 DEF CloseSession, Cleanup, CFail, CoordinatorInv, Committed, Shared
<1>8. CASE Aggregate
  BY <1>8 DEF Aggregate, CFail, signature_shares_panics, CoordinatorInv, Committed, Shared
<1>9. CASE CoordinatorCrash
  BY <1>9 DEF CoordinatorCrash, CoordinatorInv, Committed, Shared
<1>10. ASSUME UNCHANGED coordinator, UNCHANGED session \/ MayCloseAll
       PROVE  CoordinatorInv'
  BY <1>10 DEF coordinator, CoordinatorInv, Committed, Shared
<1>11. ASSUME NEW i \in Procs, Step(i) \/ Crash(i)
       PROVE  UNCHANGED session
  BY <1>11 DEF Step, SendCommitments, ReceivePackage, Confirm, SendShare, Crash
<1>12. CloseAll \/ FaultyStep => UNCHANGED session \/ MayCloseAll
  BY DEF CloseAll, FaultyStep, FaultySend, FaultyPost
<1>13. QED
  BY <1>1, <1>2, <1>3, <1>4, <1>5, <1>6, <1>7, <1>8, <1>9, <1>10, <1>11, <1>12, Frames
     DEF CoordinatorStep, vars

-----------------------------------------------------------------------------
(***************************************************************************)
(* The Noise contexts.                                                     *)
(***************************************************************************)
\* A message that is decrypted and refused is none of a correct signer: while
\* its commitments are missing its context reads first messages only, and then
\* only the share of the process they came from, and neither is refused.
LEMMA RefusedIsFaulty ==
  ASSUME TypeOK, ChannelInv, CoordinatorInv, ContextInv, HandleMsg, SkipInvalid(Head(batch))
  PROVE  Head(batch).from \notin Correct
<1> DEFINE m == Head(batch)
<1> SUFFICES ASSUME m.from \in Correct PROVE FALSE
  OBVIOUS
<1>1. /\ m.from \in Signers /\ m.chan \in Procs /\ m.chan # Readable /\ m.chan # Fresh
      /\ (m.kind = "Commit" /\ m.seq = 0) \/ (m.kind = "Share" /\ m.seq = 1)
  BY HeadKnown, SigningAssumption DEF MessageInv, Message
<1>2. m.from \notin seen /\ Decrypts(m) /\ ~Accepts(m)
  BY DEF SkipInvalid
<1> HIDE DEF m
<1>3. CASE cpc = "collect"
  <2>1. commitments[m.from] = NoNonce /\ cst = WC
    BY <1>1, <1>2, <1>3 DEF CoordinatorInv, Committed
  <2>2. noise[m.from].chan = Fresh
    BY <2>1 DEF ContextInv
  <2>3. m.kind = "Commit"
    BY <1>1, <1>2, <2>2 DEF Decrypts
  <2>4. QED
    BY <1>2, <2>1, <2>3 DEF Accepts
<1>4. CASE cpc = "await"
  <2>1. cst = WS /\ shares[m.from] = NoShare /\ m.from \in Committed
    BY <1>1, <1>2, <1>4 DEF CoordinatorInv, Shared, TypeOK, States
  <2>2. noise[m.from] = [chan |-> commitments[m.from], next |-> 1] /\ noise[m.from].chan # Fresh
    BY <2>1 DEF ContextInv, ContextInStep, Committed
  <2>3. m.kind = "Share"
    BY <1>1, <1>2, <2>2 DEF Decrypts
  <2>4. QED
    BY <1>2, <2>1, <2>3 DEF Accepts
<1>5. QED
  BY <1>3, <1>4 DEF HandleMsg

\* A message that is taken: the commitments of a process that tie the context to
\* it, or the share of that process.
LEMMA TakenInStep ==
  ASSUME TypeOK, ChannelInv, CoordinatorInv, ContextInv, HandleMsg, Take(Head(batch)),
         Head(batch).from \in Correct
  PROVE  LET q == Head(batch).from
         IN  /\ commitments'[q] # NoNonce
             /\ noise'[q] = [chan |-> commitments'[q],
                             next |-> IF shares'[q] = NoShare THEN 1 ELSE 2]
             /\ noise'[q].chan # Fresh
<1> DEFINE m == Head(batch)
           q == m.from
<1>1. /\ m \in Message /\ q \in Signers /\ m.chan \in Procs /\ m.nonce = m.chan
      /\ m.chan # Readable /\ m.chan # Fresh /\ m.nonce # NoNonce
      /\ (m.kind = "Commit" /\ m.seq = 0) \/ (m.kind = "Share" /\ m.seq = 1)
  BY HeadKnown, SigningAssumption DEF MessageInv, Message
<1>2. q \notin seen /\ Decrypts(m) /\ Accepts(m) /\ recv(m) /\ cpc \in {"collect", "await"}
  BY DEF Take, HandleMsg
<1>3. noise' = [noise EXCEPT ![q] = [chan |-> m.chan, next |-> m.seq + 1]]
  BY <1>1 DEF Take, AfterReading
<1>4. noise'[q] = [chan |-> m.chan, next |-> m.seq + 1]
  BY <1>1, <1>3 DEF TypeOK
<1>5. [nonce |-> m.nonce, pkg |-> m.pkg] # NoShare
  BY <1>1, SigningAssumption DEF Message, Share
<1> HIDE DEF m, q
<1>6. CASE cst = WC
  <2>1. m.kind = "Commit" /\ handle_commitments(m) /\ cpc = "collect"
    BY <1>2, <1>6 DEF Accepts, recv, CoordinatorInv, WC, WS
  <2>2. commitments'[q] = m.nonce /\ shares'[q] = NoShare
    BY <1>1, <2>1 DEF handle_commitments, CoordinatorInv, Shared, TypeOK, Package, q
  <2>3. QED
    BY <1>1, <1>4, <2>1, <2>2 DEF q, m
<1>7. CASE cst # WC
  <2>1. m.kind = "Share" /\ handle_signature_share(m)
    BY <1>2, <1>7 DEF Accepts, recv
  <2>2. cpc = "await" /\ q \in Committed /\ shares[q] = NoShare
    BY <1>1, <1>2, <1>7 DEF CoordinatorInv, Shared
  <2>3. noise[q] = [chan |-> commitments[q], next |-> 1] /\ noise[q].chan # Fresh
        /\ commitments[q] # NoNonce
    BY <2>2 DEF ContextInv, ContextInStep, Committed, q, m
  <2>4. m.chan = commitments[q]
    BY <1>1, <1>2, <2>3 DEF Decrypts, q
  <2>5. commitments'[q] = commitments[q] /\ shares'[q] # NoShare
    BY <1>1, <1>5, <2>1 DEF handle_signature_share, TypeOK, q
  <2>6. QED
    BY <1>1, <1>4, <2>1, <2>3, <2>4, <2>5 DEF q, m
<1>8. QED
  BY <1>6, <1>7

LEMMA ContextStep ==
  ASSUME TypeOK, ChannelInv, CoordinatorInv, ContextInv, [Next]_vars
  PROVE  ContextInv'
<1> SUFFICES ASSUME NEW q \in Correct
             PROVE  /\ commitments'[q] # NoNonce =>
                         noise'[q] = [chan |-> commitments'[q],
                                      next |-> IF shares'[q] = NoShare THEN 1 ELSE 2]
                    /\ noise'[q].chan = Fresh <=> commitments'[q] = NoNonce
  BY DEF ContextInv, ContextInStep
<1>1. CASE UNCHANGED <<commitments[q], shares[q], noise[q]>>
  BY <1>1 DEF ContextInv, ContextInStep
<1>2. CASE HandleMsg
  <2> DEFINE m == Head(batch)
  <2>1. m \in Message /\ m.from \in Signers
    BY <1>2, HeadKnown DEF Message
  <2>2. CASE SkipRejoin(m) \/ SkipUnreadable(m)
    BY <1>1, <2>2 DEF SkipRejoin, SkipUnreadable
  <2>3. CASE SkipInvalid(m)
    <3>1. m.from # q
      BY <1>2, <2>3, RefusedIsFaulty
    <3>2. UNCHANGED <<commitments, shares>> /\ noise'[q] = noise[q]
      BY <2>3, <3>1 DEF SkipInvalid, AfterReading, TypeOK, Correct
    <3>3. QED
      BY <1>1, <3>2
  <2>4. CASE Take(m) /\ m.from = q
    BY <1>2, <2>4, TakenInStep
  <2>5. CASE Take(m) /\ m.from # q
    <3>1. noise'[q] = noise[q]
      BY <2>5 DEF Take, AfterReading, TypeOK, Correct
    <3>2. commitments'[q] = commitments[q] /\ shares'[q] = shares[q]
      BY <2>5 DEF Take, recv, handle_commitments, handle_signature_share, TypeOK, Package, Correct
    <3>3. QED
      BY <1>1, <3>1, <3>2
  <2>6. QED
    BY <1>2, <2>2, <2>3, <2>4, <2>5 DEF HandleMsg
<1>3. UNCHANGED <<commitments, shares, noise>> \/ HandleMsg
  <2>1. CoordinatorStep \/ CoordinatorCrash => UNCHANGED <<commitments, shares, noise>> \/ HandleMsg
    BY DEF CoordinatorStep, OpenSession, Fetch, LeaveCollect, SendPackage, LeaveAwait,
           CloseSession, Aggregate, Cleanup, CoordinatorCrash
  <2>2. QED
    BY <2>1, Frames DEF vars, coordinator
<1>4. QED
  BY <1>1, <1>2, <1>3

-----------------------------------------------------------------------------
(***************************************************************************)
(* What the coordinator can end with.                                      *)
(***************************************************************************)
\* When all shares are there, those of correct signers are valid.
LEMMA CorrectSharesAreValid ==
  ASSUME TypeOK, PackageInv, ShareInv, CoordinatorInv, cst = Ready, NEW q \in Correct
  PROVE  ValidShare(q)
<1>1. q \in Signers /\ shares[q] # NoShare
  BY DEF CoordinatorInv, Shared, Correct
<1>2. PICK i \in Procs : /\ Owner[i] = q /\ pc[i] = "done"
                         /\ shares[q] = [nonce |-> i, pkg |-> got[i]]
  BY <1>1 DEF ShareInv
<1>3. got[i] = commitments /\ got[i][q] = i
  BY <1>2 DEF PackageInv
<1>4. QED
  BY <1>1, <1>2, <1>3 DEF ValidShare

LEMMA NotKilledStep ==
  ASSUME IInv, [Next]_vars
  PROVE  NotKilledByMessages'
<1> USE DEF NotKilledByMessages, IInv
<1>1. CASE UNCHANGED <<cwhy, shares, commitments>>
  <2>1. \A q : ValidShare(q)' <=> ValidShare(q)
    BY <1>1 DEF ValidShare
  <2>2. QED
    BY <1>1, <2>1
<1>2. CASE HandleMsg
  <2>1. UNCHANGED cwhy /\ cpc \in {"collect", "await"}
    BY <1>2 DEF HandleMsg, SkipRejoin, SkipUnreadable, SkipInvalid, Take
  <2>2. cwhy = "-"
    BY <2>1 DEF CoordinatorInv
  <2>3. QED
    BY <2>1, <2>2
<1>3. CASE Aggregate
  <2>1. cpc = "aggregating" /\ UNCHANGED <<shares, commitments>> /\ cst = Ready
    BY <1>3 DEF Aggregate, CoordinatorInv
  <2>2. \A q \in Correct : ValidShare(q)
    BY <2>1, CorrectSharesAreValid
  <2>3. Committed = Signers /\ cwhy = "-"
    BY <2>1 DEF CoordinatorInv, WC, Ready
  <2>4. \/ cwhy' = "-"
        \/ /\ cwhy' = "badShares"
           /\ \/ \E q \in Signers : ~ValidShare(q)
              \/ ~(Cardinality(Signers) >= MinSigners)
    BY <1>3, <2>3 DEF Aggregate, CFail
  <2>5. ~(Cardinality(Signers) >= MinSigners) => Cardinality(Signers) < MinSigners
    BY SigningAssumption, FS_CardinalityType
  <2>6. (\E q \in Signers : ~ValidShare(q)) => \E q \in Faulty : ~ValidShare(q)
    BY <2>2 DEF Correct
  <2>7. \A q : ValidShare(q)' <=> ValidShare(q)
    BY <2>1 DEF ValidShare
  <2>8. QED
    BY <2>4, <2>5, <2>6, <2>7
<1>4. CASE Fetch \/ CloseSession \/ \E q \in Signers : SendPackage(q)
  <2>1. UNCHANGED <<shares, commitments>> /\ cwhy' \in {cwhy, "session"}
    BY <1>4 DEF Fetch, CloseSession, SendPackage, CFail
  <2>2. cwhy' = cwhy \/ MayCloseAll
    BY <1>4 DEF Fetch, CloseSession, SendPackage, CoordinatorInv
  <2>3. CASE cwhy' = cwhy
    BY <1>1, <2>1, <2>3
  <2>4. CASE cwhy' = "session" /\ MayCloseAll
    BY <2>4
  <2>5. QED
    BY <2>1, <2>2, <2>3, <2>4
<1>5. CASE OpenSession \/ LeaveCollect \/ LeaveAwait \/ Cleanup \/ CoordinatorCrash
  BY <1>1, <1>5 DEF OpenSession, LeaveCollect, LeaveAwait, Cleanup, CoordinatorCrash
<1>6. CASE UNCHANGED coordinator
  BY <1>1, <1>6 DEF coordinator
<1>7. QED
  BY <1>2, <1>3, <1>4, <1>5, <1>6, Frames DEF CoordinatorStep, vars

\* The accessors are called in the states they are meant for.
LEMMA NoPanicStep ==
  ASSUME IInv, [Next]_vars
  PROVE  NoPanic'
<1> USE DEF NoPanic, IInv
<1>1. CASE LeaveCollect
  BY <1>1 DEF LeaveCollect, LoopEnds, has_commitments, commitments_panics, CoordinatorInv
<1>2. CASE Aggregate
  BY <1>2 DEF Aggregate, CFail, signature_shares_panics, CoordinatorInv
<1>3. CASE HandleMsg
  BY <1>3 DEF HandleMsg, SkipRejoin, SkipUnreadable, SkipInvalid, Take
<1>4. CASE OpenSession \/ Fetch \/ LeaveAwait \/ CloseSession \/ Cleanup \/ CoordinatorCrash
  BY <1>4 DEF OpenSession, Fetch, LeaveAwait, CloseSession, Cleanup, CoordinatorCrash, CFail
<1>5. ASSUME NEW q \in Signers, SendPackage(q)
      PROVE  NoPanic'
  BY <1>5 DEF SendPackage, CFail
<1>6. CASE UNCHANGED coordinator
  BY <1>6 DEF coordinator
<1>7. QED
  BY <1>1, <1>2, <1>3, <1>4, <1>5, <1>6, Frames DEF CoordinatorStep, vars

-----------------------------------------------------------------------------
(***************************************************************************)
(* Invariants of every behaviour.                                          *)
(***************************************************************************)
LEMMA NextIInv == IInv /\ [Next]_vars => IInv'
<1> SUFFICES ASSUME IInv, [Next]_vars PROVE IInv'
  OBVIOUS
<1>1. TypeOK'
  BY TypeStep DEF IInv
<1>2. ChannelInv' /\ PackageInv' /\ ShareInv' /\ CoordinatorInv'
  BY <1>1, ChannelStep, PackageStep, ShareStep, CoordinatorInvStep DEF IInv
<1>3. ContextInv'
  BY ContextStep DEF IInv
<1>4. NotKilledByMessages' /\ NoPanic'
  BY NotKilledStep, NoPanicStep
<1>5. QED
  BY <1>1, <1>2, <1>3, <1>4 DEF IInv

\* IInv holds in every reachable state of every session.
THEOREM InductiveInvariant == Spec => []IInv
<1>1. QED
  BY InitIInv, NextIInv, PTL DEF Spec

\* Types, the range of the Noise counters among them.
THEOREM TypeCorrect == Spec => []TypeOK
<1>1. IInv => TypeOK
  BY DEF IInv
<1>2. QED
  BY <1>1, InductiveInvariant, PTL

\* Whatever faulty signers send, the coordinator goes on: it fails only when
\* somebody closes the session, when a faulty signer's share is wrong, or when
\* fewer signers were chosen than the threshold asks for
\* (get_signing_commitments() and send_signing_package_and_get_signature_shares()).
THEOREM MessagesDoNotKill == Spec => []NotKilledByMessages
<1>1. IInv => NotKilledByMessages
  BY DEF IInv
<1>2. QED
  BY <1>1, InductiveInvariant, PTL

\* commitments() and signature_shares() never reach their panic!.
THEOREM NeverPanics == Spec => []NoPanic
<1>1. IInv => NoPanic
  BY DEF IInv
<1>2. QED
  BY <1>1, InductiveInvariant, PTL

\* Once the state of CoordinatorSessionState has moved on, every later message of
\* the same answer is skipped.
THEOREM CompleteIsFinal == Spec => []NothingAfterComplete
<1>1. IInv => NothingAfterComplete
  BY DEF IInv, CoordinatorInv, NothingAfterComplete, TypeOK, States, WC, WS, Ready
<1>2. QED
  BY <1>1, InductiveInvariant, PTL

\* The coordinator can always read the next message of the process whose
\* commitments it stored: no other process of that signer, started before or
\* after, moves the signer's entry of recv_noise_map away from it.
THEOREM ContextStaysInStep == Spec => []ContextInStep
<1>1. IInv => ContextInStep
  BY DEF IInv, ContextInv
<1>2. QED
  BY <1>1, InductiveInvariant, PTL

-----------------------------------------------------------------------------
(***************************************************************************)
(* The refinement of SigningPromise.                                       *)
(***************************************************************************)
Done == {i \in Procs : pc[i] = "done"}
Given == {<<Owner[i], got[i]>> : i \in Done}
Signature == IF cpc = "signed" THEN commitments ELSE NoPackage

\* The signature of a session is there for good, and only Aggregate makes it.
LEMMA SignatureStep ==
  ASSUME IInv, [Next]_vars, Signature' # Signature
  PROVE  Aggregate /\ UNCHANGED processes /\ cpc' = "signed"
<1>1. cpc = "signed" => UNCHANGED <<cpc, commitments>>
  <2>1. cpc = "signed" => ~(CoordinatorStep \/ CoordinatorCrash)
    BY DEF CoordinatorStep, OpenSession, Fetch, HandleMsg, LeaveCollect, SendPackage, LeaveAwait,
           CloseSession, Aggregate, Cleanup, CoordinatorCrash
  <2>2. QED
    BY <2>1, Frames DEF vars, coordinator
<1>2. cpc # "signed" /\ cpc' = "signed"
  BY <1>1 DEF Signature
<1>3. CoordinatorStep \/ CoordinatorCrash
  BY <1>2, Frames DEF vars, coordinator
<1>4. Aggregate
  BY <1>2, <1>3 DEF CoordinatorStep, OpenSession, Fetch, CFail, HandleMsg, SkipRejoin,
         SkipUnreadable, SkipInvalid, Take, LeaveCollect, SendPackage, LeaveAwait, CloseSession,
         Cleanup, CoordinatorCrash
<1>5. QED
  BY <1>2, <1>4 DEF Aggregate, processes

\* It takes the share of every correct signer.
LEMMA ReleaseStep ==
  ASSUME IInv, Aggregate, cpc' = "signed"
  PROVE  /\ Signature = NoPackage
         /\ Signature' \in Package
         /\ \A q \in Correct : <<q, Signature'>> \in Given
<1>1. cpc = "aggregating" /\ UNCHANGED commitments /\ cst = Ready
  BY DEF Aggregate, IInv, CoordinatorInv
<1>2. Signature' = commitments /\ commitments \in Package
  BY <1>1 DEF Signature, IInv, TypeOK
<1>3. ASSUME NEW q \in Correct
      PROVE  <<q, commitments>> \in Given
  <2>1. q \in Signers /\ shares[q] # NoShare
    BY <1>1 DEF IInv, CoordinatorInv, Shared, Correct
  <2>2. PICK i \in Procs : Owner[i] = q /\ pc[i] = "done"
    BY <2>1 DEF IInv, ShareInv
  <2>3. got[i] = commitments
    BY <2>2 DEF IInv, PackageInv
  <2>4. QED
    BY <2>2, <2>3 DEF Given, Done
<1>4. QED
  BY <1>1, <1>2, <1>3 DEF Signature

\* Of two processes of a signer at most one has its commitments in the package.
LEMMA ShareIsFirst ==
  ASSUME IInv, NEW i \in Procs, SendShare(i), pc'[i] = "done"
  PROVE  \A share \in Given : share[1] # Owner[i]
<1>1. got[i][Owner[i]] = i /\ got[i] = commitments /\ pc[i] = "signing"
  BY DEF SendShare, Signs, Become, IInv, TypeOK, PackageInv
<1>2. \A j \in Done : got[j] = commitments /\ got[j][Owner[j]] = j /\ j # i
  BY <1>1 DEF Done, IInv, PackageInv
<1>3. \A j \in Done : Owner[j] # Owner[i]
  BY <1>1, <1>2
<1>4. QED
  BY <1>3 DEF Given

\* Shares are given by SendShare only, one at a time.
LEMMA GivenStep ==
  ASSUME IInv, [Next]_vars, Given' # Given
  PROVE  /\ Signature' = Signature
         /\ \E i \in Procs : /\ SendShare(i) /\ pc'[i] = "done" /\ got[i] \in Package
                             /\ Given' = Given \cup {<<Owner[i], got[i]>>}
<1> USE DEF IInv, TypeOK
<1>1. ~UNCHANGED processes
  BY DEF Given, Done, processes
<1>2. UNCHANGED coordinator
  BY <1>1, Frames DEF vars
<1>3. PICK i \in Procs : Step(i) \/ Crash(i)
  BY <1>1, Frames DEF vars
<1>4. \A j \in Procs : j # i => pc'[j] = pc[j] /\ got'[j] = got[j]
  BY <1>3 DEF Step, SendCommitments, ReceivePackage, Confirm, SendShare, Crash, Become
<1>5. pc[i] # "done"
  BY <1>3 DEF Step, SendCommitments, ReceivePackage, Confirm, SendShare, Crash, EndedProcs
<1>6. CASE pc'[i] # "done"
  <2>1. Done' = Done /\ \A j \in Done : got'[j] = got[j]
    BY <1>4, <1>5, <1>6 DEF Done
  <2>2. Given' = Given
    BY <2>1 DEF Given
  <2>3. QED
    BY <2>2
<1>7. CASE pc'[i] = "done"
  <2>1. SendShare(i) /\ got' = got
    BY <1>3, <1>5, <1>7 DEF Step, SendCommitments, ReceivePackage, Confirm, SendShare, Crash, Become
  <2>2. Done' = Done \cup {i}
    BY <1>4, <1>7 DEF Done
  <2>3. Given' = Given \cup {<<Owner[i], got[i]>>}
    BY <2>1, <2>2 DEF Given
  <2>4. Signature' = Signature
    BY <1>2 DEF Signature, coordinator
  <2>5. QED
    BY <1>7, <2>1, <2>3, <2>4
<1>8. QED
  BY <1>6, <1>7

\* A group signature is made only for a package that every correct signer the
\* coordinator chose gave its share for, and none gives two: whatever faulty
\* signers send, however many processes run (coordinate_signing() and sign()).
THEOREM SigningKeepsPromise == Spec => KeepsPromise
<1>1. Init => Promise!PInit
  BY DEF Init, Promise!PInit
<1>2. IInv /\ [Next]_vars => [Promise!PNext]_(Promise!pvars)
  <2> SUFFICES ASSUME IInv, [Next]_vars
               PROVE  Promise!PNext \/ (Given' = Given /\ Signature' = Signature)
    BY DEF Promise!pvars, Given, Done, Signature
  <2>1. CASE Signature' # Signature
    <3>1. Aggregate /\ UNCHANGED processes /\ cpc' = "signed"
      BY <2>1, SignatureStep
    <3>2. Given' = Given
      BY <3>1 DEF Given, Done, processes
    <3>3. /\ Signature = NoPackage
          /\ Signature' \in Package
          /\ \A q \in Correct : <<q, Signature'>> \in Given
      BY <3>1, ReleaseStep
    <3>4. Promise!Release
      BY <3>2, <3>3 DEF Promise!Release, Given, Done, Signature
    <3>5. QED
      BY <3>4 DEF Promise!PNext
  <2>2. CASE Given' # Given
    <3>1. PICK i \in Procs : /\ SendShare(i) /\ pc'[i] = "done" /\ got[i] \in Package
                             /\ Given' = Given \cup {<<Owner[i], got[i]>>}
      BY <2>2, GivenStep
    <3>2. Signature' = Signature /\ Owner[i] \in Correct
      BY <2>2, GivenStep, SigningAssumption
    <3>3. \A share \in Given : share[1] # Owner[i]
      BY <3>1, ShareIsFirst
    <3>4. <<Owner[i], got[i]>> \in Given'
      BY <3>1
    <3>5. \E share \in Given' : /\ share[1] = Owner[i] /\ share[2] \in Package
                                /\ Given' = Given \cup {share}
      BY <3>1, <3>4
    <3>6. Promise!GiveShare(Owner[i])
      BY <3>2, <3>3, <3>5 DEF Promise!GiveShare, Given, Done, Signature
    <3>7. QED
      BY <3>2, <3>6 DEF Promise!PNext
  <2>3. QED
    BY <2>1, <2>2
<1>3. QED
  BY <1>1, <1>2, InductiveInvariant, PTL DEF Spec, KeepsPromise, Promise!PSpec
=============================================================================
