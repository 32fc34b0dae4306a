# mina-multi-sig in TLA+

A verification project for the Rust workspace in `src/`: `mina-frost-client`
(the command line client that runs FROST key generation and signing through a
frostd server), `frost-bluepallas` (the ciphersuite Mina needs) and `mina-tx`
(Mina's transactions). The core of the program are two distributed protocols,
run by processes that share nothing but a server's mailboxes, over encrypted
channels and without a single time-out.

## The system

| component | state | operations | talks to |
|---|---|---|---|
| Key generation: `dkg/keygen.rs`, `dkg/comms/http.rs`, `DKGSessionState` in `session.rs` | the state's variant with its packages and echoes; the position in `keygen()`; the messages of the last answer | create or join a session, send round 1 packages, wait, send echoes, wait, send round 2 packages, wait, close, finish; on an error, clean up | frostd, the other participants |
| Signing, coordinator: `coordinator/coordinate_signing.rs`, `coordinator/comms/http.rs`, `CoordinatorSessionState` | commitments, shares, senders to skip, one Noise context per signer, the last answer | open, collect commitments, send the package, await shares, close, aggregate; on an error, clean up | frostd, the signers |
| Signing, signer: `participant/sign.rs`, `participant/comms.rs`, `participant/comms/http.rs` | nonces, Noise context, the package | send commitments, wait for the package, ask the user, send the share | frostd, the coordinator |
| Encrypted channels: `cipher.rs` | per peer, a sending and a receiving Noise context with a counter | encrypt, decrypt | used by the three above |
| Server client: `client.rs`, `api.rs` | an access token | one call per endpoint | frostd (external) |
| Sessions command: `cli/session.rs` | none | list, close all | frostd, beside a running coordinator |
| Config file: `cli/config.rs`, `contact.rs`, `group.rs`, `init.rs`, `write_atomic.rs`, `dkg.rs`, `trusted_dealer.rs` | communication key, address book, groups, in one file | every command reads the file, changes it in memory and replaces it | other commands of the same user |
| `frost-bluepallas` | none (pure) | sign and aggregate with nonces, commitments and keys negated so that public values have an even y | `frost_core` |
| `mina-tx`, `cli/coordinator.rs`, `cli/graphql.rs` | documents: files with a transaction, or with one and a signature | load, commit to, sign, inject, save, build a request for a node | coordinator and signers; the next session; a Mina node |

What is hard here:

* Every receive loop fetches *all* messages of a mailbox, handles all of them,
  and only then looks at its state. Rounds of different participants overlap,
  so an answer can hold messages of two rounds.
* There are no time-outs, and only the creator of a session can close it.
* A faulty participant may say different things to different others; the echo
  broadcast is there for that.
* A user may start a signer twice in one session. The processes share a
  mailbox and a public key, but neither nonces nor Noise contexts.
* The config file, which holds the only copy of a key share, is read, changed
  and replaced by every command; nothing locks it.
* A transaction that several groups sign goes from session to session as a
  file. A session signs what it loads, and writes its signature into places of
  the command that other sessions' signatures stand beside.
* Whether nonces and commitments are negated, each signer and the coordinator
  decide by themselves.
* One transaction has four forms: the document, the value in memory, what is
  hashed, and the request for a node, which reads it by rules of its own. Between
  two sessions of a chain it goes through all but the last of them, and each form
  leaves something out.
* Messages that cannot be decrypted or parsed are skipped by a coordinator and
  are fatal in key generation.

What makes each part correct:

* key generation: correct participants that leave the echo broadcast hold the
  same packages, whatever a faulty one sends; nobody holds a key before all
  correct ones have verified; nobody is accused for what it did not do; no
  accessor of the session state panics; who is correct and in step finishes;
* signing: a signature comes out only for a package each chosen signer gave a
  share for; nobody gives two; no message ends or panics the coordinator; a
  Noise context stays with the process whose commitments were taken; sessions
  complete and processes end;
* config file: address books name every key once and never the owner's; what is
  lost was removed, or was overwritten by a command that was overtaken between its
  read and its write, and never by the long key generation;
* ciphersuite: what is aggregated verifies as Mina wants it, or the signers of
  wrong shares are named and nobody else;
* transactions: a signature fits the place it is in, whatever is signed after
  it; when all groups had their session the chain accepts the transaction; the
  commitment determines the tree of calls and every member of every body; what
  is serialized reads back; what a node reads is what was signed.

`PROJECT.json` lists the hazards with the line where each bites and the
property that would catch it. Some have none, because there the code really loses
or waits for something: a signer that declines, or a participant in key generation
that fails, without telling the others (of the latter the doc of `keygen()` says that
it returns an error if "The DKG protocol is aborted by any participant",
`keygen.rs:41`; the loops of the others poll for ever); a config file, or the output of two
coordinators, that the last writer takes over; a document cut short by a killed
process; commands that everybody panics on; the one signature of a legacy
transaction. For these the properties only bound what else may happen.

## Modules

* `Frostd` - the server as the client sees it: a session is created once and
  stays closed when closed; mailboxes are FIFO; *receive* takes everything.
* `Dkg` - key generation. One action per HTTP call, per received message and
  per computation between two calls. `st`, `r1`, `bc`, `r2` are the variant
  and the maps of `DKGSessionState`; `pc` is the position in `keygen()`;
  `inbox` is the answer being handled. Participants in `Faulty` send any
  message of `Repertoire`, under their own name; those in `Crashable` may be
  killed.
* `DkgAgreement` - what key generation promises: correct participants accept
  one and the same collection of round 1 packages, and nobody finishes before
  all of them have.
* `DkgProofs` - theorems about `Dkg`.
* `Signing` - a signing session. The coordinator's variables are those of
  `CoordinatorSessionState` and of its two loops; `noise` is the receiving
  context per signer. `Procs` are the processes signers start, `Owner` tells
  whose they are.
* `SigningPromise` - what a session promises: a group signature comes out only
  for a package every correct chosen signer gave a share for, and nobody gives
  two shares.
* `SigningProofs` - theorems about `Signing`.
* `ConfigStore` - the config files and the commands that change them. A job is
  a terminal; a command is two steps, one that reads the file and computes the
  new content (`base` and `mem` are the two contents), and one for the rename
  in `write_file()`; `dkg` reads twice, `trusted-dealer` goes over its files
  twice. A command can be killed between any two steps. Keys and groups are
  new when they are made (`made`, `formed`). `overtaken` is history: the commands
  whose file another one wrote between their last read of it and their write.
* `ConfigProofs` - theorems about `ConfigStore`.
* `ZkAppCommand` - zkApp commands: the forest of calls, the commitment that is
  signed, and where a signature is injected. A hash is the term it is taken of,
  so the model tells what is hashed and what is not (call depths are not).
* `TxChain` - one transaction on its way through sessions of several groups.
  `file` are the documents, `co` is what a coordinator has loaded and has had
  signed, `request` is what `graphql-build` makes. A session is one step here
  (`Signing` has the inside); it may also fail. A signature is its key and the
  message. `by` is history: the groups whose sessions led to a file.
* `TxChainProofs` - theorems about `TxChain`.
* `LegacyTransactions` - payments and delegations: `deserialize` and `serialize`
  as the functions between document and transaction, `to_roinput` as what is
  hashed, `SendPaymentInput` and `SendDelegationInput` as the request. Memos are
  sequences of bytes with their two header bytes. `NodeMemo` and `Submitted` are
  what a Mina node makes of a request (external).
* `Packing` - `packing.rs`: every member of an account update as bits and field
  elements, what stands for a member that is not given, and `pack_to_fields`.
* `ZkAppDocuments` - zkApp commands as JSON: decimal numbers, Base58 with version
  byte and checksum for memos, token ids and signatures, ranges with two ends,
  members that may be missing.
* `TxFormats` - puts `TxChain` and the formats together: what a session signs
  and saves is in these forms. It also has the types of what is packed and written
  (`BodyType`, `FeePayerType`).
* `TxFormatsProofs` - theorems about `TxFormats`.
* `EvenY` - the two hooks of the ciphersuite in the middle of `frost_core`'s
  `sign` and `aggregate`. An element of the group stands for its logarithm,
  `Even` says which elements have an even y; hashes are arbitrary functions.
* `PallasMessageCodec` - the bytes of the message that is hashed: how it is
  serialized, read back, and what becomes of bytes that cannot be read. `EvenY`
  hashes what is read, while Mina hashes the message itself.
* `HashInputs` - what the suite's hashes and the domains of networks are told
  apart by: `HashElement` are the bytes of `hasher.rs`, `Absorbed` is what the
  hasher keeps of them, `into_domain_string` and `ZkAppBodyPrefix` make domains.
  It extends `EvenY`.
* `EvenYProofs`, `HashInputsProofs` - theorems about `EvenY` and `HashInputs`.
* `Induction` - lemmas that the proofs about recursive definitions rest on:
  induction over numbers and over the subsets of a finite set, where
  `FlattenSeq` puts things, and the rules of sums and products over finite sets.
* `MCDkg`, `MCSigning`, `MCConfig`, `MCTx`, `MCTxFormats`, `MCEvenY` - the
  instances TLC checks.

`Dkg` and `Signing` are instances of the same server (`Frostd`). The others stand
beside them: the `keygen` position of `ConfigStore` is where a process is while
it runs `Dkg`; `coordinate_signing` of `TxChain` is a run of `Signing`; that in
`Signing` shares of correct signers fit their package is what `EvenY` shows.

Definitions keep the names of the Rust functions where they translate one
(`recv`, `handle_round1_package_broadcast`, `has_commitments`...). A definition
with a suffix after an underscore that stands before another one (for instance
`AllEchoed_SomeMaps`) is that definition with a plausible bug; no action uses
it. `PROJECT.json` pairs each with the property it breaks.

What is abstracted: an identifier is the public key it is derived from; the
content of a package is a version, so that packages can be compared and a share
can fit a commitment or not; a process stands for the nonces it draws; the
message to be signed is fixed in a session; the share of a group is told apart by
its holder; what no code branches on in a transaction is one value.
Frostd and Noise authenticate senders: a faulty participant speaks only for
itself.

What the forms of a transaction do not keep, and the properties therefore leave
out (`Kept`, `MCEvents`, `Roomy` and the other sets of inputs name it): an update's
call depth and the data of a verification key are not hashed (the forest and the
key's hash are); a fee payer without `valid_until` is hashed as one with the last
slot there is; zeros that a token symbol ends in are not told from nothing, and
neither is a zero that follows an event of odd length; a custom network of more than 11 bytes, or one called
"Coda", "Mainnet" or "Testnet", may share a domain with another network. A
checksum of Base58 is the term of the bytes it is taken of, as other hashes are;
field elements, keys and enumerations stand for their own text, and the numbers of timing are JSON numbers. A request
for a zkApp has the command unchanged, so only requests for legacy transactions
are read by the node's rules.

A URI is packed bit by bit into elements of 254 bits, and the number that the last of
them makes does not say how many zeros are in front: a URI of 33 bytes that ends in
"/@" is hashed like the one of 32 bytes that ends in "o" instead (31 bytes in front
being the same; `MCUris` has both). That is so although the comment of the
parser says that "The packing/hashing logic handles arbitrary-length URIs fine"
(`zkapp_tx.rs:551-552`). No run violates it, because what is true of it is proved:
`BodiesAreHashedApart` says of any URIs that they are hashed alike exactly where
these elements are the same.

## Runs

| run | instance | question |
|---|---|---|
| `Dkg3` | 3 correct, one may be killed, fair | is anybody accused wrongly, or finished before all verified, or in a panicking accessor? no. Does it finish? yes, unless rounds overlap in an answer, one is killed, or the session is closed on somebody |
| `DkgFaulty` | 2 correct; a faulty creator sends two packages, shares, true echoes, an unreadable message, 3 to each, and closes when it likes | can the correct ones accept different packages? no. Is `IInv` an invariant, and every step one of `DkgAgreement`? yes |
| `DkgOvershoot` | 2 correct, fair | does the round 1 loop end when all packages are there? **no** |
| `DkgEarly` | 3 correct | can a process fail with everybody correct? **yes** |
| `SignRejoin` | 2 signers with 3 and 1 processes, one may be killed, close-all and a coordinator that is killed, fair | does the Noise context stay with the process it should? yes. Does it complete, and do leftovers end? yes, unless a process takes the package it cannot sign, or a user steps in |
| `SignPromise` | 2 correct signers (2 and 1 processes), a faulty one with 2 messages to the coordinator or to signers, threshold 2 of 3 | is `IInv` an invariant, and every step one of `SigningPromise`? yes. Can messages make the coordinator fail or panic? no |
| `SignDuplicate` | 2 signers, one with 2 processes, fair | does a session complete although a signer rejoins? **no** |
| `ConfigOverlap` | 2 terminals, a user's file and two a dealer writes, 3 keys, 2 names, 2 groups | do overlapping commands leave address books sound? yes. Is anything lost otherwise than by the command for it or by one overtaken between its read and its write? no |
| `ConfigRemove` | 1 terminal | can the groups always be listed? **no** |
| `TxChain` | 2 coordinators, 2 groups, 2 files, 3 sessions, 12 transactions, with bodies, memos and documents of every kind | does every signature fit its place for ever, and does a complete chain verify? yes. Do commitments determine the call depths, and the packed elements every bit? yes. Is a message that of one transaction only, depths included? yes. Is what one session saves what the next one reads, and what a node reads what was signed? yes |
| `TxNetwork` | the transactions of `TxChain`, 2 sessions | does `--network` choose the network? **no**, for the output of an earlier session |
| `EvenY` | a group of order 7, 2 of 3, 3 messages, one signer sends any share | does a signature verify as Mina has it? yes. Is the message of the package what everybody hashes? yes. Is only a faulty signer ever blamed? yes. Do the suite's hashes tell inputs, purposes and networks apart? yes |

The runs in bold find what the code does otherwise than its comments, help
texts or tests say; `PROJECT.json` quotes them under "findings". Those of the
protocols need a process that is slower than another one by one polling interval
or more: between two polls every loop sleeps two seconds, which makes the windows
small on one machine and ordinary across networks. `ConfigRemove` and `TxNetwork`
need nothing but the commands.

Bounds. Two participants are the case without echoes, three the smallest with
them: every pair of correct ones then has a third to be told about. A faulty
participant is limited by the number of messages it sends to each
(`MaxFaultySends`), and in `DkgFaulty` it sends the next one only when the
recipient has handled the last (`Paced`), so every order of handling stays
possible and only the answers that hold two of its messages are left out; these
are in `SignPromise` for signing, and for correct senders in `Dkg3`. Three
processes of one signer are enough for one to be accepted, one to be skipped and
one to fetch the package. For the config file, two commands are the smallest
overlap, and as each command reads, then writes, a third only repeats what a
second does; the `Commands` are the command lines that are tried, among them an
import of the own key, of one key under two names, and a dealer that is given one
file twice. In `TxChain` three sessions are one for each of the two groups and one
that repeats, overtakes or overwrites; the commands have an update of every kind
(signed whole, signed partially, proved, both, too deep), another fee payer and
memos at the limit of 32 bytes, one byte over it, ending in zeros and with a
letter of two bytes, delegations with an amount, payments without one, a network
name that is too long; forests are compared up to 4 updates
(`MaxUpdates`), the longest command of the instance; files and coordinators are
symmetric. In `EvenY` every key and 3 slopes are tried, and `Nonces` has 4 pairs,
with which either parity comes up for every set of signers; the messages have an
input longer than a byte can say, a network name of the longest length and one
too long, for which nothing is signed; a larger order only
makes the chance collisions rarer that the property leaves out. Hashed segments
are up to three of up to three bytes, and one that looks like a length; names of
networks are short ones of the letters that suffixes and padding begin with, and
those at the limit of 11 bytes. `HashInputs`, `Packing` and `ZkAppDocuments` have
no state: they are checked over sets of inputs (`Segmentations`, `Names`,
`Bodies`, `FeePayerBodies`, `Memos`, `Uris`, `Sigs`). There every member of a body
takes every kind of value (not given, the value that stands for "not given",
another, the largest), one member at a time, in a body that is empty otherwise and
in one in which everything is given, at the widths of the code: 255 bits of a
field, 34 bytes of a memo, 32 of a URI that fills an element, and one byte more. The
properties about them are asked of states in which something has been signed.
`CHECK_DEADLOCK FALSE` is in every configuration because protocols end, and because
all keys and groups of a small instance get used up.

Fairness. `FairSpec` says that a process that can take a step takes one: each is
an async task polling in a loop. Signers' users are assumed to answer the
prompt, not how. Nothing is assumed of crashes, faulty messages or close-all.

## Proofs

For every number of participants, any faulty ones and any contents, from the
named assumptions on the constants only: `DkgAssumption`, `SigningAssumption`,
`ConfigAssumption`; `ChainAssumption`, `NoRestAssumption` and `MemoAssumption`
(the chain); `GroupAssumption`, `FieldAssumption`, `EvenAssumption` and
`PolynomialAssumption` (the ciphersuite); `InputAssumption` and
`DomainAssumption` (what is hashed); `FormatAssumption` (the types of what is
packed and written). TLC evaluates each of them on the instances.
Those of the ciphersuite say what its docs and its curve give: scalars are a prime
field, hashes are scalars, of `E` and `-E` one has an even y, and a polynomial has at
most `min_signers` coefficients.

* `DkgProofs`: `IInv` is inductive (`InductiveInvariant`); from it
  `TypeCorrect`, `EchoBroadcastAgrees`, `DoneIsLast`, `NeverPanics`, and the
  refinement `DkgImplementsAgreement`. Agreement alone is not inductive: it
  needs that an echo on its way repeats what its correct sender holds
  (`ChannelInv`), that this is final once the first state is left
  (`Round1Inv`), and that whoever left the broadcast has an echo of everybody
  about everybody (`EchoInv`). Two correct participants that left it have then
  each compared the other's packages with its own.
  `NobodyIsAccused`: a second echo of one package is the mistake an honest process
  could be accused of, because echoes come from everybody about everybody. Each is
  at one place only: still to be sent, in the mailbox, in the answer being handled,
  or accepted (`OnceInv`).
* `SigningProofs`: `IInv` is inductive; from it `TypeCorrect`,
  `MessagesDoNotKill`, `NeverPanics`, `CompleteIsFinal`, `ContextStaysInStep`, and
  the refinement `SigningKeepsPromise`. The argument: the commitments never change
  once they are complete (`CommitmentsFixed`), so there is one package; a share in
  the coordinator's hands is that of a process that has ended with it
  (`ChannelInv`, `ShareInv`); of two processes of a signer only the one whose
  nonces are in the package can have signed it (`ShareIsFirst`). The coordinator
  binds a Noise context to a process in the step in which it stores its
  commitments and in no other (`ContextInv`), so that what the signer's other
  processes send later cannot take it out of step.
* `ConfigProofs`: `IInv` is inductive for any files, terminals and command lines;
  from it `TypeCorrect`, `AddressBookStaysSound` and `NothingElseIsLost`. A write
  replaces the whole file, so what is about to be written has to be sound as well
  (`WriteInv`); and a key that `init` makes is new to every file only because
  contents hold no keys but existing ones (`KnownInv`). What is about to be written
  has everything that was read but for what the command is there to take away
  (`ChangeInv`), and what was read is what the file still holds unless the command was
  overtaken (`FreshInv`), for which key generation has to read again; that a dealer takes nothing away, although it writes a file twice
  that it is given twice, needs that a group is in a file only if it was brought
  there (`FormedInv`), and by one job at most (`DealInv`).
* `TxChainProofs`: `IInv` is inductive for any keys, transactions, networks,
  files and coordinators; from it `SignaturesAlwaysFit` and `CompleteChainVerifies`.
  The argument: injection changes no body, so the message is that of the transaction
  somebody wrote, all along; what a session injects is therefore still the
  signature of the message after any number of other sessions (`Sound`), and
  every group in `by` has filled all its places. `OutputsReadBack`,
  `NodeReadsTheSame` and `MessagesTellTransactions` are about the forms: of any
  output of a session the next one reads the same transaction, a node rebuilds what
  was signed (the memo as bytes, the amount that is there or not), and outputs with
  one message hold one transaction. The last needs that the forest of calls
  determines the depths (`CommitmentsKeepDepths`, for any number of updates): the
  descent of `call_forest` returns a tree for every list of updates that has no
  gaps, at each update it either goes one level down or returns to where the
  caller continues, and two lists with the same trees are alike update by update
  (`InFront` to `ForestTells`).
* `EvenYProofs`: `IInv` is inductive, without any assumption on the group; from
  it `NobodyBlamedWrongly`. The argument: both hooks make the same test of the same
  package and binding factors, and a signer's commitments in the package are
  those of its nonces, so the negated ones are too (`HooksAgree`).
  `MessageAlwaysReadsBack`: for any network, mode and input `deserialize` returns
  what `serialize` was given (`CodecReadsBack`), so that what `challenge()` hashes
  is the message of the package. `SignatureOrCulprits`: a package of `min_signers`
  or more yields a signature that Mina accepts, or somebody is named. It is proved
  in three parts: the Lagrange coefficients of any signers make of a polynomial's
  values its value at 0 (`Interpolation`; by induction on the coefficients, from the
  coefficients of the signers adding up to one, by induction on the signers); so
  shares that each pass `verify_share` add up to what `verify` compares with
  (`SharesMakeSignature`); and the R of it is even, because negating every
  commitment negates their sum (`NegatedPackage`, `SumIsEven`). `ResultInv` says
  that the result is that of the shares in the package, which nobody changes
  afterwards; with it and `IInv` the types are inductive (`TypeCorrect`).
* `HashInputsProofs`: `HashInputsStayApart` and `DomainsStayApart`, for any finite
  set of inputs and any names. What the hasher keeps of bytes differs from them in
  zeros at the end only; the number of segments and their lengths say where each
  ends, so that the zeros of the last are known. A custom network of up to 11 bytes keeps
  its suffix whole, and a suffix does not end in the padding.
* `TxFormatsProofs`: `NothingPackedIsLost`, for any bodies of the types in
  `types.rs` and any number of states, events, actions and packed elements. Every
  type packs to one layout whatever the value, the empty input that stands for a
  missing `Option` included (`Alike`, `DefaultType`, `BodyAlike`). So the bits of
  the elements, what `pack_to_fields` has done after i pieces and where its reader
  looks next are known from sizes alone (`Pieces`, `NextPiece`); and an element of
  fewer than 255 bits keeps all of its bits (`NumberKeepsBits`).
  `DocumentsAreReadAsWritten`, for any bodies, fee payers, memos and signatures: a decimal
  loses zeros in front only, and the width puts them back (`DecimalReadsBack`); the 32
  bytes of a number are 256 of its digits, from which it is made again
  (`LittleEndianReadsBack`, with `FlattenPlaces` and `NumberOfDigits`); a text with one
  wrong byte is refused, because its checksum is that of other bytes
  (`WrongByteRefused`); that SHA-256 has no such collisions is assumed. Members that are mapped and mapped
  back leave the others alone (`EpochReadsBack`, `PreconditionsReadBack`,
  `BodyReadsBack`).
  `BodiesAreHashedApart`, for any finite sets of bodies, fee payers and memos: two are
  hashed alike exactly where `Kept` makes the same of them. In one direction each piece
  determines its member (the flag of an `Option`, the bits of a byte, `AuthTells`),
  and inputs of one layout, put together at the same places, are equal part by part
  (`PackedTells` to `BodyTells`); a list of events is known from its hash link by
  link, from the end, with its length (`ListTells`); a URI is known from its elements
  because a one is behind its bits, so that the last element is not the zero that the
  sponge pads with (`ElementsEnd`, `UriTells`). In the other direction what `Kept`
  drops is in no input (`BodyTold`), so `Kept` drops nothing that is signed. The hash
  is the term of what goes in: that Poseidon has no collisions is assumed, not shown.

Recursion. The descent of a forest, `FlattenSeq`, a polynomial's value, sums and
products are recursive functions. An induction theorem that takes the claim as an
operator cannot be instantiated, so `Induction` states it for sets: a set of
numbers that holds 0 and with n also n + 1 holds them all, because of what it
lacks there would be a least one (finite sets of numbers are well-founded under
inclusion). Each proof defines the set of numbers, or of sets of signers, for which
its claim is true.

Only model-checked: the liveness properties (`FinishesInStep`,
`CompletesUnlessIntercepted`, `LeftoversEnd`), which TLAPS cannot prove under fairness.

## Not modelled

* What a participant ends with that is killed and started again in the same key
  generation. Nothing of a run is stored, so the code has no recovery; to the
  others such a participant is one of `Faulty` (two packages, echoes of either,
  messages that do not decrypt), which is proved for any number of them. With two
  participants there is no echo that would tell the two packages apart.
* Several open sessions of one user (joining a key generation without a session
  id is refused then), and the lookup of groups and servers for a signer: both end
  the process before anything is sent.
* Two error paths that end a process like others that are modelled: an echo about
  somebody who is not in the session (`session.rs:425`), and a package or message the
  coordinator cannot read back from its own configuration
  (`coordinate_signing.rs:67-68`).
* Login, access tokens and TLS of the client; argument parsing and printing; the
  text of GraphQL mutations and the post to a node.
* Poseidon, curves, `frost_core`, SHA-256: external, and taken for what they
  promise. The encodings of scalars and elements are theirs.
