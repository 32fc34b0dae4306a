----------------------------- MODULE ConfigProofs -----------------------------
(***************************************************************************)
(* Theorems about ConfigStore, for any files, keys, terminals and command  *)
(* lines.                                                                  *)
(***************************************************************************)
EXTENDS ConfigStore, TLAPS

\* The arguments of each command.
LEMMA Shapes ==
  ASSUME NEW m \in Commands
  PROVE  /\ m.op \in {"init", "import", "remove-contact", "remove-group", "dkg"} => m.file \in Files
         /\ m.op = "import" => m.name \in Names /\ m.key \in PubKeys
         /\ m.op = "remove-group" => m.group \in Groups
         /\ m.op = "dkg" => m.group \in Groups /\ m.members \in SUBSET PubKeys
         /\ m.op = "trusted-dealer" =>
              /\ m.paths \in Seq(Files) /\ m.names \in Seq(Names) /\ m.group \in Groups
              /\ Len(m.names) = Len(m.paths) /\ Len(m.paths) >= 2
BY ConfigAssumption
   DEF InitCommand, ImportCommand, RemoveContactCommand, RemoveGroupCommand, DkgCommand

LEMMA DefaultIsContent == Default \in Content
BY DEF Default, Content

\* Changes of a content are contents.
LEMMA ChangesAreContents ==
  ASSUME NEW c \in Content
  PROVE  /\ \A k \in PubKeys : [c EXCEPT !.key = k] \in Content
         /\ \A n \in Names, k \in PubKeys \cup {NoKey} : [c EXCEPT !.contact[n] = k] \in Content
         /\ \A g \in Groups : [c EXCEPT !.group[g] = NoGroup] \in Content
         /\ \A g \in Groups, part \in PubKeys \cup Nat, members \in SUBSET PubKeys :
              WithGroup(c, g, part, members) \in Content
BY DEF Content, WithGroup, Share

LEMMA ContactsAreContents ==
  ASSUME NEW c \in Content, NEW names, NEW ks \in Seq(PubKeys)
  PROVE  WithContacts(c, names, ks) \in Content
<1> DEFINE value(n) == IF \E i \in DOMAIN ks : Last(names, ks, n, i)
                         THEN ks[CHOOSE i \in DOMAIN ks : Last(names, ks, n, i)]
                         ELSE c.contact[n]
<1>1. ASSUME NEW n \in Names PROVE value(n) \in PubKeys \cup {NoKey}
  <2>1. CASE \E i \in DOMAIN ks : Last(names, ks, n, i)
    <3>1. (CHOOSE i \in DOMAIN ks : Last(names, ks, n, i)) \in DOMAIN ks
      BY <2>1
    <3> QED BY <2>1, <3>1
  <2>2. CASE ~ \E i \in DOMAIN ks : Last(names, ks, n, i)
    BY <2>2 DEF Content
  <2> QED BY <2>1, <2>2
<1>2. WithContacts(c, names, ks) = [c EXCEPT !.contact = [n \in Names |-> value(n)]]
  BY DEF WithContacts
<1>3. [n \in Names |-> value(n)] \in [Names -> PubKeys \cup {NoKey}]
  BY <1>1
<1> HIDE DEF value
<1> QED BY <1>2, <1>3 DEF Content

-----------------------------------------------------------------------------
(***************************************************************************)
(* Soundness of an address book, and what a content knows, under changes.  *)
(***************************************************************************)
\* Taking a name or a group out, or a group in, leaves it sound.
LEMMA SoundChanges ==
  ASSUME NEW c \in Content, Sound(c)
  PROVE  /\ \A n \in Names : Sound([c EXCEPT !.contact[n] = NoKey])
         /\ \A g \in Groups : Sound([c EXCEPT !.group[g] = NoGroup])
         /\ \A g, part, members : Sound(WithGroup(c, g, part, members))
BY DEF Sound, Content, WithGroup

\* A key that is nowhere in the content may become the user's.
LEMMA SoundInit ==
  ASSUME NEW c \in Content, Sound(c), NEW k \in PubKeys,
         \A n \in Names : c.contact[n] # k
  PROVE  Sound([c EXCEPT !.key = k])
BY DEF Sound, Content

\* What import() tests.
LEMMA SoundImport ==
  ASSUME NEW c \in Content, Sound(c), NEW n \in Names, NEW k \in PubKeys,
         c.key # k, NamesOf(c, k) = {}
  PROVE  Sound([c EXCEPT !.contact[n] = k])
BY DEF Sound, Content, NamesOf

LEMMA KnownChanges ==
  ASSUME NEW c \in Content, Known(c, made)
  PROVE  /\ \A k \in made : Known([c EXCEPT !.key = k], made)
         /\ \A n \in Names, k \in made \cup {NoKey} : Known([c EXCEPT !.contact[n] = k], made)
         /\ \A g \in Groups : Known([c EXCEPT !.group[g] = NoGroup], made)
         /\ \A g, part, members : Known(WithGroup(c, g, part, members), made)
BY DEF Known, Content, WithGroup

LEMMA KnownContacts ==
  ASSUME NEW c \in Content, Known(c, made), NEW names, NEW ks \in Seq(PubKeys),
         \A i \in DOMAIN ks : ks[i] \in made
  PROVE  Known(WithContacts(c, names, ks), made)
<1> DEFINE d == WithContacts(c, names, ks)
<1>1. d.key = c.key
  BY DEF WithContacts, Content
<1>2. ASSUME NEW n \in Names PROVE d.contact[n] \in made \cup {NoKey}
  <2>1. d.contact[n] = IF \E i \in DOMAIN ks : Last(names, ks, n, i)
                         THEN ks[CHOOSE i \in DOMAIN ks : Last(names, ks, n, i)]
                         ELSE c.contact[n]
    BY DEF WithContacts, Content
  <2>2. CASE \E i \in DOMAIN ks : Last(names, ks, n, i)
    <3>1. (CHOOSE i \in DOMAIN ks : Last(names, ks, n, i)) \in DOMAIN ks
      BY <2>2
    <3> QED BY <2>1, <2>2, <3>1
  <2>3. CASE ~ \E i \in DOMAIN ks : Last(names, ks, n, i)
    BY <2>1, <2>3 DEF Known
  <2> QED BY <2>2, <2>3
<1> HIDE DEF d
<1> QED BY <1>1, <1>2 DEF Known, d

\* More keys may come to exist.
LEMMA KnownStays ==
  ASSUME NEW c \in Content, Known(c, made), made \subseteq made'
  PROVE  Known(c, made')
BY DEF Known

-----------------------------------------------------------------------------
(***************************************************************************)
(* The inductive invariant.                                                *)
(***************************************************************************)
LEMMA DealtFile ==
  ASSUME NEW m \in Commands, m.op = "trusted-dealer", NEW i \in DOMAIN m.paths
  PROVE  m.paths[i] \in DealtTo
BY DEF DealtTo, DealCommands

\* A command that has read a content that is sound and changed it into one that
\* is sound.
LEMMA ChangeStep ==
  ASSUME SoundInv, NEW j \in Jobs, NEW m \in Commands, NEW c \in Content, NEW d \in Content,
         Change(j, m, c, d), UNCHANGED <<at, keys>>,
         made \subseteq made', made' \in SUBSET PubKeys, formed' \in SUBSET (Files \X Groups),
         Known(c, made'), Known(d, made'),
         m.op = "trusted-dealer" => at[j] \in DOMAIN m.paths,
         m.op # "trusted-dealer" /\ m.file \notin DealtTo => Sound(d)
  PROVE  SoundInv'
<1> USE DEF Change
<1>1. TypeOK'
  BY DEF SoundInv, TypeOK, Pcs
<1>2. CommandInv'
  BY DEF SoundInv, CommandInv, TypeOK
<1>3. KnownInv'
  <2>1. \A f \in Files : Known(file[f], made)'
    BY KnownStays DEF SoundInv, KnownInv, TypeOK
  <2>2. ASSUME NEW l \in Jobs
        PROVE  /\ Known(base[l], made)' /\ Known(mem[l], made)'
               /\ \A i \in DOMAIN keys'[l] : keys'[l][i] \in made'
    <3>1. Known(base[l], made)' /\ Known(mem[l], made)'
      <4>1. CASE l = j
        BY <4>1 DEF SoundInv, TypeOK, Known
      <4>2. CASE l # j
        BY <4>2 DEF SoundInv, KnownInv, TypeOK, Known
      <4> QED BY <4>1, <4>2
    <3> QED BY <3>1 DEF SoundInv, KnownInv
  <2> QED BY <2>1, <2>2 DEF KnownInv
<1>4. WriteInv'
  <2> SUFFICES ASSUME NEW l \in Jobs, pc'[l] = "write", Target(l)' \notin DealtTo
               PROVE  Sound(mem'[l])
    BY DEF WriteInv
  <2>1. CASE l = j
    <3>1. cmd'[j] = m /\ mem'[j] = d /\ at'[j] = at[j]
      BY DEF SoundInv, TypeOK
    <3>2. m.op # "trusted-dealer"
      BY <2>1, <3>1, DealtFile DEF Target
    <3> QED BY <2>1, <3>1, <3>2 DEF Target
  <2>2. CASE l # j
    BY <2>2 DEF SoundInv, WriteInv, TypeOK, Target
  <2> QED BY <2>1, <2>2
<1>5. AddressBookSound'
  BY DEF SoundInv, AddressBookSound
<1> QED BY <1>1, <1>2, <1>3, <1>4, <1>5 DEF SoundInv

LEMMA KnownDefault == Known(Default, made)
BY DEF Known, Default

\* A command that ends, with the file it leaves.
LEMMA IdleStep ==
  ASSUME SoundInv, NEW j \in Jobs, Idle(j), UNCHANGED <<made, formed>>,
         file' \in [Files -> Content], overtaken' \in SUBSET Jobs,
         \A f \in Files : Known(file'[f], made),
         \A f \in Files \ DealtTo : Sound(file'[f])
  PROVE  SoundInv'
<1> USE DEF Idle
<1>1. TypeOK'
  BY DefaultIsContent DEF SoundInv, TypeOK, Pcs
<1>2. CommandInv'
  BY DEF SoundInv, CommandInv, TypeOK
<1>3. KnownInv'
  <2>1. ASSUME NEW l \in Jobs
        PROVE  /\ Known(base[l], made)' /\ Known(mem[l], made)'
               /\ \A i \in DOMAIN keys'[l] : keys'[l][i] \in made'
    <3>1. CASE l = j
      BY <3>1, KnownDefault DEF SoundInv, TypeOK, Known
    <3>2. CASE l # j
      BY <3>2 DEF SoundInv, KnownInv, TypeOK, Known
    <3> QED BY <3>1, <3>2
  <2>2. \A f \in Files : Known(file[f], made)'
    BY DEF Known
  <2> QED BY <2>1, <2>2 DEF KnownInv
<1>4. WriteInv'
  BY DEF SoundInv, WriteInv, TypeOK, Target
<1>5. AddressBookSound'
  BY DEF AddressBookSound
<1> QED BY <1>1, <1>2, <1>3, <1>4, <1>5 DEF SoundInv

\* What the invariant says of the file a command reads.
LEMMA ReadFacts ==
  ASSUME SoundInv, NEW f \in Files
  PROVE  /\ file[f] \in Content
         /\ Known(file[f], made)
         /\ f \notin DealtTo => Sound(file[f])
         /\ made \in SUBSET PubKeys /\ formed \in SUBSET (Files \X Groups)
BY DEF SoundInv, TypeOK, KnownInv, AddressBookSound

LEMMA BeginStep ==
  ASSUME SoundInv, NEW j \in Jobs, NEW m \in Commands, Begin(j, m)
  PROVE  SoundInv'
<1> DEFINE c == file[m.file]
<1>1. CASE init(j, m)
  <2>1. m.file \in Files /\ m.op # "trusted-dealer"
    BY <1>1, Shapes DEF init
  <2>2. CASE c.key # NoKey /\ Change(j, m, c, c) /\ UNCHANGED made
    <3>1. Known(c, made')
      BY <1>1, <2>1, <2>2, ReadFacts DEF init, Known, Change
    <3> QED BY <1>1, <2>1, <2>2, <3>1, ReadFacts, ChangeStep DEF init
  <2>3. ASSUME c.key = NoKey, NEW k \in PubKeys \ made,
               Change(j, m, c, [c EXCEPT !.key = k]), made' = made \cup {k}
        PROVE  SoundInv'
    <3> DEFINE d == [c EXCEPT !.key = k]
    <3>1. d \in Content
      BY <2>1, ReadFacts, ChangesAreContents
    <3>2. Known(c, made') /\ Known(d, made')
      <4>1. Known(c, made')
        BY <2>1, <2>3, ReadFacts DEF Known, Change
      <4>2. d.key = k /\ d.contact = c.contact
        BY <2>1, ReadFacts DEF Content
      <4> HIDE DEF d
      <4> QED BY <4>1, <4>2, <2>1, <2>3, ReadFacts DEF Known
    <3>3. m.file \notin DealtTo => Sound(d)
      <4>1. \A n \in Names : c.contact[n] # k
        BY <2>1, <2>3, ReadFacts, ConfigAssumption DEF Known
      <4> QED BY <4>1, <2>1, <2>3, ReadFacts, SoundInit
    <3> HIDE DEF c, d
    <3>4. made' \in SUBSET PubKeys /\ made \subseteq made'
      BY <2>1, <2>3, ReadFacts
    <3>5. UNCHANGED <<formed, at, keys>> /\ formed' \in SUBSET (Files \X Groups)
      BY <1>1, <2>1, ReadFacts DEF init
    <3>6. c \in Content
      BY <2>1, ReadFacts DEF c
    <3>7. Change(j, m, c, d)
      BY <2>3 DEF c, d
    <3> QED BY <2>1, <3>1, <3>2, <3>3, <3>4, <3>5, <3>6, <3>7, ChangeStep
  <2> QED BY <1>1, <2>2, <2>3 DEF init
<1>2. CASE import(j, m)
  <2> DEFINE d == [c EXCEPT !.contact[m.name] = m.key]
  <2>1. m.file \in Files /\ m.op # "trusted-dealer" /\ m.name \in Names /\ m.key \in PubKeys
    BY <1>2, Shapes DEF import
  <2>2. c \in Content /\ d \in Content
    BY <2>1, ReadFacts, ChangesAreContents
  <2>3. Known(c, made) /\ Known(d, made)
    BY <1>2, <2>1, ReadFacts, KnownChanges DEF import
  <2>4. m.file \notin DealtTo => Sound(d)
    BY <1>2, <2>1, <2>2, ReadFacts, SoundImport DEF import
  <2>5. Change(j, m, c, d) /\ UNCHANGED <<made, formed, at, keys>>
    BY <1>2 DEF import
  <2>6. made' \in SUBSET PubKeys /\ formed' \in SUBSET (Files \X Groups)
    BY <2>1, <2>5, ReadFacts
  <2>7. Known(c, made') /\ Known(d, made')
    BY <2>3, <2>5 DEF Known, Change
  <2> HIDE DEF c, d
  <2> QED BY <2>1, <2>2, <2>4, <2>5, <2>6, <2>7, ChangeStep
<1>3. CASE remove_contact(j, m)
  <2>1. m.file \in Files /\ m.op # "trusted-dealer"
    BY <1>3, Shapes DEF remove_contact
  <2>2. PICK n \in NamesOf(c, m.key) : Change(j, m, c, [c EXCEPT !.contact[n] = NoKey])
    BY <1>3 DEF remove_contact
  <2> DEFINE d == [c EXCEPT !.contact[n] = NoKey]
  <2>3. n \in Names
    BY DEF NamesOf
  <2>4. c \in Content /\ d \in Content
    BY <2>1, <2>3, ReadFacts, ChangesAreContents
  <2>5. Known(c, made) /\ Known(d, made)
    BY <2>1, <2>3, ReadFacts, KnownChanges
  <2>6. m.file \notin DealtTo => Sound(d)
    BY <2>1, <2>3, <2>4, ReadFacts, SoundChanges
  <2>7. UNCHANGED <<made, formed, at, keys>>
    BY <1>3 DEF remove_contact
  <2>8. made' \in SUBSET PubKeys /\ formed' \in SUBSET (Files \X Groups)
    BY <2>1, <2>7, ReadFacts
  <2>9. Known(c, made') /\ Known(d, made')
    BY <2>2, <2>5, <2>7 DEF Known, Change
  <2> HIDE DEF c
  <2> QED BY <2>1, <2>2, <2>4, <2>6, <2>7, <2>8, <2>9, ChangeStep
<1>4. CASE remove_group(j, m)
  <2> DEFINE d == [c EXCEPT !.group[m.group] = NoGroup]
  <2>1. m.file \in Files /\ m.op # "trusted-dealer" /\ m.group \in Groups
    BY <1>4, Shapes DEF remove_group
  <2>2. c \in Content /\ d \in Content
    BY <2>1, ReadFacts, ChangesAreContents
  <2>3. Known(c, made) /\ Known(d, made)
    BY <2>1, ReadFacts, KnownChanges
  <2>4. m.file \notin DealtTo => Sound(d)
    BY <2>1, <2>2, ReadFacts, SoundChanges
  <2>5. Change(j, m, c, d) /\ UNCHANGED <<made, formed, at, keys>>
    BY <1>4 DEF remove_group
  <2>6. made' \in SUBSET PubKeys /\ formed' \in SUBSET (Files \X Groups)
    BY <2>1, <2>5, ReadFacts
  <2>7. Known(c, made') /\ Known(d, made')
    BY <2>3, <2>5 DEF Known, Change
  <2> HIDE DEF c, d
  <2> QED BY <2>1, <2>2, <2>4, <2>5, <2>6, <2>7, ChangeStep
<1>5. CASE setup_dkg_config(j, m)
  <2>1. m.file \in Files /\ m.op = "dkg"
    BY <1>5, Shapes DEF setup_dkg_config
  <2>2. c \in Content /\ Known(c, made) /\ c.key \in PubKeys
    BY <1>5, <2>1, Shapes, ReadFacts DEF setup_dkg_config
  <2>3. /\ base' = [base EXCEPT ![j] = c]
        /\ pc' = [pc EXCEPT ![j] = "keygen"]
        /\ cmd' = [cmd EXCEPT ![j] = m]
        /\ UNCHANGED <<file, made, formed, mem, at, keys, overtaken>>
    BY <1>5 DEF setup_dkg_config
  <2> HIDE DEF c
  <2>4. TypeOK'
    BY <2>2, <2>3 DEF SoundInv, TypeOK, Pcs
  <2>5. CommandInv'
    BY <2>1, <2>2, <2>3 DEF SoundInv, TypeOK, CommandInv
  <2>6. KnownInv'
    <3>1. \A f \in Files : Known(file[f], made)'
      BY <2>3 DEF SoundInv, KnownInv, Known
    <3>2. \A l \in Jobs : Known(mem[l], made)' /\ \A i \in DOMAIN keys'[l] : keys'[l][i] \in made'
      BY <2>3 DEF SoundInv, KnownInv, Known
    <3>3. ASSUME NEW l \in Jobs PROVE Known(base[l], made)'
      <4>1. CASE l = j
        BY <4>1, <2>2, <2>3 DEF SoundInv, TypeOK, Known
      <4>2. CASE l # j
        BY <4>2, <2>3 DEF SoundInv, TypeOK, KnownInv, Known
      <4> QED BY <4>1, <4>2
    <3> QED BY <3>1, <3>2, <3>3 DEF KnownInv
  <2>7. WriteInv'
    BY <2>3 DEF SoundInv, TypeOK, WriteInv, Target
  <2>8. AddressBookSound'
    BY <2>3 DEF SoundInv, AddressBookSound
  <2> QED BY <2>4, <2>5, <2>6, <2>7, <2>8 DEF SoundInv
<1>6. CASE trusted_dealer(j, m)
  <2>1. /\ m.op = "trusted-dealer" /\ m.paths \in Seq(Files) /\ m.group \in Groups
        /\ Len(m.paths) >= 2
    BY <1>6, Shapes DEF trusted_dealer
  <2>2. /\ formed' = formed \cup {<<m.paths[i], m.group>> : i \in DOMAIN m.paths}
        /\ pc' = [pc EXCEPT ![j] = "extract"]
        /\ cmd' = [cmd EXCEPT ![j] = m]
        /\ at' = [at EXCEPT ![j] = 1]
        /\ UNCHANGED <<file, made, base, mem, keys, overtaken>>
    BY <1>6 DEF trusted_dealer
  <2>3. 1 \in DOMAIN m.paths
    BY <2>1
  <2>4. formed' \in SUBSET (Files \X Groups)
    <3>1. \A i \in DOMAIN m.paths : m.paths[i] \in Files
      BY <2>1
    <3> QED BY <3>1, <2>1, <2>2 DEF SoundInv, TypeOK
  <2>5. TypeOK'
    BY <2>2, <2>4 DEF SoundInv, TypeOK, Pcs
  <2>6. CommandInv'
    BY <2>1, <2>2, <2>3 DEF SoundInv, TypeOK, CommandInv
  <2>7. KnownInv'
    BY <2>2 DEF SoundInv, KnownInv, Known
  <2>8. WriteInv'
    BY <2>2 DEF SoundInv, TypeOK, WriteInv, Target
  <2>9. AddressBookSound'
    BY <2>2 DEF SoundInv, AddressBookSound
  <2> QED BY <2>5, <2>6, <2>7, <2>8, <2>9 DEF SoundInv
<1> QED BY <1>1, <1>2, <1>3, <1>4, <1>5, <1>6 DEF Begin

LEMMA GroupStep ==
  ASSUME SoundInv, NEW j \in Jobs, update_config_with_group(j)
  PROVE  SoundInv'
<1> DEFINE m == cmd[j]
           c == file[m.file]
           d == WithGroup(c, m.group, base[j].key, m.members)
<1>1. m \in Commands /\ m.op = "dkg"
  BY DEF update_config_with_group, SoundInv, CommandInv
<1>2. m.file \in Files /\ m.group \in Groups /\ m.members \in SUBSET PubKeys
  BY <1>1, Shapes
<1>3. Change(j, m, c, d) /\ UNCHANGED <<made, at, keys>>
  BY DEF update_config_with_group
<1>4. formed' \in SUBSET (Files \X Groups) /\ made' \in SUBSET PubKeys
  BY <1>2, <1>3 DEF update_config_with_group, SoundInv, TypeOK
<1>5. base[j].key \in PubKeys
  BY DEF update_config_with_group, SoundInv, CommandInv
<1>6. c \in Content /\ d \in Content
  BY <1>2, <1>5, ReadFacts, ChangesAreContents
<1>7. Known(c, made') /\ Known(d, made')
  BY <1>2, <1>3, ReadFacts, KnownChanges
<1>8. m.file \notin DealtTo => Sound(d)
  BY <1>2, <1>6, ReadFacts, SoundChanges
<1> HIDE DEF c, d, m
<1> QED BY <1>1, <1>3, <1>4, <1>6, <1>7, <1>8, ChangeStep

LEMMA DealStep ==
  ASSUME SoundInv, NEW j \in Jobs, update_config_files(j)
  PROVE  SoundInv'
<1> DEFINE m == cmd[j]
           c == file[Target(j)]
           members == {keys[j][i] : i \in DOMAIN keys[j]}
           w == WithGroup(c, m.group, at[j], members)
           d == WithContacts(w, m.names, keys[j])
<1>1. m \in Commands /\ m.op = "trusted-dealer" /\ at[j] \in DOMAIN m.paths
  BY DEF update_config_files, SoundInv, CommandInv
<1>2. m.paths \in Seq(Files) /\ m.group \in Groups
  BY <1>1, Shapes
<1>3. Target(j) \in Files
  BY <1>1, <1>2 DEF Target
<1>4. Change(j, m, c, d) /\ UNCHANGED <<made, formed, at, keys>>
  BY DEF update_config_files
<1>5. keys[j] \in Seq(PubKeys) /\ members \in SUBSET PubKeys /\ at[j] \in Nat
  BY DEF SoundInv, TypeOK
<1>6. c \in Content /\ Known(c, made)
  BY <1>3, ReadFacts
<1>7. w \in Content /\ Known(w, made)
  BY <1>2, <1>5, <1>6, ChangesAreContents, KnownChanges
<1>8. \A i \in DOMAIN keys[j] : keys[j][i] \in made
  BY DEF SoundInv, KnownInv
<1>9. d \in Content /\ Known(d, made)
  <2> HIDE DEF w
  <2> QED BY <1>5, <1>7, <1>8, ContactsAreContents, KnownContacts
<1>10. made' \in SUBSET PubKeys /\ formed' \in SUBSET (Files \X Groups) /\ made' = made
  BY <1>3, <1>4, ReadFacts
<1> HIDE DEF c, d, m
<1> QED BY <1>1, <1>4, <1>6, <1>9, <1>10, ChangeStep

LEMMA ExtractStep ==
  ASSUME SoundInv, NEW j \in Jobs, extract_participant_info(j)
  PROVE  SoundInv'
<1> DEFINE k    == file[Target(j)].key
           last == at[j] = Len(cmd[j].paths)
<1>1. /\ cmd[j] \in Commands /\ cmd[j].op = "trusted-dealer"
      /\ at[j] \in DOMAIN cmd[j].paths
  BY DEF extract_participant_info, SoundInv, CommandInv
<1>2. cmd[j].paths \in Seq(Files) /\ Len(cmd[j].paths) >= 2
  BY <1>1, Shapes
<1>3. Target(j) \in Files
  BY <1>1, <1>2 DEF Target
<1>4. CASE k = NoKey /\ Idle(j)
  BY <1>4, IdleStep DEF extract_participant_info, SoundInv, TypeOK, KnownInv, AddressBookSound
<1>5. CASE /\ k # NoKey
           /\ keys' = [keys EXCEPT ![j] = Append(@, k)]
           /\ pc' = [pc EXCEPT ![j] = IF last THEN "deal" ELSE "extract"]
           /\ at' = [at EXCEPT ![j] = IF last THEN 1 ELSE @ + 1]
           /\ UNCHANGED <<cmd, base, mem>>
  <2>1. UNCHANGED <<file, made, formed, overtaken>>
    BY DEF extract_participant_info
  <2>2. k \in PubKeys /\ k \in made
    BY <1>3, <1>5, ReadFacts DEF Content, Known
  <2>3. at'[j] \in DOMAIN cmd[j].paths /\ at'[j] \in Nat
    BY <1>1, <1>2, <1>5 DEF SoundInv, TypeOK
  <2>4. keys'[j] = Append(keys[j], k) /\ keys[j] \in Seq(PubKeys)
    BY <1>5 DEF SoundInv, TypeOK
  <2> HIDE DEF k
  <2>5. TypeOK'
    <3>1. keys' \in [Jobs -> Seq(PubKeys)]
      BY <2>2, <2>4, <1>5 DEF SoundInv, TypeOK
    <3> QED BY <1>5, <2>1, <2>3, <3>1 DEF SoundInv, TypeOK, Pcs
  <2>6. CommandInv'
    BY <1>1, <1>5, <2>3 DEF SoundInv, TypeOK, CommandInv
  <2>7. KnownInv'
    <3>1. \A i \in DOMAIN keys'[j] : keys'[j][i] \in made
      BY <2>2, <2>4 DEF SoundInv, KnownInv
    <3>2. \A l \in Jobs : l # j => keys'[l] = keys[l]
      BY <1>5 DEF SoundInv, TypeOK
    <3> QED BY <1>5, <2>1, <3>1, <3>2 DEF SoundInv, KnownInv, Known
  <2>8. WriteInv'
    BY <1>5 DEF SoundInv, TypeOK, WriteInv, Target
  <2>9. AddressBookSound'
    BY <2>1 DEF SoundInv, AddressBookSound
  <2> QED BY <2>5, <2>6, <2>7, <2>8, <2>9 DEF SoundInv
<1> QED BY <1>4, <1>5 DEF extract_participant_info

LEMMA WriteStep ==
  ASSUME SoundInv, NEW j \in Jobs, write(j)
  PROVE  SoundInv'
<1>1. cmd[j] \in Commands /\ Target(j) \in Files
  <2>1. cmd[j] \in Commands
    BY DEF write, SoundInv, CommandInv
  <2>2. CASE cmd[j].op = "trusted-dealer"
    <3>1. cmd[j].paths \in Seq(Files) /\ at[j] \in DOMAIN cmd[j].paths
      BY <2>1, <2>2, Shapes DEF write, SoundInv, CommandInv
    <3> QED BY <2>1, <2>2, <3>1 DEF Target
  <2>3. CASE cmd[j].op # "trusted-dealer"
    <3>1. cmd[j].file \in Files
      BY <2>1, <2>3, ConfigAssumption
         DEF InitCommand, ImportCommand, RemoveContactCommand, RemoveGroupCommand, DkgCommand
    <3> QED BY <2>1, <2>3, <3>1 DEF Target
  <2> QED BY <2>2, <2>3
<1>2. /\ file' = [file EXCEPT ![Target(j)] = mem[j]]
      /\ UNCHANGED <<made, formed>> /\ overtaken' \in SUBSET Jobs
  BY DEF write, Overtakes, SoundInv, TypeOK
<1>3. file' \in [Files -> Content] /\ \A f \in Files : Known(file'[f], made)
  BY <1>2 DEF SoundInv, TypeOK, KnownInv
<1>4. \A f \in Files \ DealtTo : Sound(file'[f])
  BY <1>1, <1>2 DEF SoundInv, TypeOK, AddressBookSound, WriteInv, write
<1>5. CASE Idle(j)
  BY <1>2, <1>3, <1>4, <1>5, IdleStep
<1>6. CASE /\ cmd[j].op = "trusted-dealer" /\ at[j] < Len(cmd[j].paths)
           /\ pc' = [pc EXCEPT ![j] = "deal"]
           /\ at' = [at EXCEPT ![j] = @ + 1]
           /\ UNCHANGED <<cmd, base, mem, keys>>
  <2>1. cmd[j].paths \in Seq(Files) /\ at[j] \in DOMAIN cmd[j].paths
    BY <1>1, <1>6, Shapes DEF write, SoundInv, CommandInv
  <2>2. at[j] + 1 \in DOMAIN cmd[j].paths /\ at[j] + 1 \in Nat
    BY <1>6, <2>1
  <2>3. TypeOK'
    BY <1>2, <1>3, <1>6, <2>2 DEF SoundInv, TypeOK, Pcs
  <2>4. CommandInv'
    BY <1>1, <1>6, <2>2 DEF SoundInv, TypeOK, CommandInv
  <2>5. KnownInv'
    BY <1>2, <1>3, <1>6 DEF SoundInv, KnownInv, Known
  <2>6. WriteInv'
    BY <1>6 DEF SoundInv, TypeOK, WriteInv, Target
  <2>7. AddressBookSound'
    BY <1>4 DEF AddressBookSound
  <2> QED BY <2>3, <2>4, <2>5, <2>6, <2>7 DEF SoundInv
<1> QED BY <1>5, <1>6 DEF write

LEMMA InitSoundInv == Init => SoundInv
<1> SUFFICES ASSUME Init PROVE SoundInv
  OBVIOUS
<1>1. TypeOK
  BY DefaultIsContent, ConfigAssumption DEF Init, TypeOK, Pcs
<1>2. CommandInv /\ WriteInv
  BY DEF Init, CommandInv, WriteInv
<1>3. KnownInv
  BY KnownDefault DEF Init, KnownInv
<1>4. AddressBookSound
  <2>1. Sound(Default)
    BY DEF Sound, Default
  <2> QED BY <2>1 DEF Init, AddressBookSound
<1> QED BY <1>1, <1>2, <1>3, <1>4 DEF SoundInv

LEMMA SoundInvStep == SoundInv /\ [Next]_vars => SoundInv'
<1> SUFFICES ASSUME SoundInv, [Next]_vars PROVE SoundInv'
  OBVIOUS
<1>1. ASSUME NEW j \in Jobs, NEW m \in Commands, Begin(j, m) PROVE SoundInv'
  BY <1>1, BeginStep
<1>2. ASSUME NEW j \in Jobs, update_config_with_group(j) PROVE SoundInv'
  BY <1>2, GroupStep
<1>3. ASSUME NEW j \in Jobs, extract_participant_info(j) PROVE SoundInv'
  BY <1>3, ExtractStep
<1>4. ASSUME NEW j \in Jobs, update_config_files(j) PROVE SoundInv'
  BY <1>4, DealStep
<1>5. ASSUME NEW j \in Jobs, write(j) PROVE SoundInv'
  BY <1>5, WriteStep
<1>6. ASSUME NEW j \in Jobs, End(j) PROVE SoundInv'
  <2>1. overtaken' \in SUBSET Jobs
    BY <1>6 DEF End, SoundInv, TypeOK
  <2> QED BY <1>6, <2>1, IdleStep DEF End, SoundInv, TypeOK, KnownInv, AddressBookSound
<1>7. CASE UNCHANGED vars
  BY <1>7 DEF vars, SoundInv, TypeOK, CommandInv, KnownInv, Known, WriteInv, AddressBookSound, Target
<1> QED BY <1>1, <1>2, <1>3, <1>4, <1>5, <1>6, <1>7 DEF Next

-----------------------------------------------------------------------------
(***************************************************************************)
(* What a change keeps.                                                    *)
(***************************************************************************)
LEMMA KeepsPlain ==
  ASSUME NEW c \in Content, NEW m, NEW f
  PROVE  /\ Keeps(m, f, c, c)
         /\ \A k : c.key = NoKey => Keeps(m, f, c, [c EXCEPT !.key = k])
         /\ \A k : \A n \in Names :
              c.contact[n] = NoKey => Keeps(m, f, c, [c EXCEPT !.contact[n] = k])
         /\ \A n \in Names :
              m.op = "remove-contact" /\ n \in NamesOf(c, m.key)
                => Keeps(m, f, c, [c EXCEPT !.contact[n] = NoKey])
         /\ m.op = "remove-group" /\ m.group \in Groups
              => Keeps(m, f, c, [c EXCEPT !.group[m.group] = NoGroup])
BY DEF Keeps, Content, MayDrop, MayRename, NamesOf

LEMMA KeepsGroup ==
  ASSUME NEW c \in Content, NEW m, NEW f, NEW g \in Groups, NEW part, NEW members,
         c.group[g] # NoGroup => MayDrop(m, f, g)
  PROVE  Keeps(m, f, c, WithGroup(c, g, part, members))
BY DEF Keeps, Content, WithGroup

\* The dealer names its participants, and takes no other name.
LEMMA KeepsContacts ==
  ASSUME NEW c \in Content, NEW w \in Content, NEW m, NEW f, NEW ks \in Seq(PubKeys),
         m.op = "trusted-dealer", m.names \in Seq(Names), Len(ks) = Len(m.names),
         Keeps(m, f, c, w), w.contact = c.contact
  PROVE  Keeps(m, f, c, WithContacts(w, m.names, ks))
<1> DEFINE d == WithContacts(w, m.names, ks)
<1>1. d.key = w.key /\ d.group = w.group
  BY DEF WithContacts, Content
<1>2. ASSUME NEW n \in Names, \A i \in DOMAIN m.names : m.names[i] # n
      PROVE  d.contact[n] = c.contact[n]
  <2>1. DOMAIN ks = DOMAIN m.names
    OBVIOUS
  <2>2. ~ \E i \in DOMAIN ks : Last(m.names, ks, n, i)
    BY <1>2, <2>1 DEF Last
  <2> QED BY <2>2 DEF WithContacts, Content
<1> HIDE DEF d
<1>3. \A n \in Names : d.contact[n] = c.contact[n] \/ MayRename(m, c, n)
  BY <1>2 DEF MayRename
<1> QED BY <1>1, <1>3 DEF Keeps, d

\* Which groups a changed content may hold that were not in it.
LEMMA GroupsAfter ==
  ASSUME NEW c \in Content
  PROVE  /\ \A k : [c EXCEPT !.key = k].group = c.group
         /\ \A k : \A n \in Names : [c EXCEPT !.contact[n] = k].group = c.group
         /\ \A g, h \in Groups :
              [c EXCEPT !.group[g] = NoGroup].group[h] # NoGroup => c.group[h] # NoGroup
         /\ \A part, members : \A g, h \in Groups :
              g # h => WithGroup(c, g, part, members).group[h] = c.group[h]
BY DEF Content, WithGroup

-----------------------------------------------------------------------------
(***************************************************************************)
(* What a step can be, for the invariants about losses.                    *)
(***************************************************************************)
\* Job j has read the file it works on and changed the content to d: it keeps
\* what it may not take away, and groups that come in have just been formed, or
\* are dealt by this job.
Changes(j, f, d) ==
  /\ f \in Files /\ f = Target(j)'
  /\ \E m \in Commands : Change(j, m, file[f], d)
  /\ UNCHANGED <<at, keys>>
  /\ d \in Content /\ Keeps(cmd'[j], f, file[f], d)
  /\ formed \subseteq formed'
  /\ \A g \in Groups : d.group[g] # NoGroup =>
       \/ file[f].group[g] # NoGroup
       \/ <<f, g>> \in formed' \ formed
       \/ Deals(j, g) /\ <<f, g>> \in formed
  /\ \A g \in Groups : Deals(j, g)' => Deals(j, g) /\ pc[j] = "deal" /\ cmd'[j] = cmd[j]

\* The other jobs do not notice.
Alone(j) ==
  \A l \in Jobs \ {j} : /\ pc'[l] = pc[l] /\ cmd'[l] = cmd[l] /\ base'[l] = base[l]
                        /\ mem'[l] = mem[l] /\ at'[l] = at[l] /\ keys'[l] = keys[l]

LEMMA ChangeAlone ==
  ASSUME SoundInv, NEW j \in Jobs
  PROVE  /\ \A m, c, d : Change(j, m, c, d) /\ UNCHANGED <<at, keys>> => Alone(j)
         /\ Idle(j) => Alone(j)
BY DEF SoundInv, TypeOK, Change, Idle, Alone

LEMMA BeginAlone ==
  ASSUME SoundInv, NEW j \in Jobs, NEW m \in Commands, Begin(j, m)
  PROVE  Alone(j)
<1>1. CASE init(j, m) \/ import(j, m) \/ remove_contact(j, m) \/ remove_group(j, m)
  BY <1>1, ChangeAlone DEF init, import, remove_contact, remove_group
<1>2. CASE setup_dkg_config(j, m)
  BY <1>2 DEF setup_dkg_config, Alone, SoundInv, TypeOK
<1>3. CASE trusted_dealer(j, m)
  BY <1>3 DEF trusted_dealer, Alone, SoundInv, TypeOK
<1> QED BY <1>1, <1>2, <1>3 DEF Begin

LEMMA WorkAlone ==
  ASSUME SoundInv, NEW j \in Jobs,
         update_config_with_group(j) \/ extract_participant_info(j)
           \/ update_config_files(j) \/ write(j) \/ End(j)
  PROVE  Alone(j)
<1>1. CASE update_config_with_group(j) \/ update_config_files(j)
  BY <1>1, ChangeAlone DEF update_config_with_group, update_config_files
<1>2. CASE extract_participant_info(j) \/ write(j) \/ End(j)
  <2>1. CASE Idle(j)
    BY <2>1, ChangeAlone
  <2>2. CASE ~Idle(j)
    BY <1>2, <2>2 DEF extract_participant_info, write, End, Alone, SoundInv, TypeOK
  <2> QED BY <2>1, <2>2
<1> QED BY <1>1, <1>2

\* What another job holds does not change.
LEMMA OthersHold ==
  ASSUME NEW j \in Jobs, Alone(j), NEW l \in Jobs, l # j
  PROVE  /\ Target(l)' = Target(l)
         /\ \A g : Deals(l, g)' <=> Deals(l, g)
BY DEF Alone, Target, Deals

\* A change of one file that brings no group in.
LEMMA OneFile ==
  ASSUME SoundInv, NEW j \in Jobs, NEW m \in Commands, NEW d \in Content,
         m.op \in {"init", "import", "remove-contact", "remove-group"}, m.file \in Files,
         Change(j, m, file[m.file], d), UNCHANGED <<formed, at, keys>>,
         Keeps(m, m.file, file[m.file], d),
         \A g \in Groups : d.group[g] # NoGroup => file[m.file].group[g] # NoGroup
  PROVE  Changes(j, m.file, d)
<1>1. cmd'[j] = m /\ Target(j)' = m.file
  BY DEF Change, SoundInv, TypeOK, Target
<1>2. \A g : ~Deals(j, g)'
  BY <1>1 DEF Deals
<1> QED BY <1>1, <1>2 DEF Changes

\* The commands that change one file at once.
LEMMA BeginChanges ==
  ASSUME IInv, NEW j \in Jobs, NEW m \in Commands,
         init(j, m) \/ import(j, m) \/ remove_contact(j, m) \/ remove_group(j, m)
  PROVE  \E f \in Files, d \in Content : Changes(j, f, d)
<1> DEFINE f == m.file
           c == file[f]
           Fits(d) == /\ Change(j, m, c, d) /\ Keeps(m, f, c, d)
                      /\ \A g \in Groups : d.group[g] # NoGroup => c.group[g] # NoGroup
<1>1. f \in Files /\ m.op \in {"init", "import", "remove-contact", "remove-group"}
  BY Shapes DEF init, import, remove_contact, remove_group
<1>2. c \in Content
  BY <1>1, ReadFacts DEF IInv
<1>3. UNCHANGED <<formed, at, keys>>
  BY DEF init, import, remove_contact, remove_group
<1>4. CASE init(j, m)
  <2>1. PICK d \in Content : Fits(d)
    <3>1. CASE c.key # NoKey /\ Change(j, m, c, c)
      BY <1>2, <3>1, KeepsPlain
    <3>2. ASSUME c.key = NoKey, NEW k \in PubKeys, Change(j, m, c, [c EXCEPT !.key = k])
          PROVE  \E d \in Content : Fits(d)
      <4> DEFINE d == [c EXCEPT !.key = k]
      <4>1. d \in Content /\ Keeps(m, f, c, d) /\ d.group = c.group
        BY <1>2, <3>2, KeepsPlain, ChangesAreContents, GroupsAfter
      <4> QED BY <3>2, <4>1
    <3> QED BY <1>4, <3>1, <3>2 DEF init
  <2> QED BY <1>1, <1>3, <2>1, OneFile DEF IInv
<1>5. CASE import(j, m)
  <2> DEFINE d == [c EXCEPT !.contact[m.name] = m.key]
  <2>1. m.name \in Names /\ m.key \in PubKeys /\ Change(j, m, c, d) /\ c.contact[m.name] = NoKey
    BY <1>5, Shapes DEF import
  <2>2. d \in Content
    BY <1>2, <2>1, ChangesAreContents
  <2>3. Keeps(m, f, c, d)
    BY <1>2, <2>1, KeepsPlain
  <2>4. d.group = c.group
    BY <1>2, <2>1, GroupsAfter
  <2> QED BY <1>1, <1>3, <2>1, <2>2, <2>3, <2>4, OneFile DEF IInv
<1>6. CASE remove_contact(j, m)
  <2>1. PICK n \in NamesOf(c, m.key) : Change(j, m, c, [c EXCEPT !.contact[n] = NoKey])
    BY <1>6 DEF remove_contact
  <2> DEFINE d == [c EXCEPT !.contact[n] = NoKey]
  <2>2. n \in Names /\ m.op = "remove-contact"
    BY <1>6 DEF NamesOf, remove_contact
  <2>3. d \in Content /\ Keeps(m, f, c, d) /\ d.group = c.group
    BY <1>2, <2>2, KeepsPlain, ChangesAreContents, GroupsAfter
  <2>4. Change(j, m, c, d)
    BY <2>1
  <2>5. \A g \in Groups : d.group[g] # NoGroup => c.group[g] # NoGroup
    BY <2>3
  <2> HIDE DEF d
  <2> QED BY <1>1, <1>3, <2>3, <2>4, <2>5, OneFile DEF IInv
<1>7. CASE remove_group(j, m)
  <2> DEFINE d == [c EXCEPT !.group[m.group] = NoGroup]
  <2>1. m.group \in Groups /\ m.op = "remove-group" /\ Change(j, m, c, d)
    BY <1>7, Shapes DEF remove_group
  <2>2. d \in Content /\ Keeps(m, f, c, d)
    BY <1>2, <2>1, KeepsPlain, ChangesAreContents
  <2>3. \A g \in Groups : d.group[g] # NoGroup => c.group[g] # NoGroup
    BY <1>2, <2>1, GroupsAfter
  <2> QED BY <1>1, <1>3, <2>1, <2>2, <2>3, OneFile DEF IInv
<1> QED BY <1>4, <1>5, <1>6, <1>7

\* The group of a key generation is new to the file.
LEMMA GroupChanges ==
  ASSUME IInv, NEW j \in Jobs, update_config_with_group(j)
  PROVE  \E f \in Files, d \in Content : Changes(j, f, d)
<1> DEFINE m == cmd[j]
           f == m.file
           c == file[f]
           d == WithGroup(c, m.group, base[j].key, m.members)
<1>1. m \in Commands /\ m.op = "dkg" /\ base[j].key \in PubKeys
  BY DEF update_config_with_group, IInv, SoundInv, CommandInv
<1>2. f \in Files /\ m.group \in Groups /\ m.members \in SUBSET PubKeys
  BY <1>1, Shapes
<1>3. /\ Change(j, m, c, d) /\ UNCHANGED <<at, keys>>
      /\ <<f, m.group>> \notin formed /\ formed' = formed \cup {<<f, m.group>>}
  BY DEF update_config_with_group
<1>4. c \in Content /\ d \in Content
  BY <1>1, <1>2, ReadFacts, ChangesAreContents DEF IInv
<1>5. Keeps(m, f, c, d)
  <2>1. c.group[m.group] = NoGroup
    BY <1>2, <1>3 DEF IInv, FormedInv
  <2> QED BY <1>2, <1>4, <2>1, KeepsGroup
<1>6. \A g \in Groups : d.group[g] # NoGroup => c.group[g] # NoGroup \/ g = m.group
  BY <1>2, <1>4, GroupsAfter
<1> HIDE DEF c, d
<1>7. cmd'[j] = m /\ Target(j)' = f
  BY <1>1, <1>3 DEF Change, IInv, SoundInv, TypeOK, Target
<1>8. \A g : ~Deals(j, g)'
  BY <1>1, <1>7 DEF Deals
<1>9. Changes(j, f, d)
  BY <1>1, <1>2, <1>3, <1>4, <1>5, <1>6, <1>7, <1>8 DEF Changes, c
<1> QED BY <1>2, <1>4, <1>9

\* What DealInv says of one job.
LEMMA DealFacts ==
  ASSUME DealInv, NEW j \in Jobs, NEW g \in Groups, Deals(j, g)
  PROVE  /\ Len(keys[j]) = IF pc[j] = "extract" THEN at[j] - 1 ELSE Len(cmd[j].paths)
         /\ \A k \in Jobs : Deals(k, g) => k = j
         /\ \A i \in DOMAIN cmd[j].paths :
              /\ <<cmd[j].paths[i], g>> \in formed
              /\ Reaches(j, cmd[j].paths[i], g) =>
                   /\ pc[j] # "extract"
                   /\ \E l \in 1 .. at[j] - 1 : cmd[j].paths[l] = cmd[j].paths[i]
BY DEF DealInv

\* The dealer takes the part of its group away from a file it is given twice.
LEMMA DealChanges ==
  ASSUME IInv, NEW j \in Jobs, update_config_files(j)
  PROVE  \E f \in Files, d \in Content : Changes(j, f, d)
<1> DEFINE m == cmd[j]
           f == Target(j)
           c == file[f]
           members == {keys[j][i] : i \in DOMAIN keys[j]}
           w == WithGroup(c, m.group, at[j], members)
           d == WithContacts(w, m.names, keys[j])
<1>1. m \in Commands /\ m.op = "trusted-dealer" /\ at[j] \in DOMAIN m.paths
  BY DEF update_config_files, IInv, SoundInv, CommandInv
<1>2. /\ m.paths \in Seq(Files) /\ m.names \in Seq(Names) /\ m.group \in Groups
      /\ Len(m.names) = Len(m.paths)
  BY <1>1, Shapes
<1>3. f = m.paths[at[j]] /\ f \in Files
  BY <1>1, <1>2 DEF Target
<1>4. /\ Change(j, m, c, d) /\ UNCHANGED <<formed, at, keys>>
      /\ pc[j] = "deal"
  BY DEF update_config_files
<1>5. keys[j] \in Seq(PubKeys) /\ members \in SUBSET PubKeys /\ at[j] \in Nat
  BY DEF IInv, SoundInv, TypeOK
<1>6. Deals(j, m.group)
  BY <1>1, <1>4 DEF Deals
<1>7. /\ Len(keys[j]) = Len(m.paths) /\ <<f, m.group>> \in formed
      /\ Reaches(j, f, m.group) => \E l \in 1 .. at[j] - 1 : m.paths[l] = f
  <2>1. /\ Len(keys[j]) = Len(m.paths)
        /\ \A i \in DOMAIN m.paths :
             /\ <<m.paths[i], m.group>> \in formed
             /\ Reaches(j, m.paths[i], m.group) =>
                  \E l \in 1 .. at[j] - 1 : m.paths[l] = m.paths[i]
    <3> HIDE DEF m
    <3> QED BY <1>2, <1>4, <1>6, DealFacts DEF IInv, m
  <2> HIDE DEF f, m
  <2> QED BY <1>1, <1>3, <2>1
<1>8. c \in Content /\ w \in Content
  BY <1>2, <1>3, <1>5, ReadFacts, ChangesAreContents DEF IInv
<1>9. Keeps(m, f, c, w)
  <2>1. ASSUME c.group[m.group] # NoGroup PROVE MayDrop(m, f, m.group)
    <3>1. PICK l \in 1 .. at[j] - 1 : m.paths[l] = f
      BY <1>7, <2>1 DEF Reaches
    <3>2. l \in DOMAIN m.paths /\ l # at[j]
      BY <1>1, <1>2, <1>5
    <3> QED BY <1>1, <1>3, <3>1, <3>2 DEF MayDrop
  <2> QED BY <1>2, <1>8, <2>1, KeepsGroup
<1>10. w.contact = c.contact
  BY <1>8 DEF WithGroup, Content
<1>11. \A g \in Groups : w.group[g] # NoGroup => c.group[g] # NoGroup \/ g = m.group
  BY <1>2, <1>8, GroupsAfter
<1> HIDE DEF c, w
<1>12. d \in Content /\ Keeps(m, f, c, d) /\ d.group = w.group
  <2>1. d \in Content
    BY <1>5, <1>8, ContactsAreContents
  <2>2. Keeps(m, f, c, d)
    BY <1>1, <1>2, <1>5, <1>7, <1>8, <1>9, <1>10, KeepsContacts
  <2>3. d.group = w.group
    BY <1>8 DEF WithContacts, Content
  <2> QED BY <2>1, <2>2, <2>3
<1> HIDE DEF d
<1>13. cmd'[j] = m /\ Target(j)' = f
  BY <1>1, <1>4 DEF Change, IInv, SoundInv, TypeOK, Target
<1>14. \A g : Deals(j, g)' => Deals(j, g) /\ g = m.group
  BY <1>1, <1>4, <1>13 DEF Deals
<1>15. Changes(j, f, d)
  BY <1>1, <1>3, <1>4, <1>6, <1>7, <1>11, <1>12, <1>13, <1>14 DEF Changes, c
<1> QED BY <1>3, <1>12, <1>15

-----------------------------------------------------------------------------
(***************************************************************************)
(* The invariants about losses, step by step.                              *)
(***************************************************************************)
\* What DealInv says of job j and its group, but for there being no other.
DealFits(j, g) ==
  /\ Len(keys[j]) = IF pc[j] = "extract" THEN at[j] - 1 ELSE Len(cmd[j].paths)
  /\ \A i \in DOMAIN cmd[j].paths :
       /\ <<cmd[j].paths[i], g>> \in formed
       /\ Reaches(j, cmd[j].paths[i], g) =>
            /\ pc[j] # "extract"
            /\ \E l \in 1 .. at[j] - 1 : cmd[j].paths[l] = cmd[j].paths[i]

LossInv == ChangeInv /\ FormedInv /\ DealInv

\* For a dealer beside job j nothing changes but that files may hold what j was
\* about to write.
LEMMA OtherDealers ==
  ASSUME DealInv, NEW j \in Jobs, Alone(j), formed \subseteq formed',
         NEW l \in Jobs, l # j, NEW g \in Groups, Deals(l, g),
         \A i \in DOMAIN cmd[l].paths :
           Reaches(l, cmd[l].paths[i], g)' => Reaches(l, cmd[l].paths[i], g)
  PROVE  DealFits(l, g)'
<1>1. DealFits(l, g)
  BY DealFacts DEF DealFits
<1>2. /\ pc'[l] = pc[l] /\ cmd'[l] = cmd[l] /\ at'[l] = at[l] /\ keys'[l] = keys[l]
  BY DEF Alone
<1> QED BY <1>1, <1>2 DEF DealFits

\* A step after which job j has nothing to write.
LEMMA QuietStep ==
  ASSUME SoundInv, LossInv, NEW j \in Jobs, Alone(j), formed \subseteq formed', pc'[j] # "write",
         \A f \in Files, g \in Groups : file'[f].group[g] # NoGroup =>
           \/ file[f].group[g] # NoGroup
           \/ pc[j] = "write" /\ f = Target(j) /\ mem[j].group[g] # NoGroup,
         pc'[j] = "idle" => keys'[j] = <<>>,
         \A g \in Groups : Deals(j, g)' =>
           DealFits(j, g)' /\ \A k \in Jobs : Deals(k, g) => k = j
  PROVE  LossInv'
<1>1. ASSUME NEW l \in Jobs, l # j
      PROVE  /\ Target(l)' = Target(l) /\ \A g : Deals(l, g)' <=> Deals(l, g)
             /\ pc'[l] = pc[l] /\ cmd'[l] = cmd[l] /\ base'[l] = base[l]
             /\ mem'[l] = mem[l] /\ keys'[l] = keys[l]
  BY <1>1, OthersHold DEF Alone
<1>2. ChangeInv'
  <2> SUFFICES ASSUME NEW l \in Jobs, pc'[l] = "write"
               PROVE  Keeps(cmd'[l], Target(l)', base'[l], mem'[l])
    BY DEF ChangeInv
  <2>1. l # j /\ pc[l] = "write" /\ Keeps(cmd[l], Target(l), base[l], mem[l])
    BY <1>1 DEF LossInv, ChangeInv
  <2> QED BY <1>1, <2>1
<1>3. FormedInv'
  <2>1. ASSUME NEW f \in Files, NEW g \in Groups, file'[f].group[g] # NoGroup
        PROVE  <<f, g>> \in formed'
    BY <2>1 DEF LossInv, FormedInv
  <2>2. ASSUME NEW l \in Jobs, NEW g \in Groups, pc'[l] = "write", mem'[l].group[g] # NoGroup
        PROVE  <<Target(l)', g>> \in formed'
    <3>1. l # j /\ pc[l] = "write" /\ mem[l].group[g] # NoGroup
      BY <1>1, <2>2
    <3> QED BY <1>1, <3>1 DEF LossInv, FormedInv
  <2> QED BY <2>1, <2>2 DEF FormedInv
<1>4. DealInv'
  <2>1. ASSUME NEW l \in Jobs, NEW g \in Groups, Deals(l, g)'
        PROVE  DealFits(l, g)' /\ \A k \in Jobs : Deals(k, g)' => k = l
    <3>1. CASE l = j
      BY <1>1, <2>1, <3>1
    <3>2. CASE l # j
      <4>1. Deals(l, g) /\ \A k \in Jobs : Deals(k, g) => k = l
        BY <1>1, <2>1, <3>2, DealFacts DEF LossInv
      <4>2. ASSUME NEW i \in DOMAIN cmd[l].paths, Reaches(l, cmd[l].paths[i], g)'
            PROVE  Reaches(l, cmd[l].paths[i], g)
        <5>1. cmd[l].paths[i] \in Files
          <6>1. cmd[l] \in Commands /\ cmd[l].op = "trusted-dealer"
            BY <4>1 DEF Deals, SoundInv, CommandInv
          <6> QED BY <6>1, Shapes
        <5>2. CASE file'[cmd[l].paths[i]].group[g] # NoGroup
          BY <3>2, <5>1, <5>2 DEF Reaches
        <5>3. ASSUME NEW k \in Jobs \ {l}, pc'[k] = "write",
                     Target(k)' = cmd[l].paths[i], mem'[k].group[g] # NoGroup
              PROVE  Reaches(l, cmd[l].paths[i], g)
          BY <1>1, <5>3 DEF Reaches
        <5>4. cmd'[l] = cmd[l]
          BY <1>1, <3>2
        <5> QED BY <4>2, <5>2, <5>3, <5>4 DEF Reaches
      <4>3. DealFits(l, g)'
        BY <3>2, <4>1, <4>2, OtherDealers DEF LossInv
      <4>4. ASSUME NEW k \in Jobs, Deals(k, g)' PROVE k = l
        <5>1. CASE k = j
          <6>1. Deals(j, g)'
            BY <4>4, <5>1 DEF Deals
          <6>2. \A x \in Jobs : Deals(x, g) => x = j
            BY <6>1
          <6> QED BY <3>2, <4>1, <6>2
        <5>2. CASE k # j
          BY <1>1, <4>1, <4>4, <5>2
        <5> QED BY <5>1, <5>2
      <4> QED BY <4>3, <4>4
    <3> QED BY <3>1, <3>2
  <2>2. ASSUME NEW l \in Jobs, pc'[l] = "idle" PROVE keys'[l] = <<>>
    BY <1>1, <2>2 DEF LossInv, DealInv
  <2> QED BY <2>1, <2>2 DEF DealInv, DealFits
<1> QED BY <1>2, <1>3, <1>4 DEF LossInv

\* A job that has changed the content it read.
LEMMA ChangesStep ==
  ASSUME SoundInv, LossInv, NEW j \in Jobs, Alone(j),
         NEW f \in Files, NEW d \in Content, Changes(j, f, d)
  PROVE  LossInv'
<1>1. ASSUME NEW l \in Jobs, l # j
      PROVE  /\ Target(l)' = Target(l) /\ \A g : Deals(l, g)' <=> Deals(l, g)
             /\ pc'[l] = pc[l] /\ cmd'[l] = cmd[l] /\ base'[l] = base[l]
             /\ mem'[l] = mem[l] /\ keys'[l] = keys[l]
  BY <1>1, OthersHold DEF Alone
<1>2. /\ pc'[j] = "write" /\ base'[j] = file[f] /\ mem'[j] = d /\ Target(j)' = f
      /\ file' = file /\ at' = at /\ keys' = keys /\ formed \subseteq formed'
  BY DEF Changes, Change, SoundInv, TypeOK
<1>3. ChangeInv'
  <2> SUFFICES ASSUME NEW l \in Jobs, pc'[l] = "write"
               PROVE  Keeps(cmd'[l], Target(l)', base'[l], mem'[l])
    BY DEF ChangeInv
  <2>1. CASE l = j
    <3>1. Keeps(cmd'[j], f, file[f], d)
      BY DEF Changes
    <3>2. Target(l)' = f
      BY <1>2, <2>1 DEF Target
    <3> QED BY <1>2, <2>1, <3>1, <3>2
  <2>2. CASE l # j
    <3>1. pc[l] = "write" /\ Keeps(cmd[l], Target(l), base[l], mem[l])
      BY <1>1, <2>2 DEF LossInv, ChangeInv
    <3> QED BY <1>1, <2>2, <3>1
  <2> QED BY <2>1, <2>2
<1>4. \A g \in Groups : d.group[g] # NoGroup =>
        \/ file[f].group[g] # NoGroup
        \/ <<f, g>> \in formed' \ formed
        \/ Deals(j, g) /\ <<f, g>> \in formed
  BY DEF Changes
<1>5. FormedInv'
  <2>1. ASSUME NEW x \in Files, NEW g \in Groups, file'[x].group[g] # NoGroup
        PROVE  <<x, g>> \in formed'
    BY <1>2, <2>1 DEF LossInv, FormedInv
  <2>2. ASSUME NEW l \in Jobs, NEW g \in Groups, pc'[l] = "write", mem'[l].group[g] # NoGroup
        PROVE  <<Target(l)', g>> \in formed'
    <3>1. CASE l = j
      <4>1. <<f, g>> \in formed'
        BY <1>2, <1>4, <2>2, <3>1 DEF LossInv, FormedInv
      <4>2. Target(l)' = f
        BY <1>2, <3>1 DEF Target
      <4> QED BY <4>1, <4>2
    <3>2. CASE l # j
      BY <1>1, <1>2, <2>2, <3>2 DEF LossInv, FormedInv
    <3> QED BY <3>1, <3>2
  <2> QED BY <2>1, <2>2 DEF FormedInv
<1>6. \A g \in Groups : Deals(j, g)' => Deals(j, g) /\ pc[j] = "deal" /\ cmd'[j] = cmd[j]
  BY DEF Changes
<1>7. \A l \in Jobs, g \in Groups : Deals(l, g)' => Deals(l, g)
  <2> SUFFICES ASSUME NEW l \in Jobs, NEW g \in Groups, Deals(l, g)' PROVE Deals(l, g)
    OBVIOUS
  <2>1. CASE l = j
    <3>1. Deals(j, g)'
      BY <2>1 DEF Deals
    <3> QED BY <1>6, <2>1, <3>1
  <2> QED BY <1>1, <2>1
<1>8. ASSUME NEW l \in Jobs, NEW g \in Groups, Deals(l, g)'
      PROVE  DealFits(l, g)'
  <2>1. Deals(l, g) /\ DealFits(l, g) /\ \A k \in Jobs : Deals(k, g) => k = l
    BY <1>7, <1>8, DealFacts DEF LossInv, DealFits
  <2>2. cmd'[l] = cmd[l]
    <3>1. CASE l = j
      <4>1. Deals(j, g)'
        BY <1>8, <3>1 DEF Deals
      <4> QED BY <1>6, <3>1, <4>1
    <3> QED BY <1>1, <3>1
  <2>3. ASSUME NEW i \in DOMAIN cmd[l].paths, Reaches(l, cmd[l].paths[i], g)'
        PROVE  Reaches(l, cmd[l].paths[i], g)
    <3> DEFINE x == cmd[l].paths[i]
    <3>1. CASE file'[x].group[g] # NoGroup
      BY <1>2, <3>1 DEF Reaches
    <3>2. ASSUME NEW k \in Jobs \ {l}, pc'[k] = "write", Target(k)' = x,
                 mem'[k].group[g] # NoGroup
          PROVE  Reaches(l, x, g)
      <4>1. CASE k = j
        <5>1. Target(k)' = f
          BY <1>2, <4>1 DEF Target
        <5>2. x = f /\ d.group[g] # NoGroup /\ ~Deals(j, g) /\ <<x, g>> \in formed
          BY <1>2, <2>1, <3>2, <4>1, <5>1 DEF DealFits
        <5> HIDE DEF x
        <5> QED BY <1>4, <5>2 DEF Reaches
      <4>2. CASE k # j
        BY <1>1, <3>2, <4>2 DEF Reaches
      <4> QED BY <4>1, <4>2
    <3> QED BY <2>2, <2>3, <3>1, <3>2 DEF Reaches
  <2>4. CASE l # j
    BY <1>2, <2>1, <2>3, <2>4, OtherDealers DEF LossInv
  <2>5. CASE l = j
    <3>1. Deals(j, g)'
      BY <1>8, <2>5 DEF Deals
    <3>2. pc[l] = "deal" /\ pc'[l] = "write"
      BY <1>2, <1>6, <2>5, <3>1
    <3>3. at'[l] = at[l] /\ keys'[l] = keys[l]
      BY <1>2
    <3> QED BY <1>2, <2>1, <2>2, <2>3, <3>2, <3>3 DEF DealFits
  <2> QED BY <2>4, <2>5
<1>9. DealInv'
  <2>1. ASSUME NEW l \in Jobs, pc'[l] = "idle" PROVE keys'[l] = <<>>
    BY <1>1, <1>2, <2>1 DEF LossInv, DealInv
  <2>2. ASSUME NEW l \in Jobs, NEW g \in Groups, Deals(l, g)', NEW k \in Jobs, Deals(k, g)'
        PROVE  k = l
    BY <1>7, <2>2, DealFacts DEF LossInv
  <2> QED BY <1>8, <2>1, <2>2 DEF DealInv, DealFits
<1> QED BY <1>3, <1>5, <1>9 DEF LossInv

\* A command that ends has nothing in hand.
LEMMA EndLoses ==
  ASSUME SoundInv, LossInv, NEW j \in Jobs, Idle(j), UNCHANGED formed,
         \A f \in Files, g \in Groups : file'[f].group[g] # NoGroup =>
           \/ file[f].group[g] # NoGroup
           \/ pc[j] = "write" /\ f = Target(j) /\ mem[j].group[g] # NoGroup
  PROVE  LossInv'
<1>1. pc'[j] = "idle" /\ keys'[j] = <<>>
  BY DEF Idle, SoundInv, TypeOK
<1>2. \A g : ~Deals(j, g)'
  BY <1>1 DEF Deals
<1> QED BY <1>1, <1>2, ChangeAlone, QuietStep

LEMMA KeygenLoses ==
  ASSUME SoundInv, LossInv, NEW j \in Jobs, NEW m \in Commands, setup_dkg_config(j, m)
  PROVE  LossInv'
<1>1. pc'[j] = "keygen" /\ cmd'[j] = m /\ m.op = "dkg" /\ UNCHANGED <<file, formed>>
  BY DEF setup_dkg_config, SoundInv, TypeOK
<1>2. \A g : ~Deals(j, g)'
  BY <1>1 DEF Deals
<1>3. Alone(j)
  BY DEF setup_dkg_config, SoundInv, TypeOK, Alone
<1> QED BY <1>1, <1>2, <1>3, QuietStep

\* A new dealer: its group is nowhere yet.
LEMMA DealerLoses ==
  ASSUME SoundInv, LossInv, NEW j \in Jobs, pc[j] = "idle", NEW m \in Commands,
         trusted_dealer(j, m)
  PROVE  LossInv'
<1>1. /\ m.op = "trusted-dealer" /\ m.paths \in Seq(Files) /\ m.group \in Groups
      /\ Len(m.paths) >= 2
  BY Shapes DEF trusted_dealer
<1>2. /\ pc'[j] = "extract" /\ cmd'[j] = m /\ at'[j] = 1 /\ keys'[j] = <<>>
      /\ UNCHANGED <<file, mem>>
      /\ formed' = formed \cup {<<m.paths[i], m.group>> : i \in DOMAIN m.paths}
      /\ \A f \in Files : <<f, m.group>> \notin formed
  BY DEF trusted_dealer, SoundInv, TypeOK, LossInv, DealInv
<1>3. Alone(j)
  BY DEF trusted_dealer, SoundInv, TypeOK, Alone
<1>4. ASSUME NEW g \in Groups, Deals(j, g)'
      PROVE  DealFits(j, g)' /\ \A k \in Jobs : Deals(k, g) => k = j
  <2>1. g = m.group
    BY <1>2, <1>4 DEF Deals
  <2>2. ASSUME NEW k \in Jobs, Deals(k, g) PROVE FALSE
    <3>1. cmd[k] \in Commands /\ cmd[k].op = "trusted-dealer"
      BY <2>2 DEF Deals, SoundInv, CommandInv
    <3>2. 1 \in DOMAIN cmd[k].paths /\ cmd[k].paths[1] \in Files
      BY <3>1, Shapes
    <3>3. <<cmd[k].paths[1], g>> \in formed
      BY <2>2, <3>2, DealFacts DEF LossInv
    <3> QED BY <1>2, <2>1, <3>2, <3>3
  <2>3. ASSUME NEW i \in DOMAIN m.paths PROVE ~Reaches(j, m.paths[i], g)'
    <3> DEFINE f == m.paths[i]
    <3>1. f \in Files
      BY <1>1
    <3>2. file[f].group[g] = NoGroup
      BY <1>2, <2>1, <3>1 DEF LossInv, FormedInv
    <3>3. ASSUME NEW k \in Jobs \ {j}, pc'[k] = "write", Target(k)' = f, mem'[k].group[g] # NoGroup
          PROVE  FALSE
      <4>1. pc[k] = "write" /\ Target(k) = f /\ mem[k].group[g] # NoGroup
        BY <1>2, <1>3, <3>3, OthersHold DEF Alone
      <4> HIDE DEF f
      <4>2. <<f, g>> \in formed
        BY <4>1 DEF LossInv, FormedInv
      <4> QED BY <1>2, <2>1, <3>1, <4>2
    <3>4. cmd'[j] = m
      BY <1>2
    <3> QED BY <1>2, <3>2, <3>3 DEF Reaches
  <2>4. DealFits(j, g)'
    BY <1>2, <2>1, <2>3 DEF DealFits
  <2> QED BY <2>2, <2>4
<1> QED BY <1>2, <1>3, <1>4, QuietStep

\* The dealer has the key of one more file.
LEMMA ExtractLoses ==
  ASSUME SoundInv, LossInv, NEW j \in Jobs, extract_participant_info(j)
  PROVE  LossInv'
<1> DEFINE m == cmd[j]
           last == at[j] = Len(m.paths)
<1>1. UNCHANGED <<file, made, formed>> /\ pc[j] = "extract"
  BY DEF extract_participant_info
<1>2. CASE Idle(j)
  BY <1>1, <1>2, EndLoses
<1>3. CASE ~Idle(j)
  <2>1. PICK k : keys' = [keys EXCEPT ![j] = Append(@, k)] /\ k = file[Target(j)].key
    BY <1>3 DEF extract_participant_info
  <2>2. /\ pc' = [pc EXCEPT ![j] = IF last THEN "deal" ELSE "extract"]
        /\ at' = [at EXCEPT ![j] = IF last THEN 1 ELSE @ + 1]
        /\ UNCHANGED <<cmd, base, mem>>
    BY <1>3 DEF extract_participant_info
  <2>3. /\ m \in Commands /\ m.op = "trusted-dealer" /\ at[j] \in DOMAIN m.paths /\ at[j] \in Nat
        /\ m.paths \in Seq(Files) /\ keys[j] \in Seq(PubKeys)
    BY <1>1, Shapes DEF SoundInv, CommandInv, TypeOK
  <2>4. /\ pc'[j] = IF last THEN "deal" ELSE "extract"
        /\ at'[j] = IF last THEN 1 ELSE at[j] + 1
        /\ cmd'[j] = m /\ keys'[j] = Append(keys[j], k)
    BY <2>1, <2>2 DEF SoundInv, TypeOK
  <2>5. ASSUME NEW g \in Groups, Deals(j, g)'
        PROVE  DealFits(j, g)' /\ \A x \in Jobs : Deals(x, g) => x = j
    <3>1. Deals(j, g)
      BY <1>1, <2>4, <2>5 DEF Deals
    <3>2. DealFits(j, g) /\ \A x \in Jobs : Deals(x, g) => x = j
      BY <3>1, DealFacts DEF LossInv, DealFits
    <3>3. Len(keys[j]) = at[j] - 1
      BY <1>1, <3>2 DEF DealFits
    <3>4. Len(keys'[j]) = at[j]
      <4>1. Len(Append(keys[j], k)) = Len(keys[j]) + 1
        BY <2>3
      <4> QED BY <2>3, <2>4, <3>3, <4>1
    <3>5. Len(keys'[j]) = IF pc'[j] = "extract" THEN at'[j] - 1 ELSE Len(m.paths)
      BY <2>3, <2>4, <3>4
    <3>6. ASSUME NEW i \in DOMAIN m.paths PROVE ~Reaches(j, m.paths[i], g)'
      <4>1. ~Reaches(j, m.paths[i], g)
        BY <1>1, <3>2 DEF DealFits
      <4>2. \A x \in Jobs \ {j} : pc'[x] = pc[x] /\ Target(x)' = Target(x)
        BY <2>2, <2>4 DEF SoundInv, TypeOK, Target
      <4>3. mem' = mem /\ file' = file /\ cmd' = cmd
        BY <1>1, <2>2
      <4> QED BY <4>1, <4>2, <4>3 DEF Reaches
    <3>7. formed' = formed
      BY <1>1
    <3>8. DealFits(j, g)'
      BY <2>4, <3>2, <3>5, <3>6, <3>7 DEF DealFits
    <3> QED BY <3>2, <3>8
  <2>6. Alone(j)
    BY WorkAlone
  <2> QED BY <1>1, <2>4, <2>5, <2>6, QuietStep
<1> QED BY <1>2, <1>3

\* A write brings into the file what was about to be written.
LEMMA WriteLoses ==
  ASSUME SoundInv, LossInv, NEW j \in Jobs, write(j)
  PROVE  LossInv'
<1> DEFINE m == cmd[j]
<1>1. pc[j] = "write" /\ file' = [file EXCEPT ![Target(j)] = mem[j]] /\ UNCHANGED <<made, formed>>
  BY DEF write
<1>2. ASSUME NEW f \in Files, NEW g \in Groups, file'[f].group[g] # NoGroup
      PROVE  \/ file[f].group[g] # NoGroup
             \/ pc[j] = "write" /\ f = Target(j) /\ mem[j].group[g] # NoGroup
  BY <1>1, <1>2 DEF SoundInv, TypeOK
<1>3. CASE Idle(j)
  BY <1>1, <1>2, <1>3, EndLoses
<1>4. CASE /\ m.op = "trusted-dealer" /\ at[j] < Len(m.paths)
           /\ pc' = [pc EXCEPT ![j] = "deal"]
           /\ at' = [at EXCEPT ![j] = @ + 1]
           /\ UNCHANGED <<cmd, base, mem, keys>>
  <2>1. /\ pc'[j] = "deal" /\ cmd' = cmd /\ keys' = keys /\ mem' = mem
        /\ at[j] \in Nat /\ at'[j] = at[j] + 1 /\ formed' = formed
    BY <1>1, <1>4 DEF SoundInv, TypeOK
  <2>2. m \in Commands /\ at[j] \in DOMAIN m.paths /\ m.paths \in Seq(Files)
    BY <1>1, <1>4, Shapes DEF SoundInv, CommandInv
  <2>3. Alone(j)
    BY WorkAlone
  <2>4. ASSUME NEW g \in Groups, Deals(j, g)'
        PROVE  DealFits(j, g)' /\ \A x \in Jobs : Deals(x, g) => x = j
    <3>1. Deals(j, g)
      BY <1>1, <2>1, <2>4 DEF Deals
    <3>2. DealFits(j, g) /\ \A x \in Jobs : Deals(x, g) => x = j
      BY <3>1, DealFacts DEF LossInv, DealFits
    <3>3. ASSUME NEW i \in DOMAIN m.paths, Reaches(j, m.paths[i], g)'
          PROVE  \E l \in 1 .. at[j] : m.paths[l] = m.paths[i]
      <4> DEFINE f == m.paths[i]
      <4>1. CASE f = Target(j)
        <5>1. f = m.paths[at[j]] /\ at[j] \in 1 .. at[j]
          BY <1>4, <2>2, <4>1 DEF Target
        <5> QED BY <5>1
      <4>2. CASE f # Target(j)
        <5>1. f \in Files /\ file'[f] = file[f]
          BY <1>1, <2>2, <4>2 DEF SoundInv, TypeOK
        <5>2. \A x \in Jobs \ {j} : pc'[x] = pc[x] /\ Target(x)' = Target(x)
          BY <2>3, OthersHold DEF Alone
        <5>3. Reaches(j, f, g)
          BY <2>1, <3>3, <5>1, <5>2 DEF Reaches
        <5>4. \E l \in 1 .. at[j] - 1 : m.paths[l] = f
          BY <3>2, <5>3 DEF DealFits
        <5>5. 1 .. at[j] - 1 \subseteq 1 .. at[j]
          BY <2>1
        <5> QED BY <5>4, <5>5
      <4> QED BY <4>1, <4>2
    <3>4. 1 .. at'[j] - 1 = 1 .. at[j]
      BY <2>1
    <3>5. DealFits(j, g)'
      BY <1>1, <2>1, <3>2, <3>3, <3>4 DEF DealFits
    <3> QED BY <3>2, <3>5
  <2> QED BY <1>1, <1>2, <2>1, <2>3, <2>4, QuietStep
<1> QED BY <1>3, <1>4 DEF write

-----------------------------------------------------------------------------
(***************************************************************************)
(* What a command read is what is in the file until another one overtakes  *)
(* it.                                                                     *)
(***************************************************************************)
\* A command that has read its file.
LEMMA ReadIsFresh ==
  ASSUME SoundInv, FreshInv, NEW j \in Jobs, Alone(j), NEW f \in Files, NEW d, Changes(j, f, d)
  PROVE  FreshInv'
<1>1. pc'[j] = "write" /\ base'[j] = file[f] /\ Target(j)' = f /\ UNCHANGED <<file, overtaken>>
  BY DEF Changes, Change, SoundInv, TypeOK
<1>2. ASSUME NEW l \in Jobs, l # j
      PROVE  pc'[l] = pc[l] /\ base'[l] = base[l] /\ Target(l)' = Target(l)
  BY <1>2, OthersHold DEF Alone
<1>3. \A l \in overtaken' : pc'[l] = "write"
  BY <1>1, <1>2 DEF FreshInv, SoundInv, TypeOK
<1>4. ASSUME NEW l \in Jobs, pc'[l] = "write"
      PROVE  l \in overtaken' \/ base'[l] = file'[Target(l)']
  BY <1>1, <1>2, <1>4 DEF FreshInv
<1> QED BY <1>3, <1>4 DEF FreshInv

\* A step that writes nothing and leaves its command without anything to write.
LEMMA QuietIsFresh ==
  ASSUME SoundInv, FreshInv, NEW j \in Jobs, Alone(j), pc'[j] # "write",
         file' = file, overtaken' = overtaken \ {j}
  PROVE  FreshInv'
<1>1. ASSUME NEW l \in Jobs, l # j
      PROVE  pc'[l] = pc[l] /\ base'[l] = base[l] /\ Target(l)' = Target(l)
  BY <1>1, OthersHold DEF Alone
<1>2. \A l \in overtaken' : pc'[l] = "write"
  BY <1>1 DEF FreshInv, SoundInv, TypeOK
<1>3. ASSUME NEW l \in Jobs, pc'[l] = "write"
      PROVE  l \in overtaken' \/ base'[l] = file'[Target(l)']
  BY <1>1, <1>3 DEF FreshInv
<1> QED BY <1>2, <1>3 DEF FreshInv

\* A write overtakes the commands that have read the same file.
LEMMA WriteOvertakes ==
  ASSUME SoundInv, FreshInv, NEW j \in Jobs, write(j)
  PROVE  FreshInv'
<1>1. /\ Alone(j) /\ pc[j] = "write" /\ pc'[j] # "write"
      /\ file' = [file EXCEPT ![Target(j)] = mem[j]]
      /\ overtaken' = (overtaken \cup Overtakes(j)) \ {j}
  BY WorkAlone DEF write, Idle, SoundInv, TypeOK
<1>2. ASSUME NEW l \in Jobs, l # j
      PROVE  pc'[l] = pc[l] /\ base'[l] = base[l] /\ Target(l)' = Target(l)
  BY <1>1, <1>2, OthersHold DEF Alone
<1>3. \A l \in overtaken' : pc'[l] = "write"
  BY <1>1, <1>2 DEF FreshInv, Overtakes, SoundInv, TypeOK
<1>4. ASSUME NEW l \in Jobs, pc'[l] = "write"
      PROVE  l \in overtaken' \/ base'[l] = file'[Target(l)']
  <2>1. l # j /\ pc[l] = "write"
    BY <1>1, <1>2, <1>4
  <2>2. CASE Target(l) = Target(j)
    BY <1>1, <2>1, <2>2 DEF Overtakes
  <2>3. CASE Target(l) # Target(j)
    <3>1. l \in overtaken \/ base[l] = file[Target(l)]
      BY <2>1 DEF FreshInv
    <3>2. file'[Target(l)] = file[Target(l)]
      BY <1>1, <2>3 DEF SoundInv, TypeOK
    <3> QED BY <1>1, <1>2, <2>1, <3>1, <3>2
  <2> QED BY <2>2, <2>3
<1> QED BY <1>3, <1>4 DEF FreshInv

LEMMA FreshStep == IInv /\ [Next]_vars => FreshInv'
<1> SUFFICES ASSUME IInv, [Next]_vars PROVE FreshInv'
  OBVIOUS
<1>1. SoundInv /\ FreshInv
  BY DEF IInv
<1>2. ASSUME NEW j \in Jobs, pc[j] # "write" PROVE overtaken \ {j} = overtaken
  BY <1>1, <1>2 DEF FreshInv
<1>3. ASSUME NEW j \in Jobs, NEW m \in Commands, Begin(j, m) PROVE FreshInv'
  <2>1. pc[j] = "idle" /\ Alone(j)
    BY <1>1, <1>3, BeginAlone DEF Begin
  <2>2. CASE init(j, m) \/ import(j, m) \/ remove_contact(j, m) \/ remove_group(j, m)
    BY <1>1, <2>1, <2>2, BeginChanges, ReadIsFresh
  <2>3. CASE setup_dkg_config(j, m) \/ trusted_dealer(j, m)
    <3>1. pc'[j] # "write" /\ UNCHANGED <<file, overtaken>>
      BY <1>1, <2>3 DEF setup_dkg_config, trusted_dealer, SoundInv, TypeOK
    <3> QED BY <1>1, <1>2, <2>1, <3>1, QuietIsFresh
  <2> QED BY <1>3, <2>2, <2>3 DEF Begin
<1>4. ASSUME NEW j \in Jobs, update_config_with_group(j) PROVE FreshInv'
  BY <1>1, <1>4, WorkAlone, GroupChanges, ReadIsFresh
<1>5. ASSUME NEW j \in Jobs, update_config_files(j) PROVE FreshInv'
  BY <1>1, <1>5, WorkAlone, DealChanges, ReadIsFresh
<1>6. ASSUME NEW j \in Jobs, extract_participant_info(j) PROVE FreshInv'
  <2>1. pc[j] = "extract" /\ UNCHANGED <<file, overtaken>>
    BY <1>6 DEF extract_participant_info
  <2>2. pc'[j] # "write"
    BY <1>1, <1>6 DEF extract_participant_info, Idle, SoundInv, TypeOK
  <2> QED BY <1>1, <1>2, <1>6, <2>1, <2>2, WorkAlone, QuietIsFresh
<1>7. ASSUME NEW j \in Jobs, End(j) PROVE FreshInv'
  <2>1. pc'[j] # "write" /\ file' = file /\ overtaken' = overtaken \ {j}
    BY <1>1, <1>7 DEF End, Idle, SoundInv, TypeOK
  <2> QED BY <1>1, <1>7, <2>1, WorkAlone, QuietIsFresh
<1>8. CASE UNCHANGED vars
  BY <1>1, <1>8 DEF vars, FreshInv, Target
<1> QED BY <1>1, <1>3, <1>4, <1>5, <1>6, <1>7, <1>8, WriteOvertakes DEF Next

LEMMA LossStep == IInv /\ [Next]_vars => LossInv'
<1> SUFFICES ASSUME IInv, [Next]_vars PROVE LossInv'
  OBVIOUS
<1>1. SoundInv /\ LossInv
  BY DEF IInv, LossInv
<1>2. ASSUME NEW j \in Jobs, NEW m \in Commands, Begin(j, m) PROVE LossInv'
  <2>1. CASE init(j, m) \/ import(j, m) \/ remove_contact(j, m) \/ remove_group(j, m)
    BY <1>1, <1>2, <2>1, BeginAlone, BeginChanges, ChangesStep
  <2>2. CASE setup_dkg_config(j, m)
    BY <1>1, <2>2, KeygenLoses
  <2>3. CASE trusted_dealer(j, m)
    BY <1>1, <1>2, <2>3, DealerLoses DEF Begin
  <2> QED BY <1>2, <2>1, <2>2, <2>3 DEF Begin
<1>3. ASSUME NEW j \in Jobs, update_config_with_group(j) PROVE LossInv'
  BY <1>1, <1>3, WorkAlone, GroupChanges, ChangesStep
<1>4. ASSUME NEW j \in Jobs, extract_participant_info(j) PROVE LossInv'
  BY <1>1, <1>4, ExtractLoses
<1>5. ASSUME NEW j \in Jobs, update_config_files(j) PROVE LossInv'
  BY <1>1, <1>5, WorkAlone, DealChanges, ChangesStep
<1>6. ASSUME NEW j \in Jobs, write(j) PROVE LossInv'
  BY <1>1, <1>6, WriteLoses
<1>7. ASSUME NEW j \in Jobs, End(j) PROVE LossInv'
  BY <1>1, <1>7, EndLoses DEF End
<1>8. CASE UNCHANGED vars
  BY <1>1, <1>8 DEF vars, LossInv, ChangeInv, FormedInv, DealInv, Deals, Reaches, Target
<1> QED BY <1>2, <1>3, <1>4, <1>5, <1>6, <1>7, <1>8 DEF Next

-----------------------------------------------------------------------------
(***************************************************************************)
(* The theorems.                                                           *)
(***************************************************************************)
LEMMA InitIInv == Init => IInv
<1> SUFFICES ASSUME Init PROVE IInv
  OBVIOUS
<1>1. ChangeInv /\ FormedInv /\ DealInv
  BY DEF Init, Default, ChangeInv, FormedInv, DealInv, Deals
<1>2. FreshInv
  BY DEF Init, FreshInv
<1> QED BY <1>1, <1>2, InitSoundInv DEF IInv

LEMMA NextIInv == IInv /\ [Next]_vars => IInv'
BY SoundInvStep, LossStep, FreshStep DEF IInv, LossInv

\* A write replaces the file by what the command made of the content it read.
LEMMA LossIsStale ==
  ASSUME IInv, [Next]_vars, NEW f \in Files, file'[f] # file[f]
  PROVE  \E j \in Jobs : /\ pc[j] = "write" /\ Target(j) = f
                         /\ j \in overtaken \/ Keeps(cmd[j], f, file[f], file'[f])
<1>1. PICK j \in Jobs : write(j)
  <2>1. \A j, m, c, d : Change(j, m, c, d) => file' = file
    BY DEF Change
  <2>2. \A j \in Jobs, m \in Commands : Begin(j, m) => file' = file
    BY <2>1, ZenonT(30) DEF Begin, init, import, remove_contact, remove_group,
                setup_dkg_config, trusted_dealer
  <2>3. \A j \in Jobs : update_config_with_group(j) \/ extract_participant_info(j)
                          \/ update_config_files(j) \/ End(j) => file' = file
    BY <2>1 DEF update_config_with_group, extract_participant_info, update_config_files, End
  <2> QED BY <2>2, <2>3 DEF Next, vars
<1>2. pc[j] = "write" /\ file' = [file EXCEPT ![Target(j)] = mem[j]]
  BY <1>1 DEF write
<1>3. Target(j) = f /\ file'[f] = mem[j]
  BY <1>2 DEF IInv, SoundInv, TypeOK
<1>4. Keeps(cmd[j], Target(j), base[j], mem[j])
  BY <1>2 DEF IInv, ChangeInv
<1>5. j \in overtaken \/ base[j] = file[f]
  BY <1>2, <1>3 DEF IInv, FreshInv
<1> QED BY <1>2, <1>3, <1>4, <1>5

\* The invariant behind the theorems below: what every overlap of commands keeps
\* of the files and of what is about to be written, and which groups are where.
THEOREM InductiveInvariant == Spec => []IInv
BY InitIInv, NextIInv, PTL DEF Spec

\* The contents of the files and of the commands' memories keep their types.
THEOREM TypeCorrect == Spec => []TypeOK
<1>1. IInv => TypeOK
  BY DEF IInv, SoundInv
<1> QED BY <1>1, InductiveInvariant, PTL

\* The tests of import() and init() keep the address book sound, however the
\* commands of any number of terminals overlap: the file is replaced as a whole,
\* by a content that passed the tests.
THEOREM AddressBookStaysSound == Spec => []AddressBookSound
<1>1. IInv => AddressBookSound
  BY DEF IInv, SoundInv
<1> QED BY <1>1, InductiveInvariant, PTL

\* A file loses its key, a group with its secret share, or a contact only by the
\* command that is there to remove it or by one that was overtaken between its
\* last read of the file and its write: in particular dkg, which reads the file
\* again after the key generation, takes nothing away of what was written while
\* the keys were generated (update_config_with_group()).
THEOREM NothingElseIsLost == Spec => LostOnlyByStaleWrite
<1>1. IInv /\ [Next]_vars =>
        [\A f \in Files : file'[f] # file[f] =>
           \E j \in Jobs : /\ pc[j] = "write" /\ Target(j) = f
                           /\ j \in overtaken \/ Keeps(cmd[j], f, file[f], file'[f])]_vars
  BY LossIsStale
<1> QED BY <1>1, InductiveInvariant, PTL DEF Spec, LostOnlyByStaleWrite
=============================================================================
