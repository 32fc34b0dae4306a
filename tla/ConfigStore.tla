----------------------------- MODULE ConfigStore -----------------------------
(***************************************************************************)
(* The config files of mina-frost-client and the commands that change      *)
(* them: init, import, remove-contact, remove-group, dkg and               *)
(* trusted-dealer.  Every command reads a whole file, changes the content  *)
(* in memory and replaces the file by it; nothing locks the file, so       *)
(* commands of several terminals overlap as they please.                   *)
(*                                                                         *)
(* A file that does not exist reads as the default content, which is what  *)
(* an empty file is here.  write_file() renames a complete temporary file, *)
(* so a write is one step and a command that is killed before it changes   *)
(* nothing.  A command that is refused ends without a step.                *)
(*                                                                         *)
(* A group is known by its verifying key, drawn anew for every key         *)
(* generation.  Its entry is the user's part of the secret and the public  *)
(* keys of the participants.                                               *)
(***************************************************************************)
EXTENDS Naturals, Sequences, FiniteSets

CONSTANTS
  Files,     \* config files
  Names,     \* names of contacts, in the order of the address book
  PubKeys,   \* communication keys
  Foreign,   \* those that exist elsewhere from the start
  NoKey,     \* no communication key, or no contact of that name
  Groups,    \* verifying keys of groups
  NoGroup,   \* no entry for a group
  Jobs,      \* terminals, each runs one command at a time
  Commands,  \* bound: the command lines that are tried
  NoCommand

Share == [part : PubKeys \cup Nat, members : SUBSET PubKeys]
Content == [key : PubKeys \cup {NoKey},
            contact : [Names -> PubKeys \cup {NoKey}],
            group : [Groups -> Share \cup {NoGroup}]]
Default == [key |-> NoKey, contact |-> [n \in Names |-> NoKey],
            group |-> [g \in Groups |-> NoGroup]]

InitCommand          == [op : {"init"}, file : Files]
ImportCommand        == [op : {"import"}, file : Files, name : Names, key : PubKeys]
RemoveContactCommand == [op : {"remove-contact"}, file : Files, key : PubKeys]
RemoveGroupCommand   == [op : {"remove-group"}, file : Files, group : Groups]
DkgCommand           == [op : {"dkg"}, file : Files, group : Groups, members : SUBSET PubKeys]
DealCommand          == [op : {"trusted-dealer"}, paths : Seq(Files), names : Seq(Names),
                         group : Groups]

ASSUME ConfigAssumption ==
  /\ Names \subseteq Nat
  /\ Foreign \subseteq PubKeys /\ NoKey \notin PubKeys
  /\ NoGroup \notin Share
  /\ NoCommand \notin Commands
  /\ \A m \in Commands :
       \/ m \in InitCommand \cup ImportCommand \cup RemoveContactCommand
                \cup RemoveGroupCommand \cup DkgCommand
       \/ /\ DOMAIN m = {"op", "paths", "names", "group"} /\ m.op = "trusted-dealer"
          /\ m.paths \in Seq(Files) /\ m.names \in Seq(Names) /\ m.group \in Groups
          /\ Len(m.names) = Len(m.paths) /\ Len(m.paths) >= 2

VARIABLES
  file,    \* the content of each file
  made,    \* communication keys that exist
  formed,  \* groups that key generation brought into a file
  pc,      \* where each command is
  cmd,     \* its arguments
  base,    \* the content it read last
  mem,     \* that content with its change
  at,      \* trusted-dealer: the number of the file it is at
  keys,    \* trusted-dealer: the keys it found so far

  \* History, which no command looks at: the commands whose file was written
  \* by another one between their last read of it and their write.
  overtaken

vars == <<file, made, formed, pc, cmd, base, mem, at, keys, overtaken>>

Pcs == {"idle", "keygen", "extract", "deal", "write"}

TypeOK ==
  /\ file \in [Files -> Content]
  /\ made \in SUBSET PubKeys
  /\ formed \in SUBSET (Files \X Groups)
  /\ pc \in [Jobs -> Pcs]
  /\ cmd \in [Jobs -> Commands \cup {NoCommand}]
  /\ base \in [Jobs -> Content] /\ mem \in [Jobs -> Content]
  /\ at \in [Jobs -> Nat]
  /\ keys \in [Jobs -> Seq(PubKeys)]
  /\ overtaken \in SUBSET Jobs

Init ==
  /\ file = [f \in Files |-> Default]
  /\ made = Foreign
  /\ formed = {}
  /\ pc = [j \in Jobs |-> "idle"]
  /\ cmd = [j \in Jobs |-> NoCommand]
  /\ base = [j \in Jobs |-> Default] /\ mem = [j \in Jobs |-> Default]
  /\ at = [j \in Jobs |-> 0]
  /\ keys = [j \in Jobs |-> <<>>]
  /\ overtaken = {}

-----------------------------------------------------------------------------
\* The names under which a key is in the address book.
NamesOf(c, k) == {n \in Names : c.contact[n] = k}

\* contact_by_pubkey() finds it: the user's own key, or a contact's.
Resolves(c, k) == k = c.key \/ NamesOf(c, k) # {}

\* Where job j writes.
Target(j) ==
  IF cmd[j].op = "trusted-dealer" THEN cmd[j].paths[at[j]] ELSE cmd[j].file

\* Config::read and the change in memory: c is what was read, d what will be
\* written.
Change(j, m, c, d) ==
  /\ pc' = [pc EXCEPT ![j] = "write"]
  /\ cmd' = [cmd EXCEPT ![j] = m]
  /\ base' = [base EXCEPT ![j] = c]
  /\ mem' = [mem EXCEPT ![j] = d]
  /\ UNCHANGED <<file, overtaken>>

Idle(j) ==
  /\ pc' = [pc EXCEPT ![j] = "idle"]
  /\ cmd' = [cmd EXCEPT ![j] = NoCommand]
  /\ base' = [base EXCEPT ![j] = Default]
  /\ mem' = [mem EXCEPT ![j] = Default]
  /\ at' = [at EXCEPT ![j] = 0]
  /\ keys' = [keys EXCEPT ![j] = <<>>]

-----------------------------------------------------------------------------
(***************************************************************************)
(* The commands that read, change and write one file.                      *)
(***************************************************************************)
\* A key that is there is kept; the file is written in any case.
init(j, m) ==
  /\ m.op = "init"
  /\ LET c == file[m.file]
     IN  \/ c.key # NoKey /\ Change(j, m, c, c) /\ UNCHANGED made
         \/ /\ c.key = NoKey
            /\ \E k \in PubKeys \ made :
                 /\ Change(j, m, c, [c EXCEPT !.key = k])
                 /\ made' = made \cup {k}
  /\ UNCHANGED <<formed, at, keys>>

\* Mutants: a key that has a name is not refused; the user's own key is not.
import_SameKey(j, m) ==
  /\ m.op = "import"
  /\ m.key \in made
  /\ LET c == file[m.file]
     IN  /\ c.contact[m.name] = NoKey
         /\ c.key # m.key
         /\ Change(j, m, c, [c EXCEPT !.contact[m.name] = m.key])
  /\ UNCHANGED <<made, formed, at, keys>>
import_OwnKey(j, m) ==
  /\ m.op = "import"
  /\ m.key \in made
  /\ LET c == file[m.file]
     IN  /\ c.contact[m.name] = NoKey
         /\ NamesOf(c, m.key) = {}
         /\ Change(j, m, c, [c EXCEPT !.contact[m.name] = m.key])
  /\ UNCHANGED <<made, formed, at, keys>>

\* Refused when the name or the key is in the address book, or the key is the
\* user's own.
import(j, m) ==
  /\ m.op = "import"
  /\ m.key \in made
  /\ LET c == file[m.file]
     IN  /\ c.contact[m.name] = NoKey
         /\ NamesOf(c, m.key) = {}
         /\ c.key # m.key
         /\ Change(j, m, c, [c EXCEPT !.contact[m.name] = m.key])
  /\ UNCHANGED <<made, formed, at, keys>>

\* The first name with that key goes.
remove_contact(j, m) ==
  /\ m.op = "remove-contact"
  /\ LET c == file[m.file]
     IN  \E n \in NamesOf(c, m.key) :
           /\ \A o \in NamesOf(c, m.key) : n <= o
           /\ Change(j, m, c, [c EXCEPT !.contact[n] = NoKey])
  /\ UNCHANGED <<made, formed, at, keys>>

remove_group(j, m) ==
  /\ m.op = "remove-group"
  /\ LET c == file[m.file]
     IN  /\ c.group[m.group] # NoGroup
         /\ Change(j, m, c, [c EXCEPT !.group[m.group] = NoGroup])
  /\ UNCHANGED <<made, formed, at, keys>>

-----------------------------------------------------------------------------
(***************************************************************************)
(* dkg: the file is read before the key generation and again after it.     *)
(***************************************************************************)
\* The participants must be contacts or the user; what keygen() needs of the
\* file it takes from this copy.
setup_dkg_config(j, m) ==
  /\ m.op = "dkg"
  /\ <<m.file, m.group>> \notin formed
  /\ LET c == file[m.file]
     IN  /\ c.key \in m.members /\ Cardinality(m.members) >= 2
         /\ \A k \in m.members : Resolves(c, k)
         /\ base' = [base EXCEPT ![j] = c]
  /\ pc' = [pc EXCEPT ![j] = "keygen"]
  /\ cmd' = [cmd EXCEPT ![j] = m]
  /\ UNCHANGED <<file, made, formed, mem, at, keys, overtaken>>

WithGroup(c, g, part, members) ==
  [c EXCEPT !.group[g] = [part |-> part, members |-> members]]

\* Mutant: the file is not read again after the key generation.
update_config_with_group_Old(j) ==
  /\ pc[j] = "keygen"
  /\ <<cmd[j].file, cmd[j].group>> \notin formed
  /\ formed' = formed \cup {<<cmd[j].file, cmd[j].group>>}
  /\ Change(j, cmd[j], base[j],
            WithGroup(base[j], cmd[j].group, base[j].key, cmd[j].members))
  /\ UNCHANGED <<made, at, keys>>

\* keygen() is through; the file is read again.
update_config_with_group(j) ==
  /\ pc[j] = "keygen"
  /\ <<cmd[j].file, cmd[j].group>> \notin formed
  /\ formed' = formed \cup {<<cmd[j].file, cmd[j].group>>}
  /\ LET c == file[cmd[j].file]
     IN  Change(j, cmd[j], c, WithGroup(c, cmd[j].group, base[j].key, cmd[j].members))
  /\ UNCHANGED <<made, at, keys>>

-----------------------------------------------------------------------------
(***************************************************************************)
(* trusted-dealer: reads the keys out of all files, one after the other,   *)
(* and then reads, changes and writes one after the other.  It compares    *)
(* the number of files with the number of signers, not the files.          *)
(***************************************************************************)
trusted_dealer(j, m) ==
  /\ m.op = "trusted-dealer"
  /\ \A f \in Files : <<f, m.group>> \notin formed
  /\ formed' = formed \cup {<<m.paths[i], m.group>> : i \in DOMAIN m.paths}
  /\ pc' = [pc EXCEPT ![j] = "extract"]
  /\ cmd' = [cmd EXCEPT ![j] = m]
  /\ at' = [at EXCEPT ![j] = 1]
  /\ UNCHANGED <<file, made, base, mem, keys, overtaken>>

extract_participant_info(j) ==
  /\ pc[j] = "extract"
  /\ LET k    == file[Target(j)].key
         last == at[j] = Len(cmd[j].paths)
     IN  \/ k = NoKey /\ Idle(j)
         \/ /\ k # NoKey
            /\ keys' = [keys EXCEPT ![j] = Append(@, k)]
            /\ pc' = [pc EXCEPT ![j] = IF last THEN "deal" ELSE "extract"]
            /\ at' = [at EXCEPT ![j] = IF last THEN 1 ELSE @ + 1]
            /\ UNCHANGED <<cmd, base, mem>>
  /\ UNCHANGED <<file, made, formed, overtaken>>

\* Where a name stands for the last time.
Last(names, ks, n, i) ==
  names[i] = n /\ \A l \in DOMAIN ks : names[l] = n => l <= i

\* All participants are entered as contacts, the owner of the file included,
\* whatever is in the address book; the last of equal names stays.
WithContacts(c, names, ks) ==
  [c EXCEPT !.contact = [n \in Names |->
     IF \E i \in DOMAIN ks : Last(names, ks, n, i)
       THEN ks[CHOOSE i \in DOMAIN ks : Last(names, ks, n, i)]
       ELSE c.contact[n]]]

update_config_files(j) ==
  /\ pc[j] = "deal"
  /\ LET c == file[Target(j)]
         members == {keys[j][i] : i \in DOMAIN keys[j]}
     IN  Change(j, cmd[j], c,
           WithContacts(WithGroup(c, cmd[j].group, at[j], members), cmd[j].names, keys[j]))
  /\ UNCHANGED <<made, formed, at, keys>>

-----------------------------------------------------------------------------
\* The commands about to write the file that job j writes.
Overtakes(j) == {k \in Jobs \ {j} : pc[k] = "write" /\ Target(k) = Target(j)}

\* Config::write: the rename of write_file().
write(j) ==
  /\ pc[j] = "write"
  /\ file' = [file EXCEPT ![Target(j)] = mem[j]]
  /\ overtaken' = (overtaken \cup Overtakes(j)) \ {j}
  /\ IF cmd[j].op = "trusted-dealer" /\ at[j] < Len(cmd[j].paths)
       THEN /\ pc' = [pc EXCEPT ![j] = "deal"]
            /\ at' = [at EXCEPT ![j] = @ + 1]
            /\ UNCHANGED <<cmd, base, mem, keys>>
       ELSE Idle(j)
  /\ UNCHANGED <<made, formed>>

\* The command fails or is killed before it writes.
End(j) ==
  /\ pc[j] # "idle"
  /\ Idle(j)
  /\ overtaken' = overtaken \ {j}
  /\ UNCHANGED <<file, made, formed>>

Begin(j, m) ==
  /\ pc[j] = "idle"
  /\ \/ init(j, m) \/ import(j, m) \/ remove_contact(j, m) \/ remove_group(j, m)
     \/ setup_dkg_config(j, m) \/ trusted_dealer(j, m)

Next ==
  \E j \in Jobs :
    \/ \E m \in Commands : Begin(j, m)
    \/ update_config_with_group(j)
    \/ extract_participant_info(j) \/ update_config_files(j)
    \/ write(j) \/ End(j)

Spec == Init /\ [][Next]_vars
-----------------------------------------------------------------------------
(***************************************************************************)
(* Properties.                                                             *)
(***************************************************************************)
DealCommands == {m \in Commands : m.op = "trusted-dealer"}
DealtTo == UNION {{m.paths[i] : i \in DOMAIN m.paths} : m \in DealCommands}

\* No key is in the address book twice, and the user's own is not in it: the
\* tests of import() are enough, however the commands of several terminals
\* overlap, in every file the trusted dealer stays away from.
Sound(c) ==
  /\ \A n, o \in Names : c.contact[n] # NoKey /\ c.contact[n] = c.contact[o] => n = o
  /\ \A n \in Names : c.contact[n] # NoKey => c.contact[n] # c.key

AddressBookSound == \A f \in Files \ DealtTo : Sound(file[f])

\* Commands that take something away: remove-group its group, remove-contact
\* one name of its key, trusted-dealer the contacts it gives a new key; and the
\* part of a group when it is given the same file twice.
MayDrop(m, f, g) ==
  \/ m.op = "remove-group" /\ m.group = g
  \/ /\ m.op = "trusted-dealer" /\ m.group = g
     /\ \E i, l \in DOMAIN m.paths : i # l /\ m.paths[i] = f /\ m.paths[l] = f
MayRename(m, c, n) ==
  \/ m.op = "remove-contact" /\ m.key = c.contact[n]
  \/ m.op = "trusted-dealer" /\ \E i \in DOMAIN m.names : m.names[i] = n

\* Command m keeps what file f held, c, in what it makes of it, d.
Keeps(m, f, c, d) ==
  /\ c.key # NoKey => d.key = c.key
  /\ \A g \in Groups : c.group[g] # NoGroup => d.group[g] = c.group[g] \/ MayDrop(m, f, g)
  /\ \A n \in Names : c.contact[n] # NoKey => d.contact[n] = c.contact[n] \/ MayRename(m, c, n)

\* A file loses its key, a group with its secret share, or a contact only by
\* the command that is there to remove it, or by one that another command
\* overtook in the short time between its last read of the file and its write
\* (Config::read and Config::write of the same function).  In particular a key
\* generation takes nothing away of what was written while it ran, however long
\* that was: update_config_with_group() reads the file again.
LostOnlyByStaleWrite ==
  [][\A f \in Files : file'[f] # file[f] =>
       \E j \in Jobs : /\ pc[j] = "write" /\ Target(j) = f
                       /\ j \in overtaken \/ Keeps(cmd[j], f, file[f], file'[f])]_vars

-----------------------------------------------------------------------------
(***************************************************************************)
(* The inductive invariant behind AddressBookSound and                     *)
(* LostOnlyByStaleWrite.                                                   *)
(***************************************************************************)
\* Only keys that exist are in a content: the key of init is new to it.
Known(c, existing) ==
  /\ c.key \in existing \cup {NoKey}
  /\ \A n \in Names : c.contact[n] \in existing \cup {NoKey}

\* A command at work has its arguments.
CommandInv ==
  \A j \in Jobs :
    /\ pc[j] # "idle" => cmd[j] \in Commands
    /\ pc[j] = "keygen" => cmd[j].op = "dkg" /\ base[j].key \in PubKeys
    /\ pc[j] \in {"extract", "deal"} => cmd[j].op = "trusted-dealer"
    /\ pc[j] # "idle" /\ cmd[j].op = "trusted-dealer" => at[j] \in DOMAIN cmd[j].paths

KnownInv ==
  /\ \A f \in Files : Known(file[f], made)
  /\ \A j \in Jobs : /\ Known(base[j], made) /\ Known(mem[j], made)
                     /\ \A i \in DOMAIN keys[j] : keys[j][i] \in made

\* What is about to be written is sound as well.
WriteInv ==
  \A j \in Jobs : pc[j] = "write" /\ Target(j) \notin DealtTo => Sound(mem[j])

\* What is about to be written has all that was read, but for what the command
\* is there to take away.
ChangeInv == \A j \in Jobs : pc[j] = "write" => Keeps(cmd[j], Target(j), base[j], mem[j])

\* What a command read is what is in the file until another one overtakes it.
FreshInv ==
  /\ \A j \in overtaken : pc[j] = "write"
  /\ \A j \in Jobs : pc[j] = "write" => j \in overtaken \/ base[j] = file[Target(j)]

\* An entry of a group came from a key generation that brought it into that file.
FormedInv ==
  /\ \A f \in Files, g \in Groups : file[f].group[g] # NoGroup => <<f, g>> \in formed
  /\ \A j \in Jobs, g \in Groups :
       pc[j] = "write" /\ mem[j].group[g] # NoGroup => <<Target(j), g>> \in formed

\* Job j deals group g.
Deals(j, g) == pc[j] # "idle" /\ cmd[j].op = "trusted-dealer" /\ cmd[j].group = g

\* File f holds group g, or a job other than j is about to write it there.
Reaches(j, f, g) ==
  \/ file[f].group[g] # NoGroup
  \/ \E k \in Jobs \ {j} : pc[k] = "write" /\ Target(k) = f /\ mem[k].group[g] # NoGroup

\* A group is dealt by one job, and it is in those of its files only that this
\* job wrote already.
DealInv ==
  /\ \A j \in Jobs : pc[j] = "idle" => keys[j] = <<>>
  /\ \A j \in Jobs, g \in Groups : Deals(j, g) =>
       /\ Len(keys[j]) = IF pc[j] = "extract" THEN at[j] - 1 ELSE Len(cmd[j].paths)
       /\ \A k \in Jobs : Deals(k, g) => k = j
       /\ \A i \in DOMAIN cmd[j].paths :
            /\ <<cmd[j].paths[i], g>> \in formed
            /\ Reaches(j, cmd[j].paths[i], g) =>
                 /\ pc[j] # "extract"
                 /\ \E l \in 1 .. at[j] - 1 : cmd[j].paths[l] = cmd[j].paths[i]

SoundInv == TypeOK /\ CommandInv /\ KnownInv /\ WriteInv /\ AddressBookSound
IInv     == SoundInv /\ ChangeInv /\ FreshInv /\ FormedInv /\ DealInv

-----------------------------------------------------------------------------
(***************************************************************************)
(* What a comment says and the code does not keep.                         *)
(***************************************************************************)
\* groups "Lists the groups the user is in" (cli/args.rs).  It looks every
\* participant up in the address book and fails at the first that is not there,
\* and remove-contact does not look at the groups.
Listable(c) ==
  \A g \in Groups : c.group[g] # NoGroup =>
    \A k \in c.group[g].members : Resolves(c, k)

GroupsListed == \A f \in Files : Listable(file[f])
=============================================================================
