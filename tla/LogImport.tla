----------------------------- MODULE LogImport -----------------------------
(***************************************************************************)
(* libparser: what Manager, ParserPidgin and ParserKopete take over from   *)
(* the files of another messenger.  The home directory is data; parser()   *)
(* reads the contact list, then the accounts, then for each of four        *)
(* protocols the logs of each account.  An entry of a directory is a       *)
(* number in the order of entryList: "." is 0, ".." is 1, names that sort  *)
(* before them are negative.                                               *)
(***************************************************************************)
EXTENDS Integers, Sequences, SequencesExt, FiniteSetsExt, Functions

CONSTANTS
  Accounts,      \* names of accounts
  CutTo,         \* what the expression for AccountId captures of each
  ContactLists,  \* contact lists: sequences of groups and contacts
  AccountLists,  \* sequences of names, as the accounts are configured
  Logs           \* the sets of logs that may be there

ASSUME CutAssumption == CutTo \in [Accounts -> Accounts]

VARIABLES
  program,       \* "kopete" or "pidgin"
  home,          \* the home directory: what its files have, and whether they are there and XML
  phase,         \* where the importer is
  unread,        \* what is left of the file that is being read
  accounts,      \* m_accounts
  groups,        \* m_listGroups
  metacontacts,  \* m_metacontacts: each contact with its group
  logs,          \* m_logs
  protocolNr,    \* the call of parserLogsAux
  accountNr      \* the iteration of its loop

read == <<accounts, groups, metacontacts, logs>>
loop == <<protocolNr, accountNr>>
vars == <<program, home, phase, unread, read, loop>>

Protocols == <<"MSN", "Jabber", "AIM", "ICQ">>

\* Groups are numbered from 0: the list of Kopete's constructor has one.
Init ==
  /\ program \in {"kopete", "pidgin"}
  /\ home \in [contacts : ContactLists, accounts : AccountLists, logs : Logs,
               hasContacts : BOOLEAN, accountsFile : {"none", "broken", "good"}]
  /\ phase = "search" /\ unread = <<>> /\ accounts = <<>>
  /\ groups = IF program = "kopete" THEN <<"NullGroup">> ELSE <<>>
  /\ metacontacts = <<>> /\ logs = <<>> /\ protocolNr = 1 /\ accountNr = 1

\* Manager::searchAux finds Pidgin by its accounts; the application makes the parser of Kopete.
searchAux ==
  /\ phase = "search"
  /\ phase' = IF program = "kopete" \/ home.accountsFile # "none"
              THEN IF home.hasContacts THEN "contacts" ELSE "returned"
              ELSE "returned"
  /\ unread' = IF phase' = "contacts" THEN home.contacts ELSE <<>>
  /\ UNCHANGED <<program, home, read, loop>>

-----------------------------------------------------------------------------
(* The contact list *)

\* QList::insert: an index past the end appends.
Insert(list, i, e) ==
  LET at == IF i > Len(list) THEN Len(list) ELSE i
  IN SubSeq(list, 1, at) \o <<e>> \o SubSeq(list, at + 1, Len(list))

Metacontact(e, group) == metacontacts' = Append(metacontacts, [name |-> e.name, group |-> group])

\* Kopete lists its groups first; a contact has the number of its group, which QList::at must find.
KopeteContacts(e) ==
  \/ /\ e.kind = "group"
     /\ groups' = Insert(groups, e.id, e.name) /\ unread' = Tail(unread)
     /\ UNCHANGED <<phase, metacontacts>>
  \/ /\ e.kind = "contact" /\ e.group \in 0..(Len(groups) - 1)
     /\ Metacontact(e, groups[e.group + 1]) /\ unread' = Tail(unread)
     /\ UNCHANGED <<phase, groups>>
  \/ /\ e.kind = "contact" /\ e.group \notin 0..(Len(groups) - 1)
     /\ phase' = "aborted" /\ UNCHANGED <<unread, groups, metacontacts>>

GroupOf(e) == SelectLastInSeq(home.contacts, LAMBDA g : g.kind = "group" /\ g.id = e.group)

\* Pidgin's groups contain their contacts, which are written one after the other into one text.
PidginContacts(e) ==
  /\ IF e.kind = "group" THEN UNCHANGED metacontacts
     ELSE Metacontact(e, home.contacts[GroupOf(e)].name)
  /\ unread' = Tail(unread) /\ UNCHANGED <<phase, groups>>

processMetacontacts ==
  /\ phase = "contacts" /\ unread # <<>>
  /\ IF program = "kopete" THEN KopeteContacts(Head(unread)) ELSE PidginContacts(Head(unread))
  /\ UNCHANGED <<program, home, accounts, logs, loop>>

\* Kopete goes on without its accounts, Pidgin returns.
OpensAccounts ==
  /\ phase = "contacts" /\ unread = <<>>
  /\ phase' = IF home.accountsFile = "good" \/ program = "kopete" THEN "accounts" ELSE "returned"
  /\ unread' = IF home.accountsFile = "good" THEN home.accounts ELSE <<>>
  /\ UNCHANGED <<program, home, read, loop>>

-----------------------------------------------------------------------------
(* Accounts *)

\* Kopete's accounts are what an expression captures of a line, Pidgin's are the names as they are.
processProtocolsAccounts == program = "kopete" /\ accounts' = Append(accounts, CutTo[Head(unread)])
processAccountsProtocols == program = "pidgin" /\ accounts' = Append(accounts, Head(unread))

processAccounts ==
  /\ phase = "accounts" /\ unread # <<>>
  /\ processProtocolsAccounts \/ processAccountsProtocols
  /\ unread' = Tail(unread)
  /\ UNCHANGED <<program, home, phase, groups, metacontacts, logs, loop>>

OpensLogs ==
  /\ phase = "accounts" /\ unread = <<>>
  /\ phase' = "logs"
  /\ UNCHANGED <<program, home, unread, read, loop>>

-----------------------------------------------------------------------------
(* Logs *)

Dot == 0
DotDot == 1

\* Mutant: one entry more is passed over.
ListedFromFourth(entries) ==
  LET list == SetToSortSeq(entries \union {Dot, DotDot}, <) IN Range(SubSeq(list, 4, Len(list)))

\* The loops begin with the third entry, "neither . nor ..".  Where names sort before the dots the
\* first two of them are passed over instead, and the dots are entries like others; but nothing
\* is read of a directory where a file is expected.
Listed(entries) ==
  LET list == SetToSortSeq(entries \union {Dot, DotDot}, <) IN Range(SubSeq(list, 3, Len(list)))

\* The path is put together anew after each account, for Kopete's MSN with a slip.
Directory(nr) == IF program = "kopete" /\ Protocols[nr] = "MSN" /\ accountNr > 1
                 THEN "MSNrotocol" ELSE Protocols[nr]

In(directory, account) == {l \in home.logs : l.protocol = directory /\ l.account = account}

\* The logs of an account of Kopete are files with the name of the contact, then that of the month;
\* those of Pidgin are in a directory for each contact, with the date for their name.
KopeteName(l) == 100 * l.contact + l.file

KopeteFiles(there) == {l \in there : KopeteName(l) \in Listed({KopeteName(k) : k \in there})}

PidginFiles(there) ==
  {l \in there : /\ l.contact \in Listed({k.contact : k \in there})
                 /\ l.file \in Listed({k.file : k \in {j \in there : j.contact = l.contact}})}

\* What is told of a log: where it was found, not what it says of itself.
processLogs(l, account) == [log |-> l, protocol |-> Protocols[protocolNr], account |-> account]

\* An iteration of the loop in parserLogsAux.
parserLogsAux ==
  /\ phase = "logs" /\ protocolNr <= Len(Protocols) /\ accountNr <= Len(accounts)
  /\ LET account == accounts[accountNr]
         there == In(Directory(protocolNr), account)
         files == IF program = "kopete" THEN KopeteFiles(there) ELSE PidginFiles(there)
     IN logs' = logs \o SetToSeq({processLogs(l, account) : l \in files})
  /\ accountNr' = accountNr + 1
  /\ UNCHANGED <<program, home, phase, unread, accounts, groups, metacontacts, protocolNr>>

NextProtocol ==
  /\ phase = "logs" /\ protocolNr <= Len(Protocols) /\ accountNr > Len(accounts)
  /\ protocolNr' = protocolNr + 1 /\ accountNr' = 1
  /\ phase' = IF protocolNr' > Len(Protocols) THEN "returned" ELSE phase
  /\ UNCHANGED <<program, home, unread, read>>

Next ==
  \/ searchAux
  \/ processMetacontacts \/ OpensAccounts
  \/ processAccounts \/ OpensLogs
  \/ parserLogsAux \/ NextProtocol

Spec == Init /\ [][Next]_vars

-----------------------------------------------------------------------------
(* Properties *)

Complete == phase = "returned" /\ home.accountsFile = "good" /\ home.hasContacts

\* A log that the importer can reach: one of an account it knows by its name, but for those of
\* Kopete's MSN accounts after the first.
Reachable(l) ==
  /\ l.account \in Range(accounts)
  /\ program = "kopete" /\ l.protocol = "MSN" => l.account = Head(accounts)

\* The name of a log's file, or at Pidgin of its contact's directory, is one of the first two of
\* its directory and sorts before the dots, for which the importer takes it.
TakenForDots(l) ==
  LET Name(k) == IF program = "kopete" THEN KopeteName(k) ELSE k.contact
      others == {Name(k) : k \in In(l.protocol, l.account)}
  IN Name(l) < Dot /\ Quantify(others, LAMBDA n : n < Name(l)) < 2

\* Once parser() has read everything, each log of an account with a name of its own was taken over
\* exactly once, under its protocol and its account, and nothing else was; but of the names that
\* sort before the dots the first two are lost.
LogsImportedOnce ==
  Complete /\ IsInjective(accounts) =>
    \A l \in home.logs :
      Len(SelectSeq(logs, LAMBDA i : i.log = l)) = IF Reachable(l) /\ ~TakenForDots(l) THEN 1 ELSE 0

LabelsAreRight == \A i \in Range(logs) : i.protocol = i.log.protocol /\ i.account = i.log.account

\* The groups are numbered as they are listed, from 0 or 1.
GroupsOf(list) == SelectSeq(list, LAMBDA e : e.kind = "group")
Consecutive(list) ==
  \E first \in {0, 1} : \A i \in DOMAIN GroupsOf(list) : GroupsOf(list)[i].id = first + i - 1

ContactsHaveGroups ==
  Consecutive(home.contacts) =>
    /\ phase # "aborted"
    /\ \A i \in DOMAIN metacontacts :
         LET e == SelectSeq(home.contacts, LAMBDA c : c.kind = "contact")[i] IN
         metacontacts[i] = [name |-> e.name, group |-> home.contacts[GroupOf(e)].name]

\* What libparser takes over is what the other messenger had: each reachable log once and under the
\* right names, except those whose names the importer takes for the dots, and each contact with the
\* name of its group.
ImportIsFaithful == LogsImportedOnce /\ LabelsAreRight /\ ContactsHaveGroups
=============================================================================
