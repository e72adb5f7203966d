------------------------ MODULE NotificationSession ------------------------
(***************************************************************************)
(* A session of lib-im-msnp with the MSN notification server: ParserNS,    *)
(* its slots in Client and the Roster behind them.                         *)
(*                                                                         *)
(* Two threads take part, as in the library's program (msn.cpp): one calls *)
(* Client::connect, and the main thread, where Client was made, takes the  *)
(* signals of ParserNS from its queue, in order, and runs Client's slots.  *)
(*                                                                         *)
(* Client::connect calls ParserNS::init, which stays in a loop: recv waits *)
(* for bytes, feed appends them to m_buf, and parse runs one handler after *)
(* the other for the command at the front of m_buf.  A handler matches a   *)
(* regular expression, so it does something only when its command is       *)
(* there as a whole.  If not, some handlers clear m_hasCommand, which      *)
(* makes parse return and wait for more bytes, and the others do not:      *)
(* parse then calls the same handler again, for ever.                      *)
(*                                                                         *)
(* The text of a command has parts: two letters of its name, the rest of   *)
(* its first line without the line end, the end of that line, and what     *)
(* else it has.  The server is external: it answers requests in order and, *)
(* once the client is online, pushes commands.  TCP hands the parts over   *)
(* in order, several commands at a time, so that what was received and     *)
(* what the handlers removed are two positions in the text of what the     *)
(* server wrote, and m_buf is the text between them.  Cuttable are the     *)
(* commands whose text may be split between two reads (any may be split    *)
(* inside its name, which parse waits for).                                *)
(***************************************************************************)
EXTENDS Integers, Sequences, SequencesExt

CONSTANTS
  Contacts,      \* passports
  Groups,        \* identifiers of groups
  NoGroup,       \* the empty identifier
  GroupList,     \* the groups of the stored list, in the server's order
  ContactList,   \* its contacts, each with its group or none
  Cuttable,      \* kinds of commands that may be split between two reads
  Pushes,        \* kinds of commands the server pushes
  Calls,         \* what the application calls once it is connected
  MaxCalls,      \* bound: such calls
  MaxEvents,     \* bound: commands pushed and transfers to another server, together
  Moving         \* bound: the contacts that pushes, calls and first presences are about

ASSUME ListAssumption ==
  /\ NoGroup \notin Groups /\ "nobody" \notin Contacts
  /\ GroupList \in Seq(Groups)
  /\ ContactList \in Seq([who: Contacts, group: Groups \union {NoGroup}])
ASSUME BoundsAssumption == MaxEvents \in Nat /\ MaxCalls \in Nat

LineKinds == {"VER", "CVR", "XFR", "TWN", "ERR", "SYN", "GTC", "BLP", "PRP", "LSG",
              "LST", "BPR", "CHG", "CHL", "QRY", "ILN", "NLN", "FLN", "OUT", "ADC", "ADN",
              "REM", "ADG", "RMG"}
Kinds == LineKinds \union {"GCF", "USR", "MSG", "UBX", "NOT"}

ASSUME KindsAssumption ==
  /\ Cuttable \subseteq Kinds /\ Moving \subseteq Contacts
  /\ Pushes \subseteq {"NLN", "FLN", "UBX", "MSG", "NOT", "OUT", "ADN", "REM"}
  /\ Calls \subseteq {"addContact", "delContact", "blockContact", "deblockContact", "addGroup",
                     "delGroup", "changeStatus"}

\* TWN is a USR that carries a ticket; USR one that ends the authentication.  ADN is an ADC
\* that carries a display name.
Command == [kind: Kinds, who: Contacts \union {"nobody"}, group: Groups \union {NoGroup}]

Statuses == {"absent", "off", "on"}   \* absent: not a key of m_contacts

VARIABLES
  sent,        \* commands written by the server that is connected
  got,         \* the position in them up to which they were received
  gone,        \* the one up to which the handlers removed them: what follows is ParserNS::m_buf
  asked,       \* requests the server has not answered: cmd, and the contact and group it is about
  link,        \* the socket: "up" or "closed"
  online,      \* the server got the client's status
  redirects,   \* transfers to another server
  events, called,  \* what the bounds count
  hasCommand,  \* ParserNS::m_hasCommand
  parsing,     \* ParserNS::m_isParsing
  toCome,      \* ParserNS::m_contacts
  handled,     \* commands the handlers took off m_buf
  requests,    \* requests of the handlers so far, but for the answers to challenges
  loop,        \* init(): "running", "returned", or "undefined" (a deleted object was used)
  signals,     \* what ParserNS emitted
  taken,       \* and how many of these Client's slots have run for: the others are in the queue
  groups,      \* Roster::m_groups
  contacts,    \* Roster::m_contacts and the status in each
  listed,      \* contacts told to the RosterListener
  connected,   \* how often the ConnectionListener was told of the connection
  goodbyes     \* and the reasons it was told of the disconnection

server == <<sent, asked, link, online, redirects, events, called>>
session == <<groups, contacts, listed, connected, goodbyes>>
parser == <<gone, hasCommand, parsing, toCome, handled, requests, signals>>
main == <<taken, session>>
vars == <<server, got, parser, loop, main>>

-----------------------------------------------------------------------------
(* Commands and their text *)

Cmd(k) == [kind |-> k, who |-> "nobody", group |-> NoGroup]
About(k, c) == [kind |-> k, who |-> c, group |-> NoGroup]
OfGroup(k, g) == [kind |-> k, who |-> "nobody", group |-> g]

\* GCF carries its policies and the line of a USR, USR the line SBS, MSG and UBX
\* a payload, NOT a payload and, as the comment of parseNot has it, a line end.
NumParts(k) == CASE k = "GCF" -> 5 [] k = "NOT" -> 5
                 [] k \in {"USR", "MSG", "UBX"} -> 4 [] OTHER -> 3

\* A position: after nr whole commands of sent and some parts of the next.
EndOf(n) == [nr |-> n, part |-> 0]
Position(p) ==
  p.part > 0 => p.nr < Len(sent) /\ p.part < NumParts(sent[p.nr + 1].kind)
Before(p, q) == p.nr < q.nr \/ (p.nr = q.nr /\ p.part < q.part)

\* Two reads may be separated here.
MayEnd(p) == p.part > 1 => sent[p.nr + 1].kind \in Cuttable

-----------------------------------------------------------------------------
(* The server and the network *)

\* A line for each group, then two for each contact.
Listing ==
  [i \in 1 .. Len(GroupList) + 2 * Len(ContactList) |->
     IF i <= Len(GroupList) THEN OfGroup("LSG", GroupList[i])
     ELSE IF (i - Len(GroupList)) % 2 = 0 THEN Cmd("BPR")
     ELSE LET listing == ContactList[(i - Len(GroupList) + 1) \div 2]
          IN [kind |-> "LST", who |-> listing.who, group |-> listing.group]]

Refusal == <<Cmd("ERR")>>

Answers(r) ==
  CASE r.cmd = "VER" -> { <<Cmd("VER")>> }
    [] r.cmd = "CVR" -> { <<Cmd("CVR")>> }
    [] r.cmd = "USR I" -> { <<Cmd("GCF")>>, <<Cmd("TWN")>> }
                            \union (IF events < MaxEvents THEN { <<Cmd("XFR")>> } ELSE {})
    [] r.cmd = "USR S" -> { <<Cmd("USR"), Cmd("MSG")>>, Refusal }
    [] r.cmd = "USR S empty" -> { Refusal }
    [] r.cmd = "SYN" -> { <<Cmd("SYN"), Cmd("GTC"), Cmd("BLP"), Cmd("PRP")>> \o Listing }
    [] r.cmd = "CHG" -> { <<Cmd("CHG")>> \o on \o <<Cmd("CHL")>> :
                            on \in { <<>> } \union { <<About("ILN", c)>> : c \in Moving } }
    [] r.cmd = "QRY" -> { <<Cmd("QRY")>> }
    [] r.cmd = "ADC" -> { <<[kind |-> IF r.group = NoGroup THEN "ADN" ELSE "ADC",
                             who |-> r.who, group |-> r.group]>>, Refusal }
    [] r.cmd \in {"ADC BL", "ADC AL"} -> { <<About("ADC", r.who)>>, Refusal }
    [] r.cmd = "REM" -> { <<About("REM", r.who)>>, Refusal }
    [] r.cmd \in {"ADG", "RMG"} -> { <<OfGroup(r.cmd, r.group)>>, Refusal }
    [] r.cmd = "status" -> { <<Cmd("CHG")>> }

Write(cmds) == sent' = sent \o cmds

Asks(request) == [cmd |-> request, who |-> "nobody", group |-> NoGroup]

\* A refused authentication ends the connection.
ServerAnswers ==
  /\ link = "up" /\ asked # <<>>
  /\ online' = (online \/ Head(asked).cmd = "CHG")
  /\ \E answer \in Answers(Head(asked)) :
       /\ Write(answer)
       /\ IF Head(answer).kind = "ERR" /\ Head(asked).cmd \in {"USR S", "USR S empty"}
            THEN link' = "closed" /\ asked' = <<>>
            ELSE link' = link /\ asked' = Tail(asked)
  /\ UNCHANGED <<redirects, events, called, got, parser, loop, main>>

\* The mail of a MSG pushed is not the profile: it has a contact's name.
Pushed(k) == IF k \in {"NOT", "OUT"} THEN { Cmd(k) }
             ELSE { About(k, c) : c \in Moving }

ServerPushes ==
  /\ link = "up" /\ online
  /\ events < MaxEvents /\ events' = events + 1 /\ UNCHANGED called
  /\ \E k \in Pushes : \E c \in Pushed(k) : Write(<<c>>)
  /\ UNCHANGED <<asked, link, online, redirects, got, parser, loop, main>>

ServerCloses ==
  /\ link = "up"
  /\ link' = "closed" /\ asked' = <<>>
  /\ UNCHANGED <<sent, got, online, redirects, events, called, parser, loop, main>>

-----------------------------------------------------------------------------
(* ParserNS::init *)

\* The slot disconnected has deleted m_roster and m_mainSocket.
Deleted == goodbyes # <<>>
UseSocket == loop' = IF Deleted THEN "undefined" ELSE loop

\* Mutant: the flag an incomplete command cleared is not set again.
FeedKeeping(p) == hasCommand' = (hasCommand \/ gone = got) /\ got' = p

\* feed(), of the bytes up to a position
Feed(p) == hasCommand' = TRUE /\ got' = p

\* recv() has bytes: feed() and parse()
Read ==
  /\ loop = "running" /\ ~parsing
  /\ \E p \in [nr: got.nr .. Len(sent), part: 0 .. 4] :
       Position(p) /\ Before(got, p) /\ MayEnd(p) /\ Feed(p)
  /\ parsing' = TRUE
  /\ UNCHANGED <<server, gone, toCome, handled, requests, signals, loop, main>>

\* recv() returns -1: init() and connect() return, and nobody is told.
ReadFails ==
  /\ loop = "running" /\ ~parsing /\ got = EndOf(Len(sent)) /\ link = "closed"
  /\ loop' = "returned"
  /\ UNCHANGED <<server, got, parser, main>>

-----------------------------------------------------------------------------
(* ParserNS::parse: the loop, and one action for each handler *)

\* The command at the front of m_buf
FrontCmd == sent[gone.nr + 1]

\* mid(0, 3) is the name of a command.
Named == gone.part = 0 /\ (got.nr > gone.nr \/ got.part > 1)

\* The buffer is empty, the flag is cleared, or the name is not known (yet): init() goes on to recv.
ParseReturns ==
  /\ parsing /\ loop = "running"
  /\ ~hasCommand \/ ~Named
  /\ parsing' = FALSE /\ UseSocket
  /\ UNCHANGED <<server, got, gone, hasCommand, toCome, handled, requests, signals, main>>

Handles(k) == parsing /\ loop = "running" /\ hasCommand /\ Named /\ FrontCmd.kind = k

\* m_buf.remove(0, n) up to a position, with the command it belongs to
Take(p) == gone' = p /\ handled' = Append(handled, FrontCmd)

Complete == got.nr > gone.nr

Wait == /\ ~Complete
        /\ hasCommand' = FALSE
        /\ UNCHANGED <<server, got, gone, toCome, handled, requests, signals, loop>>

TakeComplete == Complete /\ Take(EndOf(gone.nr + 1)) /\ UNCHANGED hasCommand

\* An expression with [\d|\D]* matches up to the last line end in m_buf.  MSG and UBX end with
\* their payload.
LastLineEnd ==
  IF got.part >= 3 THEN [nr |-> got.nr, part |-> 3]
  ELSE IF sent[got.nr].kind \in {"MSG", "UBX"} THEN [nr |-> got.nr - 1, part |-> 3]
  ELSE EndOf(got.nr)
TakeGreedily == Complete /\ Take(LastLineEnd) /\ UNCHANGED hasCommand

Ask(request) ==
  /\ asked' = IF link = "up" THEN Append(asked, Asks(request)) ELSE asked
  /\ UNCHANGED <<sent, link, online, redirects, events, called, got>>
Send(request) == Ask(request) /\ UseSocket /\ requests' = Append(requests, request)
SendNothing == UNCHANGED <<server, got, requests, loop>>

\* A handler runs inside parse, and Client's slots do not run in this thread.
InParse == UNCHANGED <<parsing, main>>

Emit(signal) == signals' = Append(signals, signal)
EmitNothing == UNCHANGED signals

\* Client::connect connects the slot disconnected to it twice.
EmitDisconnected(reason) ==
  LET signal == [name |-> "disconnected", reason |-> reason]
  IN signals' = signals \o <<signal, signal>>

ParseVer ==
  /\ Handles("VER") /\ InParse
  /\ \/ Wait
     \/ TakeComplete /\ Send("CVR") /\ UNCHANGED toCome /\ EmitNothing

ParseCvr ==
  /\ Handles("CVR") /\ InParse
  /\ TakeGreedily /\ Send("USR I") /\ UNCHANGED toCome /\ EmitNothing

\* msocket::connect drops the old connection; its result is not looked at.  m_buf keeps what follows
\* the XFR, which is nothing: a server that hands its client on writes no more.
ParseXfr ==
  /\ Handles("XFR") /\ InParse
  /\ Complete /\ UNCHANGED hasCommand
  /\ sent' = <<>> /\ handled' = <<>> /\ gone' = EndOf(0) /\ got' = EndOf(0) /\ online' = FALSE
  /\ redirects' = redirects + 1 /\ events' = events + 1 /\ UNCHANGED called
  /\ link' \in {"up", "closed"}
  /\ asked' = IF link' = "up" THEN <<Asks("VER")>> ELSE <<>>
  /\ requests' = Append(requests, "VER") /\ UseSocket
  /\ UNCHANGED toCome /\ EmitNothing

\* Challenge::getTicket (external) gives a ticket or none.
ParseGcf ==
  /\ Handles("GCF") /\ InParse
  /\ TakeGreedily /\ UNCHANGED toCome
  /\ \/ Send("USR S") /\ EmitNothing
     \/ SendNothing /\ EmitDisconnected("AuthenticationFailed")

\* The branch of the authorization ticket, then that of the end of the authentication.
ParseUsrTicket ==
  /\ Handles("TWN") /\ InParse
  /\ \/ Wait
     \/ /\ TakeGreedily /\ UNCHANGED toCome /\ EmitNothing
        /\ Send("USR S") \/ Send("USR S empty")

\* Mutant: the line SBS is left where it is.
ParseUsrShort ==
  /\ Handles("USR") /\ InParse
  /\ \/ Wait
     \/ /\ Complete /\ Take([gone EXCEPT !.part = 3]) /\ UNCHANGED hasCommand
        /\ SendNothing /\ UNCHANGED toCome /\ EmitNothing

ParseUsr ==
  /\ Handles("USR") /\ InParse
  /\ \/ Wait
     \/ TakeComplete /\ SendNothing /\ UNCHANGED toCome /\ EmitNothing

\* Mutant: any MSG is taken for the profile.
ParseMsgAny ==
  /\ Handles("MSG") /\ InParse
  /\ TakeComplete /\ UNCHANGED toCome /\ EmitNothing
  /\ Send("SYN")

\* Only the profile is answered.
ParseMsg ==
  /\ Handles("MSG") /\ InParse
  /\ TakeComplete /\ UNCHANGED toCome /\ EmitNothing
  /\ IF FrontCmd.who = "nobody" THEN Send("SYN") ELSE SendNothing

ParseSyn ==
  /\ Handles("SYN") /\ InParse
  /\ \/ Wait
     \/ /\ TakeComplete /\ SendNothing /\ EmitNothing
        /\ toCome' = Len(ContactList)

IgnoreLine(k) ==
  /\ Handles(k) /\ InParse
  /\ TakeComplete /\ SendNothing /\ UNCHANGED toCome /\ EmitNothing

ParseGtc == IgnoreLine("GTC")
ParseBlp == IgnoreLine("BLP")
ParsePrp == IgnoreLine("PRP")
ParseChg == IgnoreLine("CHG")
ParseQry == IgnoreLine("QRY")
ParseError == IgnoreLine("ERR")

ParseBpr ==
  /\ Handles("BPR") /\ InParse
  /\ \/ Wait
     \/ TakeComplete /\ SendNothing /\ UNCHANGED toCome /\ EmitNothing

\* The answer to ADG goes the same way.
ParseLsg ==
  /\ Handles("LSG") \/ Handles("ADG")
  /\ InParse
  /\ TakeComplete /\ SendNothing /\ UNCHANGED toCome
  /\ Emit([name |-> "newGroupArrived", group |-> FrontCmd.group])

\* What the expression captures for the group begins with the space before it.
Captured(g) == IF g = NoGroup THEN NoGroup ELSE <<"space", g>>

NewContact(c, g) == [name |-> "newContactArrived", who |-> c, group |-> g]
Connected == [name |-> "connected"]

\* Mutant: the counter is looked at before it is decremented.
CountDownEarly(contact) ==
  /\ toCome' = toCome - 1
  /\ IF toCome = 2 THEN Send("CHG") /\ signals' = signals \o <<contact, Connected>>
                   ELSE SendNothing /\ Emit(contact)

\* The last contact ends the log-in.
CountDown(contact) ==
  /\ toCome' = toCome - 1
  /\ IF toCome' = 0 THEN Send("CHG") /\ signals' = signals \o <<contact, Connected>>
                    ELSE SendNothing /\ Emit(contact)

\* Mutant: an incomplete LST does not clear the flag.
ParseLstAtOnce ==
  /\ Handles("LST") /\ InParse
  /\ TakeComplete /\ CountDown(NewContact(FrontCmd.who, Captured(FrontCmd.group)))

ParseLst ==
  /\ Handles("LST") /\ InParse
  /\ \/ Wait
     \/ TakeComplete /\ CountDown(NewContact(FrontCmd.who, Captured(FrontCmd.group)))

ParseChl ==
  /\ Handles("CHL") /\ InParse
  /\ TakeComplete /\ Ask("QRY") /\ UseSocket /\ EmitNothing /\ UNCHANGED <<requests, toCome>>

StatusOf(c, status) == [name |-> "statusChanged", who |-> c, status |-> status]

\* m_buf.split(' ') splits all of m_buf: with more than six fields the second one is
\* taken for a transaction id, which an NLN does not have, and its state is not found.
MoreFields == got.nr > gone.nr + 1 \/ got.part > 1

ParseNln ==
  /\ Handles("ILN") \/ Handles("NLN")
  /\ InParse
  /\ \/ Wait
     \/ /\ TakeComplete /\ SendNothing /\ UNCHANGED toCome
        /\ IF FrontCmd.kind = "NLN" /\ MoreFields
             THEN EmitNothing
             ELSE Emit(StatusOf(FrontCmd.who, "on"))

\* parseNln registers the type State; without it no queue takes the signal.
Registered == \E i \in DOMAIN handled : handled[i].kind \in {"ILN", "NLN"}

ParseFln ==
  /\ Handles("FLN") /\ InParse
  /\ TakeComplete /\ SendNothing /\ UNCHANGED toCome
  /\ IF Registered THEN Emit(StatusOf(FrontCmd.who, "off")) ELSE EmitNothing

ParseUbx ==
  /\ Handles("UBX") /\ InParse
  /\ \/ Wait
     \/ /\ TakeComplete /\ SendNothing /\ UNCHANGED toCome
        /\ Emit([name |-> "personalMessage", who |-> FrontCmd.who])

\* The match ends with the payload: a line end after it stays in m_buf.
ParseNot ==
  /\ Handles("NOT") /\ InParse
  /\ \/ ~Complete /\ got.part < 4 /\ hasCommand' = FALSE /\ UNCHANGED <<gone, handled>>
     \/ /\ Complete \/ got.part = 4
        /\ Take([gone EXCEPT !.part = 4]) /\ UNCHANGED hasCommand
  /\ SendNothing /\ UNCHANGED toCome /\ EmitNothing

ParseOut ==
  /\ Handles("OUT") /\ InParse
  /\ TakeComplete /\ SendNothing /\ UNCHANGED toCome
  /\ EmitDisconnected("AtOtherPlace")

\* Without a display name only the line itself can match, with the id of a group the second
\* expression.  The contact arrives anew, without a status, whichever list it was added to.
ParseAdc ==
  /\ Handles("ADC") /\ InParse
  /\ \/ Wait
     \/ /\ TakeComplete /\ SendNothing /\ UNCHANGED toCome
        /\ IF FrontCmd.group = NoGroup
             THEN Emit(NewContact(FrontCmd.who, NoGroup))
             ELSE EmitNothing

\* F=(.*) takes lines, too: with a display name the match ends with the last line in m_buf
\* that ends with a number, and the commands before it are lost.
FirstLineEnd(n) == IF NumParts(sent[n].kind) = 3 THEN EndOf(n) ELSE [nr |-> n - 1, part |-> 3]
EndsInNumber(n) ==
  /\ sent[n].kind \in {"ADN", "CHG", "CHL", "ERR", "ILN", "MSG", "NLN", "NOT", "QRY", "UBX"}
  /\ ~Before(got, FirstLineEnd(n))

ParseAdcNamed ==
  /\ Handles("ADN") /\ InParse
  /\ \/ Wait
     \/ /\ Complete /\ UNCHANGED hasCommand
        /\ \E n \in gone.nr + 1 .. Len(sent) :
             /\ EndsInNumber(n) /\ \A i \in n + 1 .. Len(sent) : ~EndsInNumber(i)
             /\ Take(FirstLineEnd(n))
        /\ SendNothing /\ UNCHANGED toCome
        /\ Emit(NewContact(FrontCmd.who, NoGroup))

\* Both only say what was deleted.
ParseRem == IgnoreLine("REM")
ParseRmg == IgnoreLine("RMG")

-----------------------------------------------------------------------------
(* The main thread: Client's slots, and calls of the application *)

TakeSignal(name) ==
  /\ loop # "undefined" /\ taken < Len(signals) /\ signals[taken + 1].name = name
  /\ taken' = taken + 1
  /\ UNCHANGED <<server, got, parser>>

FrontSignal == signals[taken + 1]

\* Roster::getGroupName; a group's name is that of its identifier here.
GroupName(g) == IF g \in groups THEN g ELSE NoGroup

\* Roster::getContact makes the contact it does not find.
GetContact(c) == contacts' = [contacts EXCEPT ![c] = IF @ = "absent" THEN "off" ELSE @]

newGroupArrived ==
  /\ TakeSignal("newGroupArrived") /\ ~Deleted
  /\ groups' = groups \union {FrontSignal.group}
  /\ UNCHANGED <<loop, contacts, listed, connected, goodbyes>>

newContactArrived ==
  /\ TakeSignal("newContactArrived") /\ ~Deleted
  /\ listed' = Append(listed, [who |-> FrontSignal.who, group |-> GroupName(FrontSignal.group)])
  /\ contacts' = [contacts EXCEPT ![FrontSignal.who] = "off"]
  /\ UNCHANGED <<loop, groups, connected, goodbyes>>

statusChanged ==
  /\ TakeSignal("statusChanged") /\ ~Deleted
  /\ contacts' = [contacts EXCEPT ![FrontSignal.who] = FrontSignal.status]
  /\ UNCHANGED <<loop, groups, listed, connected, goodbyes>>

personalMessage ==
  /\ TakeSignal("personalMessage") /\ ~Deleted
  /\ GetContact(FrontSignal.who)
  /\ UNCHANGED <<loop, groups, listed, connected, goodbyes>>

\* These four use m_roster, also when it has been deleted.
slotWithoutRoster ==
  /\ \E name \in {"newGroupArrived", "newContactArrived", "statusChanged", "personalMessage"} :
       TakeSignal(name)
  /\ Deleted /\ loop' = "undefined" /\ UNCHANGED session

notifyConnect ==
  /\ TakeSignal("connected")
  /\ connected' = connected + 1
  /\ UNCHANGED <<loop, groups, contacts, listed, goodbyes>>

\* The roster and the socket are deleted: recv has the socket when parse has returned, and else
\* parse or a handler goes on until it uses it.
disconnected ==
  /\ TakeSignal("disconnected")
  /\ goodbyes' = Append(goodbyes, FrontSignal.reason)
  /\ loop' = IF loop = "running" /\ ~parsing THEN "undefined" ELSE loop
  /\ UNCHANGED <<groups, contacts, listed, connected>>

Slots == newGroupArrived \/ newContactArrived \/ statusChanged \/ personalMessage
         \/ slotWithoutRoster \/ notifyConnect \/ disconnected

\* Between being told of the connection and of the disconnection
Call(name) ==
  /\ name \in Calls
  /\ UNCHANGED events /\ called < MaxCalls /\ called' = called + 1
  /\ connected = 1 /\ ~Deleted /\ loop # "undefined"
  /\ UNCHANGED <<sent, link, online, redirects, got, parser, loop, taken, groups, listed,
                 connected, goodbyes>>

AskFor(rs) == asked' = IF link = "up" THEN asked \o rs ELSE asked
Request(name, c) == [cmd |-> name, who |-> c, group |-> NoGroup]

\* With a group it is an addition to that group; but Roster::getGroupId has no identifier for
\* a group it does not know, and makeCmd then writes an addition without group.
addContact(c, g) ==
  /\ Call("addContact")
  /\ IF g = NoGroup THEN UNCHANGED contacts ELSE GetContact(c)
  /\ AskFor(<<[Request("ADC", c) EXCEPT !.group = GroupName(g)]>>)

delContact(c) == Call("delContact") /\ GetContact(c) /\ AskFor(<<Request("REM", c)>>)

blockContact(c) ==
  /\ Call("blockContact") /\ UNCHANGED contacts
  /\ AskFor(<<Request("REM", c), Request("ADC BL", c)>>)

deblockContact(c) ==
  /\ Call("deblockContact") /\ UNCHANGED contacts
  /\ AskFor(<<Request("REM", c), Request("ADC AL", c)>>)

addGroup(g) ==
  /\ Call("addGroup") /\ UNCHANGED contacts
  /\ AskFor(<<[Asks("ADG") EXCEPT !.group = g]>>)

delGroup(g) ==
  /\ Call("delGroup") /\ UNCHANGED contacts
  /\ AskFor(<<[Asks("RMG") EXCEPT !.group = GroupName(g)]>>)

changeStatus == Call("changeStatus") /\ UNCHANGED contacts /\ AskFor(<<Asks("status")>>)

-----------------------------------------------------------------------------
(* The specification *)

\* m_contacts and m_hasCommand have no value yet; SYN and feed() give them theirs.
Init ==
  /\ sent = <<>> /\ got = EndOf(0) /\ gone = EndOf(0)
  /\ asked = <<Asks("VER")>> /\ link = "up" /\ online = FALSE
  /\ redirects = 0 /\ events = 0 /\ called = 0
  /\ hasCommand = FALSE /\ parsing = FALSE /\ toCome = 0
  /\ handled = <<>> /\ requests = <<"VER">> /\ loop = "running"
  /\ signals = <<>> /\ taken = 0
  /\ groups = {} /\ contacts = [c \in Contacts |-> "absent"]
  /\ listed = <<>> /\ connected = 0 /\ goodbyes = <<>>

LogIn == ParseVer \/ ParseCvr \/ ParseXfr \/ ParseGcf \/ ParseUsrTicket \/ ParseUsr
         \/ ParseMsg \/ ParseError
RosterArrives == ParseSyn \/ ParseGtc \/ ParseBlp \/ ParsePrp \/ ParseLsg \/ ParseLst \/ ParseBpr
Online == ParseChg \/ ParseChl \/ ParseQry \/ ParseNln \/ ParseFln \/ ParseUbx \/ ParseNot
          \/ ParseOut \/ ParseAdc \/ ParseAdcNamed \/ ParseRem \/ ParseRmg
Parse == LogIn \/ RosterArrives \/ Online \/ ParseReturns

InitLoop == Read \/ ReadFails \/ Parse

Application ==
  \/ \E c \in Moving :
       \/ \E g \in Groups \union {NoGroup} : addContact(c, g)
       \/ delContact(c) \/ blockContact(c) \/ deblockContact(c)
  \/ \E g \in Groups : addGroup(g) \/ delGroup(g)
  \/ changeStatus

Next == ServerAnswers \/ ServerPushes \/ ServerCloses \/ InitLoop \/ Slots \/ Application

Spec == Init /\ [][Next]_vars

\* The loop of init() goes on while the socket gives it something, the main thread's event loop
\* while signals are queued, and the server answers what it is asked.
FairSpec == Spec /\ WF_vars(InitLoop) /\ WF_vars(Slots) /\ WF_vars(ServerAnswers)

-----------------------------------------------------------------------------
(* Properties *)

\* Where the text of the commands handled ends: ParseNot leaves the last line end of a NOT.
HandledEnd ==
  IF handled # <<>> /\ Last(handled).kind = "NOT" THEN [nr |-> Len(handled) - 1, part |-> 4]
  ELSE EndOf(Len(handled))

\* However the stream is split, the handlers take whole commands that were received, each one once
\* and in the order of the server, greedy expressions included: what they removed is the text of the
\* first commands that were sent, until an ADC with a display name has come.
CommandsInOrder ==
  (\A i \in DOMAIN handled : handled[i].kind # "ADN") =>
    IsPrefix(handled, sent) /\ gone = HandledEnd /\ ~Before(got, gone)

\* When parse has returned, no complete command is left in m_buf, as long as no NOT came (what
\* ParseNot leaves of it is no command, and all that follows waits): the flag, names cut short
\* and the loop of parse leave behind at most the beginning of one command.
InBuffer(n) == ~Before(EndOf(n - 1), gone) /\ n <= got.nr
NothingWaits ==
  (\A i \in DOMAIN handled : handled[i].kind \notin {"NOT", "ADN"}) =>
    (loop = "running" /\ ~parsing => ~\E n \in DOMAIN sent : InBuffer(n))

\* The client asks for each step of the log-in once and in order, again from the start
\* after each transfer to another server, whatever else arrives meanwhile.
Prelude == <<"VER", "CVR", "USR I">>
Script(ticket) ==
  LET n == 3 * (redirects + 1) IN
  [i \in 1 .. n + 3 |-> IF i <= n THEN Prelude[((i - 1) % 3) + 1]
                        ELSE <<ticket, "SYN", "CHG">>[i - n]]
LoginScript == \E ticket \in {"USR S", "USR S empty"} : IsPrefix(requests, Script(ticket))

\* The application is told that it is connected at most once, and only when it has been
\* told of every contact of the list, in the server's order, and all groups are known.
ConnectedMeansRoster ==
  /\ connected \in {0, 1}
  /\ connected = 1 =>
       /\ Len(listed) >= Len(ContactList)
       /\ \A i \in DOMAIN ContactList : listed[i].who = ContactList[i].who
       /\ \A i \in DOMAIN ContactList : contacts[ContactList[i].who] # "absent"
       /\ Range(GroupList) \subseteq groups

\* While the connection stays up and the password is right, the log-in ends.
LogsIn == <>(connected = 1 \/ link = "closed" \/ loop # "running")

\* parse returns: the loop of init() goes on to the next read.
ParseEnds == parsing ~> (~parsing \/ loop = "undefined")

=============================================================================
