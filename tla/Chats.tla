------------------------------- MODULE Chats -------------------------------
(***************************************************************************)
(* The chats of a lib-im-msnp client: Client::initChat and chatRequest,    *)
(* and a ParserSB for each chat, which is a thread of its own.             *)
(*                                                                         *)
(* To invite a contact the application queues the passport and asks the    *)
(* notification server for a switchboard.  Every switchboard that is named *)
(* makes Client::chatRequest start a ParserSB, and the first of them that  *)
(* gets its USR answered takes the first passport of the queue, from its   *)
(* own thread.  A contact that invites the client makes the notification   *)
(* server send a RNG, which names the switchboard and the contact.         *)
(*                                                                         *)
(* The slots of Client and the application run in one thread, as in        *)
(* msn.cpp, and what the other threads emit waits in its queue.  The       *)
(* application answers messages; nothing tells it that a ParserSB has      *)
(* deleted its socket, except chatLeavedTheRoom once it takes it.          *)
(*                                                                         *)
(* The servers and the contacts are external.  Commands arrive whole, any  *)
(* number of them in one read; NotificationSession shows what a command    *)
(* that is cut does to parsers of this form.                               *)
(***************************************************************************)
EXTENDS Integers, Sequences, SequencesExt, FiniteSets, Functions

CONSTANTS
  Contacts, Nobody,
  MaxChats,     \* bound: chats the application or a contact asks for
  MaxTexts,     \* bound: messages the contacts write
  MaxRead,      \* bound: commands that arrive in one read
  MaxLosses     \* bound: connections that end without a BYE

ASSUME BoundsAssumption ==
  MaxChats \in Nat /\ MaxTexts \in Nat /\ MaxRead \in Nat \ {0} /\ MaxLosses \in Nat

ASSUME ContactsAssumption == Nobody \notin Contacts

ChatIds == 1 .. MaxChats

VARIABLES
  requests,      \* chat requests of the notification server, up to the slot chatRequest
  asked,         \* its XFR not answered yet
  rings,
  destPassport,  \* Client::m_destPassport
  invited,       \* the passports given to initChat, in order
  orderly,       \* each initChat came after the chats before it had called
  chatList,      \* Client::m_chatList: a ParserSB for each chat, in order
  board,         \* the switchboard of each chat
  signals,       \* signals of the chats not yet taken by the application's thread
  heard,         \* what the application was told in each chat
  crashed        \* "no", or what was missing: "passport", "socket"

client == <<destPassport, invited, orderly>>
server == <<requests, asked, rings>>
vars == <<client, server, chatList, board, signals, heard, crashed>>

\* TEXT is a MSG with a text; they are numbered.  A MSG with capabilities or of a contact
\* that is typing takes the same way and is left out; P2PTransfers has those of files.
Commands == [cmd: {"USR", "ANS", "JOI", "TEXT", "ACK", "BYE", "215", "217"},
             nr: Nat]
Cmd(c) == [cmd |-> c, nr |-> 0]

\* isMine: no session identifier, so the client starts the chat.  taken is the passport
\* in nextChatPassport, between reading and removing it; called the one in the CAL.
ParserSB == [isMine: BOOLEAN, thread: {"started", "running", "ended"}, socket: BOOLEAN,
             endChat: BOOLEAN, buf: Seq(Commands), taken: Contacts \union {Nobody},
             called: Contacts \union {Nobody}, said: Nat]

\* wire: commands not yet received; texts: how many the contact wrote; left: it left; lost: no BYE.
Switchboard == [stage: {"idle", "greeted", "ready", "calling", "talking", "left", "closed"},
                wire: Seq(Commands), texts: Nat, left: BOOLEAN,
                lost: BOOLEAN]

-----------------------------------------------------------------------------
(* The application and the slots of Client, in one thread *)

Alive == crashed = "no"

Called == {n \in DOMAIN chatList : chatList[n].called # Nobody}

initChat(who) ==
  /\ Alive /\ Len(invited) + rings < MaxChats
  /\ destPassport' = Append(destPassport, who)
  /\ invited' = Append(invited, who)
  /\ orderly' = (orderly /\ Cardinality(Called) = Len(invited))
  /\ asked' = asked + 1
  /\ UNCHANGED <<requests, rings, chatList, board, signals, heard, crashed>>


\* Mutant: the session identifier does not decide who starts the chat.
chatRequestMine ==
  /\ Alive /\ requests # <<>>
  /\ requests' = Tail(requests)
  /\ chatList' = Append(chatList,
          [isMine |-> TRUE, thread |-> "started", socket |-> FALSE, endChat |-> FALSE,
           buf |-> <<>>, taken |-> Nobody, called |-> Nobody, said |-> 0])
  /\ board' = Append(board, [stage |-> "idle", wire |-> <<>>, texts |-> 0, left |-> FALSE,
                             lost |-> FALSE])
  /\ heard' = Append(heard, <<>>)
  /\ UNCHANGED <<asked, rings, client, signals, crashed>>

\* The ParserSB is in m_chatList before its thread runs, and stays there.
chatRequest ==
  /\ Alive /\ requests # <<>>
  /\ requests' = Tail(requests)
  /\ chatList' = Append(chatList,
          [isMine |-> Head(requests) = "asked", thread |-> "started", socket |-> FALSE, endChat |-> FALSE,
           buf |-> <<>>, taken |-> Nobody, called |-> Nobody, said |-> 0])
  /\ board' = Append(board, [stage |-> "idle", wire |-> <<>>, texts |-> 0, left |-> FALSE,
                             lost |-> FALSE])
  /\ heard' = Append(heard, <<>>)
  /\ UNCHANGED <<asked, rings, client, signals, crashed>>

\* sendChat tests that the ParserSB is there, not that it has a socket.
sendChat(n) ==
  IF chatList[n].socket
  THEN /\ chatList' = [chatList EXCEPT ![n].said = @ + 1]
       /\ board' = [board EXCEPT ![n].wire = IF board[n].stage = "talking"
                                             THEN Append(@, Cmd("ACK")) ELSE @]
       /\ UNCHANGED crashed
  ELSE crashed' = "socket" /\ UNCHANGED <<chatList, board>>

\* A signal reaches the listener, which may answer a message in the same call.
SignalTaken ==
  /\ Alive /\ signals # <<>>
  /\ signals' = Tail(signals)
  /\ LET s == Head(signals) IN
     /\ heard' = [heard EXCEPT ![s.chat] = Append(@, [what |-> s.what, nr |-> s.nr])]
     /\ \/ UNCHANGED <<chatList, board, crashed>>
        \/ s.what = "TEXT" /\ chatList[s.chat].said = 0 /\ sendChat(s.chat)
  /\ UNCHANGED <<server, client>>

-----------------------------------------------------------------------------
(* A chat's thread *)

Chat(n) == Alive /\ n \in DOMAIN chatList

\* run: connect, and ANS or USR.  The result of connect is ignored: recv fails then.
RunStarts(n) ==
  /\ Chat(n) /\ chatList[n].thread = "started"
  /\ \/ /\ chatList' = [chatList EXCEPT ![n].thread = "running", ![n].socket = TRUE]
        /\ board' = [board EXCEPT ![n].stage = "greeted"]
     \/ /\ chatList' = [chatList EXCEPT ![n].thread = "ended"]
        /\ UNCHANGED board
  /\ UNCHANGED <<server, client, signals, heard, crashed>>

\* The thread reads when parse has taken all of m_buf and the chat is not over.
Recv(n) ==
  /\ Chat(n) /\ chatList[n].thread = "running" /\ chatList[n].buf = <<>>
  /\ ~chatList[n].endChat /\ chatList[n].taken = Nobody
  /\ \E k \in 1 .. Len(board[n].wire) :
       /\ k <= MaxRead
       /\ chatList' = [chatList EXCEPT ![n].buf = SubSeq(board[n].wire, 1, k)]
       /\ board' = [board EXCEPT ![n].wire = SubSeq(@, k + 1, Len(@))]
  /\ UNCHANGED <<server, client, signals, heard, crashed>>


\* Mutant: the socket is not deleted.
RunEndsWithSocket(n) ==
  /\ Chat(n) /\ chatList[n].thread = "running" /\ chatList[n].buf = <<>>
  /\ chatList[n].taken = Nobody
  /\ chatList[n].endChat \/ (board[n].wire = <<>> /\ board[n].stage = "closed")
  /\ chatList' = [chatList EXCEPT ![n].thread = "ended"]
  /\ UNCHANGED <<server, client, board, signals, heard, crashed>>

\* It leaves the loop when the chat is over, or the connection, and deletes the socket.
RunEnds(n) ==
  /\ Chat(n) /\ chatList[n].thread = "running" /\ chatList[n].buf = <<>>
  /\ chatList[n].taken = Nobody
  /\ chatList[n].endChat \/ (board[n].wire = <<>> /\ board[n].stage = "closed")
  /\ chatList' = [chatList EXCEPT ![n].thread = "ended", ![n].socket = FALSE]
  /\ UNCHANGED <<server, client, board, signals, heard, crashed>>

\* parse: the handler of the command at the front of m_buf, which it removes.
Parses(n, commands) ==
  /\ Chat(n) /\ chatList[n].buf # <<>> /\ chatList[n].taken = Nobody
  /\ Head(chatList[n].buf).cmd \in commands
  /\ UNCHANGED <<server, client, heard>>

Rest(n) == [chatList EXCEPT ![n].buf = Tail(@)]

\* ANS, JOI and ACK change nothing here, nor do the IRO and CAL that come before them;
\* an error other than 215 is logged.
parseSilently(n) ==
  /\ Parses(n, {"ANS", "JOI", "ACK", "217"})
  /\ chatList' = Rest(n)
  /\ UNCHANGED <<board, signals, crashed>>

Emit(n) == LET c == Head(chatList[n].buf) IN
  signals' = Append(signals, [chat |-> n, what |-> c.cmd, nr |-> c.nr])


\* Mutant: the text stays in m_buf.
parseMsgStays(n) ==
  /\ Parses(n, {"TEXT"})
  /\ Emit(n)
  /\ UNCHANGED <<chatList, board, crashed>>

parseMsg(n) ==
  /\ Parses(n, {"TEXT"})
  /\ chatList' = Rest(n)
  /\ Emit(n)
  /\ UNCHANGED <<board, crashed>>

\* The socket is closed, so what the server still writes is lost.
Close(n) == board' = [board EXCEPT ![n].stage = "closed", ![n].wire = <<>>]


\* Mutant: the leave is not reported.
parseByeSilently(n) ==
  /\ Parses(n, {"BYE"})
  /\ chatList' = [Rest(n) EXCEPT ![n].endChat = TRUE]
  /\ Close(n)
  /\ UNCHANGED <<signals, crashed>>

parseBye(n) ==
  /\ Parses(n, {"BYE"})
  /\ chatList' = [Rest(n) EXCEPT ![n].endChat = TRUE]
  /\ Emit(n)
  /\ Close(n)
  /\ UNCHANGED crashed

parseError(n) ==
  /\ Parses(n, {"215"})
  /\ chatList' = [Rest(n) EXCEPT ![n].endChat = TRUE]
  /\ Close(n)
  /\ UNCHANGED <<signals, crashed>>

\* parseUsr calls nextChatPassport, which reads the first passport of the queue ...
parseUsr(n) ==
  /\ Parses(n, {"USR"})
  /\ IF destPassport = <<>>
     THEN crashed' = "passport" /\ UNCHANGED chatList
     ELSE /\ chatList' = [Rest(n) EXCEPT ![n].taken = Head(destPassport)]
          /\ UNCHANGED crashed
  /\ UNCHANGED <<board, signals>>


\* Mutant: the passport is not removed.
nextChatPassportStays(n) ==
  /\ Chat(n) /\ chatList[n].taken # Nobody
  /\ chatList' = [chatList EXCEPT ![n].called = chatList[n].taken, ![n].taken = Nobody]
  /\ board' = [board EXCEPT ![n].stage = IF @ = "ready" THEN "calling" ELSE @]
  /\ UNCHANGED <<server, client, signals, heard, crashed>>

\* ... and then removes the first one; nothing keeps another chat out meanwhile.
nextChatPassport(n) ==
  /\ Chat(n) /\ chatList[n].taken # Nobody
  /\ IF destPassport = <<>>
     THEN crashed' = "passport" /\ UNCHANGED <<destPassport, chatList, board>>
     ELSE /\ destPassport' = Tail(destPassport)
          /\ chatList' = [chatList EXCEPT ![n].called = chatList[n].taken, ![n].taken = Nobody]
          /\ board' = [board EXCEPT ![n].stage = IF @ = "ready" THEN "calling" ELSE @]
          /\ UNCHANGED crashed
  /\ UNCHANGED <<server, invited, orderly, signals, heard>>

parse(n) ==
  \/ parseSilently(n) \/ parseMsg(n) \/ parseBye(n) \/ parseError(n)
  \/ parseUsr(n) \/ nextChatPassport(n)

run(n) == RunStarts(n) \/ Recv(n) \/ parse(n) \/ RunEnds(n)

-----------------------------------------------------------------------------
(* The servers and the contacts *)

\* The notification server names a switchboard for each XFR.
ServerAnswersXfr ==
  /\ Alive /\ asked > 0
  /\ asked' = asked - 1
  /\ requests' = Append(requests, "asked")
  /\ UNCHANGED <<rings, client, chatList, board, signals, heard, crashed>>

ContactInvites ==
  /\ Alive /\ Len(invited) + rings < MaxChats
  /\ rings' = rings + 1
  /\ requests' = Append(requests, "rung")
  /\ UNCHANGED <<asked, client, chatList, board, signals, heard, crashed>>

\* The switchboard writes the commands cs, and is then in another stage.
Board(n, stage, cs, next) ==
  /\ Chat(n) /\ board[n].stage = stage
  /\ board' = [board EXCEPT ![n].stage = next, ![n].wire = @ \o cs]
  /\ UNCHANGED <<server, client, chatList, signals, heard, crashed>>

BoardGreets(n) ==
  IF chatList[n].isMine THEN Board(n, "greeted", <<Cmd("USR")>>, "ready")
  ELSE Board(n, "greeted", <<Cmd("ANS")>>, "talking")

BoardCalls(n) ==
  \/ Board(n, "calling", <<Cmd("JOI")>>, "talking")
  \/ \E error \in {"215", "217"} : Board(n, "calling", <<Cmd(error)>>, "left")

ContactWrites(n) ==
  /\ Chat(n) /\ board[n].stage = "talking"
  /\ FoldFunction(LAMBDA b, sum : b.texts + sum, 0, board) < MaxTexts
  /\ board' = [board EXCEPT ![n].texts = @ + 1,
                            ![n].wire = Append(@, [cmd |-> "TEXT", nr |-> board[n].texts + 1])]
  /\ UNCHANGED <<server, client, chatList, signals, heard, crashed>>

ContactLeaves(n) ==
  /\ Chat(n) /\ board[n].stage = "talking"
  /\ board' = [board EXCEPT ![n].stage = "left", ![n].left = TRUE, ![n].wire = Append(@, Cmd("BYE"))]
  /\ UNCHANGED <<server, client, chatList, signals, heard, crashed>>

\* The connection ends; what was written before still arrives.
BoardCloses(n) ==
  /\ Chat(n) /\ board[n].stage \notin {"idle", "closed"}
  /\ Cardinality({k \in DOMAIN board : board[k].lost}) < MaxLosses
  /\ board' = [board EXCEPT ![n].stage = "closed", ![n].lost = TRUE]
  /\ UNCHANGED <<server, client, chatList, signals, heard, crashed>>

-----------------------------------------------------------------------------
Init ==
  /\ requests = <<>> /\ asked = 0 /\ rings = 0
  /\ destPassport = <<>> /\ invited = <<>> /\ orderly = TRUE
  /\ chatList = <<>> /\ board = <<>> /\ signals = <<>> /\ heard = <<>>
  /\ crashed = "no"

Next ==
  \/ chatRequest \/ SignalTaken \/ ServerAnswersXfr
  \/ ContactInvites \/ \E who \in Contacts : initChat(who)
  \/ \E n \in DOMAIN chatList :
       run(n) \/ BoardGreets(n) \/ BoardCalls(n) \/ ContactWrites(n) \/ ContactLeaves(n)
              \/ BoardCloses(n)

Spec == Init /\ [][Next]_vars

\* Each thread of the client runs.
Fairness == WF_vars(chatRequest) /\ WF_vars(SignalTaken) /\ \A n \in ChatIds : WF_vars(run(n))

FairSpec == Spec /\ Fairness

-----------------------------------------------------------------------------
(* Properties *)

\* The chats up to the n-th that the client starts.
MineUpTo(n) == {m \in 1 .. n : chatList[m].isMine}

\* Type correctness; a chat's socket is there exactly while its thread runs, and only
\* a chat the client starts takes a passport.
TypeOK ==
  /\ requests \in Seq({"asked", "rung"}) /\ asked \in 0 .. MaxChats
  /\ rings \in 0 .. MaxChats
  /\ destPassport \in Seq(Contacts) /\ invited \in Seq(Contacts) /\ orderly \in BOOLEAN
  /\ chatList \in Seq(ParserSB) /\ board \in Seq(Switchboard)
  /\ signals \in Seq([chat: DOMAIN chatList, what: {"TEXT", "BYE"},
                      nr: Nat])
  /\ heard \in Seq(Seq([what: {"TEXT", "BYE"}, nr: Nat]))
  /\ DOMAIN board = DOMAIN chatList /\ DOMAIN heard = DOMAIN chatList
  /\ crashed \in {"no", "passport", "socket"}
  /\ \A n \in DOMAIN chatList :
       /\ chatList[n].socket <=> chatList[n].thread = "running"
       /\ chatList[n].taken # Nobody \/ chatList[n].called # Nobody => chatList[n].isMine

\* nextChatPassport never reads or removes from an empty queue: whatever the threads
\* do, there are passports for all the chats that have still to call.
PassportsSuffice == crashed # "passport"

\* As long as the application invites only when the chats before have called, the chats
\* it starts call the contacts it invited, in that order.
CallsTheInvited ==
  orderly => \A n \in DOMAIN chatList :
    chatList[n].isMine =>
      chatList[n].called \in {Nobody, invited[Cardinality(MineUpTo(n))]}

\* In each chat the application hears what the contact of that chat wrote, in order and
\* once, and nothing after it left.
HeardAsWritten ==
  \A n \in DOMAIN heard : \A k \in DOMAIN heard[n] :
    /\ heard[n][k].what = "TEXT" => heard[n][k].nr = k
    /\ heard[n][k].what = "BYE" => k = Len(heard[n]) /\ k = board[n].texts + 1

\* A contact that leaves is reported, unless the client has used a socket that was
\* deleted meanwhile.
HasLeft(n) == n \in DOMAIN board /\ board[n].left
ToldLeft(n) == n \in DOMAIN heard /\ \E k \in DOMAIN heard[n] : heard[n][k].what = "BYE"

LeaveIsHeard == \A n \in ChatIds : HasLeft(n) ~> ~Alive \/ ToldLeft(n)
=============================================================================
