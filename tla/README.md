# TLA+ models of the Kinapsis messaging libraries

The repository holds three Qt 4 C++ libraries: `liboscar` (the ICQ/AIM protocol),
`lib-im-msnp` (the MSN protocol) and `libparser` (import of the settings of other
messengers). This directory holds TLA+ models of their core logic, the TLC
configurations that check them on small instances, and proofs checked by TLAPS.

`PROJECT.json` lists the components, runs, mutants, findings, hazards and theorems,
and maps each definition to the lines it models.

## Inventory

Paths are relative to `src/liboscar/trunk/src` (O) and `src/lib-im-msnp/trunk/src` (M).

| Component | State | Operations | Correct when |
|---|---|---|---|
| Roster (O `roster.cpp`, `rosterprocess.cpp`, `sblitem.cpp`, `snac_roster.cpp`) | list of items, identifiers in use, one remembered edit (`m_op`, `m_oitem`) | addContact, delContact, setVisibleStatus, setInvisibleStatus; slots for the roster and for acknowledgements | the local list follows the list the server stores; an answer is applied to its own edit; no null item or group is used |
| Session (O `client.cpp`, `service.cpp`, `loginservice.cpp`, `loginst1process.cpp`, `loginst2process.cpp`, `servicesetupprocess.cpp`) | the client thread, a login service with its own thread, `m_logged`, the BOS connection, the reply counter | connect, disconnect; slots for the connection events and for the server's login, set-up and roster replies | each attempt's outcome is reported once, rightly, and in time; a lost session can be replaced |
| Stream (O `connection.cpp`, `parser.cpp`, `oscarparser.cpp`, `flap.cpp`, `buffer.cpp`) | the bytes received and not parsed, a sequence number | read, add, parse, pack | what is dispatched is what was sent, whatever pieces it came in |
| File transfer (O `filetransferprocess.cpp`, `filesendservice.cpp`, `filereceiveservice.cpp`, `ftstatus.cpp`, `ftdata.cpp`) | a map from cookies to transfers, a service and thread for each, a stage (direct, proxy 1, proxy 2) | sendFile, acceptFileTransfer; slots for messages, proxy answers and the end of a service | an offer can be answered; a transfer has one service at most; each end belongs to its transfer |
| OFT parsers (O `oftparser.cpp`, `oftproxyparser.cpp`) | unparsed bytes, raw mode | parse, setRaw | as for the stream |
| Messages, presence, avatars (O `message.cpp`, `presenceprocess.cpp`, `avatarprocess.cpp`, `offlinemessagesprocess.cpp`) | the away message, a list of offline messages, requested icons | sendMessage, setPresence, sendTypingNotice; slots for messages, statuses and away messages | texts arrive once, in order and as written; the status shown is the contact's; automatic answers end |
| Wire formats (O `tlv*.cpp`, `snac*.cpp`, `flap.cpp`, `buffer.cpp`, `capabilities.cpp`) | the family table of the parser | parse, pack | what one side packs the other reads, field by field, and nothing of what follows |
| UIN registration (O `uinregistrationprocess.cpp`, `uinregistrationservice.cpp`, `snac_newuser.cpp`) | a service | request, reply | the new number is reported |
| Notification server (M `client.cpp`, `parsernotificationserver.cpp`, `msocket.cpp`, `roster.cpp`) | socket, text buffer, transaction ids, contacts still to come | connect, contact operations; one handler for each command | the log-in ends in connected or disconnected; commands split over reads are put together |
| Switchboard (M `parserswichboardserver.cpp`, `client.cpp`) | a thread, socket and buffer per chat, the queue of invited passports | initChat, sendChat; one handler for each command | each chat invites the contact it was opened for; what is written is heard once, and a leave is reported |
| MSN file transfer (M `parserswichboardserver.cpp`, `parserp2p.cpp`, `transfer.cpp`, `cmdp2p.cpp`) | the transfers of a chat under the identifier of their last message | acceptFileTransfer; one branch for each kind of peer-to-peer message | a message is applied to its own transfer; a file is whole when it is finished; each offer ends once |
| MSN authentication (M `soap.cpp`, `challenge.cpp`) | none | a ticket for a challenge | out of reach: hashing and HTTPS |
| libparser (`manager.cpp`, `parserkopete.cpp`, `parserpidgin.cpp`) | the accounts, groups, contacts and logs read so far | parser | contacts are taken over with their groups, logs once and under their account |

How they interact (liboscar). The application calls `Client`, whose process objects
(`RosterProcess`, `LoginSt2Process`, `ServiceSetupProcess`, `FileTransferProcess`, ...)
write FLAPs to the BOS `Connection`. `Connection::read` feeds `OscarParser`, which
emits one signal for each SNAC it knows; the processes' slots react and emit signals to
the application's listeners. `Client` and every `Service` are also threads: the login
service runs its connection in its own thread, and a signal whose receiver lives in
another thread is queued in that thread's event loop.

How they interact (lib-im-msnp). `Client::connect` blocks in the loop of `ParserNS`, whose handlers write
requests and emit signals. In the repository's application (`msn.cpp`) `Client` is made in the main thread (`msn.cpp:27`)
and `connect` is called from `MsnTest::run` (`msn.cpp:182`), a thread of its own, in which `ParserNS` is then made: so its
signals wait in the main thread's queue for `Client`'s slots, which tell the application's listeners. Each
chat is a thread of its own with a `ParserSB`, started when the notification server names a switchboard; what a
chat emits waits in the queue of the application's thread, while the chat itself calls back into `Client`
for the passport to invite, and the application calls into the chat to write or to accept a file.

libparser runs once, in one thread, from files to lists.

What is hard here: one memory cell for the pending roster edit while the protocol allows
several; three threads in one login; slots that delete what another thread is using; state that survives into the next session (`m_logged`,
`m_count`, `m_op`, the parser's buffer); no timers; copies of transfer records; a queue of passports that
several threads read and shorten; transfers told apart by guessing the nearest identifier; automatic answers to
automatic messages; nested formats whose lengths must agree; parsers that meet cut input or several
commands at once; text captured with one character too many; directory entries chosen by position. The
`hazards` of `PROJECT.json` list these at their lines.

## Modules

| Module | Models |
|---|---|
| `RosterSync`, `MCRosterSync` | Roster and RosterProcess, with the server, the network and the application |
| `ContactList` | abstract specification of RosterSync |
| `RosterSync_proofs` | the theorems about RosterSync |
| `ClientSession` | Client, LoginService and the set-up processes over three threads |
| `ClientSession_proofs` | the theorems about ClientSession |
| `FlapStream`, `MCFlapStream` | Connection::read, Parser::add, OscarParser::parse, FLAP::pack |
| `FlapStream_proofs` | the theorems about FlapStream |
| `SnacWire` | what is inside a FLAP: buffers, TLVs, SNACs, the login packets, and what OscarParser reads of them |
| `SnacRelay`, `MCSnacRelay` | two liboscar clients and a server that exchange SnacWire's packets |
| `OscarMessage`, `StatusTLV` | class Message on its three channels; the codes of statuses |
| `Messaging`, `MCMessaging` | texts, presence, away messages, offline messages and file offers between liboscar clients |
| `Messaging_proofs` | the theorems about Messaging |
| `NotificationSession`, `MCNotificationSession` | ParserNS, the slots of the MSN Client and its Roster, with the notification server |
| `NotificationSession_proofs` | the theorems about NotificationSession |
| `Chats`, `MCChats` | the chats of the MSN Client: chat requests, passports and a ParserSB thread each |
| `Chats_proofs` | the theorems about Chats |
| `P2PTransfers`, `MCP2PTransfers` | the peer-to-peer part of ParserSB::parseMsg with ParserP2P and Transfer |
| `P2PTransfers_proofs` | the theorems about P2PTransfers, and that it implements FileOffers |
| `FileOffers` | abstract specification of P2PTransfers, as its application sees it |
| `LogImport`, `MCLogImport` | Manager, ParserKopete and ParserPidgin of libparser |
| `QueueLemmas` | lemmas about sequences as queues and about counting what waits in them, which the proofs share |

`Messaging` composes `OscarMessage` and `StatusTLV`, `SnacWire` builds on both, and `SnacRelay` runs `SnacWire`
on two sides; `RosterSync` implements `ContactList` and `P2PTransfers` implements `FileOffers`.

### RosterSync

State: `data` is `Roster::m_data`, `idmap` the keys of `m_idmap`, `op` and `oitem` are
`m_op` and `m_oitem`; `toServer` and `toClient` are what TCP carries in order; `server`
is the list the server stores. An item in memory is a wire record with an address, because
`delItem` compares pointers; `made` numbers the addresses. `crashed` is set by a null
dereference, after which nothing happens.

Actions: `AddContact`, `DelContact`, `SetVisibleStatus`, `SetInvisibleStatus` are the
requests of `Client`; each writes ADDSTART, the item and ADDEND in one handler, hence one
message. `HandleUpdateAck` is the slot for the acknowledgement with everything it calls:
`reportSuccess`, or the authorization retry through `addContact`, or nothing for a refusal.
`RosterArrived` is `rosterArrivedSlot` with `Roster::parse`, which appends. `ConnectionLost`
empties the network and leaves the client's objects alone. `Client::addContact` passes no group,
so the master group (name "") is looked up.

External: the server answers in order, grants an addition only if the pair of group and item id is
free, may refuse anything, and may ask for authorization once for each addition that lacks it.
It sends each group before its buddies. Only this client edits the list: an edit
pushed by another client is a command the parser drops (`oscarparser.cpp:548`).

Abstracted: nicknames, TLVs other than the authorization one, time stamps, the wire form.

### ClientSession

Three threads: M (application, slots of `Client`, BOS connection), C (`Client::run`; slots of
the `LoginService` it made) and L (`Service::run`; the login connection). `cq` and `mq` are
the queues of C and M. `login[a]` is the login service of attempt `a` with its socket
(`link`), `m_err` (`err`), whether `m_reason` was set, whether `exit()` was called and `run()` ended;
`bos` and `kicked` remember what the login server said. `logged` is `m_logged`, `count` is
`ServiceSetupProcess::m_count`, `told` collects what the listener heard.

A remote close makes the socket report an error and then the disconnection, so the queue receives both, and
the BOS slots both run (the application is told twice). L goes on running when C has
left its loop, and C's events wait for the next `connect()`.

Abstracted: the contents of families, versions and rates; the roster sent in several parts makes
`FinishedConnection` happen several times. The reason the BOS server gives for throwing the user
out is only stored by the code (`client.cpp:414`). `connect()` while C runs does nothing and is
a stuttering step. The application calls `disconnect()` only when the connection is up:
earlier, the code either ignores it or has no connection object (`client.cpp:255`).

### FlapStream

Bytes are numbers. `sent`, `stream` and `arrived` describe what the peer wrote and how much of it
the socket handed over; `buf` is `m_buf`; while `parsing` is true `parse()` is running, and
each FLAP it dispatches is one step. `ConnectionLost` keeps `buf`, because `Client::create`
makes the parser once; `leftover` records that it held bytes. What it held makes a FLAP with the beginning of the new
connection's bytes, or is discarded with them. `inStep` and `since` are history: whether the parser has, after that, come
upon the end of a FLAP of the new connection with nothing left, and which FLAP that was (`Returns`). `ToChar` and `ToByte`
model the signed characters of QByteArray and the cast of `Parser::add`.

### NotificationSession

A session has two threads. In that of the parser `Client::connect` calls `ParserNS::init`, whose
loop waits for bytes (`Read`, `ReadFails`), appends them to `m_buf` (`Feed`) and runs
`parse`. While `parsing` is true the loop of `parse` is running, and each handler is an action
(`ParseVer`, ..., `ParseOut`). `hasCommand` is `m_hasCommand`, `toCome` is `m_contacts`. What the handlers emit is appended to
`signals`. In the main thread `Client`'s slots (`newGroupArrived`, `newContactArrived`, `statusChanged`, `personalMessage`,
`notifyConnect`, `disconnected`) take the signals in order, at any later time; `taken` counts them, so that the queue is what is
behind it. `notifyConnect` is the slot `connected`, whose name a variable has here. `disconnected` is connected to its signal twice, and runs twice. A signal with an argument of a type that is not registered is not queued:
`State` is registered in `parseNln` only (`parsernotificationserver.cpp:433`), so an FLN before any NLN is told to nobody.

Text. A command has `NumParts` parts: two letters of its name, the rest of its first line, the line
end, and its payload if it has one. TCP neither loses nor reorders text, so the buffer is given by two positions in what
the server wrote (`sent`): `got`, up to where it was received, and `gone`, up to where the handlers removed it. `m_buf` is
the text between them, and a position is a number of whole commands and a number of parts of the next. A read may end after any whole command and inside a name;
the commands in `Cuttable` may be cut between any two parts. When its command is not complete a handler either
waits (`Wait` clears the flag) or, where the code has no such branch, is not enabled: `parse` calls it
for ever, which the model shows as a loop that stutters. Expressions with `[\d|\D]*` match to the last
line end in the buffer (`TakeGreedily`). `Captured` is the group of a contact as the expression of LST gives
it, with a space in front.

Calls. Once it is connected the application may add, delete, block and deblock contacts, add and delete groups and
change its status (`Application`). Each call writes one or two requests and waits for nothing; the answers come through
the handlers like anything else. An ADC with a display name (`ADN`) ends with `F=(.*) \d+`, which takes lines
too: the match goes on to the last line in the buffer that ends in a number, and the commands it runs over are lost
(`ParseAdcNamed`). `CommandsInOrder` and `NothingWaits` speak of sessions in which no such ADC has come.

External: the server answers requests in order, may redirect, refuse the password or a call, close the connection, and
pushes commands once the client is online. `Challenge` gives a ticket or none.

`disconnected` deletes the socket and the roster beside the loop of `init`, in whatever state that is. From then on a handler
that sends, a `parse` that returns to `recv`, or a slot that needs the roster uses a deleted object: `loop` becomes
`undefined` and the model stops there (`msn.cpp:26` says "segfault if bad password"). A connection that is lost makes `init` and `connect` return
(`loop = "returned"`); the code tells nobody.

`handled` is history: the commands the handlers took off the buffer. It is empty again when a redirection replaces the
server, with `sent` and both positions; a server that redirects its client has written nothing behind the XFR.

### Chats

State: `chatList` is `Client::m_chatList` with the thread, socket and `m_buf` of each `ParserSB`; `destPassport` is
`m_destPassport`; `board` is the switchboard of each chat, `signals` the queue of the application's thread,
`heard` what it was told. `crashed` is set by reading from an empty queue of passports or by using a deleted
socket; nothing happens after it. The second one happens: `sendChat` (`client.cpp:94`) tests that the
`ParserSB` is there and not that it has a socket, and a chat that ended stays in the list.

Actions: `initChat` and `chatRequest` are the calls and the slot of `Client`; `RunStarts`, `Recv`, `RunEnds` and
one action per handler (`parseUsr`, `parseMsg`, `parseBye`, `parseError`) are a chat's thread. `nextChatPassport` reads
the first passport and removes the first passport in two steps, because nothing excludes another chat's thread between
them. `orderly` remembers whether the application invited only when the earlier chats had called: only then
does each chat call the contact it was opened for; otherwise two chats that get their USR at once may swap or repeat.

External: the notification server names a switchboard for each request; the switchboard greets, calls or refuses,
and hands on what the contact writes; connections may be lost. A lost connection without BYE ends the thread
and is told to nobody.

Abstracted: IRO and CAL are folded into `parseSilently`, messages with capabilities and typing notices are left
out. Commands arrive whole: a MSG cut in its payload waits for more in `ParserSB`, and an unknown command stays at the
front of the buffer (`parserswichboardserver.cpp:901`). The transaction counter and the socket are shared by a
chat's thread and the application's; both are taken to be used one call at a time.

### P2PTransfers and FileOffers

State: `FTList` is `ParserSB::m_FTList`, a map from the identifier of a transfer's last message to its `Transfer`;
`ftid` is `m_ftid`; `files` holds what was appended to each destination. A message carries no name of its
transfer that the code reads, so `Nearest` is the loop `while (++desp)`, which tries smaller identifiers, and when
there are none wraps to the greater ones. On an empty list the loop has nothing to find; `spins` is the
thread that does not leave it.

Actions: the peer invites, acknowledges, asks for a channel, sends chunks and ends or gives up; `parseMsg` is the
disjunction of its branches, each with the search and the move to the new key before it (`Listed`, `Stepped`);
`SignalTaken`, which passes an end on under whatever identifier it has, and `acceptFileTransfer` are the application's thread. `EMOTICON` is a picture that the peer asks
for, prepared without the application. `m_ftId` of such a transfer is never set (`transfer.cpp:18`): `StaleIds` are the values its memory may hold, and the end of
the picture is told under that number, an identifier of a file among them.

`FileOffers` is what a `FileTransferListener` is promised: an offer is accepted or not, and ends once, as finished only
when it was accepted. The refinement maps an offer to what the application did and heard; once the Transfer of a picture or a webcam
has its identifier, the offer is `shared` and nothing more is promised of it, while the promises to the others stay.

Abstracted: progress signals; webcams behave as files up to the offer that is not made; the acknowledgement of a
negotiation, which names the client's own identifier; the identifiers the client draws with `srand(time(0))`, equal
for two transfers in one second; the answers to a file the client sends. `cmdp2p.cpp:122` assigns in a condition
and changes only the wire form.

### OscarMessage, StatusTLV and Messaging

`OscarMessage` is the pure part of class `Message`: what `pack` writes on channels 1, 2 and 4, and what `parse` makes of
what comes. A text is a number and a form, so that a text written in an encoding that lacks its characters is
`garbled`. `StatusTLV` holds the codes of statuses, as written and as read.

`Messaging` runs two liboscar clients (`Client` with `PresenceProcess`, `OfflineMessagesProcess` and
`FileTransferProcess`) and an official client at one server. A session starts settled; losing it and coming back
are `BOSDisconnected` and `finishedConnection`. `stored` are the texts the server keeps: the client asks for them
and reads them, but the slots that would tell them are connected to nothing (`oscarparser.h:93`), so they are
lost, and since they are not deleted either they come again; the properties speak of texts that arrive in a session.
A client that shows a contact as away asks for the away message; on ICQ this is a message of channel 2 to the
contact, whose client answers it. An answer would be answered in its turn, but every message of
channel 2 is packed with the capability of file transfers (`message.cpp:291`): the other side takes it for an
offer with cookie 0 and does not answer. `NetworkFallsQuiet` holds for this reason only.

`transfers`, `services`, `hears` and `offers` are the file transfers. An accepted transfer runs on a copy, so its
end finds no service, and `disconnect` of the default service disconnects every listener (`hears`): later offers
reach `m_transfers` and nobody else. Texts in requests of channel 2 are dropped, as in the code; an ACCEPT or CANCEL is told
as an empty message, which `told` does not record. `due` are the texts relayed in the current session, so not those that the
server kept. Errors of messages are not modelled.

### SnacWire and SnacRelay

`SnacWire` works on bytes: `Buffer`'s numbers and strings in both orders, TLVs and chains, one operator for each SNAC a
client writes, and for each SNAC the server writes the parser of its class. `parseFLAP` is `OscarParser`'s dispatch by
channel, family and command, with the extra data of flag 0x8000 skipped in the service and roster families only. What
a class reads is an entry: its name and the fields it keeps.

`SnacRelay` logs one client in (`stage`: hello, verdict, second connection with the cookie, connected, closed) and then
lets the other set its presence, write, authorize, upload an icon and leave, while the server sends the SNACs
the parser acts on. The server reads each request by the protocol's fields and relays some TLVs as the bytes they
came as, so what one client packs, another parses.

Faithful details: ports have four digits; `UserInfo` with class bit 0x20 sets AWAY and a later status TLV overrides it; an
away message keeps its trailing NUL; more than ten capabilities are dropped; an unknown error code leaves the error
unset; `m_fam` survives a session; the cookie of a migration is parsed and not passed on (`oscarparser.cpp:293`); of a typing
notice of 12 bytes or fewer nothing is read. `Buffer` checks a length against the whole buffer and not against what is left of it
(`buffer.cpp:176`), so on malformed data it reads past its end: such a read has no value in `SnacWire`, and TLC would stop at it.
Left out: icons of contacts, roster items as they are written, ROSTEROK, registration, and the contents of the SNACs that
the code takes note of without reading them (families, rates and some of the other families' answers).

### LogImport

`home` is the home directory, chosen at the start; `parser()` is a loop of small steps, one per entry of a list or
iteration of a loop. `Insert` is `QList::insert`, which puts a group with an index past the end at the end;
`Listed` is the loop that skips the first two entries of a directory by position, so that of the names that sort before
`.` and `..` the first two are lost and the dots are taken for logs, of which nothing is read (`TakenForDots`); `Directory` has the path that
is put together wrongly after the first MSN account (`parserkopete.cpp:115`). A contact whose group index the list
does not have aborts the program in `QList::at`. Pidgin's parser accumulates a top-level element into one string;
the model records one entry for each contact in it. The parsers of Psi, Mercury and aMSN are stubs. `Manager` searches
Pidgin only (`manager.cpp:87`).

## Runs

| Run | Shows |
|---|---|
| `roster_waiting` | safety, liveness and refinement for an application that waits for each answer |
| `roster_overlap` | violation: with two edits under way an answer adds the wrong item |
| `session_two` | two connects under every interleaving and loss: right and timely reports |
| `session_relogin` | violation: a failed login after an earlier session is never reported |
| `flap_pieces` | any cutting of the stream gives the same FLAPs, none is kept waiting, and a parser that a lost connection put out of step gets back into it |
| `ns_login` | the MSN log-in, between two threads: commands whole and in order, each request once, the application told of the whole list before `connected`, and the log-in ends |
| `ns_cut` | violation: a MSG cut in two makes `parse` loop for ever |
| `chats_two` | two MSN chats: passports suffice, each calls the invited, texts are heard as written and leaves are heard |
| `p2p_files` | three transfers at once: no message goes to another's transfer, files are whole, each offer ends once unless a picture shares its identifier, what is accepted ends |
| `messaging_two` | two liboscar clients and an official one: texts, statuses and away messages arrive, offers can be answered, automatic answers end |
| `snac_relay` | byte by byte, what a client or the server packs is read as it was meant, from the login to the close, but for the cookie of a migration |
| `import_home` | the import takes contacts with their groups and logs once, under the right names, except the two names that are taken for the dots |

Bounds and why they are enough:

- RosterSync: two contacts, so that an answer can be applied to the wrong one; two stored lists (a bare
  master group, a second group with a buddy); `MaxObjects = 6` leaves room for the list read twice
  and two edits; one lost connection. `MaxPending = 1` is the application that waits; the
  overlap run has 2, the least with which `m_oitem` can be overwritten.
- ClientSession: two attempts, the least in which state can be stale; five families as in the code.
- FlapStream: three FLAPs of two kinds, one empty and one whose data begins with the magic number and
  holds a byte above 127; every cut; one lost connection, before and in the middle of any FLAP.
- NotificationSession: two contacts, one with a group and one without, the least for which the countdown
  can go wrong in either direction and presence can belong to the wrong one; one redirection, so that a second
  log-in begins with what the first left, or one pushed command (`MaxEvents` counts both), and one call (`MaxCalls`), so that one
  command can be behind another in the buffer and an answer between them; the queue between the threads has no bound, and pushes, calls
  and first presences are about one contact (`Moving`), as no handler looks at a contact but its own. Pushed are the
  commands whose handlers differ; ADN and REM come as answers to calls.
  In `ns_login`, `Cuttable` holds the commands whose handlers wait; `ns_cut` shows what happens to one
  whose handler does not. An account without contacts is left out: its log-in never ends, since only an LST
  decrements the counter.
- Chats: two chats, either both asked for, or both of a contact, or one of each, the least in which two threads meet at
  the queue; two texts and reads of two commands, so that a command can lie behind another in the buffer and behind
  the end of the chat; one lost connection.
- P2PTransfers: two files, one of them offered in two messages, and a picture between their identifiers, so that a
  smaller and a greater neighbour can be mistaken; two chunks; at most two transfers going at once and two messages
  on their way. The memory of a new Transfer's `m_ftId` holds 0 or the identifier of the first file (`StaleIds = {0, 1}`). Identifiers stay below `SignBit`: from there on they are all read as 0 (`parserp2p.cpp:31`), and
  `EntriesFollowTheirTransfer` is false.
- Messaging: two clients and three calls, which is an away status, a lost session and a text, or an offer, its answer
  and the next offer; both protocols, with and without an away message.
- SnacRelay: three steps after the login, with every SNAC of the server among them; names of different lengths; a
  password longer than the table it is hidden with; values with both bytes used.
- LogImport: accounts in both orders and with names the expression cuts to the same; groups in order, with a gap and out
  of order; every set of seven logs over two protocols, two accounts and different positions in their directories, with none to three
  names that sort before the dots in one of them.

Deadlock is not checked where the application or the peer may simply stop.

Every property of a passing run has a mutant in `PROJECT.json`: a plausible slip in the code (a
dropped case, a swapped order, a missing reset) that makes TLC find the property violated. The mutants' bodies
stand beside the definitions they replace.

Fairness. RosterSync: weak fairness of `HandleUpdateAck` (the event loop) and `ServerAnswers`;
none for the application or for losses. ClientSession: weak fairness of each thread's steps and of the
BOS server answering or closing; the code has no timer, so without a server that does one or the
other the first connect may stay unanswered. NotificationSession:
weak fairness of the parser's thread (reading and the handlers), of the main thread's slots (its event loop) and of the server's
answers; the loop of `init` waits without a time limit, so a silent server leaves it waiting. Chats: weak fairness of `chatRequest` and `SignalTaken` (the event
loop) and of each chat's thread; none for the servers, the contacts or the application. P2PTransfers: weak fairness of the
chat's thread, of the event loop, and of a peer that was accepted going on; none for accepting or inviting.
Messaging: weak fairness of each connected client handling what it has received; the calls are bounded, so what is left
to end is the automatic traffic. FlapStream, SnacRelay and LogImport have safety properties only.

## Findings

1. `AddedItemWasAcked`: a second edit overwrites `m_oitem`, so the first answer adds the second item
   (`rosterprocess.cpp:190`) and the second answer does nothing.
2. `LoginFailureIsReported`: `m_logged` is never reset (`client.cpp:376`).
3. `ParseEnds`: `parseMsg` has no branch for an incomplete payload (`parsernotificationserver.cpp:206`).

Known divergences without a run of their own, met while modelling; the models behave as the code does. Paths are as in
the inventory, L is `src/libparser`.

| Where | What the code does |
|---|---|
| O `client.cpp:184` | the parser keeps what a lost connection left, and reads the first FLAPs of the next one as the rest of it |
| O `roster.cpp:51` | deleting an item frees an identifier that an item of another group still has |
| O `rosterprocess.cpp`, `oscarparser.cpp:548` | edits by another client of the account are dropped |
| O `servicesetupprocess.cpp:125` | `m_count` is never reset, so set-up is declared done too early in a second session; no slot listens today |
| O `oscarparser.h:93` | the signal of meta replies is connected to nothing: offline messages are neither told nor deleted |
| O `oscarparser.cpp:530` | an answer that the roster is unchanged is parsed as a roster, reading past its end |
| O `sblitem.cpp:86` | `pack` appends to the same data at each call, and its name length and chain length are not what `parse` reads |
| O `snac_roster.cpp:225` | the number of items is written with four bytes, as `len()` is an unsigned int |
| O `oscarparser.cpp:293` | a migration is passed on with an empty cookie, although the one the server sent was parsed |
| O `buffer.cpp:176` | lengths are compared with the whole buffer, so malformed data is read past its end |
| O `message.cpp:291` | every message of channel 2 carries the capability of file transfers |
| O `filetransferprocess.cpp:45` | accepting starts a copy of the transfer, whose signals reach no entry of the map |
| O `avatarprocess.cpp:50` | a SNAC is deleted twice |
| M `parsernotificationserver.cpp:319` | the group of a contact is captured with the space before it, so its name is not found |
| M `parsernotificationserver.cpp:406` | `parseNln` splits the whole buffer, so an NLN read with the next command loses its status |
| M `parsernotificationserver.cpp:513` | `parseNot` leaves its line end, which `parse` takes for an unknown command |
| M `parsernotificationserver.cpp:560` | the answer to ADC takes the nickname for the identifier, and REM leaves the local list as it was |
| M `parsernotificationserver.cpp:555` | an ADC with a display name is matched up to the last line that ends in a number, so commands read with it are lost |
| M `parsernotificationserver.cpp:433` | the type State is registered with the first NLN or ILN, so a status before it (an FLN) is not queued |
| M `client.cpp:224` | `disconnected` deletes the socket and the roster in the main thread, under the loop of `ParserNS::init` and the slots behind it, and runs twice |
| M `transfer.cpp:18` | `m_ftId` is not set, so the end of a picture can be told as that of a file |
| M `client.cpp:238` | an ADC of any list, a blocked contact's too, lists the contact anew without its status |
| M `cmdnotificationserver.cpp:101` | adding to a group that is not known becomes an addition without group |
| M `client.cpp:37` | the passport of a chat that never called stays in the queue for the next one |
| M `client.cpp:94` | a text to a chat that ended uses its deleted socket |
| M `parserp2p.cpp:31` | identifiers from 2^31 on are read as 0 |
| M `parserswichboardserver.cpp:441` | the context of an invitation in two parts loses the last one |
| L `parserpidgin.cpp:94`, `parserkopete.cpp:92` | `.` and `..` are taken to be the first two entries: two names that sort before them are lost |
| L `parserkopete.cpp:115` | after the first account the path of MSN logs is misspelt |
| L `parserkopete.cpp:202` | groups whose numbers have gaps are inserted at the end, so contacts get another group or none |
| L `parserkopete.cpp:280` | the expression for account names cuts them at characters it does not know |

## Proofs

Every theorem is about `Spec` of its module for every value of the constants that satisfies the module's
ASSUMEs, none of which is more than the finite sets and natural bounds that the code's memory gives; in `Messaging`
also that a cookie which is drawn is no peer's, and that the value for "no cookie" (all bits set) is none. None of the
properties is inductive; each proof module begins with the invariant that is, `IInv` (`NSInv` for the notification server), which TLC checked on
the run's bounds first, proves that `Init` establishes it and that each action preserves each part, and derives the
properties from it. `QueueLemmas` holds what the proofs need of sequences: what stays where when an element is
appended, taken or updated, and how many elements of one kind there are then.

### RosterSync_proofs

- `TypeCorrect`: `Spec => []TypeOK`, with any number of edits under way;
- under `MaxPending = 1`: `RosterAgrees`, `NoItemMissed`, `AnswersMatch`, `NeverNull`
  (`Spec => []...` for `Agreement`, `ServerItemsAreKnown`, `AckIsForPendingEdit`, `NoNullDeref`) and
  `Refinement` (`Spec => FollowsServer`, the implementation of `ContactList`);
- under `MaxPending = 1` and `IdsApart`: `IdsReserved` (`Spec => []UsedIdsAreReserved`). `IdsApart` says that the
  items of each stored list, groups aside, have an identifier each. The server keeps identifiers apart only
  within a group, and the code keeps one `m_idmap` for all groups, so without it the property is false
  (`roster.cpp:51` among the divergences above).

With more edits under way than one these are false, which a run shows. `IInv` adds: addresses in memory are
distinct and not above `made` (`delItem` removes exactly one item); the remembered edit is the one under way,
in either direction (`SlotOK`, `OneEdit`), and the retry after ACK_REQ_AUTH asks for the
same contact (`RetryIsTheSame`); the master group, once listed, stays, because no request deletes a group
(`RootIsThere`, which makes the unchecked lookup safe); in the first session the
copy differs from the server's list by the granted edit only (`FirstSession`); in later ones it lacks at
most the granted addition (`NothingMissed`). The properties follow when nothing is under way. The refinement maps
each step to a step of `ContactList` or to a stutter, using `IInv` for the contents of the remembered edit.

`IdsReserved` adds `Ids`: in the first session the identifiers in the copy are apart and all of them reserved. A new
item is given an identifier outside `m_idmap` and keeps it over a retry; a deletion frees an identifier that only the
removed item had, which needs that `delItem` removes exactly the item in the slot; and the list that arrives is
one of the stored lists.

### ClientSession_proofs

`TypeCorrect`, `ReasonIsReported`, `VerdictIsRight`, `BOSIsCurrent` and `OneConnection`: `Spec => []...` for
`TypeOK`, `ReasonReported`, `LoginVerdictIsRight`, `BOSInfoIsCurrent` and `ConnectionHasClient`, for any number of
attempts and any interleaving of the login thread, the client's thread and the application's.

The threads share nothing but two queues of calls, so the argument is what a queued call says of the login service
that sent it, which is still true when the call is taken (`CqMeans`, `MqMeans`). A service sends its reason before
its error, its disconnection and its end, each once, and the address before the end (`CqOrder`, `MqOrder`); the reason
of a refusal and the disconnection behind it are on their way or have left their mark (`ReasonIsComing`), and so is
an address (`BOSIsComing`). The connection of an attempt that is over is closing or closed, and as long as no
login succeeded nothing of it waits in a queue (`FormerAreOver`); so an address that waits is the current
attempt's, and a connection to the BOS server belongs to it (`ConnectionIsCurrent`).

### FlapStream_proofs

`InOrder`, `NothingComplete` and `BackInStepAgain`: `Spec => []...` for `FLAPsAreInOrder`, `NoFLAPWaits` and
`BackInStep`, for FLAPs of any contents and length that the header can state, any number of them
and any cut of the stream into pieces.

The stream is the FLAPs written, one behind the other (`Layout`), and as long as the parser is in step, `m_buf` is the part of
the stream between the end of the last FLAP dispatched and the last byte read (`Window`). So what parse() finds at the
front is the header of the FLAP to be dispatched next, its two bytes of length are that FLAP's length read from signed
bytes, and what is removed is exactly that FLAP. A session that begins with an empty `m_buf` is in step from its
beginning. One that begins with what another left is in step again when parse() returns with nothing left and the
bytes read end with a FLAP: the window is then empty and in the right place (`ReturnsKeeps`), and stays right whatever is cut afterwards.
When parse() returns, what is left does not reach the length that its header states (`KeepsABeginning`), so no FLAP waits.

### Chats_proofs

`TypeCorrect`, `PassportsAreThere`, `InvitedAreCalled` and `HeardInPlace`: `Spec => []...` for `TypeOK`,
`PassportsSuffice`, `CallsTheInvited` and `HeardAsWritten`, for any number of chats, contacts and texts.

Two arguments are independent. The passports are counted (`Counts`): the invitations are as many as the client's own
chats, its requests that were answered and not yet taken, and those not answered; and as many as the passports
in the queue and the calls made. A thread that has not called is one of the client's own, so a passport is left for it; and in an
application that invites one after the other the queue never holds another's (`OneAtATime`). The texts
of a chat are followed on their way, through `m_buf` and the queue of signals (`InTransit`, `NothingLost`,
`HeardInOrder`): their numbers grow along it, none is missing, and the leave is behind all of them.

### P2PTransfers_proofs

`TypeCorrect`, `EntriesFollow` and `FilesWhole`: `Spec => []...` for `TypeOK`, `EntriesFollowTheirTransfer` and
`FilesAreWhole`, for any number of transfers of any kind, cut into any number of messages, under the hypothesis
`IdsFit`: every identifier fits an int. Beyond it byte2int reads 0 for all of them and transfers are mixed up,
a hazard listed in PROJECT.json.

Nothing in a message names its transfer, so the argument is about numbers. A transfer's entry is under an identifier
its peer used for it (`Numbers`) and before those of its messages that are still on their way, which come in an order
the protocol fixes (`Script`); the identifiers it will still need, answers that wait included, end before the base of the
next transfer (`Room`, which counts them). So the nearest smaller entry is the message's own; an invitation's
first message alone finds none and creates one. The step a Transfer is in then tells which messages can still come
(`Pace`), the data in a destination and the data on its way together are what the peer sent (`Data`), and
each offer has its own identifier (`OwnIds`, `Heard`), so the application is told of the right file (`Finished`).

That P2PTransfers implements `FileOffers` is the theorem `Refinement`: `Spec => EndsOnce`, for any number of transfers under
`IdsFit`, whatever the memory of a new Transfer's `m_ftId` holds (any `StaleIds`). The end of a picture may then be told as that of a file: such an
offer is `shared`, the other offers are not disturbed, and the promises hold for them and, until then, for it.

The invariant `Ends` is proved inductive relative to `IInv`; it speaks of the offers that are not shared, and a step shares one at
most (`SharesOne`), for good (`SharesLast`). An end that waits among the signals, or that the application
heard, is that of its Transfer (`HasEnded`): finished if `hasTransfered` is set, cancelled if it is not and the BYE came. Both facts
stay (`EndsLast`), and a Transfer in either state signals no other end, as its last data comes once and the BYE last
(`Pace`, `Script`). The offer was signalled before (`OffersMade`), so in the queue its end is behind it (`EndComes`). A
finished transfer has a destination, which only `acceptFileTransfer` gives, so the step to `finished` is from `accepted`.

### Messaging_proofs

`TextsHeard`, `PresenceTold`, `OffersPending` and `TypeCorrect`: `Spec => []...` for `TextsAreHeard`, `PresenceIsTold`,
`OffersArePending` and `TypeOK`, for any number of clients, contacts of each other, on ICQ or AIM, with any of the code's statuses.

What waits for a client is described by how its queue changes in a step: the first SNAC is taken, others are appended
(`Moves`, `Delivered`). Of the statuses of a contact that wait, the last is the one the contact has, and if none waits it is
the one that was told (`Shows`). This holds through losses, because a client that connects starts from OFFLINE, which is what
`BOSDisconnected` told, and is sent the status of every contact that is shown otherwise (`Welcomed`). On AIM the away message needs a
second argument: the client asks when it handles the status and the server answers from the status of that moment, so an
answer without an away message is possible, but then a newer status waits (`TellsAway`).

An offer is safe although `sendFile` reads `m_transfers` under its own cookie and `handleServiceEnd` removes the entry of
"no cookie": neither is a cookie the application was offered (`Files`). That a message is read with the cookie it was written with
is proved of `pack` and `parse` (`ReadAsWritten`), and that a status is read as it was written of `StatusTLV` (`StatusRead`).

For the texts, each SNAC that waits is given the text that its handler will tell, or none (`Carries`), by what `parse` makes
of it; the texts of a queue are then, in its order, what is due and not yet told (`InOrder`, whose assignment of places
in the queue to places in `due` needs no filtering). The lemmas on operators say what that text is: the one the application gave,
behind a TLV 4 or 0x13 as well (`TextRead`, `TLVFound`), and none for whatever `packCh2` packs, as its capability is that of
files (`PackedRequestCarries`). A client that comes back starts with nothing due, because what it is sent has no texts.

### NotificationSession_proofs

`InOrder`, `NothingLeft`, `Scripted` and `RosterFirst`: `Spec => []...` for `CommandsInOrder`, `NothingWaits`,
`LoginScript` and `ConnectedMeansRoster`, for any stored list, any set of commands that are cut between two reads, any
number of redirections, pushed commands and calls. `NSInvariant` is `Spec => []NSInv`, the invariant they follow from.

The invariant has one part for each thread. That of the parser (`ParserInv`) needs nothing of the other, until the other deletes the
socket. The i-th command of a server is known until the list has been sent (`Expected`): nine commands of the log-in, a line for
each group, two for each contact. As long as the connection was not announced, client and server take turns (`Early`): a command
that is to be answered is the last one written, so the greedy expressions of CVR, GCF and USR, which match up to the last
line end in the buffer, find no second command. The number of commands handled then says which requests were made (`InStep`),
how many contacts are to come and which signals were emitted (`SignalsSoFar`): the groups of the list, its contacts, the connection, each
in its place (`InReport`); so the countdown reaches 0 with the last contact of the list and not before, and `connected` and CHG come once.
That of the main thread (`MainInv`) says that what the slots have told is the part of the signals they have taken (`Told`, `Heard`): since a
queue keeps the order and signals are only appended, all of the list was told before the connection, however late the slots run.

After it is announced commands and requests cross each other and no turn is kept (`LoggedIn`). What was told stays told, the script is not
touched, and the parser keeps its place (`WholeCommands`): each handler removes one whole command, or all of a NOT but its
line end, until an ADC with a display name comes. `NothingWaits` needs that `parse` returns only with an empty buffer, with the flag
cleared by the handler of the command in front, which is then not complete, or with a name that is cut; so what is
left is the beginning of one command. Once the objects are deleted (`loop = "undefined"`) only what was true before is kept.

### Only model-checked

- Liveness (`EditsSettle`, `FirstConnectIsAnswered`, `LogsIn`, `AcceptedEnds`, `LeaveIsHeard`, `NetworkFallsQuiet`,
  `ParseEnds`), which the prover cannot do.
- `SnacRelay` and what the parsers of `SnacWire` compute for every input, an induction over the bytes; SnacWire's
  bit operations are out of the prover's reach too. `ImportIsFaithful` of `LogImport` is such an induction
  over directories.

## Plan

What is left, in this order:

1. A second session of `NotificationSession`.
2. An abstract session (offline, connecting, online; one verdict for each attempt) that `ClientSession` implements.
3. Roster items as they are written, in `SnacWire`.

## Not modelled

- The exchange of a file in liboscar (`FileSendService`, `FileReceiveService`, the OFT parsers). It cannot get
  under way: control messages are sent without FLAP and SNAC, `sendFile` starts a local record and
  accepting starts a copy, `FileSendService::usePP` connects a slot to `m_conn` while it is null
  (`filesendservice.cpp:181`), and the proxy parser never leaves its loop (`oftproxyparser.cpp:51`). What the application
  and the contacts see of it is in `Messaging`.
- UIN registration: the signal and the slot of the reply have different signatures, so it is never delivered, and
  the request never gets its TLV (`snac_newuser.cpp:105`).
- MSN authentication is hashing and an HTTPS request; `NotificationSession` has its outcome.
- The disconnection the MSN application asks for, files the client sends itself, and webcams.
- Icons of contacts in liboscar, which need a second service the server names.
- The shared sequence counter of `Connection`, which two threads increment: no modelled part reads its values.
- Logging, formatting and the listeners' adapters.
