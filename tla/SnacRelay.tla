----------------------------- MODULE SnacRelay -----------------------------
(***************************************************************************)
(* Two liboscar clients at one server, byte by byte: Reader logs in; then  *)
(* Sender packs its                                                        *)
(* presence, user information, typing notices and authorizations; the      *)
(* server takes the SNACs apart, keeps the data of some TLVs as they came, *)
(* and writes SNACs of its own, some with such data inside; Reader, who    *)
(* has Sender as a contact, parses them.                                   *)
(* Messages are in Messaging, the editing of the roster in RosterSync.     *)
(***************************************************************************)
EXTENDS SnacWire

CONSTANTS
  Sender, Reader,  \* the names of the two, as bytes
  Number,          \* Sender's name on ICQ as a number: the pair of its words
  AwayMessage,     \* m_awaymsg of Sender, as bytes
  Password,        \* of Reader, as bytes
  Caps,            \* m_cap of Sender: capabilities of 16 bytes
  Statuses,        \* the statuses that Sender sets
  Hash,            \* the hash of an icon: 16 bytes
  Versions,        \* the families of the server and their versions
  MaxSteps         \* bound: calls, and SNACs that the server sends of itself

ASSUME NamesAssumption == Sender # <<>> /\ Reader # <<>> /\ Len(Sender) < 256 /\ Len(Reader) < 256

ASSUME SizesAssumption == Len(Hash) = 16 /\ Len(Caps) <= 10 /\ \A i \in DOMAIN Caps : Len(Caps[i]) = 16

VARIABLES
  protocol,  \* "ICQ" or "AIM", of both
  steps,
  stage,     \* of Reader: "login", "verdict", "moved", "connected" or, at the end, "closed"
  sent,      \* what a client sent last, each with what it asks for
  shown,     \* what the server keeps of Sender: the data of TLVs as they came
  is,        \* what Sender's calls have said: its status, empty before it is connected, and icon
  inbox,     \* the FLAPs on their way to Reader
  due,       \* what the server has meant to tell Reader
  read,      \* what Reader's parser has read
  fam        \* m_fam of Reader's parser

vars == <<protocol, steps, stage, sent, shown, is, inbox, due, read, fam>>

Nothing == [status |-> <<>>, dc |-> <<>>, caps |-> <<>>, away |-> <<>>]

\* The server greets who connects.
Init ==
  /\ stage = "login"
  /\ protocol \in {"ICQ", "AIM"}
  /\ steps = 0
  /\ sent = <<>>
  /\ shown = Nothing
  /\ is = [status |-> "", icon |-> FALSE]
  /\ inbox = <<[ch |-> 1, data |-> Hello]>> /\ due = <<<<"hello">>>> /\ read = <<>>
  /\ fam = <<>>

-----------------------------------------------------------------------------
(* The server: reading *)

DWords(b) == {Fields(<<"word", "word">>, After(b, 4 * i)) : i \in 0..(Len(b) \div 4 - 1)}

\* Texts may end with a 0.
CutZero(s) == IF s # <<>> /\ Last(s) = 0 THEN Front(s) ELSE s

CapList(b) == parseCapabilities(b, Len(b)).is

ServerReadsLogin(b) ==
  LET tlvs == Chain(parseTLVs(After(b, 4))) IN
  IF 6 \in DOMAIN tlvs THEN <<"cookie", tlvs[6]>>
  ELSE <<"login", tlvs[1], Roast(tlvs[2]), Fields(<<"word", "word">>, tlvs[20])>>

\* Each request as the documents of the protocol describe it: family, command, then the data.
Asks(family, command, b, tlvs) ==
  LET is_(f, c) == family = f /\ command = c IN
  CASE is_(1, 23) -> <<"families", DWords(b)>>
    [] is_(1, 2) -> <<"ready", {Fields(<<"word", "word">>, After(b, 8 * i)) : i \in 0..(Len(b) \div 8 - 1)}>>
    [] is_(1, 6) -> <<"rates">>
    [] is_(19, 5) -> <<"checkRoster">> \o Fields(<<"dword", "word">>, b)
    [] b = <<>> -> <<"limits", family, command>>
    [] is_(1, 8) -> <<"ackRates", {getWord(After(b, 2 * i)) : i \in 0..(Len(b) \div 2 - 1)}>>
    [] is_(1, 30) -> <<"status", getWord(After(tlvs[6], 2)), getWord(tlvs[8]), Len(tlvs[12])>>
    [] is_(2, 4) -> <<"userInfo", CutZero(tlvs[4]), CapList(tlvs[5])>>
    [] is_(2, 5) -> <<"reqUserInfo">> \o Fields(<<"word", "string1">>, b)
    [] is_(4, 2) -> <<"setICBM", Len(b)>>
    [] is_(4, 20) -> <<"typing">> \o Fields(<<"dword", "dword", "word", "string1", "word">>, b)
    [] is_(19, 26) -> <<"authorize">> \o Fields(<<"string1", "byte", "string2", "word">>, b)
    [] is_(21, 2) -> <<"meta">> \o Fields(<<"lword", "ldword", "lword", "lword">>, tlvs[1])
    [] is_(16, 2) -> <<"upload">> \o Fields(<<"word", "string2">>, b)

ServerReadsSNAC(snac) ==
  LET head == ReadAll(<<"word", "word", "word", "dword">>, snac) IN
  Asks(head.is[1], head.is[2], head.rest, Chain(parseTLVs(head.rest)))

ServerReads(r) == IF r.ch = 1 THEN ServerReadsLogin(r.data) ELSE ServerReadsSNAC(r.data)

\* What the server keeps of a request.
Kept(data, snac) ==
  LET tlvs == Chain(parseTLVs(After(snac, 10))) IN
  CASE ServerReadsSNAC(snac)[1] = "status" -> [data EXCEPT !.status = tlvs[6], !.dc = tlvs[12]]
    [] ServerReadsSNAC(snac)[1] = "userInfo" -> [data EXCEPT !.away = tlvs[4], !.caps = tlvs[5]]
    [] OTHER -> data

-----------------------------------------------------------------------------
(* The server: writing *)

ServerSNAC(family, command, data) == SNAC(family, command, data)

\* With unknown data in front of its own.
ExtraSNAC(family, command, data) ==
  Word(family) \o Word(command) \o Word(32768) \o DWord(<<0, 0>>) \o WordString(<<0, 6, 0>>) \o data

SaysOn(ch, data, means) == [ch |-> ch, data |-> data, means |-> means]

Says(snac, means) == SaysOn(2, snac, means)

\* TLVs come in the order of their types: class, a time, status, direct connection,
\* capabilities, icon, and one of unknown contents.
UserInfoBytes(data, icon) ==
  LET away == protocol = "AIM" /\ data.away # <<>>
      tlvs == <<TLV(1, Word(IF away THEN 48 ELSE 16)), TLV(3, DWord(<<17000, 1>>))>>
              \o (IF data.status = <<>> THEN <<>> ELSE <<TLV(6, data.status), TLV(12, data.dc)>>)
              \o <<TLV(13, data.caps)>>
              \o (IF icon THEN <<TLV(29, Word(1) \o <<0, 16>> \o Hash)>>
                  ELSE <<TLV(29, Word(2) \o <<4, 2, 0, 0>>)>>)
              \o <<TLV(30, <<0, 0, 0, 0>>)>>
  IN appendUin(Sender) \o Word(0) \o Word(Len(tlvs)) \o FlattenSeq(tlvs)

\* What UserInfoBytes says, by the calls that Sender made.
InfoOf(now) ==
  [uin |-> Sender,
   status |-> IF protocol = "ICQ" THEN now.status
              ELSE IF now.status # "ONLINE" /\ AwayMessage # <<>> THEN "AWAY" ELSE "ONLINE",
   dc |-> IF protocol = "ICQ" THEN {[ip |-> <<0, 0>>, port |-> 0, firewall |-> "NORMAL"]} ELSE {},
   caps |-> Caps,
   icon |-> IF now.icon THEN Hash ELSE <<>>]

Online(data, now) ==
  Says(ServerSNAC(3, 11, UserInfoBytes(data, now.icon)), <<"userOnline", InfoOf(now)>>)

FamilyBytes(pairs, Of(_)) == FlattenSeq([i \in DOMAIN pairs |-> Of(pairs[i])])

ServerFamilies ==
  LET families == SetToSeq(DOMAIN Versions) IN
  {Says(ServerSNAC(1, 3, FamilyBytes(families, LAMBDA f : Word(f))), <<"families">>),
   Says(ExtraSNAC(1, 24, FamilyBytes(families, LAMBDA f : Word(f) \o Word(Versions[f]))),
        <<"versions", Versions>>)}

\* Errors, with and without a sub-error.
ServerErrors ==
  {Says(ServerSNAC(1, 1, Word(2)), <<"serviceError", "RATE_SERVER", "none">>),
   Says(ServerSNAC(1, 1, Word(24) \o TLV(8, Word(22))), <<"serviceError", "IS_AOL", "TOO_MANY_CLIENTS">>),
   Says(ServerSNAC(2, 1, Word(4)), <<"locationError", "OFFLINE", "none">>),
   Says(ServerSNAC(2, 1, Word(5) \o TLV(8, Word(5))), <<"locationError", "SERVICE_NA", "BAD_PASSWORD">>),
   Says(ServerSNAC(3, 1, Word(20) \o Word(1) \o appendUin(Sender)), <<"contactError", "UIN_NOT_IN_LIST">>),
   Says(ServerSNAC(4, 1, Word(9)), <<"ICBMError", "CLIENT_NOT_SUPPORT_TYPE_2">>),
   Says(ServerSNAC(21, 1, Word(2) \o TLV(33, <<>>)), <<"ICQError", 2>>)}

\* Replies of the set-up of the services.
ServerLimits ==
  {Says(ExtraSNAC(1, 7, <<0, 1, 0, 1>>), <<"rates">>),
   Says(ServerSNAC(2, 3, TLV(1, Word(1024)) \o TLV(2, Word(18)) \o TLV(5, Word(1)) \o TLV(3, Word(10))),
        <<"locationLimits", 18>>),
   Says(ServerSNAC(3, 3, TLV(1, Word(600)) \o TLV(2, Word(750)) \o TLV(3, Word(512))), <<"BLMLimits", 600, 750>>),
   Says(ServerSNAC(4, 5, FlattenSeq([i \in 1..8 |-> Word(i)])), <<"ICBMLimits">>),
   Says(ServerSNAC(9, 3, TLV(2, Word(160)) \o TLV(1, Word(160))), <<"PRMLimits">>),
   Says(ServerSNAC(11, 2, Word(1200)), <<"interval", 1200>>),
   Says(ServerSNAC(19, 3, TLV(4, Word(400)) \o TLV(2, Word(255))),
        <<"SSILimits", (4 :> Word(400)) @@ (2 :> Word(255))>>)}

\* A list with a group and a buddy; an item of the list has a chain, empty or not.
ServerRoster ==
  LET Item(name, group, id, type, chain) ==
        WordString(name) \o Word(group) \o Word(id) \o Word(type) \o WordString(chain)
      items == <<[name |-> <<71>>, group |-> 300, id |-> 0, type |-> 1, tlvs |-> (200 :> Word(7))],
                 [name |-> Sender, group |-> 300, id |-> 7, type |-> 0,
                  tlvs |-> (102 :> <<>>) @@ (305 :> <<110, 105>>)]>>
      bytes == Item(<<71>>, 300, 0, 1, TLV(200, Word(7)))
               \o Item(Sender, 300, 7, 0, TLV(102, <<>>) \o TLV(305, <<110, 105>>))
  IN {Says(M, <<"roster", items>>) :
        M \in {ServerSNAC(19, 6, <<0>> \o Word(2) \o bytes \o DWord(<<17000, 9>>)),
               ExtraSNAC(19, 6, <<0>> \o Word(2) \o bytes \o DWord(<<17000, 9>>))}}
     \union {Says(ExtraSNAC(19, 14, Word(14)), <<"updateAck", 14>>),
             Says(ServerSNAC(19, 25, appendUin(Sender) \o WordString(AwayMessage) \o Word(0)),
                  <<"authReq", Sender, AwayMessage>>),
             Says(ExtraSNAC(19, 28, appendUin(Sender)), <<"addedYou", Sender>>),
             Says(ServerSNAC(3, 10, appendUin(Sender)), <<"refused", Sender>>)}

\* A lost message and the acknowledgement of one; another client's away message; a message that
\* was kept, and the end of them; another place to connect to, whose cookie is lost.
ServerNotices ==
  LET Meta(data) == TLV(1, LWord(8) \o LDWord(Number) \o data) IN
  {Says(ServerSNAC(4, 10, Word(1) \o UserInfoBytes(Nothing, FALSE) \o Word(2) \o Word(3)),
        <<"missed", Sender, 2, "SENDER_TOO_EVIL">>),
   Says(ServerSNAC(4, 12, DWord(<<1, 2>>) \o DWord(<<3, 4>>) \o Word(2) \o appendUin(Sender)),
        <<"ackMsg", 2, Sender>>),
   Says(ServerSNAC(4, 11, DWord(<<1, 2>>) \o DWord(<<3, 4>>) \o Word(2) \o appendUin(Sender) \o Word(3)
                          \o LWord(3) \o <<9, 9, 9>> \o LWord(2) \o <<9, 9>> \o <<232, 3>>
                          \o DWord(<<0, 0>>) \o LWord(Len(AwayMessage) + 1) \o AwayMessage \o <<0>>),
        <<"awayMessage", Sender, "AUTOAWAY", AwayMessage>>),
   Says(ServerSNAC(21, 3, Meta(LWord(65) \o LWord(2) \o LDWord(Number) \o LWord(2006) \o <<7, 31, 23, 59>>
                               \o <<1, 0>> \o LWord(Len(AwayMessage) + 1) \o AwayMessage \o <<0>>)),
        <<"offlineMessage", Number, "PLAIN", AwayMessage>>),
   Says(ServerSNAC(21, 3, Meta(LWord(66) \o LWord(2) \o <<0>>)), <<"endOfflineMessages">>),
   Says(ServerSNAC(1, 18, Word(0) \o Sender \o <<58, 53, 49, 57, 48>> \o Word(6) \o WordString(Hash)),
        <<"receivedBOS", Sender, <<53, 49, 57, 48>>, <<>>>>),
   Says(ServerSNAC(16, 3, DWord(<<0, 1>>) \o <<16>> \o Hash), <<"ownIconAck", Hash>>)}

ServerSays == ServerFamilies \union ServerErrors \union ServerLimits \union ServerRoster \union ServerNotices

\* What the client has no class for is ignored, as are errors about icons, another greeting and
\* a sign of life.
ServerIgnored ==
  {[ch |-> 2, data |-> snac] :
     snac \in {ServerSNAC(1, 19, <<1, 2>>), ServerSNAC(2, 99, <<>>), ServerSNAC(77, 1, <<1>>),
               ServerSNAC(16, 1, Word(5) \o TLV(8, Word(1)))}}
  \union {[ch |-> 1, data |-> DWord(<<0, 2>>)], [ch |-> 5, data |-> <<>>], [ch |-> 3, data |-> <<1>>]}

\* The verdict on a login: where to go with which cookie, or a page on what is wrong.
ServerVerdicts ==
  {SaysOn(4, TLV(1, Reader) \o TLV(5, Sender \o <<58, 53, 49, 57, 48>>) \o TLV(6, Hash) \o TLV(142, <<0>>),
          <<"receivedBOS", Sender, <<53, 49, 57, 48>>, Hash>>),
   SaysOn(4, TLV(1, Reader) \o TLV(4, AwayMessage) \o TLV(8, Word(5)), <<"serverDisconnected", AwayMessage, "BAD_PASSWORD">>),
   SaysOn(4, TLV(1, Reader) \o TLV(19, Word(3)) \o TLV(84, AwayMessage) \o TLV(8, Word(24)),
          <<"serverDisconnected", <<>>, "RATE_EXCEEDED">>)}

\* The same user connected elsewhere.
ServerCloses ==
  SaysOn(4, TLV(9, Word(1)) \o TLV(11, AwayMessage), <<"serverDisconnected", AwayMessage, "MULTIPLE_LOGINS">>)

OnWire(message) == [ch |-> message.ch, data |-> message.data]

Tells(messages) ==
  /\ inbox' = inbox \o [i \in DOMAIN messages |-> OnWire(messages[i])]
  /\ due' = due \o [i \in DOMAIN messages |-> messages[i].means]

-----------------------------------------------------------------------------
(* The clients *)

\* Of what happens before Reader is there and after it is gone, it is not told.
Step == stage = "connected" /\ steps < MaxSteps /\ steps' = steps + 1

Request(snac, asks) == [ch |-> 2, data |-> snac, asks |-> asks]

\* The server has what is sent at once, in its order.
Sends(requests) ==
  /\ sent' = requests
  /\ shown' = FoldLeft(LAMBDA data, r : Kept(data, r.data), shown, requests)

Presence(s) ==
  IF protocol = "ICQ"
  THEN Request(CliSetStatusSNAC(s), <<"status", specPack(s), 0, 37>>)
  ELSE LET away == IF s = "ONLINE" THEN <<>> ELSE AwayMessage IN
       Request(CliSetUserInfoSNAC(Caps, away), <<"userInfo", away, Caps>>)

\* Client's start: the families; the rates; the requests of the set-up, locationLimits, ICBMLimits
\* and SSILimits for the empty roster of a first session; finishedConnection.
\* The families of CliReady are to be those of CliFamilies.
Connects ==
  LET families == ServerReadsSNAC(CliFamiliesSNAC)[2] IN
  /\ Step /\ is.status = ""
  /\ is' = [is EXCEPT !.status = "ONLINE"]
  /\ Sends(<<Request(CliFamiliesSNAC, <<"families", families>>),
             Request(CliRatesRequestSNAC, <<"rates">>),
             Request(CliAckRatesSNAC, <<"ackRates", 1..5>>),
             Request(CliReqLocationSNAC, <<"limits", 2, 2>>),
             Request(CliReqBuddySNAC, <<"limits", 3, 2>>),
             Request(CliReqICBMSNAC, <<"limits", 4, 4>>),
             Request(CliReqBOSSNAC, <<"limits", 9, 2>>),
             Request(CliReqListsSNAC, <<"limits", 19, 2>>),
             Request(CliSetUserInfoSNAC(Caps, AwayMessage), <<"userInfo", AwayMessage, Caps>>),
             Request(CliSetICBMSNAC, <<"setICBM", 16>>),
             Request(CliCheckRosterSNAC(<<0, 0>>, 0), <<"checkRoster", <<0, 0>>, 0>>),
             Presence("ONLINE"),
             Request(CliReadySNAC, <<"ready", families>>)>>
           \o IF protocol = "ICQ"
              THEN <<Request(CliMetaReqOfflineSNAC(Number, 60), <<"meta", 8, Number, 60, 2>>)>> ELSE <<>>)
  /\ Tells(<<Online(shown', is')>>)
  /\ UNCHANGED <<protocol, stage, read, fam>>

setPresence ==
  /\ Step /\ is.status # ""
  /\ \E s \in Statuses :
       /\ is' = [is EXCEPT !.status = s]
       /\ Sends(<<Presence(s)>>)
  /\ Tells(<<Online(shown', is')>>)
  /\ UNCHANGED <<protocol, stage, read, fam>>

sendTypingNotice ==
  /\ Step /\ is.status # ""
  /\ \E type \in 0..2 :
       LET snac == SrvCliTypingSNAC(Reader, type) IN
       /\ Sends(<<Request(snac, <<"typing", <<0, 0>>, <<0, 0>>, 1, Reader, type>>)>>)
       \* the server puts the name of the sender in the place of that of the receiver
       /\ Tells(<<Says(Take(snac, 20) \o appendUin(Sender) \o Word(ServerReadsSNAC(snac)[6]),
                       <<"typing", Sender, type>>)>>)
  /\ UNCHANGED <<protocol, stage, is, read, fam>>

authorize ==
  /\ Step /\ is.status # ""
  /\ \E granted \in BOOLEAN, reason \in {<<>>, AwayMessage} :
       LET snac == CliAuthorizeSNAC(Reader, granted, reason) IN
       /\ Sends(<<Request(snac, <<"authorize", Reader, IF granted THEN 1 ELSE 0, reason, 0>>)>>)
       /\ Tells(<<Says(ServerSNAC(19, 27, appendUin(Sender) \o After(snac, 11 + Len(Reader))),
                       <<"authReply", Sender, granted, reason>>)>>)
  /\ UNCHANGED <<protocol, stage, is, read, fam>>

\* The server shows the hash of the icon from then on.
uploadIcon ==
  /\ Step /\ is.status # ""
  /\ is' = [is EXCEPT !.icon = TRUE]
  /\ Sends(<<Request(CliUploadIconSNAC(AwayMessage), <<"upload", 1, AwayMessage>>)>>)
  /\ Tells(<<Online(shown, is')>>)
  /\ UNCHANGED <<protocol, stage, read, fam>>

Leaves ==
  /\ Step /\ is.status # ""
  /\ is' = [is EXCEPT !.status = ""]
  /\ shown' = Nothing
  /\ Tells(<<Says(ServerSNAC(3, 12, appendUin(Sender) \o Word(0) \o Word(1) \o TLV(1, Word(16))),
                  <<"userOffline", Sender>>)>>)
  /\ UNCHANGED <<protocol, stage, sent, read, fam>>

ServerTells ==
  /\ Step
  /\ \/ \E m \in ServerSays : Tells(<<m>>)
     \/ \E flap \in ServerIgnored : inbox' = Append(inbox, flap) /\ UNCHANGED due
  /\ UNCHANGED <<protocol, stage, sent, shown, is, read, fam>>

ServerEnds ==
  /\ Step
  /\ stage' = "closed"
  /\ Tells(<<ServerCloses>>)
  /\ UNCHANGED <<protocol, sent, shown, is, read, fam>>

\* PresenceProcess asks the server of AIM for the away message of who is away, and is answered.
\* The text has the 0 that Sender ended it with; SrvUserInfo keeps it.
AsksForAway(entries) ==
  protocol = "AIM" /\ entries # <<>> /\ entries[1][1] = "userOnline" /\ entries[1][2].status = "AWAY"

AwayReply ==
  Says(ServerSNAC(2, 6, UserInfoBytes(shown, is.icon) \o TLV(3, <<116>>) \o TLV(4, shown.away)),
       <<"userInfo", InfoOf(is), "AWAY_MESSAGE",
         IF InfoOf(is).status = "AWAY" THEN Append(AwayMessage, 0) ELSE <<>>>>)

Replies(requests, messages) ==
  /\ sent' = requests
  /\ inbox' = Tail(inbox) \o [i \in DOMAIN messages |-> OnWire(messages[i])]
  /\ due' = due \o [i \in DOMAIN messages |-> messages[i].means]

\* What Reader's processes make of an entry, and the server's answer to it: the login with name
\* and password and then, at the server that the verdict names, with the cookie.
Reacts(entries) ==
  \/ /\ stage = "login"
     /\ \E reply \in ServerVerdicts :
          Replies(<<[ch |-> 1, data |-> CliLogin(Reader, Password),
                     asks |-> <<"login", Reader, Password, <<0, 85>>>>]>>, <<reply>>)
     /\ stage' = "verdict"
  \/ /\ stage = "verdict"
     /\ IF entries[1][1] = "receivedBOS"
        THEN stage' = "moved" /\ Replies(sent, <<SaysOn(1, Hello, <<"hello">>)>>)
        ELSE stage' = "closed" /\ Replies(sent, <<>>)
  \/ /\ stage = "moved"
     /\ stage' = "connected"
     /\ LET cookie == Last(read)[4] IN
        Replies(<<[ch |-> 1, data |-> CliCookie(cookie), asks |-> <<"cookie", Hash>>]>>, <<>>)
  \/ /\ stage \in {"connected", "closed"}
     /\ IF AsksForAway(entries) /\ is.status # ""
        THEN Replies(<<Request(CliReqUserInfoSNAC(Sender, "AWAY_MESSAGE"), <<"reqUserInfo", 3, Sender>>)>>,
                     IF stage = "connected" THEN <<AwayReply>> ELSE <<>>)
        ELSE Replies(sent, <<>>)
     /\ UNCHANGED stage

\* The parser takes the next FLAP.
Reads ==
  /\ inbox # <<>>
  /\ \E parsed \in {parseFLAP(Head(inbox), fam)} :
     /\ read' = read \o parsed.read
     /\ fam' = parsed.fam
     /\ Reacts(parsed.read)
  /\ UNCHANGED <<protocol, steps, shown, is>>

Next ==
  \/ Connects \/ setPresence \/ sendTypingNotice \/ authorize \/ uploadIcon \/ Leaves
  \/ ServerTells \/ ServerEnds \/ Reads

Spec == Init /\ [][Next]_vars

-----------------------------------------------------------------------------
(* Properties *)

\* Every FLAP that reaches the parser is read as the server meant it, in the order in which they
\* were sent: no nested parser takes a byte more or less than its part, and what one client packed
\* (a status, a direct connection, capabilities, an away message) another reads unchanged.
\* The verdict on a login is read with its server, cookie or error; of a migration
\* the server is told, while the cookie that belongs to it is read and not handed on.
SNACsAreReadAsMeant ==
  /\ IsPrefix(read, due)
  /\ inbox = <<>> => read = due

\* What a client sends is what the server reads: the fields of the call that made the client send
\* it, and the same families when the client is ready as when it announced them.
RequestsAreRead == \A i \in DOMAIN sent : ServerReads(sent[i]) = sent[i].asks
=============================================================================
