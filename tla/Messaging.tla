----------------------------- MODULE Messaging -----------------------------
(***************************************************************************)
(* Messages, presence and file offers of liboscar clients that have each   *)
(* other as contacts: class Client with its PresenceProcess,               *)
(* OfflineMessagesProcess and FileTransferProcess, on both sides of one    *)
(* server, with an official client that writes to them.  The server relays *)
(* in order to each session; a client handles one SNAC at a time.          *)
(***************************************************************************)
EXTENDS OscarMessage, StatusTLV, FiniteSets

\* The statuses of the code; CONSTANT Statuses are those that the applications set.
PresenceStatus == {"OFFLINE", "INVISIBLE", "DND", "OCUPPIED", "NA", "AWAY", "FFC", "ONLINE"}

CONSTANTS
  Clients,    \* the users with liboscar, contacts of each other
  Peer,       \* a user with the official client
  PeerContacts, \* the clients it writes to
  Statuses,   \* the statuses their applications set
  Cookies,    \* the cookies of the peer's file requests
  OwnCookie,  \* the cookie that sendFile draws
  NoCookie,   \* what getCookieFromId returns of a service it does not find
  MaxCalls    \* bound: calls of the applications, acts of the peer and lost connections

ASSUME PeerAssumption == Peer \notin Clients /\ PeerContacts \subseteq Clients

ASSUME BoundAssumption == IsFiniteSet(Clients) /\ MaxCalls \in Nat

ASSUME StatusesAssumption ==
  "AWAY" \in Statuses /\ Statuses \subseteq PresenceStatus

ASSUME CookiesAssumption ==
  {0, OwnCookie, NoCookie} \cap Cookies = {} /\ OwnCookie # NoCookie /\ 0 \notin {OwnCookie, NoCookie}

VARIABLES
  protocol,   \* Client::m_type of all: "ICQ" or "AIM"
  awaymsg,    \* Client::m_awaymsg is not empty (ICQ keeps it to itself: FALSE there)
  calls,
  online,     \* the clients with a session
  status,     \* the last status each set in its session
  inbox,      \* per client, the SNACs that the server has relayed
  stored,     \* per client, the texts that the server keeps while it is offline
  due,        \* per client, the texts and typing notices relayed in this session
  told,       \* per client, the texts and notices its application was told: notifyMessage, notifyTypingEvent
  seen,       \* per client and contact, the last notifyPresence
  awayTold,   \* per client, the contacts with notifyAwayMessage since then
  transfers,  \* per client, FileTransferProcess::m_transfers: the type of each cookie
  services,   \* per client, the number of file services that run
  hears,      \* per client, whether its FileTransferListener is connected
  offers      \* per client, the cookies offered to the application and not answered

textVars == <<stored, due, told>>
presenceVars == <<status, seen, awayTold>>
ftVars == <<transfers, services, hears, offers>>
config == <<protocol, awaymsg>>
vars == <<config, calls, online, inbox, textVars, presenceVars, ftVars>>

Others(c) == Clients \ {c}

\* All have connected and handled what the server showed them.
Init ==
  /\ protocol \in {"ICQ", "AIM"}
  /\ awaymsg \in BOOLEAN /\ (awaymsg => protocol = "AIM")
  /\ calls = 0
  /\ online = Clients
  /\ status = [c \in Clients |-> "ONLINE"]
  /\ inbox = [c \in Clients |-> <<>>]
  /\ stored = [c \in Clients |-> <<>>]
  /\ due = [c \in Clients |-> <<>>]
  /\ told = [c \in Clients |-> <<>>]
  /\ seen = [c \in Clients |-> [d \in Others(c) |-> "ONLINE"]]
  /\ awayTold = [c \in Clients |-> {}]
  /\ transfers = [c \in Clients |-> <<>>]
  /\ services = [c \in Clients |-> 0]
  /\ hears = [c \in Clients |-> TRUE]
  /\ offers = [c \in Clients |-> {}]

\* The entries of m_transfers when that of k is written, or made by reading it.
Entered(k, type, entries) ==
  [j \in DOMAIN entries \union {k} |-> IF j = k THEN type ELSE entries[j]]

-----------------------------------------------------------------------------
(* The server *)

\* What the contacts of a client are shown.  An AIM client has no status but an away message.
Shown(s) ==
  IF protocol = "ICQ" THEN IF s = "INVISIBLE" THEN "OFFLINE" ELSE s
  ELSE IF s \notin {"OFFLINE", "ONLINE"} /\ awaymsg THEN "AWAY" ELSE IF s = "OFFLINE" THEN s
  ELSE "ONLINE"

StatusSNAC(from, s) == [kind |-> "status", from |-> from, code |-> specPack(Shown(s))]

\* The server relays to those who are online.
Relayed(boxes, to, snac) ==
  IF to \in online THEN [boxes EXCEPT ![to] = Append(@, snac)] ELSE boxes

ShownToOthers(boxes, c, s) ==
  [d \in Clients |-> IF d \in online \ {c} THEN Append(boxes[d], StatusSNAC(c, s)) ELSE boxes[d]]

MessageSNAC(from, wire) == [kind |-> "message", from |-> from, wire |-> wire]

\* The server of AIM keeps no messages.
IsKept(to, wire) == protocol = "ICQ" /\ to \in Clients \ online /\ wire.storage /\ wire.format # 2

-----------------------------------------------------------------------------
(* Calls of the application *)

Called == calls < MaxCalls /\ calls' = calls + 1

\* Client::sendMessage; text is what the message is to say at the other side.
sendMessage(from, m, text) ==
  LET wire == pack(m) IN
  /\ inbox' = Relayed(inbox, m.uin, MessageSNAC(from, wire))
  /\ due' = IF m.uin \in online THEN [due EXCEPT ![m.uin] = Append(@, text)] ELSE due
  /\ stored' = IF IsKept(m.uin, wire) THEN [stored EXCEPT ![m.uin] = Append(@, text)] ELSE stored
  /\ UNCHANGED told

\* Mutant: the encoding is left at ASCII.
textMessageLatin(to, text) == [NewMessage(to) EXCEPT !.text = text]

\* iso-8859-1's canEncode decides how the text is written.
textMessage(to, text) ==
  [NewMessage(to) EXCEPT !.text = text,
                         !.encoding = IF text.form = "latin" THEN "ASCII" ELSE "UCS2BE"]

SendsText(c) ==
  /\ Called /\ c \in online
  /\ \E d \in Others(c), form \in {"latin", "wide"} :
       LET text == [nr |-> calls', form |-> form] IN sendMessage(c, textMessage(d, text), text)
  /\ UNCHANGED <<config, online, presenceVars, ftVars>>

\* A Message of the application's own: channel 4 has only latin texts.
SendsMessage(c) ==
  /\ Called /\ c \in online
  /\ \E d \in Others(c) :
       LET text == [nr |-> calls', form |-> "latin"] IN
       sendMessage(c, [NewMessage(d) EXCEPT !.format = 4, !.type = "URL", !.text = text], text)
  /\ UNCHANGED <<config, online, presenceVars, ftVars>>

sendTypingNotice(c) ==
  /\ Called /\ c \in online
  /\ \E d \in Others(c) :
       LET notice == [nr |-> calls', form |-> "typing"] IN
       /\ inbox' = Relayed(inbox, d, [kind |-> "typing", from |-> c, notice |-> notice])
       /\ due' = IF d \in online THEN [due EXCEPT ![d] = Append(@, notice)] ELSE due
  /\ UNCHANGED <<config, online, stored, told, presenceVars, ftVars>>

setPresence(c, s) ==
  /\ status' = [status EXCEPT ![c] = s]
  /\ inbox' = ShownToOthers(inbox, c, s)

SetsPresence(c) ==
  /\ Called /\ c \in online
  /\ \E s \in Statuses : setPresence(c, s)
  /\ UNCHANGED <<config, online, textVars, seen, awayTold, ftVars>>

\* The answer to the sender is not a SNAC, so it goes nowhere; the transfer is started on a
\* copy, so m_transfers does not have its service.
acceptFileTransfer(c, k, accept) ==
  /\ offers' = [offers EXCEPT ![c] = @ \ {k}]
  /\ IF accept
     THEN services' = [services EXCEPT ![c] = @ + 1] /\ UNCHANGED transfers
     ELSE /\ transfers' = [transfers EXCEPT ![c] = [j \in DOMAIN @ \ {k} |-> @[j]]]
          /\ UNCHANGED services
  /\ UNCHANGED hears

AnswersOffer(c) ==
  /\ Called
  /\ \E k \in offers[c], accept \in BOOLEAN : acceptFileTransfer(c, k, accept)
  /\ UNCHANGED <<config, online, inbox, textVars, presenceVars>>

\* Without a proxy sendRequest reads m_transfers[cookie], which makes an entry of no type.
sendFile(c) ==
  /\ Called /\ c \in online
  /\ services' = [services EXCEPT ![c] = @ + 1]
  /\ \E proxy \in BOOLEAN :
       transfers' = IF proxy THEN transfers
                    ELSE [transfers EXCEPT ![c] = Entered(OwnCookie, "unset", @)]
  /\ UNCHANGED <<config, online, inbox, textVars, presenceVars, hears, offers>>

-----------------------------------------------------------------------------
(* Sessions *)

\* Client::finishedConnection.  The server shows the contacts that are online, and on ICQ
\* sends what it keeps when OfflineMessagesProcess asks for it.
finishedConnection(c) ==
  /\ c \notin online
  /\ online' = online \union {c}
  /\ LET contacts == SetToSeq({d \in online : Shown(status[d]) # "OFFLINE"})
         kept == [i \in 1..Len(stored[c]) |-> [kind |-> "meta", type |-> "OFFLINE_MESSAGE"]]
     IN inbox' = [ShownToOthers(inbox, c, "ONLINE") EXCEPT
                    ![c] = [i \in 1..Len(contacts) |-> StatusSNAC(contacts[i], status[contacts[i]])]
                           \o IF protocol = "ICQ"
                              THEN Append(kept, [kind |-> "meta", type |-> "END_OFFLINE_MESSAGES"])
                              ELSE <<>>]
  /\ status' = [status EXCEPT ![c] = "ONLINE"]
  /\ UNCHANGED <<config, calls, textVars, seen, awayTold, ftVars>>

\* The connection is lost: the application is told and forgets what it showed.
BOSDisconnected(c) ==
  /\ Called /\ c \in online
  /\ online' = online \ {c}
  /\ status' = [status EXCEPT ![c] = "OFFLINE"]
  /\ inbox' = [ShownToOthers(inbox, c, "OFFLINE") EXCEPT ![c] = <<>>]
  /\ due' = [due EXCEPT ![c] = <<>>]
  /\ told' = [told EXCEPT ![c] = <<>>]
  /\ seen' = [seen EXCEPT ![c] = [d \in Others(c) |-> "OFFLINE"]]
  /\ awayTold' = [awayTold EXCEPT ![c] = {}]
  /\ UNCHANGED <<config, stored, ftVars>>

\* The official client writes: texts of channel 1 after a TLV 0x13 or 4; requests of
\* channel 2 with the capability of ICQ; and those of file transfers.
PeerTexts(nr) ==
  LET Ch1(enc, form) == [type |-> 2, encoding |-> enc, text |-> [nr |-> nr, form |-> form]]
      Wire(tlvs) == [cookie |-> 0, format |-> 1, storage |-> TRUE, tlvs |-> tlvs]
  IN {Wire(<<[type |-> 19], Ch1("UCS2BE", "wide")>>), Wire(<<[type |-> 4], Ch1("ASCII", "latin")>>)}

PeerRequests ==
  LET Wire(k, tlv) == [cookie |-> k, format |-> 2, storage |-> FALSE, tlvs |-> <<tlv>>]
  IN {Wire(0, [type |-> 5, request |-> "REQUEST", capability |-> "icq",
               inner |-> [of |-> "message", byte |-> b, text |-> NoText]]) : b \in {1, 232}}
     \union {Wire(k, [type |-> 5, request |-> r, capability |-> "file",
                      inner |-> [of |-> IF r = "REQUEST" THEN "file" ELSE "nothing"]])
               : k \in Cookies, r \in {"REQUEST", "CANCEL", "ACCEPT"}}

PeerWrites ==
  /\ Called
  /\ \E c \in online \cap PeerContacts :
       \/ \E wire \in PeerTexts(calls') :
            /\ inbox' = Relayed(inbox, c, MessageSNAC(Peer, wire))
            /\ due' = [due EXCEPT ![c] = Append(@, Last(wire.tlvs).text)]
       \/ \E wire \in PeerRequests :
            inbox' = Relayed(inbox, c, MessageSNAC(Peer, wire)) /\ UNCHANGED due
  /\ UNCHANGED <<config, online, stored, told, presenceVars, ftVars>>

-----------------------------------------------------------------------------
(* SNACs that the parser hands to the processes *)

Arrives(c, kind) == inbox[c] # <<>> /\ Head(inbox[c]).kind = kind

TakenFrom(c) == [inbox EXCEPT ![c] = Tail(@)]

\* FileTransferProcess::messageArrived.  An entry of a cookie that is known is one of a file
\* that is received, for which nothing is done.
ftMessageArrived(c, m) ==
  IF m.type = "FILEREQ" /\ m.cookie \notin DOMAIN transfers[c]
  THEN /\ transfers' = [transfers EXCEPT ![c] = Entered(m.cookie, "RECEIVING", @)]
       /\ offers' = IF hears[c] THEN [offers EXCEPT ![c] = @ \union {m.cookie}] ELSE offers
  ELSE UNCHANGED <<transfers, offers>>

\* Client::messageArrived: a request of channel 2 is answered or dropped, the rest is told; what has
\* no text is not recorded.
ClientAnswers(m) == m.format = 2 /\ m.request = "REQUEST" /\ IsAuto(m.type)

messageArrived(c, m) ==
  /\ inbox' = IF ClientAnswers(m)
              THEN Relayed(TakenFrom(c), m.uin, MessageSNAC(c, pack([m EXCEPT !.text = NoText])))
              ELSE TakenFrom(c)
  /\ told' = IF (m.format = 2 /\ m.request = "REQUEST") \/ m.text = NoText THEN told
             ELSE [told EXCEPT ![c] = Append(@, m.text)]

newMessage(c) ==
  /\ Arrives(c, "message")
  /\ LET m == parse(Head(inbox[c]).wire, Head(inbox[c]).from) IN
     /\ messageArrived(c, m)
     /\ ftMessageArrived(c, m)
  /\ UNCHANGED <<config, calls, online, stored, due, presenceVars, services, hears>>

typingEventArrived(c) ==
  /\ Arrives(c, "typing")
  /\ told' = [told EXCEPT ![c] = Append(@, Head(inbox[c]).notice)]
  /\ inbox' = TakenFrom(c)
  /\ UNCHANGED <<config, calls, online, stored, due, presenceVars, ftVars>>

\* PresenceProcess: who is away is asked for the away message, by a request to the server (AIM),
\* which answers at once, or by one to the contact (ICQ).
AwayRequest(d, s) ==
  pack([NewMessage(d) EXCEPT !.format = 2,
          !.type = CASE s = "DND" -> "AUTODND" [] s = "AWAY" -> "AUTOAWAY" [] s = "NA" -> "AUTONA"
                     [] s = "OCUPPIED" -> "AUTOBUSY"])

\* Mutant: only the clients of ICQ ask.
AskOnICQ(c, d, s, boxes) ==
  IF s \notin {"DND", "AWAY", "NA", "OCUPPIED"} \/ protocol = "AIM" THEN boxes
  ELSE Relayed(boxes, d, MessageSNAC(c, AwayRequest(d, s)))

AskForAwayMessage(c, d, s, boxes) ==
  IF s \notin {"DND", "AWAY", "NA", "OCUPPIED"} THEN boxes
  ELSE IF protocol = "AIM"
       THEN IF Shown(status[d]) = "OFFLINE" THEN boxes
            ELSE Relayed(boxes, c, [kind |-> "userinfo", from |-> d, away |-> Shown(status[d]) = "AWAY"])
       ELSE Relayed(boxes, d, MessageSNAC(c, AwayRequest(d, s)))

statusChanged(c) ==
  /\ Arrives(c, "status")
  /\ LET d == Head(inbox[c]).from
         s == parseStatus(Head(inbox[c]).code)
     IN /\ inbox' = AskForAwayMessage(c, d, s, TakenFrom(c))
        /\ seen' = [seen EXCEPT ![c][d] = s]
        /\ awayTold' = [awayTold EXCEPT ![c] = @ \ {d}]
  /\ UNCHANGED <<config, calls, online, textVars, status, ftVars>>

newAwayMessage(c) ==
  /\ Arrives(c, "userinfo")
  /\ awayTold' = IF Head(inbox[c]).away
                 THEN [awayTold EXCEPT ![c] = @ \union {Head(inbox[c]).from}] ELSE awayTold
  /\ inbox' = TakenFrom(c)
  /\ UNCHANGED <<config, calls, online, textVars, status, seen, ftVars>>

\* OscarParser::serverMetaReply is connected to nothing: OfflineMessagesProcess never sees it.
serverMetaReply(c) ==
  /\ Arrives(c, "meta")
  /\ inbox' = TakenFrom(c)
  /\ UNCHANGED <<config, calls, online, textVars, presenceVars, ftVars>>

-----------------------------------------------------------------------------
(* File services *)

\* Mutant: a service that is not found is taken for that of the first transfer.
FirstCookie(c) ==
  IF DOMAIN transfers[c] = {} THEN NoCookie ELSE Min(DOMAIN transfers[c])

\* No service of a transfer is in m_transfers.
getCookieFromId(c) == NoCookie

\* FileTransferProcess::handleServiceEnd.  m_transfers[k] has no service, and disconnect of
\* service 0 disconnects every listener.  After a failure startFT reads an entry with no status:
\* it does nothing, or starts another service.
handleServiceEnd(c, successful) ==
  LET k == getCookieFromId(c)
      cleared == IF k \in DOMAIN transfers[c] THEN transfers[c]
                 ELSE Entered(k, "unset", transfers[c]) IN
  /\ services[c] > 0
  /\ hears' = [hears EXCEPT ![c] = FALSE]
  /\ IF successful
     THEN /\ transfers' = [transfers EXCEPT ![c] = [j \in DOMAIN cleared \ {k} |-> cleared[j]]]
          /\ services' = [services EXCEPT ![c] = @ - 1]
     ELSE /\ transfers' = [transfers EXCEPT ![c] = cleared]
          /\ services' \in {services, [services EXCEPT ![c] = @ - 1]}
  /\ UNCHANGED <<config, calls, online, inbox, textVars, presenceVars, offers>>

-----------------------------------------------------------------------------

Handles(c) ==
  \/ newMessage(c) \/ typingEventArrived(c) \/ statusChanged(c)
  \/ newAwayMessage(c) \/ serverMetaReply(c)

Next ==
  \/ PeerWrites
  \/ \E c \in Clients :
       \/ SendsText(c) \/ SendsMessage(c) \/ sendTypingNotice(c) \/ SetsPresence(c)
       \/ AnswersOffer(c) \/ sendFile(c)
       \/ finishedConnection(c) \/ BOSDisconnected(c)
       \/ Handles(c)
       \/ \E successful \in BOOLEAN : handleServiceEnd(c, successful)

\* The parser of a connected client handles what has arrived.
Fairness == \A c \in Clients : WF_vars(Handles(c))

Spec == Init /\ [][Next]_vars /\ Fairness

-----------------------------------------------------------------------------
(* Properties *)

\* Type invariant: the application's view of a contact, and m_transfers, hold only what the code
\* puts there; a client without a session has nothing to handle.
TypeOK ==
  /\ protocol \in {"ICQ", "AIM"} /\ awaymsg \in BOOLEAN /\ calls \in 0..MaxCalls
  /\ online \subseteq Clients
  /\ \A c \in Clients :
       /\ status[c] \in {"OFFLINE", "ONLINE"} \union Statuses
       /\ inbox[c] # <<>> => c \in online
       /\ \A d \in Others(c) : seen[c][d] \in {"OFFLINE", "ONLINE"} \union Statuses
       /\ awayTold[c] \subseteq Others(c)
       /\ DOMAIN transfers[c] \subseteq {0, OwnCookie, NoCookie} \union Cookies
       /\ \A k \in DOMAIN transfers[c] : transfers[c][k] \in {"RECEIVING", "unset"}
       /\ services[c] \in 0..MaxCalls /\ hears[c] \in BOOLEAN
       /\ offers[c] \subseteq {0} \union Cookies

\* Texts on channels 1 and 4 and typing notices reach the application as they were written, each
\* once and in the order in which the server relayed them; when nothing is left to handle, all
\* have.  What the server kept for the client meanwhile is read and told to no one.
TextsAreHeard ==
  \A c \in online : /\ IsPrefix(told[c], due[c])
                    /\ inbox[c] = <<>> => told[c] = due[c]

\* A client that has handled all it received shows each contact as it is: the last
\* notifyPresence is the contact's status, and on AIM the away message of one who is away was
\* told after it.
PresenceIsTold ==
  \A c \in online : inbox[c] = <<>> =>
    \A d \in Others(c) :
      /\ seen[c][d] = Shown(status[d])
      /\ protocol = "AIM" /\ seen[c][d] = "AWAY" => d \in awayTold[c]

\* An offer that the application has not answered is still a transfer to be received, so
\* acceptFileTransfer finds the data it needs.
OffersArePending ==
  \A c \in Clients : \A k \in offers[c] :
    k \in DOMAIN transfers[c] /\ transfers[c][k] = "RECEIVING"

\* Clients that answer each other's automatic requests come to rest: once the applications are
\* silent, nothing circulates.
NetworkFallsQuiet == <>[](\A c \in Clients : inbox[c] = <<>>)
=============================================================================
