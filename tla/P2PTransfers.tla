--------------------------- MODULE P2PTransfers ---------------------------
(***************************************************************************)
(* The peer-to-peer transfers of one chat of lib-im-msnp: the part of      *)
(* ParserSB::parseMsg that handles application/x-msnmsgrp2p, the ParserP2P *)
(* it reads a message with, the Transfer objects of m_FTList, and          *)
(* acceptFileTransfer, which the application calls from its own thread.    *)
(*                                                                         *)
(* Nothing in a message says which transfer it belongs to, as this code    *)
(* reads it: m_FTList maps the identifier in the header of the last        *)
(* message of a transfer to its Transfer, and a message with another       *)
(* identifier is taken to belong to the transfer with the nearest smaller  *)
(* one, which then moves to that key.                                      *)
(*                                                                         *)
(* The peer is external: for each of its transfers it counts identifiers   *)
(* up from a base of its own, invites, goes on when it is accepted, may    *)
(* give up at any time, and acknowledges every 200 OK.  The switchboard    *)
(* hands messages over in order.  Signals of the chat thread wait in the   *)
(* queue of the application's thread.                                      *)
(***************************************************************************)
EXTENDS Integers, Sequences, FiniteSets, FiniteSetsExt

CONSTANTS
  Transfers,   \* the peer's transfers
  Kind,        \* what each of them is: "FILE", "EMOTICON" or "WEBCAM"
  Base,        \* the identifier before the first one of each
  Parts,       \* into how many messages its invitation is cut
  Chunks,      \* into how many messages the data of a file is cut
  SignBit,     \* identifiers from here on do not fit an int
  StaleIds,    \* what the memory of a new Transfer's m_ftId may hold
  MaxWire,     \* bound: messages on their way to the client
  MaxOpen      \* bound: transfers the peer has going at the same time

ASSUME TransfersAssumption ==
  /\ IsFiniteSet(Transfers)
  /\ Kind \in [Transfers -> {"FILE", "EMOTICON", "WEBCAM"}]
  /\ Base \in [Transfers -> Nat]
  /\ Parts \in [Transfers -> Nat \ {0}]
ASSUME SizesAssumption == Chunks \in Nat \ {0} /\ SignBit \in Nat /\ MaxWire \in Nat \ {0} /\ MaxOpen \in Nat \ {0}

\* A transfer uses no more identifiers than this: one each for its invitation, the
\* acknowledgements of two answers, its request for a channel, its data and its end.
IdsPerTransfer == 6

\* Two transfers of a peer never use identifiers that lie among each other.
ASSUME SpacingAssumption ==
  \A t, u \in Transfers : t # u => \/ Base[t] + IdsPerTransfer < Base[u]
                                   \/ Base[u] + IdsPerTransfer < Base[t]

Steps == {"NULL", "INVITATION", "NEGOTIATION", "TRANSFER", "BYE"}
FtIds == 1 .. Cardinality({t \in Transfers : Kind[t] = "FILE"})   \* each file is offered once
ASSUME StaleAssumption == StaleIds # {} /\ StaleIds \subseteq Int

VARIABLES
  phase, lastId, sent,   \* the peer's transfers, their last identifier, and the chunks sent
  wire,                  \* messages to the client, in order
  answers,               \* messages to the peer that it waits for, in order
  transfers,             \* the Transfer objects, in the order of their creation
  FTList,                \* ParserSB::m_FTList: identifiers to indices of transfers
  ftid,                  \* ParserSB::m_ftid
  spins,                 \* the thread stays in while (++desp)
  signals,               \* signals the application's thread has not taken
  app,                   \* what the application did: "none", "offered", "accepted"
  offered,               \* the Transfer it was given with each offer
  outcomes,              \* the ends it was told of, under each identifier
  files                  \* the chunks appended to each destination

peer == <<phase, lastId, sent>>
chat == <<transfers, FTList, ftid, spins>>
application == <<app, offered, outcomes>>
vars == <<peer, wire, answers, chat, signals, application, files>>

-----------------------------------------------------------------------------
(* Messages.  byte2int reads four bytes as an int: toInt fails for a number *)
(* that does not fit, and returns 0.                                       *)

byte2int(n) == IF n < SignBit THEN n ELSE 0

\* ParserP2P::parse: a message with a session identifier is data whatever it holds,
\* another is what its Content-Type says; the second part of a text has none.
parse(body) == CASE body = "data" -> "TRANSFER"
                 [] body = "sessionreqbody" -> "INVITATION"
                 [] body = "transreqbody" -> "NEGOTIATION"
                 [] body = "sessionclosebody" -> "BYE"
                 [] OTHER -> "NULL"

\* Message nr of those a text or a file is cut into; only the last one reaches its end.
Message(t, id, body, nr, of) ==
  [t |-> t, id |-> id, step |-> parse(body), nr |-> nr, isFinished |-> nr = of, isEmpty |-> FALSE]
Ack(t, id) == [Message(t, id, "nothing", 1, 1) EXCEPT !.isEmpty = TRUE]

Transfer(t, stale) ==
  [of |-> t, step |-> "INVITATION", p2pType |-> Kind[t], ftId |-> stale,
   hasDestination |-> FALSE, hasTransfered |-> FALSE]

-----------------------------------------------------------------------------
(* The peer *)

SendMessages(ms) == Len(wire) + Len(ms) <= MaxWire /\ wire' = wire \o ms

PeerInvites(t) ==
  /\ phase[t] = "new"
  /\ Cardinality({u \in Transfers : phase[u] \notin {"new", "closed"}}) < MaxOpen
  /\ phase' = [phase EXCEPT ![t] = "invited"]
  /\ lastId' = [lastId EXCEPT ![t] = @ + 1]
  /\ SendMessages([n \in 1 .. Parts[t] |->
        Message(t, lastId'[t], IF n = 1 THEN "sessionreqbody" ELSE "rest", n, Parts[t])])
  /\ UNCHANGED <<sent, answers, chat, signals, application, files>>

\* It takes the next answer, and acknowledges it even if it gave the transfer up.
PeerTakesAnswer ==
  /\ answers # <<>>
  /\ answers' = Tail(answers)
  /\ LET a == Head(answers)
         goesOn == CASE a.kind = "200OK" /\ phase[a.t] = "invited" -> "accepted"
                     [] a.kind = "200OK NEGOTIATION" /\ phase[a.t] = "asked" -> "ready"
                     [] OTHER -> phase[a.t]
     IN /\ phase' = [phase EXCEPT ![a.t] = goesOn]
        /\ lastId' = [lastId EXCEPT ![a.t] = @ + 1]
        /\ SendMessages(<<Ack(a.t, lastId'[a.t])>>)
  /\ UNCHANGED <<sent, chat, signals, application, files>>

PeerAsksForChannel(t) ==
  /\ phase[t] = "accepted" /\ Kind[t] = "FILE"
  /\ phase' = [phase EXCEPT ![t] = "asked"]
  /\ lastId' = [lastId EXCEPT ![t] = @ + 1]
  /\ SendMessages(<<Message(t, lastId'[t], "transreqbody", 1, 1)>>)
  /\ UNCHANGED <<sent, answers, chat, signals, application, files>>

\* The data messages of a transfer have one identifier, and a session identifier.
PeerSendsChunk(t) ==
  /\ phase[t] = "ready" /\ sent[t] < Chunks
  /\ sent' = [sent EXCEPT ![t] = @ + 1]
  /\ lastId' = [lastId EXCEPT ![t] = IF sent[t] = 0 THEN @ + 1 ELSE @]
  /\ SendMessages(<<Message(t, lastId'[t], "data", sent'[t], Chunks)>>)
  /\ UNCHANGED <<phase, answers, chat, signals, application, files>>

\* The end of a transfer that was sent, and giving one up that was not.
PeerEnds(t) ==
  /\ phase[t] \notin {"new", "closed"}
  /\ phase' = [phase EXCEPT ![t] = "closed"]
  /\ lastId' = [lastId EXCEPT ![t] = @ + 1]
  /\ SendMessages(<<Message(t, lastId'[t], "sessionclosebody", 1, 1)>>)
  /\ UNCHANGED <<sent, answers, chat, signals, application, files>>

-----------------------------------------------------------------------------
(* The chat thread: ParserSB::parseMsg *)

\* Mutants: the search takes the first entry of m_FTList, or the last.
NearestIsFirst(keys, id) == Min(keys)
NearestIsLast(keys, id) == Max(keys)

\* while (++desp) tries every smaller identifier, and then, as int wraps, the
\* greater ones from the greatest down.
Nearest(keys, id) ==
  LET smaller == {k \in keys : k < id} IN IF smaller # {} THEN Max(smaller) ELSE Max(keys)

\* With nothing to find it tries all of them: minutes, or for ever, as the
\* compiler may take it that desp never gets back to 0.
FindsNothing == spins' \in BOOLEAN

Answer(t, kind) == answers' = Append(answers, [t |-> t, kind |-> kind])
Emit(sigs) == signals' = signals \o sigs
Signal(kind, ftId) == [kind |-> kind, ftId |-> ftId, transfer |-> 0]

Takes(m) == ~spins /\ m = Head(wire) /\ wire' = Tail(wire)

\* A message without data acknowledges one of ours: the nearest transfer, if it is
\* an emoticon, is prepared.
AckArrives(m) ==
  /\ Takes(m) /\ m.isEmpty
  /\ LET keys == DOMAIN FTList \ {byte2int(m.id)} IN
     IF keys = {} THEN FindsNothing /\ UNCHANGED <<transfers, answers>>
     ELSE LET tr == FTList[Nearest(keys, byte2int(m.id))] IN
          /\ IF transfers[tr].p2pType = "EMOTICON"
             THEN /\ transfers' = [transfers EXCEPT ![tr].p2pType = "NULL"]
                  /\ Answer(transfers[tr].of, "PREPARATION")
             ELSE UNCHANGED <<transfers, answers>>
          /\ UNCHANGED spins
  /\ UNCHANGED <<peer, FTList, ftid, signals, application, files>>

\* The list once the message's identifier is looked for: the Transfer an
\* invitation creates, or the nearest one under the message's identifier.
IsNew(m) == byte2int(m.id) \notin DOMAIN FTList
\* Mutant: the search for the transfer of a BYE was forgotten.
IsMovedExceptBye(m) == IsNew(m) /\ m.step \in {"NEGOTIATION", "TRANSFER"} /\ FTList # <<>>

IsMoved(m) == IsNew(m) /\ m.step \in {"NEGOTIATION", "TRANSFER", "BYE"} /\ FTList # <<>>

Listed(m) ==
  LET id == byte2int(m.id)
      from == Nearest(DOMAIN FTList, id)
  IN CASE IsMoved(m) -> [k \in (DOMAIN FTList \ {from}) \union {id} |->
                           IF k = id THEN FTList[from] ELSE FTList[k]]
       [] IsNew(m) /\ m.step = "INVITATION" -> [k \in DOMAIN FTList \union {id} |->
                                              IF k = id THEN Len(transfers) + 1 ELSE FTList[k]]
       [] OTHER -> FTList

\* The objects then: a moved one takes the step of the message.
Stepped(m, stale) ==
  CASE IsMoved(m) ->
         [transfers EXCEPT ![FTList[Nearest(DOMAIN FTList, byte2int(m.id))]].step = m.step]
    [] IsNew(m) /\ m.step = "INVITATION" -> Append(transfers, Transfer(m.t, stale))
    [] OTHER -> transfers

\* What belongs to no transfer is dropped; looking for one among none takes its time.
Dropped(m) ==
  /\ Takes(m) /\ ~m.isEmpty /\ byte2int(m.id) \notin DOMAIN Listed(m)
  /\ IF m.step = "NULL" THEN UNCHANGED spins ELSE FindsNothing
  /\ UNCHANGED <<peer, answers, transfers, FTList, ftid, signals, application, files>>

\* parseMsg goes on with the Transfer that is listed now, in the step it is in now.
Its(m) == Listed(m)[byte2int(m.id)]

Continues(m, step, objects) ==
  /\ Takes(m) /\ ~m.isEmpty /\ byte2int(m.id) \in DOMAIN Listed(m)
  /\ objects[Its(m)].step = step
  /\ UNCHANGED <<peer, application>>

\* Mutant: every invitation is offered, a picture's too.
InvitationOffered(m, objects) ==
  /\ Continues(m, "INVITATION", objects)
  /\ FTList' = Listed(m)
  /\ LET tr == Its(m)
         type == objects[tr].p2pType
     IN IF ~m.isFinished
        THEN transfers' = objects /\ UNCHANGED <<ftid, signals, answers>>
        ELSE /\ transfers' = [objects EXCEPT ![tr].step = "NEGOTIATION",
                                             ![tr].ftId = ftid]
             /\ ftid' = ftid + 1
             /\ Emit(<<[Signal("incoming", ftid) EXCEPT !.transfer = tr]>>)
             /\ IF type = "EMOTICON" THEN Answer(objects[tr].of, "200OK") ELSE UNCHANGED answers
  /\ UNCHANGED <<spins, files>>

InvitationArrives(m, objects) ==
  /\ Continues(m, "INVITATION", objects)
  /\ FTList' = Listed(m)
  /\ LET tr == Its(m)
         type == objects[tr].p2pType
     IN IF ~m.isFinished
        THEN transfers' = objects /\ UNCHANGED <<ftid, signals, answers>>
        ELSE /\ transfers' = [objects EXCEPT ![tr].step = "NEGOTIATION",
                                             ![tr].ftId = IF type = "FILE" THEN ftid ELSE @]
             /\ IF type = "FILE"
                THEN ftid' = ftid + 1 /\ Emit(<<[Signal("incoming", ftid) EXCEPT !.transfer = tr]>>)
                ELSE UNCHANGED <<ftid, signals>>
             /\ IF type = "EMOTICON" THEN Answer(objects[tr].of, "200OK") ELSE UNCHANGED answers
  /\ UNCHANGED <<spins, files>>

NegotiationArrives(m, objects) ==
  /\ Continues(m, "NEGOTIATION", objects)
  /\ FTList' = Listed(m)
  /\ IF m.isFinished
     THEN /\ transfers' = [objects EXCEPT ![Its(m)].step = "TRANSFER"]
          /\ Answer(m.t, "200OK NEGOTIATION")
     ELSE transfers' = objects /\ UNCHANGED answers
  /\ UNCHANGED <<ftid, spins, signals, files>>

\* A file without a destination cannot be opened, and its data is lost.
DataArrives(m, objects) ==
  /\ Continues(m, "TRANSFER", objects)
  /\ FTList' = Listed(m)
  /\ LET tr == Its(m)
         id == objects[tr].ftId
     IN
     /\ files' = IF objects[tr].hasDestination
                 THEN [files EXCEPT ![id] = Append(@, [t |-> m.t, step |-> m.step, nr |-> m.nr])]
                 ELSE files
     /\ IF m.isFinished
        THEN /\ transfers' = [objects EXCEPT ![tr].hasTransfered = TRUE]
             /\ Emit(<<Signal("finished", id)>>)
        ELSE transfers' = objects /\ UNCHANGED signals
  /\ UNCHANGED <<answers, ftid, spins>>

\* Mutant: hasTransfered is not asked for.
ByeCancels(m, objects) ==
  /\ Continues(m, "BYE", objects)
  /\ FTList' = [k \in DOMAIN Listed(m) \ {byte2int(m.id)} |-> Listed(m)[k]]
  /\ transfers' = objects
  /\ Emit(<<Signal("cancelled", objects[Its(m)].ftId)>>)
  /\ UNCHANGED <<answers, ftid, spins, files>>

\* The entry goes; the Transfer does not, as the application may have it.
ByeArrives(m, objects) ==
  /\ Continues(m, "BYE", objects)
  /\ FTList' = [k \in DOMAIN Listed(m) \ {byte2int(m.id)} |-> Listed(m)[k]]
  /\ transfers' = objects
  /\ IF objects[Its(m)].hasTransfered THEN UNCHANGED signals
     ELSE Emit(<<Signal("cancelled", objects[Its(m)].ftId)>>)
  /\ UNCHANGED <<answers, ftid, spins, files>>

parseMsg ==
  /\ wire # <<>>
  /\ LET m == Head(wire) IN
     \/ AckArrives(m)
     \/ Dropped(m)
     \/ \E objects \in {Stepped(m, stale) : stale \in StaleIds} :
          \/ InvitationArrives(m, objects)
          \/ NegotiationArrives(m, objects)
          \/ DataArrives(m, objects)
          \/ ByeArrives(m, objects)

-----------------------------------------------------------------------------
(* The application's thread *)

\* The listener is told of every end, whatever identifier the Transfer has.
SignalTaken ==
  /\ signals # <<>>
  /\ signals' = Tail(signals)
  /\ LET s == Head(signals) IN
     IF s.kind = "incoming"
     THEN /\ app' = [app EXCEPT ![s.ftId] = "offered"]
          /\ offered' = [offered EXCEPT ![s.ftId] = s.transfer]
          /\ UNCHANGED outcomes
     ELSE outcomes' = [outcomes EXCEPT ![s.ftId] = Append(@, s.kind)] /\ UNCHANGED <<app, offered>>
  /\ UNCHANGED <<peer, wire, answers, chat, files>>

\* acceptFileTransfer: the Transfer may have left m_FTList in the meantime.
acceptFileTransfer(i) ==
  /\ app[i] = "offered" /\ outcomes[i] = <<>>
  /\ app' = [app EXCEPT ![i] = "accepted"]
  /\ transfers' = [transfers EXCEPT ![offered[i]].hasDestination = TRUE]
  /\ Answer(transfers[offered[i]].of, "200OK")
  /\ UNCHANGED <<peer, wire, FTList, ftid, spins, signals, offered, outcomes, files>>

-----------------------------------------------------------------------------
Init ==
  /\ phase = [t \in Transfers |-> "new"]
  /\ lastId = Base
  /\ sent = [t \in Transfers |-> 0]
  /\ wire = <<>> /\ answers = <<>> /\ signals = <<>>
  /\ transfers = <<>> /\ FTList = <<>> /\ ftid = 1 /\ spins = FALSE
  /\ app = [i \in FtIds |-> "none"]
  /\ offered = [i \in FtIds |-> 0]
  /\ outcomes = [i \in FtIds \union StaleIds |-> <<>>]
  /\ files = [i \in FtIds |-> <<>>]

PeerGoesOn ==
  \E t \in Transfers : \/ PeerAsksForChannel(t)
                       \/ PeerSendsChunk(t)
                       \/ PeerEnds(t) /\ sent[t] = Chunks

Next ==
  \/ \E t \in Transfers : \/ PeerInvites(t)
                          \/ PeerAsksForChannel(t)
                          \/ PeerSendsChunk(t)
                          \/ PeerEnds(t)
  \/ PeerTakesAnswer
  \/ parseMsg
  \/ SignalTaken
  \/ \E i \in FtIds : acceptFileTransfer(i)

Spec == Init /\ [][Next]_vars

\* The threads of the client run, and a peer that was accepted goes on.  Nothing
\* makes the application accept, or a peer that was not accepted give up.
Fairness ==
  /\ WF_vars(parseMsg) /\ WF_vars(SignalTaken) /\ WF_vars(PeerTakesAnswer) /\ WF_vars(PeerGoesOn)

FairSpec == Spec /\ Fairness

-----------------------------------------------------------------------------
(* Properties *)

Messages == [t: Transfers, id: Nat, step: Steps, nr: Nat, isFinished: BOOLEAN, isEmpty: BOOLEAN]

\* Type correctness; an entry of m_FTList is one of the Transfer objects.
TypeOK ==
  /\ phase \in [Transfers -> {"new", "invited", "accepted", "asked", "ready", "closed"}]
  /\ lastId \in [Transfers -> Nat] /\ sent \in [Transfers -> 0 .. Chunks]
  /\ wire \in Seq(Messages)
  /\ answers \in Seq([t: Transfers, kind: {"200OK", "200OK NEGOTIATION", "PREPARATION"}])
  /\ transfers \in Seq([of: Transfers, step: Steps, ftId: FtIds \union StaleIds,
                        p2pType: {"NULL", "FILE", "EMOTICON", "WEBCAM"},
                        hasDestination: BOOLEAN, hasTransfered: BOOLEAN])
  /\ FTList \in [DOMAIN FTList -> 1 .. Len(transfers)] /\ DOMAIN FTList \subseteq Nat
  /\ ftid \in Nat /\ spins \in BOOLEAN
  /\ app \in [FtIds -> {"none", "offered", "accepted"}]
  /\ offered \in [FtIds -> 0 .. Len(transfers)]
  /\ outcomes \in [FtIds \union StaleIds -> Seq({"finished", "cancelled"})]

\* The rule of the nearest smaller identifier never mixes transfers up: a transfer
\* has at most one entry, under an identifier its peer used for it.
EntriesFollowTheirTransfer ==
  /\ \A k \in DOMAIN FTList :
       LET t == transfers[FTList[k]].of IN Base[t] < k /\ k <= lastId[t]
  /\ \A k, l \in DOMAIN FTList :
       k # l => transfers[FTList[k]].of # transfers[FTList[l]].of

\* A destination holds the data of the transfer it was accepted for and nothing
\* else, in the order it was sent, and all of it when the application is told that
\* the transfer is finished.
FilesAreWhole ==
  \A i \in FtIds :
    /\ \A n \in DOMAIN files[i] :
         files[i][n] = [t |-> transfers[offered[i]].of, step |-> "TRANSFER", nr |-> n]
    /\ "finished" \in {outcomes[i][n] : n \in DOMAIN outcomes[i]} => Len(files[i]) = Chunks

\* The Transfer of a picture or a webcam, which nothing gives an identifier, has that of a file.
IsShared(i) == \E tr \in DOMAIN transfers : Kind[transfers[tr].of] # "FILE" /\ transfers[tr].ftId = i

\* What each offer is to the application, for FileOffers; an offer that ended twice
\* is in no state that module has.
OfferStates ==
  [i \in FtIds |-> IF IsShared(i) THEN "shared"
                   ELSE CASE outcomes[i] = <<>> -> app[i]
                          [] Len(outcomes[i]) = 1 -> outcomes[i][1]
                          [] OTHER -> "ended twice"]

Offers == INSTANCE FileOffers WITH Ids <- FtIds, offer <- OfferStates

\* A transfer ends once for the application, and is finished only if it accepted it,
\* unless a picture or a webcam was left with its identifier.
EndsOnce == Offers!Spec

\* What the application accepts ends: the peer sends it all, or gives up and is heard.
AcceptedEnds == \A i \in FtIds : app[i] = "accepted" ~> outcomes[i] # <<>>
=============================================================================
