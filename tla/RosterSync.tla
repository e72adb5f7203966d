----------------------------- MODULE RosterSync -----------------------------
(***************************************************************************)
(* The server-stored contact list of liboscar: class Roster (roster.cpp),  *)
(* which keeps the items of the list and the item identifiers in use, and  *)
(* class RosterProcess (rosterprocess.cpp), which turns requests of the    *)
(* application into edits sent to the server, remembers ONE edit in m_op / *)
(* m_oitem, and applies it to the Roster when an acknowledgement arrives.  *)
(*                                                                         *)
(* An edit travels as three SNACs (ADDSTART, the item, ADDEND) written     *)
(* back to back by one handler, so it is one message here.  TCP delivers   *)
(* in order.  The server is external: it stores the list, answers the      *)
(* edits in order with one of the codes of enum RosterModifyAck, and sends *)
(* the list at login.  The application runs in the thread of the client    *)
(* object, so its calls and the slots never overlap; it calls only while   *)
(* a roster has arrived in the present session (notifyConnect).            *)
(***************************************************************************)
EXTENDS Integers, Sequences, FiniteSets

CONSTANTS
  Uin,          \* contacts the application edits
  Name,         \* every identifier an item can carry: contacts and groups
  RootName,     \* "", the name of the master group (addContact's default)
  Stores,       \* contents the server may hold before the first login
  NoItem,       \* the null SBLItem pointer
  MaxPending,   \* bound: edits the application leaves unanswered
  MaxObjects,   \* bound: SBLItem objects ever created by edits
  MaxLosses     \* bound: connections lost

Kinds == {"buddy", "group", "permit", "deny"}

\* What an item is on the wire (SBLItem::parse, SBLItem::pack).
Record == [uin: Name, type: Kinds, gid: Nat, iid: Nat]

\* An SBLItem in memory: its address, its wire form, and whether it carries
\* the TLV that asks for authorization.
SBLItem == [obj: Nat, rec: Record, auth: BOOLEAN]

Edit == [op: {"add", "del"}, item: SBLItem]

\* One code stands for ACK_NOT_FOUND, EXISTS, INVALID, LIMIT and
\* ADDING_ICQ_TO_AIM: handleUpdateAck treats them alike.
RosterModifyAck == {"ok", "reqauth", "refused"}

ASSUME NameAssumption ==
  Uin \subseteq Name /\ RootName \in Name /\ NoItem \notin SBLItem
ASSUME StoreAssumption ==
  \A S \in Stores :
    /\ S \subseteq Record /\ IsFiniteSet(S)
    /\ \A r, t \in S : r.type # "group" /\ t.type # "group"
                       /\ r.gid = t.gid /\ r.iid = t.iid => r = t
    /\ \A r \in S : r.type = "buddy" =>
         \E g \in S : g.type = "group" /\ g.gid = r.gid
    /\ \E g \in S : g.type = "group" /\ g.uin = RootName
ASSUME BoundAssumption ==
  MaxPending \in Nat /\ MaxObjects \in Nat /\ MaxLosses \in Nat

VARIABLES
  data,      \* Roster::m_data, the items in the order they were added
  idmap,     \* keys of Roster::m_idmap
  op,        \* RosterProcess::m_op
  oitem,     \* RosterProcess::m_oitem
  made,      \* SBLItem objects created so far: the next free address
  crashed,   \* a null pointer was dereferenced
  toServer,  \* edits sent and not yet handled by the server
  toClient,  \* answers sent and not yet handled by the client
  server,    \* the list the server stores
  online,    \* a roster arrived in this session
  losses     \* connections lost so far

roster == <<data, idmap>>
slot == <<op, oitem>>
net == <<toServer, toClient>>
session == <<online, losses>>
vars == <<data, idmap, op, oitem, made, crashed, toServer, toClient,
          server, online, losses>>

-----------------------------------------------------------------------------
(* Roster *)

Local == {data[i].rec : i \in DOMAIN data}

\* Mutant: removes the element after position i.
WithoutNext(s, i) == [j \in 1 .. Len(s) - 1 |-> s[IF j <= i THEN j ELSE j + 1]]

\* data without the element at position i (QList::removeAt).
Without(s, i) == [j \in 1 .. Len(s) - 1 |-> s[IF j < i THEN j ELSE j + 1]]

HasGroup(records, gid) ==
  \E r \in records : r.type = "group" /\ r.gid = gid

\* findItemByUin returns the item at position i ...
IsItemByUin(i, uin, type) ==
  LET Matches(j) == data[j].rec.uin = uin /\ data[j].rec.type = type
  IN Matches(i) /\ \A j \in 1 .. i - 1 : ~Matches(j)

\* ... or null.
NoItemByUin(uin, type) ==
  \A r \in Local : ~(r.uin = uin /\ r.type = type)

\* getNextId: the least identifier that is not in m_idmap.
IsNextId(n) == n \notin idmap /\ 0 .. n - 1 \subseteq idmap

\* Mutant: the identifier is not recorded.
AddItemUnreserved(it) ==
  /\ data' = Append(data, it)
  /\ crashed' = (it.rec.type = "buddy" /\ ~HasGroup(Local, it.rec.gid))
  /\ UNCHANGED idmap

\* addItem: the item's group is dereferenced after a buddy was appended.
AddItem(it) ==
  /\ data' = Append(data, it)
  /\ idmap' = idmap \cup {it.rec.iid}
  /\ crashed' = (it.rec.type = "buddy" /\ ~HasGroup(Local, it.rec.gid))

\* delItem: removes this very object, frees its identifier in any case.
DelItem(it) ==
  /\ idmap' = IF it.rec.type = "group" THEN idmap ELSE idmap \ {it.rec.iid}
  /\ \/ \E i \in DOMAIN data : data[i].obj = it.obj /\ data' = Without(data, i)
     \/ (\A i \in DOMAIN data : data[i].obj # it.obj) /\ UNCHANGED data
  /\ UNCHANGED crashed

-----------------------------------------------------------------------------
(* RosterProcess: requests of the application *)

\* Mutant: the edit is sent before the slot is free, and not remembered.
SendEditIfFree(kind, it) ==
  /\ toServer' = Append(toServer, [op |-> kind, item |-> it])
  /\ IF op = "none" THEN op' = kind /\ oitem' = it ELSE UNCHANGED slot

\* The private addItem and delItem of RosterProcess: send, then remember.
SendEdit(kind, it) ==
  /\ toServer' = Append(toServer, [op |-> kind, item |-> it])
  /\ op' = kind
  /\ oitem' = it

\* A new SBLItem sent to the server; it joins the roster only when acked.
SendNewItem(uin, type, gid, auth) ==
  \E n \in 0 .. Cardinality(idmap) :
    /\ IsNextId(n) /\ made < MaxObjects
    /\ made' = made + 1
    /\ SendEdit("add",
         [obj |-> made + 1, auth |-> auth,
          rec |-> [uin |-> uin, type |-> type, gid |-> gid, iid |-> n]])

\* addContact: the group is found by name and dereferenced unchecked.
AddContactToRoot(uin, auth) ==
  \/ /\ NoItemByUin(RootName, "group")
     /\ crashed' = TRUE
     /\ UNCHANGED <<slot, made, toServer>>
  \/ \E i \in DOMAIN data :
       /\ IsItemByUin(i, RootName, "group")
       /\ SendNewItem(uin, "buddy", data[i].rec.gid, auth)
       /\ UNCHANGED crashed

InFlight == Len(toServer) + Len(toClient)

\* The application calls after notifyConnect and leaves at most MaxPending
\* edits unanswered; two objects are kept for the edit and its retry.
MayCall ==
  ~crashed /\ online /\ InFlight < MaxPending /\ made + 2 <= MaxObjects

AddContact(uin) ==
  /\ MayCall
  /\ AddContactToRoot(uin, FALSE)
  /\ UNCHANGED <<roster, toClient, server, session>>

DelContact(uin) ==
  /\ MayCall
  /\ \E i \in DOMAIN data :
       IsItemByUin(i, uin, "buddy") /\ SendEdit("del", data[i])
  /\ UNCHANGED <<roster, made, crashed, toClient, server, session>>

\* setVisibleStatus and setInvisibleStatus differ in the item type only.
SetStatus(uin, type, in) ==
  /\ MayCall
  /\ \/ in /\ NoItemByUin(uin, type) /\ SendNewItem(uin, type, 0, FALSE)
     \/ /\ ~in
        /\ \E i \in DOMAIN data :
             IsItemByUin(i, uin, type) /\ SendEdit("del", data[i])
        /\ UNCHANGED made
  /\ UNCHANGED <<roster, crashed, toClient, server, session>>

SetVisibleStatus(uin, in) == SetStatus(uin, "permit", in)
SetInvisibleStatus(uin, in) == SetStatus(uin, "deny", in)

-----------------------------------------------------------------------------
(* RosterProcess: reactions *)

\* Mutant: m_oitem is not reset.
ReportSuccessKeepsItem ==
  \/ op = "add" /\ AddItem(oitem) /\ op' = "none" /\ UNCHANGED oitem
  \/ op = "del" /\ DelItem(oitem) /\ op' = "none" /\ UNCHANGED oitem
  \/ op = "none" /\ UNCHANGED <<roster, crashed, slot>>

ReportSuccess ==
  \/ op = "add" /\ AddItem(oitem) /\ op' = "none" /\ oitem' = NoItem
  \/ op = "del" /\ DelItem(oitem) /\ op' = "none" /\ oitem' = NoItem
  \/ op = "none" /\ UNCHANGED <<roster, crashed, slot>>

\* Mutants: the retry does not ask for authorization, ...
AskForAuthAgain ==
  \/ oitem = NoItem /\ crashed' = TRUE /\ UNCHANGED <<slot, made, toServer>>
  \/ oitem # NoItem /\ AddContactToRoot(oitem.rec.uin, FALSE)

\* ... or it happens after the pending edit was forgotten.
AskForAuthLate == crashed' = TRUE /\ UNCHANGED <<slot, made, toServer>>

\* ACK_REQ_AUTH: ask again with an authorization request; m_oitem may be null.
AskForAuth ==
  \/ oitem = NoItem /\ crashed' = TRUE /\ UNCHANGED <<slot, made, toServer>>
  \/ oitem # NoItem /\ AddContactToRoot(oitem.rec.uin, TRUE)

\* Mutant: every code but ACK_REQ_AUTH counts as a success.
HandleUpdateAckNoCode ==
  /\ ~crashed /\ toClient # <<>>
  /\ toClient' = Tail(toClient)
  /\ IF Head(toClient).code = "reqauth"
     THEN AskForAuth /\ UNCHANGED roster
     ELSE ReportSuccess /\ UNCHANGED <<made, toServer>>
  /\ UNCHANGED <<server, session>>

HandleUpdateAck ==
  /\ ~crashed /\ toClient # <<>>
  /\ toClient' = Tail(toClient)
  /\ CASE Head(toClient).code = "ok" ->
            ReportSuccess /\ UNCHANGED <<made, toServer>>
       [] Head(toClient).code = "reqauth" ->
            AskForAuth /\ UNCHANGED roster
       [] OTHER -> UNCHANGED <<roster, slot, made, crashed, toServer>>
  /\ UNCHANGED <<server, session>>

\* The records of S in an order in which a server sends them: every buddy
\* after its group.
Listings(S) ==
  {l \in [1 .. Cardinality(S) -> S] :
     /\ \A r \in S : \E i \in DOMAIN l : l[i] = r
     /\ \A i \in DOMAIN l : l[i].type = "buddy" =>
          HasGroup({l[j] : j \in 1 .. i - 1}, l[i].gid)}

\* rosterArrivedSlot -> Roster::parse: every item of the list is appended to
\* m_data, which is not cleared.
RosterArrived ==
  /\ ~crashed /\ ~online
  /\ \E l \in Listings(server) :
       data' = data \o [i \in DOMAIN l |->
                          [obj |-> made + i, rec |-> l[i], auth |-> FALSE]]
  /\ idmap' = idmap \cup {r.iid : r \in server}
  /\ made' = made + Cardinality(server)
  /\ online' = TRUE
  /\ UNCHANGED <<slot, crashed, net, server, losses>>

\* The connection drops: nothing in transit survives, RosterProcess and
\* Roster are not told.
ConnectionLost ==
  /\ ~crashed /\ online /\ losses < MaxLosses
  /\ losses' = losses + 1
  /\ online' = FALSE
  /\ toServer' = <<>> /\ toClient' = <<>>
  /\ UNCHANGED <<roster, slot, made, crashed, server>>

-----------------------------------------------------------------------------
(* The server (external) *)

Taken(rec) == \E r \in server : r.gid = rec.gid /\ r.iid = rec.iid

\* "edit" is not in the message: it records which edit an answer is for.
Answer(code, e) == toClient' = Append(toClient, [code |-> code, edit |-> e])

ServerAnswers ==
  /\ ~crashed /\ toServer # <<>>
  /\ toServer' = Tail(toServer)
  /\ LET e == Head(toServer)
     IN \/ /\ e.op = "add" /\ ~Taken(e.item.rec)
           /\ server' = server \cup {e.item.rec}
           /\ Answer("ok", e)
        \/ /\ e.op = "del" /\ e.item.rec \in server
           /\ server' = server \ {e.item.rec}
           /\ Answer("ok", e)
        \/ /\ e.op = "add" /\ e.item.rec.type = "buddy" /\ ~e.item.auth
           /\ Answer("reqauth", e)
           /\ UNCHANGED server
        \/ Answer("refused", e) /\ UNCHANGED server
  /\ UNCHANGED <<roster, slot, made, crashed, session>>

-----------------------------------------------------------------------------

Init ==
  /\ data = <<>> /\ idmap = {}
  /\ op = "none" /\ oitem = NoItem
  /\ made = 0 /\ crashed = FALSE
  /\ toServer = <<>> /\ toClient = <<>>
  /\ server \in Stores
  /\ online = FALSE /\ losses = 0

Application ==
  \E uin \in Uin :
    \/ AddContact(uin)
    \/ DelContact(uin)
    \/ \E in \in BOOLEAN : SetVisibleStatus(uin, in)
    \/ \E in \in BOOLEAN : SetInvisibleStatus(uin, in)

Next ==
  \/ Application
  \/ HandleUpdateAck
  \/ RosterArrived
  \/ ConnectionLost
  \/ ServerAnswers

Spec == Init /\ [][Next]_vars

\* The event loop dispatches what the socket delivers, and the server answers
\* what it received.
Fairness == WF_vars(HandleUpdateAck) /\ WF_vars(ServerAnswers)
FairSpec == Spec /\ Fairness

-----------------------------------------------------------------------------
(* Properties *)

\* Every variable has its type, and m_oitem is null exactly when no edit is
\* remembered: handleUpdateAck relies on the two being set and reset together.
TypeOK ==
  /\ data \in Seq(SBLItem)
  /\ idmap \subseteq Nat /\ IsFiniteSet(idmap)
  /\ op \in {"none", "add", "del"}
  /\ oitem \in SBLItem \cup {NoItem}
  /\ op = "none" <=> oitem = NoItem
  /\ made \in Nat
  /\ crashed \in BOOLEAN
  /\ toServer \in Seq(Edit)
  /\ toClient \in Seq([code: RosterModifyAck, edit: Edit])
  /\ server \subseteq Record /\ IsFiniteSet(server)
  /\ online \in BOOLEAN
  /\ losses \in Nat

\* With no edit unanswered and no second login, the roster shown to the
\* application holds exactly what the server stores: the local copy is
\* changed only when an edit is acknowledged, and by that very edit.
Agreement == online /\ losses = 0 /\ InFlight = 0 => Local = server

\* After a second login the copy may hold stale items, but an application
\* that waits for its answers never misses an item of the server.
ServerItemsAreKnown == online /\ InFlight = 0 => server \subseteq Local

\* An answer is applied to m_op / m_oitem without looking at what it answers:
\* it must be the answer to exactly that edit.
AckIsForPendingEdit ==
  \A i \in DOMAIN toClient :
    toClient[i].edit.op = op /\ toClient[i].edit.item = oitem

\* roster.cpp:37 "id we can't use": the identifier of an item of the roster
\* is never handed out again.
UsedIdsAreReserved == losses = 0 => \A r \in Local : r.iid \in idmap

\* No slot or request dereferences a missing group or a cleared m_oitem.
NoNullDeref == ~crashed

\* The exchange an edit starts, its authorization retry included, ends.
EditsSettle == InFlight > 0 ~> InFlight = 0

\* rosterprocess.cpp:189 "Added a item successfully acked. Add to roster": an
\* item an answer adds to the roster is the one that answer acknowledged.
AddedItemWasAcked ==
  [][ toClient # <<>> /\ toClient' = Tail(toClient) /\ Len(data') > Len(data)
      => Head(toClient).edit.item.rec = data'[Len(data')].rec ]_vars

-----------------------------------------------------------------------------
(* Refinement of ContactList by an application with one edit under way *)

Asked(e, state) == [state |-> state, op |-> e.op, entry |-> e.item.rec]

StateOfCode(code) ==
  CASE code = "ok" -> "granted"
    [] code = "reqauth" -> "asked"
    [] OTHER -> "refused"

Request ==
  IF toServer # <<>> THEN Asked(Head(toServer), "asked")
  ELSE IF toClient # <<>>
       THEN Asked(Head(toClient).edit, StateOfCode(Head(toClient).code))
       ELSE [state |-> "idle"]

Logins == losses + (IF online THEN 1 ELSE 0)

CL == INSTANCE ContactList WITH
        Entry <- Record, mine <- Local, theirs <- server,
        request <- Request, logins <- Logins

\* Every step of the roster code, the server and the network is a step of
\* ContactList: granted edits and no others reach the application's list.
FollowsServer == CL!Spec
=============================================================================
