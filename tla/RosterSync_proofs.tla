------------------------- MODULE RosterSync_proofs --------------------------
(***************************************************************************)
(* Proofs about RosterSync: the type invariant for every value of the      *)
(* constants, and, for an application that leaves at most one edit         *)
(* unanswered, the safety properties and the refinement of ContactList.    *)
(***************************************************************************)
EXTENDS RosterSync, FiniteSetTheorems, SequenceTheorems, TLAPS

(* Lemmas on the operators *)

\* Removing one position of a list leaves a list of the others, in order.
LEMMA WithoutSeq ==
  ASSUME NEW S, NEW s \in Seq(S), NEW i \in DOMAIN s
  PROVE  /\ Without(s, i) \in Seq(S)
         /\ DOMAIN Without(s, i) = 1 .. Len(s) - 1
         /\ \A j \in 1 .. Len(s) - 1 :
              Without(s, i)[j] = s[IF j < i THEN j ELSE j + 1]
<1>1. Len(s) \in Nat /\ s \in [1 .. Len(s) -> S] /\ i \in 1 .. Len(s)
  BY LenProperties
<1>2. Without(s, i) \in [1 .. Len(s) - 1 -> S]
  BY <1>1 DEF Without
<1>3. Len(s) - 1 \in Nat
  BY <1>1
<1>4. Without(s, i) \in Seq(S)
  BY <1>2, <1>3, SeqDef
<1> QED
  BY <1>1, <1>2, <1>4 DEF Without

\* A listing sends each stored record exactly once.
LEMMA ListingOfServer ==
  ASSUME NEW S, IsFiniteSet(S), NEW l \in Listings(S)
  PROVE  /\ Cardinality(S) \in Nat
         /\ l \in Seq(S) /\ DOMAIN l = 1 .. Cardinality(S)
         /\ Len(l) = Cardinality(S)
         /\ \A r \in S : \E i \in DOMAIN l : l[i] = r
         /\ \A i, j \in DOMAIN l : l[i] = l[j] => i = j
<1>1. Cardinality(S) \in Nat
  BY FS_CardinalityType
<1>2. /\ l \in [1 .. Cardinality(S) -> S]
      /\ \A r \in S : \E i \in DOMAIN l : l[i] = r
  BY DEF Listings
<1>3. l \in Seq(S)
  BY <1>1, <1>2, SeqDef
<1>4. l \in Surjection(1 .. Cardinality(S), S)
  BY <1>2 DEF Surjection
<1>5. IsFiniteSet(1 .. Cardinality(S))
      /\ Cardinality(1 .. Cardinality(S)) = Cardinality(S)
  BY <1>1, FS_Interval
<1>6. l \in Injection(1 .. Cardinality(S), S)
  BY <1>4, <1>5, FS_SurjSameCardinalityImpliesInj
<1>7. \A i, j \in DOMAIN l : l[i] = l[j] => i = j
  BY <1>2, <1>6 DEF Injection, IsInjective
<1>8. Len(l) = Cardinality(S)
  BY <1>1, <1>2, <1>3, LenProperties
<1> QED
  BY <1>1, <1>2, <1>3, <1>7, <1>8

\* The identifiers of a finite list are finite in number.
LEMMA IdsAreFinite ==
  ASSUME NEW S, IsFiniteSet(S)
  PROVE  IsFiniteSet({r.iid : r \in S})
<1> DEFINE f == [r \in S |-> r.iid]
<1>1. f \in Surjection(S, {r.iid : r \in S})
  BY DEF Surjection
<1> QED
  BY <1>1, FS_Surjection

-----------------------------------------------------------------------------
(* Types *)

ItemType == [code: RosterModifyAck, edit: Edit]

\* Adding an item keeps the types of the roster.
LEMMA AddItemType ==
  ASSUME TypeOK, NEW it \in SBLItem, AddItem(it)
  PROVE  /\ data' \in Seq(SBLItem)
         /\ idmap' \subseteq Nat /\ IsFiniteSet(idmap')
         /\ crashed' \in BOOLEAN
<1>1. it.rec.iid \in Nat
  BY DEF SBLItem, Record
<1>2. IsFiniteSet(idmap \cup {it.rec.iid})
  BY FS_AddElement DEF TypeOK
<1>3. Append(data, it) \in Seq(SBLItem)
  BY AppendProperties DEF TypeOK
<1> QED
  BY <1>1, <1>2, <1>3 DEF TypeOK, AddItem

\* So does deleting one.
LEMMA DelItemType ==
  ASSUME TypeOK, NEW it \in SBLItem, DelItem(it)
  PROVE  /\ data' \in Seq(SBLItem)
         /\ idmap' \subseteq Nat /\ IsFiniteSet(idmap')
         /\ crashed' = crashed
<1>1. IsFiniteSet(idmap \ {it.rec.iid})
  BY FS_RemoveElement DEF TypeOK
<1>2. idmap' \subseteq Nat /\ IsFiniteSet(idmap')
  BY <1>1 DEF TypeOK, DelItem
<1>3. data' \in Seq(SBLItem)
  BY WithoutSeq DEF TypeOK, DelItem
<1> QED
  BY <1>2, <1>3 DEF DelItem

\* An edit of a well-typed item keeps the types of the slot and the network.
LEMMA SendEditType ==
  ASSUME TypeOK, NEW kind \in {"add", "del"}, NEW it \in SBLItem,
         SendEdit(kind, it)
  PROVE  /\ toServer' \in Seq(Edit)
         /\ op' \in {"add", "del"} /\ oitem' \in SBLItem
<1>1. [op |-> kind, item |-> it] \in Edit
  BY DEF Edit
<1>2. Append(toServer, [op |-> kind, item |-> it]) \in Seq(Edit)
  BY <1>1, AppendProperties DEF TypeOK
<1> QED
  BY <1>2 DEF SendEdit

\* A new item is well-typed: its identifier is a natural number.
LEMMA SendNewItemType ==
  ASSUME TypeOK, NEW uin \in Name, NEW type \in Kinds, NEW gid \in Nat,
         NEW auth \in BOOLEAN, SendNewItem(uin, type, gid, auth)
  PROVE  /\ toServer' \in Seq(Edit)
         /\ op' \in {"add", "del"} /\ oitem' \in SBLItem
         /\ made' \in Nat
<1>1. PICK n \in 0 .. Cardinality(idmap) :
        /\ made' = made + 1
        /\ SendEdit("add",
             [obj |-> made + 1, auth |-> auth,
              rec |-> [uin |-> uin, type |-> type, gid |-> gid, iid |-> n]])
  BY DEF SendNewItem
<1>2. Cardinality(idmap) \in Nat
  BY FS_CardinalityType DEF TypeOK
<1>3. n \in Nat /\ made \in Nat
  BY <1>2 DEF TypeOK
<1>4. [obj |-> made + 1, auth |-> auth,
       rec |-> [uin |-> uin, type |-> type, gid |-> gid, iid |-> n]] \in SBLItem
  BY <1>3 DEF SBLItem, Record
<1> QED
  BY <1>1, <1>3, <1>4, SendEditType

\* The items of the roster are well-typed.
LEMMA DataType ==
  ASSUME TypeOK, NEW i \in DOMAIN data
  PROVE  /\ data[i] \in SBLItem /\ data[i].rec \in Record
         /\ data[i].rec.gid \in Nat
<1>1. data[i] \in SBLItem
  BY ElementOfSeq, LenProperties DEF TypeOK
<1> QED
  BY <1>1 DEF SBLItem, Record

LEMMA AddContactToRootType ==
  ASSUME TypeOK, NEW uin \in Name, NEW auth \in BOOLEAN,
         AddContactToRoot(uin, auth)
  PROVE  /\ toServer' \in Seq(Edit)
         /\ \/ op' \in {"add", "del"} /\ oitem' \in SBLItem
            \/ op' = op /\ oitem' = oitem
         /\ made' \in Nat
         /\ crashed' \in BOOLEAN
<1>1. CASE crashed' = TRUE /\ UNCHANGED <<slot, made, toServer>>
  BY <1>1 DEF TypeOK, slot
<1>2. ASSUME NEW i \in DOMAIN data,
             SendNewItem(uin, "buddy", data[i].rec.gid, auth),
             UNCHANGED crashed
      PROVE  /\ toServer' \in Seq(Edit)
             /\ op' \in {"add", "del"} /\ oitem' \in SBLItem
             /\ made' \in Nat
             /\ crashed' \in BOOLEAN
  <2>1. data[i].rec.gid \in Nat /\ "buddy" \in Kinds
    BY DataType DEF Kinds
  <2> QED
    BY <1>2, <2>1, SendNewItemType DEF TypeOK
<1> QED
  BY <1>1, <1>2 DEF AddContactToRoot

\* Type correctness, step by step.
LEMMA TypeStep == TypeOK /\ [Next]_vars => TypeOK'
<1> SUFFICES ASSUME TypeOK, [Next]_vars PROVE TypeOK'
  OBVIOUS
<1> USE NameAssumption
<1>1. ASSUME NEW uin \in Uin, AddContact(uin) PROVE TypeOK'
  <2>1. uin \in Name /\ FALSE \in BOOLEAN
    OBVIOUS
  <2> QED
    BY <1>1, <2>1, AddContactToRootType
    DEF AddContact, TypeOK, roster, session
<1>2. ASSUME NEW uin \in Uin, DelContact(uin) PROVE TypeOK'
  <2>1. PICK i \in DOMAIN data : SendEdit("del", data[i])
    BY <1>2 DEF DelContact
  <2>2. data[i] \in SBLItem
    BY DataType
  <2> QED
    BY <1>2, <2>1, <2>2, SendEditType DEF DelContact, TypeOK, roster, session
<1>3. ASSUME NEW uin \in Uin, NEW type \in {"permit", "deny"},
             NEW in \in BOOLEAN, SetStatus(uin, type, in)
      PROVE  TypeOK'
  <2>1. uin \in Name /\ type \in Kinds /\ 0 \in Nat /\ FALSE \in BOOLEAN
    BY DEF Kinds
  <2>2. CASE SendNewItem(uin, type, 0, FALSE)
    BY <1>3, <2>1, <2>2, SendNewItemType DEF SetStatus, TypeOK, roster, session
  <2>3. ASSUME NEW i \in DOMAIN data, SendEdit("del", data[i]), made' = made
        PROVE  TypeOK'
    <3>1. data[i] \in SBLItem
      BY DataType
    <3> QED
      BY <1>3, <2>3, <3>1, SendEditType DEF SetStatus, TypeOK, roster, session
  <2> QED
    BY <1>3, <2>2, <2>3 DEF SetStatus
<1>4. CASE HandleUpdateAck
  <2>1. toClient' \in Seq(ItemType)
    BY <1>4, HeadTailProperties DEF HandleUpdateAck, TypeOK, ItemType
  <2>2. CASE ReportSuccess /\ UNCHANGED <<made, toServer>>
    <3>1. CASE op = "add" /\ AddItem(oitem) /\ op' = "none" /\ oitem' = NoItem
      <4>1. oitem \in SBLItem
        BY <3>1 DEF TypeOK
      <4> QED
        BY <1>4, <2>1, <2>2, <3>1, <4>1, AddItemType
        DEF HandleUpdateAck, TypeOK, session, ItemType
    <3>2. CASE op = "del" /\ DelItem(oitem) /\ op' = "none" /\ oitem' = NoItem
      <4>1. oitem \in SBLItem
        BY <3>2 DEF TypeOK
      <4> QED
        BY <1>4, <2>1, <2>2, <3>2, <4>1, DelItemType
        DEF HandleUpdateAck, TypeOK, session, ItemType
    <3>3. CASE op = "none" /\ UNCHANGED <<roster, crashed, slot>>
      BY <1>4, <2>1, <2>2, <3>3
      DEF HandleUpdateAck, TypeOK, roster, slot, session, ItemType
    <3> QED
      BY <2>2, <3>1, <3>2, <3>3 DEF ReportSuccess
  <2>3. CASE AskForAuth /\ UNCHANGED roster
    <3>1. CASE oitem = NoItem /\ crashed' = TRUE
               /\ UNCHANGED <<slot, made, toServer>>
      BY <1>4, <2>1, <2>3, <3>1
      DEF HandleUpdateAck, TypeOK, roster, slot, session, ItemType
    <3>2. CASE oitem # NoItem /\ AddContactToRoot(oitem.rec.uin, TRUE)
      <4>1. oitem.rec.uin \in Name /\ TRUE \in BOOLEAN
        BY <3>2 DEF TypeOK, SBLItem, Record
      <4> QED
        BY <1>4, <2>1, <2>3, <3>2, <4>1, AddContactToRootType
        DEF HandleUpdateAck, TypeOK, roster, session, ItemType
    <3> QED
      BY <2>3, <3>1, <3>2 DEF AskForAuth
  <2>4. CASE UNCHANGED <<roster, slot, made, crashed, toServer>>
    BY <1>4, <2>1, <2>4
    DEF HandleUpdateAck, TypeOK, roster, slot, session, ItemType
  <2> QED
    BY <1>4, <2>2, <2>3, <2>4 DEF HandleUpdateAck
<1>5. CASE RosterArrived
  <2>1. PICK l \in Listings(server) :
          data' = data \o [i \in DOMAIN l |->
                             [obj |-> made + i, rec |-> l[i], auth |-> FALSE]]
    BY <1>5 DEF RosterArrived
  <2> DEFINE new == [i \in DOMAIN l |->
                       [obj |-> made + i, rec |-> l[i], auth |-> FALSE]]
  <2>2. /\ Cardinality(server) \in Nat
        /\ DOMAIN l = 1 .. Cardinality(server)
        /\ \A i \in DOMAIN l : l[i] \in Record
    BY ListingOfServer DEF TypeOK, Listings
  <2>3. new \in [1 .. Cardinality(server) -> SBLItem]
    BY <2>2 DEF TypeOK, SBLItem
  <2>4. new \in Seq(SBLItem)
    BY <2>2, <2>3, SeqDef
  <2>5. data' \in Seq(SBLItem)
    BY <2>1, <2>4, ConcatProperties DEF TypeOK
  <2>6. IsFiniteSet(idmap')
    BY <1>5, IdsAreFinite, FS_Union DEF RosterArrived, TypeOK
  <2>7. idmap' \subseteq Nat
    BY <1>5 DEF RosterArrived, TypeOK, Record
  <2> QED
    BY <1>5, <2>2, <2>5, <2>6, <2>7 DEF RosterArrived, TypeOK, slot, net
<1>6. CASE ConnectionLost
  <2>1. toServer' \in Seq(Edit) /\ toClient' \in Seq(ItemType)
    BY <1>6, EmptySeq DEF ConnectionLost
  <2>2. losses' \in Nat
    BY <1>6 DEF ConnectionLost, TypeOK
  <2>4. online' \in BOOLEAN
    BY <1>6, Zenon DEF ConnectionLost
  <2>3. UNCHANGED <<data, idmap, op, oitem, made, crashed, server>>
    BY <1>6 DEF ConnectionLost, roster, slot
  <2> QED
    BY <2>1, <2>2, <2>3, <2>4 DEF TypeOK, ItemType
<1>7. CASE ServerAnswers
  <2> DEFINE e == Head(toServer)
  <2>1. e \in Edit /\ toServer' \in Seq(Edit)
    BY <1>7, HeadTailProperties DEF ServerAnswers, TypeOK
  <2>2. e.item.rec \in Record
    BY <2>1 DEF Edit, SBLItem
  <2>3. ASSUME NEW code \in RosterModifyAck, Answer(code, e)
        PROVE  toClient' \in Seq(ItemType)
    <3>1. [code |-> code, edit |-> e] \in ItemType
      BY <2>1 DEF ItemType
    <3> QED
      BY <2>3, <3>1, AppendProperties DEF Answer, TypeOK, ItemType
  <2>4. toClient' \in Seq(ItemType)
    BY <1>7, <2>3 DEF ServerAnswers, RosterModifyAck
  <2>5. /\ IsFiniteSet(server \cup {e.item.rec})
        /\ IsFiniteSet(server \ {e.item.rec})
    BY FS_AddElement, FS_RemoveElement DEF TypeOK
  <2>6. \/ server' = server \cup {e.item.rec}
        \/ server' = server \ {e.item.rec}
        \/ server' = server
    BY <1>7 DEF ServerAnswers
  <2>7. server' \subseteq Record /\ IsFiniteSet(server')
    BY <2>2, <2>5, <2>6 DEF TypeOK
  <2> QED
    BY <1>7, <2>1, <2>4, <2>7
    DEF ServerAnswers, TypeOK, roster, slot, session, ItemType
<1>8. CASE UNCHANGED vars
  BY <1>8 DEF vars, TypeOK
<1> QED
  BY <1>1, <1>2, <1>3, <1>4, <1>5, <1>6, <1>7, <1>8
  DEF Next, Application, SetVisibleStatus, SetInvisibleStatus

LEMMA InitType == Init => TypeOK
<1> SUFFICES ASSUME Init PROVE TypeOK
  OBVIOUS
<1>1. server \subseteq Record /\ IsFiniteSet(server)
  BY StoreAssumption DEF Init
<1>2. /\ <<>> \in Seq(SBLItem) /\ <<>> \in Seq(Edit)
      /\ <<>> \in Seq([code: RosterModifyAck, edit: Edit])
  BY EmptySeq
<1> QED
  BY <1>1, <1>2, FS_EmptySet, NameAssumption DEF Init, TypeOK

\* Whatever the server answers and however many edits are unanswered, the
\* roster, the slot and the messages keep their types, and m_oitem is null
\* exactly when m_op says that no edit is remembered.
THEOREM TypeCorrect == Spec => []TypeOK
BY InitType, TypeStep, PTL DEF Spec

-----------------------------------------------------------------------------
(* The inductive invariant of an application that waits for its answers *)

Recs(s) == {s[i].rec : i \in DOMAIN s}

IsRoot(r) == r.uin = RootName /\ r.type = "group"

\* Objects have addresses of their own.
Addresses ==
  /\ \A i \in DOMAIN data : data[i].obj <= made
  /\ \A i, j \in DOMAIN data : data[i].obj = data[j].obj => i = j
  /\ op = "add" => /\ oitem.obj <= made
                   /\ \A i \in DOMAIN data : data[i].obj # oitem.obj

\* What the slot remembers can be applied: an item to add has its group, an
\* item to delete is in the roster.
SlotOK ==
  /\ op # "none" => oitem.rec.type # "group"
  /\ op = "add" /\ oitem.rec.type = "buddy" =>
       \E r \in Local : r.type = "group" /\ r.gid = oitem.rec.gid
  /\ op = "del" => \E i \in DOMAIN data : data[i] = oitem

\* One edit at most is on its way, the one in the slot.
OneEdit ==
  /\ InFlight <= 1
  /\ ~online => InFlight = 0
  /\ \A i \in DOMAIN toServer : toServer[i].op = op /\ toServer[i].item = oitem
  /\ AckIsForPendingEdit

\* A retry would pick the identifier and the group the first try picked.
RetryIsTheSame ==
  /\ InFlight > 0 /\ op = "add" => IsNextId(oitem.rec.iid)
  /\ InFlight > 0 /\ op = "add" /\ oitem.rec.type = "buddy" =>
       \A i \in DOMAIN data : IsItemByUin(i, RootName, "group") =>
         data[i].rec.gid = oitem.rec.gid
  /\ \A i \in DOMAIN toClient : toClient[i].code = "reqauth" =>
       op = "add" /\ oitem.rec.type = "buddy"

\* The master group is never lost.
RootIsThere ==
  /\ \E r \in server : IsRoot(r)
  /\ online => \E r \in Local : IsRoot(r)

Granted == toClient # <<>> /\ Head(toClient).code = "ok"

\* In the first session the copy differs from the server's list by the edit
\* that was granted and whose answer is on its way.
FirstSession ==
  losses = 0 =>
    /\ ~online => data = <<>>
    /\ \A i, j \in DOMAIN data : data[i].rec = data[j].rec => i = j
    /\ online /\ ~Granted => Local = server
    /\ online /\ Granted /\ op = "add" =>
         oitem.rec \notin Local /\ server = Local \cup {oitem.rec}
    /\ online /\ Granted /\ op = "del" => server = Local \ {oitem.rec}

\* In any session the copy misses nothing but the granted item.
NothingMissed ==
  /\ online /\ ~Granted => server \subseteq Local
  /\ online /\ Granted /\ op = "add" => server \subseteq Local \cup {oitem.rec}
  /\ online /\ Granted /\ op = "del" => server \subseteq Local \ {oitem.rec}

IInv ==
  /\ TypeOK
  /\ ~crashed
  /\ Addresses
  /\ SlotOK
  /\ OneEdit
  /\ RetryIsTheSame
  /\ RootIsThere
  /\ FirstSession
  /\ NothingMissed

(* Lemmas on the records of a list of items *)

LEMMA LocalIsRecs == Local = Recs(data)
BY DEF Local, Recs

LEMMA RecsAppend ==
  ASSUME NEW s \in Seq(SBLItem), NEW x \in SBLItem
  PROVE  Recs(Append(s, x)) = Recs(s) \cup {x.rec}
<1>1. /\ Append(s, x) \in Seq(SBLItem)
      /\ Len(Append(s, x)) = Len(s) + 1
      /\ \A i \in 1 .. Len(s) : Append(s, x)[i] = s[i]
      /\ Append(s, x)[Len(s) + 1] = x
  BY AppendProperties
<1>2. /\ Len(s) \in Nat /\ DOMAIN s = 1 .. Len(s)
      /\ DOMAIN Append(s, x) = 1 .. Len(s) + 1
  BY <1>1, LenProperties
<1>3. Recs(s) \cup {x.rec} \subseteq Recs(Append(s, x))
  BY <1>1, <1>2 DEF Recs
<1>4. ASSUME NEW i \in DOMAIN Append(s, x)
      PROVE  Append(s, x)[i].rec \in Recs(s) \cup {x.rec}
  <2>1. CASE i = Len(s) + 1
    BY <1>1, <2>1
  <2>2. CASE i \in 1 .. Len(s)
    BY <1>1, <1>2, <2>2 DEF Recs
  <2> QED
    BY <1>2, <2>1, <2>2
<1> QED
  BY <1>3, <1>4 DEF Recs

\* Removing one position removes its record, unless the list holds it twice.
LEMMA RecsWithout ==
  ASSUME NEW s \in Seq(SBLItem), NEW i \in DOMAIN s
  PROVE  /\ Recs(Without(s, i)) \subseteq Recs(s)
         /\ Recs(s) \ {s[i].rec} \subseteq Recs(Without(s, i))
         /\ (\A j, k \in DOMAIN s : s[j].rec = s[k].rec => j = k) =>
              s[i].rec \notin Recs(Without(s, i))
<1> DEFINE w == Without(s, i)
<1>1. /\ Len(s) \in Nat /\ DOMAIN s = 1 .. Len(s)
      /\ DOMAIN w = 1 .. Len(s) - 1
      /\ \A j \in 1 .. Len(s) - 1 : w[j] = s[IF j < i THEN j ELSE j + 1]
  BY LenProperties, WithoutSeq
<1>2. ASSUME NEW j \in DOMAIN w
      PROVE  \E k \in DOMAIN s : k # i /\ w[j] = s[k]
  <2>1. CASE j < i
    BY <1>1, <2>1
  <2>2. CASE ~(j < i)
    BY <1>1, <2>2
  <2> QED
    BY <2>1, <2>2
<1>3. ASSUME NEW k \in DOMAIN s, k # i
      PROVE  \E j \in DOMAIN w : w[j] = s[k]
  <2>1. CASE k < i
    <3>1. k \in DOMAIN w /\ w[k] = s[k]
      BY <1>1, <2>1
    <3> QED
      BY <3>1
  <2>2. CASE k > i
    <3>1. k - 1 \in DOMAIN w /\ w[k - 1] = s[k]
      BY <1>1, <2>2
    <3> QED
      BY <3>1
  <2> QED
    BY <1>1, <1>3, <2>1, <2>2
<1>4. w = Without(s, i)
  OBVIOUS
<1> HIDE DEF w
<1>5. Recs(w) \subseteq Recs(s)
  BY <1>2 DEF Recs
<1>6. Recs(s) \ {s[i].rec} \subseteq Recs(w)
  BY <1>3 DEF Recs
<1>7. (\A j, k \in DOMAIN s : s[j].rec = s[k].rec => j = k) =>
        s[i].rec \notin Recs(w)
  BY <1>2 DEF Recs
<1> QED
  BY <1>4, <1>5, <1>6, <1>7

\* If the master group is in the roster, findItemByName finds one.
LEMMA FirstIsFound ==
  ASSUME TypeOK, NEW uin, NEW type, ~NoItemByUin(uin, type)
  PROVE  \E i \in DOMAIN data : IsItemByUin(i, uin, type)
<1> DEFINE Matching ==
      {i \in DOMAIN data : data[i].rec.uin = uin /\ data[i].rec.type = type}
<1>1. DOMAIN data = 1 .. Len(data) /\ Len(data) \in Nat
  BY LenProperties DEF TypeOK
<1>2. Matching # {} /\ Matching \subseteq Nat
  BY <1>1 DEF NoItemByUin, Local
<1>3. PICK i \in Matching :
        \A j \in Matching : ~(<<j, i>> \in OpToRel(<, Nat))
  BY <1>2, NatLessThanWellFounded, WFMin
<1>4. \A j \in Matching : ~(j < i)
  BY <1>2, <1>3 DEF OpToRel
<1> QED
  BY <1>1, <1>4 DEF IsItemByUin

-----------------------------------------------------------------------------
(* Every step keeps the invariant *)

\* One edit on its way is on one of the two channels.
LEMMA OneChannel ==
  ASSUME TypeOK
  PROVE  /\ InFlight = 0 <=> toServer = <<>> /\ toClient = <<>>
         /\ InFlight \in Nat
         /\ InFlight <= 1 /\ toClient # <<>> =>
              toServer = <<>> /\ Len(toClient) = 1 /\ InFlight = 1
         /\ InFlight <= 1 /\ toServer # <<>> =>
              toClient = <<>> /\ Len(toServer) = 1 /\ InFlight = 1
<1>1. /\ Len(toServer) \in Nat /\ Len(toClient) \in Nat
      /\ toServer # <<>> => Len(toServer) \in Nat \ {0}
      /\ toClient # <<>> => Len(toClient) \in Nat \ {0}
  BY EmptySeq, LenProperties DEF TypeOK
<1>2. /\ toServer = <<>> => Len(toServer) = 0
      /\ toClient = <<>> => Len(toClient) = 0
  BY EmptySeq
<1>3. /\ Len(toServer) = 0 <=> toServer = <<>>
      /\ Len(toClient) = 0 <=> toClient = <<>>
  BY <1>1, <1>2
<1>4. InFlight \in Nat /\ (InFlight = 0 <=> Len(toServer) = 0 /\ Len(toClient) = 0)
  BY <1>1 DEF InFlight
<1>5. InFlight <= 1 /\ Len(toClient) # 0 =>
        Len(toServer) = 0 /\ Len(toClient) = 1 /\ InFlight = 1
  BY <1>1 DEF InFlight
<1>6. InFlight <= 1 /\ Len(toServer) # 0 =>
        Len(toClient) = 0 /\ Len(toServer) = 1 /\ InFlight = 1
  <2>1. \A m, n \in Nat : m + n <= 1 /\ m # 0 => n = 0 /\ m = 1 /\ m + n = 1
    OBVIOUS
  <2> QED
    BY <1>1, <2>1 DEF InFlight
<1>7. InFlight = 0 <=> toServer = <<>> /\ toClient = <<>>
  BY <1>3, <1>4
<1>8. InFlight <= 1 /\ toClient # <<>> =>
        toServer = <<>> /\ Len(toClient) = 1 /\ InFlight = 1
  BY <1>3, <1>5
<1>9. InFlight <= 1 /\ toServer # <<>> =>
        toClient = <<>> /\ Len(toServer) = 1 /\ InFlight = 1
  BY <1>3, <1>6
<1> QED
  BY <1>4, <1>7, <1>8, <1>9

\* An edit of the slot is sent while nothing is under way.
LEMMA SendKeepsInv ==
  ASSUME IInv, TypeOK', online, ~Granted,
         toServer = <<>>, toClient' = <<>>, made' \in Nat, made' >= made,
         NEW kind \in {"add", "del"}, NEW it \in SBLItem, SendEdit(kind, it),
         UNCHANGED <<data, idmap, crashed, server, online, losses>>,
         it.rec.type # "group",
         kind = "del" => \E i \in DOMAIN data : data[i] = it,
         kind = "add" =>
           /\ it.obj <= made' /\ \A i \in DOMAIN data : data[i].obj # it.obj
           /\ IsNextId(it.rec.iid)
           /\ it.rec.type = "buddy" =>
                /\ \E r \in Local : r.type = "group" /\ r.gid = it.rec.gid
                /\ \A i \in DOMAIN data : IsItemByUin(i, RootName, "group") =>
                     data[i].rec.gid = it.rec.gid
  PROVE  IInv'
<1>1. Local' = Local
  BY DEF Local
<1>2. op' = kind /\ oitem' = it
  BY DEF SendEdit
<1>3. toServer' = Append(<<>>, [op |-> kind, item |-> it])
  BY DEF SendEdit
<1>4. [op |-> kind, item |-> it] \in Edit
  BY DEF Edit
<1>5. /\ Len(toServer') = 1 /\ DOMAIN toServer' = {1}
      /\ toServer'[1] = [op |-> kind, item |-> it]
  BY <1>3
<1>6. InFlight' = 1
  BY <1>5, EmptySeq DEF InFlight
<1>7. ~crashed'
  BY DEF IInv
<1>8. Addresses'
  <2>1. \A i \in DOMAIN data : data[i].obj \in Nat
    BY DataType DEF IInv, SBLItem
  <2>2. made \in Nat
    BY DEF IInv, TypeOK
  <2> QED
    BY <1>2, <2>1, <2>2 DEF IInv, Addresses
<1>9. SlotOK'
  BY <1>1, <1>2 DEF SlotOK
<1>10. OneEdit'
  BY <1>2, <1>5, <1>6 DEF OneEdit, AckIsForPendingEdit
<1>11. RetryIsTheSame'
  BY <1>2 DEF RetryIsTheSame, IsNextId, IsItemByUin
<1>12. RootIsThere'
  BY <1>1 DEF IInv, RootIsThere
<1>13. ~Granted'
  BY DEF Granted
<1>14. FirstSession'
  BY <1>1, <1>13 DEF IInv, FirstSession
<1>15. NothingMissed'
  BY <1>1, <1>13 DEF IInv, NothingMissed
<1> QED
  BY <1>7, <1>8, <1>9, <1>10, <1>11, <1>12, <1>14, <1>15 DEF IInv

\* A new item is such an edit.
LEMMA NewItemKeepsInv ==
  ASSUME IInv, TypeOK', online, ~Granted, toServer = <<>>, toClient' = <<>>,
         NEW uin \in Name, NEW type \in Kinds \ {"group"}, NEW gid \in Nat,
         NEW auth \in BOOLEAN, SendNewItem(uin, type, gid, auth),
         UNCHANGED <<data, idmap, crashed, server, online, losses>>,
         type = "buddy" =>
           \E i \in DOMAIN data :
             IsItemByUin(i, RootName, "group") /\ data[i].rec.gid = gid
  PROVE  IInv'
<1>1. PICK n \in 0 .. Cardinality(idmap) :
        /\ IsNextId(n)
        /\ made' = made + 1
        /\ SendEdit("add",
             [obj |-> made + 1, auth |-> auth,
              rec |-> [uin |-> uin, type |-> type, gid |-> gid, iid |-> n]])
  BY DEF SendNewItem
<1> DEFINE it ==
      [obj |-> made + 1, auth |-> auth,
       rec |-> [uin |-> uin, type |-> type, gid |-> gid, iid |-> n]]
<1>2. made \in Nat /\ n \in Nat
  BY FS_CardinalityType DEF IInv, TypeOK
<1>3. it \in SBLItem
  BY <1>2 DEF SBLItem, Record
<1>4. \A i \in DOMAIN data : data[i].obj \in Nat /\ data[i].obj # made + 1
  BY <1>2, DataType DEF IInv, Addresses, SBLItem
<1>5. type = "buddy" =>
        /\ \E r \in Local : r.type = "group" /\ r.gid = gid
        /\ \A i \in DOMAIN data : IsItemByUin(i, RootName, "group") =>
             data[i].rec.gid = gid
  <2> SUFFICES ASSUME type = "buddy"
               PROVE  /\ \E r \in Local : r.type = "group" /\ r.gid = gid
                      /\ \A i \in DOMAIN data :
                           IsItemByUin(i, RootName, "group") =>
                             data[i].rec.gid = gid
    OBVIOUS
  <2>1. PICK i \in DOMAIN data :
          IsItemByUin(i, RootName, "group") /\ data[i].rec.gid = gid
    OBVIOUS
  <2>2. \E r \in Local : r.type = "group" /\ r.gid = gid
    BY <2>1 DEF Local, IsItemByUin
  <2>3. ASSUME NEW j \in DOMAIN data, IsItemByUin(j, RootName, "group")
        PROVE  j = i
    <3>1. i \in Nat \ {0} /\ j \in Nat \ {0}
      BY LenProperties DEF IInv, TypeOK
    <3>2. ~(i < j) /\ ~(j < i)
      BY <2>1, <2>3, <3>1 DEF IsItemByUin
    <3> QED
      BY <3>1, <3>2
  <2> QED
    BY <2>1, <2>2, <2>3
<1>6. /\ it.rec.type # "group" /\ it.obj <= made' /\ made' >= made
      /\ it.obj = made + 1 /\ it.rec.iid = n /\ it.rec.gid = gid
      /\ it.rec.type = type /\ made' \in Nat /\ "add" \in {"add", "del"}
      /\ "add" # "del"
  BY <1>1, <1>2
<1>7. SendEdit("add", it)
  BY <1>1
<1> HIDE DEF it
<1> QED
  BY <1>1, <1>3, <1>4, <1>5, <1>6, <1>7, SendKeepsInv

\* addContact finds the master group, so it does not dereference null.
LEMMA AddContactToRootKeepsInv ==
  ASSUME IInv, TypeOK', online, ~Granted, toServer = <<>>, toClient' = <<>>,
         NEW uin \in Name, NEW auth \in BOOLEAN, AddContactToRoot(uin, auth),
         UNCHANGED <<data, idmap, server, online, losses>>
  PROVE  IInv'
<1>1. ~NoItemByUin(RootName, "group")
  BY DEF IInv, RootIsThere, IsRoot, NoItemByUin
<1>2. PICK i \in DOMAIN data :
        /\ IsItemByUin(i, RootName, "group")
        /\ SendNewItem(uin, "buddy", data[i].rec.gid, auth)
        /\ UNCHANGED crashed
  BY <1>1 DEF AddContactToRoot
<1>3. data[i].rec.gid \in Nat
  BY DataType DEF IInv
<1>4. "buddy" \in Kinds \ {"group"}
  BY DEF Kinds
<1> QED
  BY <1>2, <1>3, <1>4, NewItemKeepsInv

\* What is known when an answer is taken from the socket.
LEMMA AckFacts ==
  ASSUME IInv, HandleUpdateAck
  PROVE  /\ toServer = <<>> /\ toClient' = <<>> /\ InFlight = 1 /\ online
         /\ 1 \in DOMAIN toClient /\ Head(toClient) = toClient[1]
         /\ Head(toClient) \in ItemType
         /\ Head(toClient).edit.op = op /\ Head(toClient).edit.item = oitem
         /\ op \in {"add", "del"} /\ oitem \in SBLItem
         /\ UNCHANGED <<server, online, losses>>
<1>1. toClient # <<>> /\ toClient' = Tail(toClient)
      /\ UNCHANGED <<server, online, losses>>
  BY DEF HandleUpdateAck, session
<1>2. toServer = <<>> /\ Len(toClient) = 1 /\ InFlight = 1
  BY <1>1, OneChannel DEF IInv, OneEdit
<1>3. /\ Head(toClient) \in ItemType /\ Tail(toClient) \in Seq(ItemType)
      /\ Len(Tail(toClient)) = 0
  <2>1. toClient \in Seq(ItemType)
    BY DEF IInv, TypeOK, ItemType
  <2> QED
    BY <1>1, <1>2, <2>1, HeadTailProperties
<1>4. toClient' = <<>>
  BY <1>1, <1>3, EmptySeq
<1>5. 1 \in DOMAIN toClient /\ Head(toClient) = toClient[1]
  BY <1>2, LenProperties DEF IInv, TypeOK
<1>6. Head(toClient).edit.op = op /\ Head(toClient).edit.item = oitem
  BY <1>5 DEF IInv, OneEdit, AckIsForPendingEdit
<1>7. Head(toClient).edit \in Edit
  BY <1>3 DEF ItemType
<1>8. op \in {"add", "del"} /\ oitem \in SBLItem
  BY <1>6, <1>7 DEF Edit
<1>9. online
  BY <1>2 DEF IInv, OneEdit
<1> QED
  BY <1>1, <1>2, <1>3, <1>4, <1>5, <1>6, <1>8, <1>9

\* Nothing is under way once the answer was applied and the slot cleared.
LEMMA NothingUnderWay ==
  ASSUME IInv, toServer' = <<>>, toClient' = <<>>
  PROVE  InFlight' = 0 /\ OneEdit' /\ RetryIsTheSame' /\ ~Granted'
<1>1. InFlight' = 0
  BY EmptySeq DEF InFlight
<1>2. DOMAIN toServer' = {} /\ DOMAIN toClient' = {}
  OBVIOUS
<1> QED
  BY <1>1, <1>2 DEF OneEdit, RetryIsTheSame, AckIsForPendingEdit, Granted

\* ACK_OK for an item to add: the copy takes it over.
LEMMA AddAckKeepsInv ==
  ASSUME IInv, TypeOK', HandleUpdateAck, Head(toClient).code = "ok",
         op = "add", AddItem(oitem), op' = "none", oitem' = NoItem,
         UNCHANGED <<made, toServer>>
  PROVE  IInv'
<1>1. Granted
  BY DEF Granted, HandleUpdateAck
<1>2. /\ toServer' = <<>> /\ toClient' = <<>> /\ online /\ oitem \in SBLItem
      /\ UNCHANGED <<server, online, losses>>
  BY AckFacts
<1>3. data' = Append(data, oitem) /\ Local' = Local \cup {oitem.rec}
  BY <1>2, LocalIsRecs, RecsAppend DEF AddItem, IInv, TypeOK, Local, Recs
<1>4. ~crashed'
  BY DEF AddItem, HasGroup, IInv, SlotOK
<1>5. /\ Len(data) \in Nat /\ DOMAIN data = 1 .. Len(data)
      /\ DOMAIN data' = 1 .. Len(data) + 1
      /\ \A i \in 1 .. Len(data) : data'[i] = data[i]
      /\ data'[Len(data) + 1] = oitem
  BY <1>2, <1>3, AppendProperties, LenProperties DEF IInv, TypeOK
<1>6. Addresses'
  BY <1>5 DEF IInv, Addresses
<1>7. SlotOK'
  BY DEF SlotOK
<1>8. RootIsThere'
  BY <1>2, <1>3 DEF IInv, RootIsThere
<1>9. OneEdit' /\ RetryIsTheSame' /\ ~Granted'
  BY <1>2, NothingUnderWay
<1>10. FirstSession'
  <2> SUFFICES ASSUME losses' = 0
               PROVE  /\ \A i, j \in DOMAIN data' :
                           data'[i].rec = data'[j].rec => i = j
                      /\ Local' = server'
    BY <1>2, <1>9 DEF FirstSession
  <2>1. /\ oitem.rec \notin Local /\ server = Local \cup {oitem.rec}
        /\ \A i, j \in DOMAIN data : data[i].rec = data[j].rec => i = j
    BY <1>1, <1>2 DEF IInv, FirstSession
  <2>2. \A i \in DOMAIN data : data[i].rec # oitem.rec
    BY <2>1 DEF Local
  <2> QED
    BY <1>2, <1>3, <1>5, <2>1, <2>2
<1>11. NothingMissed'
  BY <1>1, <1>2, <1>3, <1>9 DEF IInv, NothingMissed
<1> QED
  BY <1>4, <1>6, <1>7, <1>8, <1>9, <1>10, <1>11 DEF IInv

\* ACK_OK for an item to delete: the copy drops it.
LEMMA DelAckKeepsInv ==
  ASSUME IInv, TypeOK', HandleUpdateAck, Head(toClient).code = "ok",
         op = "del", DelItem(oitem), op' = "none", oitem' = NoItem,
         UNCHANGED <<made, toServer>>
  PROVE  IInv'
<1>1. Granted
  BY DEF Granted, HandleUpdateAck
<1>2. /\ toServer' = <<>> /\ toClient' = <<>> /\ online /\ oitem \in SBLItem
      /\ UNCHANGED <<server, online, losses>>
  BY AckFacts
<1>3. PICK i \in DOMAIN data :
        data[i].obj = oitem.obj /\ data' = Without(data, i)
  BY DEF DelItem, IInv, SlotOK
<1>4. data[i] = oitem
  BY <1>3 DEF IInv, SlotOK, Addresses
<1>5. /\ Len(data) \in Nat /\ DOMAIN data = 1 .. Len(data)
      /\ DOMAIN data' = 1 .. Len(data) - 1
      /\ \A j \in 1 .. Len(data) - 1 :
           data'[j] = data[IF j < i THEN j ELSE j + 1]
  BY <1>3, WithoutSeq, LenProperties DEF IInv, TypeOK
<1> DEFINE Old(j) == IF j < i THEN j ELSE j + 1
<1>6. \A j \in DOMAIN data' : Old(j) \in DOMAIN data /\ data'[j] = data[Old(j)]
  BY <1>5
<1>7. \A j, k \in DOMAIN data' : Old(j) = Old(k) => j = k
  BY <1>5
<1> HIDE DEF Old
<1>8. /\ Local' \subseteq Local
      /\ Local \ {oitem.rec} \subseteq Local'
      /\ (\A j, k \in DOMAIN data : data[j].rec = data[k].rec => j = k) =>
           oitem.rec \notin Local'
  <2>1. Local' = Recs(Without(data, i)) /\ Local = Recs(data)
    BY <1>3 DEF Local, Recs
  <2> QED
    BY <1>4, <2>1, RecsWithout DEF IInv, TypeOK
<1>9. ~crashed'
  BY DEF DelItem, IInv
<1>10. Addresses'
  BY <1>6, <1>7 DEF IInv, Addresses
<1>11. SlotOK'
  BY DEF SlotOK
<1>12. RootIsThere'
  BY <1>2, <1>8 DEF IInv, RootIsThere, SlotOK, IsRoot
<1>13. OneEdit' /\ RetryIsTheSame' /\ ~Granted'
  BY <1>2, NothingUnderWay
<1>14. FirstSession'
  <2> SUFFICES ASSUME losses' = 0
               PROVE  /\ \A j, k \in DOMAIN data' :
                           data'[j].rec = data'[k].rec => j = k
                      /\ Local' = server'
    BY <1>2, <1>13 DEF FirstSession
  <2>1. /\ server = Local \ {oitem.rec}
        /\ \A j, k \in DOMAIN data : data[j].rec = data[k].rec => j = k
    BY <1>1, <1>2 DEF IInv, FirstSession
  <2> QED
    BY <1>2, <1>6, <1>7, <1>8, <2>1
<1>15. NothingMissed'
  BY <1>1, <1>2, <1>8, <1>13 DEF IInv, NothingMissed
<1> QED
  BY <1>9, <1>10, <1>11, <1>12, <1>13, <1>14, <1>15 DEF IInv

\* A refusal leaves the copy and the slot as they are.
LEMMA RefusalKeepsInv ==
  ASSUME IInv, TypeOK', HandleUpdateAck, ~Granted,
         UNCHANGED <<roster, slot, made, crashed, toServer>>
  PROVE  IInv'
<1>1. /\ toServer' = <<>> /\ toClient' = <<>> /\ online
      /\ UNCHANGED <<data, op, oitem, made, crashed, server, online, losses>>
  BY AckFacts DEF roster, slot
<1>2. OneEdit' /\ RetryIsTheSame' /\ ~Granted'
  BY <1>1, NothingUnderWay
<1>3. Local' = Local
  BY <1>1 DEF Local
<1>4. ~crashed' /\ Addresses' /\ SlotOK' /\ RootIsThere'
  BY <1>1, <1>3 DEF IInv, Addresses, SlotOK, RootIsThere
<1>5. FirstSession' /\ NothingMissed'
  BY <1>1, <1>2, <1>3 DEF IInv, FirstSession, NothingMissed
<1> QED
  BY <1>2, <1>4, <1>5 DEF IInv

LEMMA AckKeepsInv ==
  ASSUME IInv, TypeOK', HandleUpdateAck
  PROVE  IInv'
<1>1. /\ toServer = <<>> /\ toClient' = <<>> /\ online
      /\ op \in {"add", "del"} /\ oitem \in SBLItem
      /\ UNCHANGED <<server, online, losses>>
  BY AckFacts
<1>2. CASE Head(toClient).code = "ok"
  <2>1. ReportSuccess /\ UNCHANGED <<made, toServer>>
    BY <1>2 DEF HandleUpdateAck
  <2>2. CASE op = "add" /\ AddItem(oitem) /\ op' = "none" /\ oitem' = NoItem
    BY <1>2, <2>1, <2>2, AddAckKeepsInv
  <2>3. CASE op = "del" /\ DelItem(oitem) /\ op' = "none" /\ oitem' = NoItem
    BY <1>2, <2>1, <2>3, DelAckKeepsInv
  <2> QED
    BY <1>1, <2>1, <2>2, <2>3 DEF ReportSuccess
<1>3. CASE Head(toClient).code = "reqauth"
  <2>1. ~Granted
    BY <1>3 DEF Granted
  <2>2. AskForAuth /\ UNCHANGED roster
    BY <1>3 DEF HandleUpdateAck
  <2>3. oitem # NoItem
    BY <1>1, NameAssumption
  <2>4. AddContactToRoot(oitem.rec.uin, TRUE)
    BY <2>2, <2>3 DEF AskForAuth
  <2>5. oitem.rec.uin \in Name /\ TRUE \in BOOLEAN
    BY <1>1 DEF SBLItem, Record
  <2>6. UNCHANGED <<data, idmap, server, online, losses>>
    BY <1>1, <2>2 DEF roster
  <2> QED
    BY <1>1, <2>1, <2>4, <2>5, <2>6, AddContactToRootKeepsInv
<1>4. CASE Head(toClient).code \notin {"ok", "reqauth"}
  <2>1. ~Granted
    BY <1>4 DEF Granted
  <2>2. UNCHANGED <<roster, slot, made, crashed, toServer>>
    BY <1>4 DEF HandleUpdateAck
  <2> QED
    BY <2>1, <2>2, RefusalKeepsInv
<1> QED
  BY <1>2, <1>3, <1>4

\* A login appends what the server stores to what the copy holds.
LEMMA ListingAppended ==
  ASSUME IInv, RosterArrived
  PROVE  /\ Local' = Local \cup server
         /\ \E l \in Listings(server) :
              /\ DOMAIN data' = 1 .. Len(data) + Cardinality(server)
              /\ \A i \in 1 .. Len(data) : data'[i] = data[i]
              /\ \A i \in Len(data) + 1 .. Len(data) + Cardinality(server) :
                   /\ data'[i].obj = made + (i - Len(data))
                   /\ data'[i].rec = l[i - Len(data)]
<1>1. PICK l \in Listings(server) :
        data' = data \o [i \in DOMAIN l |->
                           [obj |-> made + i, rec |-> l[i], auth |-> FALSE]]
  BY DEF RosterArrived
<1> DEFINE new == [i \in DOMAIN l |->
                     [obj |-> made + i, rec |-> l[i], auth |-> FALSE]]
           n == Cardinality(server)
           m == Len(data)
<1>2. /\ n \in Nat /\ DOMAIN l = 1 .. n
      /\ \A r \in server : \E i \in DOMAIN l : l[i] = r
      /\ \A i, j \in DOMAIN l : l[i] = l[j] => i = j
      /\ \A i \in DOMAIN l : l[i] \in server
  BY ListingOfServer DEF IInv, TypeOK, Listings
<1>3. m \in Nat /\ made \in Nat /\ DOMAIN data = 1 .. m
  BY LenProperties DEF IInv, TypeOK
<1>4. new \in Seq(SBLItem)
  <2>1. new \in [1 .. n -> SBLItem]
    BY <1>2, <1>3 DEF IInv, TypeOK, SBLItem
  <2> QED
    BY <1>2, <2>1, SeqDef
<1>5. /\ Len(new) = n
      /\ \A i \in 1 .. n : new[i].obj = made + i /\ new[i].rec = l[i]
  BY <1>2, <1>4, LenProperties
<1> HIDE DEF new
<1>6. /\ DOMAIN data' = 1 .. m + n
      /\ \A i \in 1 .. m : data'[i] = data[i]
      /\ \A i \in m + 1 .. m + n : data'[i] = new[i - m]
  <2>1. /\ data' \in Seq(SBLItem) /\ Len(data') = m + n
        /\ \A i \in 1 .. m + n :
             data'[i] = IF i <= m THEN data[i] ELSE new[i - m]
    BY <1>1, <1>4, <1>5, ConcatProperties DEF IInv, TypeOK, new
  <2>2. DOMAIN data' = 1 .. m + n
    BY <2>1, LenProperties
  <2>3. ASSUME NEW i \in 1 .. m PROVE data'[i] = data[i]
    BY <1>2, <1>3, <2>1
  <2>4. ASSUME NEW i \in m + 1 .. m + n PROVE data'[i] = new[i - m]
    BY <1>2, <1>3, <2>1
  <2> QED
    BY <2>2, <2>3, <2>4
<1>7. Local' = Local \cup server
  <2>1. ASSUME NEW i \in DOMAIN data' PROVE data'[i].rec \in Local \cup server
    <3>1. CASE i \in 1 .. m
      <4>1. data'[i] = data[i] /\ i \in DOMAIN data
        BY <1>3, <1>6, <3>1
      <4> QED
        BY <4>1 DEF Local
    <3>2. CASE i \in m + 1 .. m + n
      <4>1. i - m \in 1 .. n
        BY <1>2, <1>3, <3>2
      <4>2. data'[i].rec = l[i - m]
        BY <1>5, <1>6, <3>2, <4>1
      <4> QED
        BY <1>2, <4>1, <4>2
    <3> QED
      BY <1>2, <1>3, <1>6, <3>1, <3>2
  <2>2. ASSUME NEW r \in Local PROVE \E i \in DOMAIN data' : data'[i].rec = r
    BY <1>2, <1>3, <1>6 DEF Local
  <2>3. ASSUME NEW r \in server PROVE \E i \in DOMAIN data' : data'[i].rec = r
    <3>1. PICK j \in 1 .. n : l[j] = r
      BY <1>2
    <3>2. m + j \in m + 1 .. m + n /\ (m + j) - m = j
      BY <1>2, <1>3
    <3> QED
      BY <1>2, <1>3, <1>5, <1>6, <3>1, <3>2
  <2> QED
    BY <2>1, <2>2, <2>3 DEF Local
<1>8. \A i \in m + 1 .. m + n :
        data'[i].obj = made + (i - m) /\ data'[i].rec = l[i - m]
  <2> SUFFICES ASSUME NEW i \in m + 1 .. m + n
               PROVE  data'[i].obj = made + (i - m) /\ data'[i].rec = l[i - m]
    OBVIOUS
  <2>1. i - m \in 1 .. n
    BY <1>2, <1>3
  <2> QED
    BY <1>5, <1>6, <2>1
<1> QED
  BY <1>6, <1>7, <1>8

LEMMA RosterArrivedKeepsInv ==
  ASSUME IInv, TypeOK', RosterArrived
  PROVE  IInv'
<1> DEFINE n == Cardinality(server)
           m == Len(data)
<1>1. PICK l \in Listings(server) :
        /\ DOMAIN data' = 1 .. m + n
        /\ \A i \in 1 .. m : data'[i] = data[i]
        /\ \A i \in m + 1 .. m + n :
             data'[i].obj = made + (i - m) /\ data'[i].rec = l[i - m]
  BY ListingAppended
<1>2. /\ n \in Nat /\ DOMAIN l = 1 .. n
      /\ \A i, j \in DOMAIN l : l[i] = l[j] => i = j
  BY ListingOfServer DEF IInv, TypeOK
<1>3. m \in Nat /\ made \in Nat /\ DOMAIN data = 1 .. m
  BY LenProperties DEF IInv, TypeOK
<1>4. Local' = Local \cup server
  BY ListingAppended
<1>5. /\ made' = made + n /\ online' /\ ~online /\ ~crashed'
      /\ UNCHANGED <<op, oitem, crashed, toServer, toClient, server, losses>>
  BY DEF RosterArrived, slot, net
<1>6. toServer = <<>> /\ toClient = <<>>
  BY <1>5, OneChannel DEF IInv, OneEdit
<1>7. OneEdit' /\ RetryIsTheSame' /\ ~Granted'
  BY <1>5, <1>6, NothingUnderWay
<1>8. Addresses'
  <2>1. \A i \in DOMAIN data' :
          \/ i \in 1 .. m /\ data'[i] = data[i]
             /\ data[i].obj \in Nat /\ data[i].obj <= made
          \/ i \in m + 1 .. m + n /\ data'[i].obj = made + (i - m)
    BY <1>1, <1>2, <1>3, DataType DEF IInv, Addresses, SBLItem
  <2>2. \A i \in DOMAIN data' : data'[i].obj <= made'
    BY <1>2, <1>3, <1>5, <2>1
  <2>3. \A i, j \in DOMAIN data' : data'[i].obj = data'[j].obj => i = j
    BY SMTT(60), <1>2, <1>3, <2>1 DEF IInv, Addresses
  <2>4. op = "add" => oitem.obj \in Nat /\ oitem.obj <= made
    BY NameAssumption DEF IInv, Addresses, TypeOK, SBLItem
  <2>5. op' = "add" => /\ oitem'.obj <= made'
                       /\ \A i \in DOMAIN data' : data'[i].obj # oitem'.obj
    BY SMTT(60), <1>2, <1>3, <1>5, <2>1, <2>4 DEF IInv, Addresses
  <2> QED
    BY <2>2, <2>3, <2>5 DEF Addresses
<1>9. SlotOK'
  <2>1. \A i \in DOMAIN data : i \in DOMAIN data' /\ data'[i] = data[i]
    BY <1>1, <1>2, <1>3
  <2> QED
    BY <1>4, <1>5, <2>1 DEF IInv, SlotOK
<1>10. RootIsThere'
  BY <1>4, <1>5 DEF IInv, RootIsThere
<1>11. FirstSession'
  <2> SUFFICES ASSUME losses' = 0
               PROVE  /\ \A i, j \in DOMAIN data' :
                           data'[i].rec = data'[j].rec => i = j
                      /\ Local' = server'
    BY <1>5, <1>7 DEF FirstSession
  <2>1. data = <<>>
    BY <1>5 DEF IInv, FirstSession
  <2>2. Local = {} /\ m = 0
    BY <2>1, EmptySeq DEF Local
  <2>3. \A i \in DOMAIN data' : i \in 1 .. n /\ data'[i].rec = l[i]
    BY <1>1, <1>2, <2>2
  <2> QED
    BY <1>2, <1>4, <1>5, <2>2, <2>3
<1>12. NothingMissed'
  BY <1>4, <1>5, <1>7 DEF NothingMissed
<1> QED
  BY <1>5, <1>7, <1>8, <1>9, <1>10, <1>11, <1>12 DEF IInv

\* A lost connection takes what is in transit with it.
LEMMA ConnectionLostKeepsInv ==
  ASSUME IInv, TypeOK', ConnectionLost
  PROVE  IInv'
<1>1. /\ toServer' = <<>> /\ toClient' = <<>> /\ ~online' /\ losses' = losses + 1
      /\ UNCHANGED <<data, op, oitem, made, crashed, server>>
  BY DEF ConnectionLost, roster, slot
<1>2. OneEdit' /\ RetryIsTheSame' /\ ~Granted'
  BY <1>1, NothingUnderWay
<1>3. Local' = Local
  BY <1>1 DEF Local
<1>4. ~crashed' /\ Addresses' /\ SlotOK' /\ RootIsThere'
  BY <1>1, <1>3 DEF IInv, Addresses, SlotOK, RootIsThere
<1>5. losses' # 0
  BY <1>1 DEF IInv, TypeOK
<1>6. FirstSession' /\ NothingMissed'
  BY <1>1, <1>5 DEF FirstSession, NothingMissed
<1> QED
  BY <1>2, <1>4, <1>6 DEF IInv

\* The server decides the one edit that reached it.
LEMMA ServerAnswersKeepsInv ==
  ASSUME IInv, TypeOK', ServerAnswers
  PROVE  IInv'
<1> DEFINE e == Head(toServer)
<1>1. /\ toServer # <<>> /\ toServer' = Tail(toServer)
      /\ UNCHANGED <<data, idmap, op, oitem, made, crashed, online, losses>>
  BY DEF ServerAnswers, roster, slot, session
<1>2. toClient = <<>> /\ Len(toServer) = 1 /\ InFlight = 1
  BY <1>1, OneChannel DEF IInv, OneEdit
<1>3. online /\ ~Granted
  BY <1>2 DEF IInv, OneEdit, Granted
<1>4. toServer \in Seq(Edit)
  BY DEF IInv, TypeOK
<1>5. e \in Edit /\ toServer' \in Seq(Edit) /\ Len(toServer') = 0
  BY <1>1, <1>2, <1>4, HeadTailProperties
<1>6. toServer' = <<>>
  BY <1>5, EmptySeq
<1>7. e.op = op /\ e.item = oitem
  <2>1. 1 \in DOMAIN toServer /\ e = toServer[1]
    BY <1>2, <1>4, LenProperties
  <2> QED
    BY <2>1 DEF IInv, OneEdit
<1>8. PICK code \in RosterModifyAck :
        /\ toClient' = Append(toClient, [code |-> code, edit |-> e])
        /\ code = "reqauth" => op = "add" /\ oitem.rec.type = "buddy"
        /\ code # "ok" => server' = server
        /\ code = "ok" /\ op = "add" =>
             oitem.rec \notin server /\ server' = server \cup {oitem.rec}
        /\ code = "ok" /\ op = "del" => server' = server \ {oitem.rec}
  BY <1>7 DEF ServerAnswers, RosterModifyAck, Answer, Taken
<1> HIDE DEF e
<1>9. toClient' = <<[code |-> code, edit |-> e]>>
  BY <1>2, <1>8
<1>10. /\ Len(toClient') = 1 /\ DOMAIN toClient' = {1} /\ toClient' # <<>>
       /\ toClient'[1] = [code |-> code, edit |-> e]
       /\ Head(toClient') = [code |-> code, edit |-> e]
  BY <1>9
<1>11. InFlight' = 1
  BY <1>6, <1>10, EmptySeq DEF InFlight
<1>12. Granted' <=> code = "ok"
  BY <1>10 DEF Granted
<1>13. Local' = Local
  BY <1>1 DEF Local
<1>14. op \in {"add", "del"} /\ oitem.rec.type # "group"
  BY <1>5, <1>7 DEF Edit, IInv, SlotOK
<1>15. ~crashed' /\ Addresses' /\ SlotOK'
  BY <1>1, <1>13 DEF IInv, Addresses, SlotOK
<1>16. OneEdit'
  BY <1>1, <1>3, <1>6, <1>7, <1>10, <1>11 DEF OneEdit, AckIsForPendingEdit
<1>17. RetryIsTheSame'
  BY <1>1, <1>2, <1>8, <1>10
  DEF IInv, RetryIsTheSame, IsNextId, IsItemByUin
<1>18. RootIsThere'
  <2>1. \A r \in server : r.type = "group" => r \in server'
    BY <1>8, <1>14 DEF RosterModifyAck
  <2> QED
    BY <1>1, <1>13, <2>1 DEF IInv, RootIsThere, IsRoot
<1>19. FirstSession'
  <2> SUFFICES ASSUME losses' = 0
               PROVE  /\ code # "ok" => Local' = server'
                      /\ code = "ok" /\ op = "add" =>
                           oitem.rec \notin Local'
                           /\ server' = Local' \cup {oitem.rec}
                      /\ code = "ok" /\ op = "del" =>
                           server' = Local' \ {oitem.rec}
    BY <1>1, <1>3, <1>12 DEF IInv, FirstSession
  <2>1. Local = server
    BY <1>1, <1>3 DEF IInv, FirstSession
  <2> QED
    BY <1>8, <1>13, <2>1
<1>20. NothingMissed'
  <2>1. server \subseteq Local
    BY <1>3 DEF IInv, NothingMissed
  <2>2. CASE code # "ok"
    BY <1>8, <1>12, <1>13, <2>1, <2>2 DEF NothingMissed
  <2>3. CASE code = "ok" /\ op = "add"
    BY <1>1, <1>8, <1>12, <1>13, <2>1, <2>3 DEF NothingMissed
  <2>4. CASE code = "ok" /\ op = "del"
    BY <1>1, <1>8, <1>12, <1>13, <2>1, <2>4 DEF NothingMissed
  <2> QED
    BY <1>14, <2>2, <2>3, <2>4
<1> QED
  BY <1>15, <1>16, <1>17, <1>18, <1>19, <1>20 DEF IInv

\* The invariant is inductive when the application waits for its answers.
LEMMA InvStep ==
  ASSUME MaxPending = 1, IInv, [Next]_vars
  PROVE  IInv'
<1> USE NameAssumption
<1>1. TypeOK'
  BY TypeStep DEF IInv
<1>2. ASSUME MayCall
      PROVE  online /\ toServer = <<>> /\ toClient = <<>> /\ ~Granted
  <2>1. InFlight = 0
    BY <1>2, OneChannel DEF MayCall, IInv
  <2> QED
    BY <1>2, <2>1, OneChannel DEF MayCall, IInv, Granted
<1>3. ASSUME MayCall, NEW i \in DOMAIN data, data[i].rec.type # "group",
             SendEdit("del", data[i]), toClient' = toClient,
             UNCHANGED <<data, idmap, made, crashed, server, online, losses>>
      PROVE  IInv'
  <2>1. data[i] \in SBLItem /\ made' \in Nat /\ made' >= made
    BY <1>3, DataType DEF IInv, TypeOK
  <2>2. "del" \in {"add", "del"} /\ "del" # "add"
    OBVIOUS
  <2> QED
    BY <1>1, <1>2, <1>3, <2>1, <2>2, SendKeepsInv
<1>4. ASSUME NEW uin \in Uin, AddContact(uin) PROVE IInv'
  <2>1. /\ MayCall /\ AddContactToRoot(uin, FALSE) /\ toClient' = toClient
        /\ UNCHANGED <<data, idmap, server, online, losses>>
        /\ uin \in Name /\ FALSE \in BOOLEAN
    BY <1>4 DEF AddContact, roster, session
  <2> QED
    BY <1>1, <1>2, <2>1, AddContactToRootKeepsInv
<1>5. ASSUME NEW uin \in Uin, DelContact(uin) PROVE IInv'
  <2>1. PICK i \in DOMAIN data :
          IsItemByUin(i, uin, "buddy") /\ SendEdit("del", data[i])
    BY <1>5 DEF DelContact
  <2>2. data[i].rec.type # "group"
    BY <2>1 DEF IsItemByUin
  <2> QED
    BY <1>3, <1>5, <2>1, <2>2 DEF DelContact, roster, session
<1>6. ASSUME NEW uin \in Uin, NEW type \in {"permit", "deny"},
             NEW in \in BOOLEAN, SetStatus(uin, type, in)
      PROVE  IInv'
  <2>1. /\ MayCall /\ toClient' = toClient
        /\ UNCHANGED <<data, idmap, crashed, server, online, losses>>
    BY <1>6 DEF SetStatus, roster, session
  <2>2. CASE SendNewItem(uin, type, 0, FALSE)
    <3>1. /\ type \in Kinds \ {"group"} /\ type # "buddy" /\ uin \in Name
          /\ 0 \in Nat /\ FALSE \in BOOLEAN
      BY DEF Kinds
    <3> QED
      BY <1>1, <1>2, <2>1, <2>2, <3>1, NewItemKeepsInv
  <2>3. ASSUME NEW i \in DOMAIN data, IsItemByUin(i, uin, type),
               SendEdit("del", data[i]), made' = made
        PROVE  IInv'
    <3>1. data[i].rec.type # "group"
      BY <2>3 DEF IsItemByUin
    <3> QED
      BY <1>3, <2>1, <2>3, <3>1
  <2> QED
    BY <1>6, <2>2, <2>3 DEF SetStatus
<1>7. CASE UNCHANGED vars
  BY <1>7
  DEF vars, IInv, TypeOK, Addresses, SlotOK, OneEdit, RetryIsTheSame,
      RootIsThere, FirstSession, NothingMissed, Granted, Local, InFlight,
      AckIsForPendingEdit, IsNextId, IsItemByUin
<1> QED
  BY <1>1, <1>4, <1>5, <1>6, <1>7, AckKeepsInv, RosterArrivedKeepsInv,
     ConnectionLostKeepsInv, ServerAnswersKeepsInv
  DEF Next, Application, SetVisibleStatus, SetInvisibleStatus

LEMMA InitInv == Init => IInv
<1> SUFFICES ASSUME Init PROVE IInv
  OBVIOUS
<1>1. TypeOK
  BY InitType
<1>2. /\ data = <<>> /\ toServer = <<>> /\ toClient = <<>> /\ op = "none"
      /\ ~crashed /\ ~online /\ server \in Stores
  BY DEF Init
<1>3. DOMAIN data = {} /\ DOMAIN toServer = {} /\ DOMAIN toClient = {}
  BY <1>2
<1>4. InFlight = 0
  BY <1>1, <1>2, OneChannel
<1>5. \E r \in server : IsRoot(r)
  BY <1>2, StoreAssumption DEF IsRoot
<1> QED
  BY <1>1, <1>2, <1>3, <1>4, <1>5
  DEF IInv, Addresses, SlotOK, OneEdit, AckIsForPendingEdit, RetryIsTheSame,
      RootIsThere, FirstSession, NothingMissed

LEMMA Inductive ==
  ASSUME MaxPending = 1
  PROVE  Spec => []IInv
<1>1. IInv /\ [Next]_vars => IInv'
  BY InvStep
<1> QED
  BY <1>1, InitInv, PTL DEF Spec

-----------------------------------------------------------------------------
(* Safety of an application that waits for its answers *)

\* In the first session the roster and the server's list are the same
\* whenever no edit is under way.
THEOREM RosterAgrees ==
  ASSUME MaxPending = 1
  PROVE  Spec => []Agreement
<1>1. IInv => Agreement
  <2> SUFFICES ASSUME IInv, online, losses = 0, InFlight = 0
               PROVE  Local = server
    BY DEF Agreement
  <2>1. ~Granted
    BY OneChannel DEF IInv, Granted
  <2> QED
    BY <2>1 DEF IInv, FirstSession
<1> QED
  BY <1>1, Inductive, PTL

\* In any session the roster holds everything the server stores whenever no
\* edit is under way.
THEOREM NoItemMissed ==
  ASSUME MaxPending = 1
  PROVE  Spec => []ServerItemsAreKnown
<1>1. IInv => ServerItemsAreKnown
  <2> SUFFICES ASSUME IInv, online, InFlight = 0
               PROVE  server \subseteq Local
    BY DEF ServerItemsAreKnown
  <2>1. ~Granted
    BY OneChannel DEF IInv, Granted
  <2> QED
    BY <2>1 DEF IInv, NothingMissed
<1> QED
  BY <1>1, Inductive, PTL

\* The answer handleUpdateAck takes is the answer to the edit in the slot.
THEOREM AnswersMatch ==
  ASSUME MaxPending = 1
  PROVE  Spec => []AckIsForPendingEdit
<1>1. IInv => AckIsForPendingEdit
  BY DEF IInv, OneEdit
<1> QED
  BY <1>1, Inductive, PTL

\* No null pointer is dereferenced: the master group is never lost, the group
\* of an acknowledged contact is there, and a retry finds m_oitem set.
THEOREM NeverNull ==
  ASSUME MaxPending = 1
  PROVE  Spec => []NoNullDeref
<1>1. IInv => NoNullDeref
  BY DEF IInv, NoNullDeref
<1> QED
  BY <1>1, Inductive, PTL

-----------------------------------------------------------------------------
(* Identifiers in use *)

\* No two items of the list that the server stores before the first login have one identifier,
\* except groups.  Roster keeps one m_idmap for all groups, so it needs this.
IdsApart ==
  \A S \in Stores : \A r, t \in S :
    r.iid = t.iid => r = t \/ (r.type = "group" /\ t.type = "group")

\* In the first session the identifiers in the copy stay apart and reserved.
Ids ==
  losses = 0 =>
    /\ ~online => server \in Stores
    /\ \A r, t \in Local : r.iid = t.iid => r = t \/ (r.type = "group" /\ t.type = "group")
    /\ \A r \in Local : r.iid \in idmap

\* The item that an answer adds has an identifier that was free.
LEMMA AddAckKeepsIds ==
  ASSUME IInv, Ids, HandleUpdateAck, op = "add", AddItem(oitem)
  PROVE  Ids'
<1>1. InFlight = 1 /\ online /\ oitem \in SBLItem /\ UNCHANGED <<server, online, losses>>
  BY AckFacts
<1>2. oitem.rec.iid \notin idmap
  BY <1>1 DEF IInv, RetryIsTheSame, IsNextId
<1>3. Local' = Local \cup {oitem.rec} /\ idmap' = idmap \cup {oitem.rec.iid}
  <2>1. data' = Append(data, oitem) /\ idmap' = idmap \cup {oitem.rec.iid}
    BY DEF AddItem
  <2>2. Recs(Append(data, oitem)) = Recs(data) \cup {oitem.rec}
    BY <1>1, RecsAppend DEF IInv, TypeOK
  <2>3. Local' = Recs(Append(data, oitem)) /\ Local = Recs(data)
    BY <2>1 DEF Local, Recs
  <2> QED
    BY <2>1, <2>2, <2>3
<1> QED
  BY <1>1, <1>2, <1>3 DEF Ids

\* The identifier that an answer frees is that of the item that it removes, and of no other.
LEMMA DelAckKeepsIds ==
  ASSUME IInv, Ids, HandleUpdateAck, op = "del", DelItem(oitem)
  PROVE  Ids'
<1>1. online /\ UNCHANGED <<server, online, losses>>
  BY AckFacts
<1>2. PICK i \in DOMAIN data :
        data[i].obj = oitem.obj /\ data' = Without(data, i)
  BY DEF DelItem, IInv, SlotOK
<1>3. data[i] = oitem
  BY <1>2 DEF IInv, SlotOK, Addresses
<1>4. oitem.rec \in Local /\ oitem.rec.type # "group" /\ idmap' = idmap \ {oitem.rec.iid}
  BY <1>3 DEF Local, DelItem, IInv, SlotOK
<1>5. /\ Local' \subseteq Local
      /\ losses = 0 => oitem.rec \notin Local'
  <2>1. Local' = Recs(Without(data, i)) /\ Local = Recs(data)
    BY <1>2 DEF Local, Recs
  <2>2. losses = 0 => \A j, k \in DOMAIN data : data[j].rec = data[k].rec => j = k
    BY DEF IInv, FirstSession
  <2> QED
    BY <1>3, <2>1, <2>2, RecsWithout DEF IInv, TypeOK
<1> QED
  BY <1>1, <1>4, <1>5 DEF Ids

\* The list that arrives has its identifiers reserved.
LEMMA RosterArrivedKeepsIds ==
  ASSUME IdsApart, IInv, Ids, RosterArrived
  PROVE  Ids'
<1>1. /\ ~online /\ online' = TRUE /\ losses' = losses
      /\ idmap' = idmap \cup {r.iid : r \in server}
  BY DEF RosterArrived
<1>2. losses = 0 => Local = {}
  BY <1>1, EmptySeq DEF IInv, FirstSession, Local
<1>3. Local' = Local \cup server
  BY ListingAppended
<1> QED
  BY <1>1, <1>2, <1>3 DEF Ids, IdsApart

\* Every step keeps the identifiers.
LEMMA IdsStep ==
  ASSUME IdsApart, IInv, Ids, [Next]_vars
  PROVE  Ids'
<1>1. ASSUME UNCHANGED <<data, idmap, online, losses>>, ~online => server' = server
      PROVE  Ids'
  BY <1>1 DEF Ids, Local
<1>2. CASE Application
  BY <1>1, <1>2 DEF Application, AddContact, DelContact, SetVisibleStatus, SetInvisibleStatus,
     SetStatus, roster, session
<1>3. CASE HandleUpdateAck
  <2>1. CASE Head(toClient).code = "ok"
    <3>1. ReportSuccess
      BY <1>3, <2>1 DEF HandleUpdateAck
    <3>2. op # "none"
      BY <1>3, AckFacts
    <3> QED
      BY <1>3, <3>1, <3>2, AddAckKeepsIds, DelAckKeepsIds DEF ReportSuccess
  <2>2. CASE Head(toClient).code # "ok"
    <3>1. UNCHANGED roster /\ UNCHANGED <<server, session>>
      BY <1>3, <2>2 DEF HandleUpdateAck
    <3> QED
      BY <1>1, <3>1 DEF roster, session
  <2> QED
    BY <2>1, <2>2
<1>4. CASE ConnectionLost
  <2>1. losses' # 0
    BY <1>4 DEF ConnectionLost, IInv, TypeOK
  <2> QED
    BY <2>1 DEF Ids
<1>5. CASE ServerAnswers
  <2>1. online
    BY <1>5, OneChannel DEF ServerAnswers, IInv, OneEdit
  <2> QED
    BY <1>1, <1>5, <2>1 DEF ServerAnswers, roster, session
<1>6. CASE UNCHANGED vars
  BY <1>1, <1>6 DEF vars
<1> QED
  BY <1>2, <1>3, <1>4, <1>5, <1>6, RosterArrivedKeepsIds DEF Next

\* In the first session the identifier of an item of the roster is never handed out again, if the
\* stored list has an identifier for each item.
THEOREM IdsReserved ==
  ASSUME MaxPending = 1, IdsApart
  PROVE  Spec => []UsedIdsAreReserved
<1>1. Init => Ids
  <2> SUFFICES ASSUME Init PROVE Ids
    OBVIOUS
  <2>1. Local = {} /\ server \in Stores
    BY DEF Init, Local
  <2> QED
    BY <2>1 DEF Ids
<1>2. IInv /\ Ids /\ [Next]_vars => Ids'
  BY IdsStep
<1>3. Ids => UsedIdsAreReserved
  BY DEF Ids, UsedIdsAreReserved
<1>4. Spec => []IInv
  BY Inductive
<1> QED
  BY <1>1, <1>2, <1>3, <1>4, PTL DEF Spec

-----------------------------------------------------------------------------
(* Refinement *)

\* What Request is when nothing, an edit or an answer is under way.
LEMMA RequestValue ==
  ASSUME IInv
  PROVE  /\ toServer = <<>> /\ toClient = <<>> => Request = CL!Idle
         /\ toServer # <<>> => Request = Asked([op |-> op, item |-> oitem], "asked")
         /\ toClient # <<>> =>
              Request = Asked([op |-> op, item |-> oitem],
                              StateOfCode(Head(toClient).code))
         /\ InFlight # 0 => op \in {"add", "del"} /\ oitem \in SBLItem
<1>1. /\ toClient # <<>> => toServer = <<>>
      /\ InFlight # 0 => toServer # <<>> \/ toClient # <<>>
  BY OneChannel DEF IInv, OneEdit
<1>2. ASSUME toServer # <<>>
      PROVE  /\ Head(toServer).op = op /\ Head(toServer).item = oitem
             /\ op \in {"add", "del"} /\ oitem \in SBLItem
  <2>1. toServer \in Seq(Edit) /\ Len(toServer) = 1
    BY <1>2, OneChannel DEF IInv, OneEdit, TypeOK
  <2>2. 1 \in DOMAIN toServer /\ Head(toServer) = toServer[1]
        /\ Head(toServer) \in Edit
    BY <1>2, <2>1, LenProperties, HeadTailProperties
  <2> QED
    BY <2>2 DEF IInv, OneEdit, Edit
<1>3. ASSUME toClient # <<>>
      PROVE  /\ Head(toClient).edit.op = op /\ Head(toClient).edit.item = oitem
             /\ op \in {"add", "del"} /\ oitem \in SBLItem
  <2>1. toClient \in Seq(ItemType) /\ Len(toClient) = 1
    BY <1>3, OneChannel DEF IInv, OneEdit, TypeOK, ItemType
  <2>2. 1 \in DOMAIN toClient /\ Head(toClient) = toClient[1]
        /\ Head(toClient) \in ItemType
    BY <1>3, <2>1, LenProperties, HeadTailProperties
  <2> QED
    BY <2>2 DEF IInv, OneEdit, AckIsForPendingEdit, ItemType, Edit
<1> QED
  BY <1>1, <1>2, <1>3 DEF Request, Asked, CL!Idle

\* Sending an edit is asking for it.
LEMMA SendIsAsk ==
  ASSUME IInv, MayCall, InFlight = 0,
         NEW kind \in {"add", "del"}, NEW it \in SBLItem, SendEdit(kind, it),
         UNCHANGED <<data, toClient, server, online, losses>>
  PROVE  CL!Ask
<1>1. toServer = <<>> /\ toClient = <<>> /\ Request = CL!Idle /\ online
  BY OneChannel, RequestValue DEF IInv, MayCall
<1>2. toServer' = <<[op |-> kind, item |-> it]>>
  BY <1>1 DEF SendEdit
<1>3. Request' = [state |-> "asked", op |-> kind, entry |-> it.rec]
  BY <1>2 DEF Request, Asked
<1>4. it.rec \in Record
  BY DEF SBLItem
<1>5. Request' \in CL!Requests
  BY <1>3, <1>4 DEF CL!Requests
<1>6. Logins \in Nat /\ Logins > 0 /\ Logins' = Logins /\ Local' = Local
  BY <1>1 DEF Logins, Local, IInv, TypeOK
<1> QED
  BY <1>1, <1>3, <1>5, <1>6 DEF CL!Ask

LEMMA NewItemIsAsk ==
  ASSUME IInv, MayCall, InFlight = 0,
         NEW uin \in Name, NEW type \in Kinds, NEW gid \in Nat,
         NEW auth \in BOOLEAN, SendNewItem(uin, type, gid, auth),
         UNCHANGED <<data, toClient, server, online, losses>>
  PROVE  CL!Ask
<1>1. PICK n \in 0 .. Cardinality(idmap) :
        SendEdit("add",
          [obj |-> made + 1, auth |-> auth,
           rec |-> [uin |-> uin, type |-> type, gid |-> gid, iid |-> n]])
  BY DEF SendNewItem
<1>2. made \in Nat /\ n \in Nat
  BY FS_CardinalityType DEF IInv, TypeOK
<1>3. [obj |-> made + 1, auth |-> auth,
       rec |-> [uin |-> uin, type |-> type, gid |-> gid, iid |-> n]] \in SBLItem
  BY <1>2 DEF SBLItem, Record
<1> QED
  BY <1>1, <1>3, SendIsAsk

\* Asking again for authorization is the same request: same contact, same
\* group, same identifier.
LEMMA RetryIsStutter ==
  ASSUME IInv, HandleUpdateAck, Head(toClient).code = "reqauth"
  PROVE  UNCHANGED CL!lvars
<1>1. /\ toServer = <<>> /\ toClient' = <<>> /\ toClient # <<>>
      /\ op = "add" /\ oitem \in SBLItem /\ oitem.rec.type = "buddy"
      /\ InFlight = 1
      /\ UNCHANGED <<server, online, losses>>
  BY AckFacts DEF IInv, RetryIsTheSame, HandleUpdateAck
<1>2. AskForAuth /\ UNCHANGED roster
  BY DEF HandleUpdateAck
<1>3. ~NoItemByUin(RootName, "group")
  <2>1. online
    BY <1>1 DEF IInv, OneEdit
  <2> QED
    BY <2>1 DEF IInv, RootIsThere, IsRoot, NoItemByUin
<1>4. PICK i \in DOMAIN data :
        /\ IsItemByUin(i, RootName, "group")
        /\ SendNewItem(oitem.rec.uin, "buddy", data[i].rec.gid, TRUE)
  BY <1>1, <1>2, <1>3, NameAssumption DEF AskForAuth, AddContactToRoot
<1>5. PICK n \in 0 .. Cardinality(idmap) :
        /\ IsNextId(n)
        /\ SendEdit("add",
             [obj |-> made + 1, auth |-> TRUE,
              rec |-> [uin |-> oitem.rec.uin, type |-> "buddy",
                       gid |-> data[i].rec.gid, iid |-> n]])
  BY <1>4 DEF SendNewItem
<1>6. data[i].rec.gid = oitem.rec.gid /\ IsNextId(oitem.rec.iid)
  BY <1>1, <1>4 DEF IInv, RetryIsTheSame
<1>7. n = oitem.rec.iid
  <2>1. n \in Nat /\ oitem.rec.iid \in Nat
    BY <1>1, FS_CardinalityType DEF IInv, TypeOK, SBLItem, Record
  <2> QED
    BY <1>5, <1>6, <2>1 DEF IsNextId
<1>8. oitem.rec = [uin |-> oitem.rec.uin, type |-> "buddy",
                   gid |-> data[i].rec.gid, iid |-> n]
  BY <1>1, <1>6, <1>7 DEF SBLItem, Record
<1>9. Request' = [state |-> "asked", op |-> "add", entry |-> oitem.rec]
  <2> DEFINE r == [uin |-> oitem.rec.uin, type |-> "buddy",
                   gid |-> data[i].rec.gid, iid |-> n]
             it == [obj |-> made + 1, auth |-> TRUE, rec |-> r]
  <2>1. toServer' = Append(<<>>, [op |-> "add", item |-> it])
    BY <1>1, <1>5 DEF SendEdit
  <2>2. toServer' # <<>> /\ Head(toServer') = [op |-> "add", item |-> it]
    BY <2>1
  <2>3. Request' = [state |-> "asked", op |-> "add", entry |-> it.rec]
    BY <2>2 DEF Request, Asked
  <2>4. it.rec = r
    OBVIOUS
  <2>5. r = oitem.rec
    BY <1>8
  <2> HIDE DEF r, it
  <2> QED
    BY <2>3, <2>4, <2>5
<1>10. Request = [state |-> "asked", op |-> "add", entry |-> oitem.rec]
  BY <1>1, RequestValue DEF Asked, StateOfCode
<1>11. Local' = Local /\ server' = server /\ Logins' = Logins
  BY <1>1, <1>2 DEF roster, Local, Logins
<1> QED
  BY <1>9, <1>10, <1>11 DEF CL!lvars

\* An acceptance or a refusal is what the application learns.
LEMMA AckIsLearn ==
  ASSUME IInv, HandleUpdateAck, Head(toClient).code # "reqauth"
  PROVE  CL!Learn
<1>1. /\ toServer = <<>> /\ toClient' = <<>> /\ toClient # <<>> /\ online
      /\ Head(toClient).code \in {"ok", "refused"}
      /\ op \in {"add", "del"} /\ oitem \in SBLItem
      /\ UNCHANGED <<server, online, losses>>
  BY AckFacts DEF HandleUpdateAck, ItemType, RosterModifyAck
<1>2. toServer' = toServer
  BY DEF HandleUpdateAck
<1>3. Request' = CL!Idle
  BY <1>1, <1>2 DEF Request, CL!Idle
<1>4. Request = [state |-> StateOfCode(Head(toClient).code), op |-> op,
                 entry |-> oitem.rec]
  BY <1>1, RequestValue DEF Asked
<1>5. Logins' = Logins
  BY <1>1 DEF Logins
<1>6. CASE Head(toClient).code = "refused"
  <2>1. UNCHANGED roster
    BY <1>6 DEF HandleUpdateAck
  <2>2. Local' = Local
    BY <2>1 DEF roster, Local
  <2> QED
    BY <1>1, <1>3, <1>4, <1>5, <1>6, <2>2 DEF CL!Learn, StateOfCode
<1>7. CASE Head(toClient).code = "ok"
  <2>1. Granted /\ ReportSuccess
    BY <1>1, <1>7 DEF Granted, HandleUpdateAck
  <2>2. CASE op = "add" /\ AddItem(oitem)
    <3>1. data' = Append(data, oitem) /\ data \in Seq(SBLItem)
      BY <2>2 DEF AddItem, IInv, TypeOK
    <3>2. Local' = Local \cup {oitem.rec}
      BY <1>1, <3>1, RecsAppend DEF Local, Recs
    <3> QED
      BY <1>1, <1>3, <1>4, <1>5, <1>7, <2>2, <3>2
      DEF CL!Learn, CL!Apply, StateOfCode
  <2>3. CASE op = "del" /\ DelItem(oitem)
    <3>1. PICK i \in DOMAIN data :
            data[i].obj = oitem.obj /\ data' = Without(data, i)
      BY <2>3 DEF DelItem, IInv, SlotOK
    <3>2. data[i] = oitem
      BY <2>3, <3>1 DEF IInv, SlotOK, Addresses
    <3>3. /\ Local' \subseteq Local
          /\ Local \ {oitem.rec} \subseteq Local'
          /\ (\A j, k \in DOMAIN data : data[j].rec = data[k].rec => j = k) =>
               oitem.rec \notin Local'
      <4>1. Local' = Recs(Without(data, i)) /\ Local = Recs(data)
        BY <3>1 DEF Local, Recs
      <4> QED
        BY <3>2, <4>1, RecsWithout DEF IInv, TypeOK
    <3>4. \/ Local' = Local \ {oitem.rec}
          \/ Logins > 1 /\ Local' = Local
      <4>1. CASE losses = 0
        BY <3>3, <4>1 DEF IInv, FirstSession
      <4>2. CASE losses # 0
        BY <1>1, <3>3, <4>2 DEF Logins, IInv, TypeOK
      <4> QED
        BY <4>1, <4>2
    <3> QED
      BY <1>1, <1>3, <1>4, <1>5, <1>7, <2>3, <3>4
      DEF CL!Learn, CL!Apply, StateOfCode
  <2> QED
    BY <1>1, <2>1, <2>2, <2>3 DEF ReportSuccess
<1> QED
  BY <1>1, <1>6, <1>7

\* What the server decides is a grant, a refusal, or, when it wants an
\* authorization, nothing yet.
LEMMA AnswerIsDecision ==
  ASSUME IInv, ServerAnswers
  PROVE  CL!Next \/ UNCHANGED CL!lvars
<1> DEFINE e == Head(toServer)
<1>1. /\ toServer # <<>> /\ toServer' = Tail(toServer)
      /\ UNCHANGED <<data, online, losses>>
  BY DEF ServerAnswers, roster, session
<1>2. toClient = <<>> /\ Len(toServer) = 1 /\ InFlight = 1
  BY <1>1, OneChannel DEF IInv, OneEdit
<1>3. toServer \in Seq(Edit)
  BY DEF IInv, TypeOK
<1>4. e \in Edit /\ toServer' \in Seq(Edit) /\ Len(toServer') = 0
  BY <1>1, <1>2, <1>3, HeadTailProperties
<1>5. toServer' = <<>>
  BY <1>4, EmptySeq
<1>6. PICK code \in RosterModifyAck :
        /\ toClient' = Append(toClient, [code |-> code, edit |-> e])
        /\ code # "ok" => server' = server
        /\ code = "ok" => server' = CL!Apply(e.op, e.item.rec, server)
  BY DEF ServerAnswers, RosterModifyAck, Answer, CL!Apply
<1>7. Request = [state |-> "asked", op |-> e.op, entry |-> e.item.rec]
  BY <1>1 DEF Request, Asked
<1> HIDE DEF e
<1>8. toClient' = <<[code |-> code, edit |-> e]>>
  BY <1>2, <1>6
<1>9. toClient' # <<>> /\ Head(toClient') = [code |-> code, edit |-> e]
  BY <1>8
<1>10. Request' = [state |-> StateOfCode(code), op |-> e.op,
                   entry |-> e.item.rec]
  BY <1>5, <1>9 DEF Request, Asked, StateOfCode
<1>11. Local' = Local /\ Logins' = Logins
  BY <1>1 DEF Local, Logins
<1>12. CASE code = "ok"
  BY <1>6, <1>7, <1>10, <1>11, <1>12 DEF CL!Next, CL!Grant, StateOfCode
<1>13. CASE code = "reqauth"
  BY <1>6, <1>7, <1>10, <1>11, <1>13 DEF CL!lvars, StateOfCode
<1>14. CASE code = "refused"
  BY <1>6, <1>7, <1>10, <1>11, <1>14 DEF CL!Next, CL!Refuse, StateOfCode
<1> QED
  BY <1>12, <1>13, <1>14 DEF RosterModifyAck

LEMMA ArrivalIsLogin ==
  ASSUME IInv, RosterArrived
  PROVE  CL!Login
<1>1. /\ online' = TRUE /\ ~online /\ losses' = losses
      /\ UNCHANGED <<toServer, toClient, server>>
  BY DEF RosterArrived, net
<1>2. toServer = <<>> /\ toClient = <<>>
  BY <1>1, OneChannel DEF IInv, OneEdit
<1>3. Request = CL!Idle /\ Request' = CL!Idle
  BY <1>1, <1>2 DEF Request, CL!Idle
<1>4. Logins' = Logins + 1
  BY <1>1 DEF Logins, IInv, TypeOK
<1> QED
  BY <1>1, <1>3, <1>4, ListingAppended DEF CL!Login

LEMMA LossIsDrop ==
  ASSUME IInv, ConnectionLost
  PROVE  CL!Drop
<1>1. /\ toServer' = <<>> /\ toClient' = <<>> /\ online /\ ~online'
      /\ losses' = losses + 1 /\ UNCHANGED <<data, server>>
  BY DEF ConnectionLost, roster
<1>2. Request' = CL!Idle
  BY <1>1 DEF Request, CL!Idle
<1>3. Logins' = Logins /\ Local' = Local
  BY <1>1 DEF Logins, Local, IInv, TypeOK
<1> QED
  BY <1>1, <1>2, <1>3 DEF CL!Drop

LEMMA StepRefines ==
  ASSUME MaxPending = 1, IInv, [Next]_vars
  PROVE  [CL!Next]_CL!lvars
<1> USE NameAssumption
<1>1. ASSUME MayCall PROVE InFlight = 0 /\ online
  BY <1>1, OneChannel DEF MayCall, IInv
<1>2. ASSUME NEW uin \in Uin, AddContact(uin) PROVE CL!Ask
  <2>1. /\ MayCall /\ AddContactToRoot(uin, FALSE)
        /\ UNCHANGED <<data, toClient, server, online, losses>>
        /\ uin \in Name /\ FALSE \in BOOLEAN /\ "buddy" \in Kinds
    BY <1>2 DEF AddContact, roster, session, Kinds
  <2>2. ~NoItemByUin(RootName, "group")
    BY <1>1, <2>1 DEF IInv, RootIsThere, IsRoot, NoItemByUin
  <2>3. PICK i \in DOMAIN data :
          SendNewItem(uin, "buddy", data[i].rec.gid, FALSE)
    BY <2>1, <2>2 DEF AddContactToRoot
  <2>4. data[i].rec.gid \in Nat
    BY DataType DEF IInv
  <2> QED
    BY <1>1, <2>1, <2>3, <2>4, NewItemIsAsk
<1>3. ASSUME NEW i \in DOMAIN data, MayCall, SendEdit("del", data[i]),
             UNCHANGED <<data, toClient, server, online, losses>>
      PROVE  CL!Ask
  <2>1. data[i] \in SBLItem /\ "del" \in {"add", "del"}
    BY DataType DEF IInv
  <2> QED
    BY <1>1, <1>3, <2>1, SendIsAsk
<1>4. ASSUME NEW uin \in Uin, DelContact(uin) PROVE CL!Ask
  BY <1>3, <1>4 DEF DelContact, roster, session
<1>5. ASSUME NEW uin \in Uin, NEW type \in {"permit", "deny"},
             NEW in \in BOOLEAN, SetStatus(uin, type, in)
      PROVE  CL!Ask
  <2>1. /\ MayCall /\ UNCHANGED <<data, toClient, server, online, losses>>
        /\ uin \in Name /\ type \in Kinds /\ 0 \in Nat /\ FALSE \in BOOLEAN
    BY <1>5 DEF SetStatus, roster, session, Kinds
  <2>2. CASE SendNewItem(uin, type, 0, FALSE)
    BY <1>1, <2>1, <2>2, NewItemIsAsk
  <2>3. CASE \E i \in DOMAIN data : SendEdit("del", data[i])
    BY <1>3, <2>1, <2>3
  <2> QED
    BY <1>5, <2>2, <2>3 DEF SetStatus
<1>6. CASE HandleUpdateAck
  BY <1>6, AckIsLearn, RetryIsStutter DEF CL!Next
<1>7. CASE UNCHANGED vars
  BY <1>7 DEF vars, CL!lvars, Local, Request, Logins
<1> QED
  BY <1>2, <1>4, <1>5, <1>6, <1>7, AnswerIsDecision, ArrivalIsLogin, LossIsDrop
  DEF CL!Next, Next, Application, SetVisibleStatus, SetInvisibleStatus

\* The roster code, the server and the network together behave as ContactList
\* promises: the application's list is changed by granted edits and by logins
\* only.
THEOREM Refinement ==
  ASSUME MaxPending = 1
  PROVE  Spec => FollowsServer
<1>1. Init => CL!Init
  BY DEF Init, CL!Init, CL!Idle, Local, Request, Logins
<1>2. IInv /\ [Next]_vars => [CL!Next]_CL!lvars
  BY StepRefines
<1> QED
  BY <1>1, <1>2, Inductive, PTL DEF Spec, FollowsServer, CL!Spec
=============================================================================
