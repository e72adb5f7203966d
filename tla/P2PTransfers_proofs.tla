------------------------ MODULE P2PTransfers_proofs ------------------------
(***************************************************************************)
(* Theorems about P2PTransfers, for any number of transfers of any kind,   *)
(* cut into any number of messages, and any application.                   *)
(*                                                                         *)
(* They hold as long as the identifiers fit an int (IdsFit): where they do *)
(* not, byte2int reads all of them as 0 and transfers are mixed up.        *)
(*                                                                         *)
(* A message is taken to belong to the transfer with the nearest smaller   *)
(* entry.  That this is its own transfer follows from where the entries    *)
(* can be: under an identifier its peer used for it (Numbers), before      *)
(* those of the messages that are still on their way (Script), of which a  *)
(* transfer never needs more than lie between its base and the next        *)
(* (Room).  So the step a Transfer is in tells which messages can arrive   *)
(* (Pace, Script), the data that is in a destination and that on its way   *)
(* are together what the peer sent (Data), and the application is told so  *)
(* only then (Finished).                                                   *)
(*                                                                         *)
(* P2PTransfers implements FileOffers: what the application is told of     *)
(* each transfer is one offer and then one end, finished only if it        *)
(* accepted it.  m_ftId is not initialized, and the end of a picture is    *)
(* told as the end of the file whose identifier its memory holds: that     *)
(* offer is "shared" from then on, and StaleIds may be any integers.  The  *)
(* end of another offer that waits among the signals, or that was told, is *)
(* that of its Transfer: hasTransfered is set once and before the BYE, and *)
(* a BYE is the last message its Transfer gets (HasEnded), so no Transfer  *)
(* has two ends; and its offer was signalled before (Ends).                *)
(***************************************************************************)
EXTENDS P2PTransfers, QueueLemmas, WellFoundedInduction

\* Every identifier the peer uses fits an int.
IdsFit == \A t \in Transfers : Base[t] + IdsPerTransfer < SignBit
-----------------------------------------------------------------------------
(* The inductive invariant *)

Record == [of: Transfers, step: Steps, ftId: FtIds \union StaleIds,
           p2pType: {"NULL", "FILE", "EMOTICON", "WEBCAM"},
           hasDestination: BOOLEAN, hasTransfered: BOOLEAN]
AnswerKinds == {"200OK", "200OK NEGOTIATION", "PREPARATION"}
AnswerRecord == [t: Transfers, kind: AnswerKinds]
Chunk == [t: Transfers, step: {"TRANSFER"}, nr: Nat]
SignalRecord == [kind: {"incoming", "finished", "cancelled"}, ftId: FtIds \union StaleIds, transfer: Nat]

Types ==
  /\ TypeOK
  /\ files \in [FtIds -> Seq(Chunk)]
  /\ signals \in Seq(SignalRecord)

\* What is known of a transfer: its Transfer and the step that is in, whether the
\* application has accepted it, and whether a picture was prepared.
Known(t) == \E tr \in DOMAIN transfers : transfers[tr].of = t
In(t, steps) == \E tr \in DOMAIN transfers : transfers[tr].of = t /\ transfers[tr].step \in steps
Accepted(t) == \E tr \in DOMAIN transfers : transfers[tr].of = t /\ transfers[tr].hasDestination
Prepared(t) == \E tr \in DOMAIN transfers : transfers[tr].of = t /\ transfers[tr].p2pType = "NULL"

\* A transfer has one Transfer, which is listed until its BYE arrives.
Objects ==
  /\ \A tr, ur \in DOMAIN transfers : transfers[tr].of = transfers[ur].of => tr = ur
  /\ \A k, l \in DOMAIN FTList : FTList[k] = FTList[l] => k = l
  /\ \A tr \in DOMAIN transfers :
       /\ transfers[tr].step \in {"INVITATION", "NEGOTIATION", "TRANSFER", "BYE"}
       /\ \/ transfers[tr].p2pType = Kind[transfers[tr].of]
          \/ Kind[transfers[tr].of] = "EMOTICON" /\ transfers[tr].p2pType = "NULL"
       /\ transfers[tr].step = "BYE" <=> \A k \in DOMAIN FTList : FTList[k] # tr

\* How far the peer can be with a transfer, for how far the client is with it.
Paced(t) ==
  /\ phase[t] = "new" => ~Known(t)
  /\ phase[t] \in {"new", "invited", "accepted", "asked"} => sent[t] = 0
  /\ phase[t] \in {"invited", "accepted"} => ~In(t, {"TRANSFER"})
  /\ phase[t] # "closed" => ~In(t, {"BYE"})
  /\ phase[t] \in {"asked", "ready"} \/ sent[t] > 0 \/ In(t, {"TRANSFER"}) => Kind[t] = "FILE"
  /\ phase[t] = "ready" => In(t, {"TRANSFER"})
  /\ Kind[t] = "FILE" /\ phase[t] \in {"accepted", "asked", "ready"} => Accepted(t)
  /\ sent[t] > 0 => Accepted(t)
Pace == \A t \in Transfers : Paced(t)

\* Which messages of a transfer can be on their way, for how far the client is with it.
IsPart(m) == ~m.isEmpty /\ m.step \in {"INVITATION", "NULL"}
IsFirst(m, t) == ~m.isEmpty /\ m.step = "INVITATION" /\ m.t = t
IsData(m, t) == ~m.isEmpty /\ m.step = "TRANSFER" /\ m.t = t

PartFits(m) ==
  /\ m.nr \in 1 .. Parts[m.t] /\ (m.isFinished <=> m.nr = Parts[m.t])
  /\ m.step = "INVITATION" <=> m.nr = 1
  /\ m.id = Base[m.t] + 1
  /\ ~In(m.t, {"NEGOTIATION", "TRANSFER", "BYE"})
  /\ m.step = "INVITATION" => ~Known(m.t)
RequestFits(m) ==
  /\ m.isFinished /\ In(m.t, {"NEGOTIATION"}) /\ Accepted(m.t) /\ Kind[m.t] = "FILE"
  /\ phase[m.t] \in {"asked", "closed"}
DataFits(m) ==
  /\ In(m.t, {"TRANSFER"}) /\ m.nr \in 1 .. sent[m.t] /\ (m.isFinished <=> m.nr = Chunks)
  /\ phase[m.t] \in {"ready", "closed"}
ByeFits(m) == m.isFinished /\ phase[m.t] = "closed" /\ ~In(m.t, {"BYE"})

Fits(m) ==
  /\ phase[m.t] # "new"
  /\ Base[m.t] < m.id /\ m.id <= lastId[m.t]
  /\ IsPart(m) => PartFits(m)
  /\ ~m.isEmpty /\ m.step = "NEGOTIATION" => RequestFits(m)
  /\ ~m.isEmpty /\ m.step = "TRANSFER" => DataFits(m)
  /\ ~m.isEmpty /\ m.step = "BYE" => ByeFits(m)

\* Message a of a transfer before message b of it.
InOrder(a, b) ==
  a.t = b.t /\ ~a.isEmpty /\ ~b.isEmpty =>
    /\ a.id <= b.id /\ (b.step = "BYE" => a.id < b.id)
    /\ a.step # "BYE" /\ b.step # "NEGOTIATION"
    /\ IsPart(a) /\ IsPart(b) => a.nr < b.nr
    /\ a.step = "TRANSFER" /\ b.step = "TRANSFER" => a.nr < b.nr

Coming(t) ==
  /\ phase[t] # "new" /\ ~Known(t) => \E n \in DOMAIN wire : IsFirst(wire[n], t)
  /\ phase[t] # "new" /\ (~Known(t) \/ In(t, {"INVITATION"})) =>
       \E n \in DOMAIN wire : IsPart(wire[n]) /\ wire[n].t = t /\ wire[n].isFinished
  /\ In(t, {"BYE"}) => \A n \in DOMAIN wire : wire[n].t = t => wire[n].isEmpty

Script ==
  /\ \A n \in DOMAIN wire : Fits(wire[n])
  /\ \A i, j \in DOMAIN wire : i < j => InOrder(wire[i], wire[j])
  /\ \A n \in DOMAIN wire :
       ~wire[n].isEmpty /\ wire[n].step # "INVITATION" /\ ~Known(wire[n].t) =>
         \E i \in DOMAIN wire : i < n /\ IsFirst(wire[i], wire[n].t)
  /\ \A t \in Transfers : Coming(t)

\* A transfer's messages count up from its entry.
Follows(m, k) == ~m.isEmpty => k <= m.id /\ (m.step = "BYE" => k < m.id)
Numbers ==
  /\ \A k \in DOMAIN FTList :
       LET o == transfers[FTList[k]] IN
       /\ Base[o.of] < k /\ k <= lastId[o.of]
       /\ o.step = "INVITATION" => k = Base[o.of] + 1
       /\ \A n \in DOMAIN wire : wire[n].t = o.of => Follows(wire[n], k)
  /\ \A t \in Transfers : phase[t] = "new" => lastId[t] = Base[t]

\* The identifiers that a transfer still needs are left.
One(b) == IF b THEN 1 ELSE 0
Waiting(t, kind) == Cardinality(Places(answers, [t |-> t, kind |-> kind]))
OwnSteps(t) ==
  One(phase[t] = "new") + One(phase[t] # "closed")
  + (IF Kind[t] = "FILE"
     THEN One(phase[t] \in {"new", "invited", "accepted"}) + One(sent[t] = 0 /\ phase[t] # "closed")
     ELSE 0)
AnswersToCome(t) ==
  CASE Kind[t] = "FILE" -> One(~Accepted(t)) + One(~In(t, {"TRANSFER", "BYE"}))
    [] Kind[t] = "EMOTICON" -> One(~In(t, {"NEGOTIATION", "TRANSFER", "BYE"})) + One(~Prepared(t))
    [] OTHER -> 0
Needed(t) ==
  Waiting(t, "200OK") + Waiting(t, "200OK NEGOTIATION") + Waiting(t, "PREPARATION")
    + OwnSteps(t) + AnswersToCome(t)
Room == \A t \in Transfers : Base[t] <= lastId[t] /\ lastId[t] + Needed(t) <= Base[t] + IdsPerTransfer

\* What the peer is told came about.
ToldOf(a) ==
  /\ Known(a.t)
  /\ a.kind = "200OK" /\ Kind[a.t] = "FILE" => Accepted(a.t)
  /\ a.kind = "200OK NEGOTIATION" =>
       Kind[a.t] = "FILE" /\ Accepted(a.t) /\ In(a.t, {"TRANSFER", "BYE"})
Told == \A n \in DOMAIN answers : ToldOf(answers[n])

\* Files are offered under identifiers of their own.
IsOffered(tr) == Kind[transfers[tr].of] = "FILE" /\ transfers[tr].step # "INVITATION"
OfferedFiles == {t \in Transfers : Kind[t] = "FILE" /\ In(t, {"NEGOTIATION", "TRANSFER", "BYE"})}
OwnIds ==
  /\ ftid = Cardinality(OfferedFiles) + 1
  /\ \A tr \in DOMAIN transfers : IsOffered(tr) =>
       transfers[tr].ftId < ftid /\ transfers[tr].ftId \in FtIds
  /\ \A tr, ur \in DOMAIN transfers :
       IsOffered(tr) /\ IsOffered(ur) /\ transfers[tr].ftId = transfers[ur].ftId => tr = ur
  /\ \A i \in FtIds : i >= ftid => app[i] = "none" /\ files[i] = <<>>

\* The application knows an offer by its identifier.
Offer(i, tr) == tr \in DOMAIN transfers /\ IsOffered(tr) /\ transfers[tr].ftId = i
IsIncoming(s, i) == s.kind = "incoming" /\ s.ftId = i
Heard ==
  /\ \A i \in FtIds : app[i] # "none" =>
       Offer(i, offered[i]) /\ \A p \in DOMAIN signals : ~IsIncoming(signals[p], i)
  /\ \A p \in DOMAIN signals : signals[p].kind = "incoming" =>
       Offer(signals[p].ftId, signals[p].transfer)
  /\ \A p, q \in DOMAIN signals : \A i \in FtIds :
       IsIncoming(signals[p], i) /\ IsIncoming(signals[q], i) => p = q
  /\ \A tr \in DOMAIN transfers : transfers[tr].hasDestination =>
       IsOffered(tr) /\ app[transfers[tr].ftId] = "accepted"

\* The data that arrived is in the destination, the rest on its way.
DataOf(tr) ==
  LET t == transfers[tr].of
      done == Len(files[transfers[tr].ftId])
  IN /\ done <= sent[t]
     /\ \A n \in DOMAIN wire : IsData(wire[n], t) => wire[n].nr > done
     /\ \A v \in done + 1 .. sent[t] : \E n \in DOMAIN wire : IsData(wire[n], t) /\ wire[n].nr = v
Data ==
  /\ \A i \in FtIds : \A n \in DOMAIN files[i] :
       files[i][n] = [t |-> transfers[offered[i]].of, step |-> "TRANSFER", nr |-> n]
  /\ \A i \in FtIds : app[i] # "accepted" => files[i] = <<>>
  /\ \A tr \in DOMAIN transfers : transfers[tr].hasDestination => DataOf(tr)
  /\ \A tr \in DOMAIN transfers : transfers[tr].hasTransfered =>
       transfers[tr].hasDestination /\ Len(files[transfers[tr].ftId]) = Chunks

\* The application is told that a file is finished when it is.
IsFinished(i) == \E tr \in DOMAIN transfers : transfers[tr].hasTransfered /\ transfers[tr].ftId = i
Finished ==
  /\ \A p \in DOMAIN signals : signals[p].kind = "finished" => IsFinished(signals[p].ftId)
  /\ \A i \in FtIds : \A n \in DOMAIN outcomes[i] : outcomes[i][n] = "finished" => IsFinished(i)

IInv ==
  /\ Types /\ Objects /\ Pace /\ Script /\ Numbers /\ Room /\ Told
  /\ OwnIds /\ Heard /\ Data /\ Finished

-----------------------------------------------------------------------------
(* Numbers *)

\* A set of identifiers that does not go beyond B has a greatest one.
LEMMA GreatestExists ==
  ASSUME NEW S, S \subseteq Nat, S # {}, NEW B \in Nat, \A k \in S : k <= B
  PROVE  Max(S) \in S /\ \A k \in S : k <= Max(S)
<1> DEFINE T == {B - k : k \in S}
           R == OpToRel(<, Nat)
<1>1. T \subseteq Nat /\ T # {}
  <2>1. ASSUME NEW k \in S PROVE B - k \in Nat
    <3>1. k \in Nat /\ k <= B
      OBVIOUS
    <3> QED
      BY <3>1
  <2> QED
    BY <2>1
<1>2. IsWellFoundedOn(R, Nat)
  BY NatLessThanWellFounded
<1>3. \E x \in T : \A y \in T : ~(<<y, x>> \in R)
  <2> HIDE DEF T, R
  <2> QED
    BY <1>1, <1>2, WFMin
<1>4. PICK m \in S : \A y \in T : ~(<<y, B - m>> \in R)
  BY <1>3
<1>5. ASSUME NEW k \in S PROVE k <= m
  <2>1. ~(<<B - k, B - m>> \in R)
    BY <1>4
  <2>2. ~(B - k < B - m)
    BY <2>1, <1>1 DEF OpToRel
  <2>3. k \in Nat /\ m \in Nat
    OBVIOUS
  <2> QED
    BY <2>2, <2>3
<1>6. \E x \in S : \A y \in S : x >= y
  BY <1>5
<1>7. Max(S) \in S /\ \A y \in S : Max(S) >= y
  BY <1>6 DEF Max
<1> QED
  BY <1>7

\* The search finds an entry if there is one, and the greatest smaller one if there is one.
LEMMA NearestFound ==
  ASSUME NEW keys, keys \subseteq Nat, keys # {}, NEW B \in Nat, \A k \in keys : k <= B,
         NEW id \in Nat
  PROVE  /\ Nearest(keys, id) \in keys
         /\ (\E k \in keys : k < id) =>
              Nearest(keys, id) < id /\ \A k \in keys : k < id => k <= Nearest(keys, id)
<1> DEFINE smaller == {k \in keys : k < id}
<1>1. CASE smaller # {}
  <2>1. smaller \subseteq Nat /\ \A k \in smaller : k <= B
    OBVIOUS
  <2>2. Max(smaller) \in smaller /\ \A k \in smaller : k <= Max(smaller)
    <3> HIDE DEF smaller
    <3> QED
      BY <1>1, <2>1, GreatestExists
  <2>3. Nearest(keys, id) = Max(smaller)
    BY <1>1 DEF Nearest
  <2> QED
    BY <2>2, <2>3
<1>2. CASE smaller = {}
  <2>1. Nearest(keys, id) = Max(keys)
    BY <1>2 DEF Nearest
  <2>2. Max(keys) \in keys
    BY GreatestExists
  <2> QED
    BY <1>2, <2>1, <2>2
<1> QED
  BY <1>1, <1>2

\* The constants, as the other proofs use them.
LEMMA Constants ==
  /\ IsFiniteSet(Transfers)
  /\ \A t \in Transfers : /\ Kind[t] \in {"FILE", "EMOTICON", "WEBCAM"}
                          /\ Base[t] \in Nat /\ Parts[t] \in Nat /\ Parts[t] >= 1
  /\ Chunks \in Nat /\ Chunks >= 1 /\ SignBit \in Nat
  /\ Cardinality({t \in Transfers : Kind[t] = "FILE"}) \in Nat
  /\ \A i \in FtIds : i \in Nat /\ i >= 1
<1>1. IsFiniteSet(Transfers)
  BY TransfersAssumption
<1>2. \A t \in Transfers : /\ Kind[t] \in {"FILE", "EMOTICON", "WEBCAM"}
                           /\ Base[t] \in Nat /\ Parts[t] \in Nat /\ Parts[t] >= 1
  <2> TAKE t \in Transfers
  <2>1. Kind[t] \in {"FILE", "EMOTICON", "WEBCAM"} /\ Base[t] \in Nat /\ Parts[t] \in Nat \ {0}
    BY TransfersAssumption
  <2>2. \A n \in Nat \ {0} : n \in Nat /\ n >= 1
    OBVIOUS
  <2> QED
    BY <2>1, <2>2
<1>3. Chunks \in Nat /\ Chunks >= 1 /\ SignBit \in Nat
  BY SizesAssumption
<1>4. IsFiniteSet({t \in Transfers : Kind[t] = "FILE"})
  BY <1>1, FS_Subset
<1>5. Cardinality({t \in Transfers : Kind[t] = "FILE"}) \in Nat
  BY <1>4, FS_CardinalityType
<1>6. \A i \in FtIds : i \in Nat /\ i >= 1
  BY <1>5 DEF FtIds
<1> QED
  BY <1>1, <1>2, <1>3, <1>5, <1>6

\* Identifiers of different transfers do not lie among each other.
Interval(t) == {k \in Nat : Base[t] < k /\ k <= Base[t] + IdsPerTransfer}

\* Identifiers of different transfers do not lie among each other.
LEMMA Apart ==
  ASSUME NEW t \in Transfers, NEW u \in Transfers, t # u,
         NEW k \in Interval(t), NEW l \in Interval(u)
  PROVE  k # l /\ \A n \in Interval(t) : (k < l <=> n < l) /\ (l < k <=> l < n)
<1>1. Base[t] \in Nat /\ Base[u] \in Nat
  BY Constants
<1>2. Base[t] + 6 < Base[u] \/ Base[u] + 6 < Base[t]
  BY SpacingAssumption DEF IdsPerTransfer
<1>3. k \in Nat /\ Base[t] < k /\ k <= Base[t] + 6 /\ l \in Nat /\ Base[u] < l /\ l <= Base[u] + 6
  BY DEF Interval, IdsPerTransfer
<1>4. k # l
  BY <1>1, <1>2, <1>3
<1>5. ASSUME NEW n \in Interval(t) PROVE (k < l <=> n < l) /\ (l < k <=> l < n)
  <2>1. n \in Nat /\ Base[t] < n /\ n <= Base[t] + 6
    BY DEF Interval, IdsPerTransfer
  <2>2. CASE Base[t] + 6 < Base[u]
    BY <1>1, <1>3, <2>1, <2>2
  <2>3. CASE Base[u] + 6 < Base[t]
    BY <1>1, <1>3, <2>1, <2>3
  <2> QED
    BY <1>2, <2>2, <2>3
<1> QED
  BY <1>4, <1>5

\* An identifier that fits an int is read as it is.
LEMMA IdsAreRead ==
  ASSUME IdsFit, NEW t \in Transfers, NEW k \in Interval(t)
  PROVE  byte2int(k) = k /\ k \in Nat /\ k <= SignBit
<1>1. Base[t] \in Nat /\ SignBit \in Nat /\ Base[t] + 6 < SignBit
  BY Constants DEF IdsFit, IdsPerTransfer
<1>2. k \in Nat /\ k <= Base[t] + 6
  BY DEF Interval, IdsPerTransfer
<1>3. k < SignBit /\ k <= SignBit
  BY <1>1, <1>2
<1> QED
  BY <1>2, <1>3 DEF byte2int

-----------------------------------------------------------------------------
(* What the state holds *)

\* The queues of the state are sequences, with domains that start at 1.
LEMMA Sizes ==
  ASSUME Types
  PROVE  /\ Len(wire) \in Nat /\ DOMAIN wire = 1 .. Len(wire)
         /\ Len(transfers) \in Nat /\ DOMAIN transfers = 1 .. Len(transfers)
         /\ Len(answers) \in Nat /\ DOMAIN answers = 1 .. Len(answers)
         /\ Len(signals) \in Nat /\ DOMAIN signals = 1 .. Len(signals)
         /\ wire \in Seq(Messages) /\ transfers \in Seq(Record)
         /\ answers \in Seq(AnswerRecord) /\ signals \in Seq(SignalRecord)
<1>1. /\ wire \in Seq(Messages) /\ transfers \in Seq(Record)
      /\ answers \in Seq(AnswerRecord) /\ signals \in Seq(SignalRecord)
  BY DEF Types, TypeOK, Record, AnswerRecord, AnswerKinds
<1> QED
  BY <1>1, LenProperties

\* What the fields of a message on its way can be.
LEMMA MessageTypes ==
  ASSUME Types, NEW n \in DOMAIN wire
  PROVE  /\ wire[n] \in Messages
         /\ wire[n].t \in Transfers /\ wire[n].id \in Nat /\ wire[n].step \in Steps
         /\ wire[n].nr \in Nat /\ wire[n].isFinished \in BOOLEAN /\ wire[n].isEmpty \in BOOLEAN
<1>1. wire[n] \in Messages
  BY Sizes, ElementOfSeq
<1> QED
  BY <1>1 DEF Messages

\* What the members of a Transfer object can be.
LEMMA RecordTypes ==
  ASSUME Types, NEW tr \in DOMAIN transfers
  PROVE  /\ transfers[tr] \in Record
         /\ transfers[tr].of \in Transfers /\ transfers[tr].step \in Steps
         /\ transfers[tr].ftId \in FtIds \union StaleIds
         /\ transfers[tr].p2pType \in {"NULL", "FILE", "EMOTICON", "WEBCAM"}
         /\ transfers[tr].hasDestination \in BOOLEAN /\ transfers[tr].hasTransfered \in BOOLEAN
<1>1. transfers[tr] \in Record
  BY Sizes, ElementOfSeq
<1> QED
  BY <1>1 DEF Record

\* What a message to the peer can be.
LEMMA AnswerTypes ==
  ASSUME Types, NEW n \in DOMAIN answers
  PROVE  /\ answers[n] \in AnswerRecord /\ answers[n].t \in Transfers
         /\ answers[n].kind \in {"200OK", "200OK NEGOTIATION", "PREPARATION"}
<1>1. answers[n] \in AnswerRecord
  BY Sizes, ElementOfSeq
<1> QED
  BY <1>1 DEF AnswerRecord, AnswerKinds

\* What a waiting signal can be.
LEMMA SignalTypes ==
  ASSUME Types, NEW p \in DOMAIN signals
  PROVE  /\ signals[p] \in SignalRecord /\ signals[p].ftId \in FtIds \union StaleIds
         /\ signals[p].kind \in {"incoming", "finished", "cancelled"} /\ signals[p].transfer \in Nat
<1>1. signals[p] \in SignalRecord
  BY Sizes, ElementOfSeq
<1> QED
  BY <1>1 DEF SignalRecord

\* An entry of m_FTList is one of the Transfer objects, under an identifier.
LEMMA EntryTypes ==
  ASSUME Types, NEW k \in DOMAIN FTList
  PROVE  FTList[k] \in DOMAIN transfers /\ k \in Nat
<1>1. FTList \in [DOMAIN FTList -> 1 .. Len(transfers)] /\ DOMAIN FTList \subseteq Nat
  BY DEF Types, TypeOK
<1> QED
  BY <1>1, Sizes

\* What the peer counts, and what the application has.
LEMMA OtherTypes ==
  ASSUME Types
  PROVE  /\ \A t \in Transfers :
              /\ phase[t] \in {"new", "invited", "accepted", "asked", "ready", "closed"}
              /\ lastId[t] \in Nat /\ sent[t] \in Nat /\ sent[t] <= Chunks
         /\ DOMAIN phase = Transfers /\ DOMAIN lastId = Transfers /\ DOMAIN sent = Transfers
         /\ ftid \in Nat
         /\ \A i \in FtIds :
              /\ app[i] \in {"none", "offered", "accepted"} /\ offered[i] \in Nat
              /\ files[i] \in Seq(Chunk) /\ Len(files[i]) \in Nat
              /\ DOMAIN files[i] = 1 .. Len(files[i])
              /\ outcomes[i] \in Seq({"finished", "cancelled"})
<1>1. /\ phase \in [Transfers -> {"new", "invited", "accepted", "asked", "ready", "closed"}]
      /\ lastId \in [Transfers -> Nat] /\ sent \in [Transfers -> 0 .. Chunks] /\ ftid \in Nat
      /\ app \in [FtIds -> {"none", "offered", "accepted"}]
      /\ offered \in [FtIds -> 0 .. Len(transfers)]
      /\ outcomes \in [FtIds \union StaleIds -> Seq({"finished", "cancelled"})]
      /\ files \in [FtIds -> Seq(Chunk)]
  BY DEF Types, TypeOK
<1>2. \A t \in Transfers :
        /\ phase[t] \in {"new", "invited", "accepted", "asked", "ready", "closed"}
        /\ lastId[t] \in Nat /\ sent[t] \in Nat /\ sent[t] <= Chunks
  BY <1>1, Constants
<1>3. \A i \in FtIds :
        /\ app[i] \in {"none", "offered", "accepted"} /\ offered[i] \in Nat
        /\ files[i] \in Seq(Chunk) /\ outcomes[i] \in Seq({"finished", "cancelled"})
  BY <1>1, Sizes
<1>4. \A i \in FtIds : Len(files[i]) \in Nat /\ DOMAIN files[i] = 1 .. Len(files[i])
  BY <1>3, LenProperties
<1> QED
  BY <1>1, <1>2, <1>3, <1>4

\* A transfer's Transfer shows what is known of the transfer.
LEMMA OneObject ==
  ASSUME Objects, NEW tr \in DOMAIN transfers, NEW t, t = transfers[tr].of
  PROVE  /\ Known(t)
         /\ \A steps : In(t, steps) <=> transfers[tr].step \in steps
         /\ Accepted(t) <=> transfers[tr].hasDestination
         /\ Prepared(t) <=> transfers[tr].p2pType = "NULL"
         /\ \A ur \in DOMAIN transfers : transfers[ur].of = t => ur = tr
<1>1. \A ur \in DOMAIN transfers : transfers[ur].of = t => ur = tr
  BY DEF Objects
<1> QED
  BY <1>1 DEF Known, In, Accepted, Prepared

\* Nothing else is known when there is none.
LEMMA NoObject ==
  ASSUME NEW t, ~Known(t)
  PROVE  (\A steps : ~In(t, steps)) /\ ~Accepted(t) /\ ~Prepared(t)
  BY DEF Known, In, Accepted, Prepared

\* The Transfer of transfer t is listed under k until its BYE arrives.
LEMMA Listing ==
  ASSUME Objects, NEW tr \in DOMAIN transfers, transfers[tr].step # "BYE"
  PROVE  \E k \in DOMAIN FTList : FTList[k] = tr
  BY DEF Objects

-----------------------------------------------------------------------------
(* What is known of a transfer, when it stays so *)

Same(t) ==
  /\ Known(t)' = Known(t) /\ Accepted(t)' = Accepted(t) /\ Prepared(t)' = Prepared(t)
  /\ \A steps : In(t, steps)' = In(t, steps)

\* Nothing that is known of a transfer changes while the objects do not.
LEMMA Unchanged ==
  ASSUME transfers' = transfers, NEW t
  PROVE  Same(t)
  BY DEF Same, Known, In, Accepted, Prepared

-----------------------------------------------------------------------------
(* What stays true of the messages on their way *)

\* The client is as far with transfer t as before.
Kept(t) ==
  /\ Known(t)' = Known(t) /\ (Accepted(t) => Accepted(t)')
  /\ \A steps : In(t, steps)' = In(t, steps)

\* What stays the same is not lost.
LEMMA SameIsKept ==
  ASSUME NEW t, Same(t)
  PROVE  Kept(t)
  BY DEF Same, Kept

\* A message still fits while nothing that is known of its transfer is lost.
LEMMA FitsKept ==
  ASSUME NEW m, Fits(m), Kept(m.t),
         phase'[m.t] = phase[m.t], lastId'[m.t] = lastId[m.t], sent'[m.t] = sent[m.t]
  PROVE  Fits(m)'
<1>1. PartFits(m) => PartFits(m)'
  BY DEF PartFits, Kept
<1>2. RequestFits(m) => RequestFits(m)'
  BY DEF RequestFits, Kept
<1>3. DataFits(m) => DataFits(m)'
  BY DEF DataFits, Kept
<1>4. ByeFits(m) => ByeFits(m)'
  BY DEF ByeFits, Kept
<1> QED
  BY <1>1, <1>2, <1>3, <1>4 DEF Fits, IsPart

\* What a transfer needs is a number.
LEMMA NeededParts ==
  ASSUME NEW t
  PROVE  /\ answers \in Seq(AnswerRecord) => \A kind : Waiting(t, kind) \in Nat
         /\ answers' \in Seq(AnswerRecord) => \A kind : Waiting(t, kind)' \in Nat
         /\ OwnSteps(t) \in Nat /\ OwnSteps(t)' \in Nat
         /\ AnswersToCome(t) \in Nat /\ AnswersToCome(t)' \in Nat
<1>1. \A b : One(b) \in Nat
  BY DEF One
<1>2. /\ answers \in Seq(AnswerRecord) => \A kind : Waiting(t, kind) \in Nat
      /\ answers' \in Seq(AnswerRecord) => \A kind : Waiting(t, kind)' \in Nat
  BY PlacesFinite DEF Waiting
<1>3. OwnSteps(t) \in Nat
  <2>1. PICK a, b, c, d \in Nat : /\ a = One(phase[t] = "new") /\ b = One(phase[t] # "closed")
                                  /\ c = One(phase[t] \in {"new", "invited", "accepted"})
                                  /\ d = One(sent[t] = 0 /\ phase[t] # "closed")
    BY <1>1
  <2> QED
    BY <2>1 DEF OwnSteps
<1>4. OwnSteps(t)' \in Nat
  <2>1. PICK a, b, c, d \in Nat : /\ a = One(phase'[t] = "new") /\ b = One(phase'[t] # "closed")
                                  /\ c = One(phase'[t] \in {"new", "invited", "accepted"})
                                  /\ d = One(sent'[t] = 0 /\ phase'[t] # "closed")
    BY <1>1
  <2> QED
    BY <2>1 DEF OwnSteps
<1>5. AnswersToCome(t) \in Nat
  <2>1. PICK a, b, c, d \in Nat : /\ a = One(~Accepted(t)) /\ b = One(~In(t, {"TRANSFER", "BYE"}))
                                  /\ c = One(~In(t, {"NEGOTIATION", "TRANSFER", "BYE"}))
                                  /\ d = One(~Prepared(t))
    BY <1>1
  <2> QED
    BY <2>1 DEF AnswersToCome
<1>6. AnswersToCome(t)' \in Nat
  <2>1. PICK a, b, c, d \in Nat : /\ a = One(~Accepted(t)') /\ b = One(~In(t, {"TRANSFER", "BYE"})')
                                  /\ c = One(~In(t, {"NEGOTIATION", "TRANSFER", "BYE"})')
                                  /\ d = One(~Prepared(t)')
    BY <1>1
  <2> QED
    BY <2>1 DEF AnswersToCome
<1> QED
  BY <1>2, <1>3, <1>4, <1>5, <1>6

\* What a transfer still needs is a number of identifiers.
LEMMA NeededIsNat ==
  ASSUME NEW t
  PROVE  /\ answers \in Seq(AnswerRecord) => Needed(t) \in Nat
         /\ answers' \in Seq(AnswerRecord) => Needed(t)' \in Nat
<1>1. ASSUME answers \in Seq(AnswerRecord) PROVE Needed(t) \in Nat
  <2>1. PICK a, b, c, d, e \in Nat :
          /\ a = Waiting(t, "200OK") /\ b = Waiting(t, "200OK NEGOTIATION")
          /\ c = Waiting(t, "PREPARATION") /\ d = OwnSteps(t) /\ e = AnswersToCome(t)
    BY <1>1, NeededParts
  <2>2. a + b + c + d + e \in Nat
    OBVIOUS
  <2> QED
    BY <2>1, <2>2 DEF Needed
<1>2. ASSUME answers' \in Seq(AnswerRecord) PROVE Needed(t)' \in Nat
  <2>1. PICK a, b, c, d, e \in Nat :
          /\ a = Waiting(t, "200OK")' /\ b = Waiting(t, "200OK NEGOTIATION")'
          /\ c = Waiting(t, "PREPARATION")' /\ d = OwnSteps(t)' /\ e = AnswersToCome(t)'
    BY <1>2, NeededParts
  <2>2. a + b + c + d + e \in Nat
    OBVIOUS
  <2> QED
    BY <2>1, <2>2 DEF Needed
<1> QED
  BY <1>1, <1>2

\* What a message that fits tells of its transfer.
LEMMA RoomLeft ==
  ASSUME Types, Room, NEW t \in Transfers
  PROVE  /\ Base[t] \in Nat /\ lastId[t] \in Nat /\ Needed(t) \in Nat
         /\ Base[t] <= lastId[t]
         /\ lastId[t] + Needed(t) <= Base[t] + IdsPerTransfer
<1>1. Base[t] \in Nat /\ lastId[t] \in Nat
  BY Constants, OtherTypes
<1>2. Base[t] <= lastId[t] /\ lastId[t] + Needed(t) <= Base[t] + IdsPerTransfer
  BY DEF Room
<1>3. Needed(t) \in Nat
  BY Sizes, NeededIsNat
<1> QED
  BY <1>1, <1>2, <1>3

\* The identifiers that were used lie in the interval of their transfer.
LEMMA InRange ==
  ASSUME Types, Room, NEW t \in Transfers, NEW k \in Nat, Base[t] < k, k <= lastId[t]
  PROVE  k \in Interval(t)
<1>1. PICK b, l, x \in Nat : b = Base[t] /\ l = lastId[t] /\ x = Needed(t)
  BY RoomLeft
<1>2. l + x <= b + 6
  BY <1>1, RoomLeft DEF IdsPerTransfer
<1>3. k <= b + 6
  BY <1>1, <1>2
<1> QED
  BY <1>1, <1>3 DEF Interval, IdsPerTransfer

\* A Transfer with a destination is that of the offer with its identifier.
LEMMA Destination ==
  ASSUME Types, OwnIds, Heard, NEW tr \in DOMAIN transfers, transfers[tr].hasDestination
  PROVE  /\ IsOffered(tr) /\ Kind[transfers[tr].of] = "FILE" /\ transfers[tr].step # "INVITATION"
         /\ transfers[tr].ftId \in FtIds /\ app[transfers[tr].ftId] = "accepted"
         /\ offered[transfers[tr].ftId] = tr
         /\ Len(files[transfers[tr].ftId]) \in Nat
<1>1. IsOffered(tr) /\ app[transfers[tr].ftId] = "accepted"
  BY DEF Heard
<1>2. transfers[tr].ftId \in FtIds
  BY <1>1 DEF OwnIds
<1>3. PICK i \in FtIds : i = transfers[tr].ftId
  BY <1>2
<1>4. Offer(i, offered[i])
  BY <1>1, <1>3 DEF Heard
<1>5. offered[i] = tr
  BY <1>1, <1>3, <1>4 DEF Offer, OwnIds
<1>6. Len(files[i]) \in Nat
  BY OtherTypes
<1> QED
  BY <1>1, <1>3, <1>5, <1>6 DEF IsOffered

-----------------------------------------------------------------------------
(* Steps of the peer *)

\* Transfer t of the peer goes on by the messages ms.
PeerStep(t, ms) ==
  /\ phase' \in [Transfers -> {"new", "invited", "accepted", "asked", "ready", "closed"}]
  /\ lastId' \in [Transfers -> Nat] /\ sent' \in [Transfers -> 0 .. Chunks]
  /\ answers' \in Seq(AnswerRecord)
  /\ \A u \in Transfers : u # t => phase'[u] = phase[u] /\ lastId'[u] = lastId[u] /\ sent'[u] = sent[u]
  /\ phase'[t] # "new" /\ lastId[t] <= lastId'[t] /\ sent[t] <= sent'[t]
  /\ ms \in Seq(Messages) /\ wire' = wire \o ms /\ \A j \in DOMAIN ms : ms[j].t = t
  /\ UNCHANGED <<chat, signals, application, files>>

\* What the application and the thread have is as it was.
LEMMA ClientStays ==
  ASSUME UNCHANGED <<chat, signals, application, files>>
  PROVE  /\ Objects => Objects'
         /\ OwnIds => OwnIds'
         /\ Heard => Heard'
         /\ Finished => Finished'
         /\ \A t : Same(t)
<1>1. /\ transfers' = transfers /\ FTList' = FTList /\ ftid' = ftid /\ signals' = signals
      /\ app' = app /\ offered' = offered /\ outcomes' = outcomes /\ files' = files
  BY DEF chat, application
<1>2. Objects => Objects'
  BY <1>1 DEF Objects
<1>3. \A t : Same(t)
  BY <1>1, Unchanged
<1>4. OfferedFiles' = OfferedFiles
  BY <1>3 DEF OfferedFiles, Same
<1>5. OwnIds => OwnIds'
  BY <1>1, <1>4 DEF OwnIds, IsOffered
<1>6. Heard => Heard'
  BY <1>1 DEF Heard, Offer, IsOffered
<1>7. Finished => Finished'
  BY <1>1 DEF Finished, IsFinished
<1> QED
  BY <1>2, <1>3, <1>5, <1>6, <1>7

\* The places of the messages after the step.
LEMMA WireGrows ==
  ASSUME Types, NEW t, NEW ms, PeerStep(t, ms)
  PROVE  /\ Len(wire) \in Nat /\ DOMAIN wire = 1 .. Len(wire)
         /\ Len(ms) \in Nat /\ DOMAIN ms = 1 .. Len(ms)
         /\ \A n \in DOMAIN wire : n \in DOMAIN wire' /\ wire'[n] = wire[n]
         /\ \A j \in DOMAIN ms : Len(wire) + j \in DOMAIN wire' /\ wire'[Len(wire) + j] = ms[j]
         /\ \A n \in DOMAIN wire' :
              \/ n \in DOMAIN wire
              \/ \E j \in DOMAIN ms : n = Len(wire) + j /\ wire'[n] = ms[j]
<1>1. wire \in Seq(Messages) /\ ms \in Seq(Messages) /\ wire' = wire \o ms
  BY Sizes DEF PeerStep
<1>2. /\ Len(wire) \in Nat /\ DOMAIN wire = 1 .. Len(wire)
      /\ Len(ms) \in Nat /\ DOMAIN ms = 1 .. Len(ms)
  BY <1>1, LenProperties
<1>3. /\ DOMAIN wire' = 1 .. Len(wire) + Len(ms)
      /\ \A i \in 1 .. Len(wire) : wire'[i] = wire[i]
      /\ \A i \in 1 .. Len(ms) : wire'[Len(wire) + i] = ms[i]
  BY SMTT(60), <1>1, Joined
<1>4. PICK w, l \in Nat : w = Len(wire) /\ l = Len(ms)
  BY <1>2
<1>5. ASSUME NEW n \in DOMAIN wire'
      PROVE  n \in DOMAIN wire \/ \E j \in DOMAIN ms : n = Len(wire) + j /\ wire'[n] = ms[j]
  <2>1. n \in 1 .. w + l
    BY <1>3, <1>4
  <2>2. n \in 1 .. w \/ (n - w \in 1 .. l /\ n = w + (n - w))
    BY <2>1
  <2> QED
    BY ZenonT(60), <1>2, <1>3, <1>4, <2>2
<1>6. \A n \in DOMAIN wire : n \in DOMAIN wire' /\ wire'[n] = wire[n]
  <2>1. \A n \in 1 .. w : n \in 1 .. w + l
    OBVIOUS
  <2> QED
    BY <1>2, <1>3, <1>4, <2>1
<1>7. \A j \in DOMAIN ms : Len(wire) + j \in DOMAIN wire' /\ wire'[Len(wire) + j] = ms[j]
  <2>1. \A j \in 1 .. l : w + j \in 1 .. w + l
    OBVIOUS
  <2> QED
    BY <1>2, <1>3, <1>4, <2>1
<1> QED
  BY <1>2, <1>5, <1>6, <1>7

\* A step of the peer keeps the types.
LEMMA PeerTypes ==
  ASSUME Types, NEW t, NEW ms, PeerStep(t, ms)
  PROVE  Types'
<1>1. /\ transfers' = transfers /\ FTList' = FTList /\ ftid' = ftid /\ spins' = spins
      /\ signals' = signals /\ app' = app /\ offered' = offered /\ outcomes' = outcomes
      /\ files' = files
  BY DEF PeerStep, chat, application
<1>2. wire' \in Seq(Messages)
  BY Sizes, Joined DEF PeerStep
<1>3. /\ phase' \in [Transfers -> {"new", "invited", "accepted", "asked", "ready", "closed"}]
      /\ lastId' \in [Transfers -> Nat] /\ sent' \in [Transfers -> 0 .. Chunks]
      /\ answers' \in Seq([t: Transfers, kind: {"200OK", "200OK NEGOTIATION", "PREPARATION"}])
  BY DEF PeerStep, AnswerRecord, AnswerKinds
<1>4. TypeOK'
  BY <1>1, <1>2, <1>3 DEF Types, TypeOK
<1> QED
  BY <1>1, <1>4 DEF Types

\* What is left to show of the messages when the peer adds some.
LEMMA MoreMessages ==
  ASSUME Types, Script, NEW t \in Transfers, NEW ms, PeerStep(t, ms),
         \A n \in DOMAIN wire : wire[n].t = t => Fits(wire[n])',
         \A j \in DOMAIN ms : Fits(ms[j])',
         \A n \in DOMAIN wire : \A j \in DOMAIN ms : wire[n].t = t => InOrder(wire[n], ms[j]),
         \A i, j \in DOMAIN ms : i < j => InOrder(ms[i], ms[j]),
         \A j \in DOMAIN ms : ~ms[j].isEmpty /\ ms[j].step # "INVITATION" /\ ~Known(t) =>
           \/ \E i \in DOMAIN wire : IsFirst(wire[i], t)
           \/ \E i \in DOMAIN ms : i < j /\ IsFirst(ms[i], t),
         Coming(t)'
  PROVE  Script'
<1>1. /\ Len(wire) \in Nat /\ DOMAIN wire = 1 .. Len(wire)
      /\ Len(ms) \in Nat /\ DOMAIN ms = 1 .. Len(ms)
      /\ \A n \in DOMAIN wire : n \in DOMAIN wire' /\ wire'[n] = wire[n]
      /\ \A j \in DOMAIN ms : Len(wire) + j \in DOMAIN wire' /\ wire'[Len(wire) + j] = ms[j]
      /\ \A n \in DOMAIN wire' :
           n \in DOMAIN wire \/ \E j \in DOMAIN ms : n = Len(wire) + j /\ wire'[n] = ms[j]
  BY SMTT(60), WireGrows
<1>2. PICK w \in Nat : w = Len(wire)
  BY <1>1
<1>3. \A u : Same(u) /\ Kept(u)
  BY ClientStays, SameIsKept DEF PeerStep
<1>4. \A n \in DOMAIN wire : wire[n].t \in Transfers
  BY MessageTypes
<1>5. /\ \A u \in Transfers : u # t => phase'[u] = phase[u] /\ lastId'[u] = lastId[u] /\ sent'[u] = sent[u]
      /\ \A j \in DOMAIN ms : ms[j].t = t
  BY DEF PeerStep
<1>6. ASSUME NEW n \in DOMAIN wire' PROVE Fits(wire[n])'
  <2>1. CASE n \in DOMAIN wire /\ wire[n].t = t
    BY <1>1, <2>1
  <2>2. CASE n \in DOMAIN wire /\ wire[n].t # t
    <3>1. Fits(wire[n])
      BY <2>2 DEF Script
    <3>2. PICK m : m = wire[n]
      OBVIOUS
    <3>3. Fits(m)'
      BY <1>3, <1>4, <1>5, <2>2, <3>1, <3>2, FitsKept
    <3> QED
      BY <1>1, <2>2, <3>2, <3>3
  <2>3. CASE \E j \in DOMAIN ms : wire'[n] = ms[j]
    BY <2>3
  <2> QED
    BY <1>1, <2>1, <2>2, <2>3
<1>7. ASSUME NEW n1 \in DOMAIN wire', NEW n2 \in DOMAIN wire', n1 < n2 PROVE InOrder(wire'[n1], wire'[n2])
  <2>1. CASE n1 \in DOMAIN wire /\ n2 \in DOMAIN wire
    BY <1>1, <1>7, <2>1 DEF Script
  <2>2. CASE n1 \in DOMAIN wire /\ n2 \notin DOMAIN wire
    <3>1. PICK j \in DOMAIN ms : wire'[n2] = ms[j]
      BY <1>1, <2>2
    <3>2. wire[n1].t = t => InOrder(wire[n1], ms[j])
      BY <2>2
    <3>3. ms[j].t = t
      BY <1>5
    <3>4. wire[n1].t # t => InOrder(wire[n1], ms[j])
      BY <3>3 DEF InOrder
    <3> QED
      BY <1>1, <2>2, <3>1, <3>2, <3>4
  <2>3. CASE n1 \notin DOMAIN wire
    <3>1. PICK i \in DOMAIN ms : n1 = w + i /\ wire'[n1] = ms[i]
      BY <1>1, <1>2, <2>3
    <3>2. n2 \notin DOMAIN wire
      <4>1. i \in 1 .. Len(ms) /\ i \in Nat /\ i >= 1
        BY <1>1
      <4>2. ASSUME n2 \in 1 .. w PROVE FALSE
        BY <1>7, <3>1, <4>1, <4>2
      <4> QED
        BY <1>1, <1>2, <4>2
    <3>3. PICK j \in DOMAIN ms : n2 = w + j /\ wire'[n2] = ms[j]
      BY <1>1, <1>2, <3>2
    <3>4. i < j
      <4>1. i \in Nat /\ j \in Nat
        BY <1>1
      <4> QED
        BY <1>7, <3>1, <3>3, <4>1
    <3> QED
      BY <3>1, <3>3, <3>4
  <2> QED
    BY <2>1, <2>2, <2>3
<1>8. ASSUME NEW n \in DOMAIN wire', ~wire'[n].isEmpty, wire'[n].step # "INVITATION", ~Known(wire'[n].t)
      PROVE  \E i \in DOMAIN wire' : i < n /\ IsFirst(wire'[i], wire'[n].t)
  <2>1. CASE n \in DOMAIN wire
    <3>1. \E i \in DOMAIN wire : i < n /\ IsFirst(wire[i], wire[n].t)
      BY <1>1, <1>8, <2>1 DEF Script
    <3> QED
      BY <1>1, <2>1, <3>1
  <2>2. CASE n \notin DOMAIN wire
    <3>1. PICK j \in DOMAIN ms : n = w + j /\ wire'[n] = ms[j]
      BY <1>1, <1>2, <2>2
    <3>2. ms[j].t = t
      BY <1>5
    <3>3. CASE \E i \in DOMAIN wire : IsFirst(wire[i], t)
      <4>1. PICK i \in DOMAIN wire : IsFirst(wire[i], t)
        BY <3>3
      <4>2. i \in 1 .. w /\ j \in Nat /\ j >= 1
        BY <1>1, <1>2
      <4>3. i < w + j
        BY <4>2
      <4> QED
        BY <1>1, <3>1, <3>2, <4>1, <4>3
    <3>4. CASE \E i \in DOMAIN ms : i < j /\ IsFirst(ms[i], t)
      <4>1. PICK i \in DOMAIN ms : i < j /\ IsFirst(ms[i], t)
        BY <3>4
      <4>2. i \in Nat /\ j \in Nat
        BY <1>1
      <4>3. w + i < w + j
        BY <4>1, <4>2
      <4>4. w + i \in DOMAIN wire' /\ wire'[w + i] = ms[i]
        BY <1>1, <1>2
      <4> QED
        BY <3>1, <3>2, <4>1, <4>3, <4>4
    <3> QED
      BY <1>8, <3>1, <3>2, <3>3, <3>4
  <2> QED
    BY <2>1, <2>2
<1>9. ASSUME NEW u \in Transfers PROVE Coming(u)'
  <2>1. CASE u = t
    BY <2>1
  <2>2. CASE u # t
    <3>1. Coming(u) /\ Same(u) /\ phase'[u] = phase[u]
      BY <1>3, <1>5, <2>2 DEF Script
    <3>2. \A n \in DOMAIN wire : n \in DOMAIN wire' /\ wire'[n] = wire[n]
      BY <1>1
    <3>3. \A n \in DOMAIN wire' : wire'[n].t = u => n \in DOMAIN wire /\ wire'[n] = wire[n]
      BY <1>1, <1>5, <2>2
    <3> QED
      BY <3>1, <3>2, <3>3 DEF Coming, Same
  <2> QED
    BY <2>1, <2>2
<1>10. ASSUME NEW n \in DOMAIN wire' PROVE (~wire[n].isEmpty /\ wire[n].step # "INVITATION" /\ ~Known(wire[n].t) =>
         \E i \in DOMAIN wire : i < n /\ IsFirst(wire[i], wire[n].t))'
  <2>1. PICK m : m = wire'[n]
    OBVIOUS
  <2>2. Known(m.t)' = Known(m.t)
    BY <1>3 DEF Same
  <2> QED
    BY <1>8, <2>1, <2>2 DEF IsFirst
<1> QED
  BY <1>6, <1>7, <1>9, <1>10 DEF Script, InOrder, IsPart

\* The same for one message of a transfer that was begun.
LEMMA OneMoreMessage ==
  ASSUME Types, Script, NEW t \in Transfers, NEW m \in Messages, PeerStep(t, <<m>>), phase[t] # "new",
         \A n \in DOMAIN wire : wire[n].t = t => Fits(wire[n])' /\ InOrder(wire[n], m),
         Fits(m)', m.isEmpty \/ ~In(t, {"BYE"})
  PROVE  Script'
<1>1. PICK ms : ms = <<m>>
  OBVIOUS
<1>2. DOMAIN ms = {1} /\ ms[1] = m /\ Len(ms) = 1
  BY <1>1
<1>3. PeerStep(t, ms)
  BY <1>1
<1>4. /\ \A n \in DOMAIN wire : n \in DOMAIN wire' /\ wire'[n] = wire[n]
      /\ \A n \in DOMAIN wire' : n \in DOMAIN wire \/ wire'[n] = m
  <2>1. /\ \A n \in DOMAIN wire : n \in DOMAIN wire' /\ wire'[n] = wire[n]
        /\ \A n \in DOMAIN wire' : n \in DOMAIN wire \/ \E j \in DOMAIN ms : wire'[n] = ms[j]
    BY <1>3, WireGrows
  <2> QED
    BY <1>2, <2>1
<1>5. Coming(t) /\ Same(t)
  BY <1>3, ClientStays DEF Script, PeerStep
<1>6. Coming(t)'
  BY <1>4, <1>5 DEF Coming, Same
<1>7. ~Known(t) => \E i \in DOMAIN wire : IsFirst(wire[i], t)
  BY <1>5 DEF Coming
<1>8. \A i, j \in DOMAIN ms : ~(i < j)
  BY <1>2
<1>9. \A j \in DOMAIN ms : Fits(ms[j])'
  BY <1>2
<1>10. \A n \in DOMAIN wire : \A j \in DOMAIN ms : wire[n].t = t => InOrder(wire[n], ms[j])
  BY <1>2
<1> QED
  BY <1>3, <1>6, <1>7, <1>8, <1>9, <1>10, MoreMessages

\* What is left to show of the identifiers, of the room for them, of what the peer is
\* told and of the data.
LEMMA PeerNumbers ==
  ASSUME Types, Numbers, NEW t \in Transfers, NEW ms, PeerStep(t, ms),
         \A j \in DOMAIN ms : ~ms[j].isEmpty =>
           lastId[t] <= ms[j].id /\ (ms[j].step = "BYE" => lastId[t] < ms[j].id)
  PROVE  Numbers'
<1>1. transfers' = transfers /\ FTList' = FTList
  BY DEF PeerStep, chat
<1>2. /\ \A u \in Transfers : lastId[u] \in Nat /\ lastId'[u] \in Nat /\ lastId[u] <= lastId'[u]
      /\ \A u \in Transfers : u # t => phase'[u] = phase[u] /\ lastId'[u] = lastId[u]
      /\ phase'[t] # "new"
  <2>1. \A u \in Transfers : lastId[u] \in Nat /\ lastId'[u] \in Nat
    BY OtherTypes DEF PeerStep
  <2>2. /\ \A u \in Transfers : u # t => phase'[u] = phase[u] /\ lastId'[u] = lastId[u]
        /\ phase'[t] # "new" /\ lastId[t] <= lastId'[t]
    BY DEF PeerStep
  <2> QED
    BY <2>1, <2>2
<1>3. ASSUME NEW k \in DOMAIN FTList
      PROVE  LET o == transfers[FTList[k]] IN
             /\ Base[o.of] < k /\ k <= lastId'[o.of]
             /\ o.step = "INVITATION" => k = Base[o.of] + 1
             /\ \A n \in DOMAIN wire' : wire'[n].t = o.of => Follows(wire'[n], k)
  <2>1. PICK tr \in DOMAIN transfers, u \in Transfers : tr = FTList[k] /\ u = transfers[tr].of
    BY EntryTypes, RecordTypes
  <2>2. k \in Nat
    BY EntryTypes
  <2>3. /\ Base[u] < k /\ k <= lastId[u]
        /\ transfers[tr].step = "INVITATION" => k = Base[u] + 1
        /\ \A n \in DOMAIN wire : wire[n].t = u => Follows(wire[n], k)
    BY <2>1 DEF Numbers
  <2>4. k <= lastId'[u]
    BY <1>2, <2>2, <2>3
  <2>5. ASSUME NEW n \in DOMAIN wire', wire'[n].t = u PROVE Follows(wire'[n], k)
    <3>1. CASE n \in DOMAIN wire
      BY <2>3, <2>5, <3>1, WireGrows
    <3>2. CASE n \notin DOMAIN wire
      <4>1. PICK j \in DOMAIN ms : wire'[n] = ms[j]
        BY <3>2, WireGrows
      <4>2. ms[j].t = t
        BY DEF PeerStep
      <4>3. u = t
        BY <2>5, <4>1, <4>2
      <4>4. ms[j].id \in Nat
        <5>1. ms[j] \in Messages
          BY ElementOfSeq DEF PeerStep
        <5> QED
          BY <5>1 DEF Messages
      <4>5. PICK a, l \in Nat : a = ms[j].id /\ l = lastId[t]
        BY <1>2, <4>4
      <4>6. ~ms[j].isEmpty => k <= a /\ (ms[j].step = "BYE" => k < a)
        BY <2>2, <2>3, <4>3, <4>5
      <4> QED
        BY <4>1, <4>5, <4>6 DEF Follows
    <3> QED
      BY <3>1, <3>2
  <2> QED
    BY <2>1, <2>3, <2>4, <2>5
<1>4. \A u \in Transfers : phase'[u] = "new" => lastId'[u] = Base[u]
  BY <1>2 DEF Numbers
<1> QED
  BY <1>1, <1>3, <1>4 DEF Numbers, Follows

\* It needs one identifier less when it has one step of its own less to take.
LEMMA NeededFalls ==
  ASSUME Types, NEW t \in Transfers, NEW d \in {0, 1}, lastId'[t] = lastId[t] + d,
         \A kind : Waiting(t, kind)' = Waiting(t, kind),
         AnswersToCome(t)' = AnswersToCome(t), OwnSteps(t)' + d <= OwnSteps(t)
  PROVE  lastId'[t] + Needed(t)' <= lastId[t] + Needed(t)
<1>1. PICK a, b, c, e, o, o1, l \in Nat :
        /\ a = Waiting(t, "200OK") /\ b = Waiting(t, "200OK NEGOTIATION")
        /\ c = Waiting(t, "PREPARATION") /\ e = AnswersToCome(t)
        /\ o = OwnSteps(t) /\ o1 = OwnSteps(t)' /\ l = lastId[t]
  BY NeededParts, Sizes, OtherTypes
<1>2. o1 + d <= o
  BY <1>1
<1>3. (l + d) + (a + b + c + o1 + e) <= l + (a + b + c + o + e)
  BY <1>2
<1>4. Needed(t) = a + b + c + o + e
  BY <1>1 DEF Needed
<1>5. Needed(t)' = a + b + c + o1 + e
  <2>1. /\ a = Waiting(t, "200OK")' /\ b = Waiting(t, "200OK NEGOTIATION")'
        /\ c = Waiting(t, "PREPARATION")' /\ e = AnswersToCome(t)'
    BY <1>1
  <2> QED
    BY <1>1, <2>1 DEF Needed
<1> QED
  BY <1>1, <1>3, <1>4, <1>5

\* A step of the peer keeps the identifiers that are needed in reach, if it uses no
\* more than it needs less from then on.
LEMMA PeerRoom ==
  ASSUME Types, Room, NEW t \in Transfers, NEW ms, PeerStep(t, ms),
         \A u \in Transfers : u # t => \A kind \in AnswerKinds : Waiting(u, kind)' = Waiting(u, kind),
         lastId'[t] + Needed(t)' <= lastId[t] + Needed(t)
  PROVE  Room'
<1>1. \A u : Same(u)
  BY ClientStays DEF PeerStep
<1>2. ASSUME NEW u \in Transfers PROVE AnswersToCome(u)' = AnswersToCome(u)
  BY <1>1 DEF AnswersToCome, Same
<1>3. ASSUME NEW u \in Transfers, u # t PROVE OwnSteps(u)' = OwnSteps(u) /\ lastId'[u] = lastId[u]
  BY <1>3 DEF OwnSteps, PeerStep
<1>4. ASSUME NEW u \in Transfers PROVE Base[u] <= lastId'[u] /\ lastId'[u] + Needed(u)' <= Base[u] + IdsPerTransfer
  <2>1. CASE u # t
    <3>1. Needed(u)' = Needed(u)
      BY <1>2, <1>3, <2>1 DEF Needed, AnswerKinds
    <3> QED
      BY <1>3, <2>1, <3>1, RoomLeft
  <2>2. CASE u = t
    <3>1. lastId'[t] \in Nat /\ lastId[t] <= lastId'[t]
      BY DEF PeerStep
    <3>2. Needed(t)' \in Nat
      <4>1. answers' \in Seq(AnswerRecord)
        BY DEF PeerStep
      <4> QED
        BY <4>1, NeededIsNat
    <3>3. PICK b, l, l1, x, x1 \in Nat : /\ b = Base[t] /\ l = lastId[t] /\ l1 = lastId'[t]
                                         /\ x = Needed(t) /\ x1 = Needed(t)'
      BY <3>1, <3>2, RoomLeft
    <3>4. b <= l /\ l + x <= b + 6 /\ l <= l1 /\ l1 + x1 <= l + x
      BY <3>1, <3>3, RoomLeft DEF IdsPerTransfer
    <3>5. b <= l1 /\ l1 + x1 <= b + 6
      BY <3>4
    <3> QED
      BY <2>2, <3>3, <3>5 DEF IdsPerTransfer
  <2> QED
    BY <2>1, <2>2
<1> QED
  BY <1>4 DEF Room

\* A step of the peer takes an answer at most.
LEMMA PeerTold ==
  ASSUME Types, Told, NEW t \in Transfers, NEW ms, PeerStep(t, ms),
         answers' = answers \/ (answers # <<>> /\ answers' = Tail(answers))
  PROVE  Told'
<1>1. \A u : Same(u)
  BY ClientStays DEF PeerStep
<1>2. \A a : ToldOf(a) => ToldOf(a)'
  BY <1>1 DEF ToldOf, Same
<1>3. ASSUME NEW n \in DOMAIN answers' PROVE \E i \in DOMAIN answers : answers'[n] = answers[i]
  <2>1. CASE answers' = answers
    BY <2>1
  <2>2. CASE answers # <<>> /\ answers' = Tail(answers)
    <3>1. /\ Len(answers) \in Nat /\ DOMAIN answers = 1 .. Len(answers)
          /\ DOMAIN answers' = 1 .. Len(answers) - 1
          /\ \A i \in 1 .. Len(answers) - 1 : answers'[i] = answers[i + 1]
      BY ZenonT(60), <2>2, Sizes, Taken
    <3>2. PICK w \in Nat : w = Len(answers)
      BY <3>1
    <3>3. n + 1 \in 1 .. w
      BY <3>1, <3>2
    <3> QED
      BY SMTT(60), <3>1, <3>2, <3>3
  <2> QED
    BY <2>1, <2>2
<1>4. ASSUME NEW n \in DOMAIN answers' PROVE ToldOf(answers[n])'
  <2>1. PICK i \in DOMAIN answers : answers'[n] = answers[i]
    BY <1>3
  <2>2. PICK a : a = answers[i]
    OBVIOUS
  <2>3. ToldOf(a)'
    BY <1>2, <2>2 DEF Told
  <2> QED
    BY <2>1, <2>2, <2>3
<1> QED
  BY <1>4 DEF Told

\* A step of the peer sends the next piece of the data, or none.
LEMMA PeerData ==
  ASSUME Types, OwnIds, Heard, Data, NEW t \in Transfers, NEW ms, PeerStep(t, ms),
         \A j \in DOMAIN ms : IsData(ms[j], t) => ms[j].nr = sent[t] + 1,
         \/ sent'[t] = sent[t]
         \/ sent'[t] = sent[t] + 1 /\ \E j \in DOMAIN ms : IsData(ms[j], t)
  PROVE  Data'
<1>1. transfers' = transfers /\ files' = files /\ app' = app /\ offered' = offered
  BY DEF PeerStep, chat, application
<1>2. ASSUME NEW tr \in DOMAIN transfers, transfers[tr].hasDestination, DataOf(tr) PROVE DataOf(tr)'
  <2>1. PICK u \in Transfers, i \in FtIds : u = transfers[tr].of /\ i = transfers[tr].ftId
    BY <1>2, RecordTypes, Destination
  <2>2. PICK done \in Nat, s \in Nat, x \in Nat : done = Len(files[i]) /\ s = sent[u] /\ x = sent[t]
    BY <1>2, <2>1, Destination, OtherTypes
  <2>3. /\ done <= s
        /\ \A n \in DOMAIN wire : IsData(wire[n], u) => wire[n].nr > done
        /\ \A v \in done + 1 .. s : \E n \in DOMAIN wire : IsData(wire[n], u) /\ wire[n].nr = v
    BY <1>2, <2>1, <2>2 DEF DataOf
  <2>4. /\ \A n \in DOMAIN wire : n \in DOMAIN wire' /\ wire'[n] = wire[n]
        /\ \A j \in DOMAIN ms : \E n \in DOMAIN wire' : wire'[n] = ms[j]
        /\ \A n \in DOMAIN wire' : n \in DOMAIN wire \/ \E j \in DOMAIN ms : wire'[n] = ms[j]
    BY WireGrows
  <2>5. \A j \in DOMAIN ms : ms[j].t = t
    BY DEF PeerStep
  <2>6. \A n \in DOMAIN wire : wire[n].nr \in Nat
    BY MessageTypes
  <2>7. ASSUME NEW n \in DOMAIN wire', IsData(wire'[n], u) PROVE wire'[n].nr > done
    <3>1. CASE n \in DOMAIN wire
      BY <2>3, <2>4, <2>7, <3>1
    <3>2. CASE n \notin DOMAIN wire
      <4>1. PICK j \in DOMAIN ms : wire'[n] = ms[j]
        BY <2>4, <3>2
      <4>2. u = t
        BY <2>5, <2>7, <4>1 DEF IsData
      <4>3. wire'[n].nr = s + 1
        BY <2>2, <2>7, <4>1, <4>2
      <4> QED
        BY <2>3, <4>3
    <3> QED
      BY <3>1, <3>2
  <2>8. sent'[u] = s \/ (u = t /\ sent'[u] = s + 1 /\ \E j \in DOMAIN ms : IsData(ms[j], t))
    BY <2>2 DEF PeerStep
  <2>9. ASSUME NEW v \in done + 1 .. sent'[u]
        PROVE  \E n \in DOMAIN wire' : IsData(wire'[n], u) /\ wire'[n].nr = v
    <3>1. CASE v \in done + 1 .. s
      BY <2>3, <2>4, <3>1
    <3>2. CASE v \notin done + 1 .. s
      <4>1. u = t /\ v = s + 1 /\ \E j \in DOMAIN ms : IsData(ms[j], t)
        BY <2>8, <2>9, <3>2
      <4>2. PICK j \in DOMAIN ms : IsData(ms[j], t)
        BY <4>1
      <4>3. ms[j].nr = v
        BY <2>2, <4>1, <4>2
      <4> QED
        BY <2>4, <4>1, <4>2, <4>3
    <3> QED
      BY <3>1, <3>2
  <2>10. done <= sent'[u]
    BY <2>3, <2>8
  <2> QED
    BY <1>1, <2>1, <2>2, <2>7, <2>9, <2>10 DEF DataOf, IsData
<1>3. ASSUME NEW tr \in DOMAIN transfers, transfers[tr].hasDestination PROVE DataOf(tr)'
  BY <1>2, <1>3 DEF Data
<1> QED
  BY <1>1, <1>3 DEF Data

\* What Message makes.
LEMMA MessageMade ==
  ASSUME NEW t \in Transfers, NEW id \in Nat, NEW nr \in Nat, NEW body, NEW of
  PROVE  LET m == Message(t, id, body, nr, of) IN
         /\ m \in Messages /\ m.t = t /\ m.id = id /\ m.nr = nr /\ m.step = parse(body)
         /\ (m.isFinished <=> nr = of) /\ ~m.isEmpty
<1>1. parse(body) \in Steps
  BY DEF parse, Steps
<1> QED
  BY <1>1 DEF Message, Messages

\* What Ack makes.
LEMMA AckMade ==
  ASSUME NEW t \in Transfers, NEW id \in Nat
  PROVE  Ack(t, id) \in Messages /\ Ack(t, id).t = t /\ Ack(t, id).id = id /\ Ack(t, id).isEmpty
<1>1. PICK m : m = Message(t, id, "nothing", 1, 1)
  OBVIOUS
<1>2. m \in Messages /\ m.t = t /\ m.id = id
  BY <1>1, MessageMade
<1>3. Ack(t, id) = [m EXCEPT !.isEmpty = TRUE]
  BY <1>1 DEF Ack
<1> QED
  BY <1>2, <1>3 DEF Messages

\* The peer is not ahead of the client when it does nothing and the client goes on.
LEMMA PaceKept ==
  ASSUME NEW t, Paced(t), Kept(t), phase'[t] = phase[t], sent'[t] = sent[t]
  PROVE  Paced(t)'
  BY DEF Paced, Kept

\* The parts of the invariant that a step of the peer does not touch, and the others together.
LEMMA PeerKeeps ==
  ASSUME IInv, NEW t \in Transfers, NEW ms, PeerStep(t, ms),
         Paced(t)', Script', Numbers', Room', Told', Data'
  PROVE  IInv'
<1>1. Types' /\ Objects' /\ OwnIds' /\ Heard' /\ Finished'
  BY ZenonT(60), PeerTypes, ClientStays DEF IInv, PeerStep
<1>2. \A u : Kept(u)
  BY ClientStays, SameIsKept DEF PeerStep
<1>3. ASSUME NEW u \in Transfers PROVE Paced(u)'
  <2>1. CASE u = t
    BY <2>1
  <2>2. CASE u # t
    BY <1>2, <2>2, PaceKept DEF IInv, Pace, PeerStep
  <2> QED
    BY <2>1, <2>2
<1> QED
  BY <1>1, <1>3 DEF IInv, Pace

\* An invitation brings all its parts, under the first identifier of its transfer.
LEMMA InvitesKeeps ==
  ASSUME IInv, NEW t \in Transfers, PeerInvites(t)
  PROVE  IInv'
<1>0. PICK ms : ms = [n \in 1 .. Parts[t] |->
        Message(t, lastId'[t], IF n = 1 THEN "sessionreqbody" ELSE "rest", n, Parts[t])]
  OBVIOUS
<1>1. /\ phase[t] = "new" /\ phase' = [phase EXCEPT ![t] = "invited"]
      /\ lastId' = [lastId EXCEPT ![t] = @ + 1] /\ wire' = wire \o ms
      /\ UNCHANGED <<sent, answers, chat, signals, application, files>>
  BY <1>0 DEF PeerInvites, SendMessages
<1>2. /\ phase \in [Transfers -> {"new", "invited", "accepted", "asked", "ready", "closed"}]
      /\ lastId \in [Transfers -> Nat] /\ sent \in [Transfers -> 0 .. Chunks]
      /\ answers \in Seq(AnswerRecord)
  BY DEF IInv, Types, TypeOK, AnswerRecord, AnswerKinds
<1>3. /\ ~Known(t) /\ sent[t] = 0 /\ lastId[t] = Base[t] /\ lastId[t] \in Nat /\ Base[t] \in Nat
      /\ \A n \in DOMAIN wire : wire[n].t # t
  <2>1. ~Known(t) /\ sent[t] = 0
    BY <1>1 DEF IInv, Pace, Paced
  <2>2. lastId[t] = Base[t]
    BY <1>1 DEF IInv, Numbers
  <2>3. \A n \in DOMAIN wire : wire[n].t # t
    BY <1>1 DEF IInv, Script, Fits
  <2> QED
    BY <1>2, <2>1, <2>2, <2>3
<1>4. /\ phase'[t] = "invited" /\ lastId'[t] = lastId[t] + 1 /\ lastId'[t] \in Nat
      /\ sent' = sent /\ answers' = answers
      /\ \A u \in Transfers : u # t => phase'[u] = phase[u] /\ lastId'[u] = lastId[u]
  BY <1>1, <1>2
<1>5. PICK p \in Nat : p = Parts[t] /\ p >= 1
  BY Constants
<1>6. DOMAIN ms = 1 .. p
  BY <1>0, <1>5
<1>7. ASSUME NEW n \in 1 .. p
      PROVE  /\ ms[n] \in Messages /\ ms[n].t = t /\ ms[n].id = Base[t] + 1 /\ ms[n].nr = n
             /\ (ms[n].isFinished <=> n = p) /\ ~ms[n].isEmpty
             /\ ms[n].step = IF n = 1 THEN "INVITATION" ELSE "NULL"
  <2>0. PICK id \in Nat : id = lastId'[t]
    BY <1>4
  <2>1. PICK body : body = IF n = 1 THEN "sessionreqbody" ELSE "rest"
    OBVIOUS
  <2>2. ms[n] = Message(t, id, body, n, p)
    BY <1>0, <1>5, <2>0, <2>1
  <2>3. n \in Nat
    OBVIOUS
  <2>4. parse(body) = IF n = 1 THEN "INVITATION" ELSE "NULL"
    BY <2>1 DEF parse
  <2>5. id = Base[t] + 1
    BY <1>3, <1>4, <2>0
  <2>6. PICK m : m = Message(t, id, body, n, p)
    OBVIOUS
  <2>7. /\ m \in Messages /\ m.t = t /\ m.id = id /\ m.nr = n /\ m.step = parse(body)
        /\ (m.isFinished <=> n = p) /\ ~m.isEmpty
    BY <2>3, <2>6, MessageMade
  <2> QED
    BY <2>2, <2>4, <2>5, <2>6, <2>7
<1>8. PeerStep(t, ms)
  <2>1. ms \in Seq(Messages)
    <3>1. ms \in [1 .. p -> Messages]
      BY <1>0, <1>5, <1>7
    <3> QED
      BY <1>5, <3>1, SeqDef
  <2>2. /\ phase' \in [Transfers -> {"new", "invited", "accepted", "asked", "ready", "closed"}]
        /\ lastId' \in [Transfers -> Nat]
    BY <1>1, <1>2
  <2>3. sent[t] <= sent'[t] /\ lastId[t] <= lastId'[t]
    BY <1>3, <1>4
  <2> QED
    BY <1>1, <1>2, <1>4, <1>6, <1>7, <2>1, <2>2, <2>3 DEF PeerStep
<1>9. \A u : Same(u)
  BY <1>8, ClientStays DEF PeerStep
<1>10. ~Known(t)' /\ \A steps : ~In(t, steps)'
  BY <1>3, <1>9, NoObject DEF Same
<1>11. Paced(t)'
  BY <1>3, <1>4, <1>10 DEF Paced
<1>12. Script'
  <2>1. ASSUME NEW j \in DOMAIN ms PROVE Fits(ms[j])'
    <3>1. PICK m : m = ms[j]
      OBVIOUS
    <3>2. /\ m.t = t /\ m.id = Base[t] + 1 /\ m.nr = j /\ j \in 1 .. p
          /\ (m.isFinished <=> j = p) /\ ~m.isEmpty
          /\ m.step = IF j = 1 THEN "INVITATION" ELSE "NULL"
      BY <1>6, <1>7, <3>1
    <3>3. PartFits(m)'
      BY <1>5, <1>10, <3>2 DEF PartFits
    <3>4. Base[t] < m.id /\ m.id <= lastId'[t]
      BY <1>3, <1>4, <3>2
    <3>5. Fits(m)'
      BY <1>4, <3>2, <3>3, <3>4 DEF Fits
    <3> QED
      BY <1>1, <3>1, <3>5
  <2>2. ASSUME NEW i \in DOMAIN ms, NEW j \in DOMAIN ms, i < j PROVE InOrder(ms[i], ms[j])
    BY <1>3, <1>6, <1>7, <2>2 DEF InOrder
  <2>3. IsFirst(ms[1], t) /\ 1 \in DOMAIN ms
    BY <1>5, <1>6, <1>7 DEF IsFirst
  <2>4. ASSUME NEW j \in DOMAIN ms, ms[j].step # "INVITATION"
        PROVE  \E i \in DOMAIN ms : i < j /\ IsFirst(ms[i], t)
    <3>1. j \in Nat /\ j # 1 /\ j >= 1
      BY <1>6, <1>7, <2>4
    <3> QED
      BY <2>3, <3>1
  <2>5. Coming(t)'
    <3>1. \A j \in DOMAIN ms : \E n \in DOMAIN wire' : wire'[n] = ms[j]
      BY <1>8, WireGrows DEF IInv
    <3>2. \E n \in DOMAIN wire' : IsFirst(wire'[n], t)
      BY <2>3, <3>1
    <3>3. p \in DOMAIN ms /\ ms[p].t = t /\ ms[p].isFinished /\ IsPart(ms[p])
      BY <1>5, <1>6, <1>7 DEF IsPart
    <3>4. \E n \in DOMAIN wire' : IsPart(wire'[n]) /\ wire'[n].t = t /\ wire'[n].isFinished
      BY <3>1, <3>3
    <3> QED
      BY <1>10, <3>2, <3>4 DEF Coming, IsFirst, IsPart
  <2> QED
    BY <1>3, <1>8, <2>1, <2>2, <2>4, <2>5, MoreMessages DEF IInv
<1>13. Numbers'
  <2>1. \A j \in DOMAIN ms : lastId[t] <= ms[j].id /\ ms[j].step # "BYE"
    BY <1>3, <1>6, <1>7
  <2> QED
    BY <1>8, <2>1, PeerNumbers DEF IInv
<1>14. Room'
  <2>1. \A u, kind : Waiting(u, kind)' = Waiting(u, kind)
    BY <1>4 DEF Waiting
  <2>2. AnswersToCome(t)' = AnswersToCome(t)
    BY <1>9 DEF AnswersToCome, Same
  <2>3. OwnSteps(t)' + 1 <= OwnSteps(t)
    BY <1>1, <1>3, <1>4 DEF OwnSteps, One
  <2>4. lastId'[t] + Needed(t)' <= lastId[t] + Needed(t)
    BY <1>4, <2>1, <2>2, <2>3, NeededFalls DEF IInv
  <2> QED
    BY <1>8, <2>1, <2>4, PeerRoom DEF IInv
<1>15. Told'
  BY <1>4, <1>8, PeerTold DEF IInv
<1>16. Data'
  <2>1. \A j \in DOMAIN ms : ~IsData(ms[j], t)
    BY <1>6, <1>7 DEF IsData
  <2> QED
    BY <1>4, <1>8, <2>1, PeerData DEF IInv
<1> QED
  BY <1>8, <1>11, <1>12, <1>13, <1>14, <1>15, <1>16, PeerKeeps

\* A message that fits does so when the peer has gone on, unless it depends on where the peer was.
LEMMA FitsGrown ==
  ASSUME NEW m \in Messages, Fits(m), Kept(m.t), phase'[m.t] # "new",
         lastId[m.t] \in Nat, lastId'[m.t] \in Nat, lastId[m.t] <= lastId'[m.t],
         sent[m.t] \in Nat, sent'[m.t] \in Nat, sent[m.t] <= sent'[m.t],
         m.isEmpty \/ IsPart(m) \/ phase'[m.t] = phase[m.t] \/ phase'[m.t] = "closed"
  PROVE  Fits(m)'
<1>1. m.id \in Nat /\ m.nr \in Nat
  BY DEF Messages
<1>2. PartFits(m) => PartFits(m)'
  BY DEF PartFits, Kept
<1>3. ~m.isEmpty /\ m.step = "NEGOTIATION" => RequestFits(m)'
  BY DEF Fits, RequestFits, Kept, IsPart
<1>4. ~m.isEmpty /\ m.step = "TRANSFER" => DataFits(m)'
  <2> SUFFICES ASSUME ~m.isEmpty, m.step = "TRANSFER" PROVE DataFits(m)'
    OBVIOUS
  <2>1. DataFits(m) /\ ~IsPart(m)
    BY DEF Fits, IsPart
  <2>2. m.nr \in 1 .. sent'[m.t]
    BY <1>1, <2>1 DEF DataFits
  <2> QED
    BY <2>1, <2>2 DEF DataFits, Kept
<1>5. ~m.isEmpty /\ m.step = "BYE" => ByeFits(m)'
  BY DEF Fits, ByeFits, Kept, IsPart
<1>6. Base[m.t] < m.id /\ m.id <= lastId'[m.t]
  BY <1>1 DEF Fits
<1> QED
  BY <1>2, <1>3, <1>4, <1>5, <1>6 DEF Fits, IsPart

\* A step of the peer that sends one message.
GoesOn(t, m, x, y, z) ==
  /\ phase' = [phase EXCEPT ![t] = x] /\ lastId' = [lastId EXCEPT ![t] = y]
  /\ sent' = [sent EXCEPT ![t] = z] /\ wire' = wire \o <<m>>
  /\ lastId[t] <= y /\ sent[t] <= z
  /\ answers' \in Seq(AnswerRecord) /\ UNCHANGED <<chat, signals, application, files>>

\* A step of the peer that sends one message.
LEMMA OneMessageStep ==
  ASSUME Types, NEW t \in Transfers, NEW m \in Messages, m.t = t,
         NEW x \in {"invited", "accepted", "asked", "ready", "closed"},
         NEW y \in Nat, NEW z \in 0 .. Chunks, GoesOn(t, m, x, y, z)
  PROVE  PeerStep(t, <<m>>) /\ phase'[t] = x /\ lastId'[t] = y /\ sent'[t] = z
<1>1. /\ phase \in [Transfers -> {"new", "invited", "accepted", "asked", "ready", "closed"}]
      /\ lastId \in [Transfers -> Nat] /\ sent \in [Transfers -> 0 .. Chunks]
  BY DEF Types, TypeOK
<1>2. /\ phase' \in [Transfers -> {"new", "invited", "accepted", "asked", "ready", "closed"}]
      /\ phase'[t] = x /\ \A u \in Transfers : u # t => phase'[u] = phase[u]
  BY <1>1 DEF GoesOn
<1>3. /\ lastId' \in [Transfers -> Nat]
      /\ lastId'[t] = y /\ \A u \in Transfers : u # t => lastId'[u] = lastId[u]
  BY <1>1 DEF GoesOn
<1>4. /\ sent' \in [Transfers -> 0 .. Chunks]
      /\ sent'[t] = z /\ \A u \in Transfers : u # t => sent'[u] = sent[u]
  BY <1>1 DEF GoesOn
<1>5. PICK ms : ms = <<m>>
  OBVIOUS
<1>6. ms \in Seq(Messages) /\ \A j \in DOMAIN ms : ms[j].t = t
  BY <1>5
<1>7. PeerStep(t, ms)
  BY <1>2, <1>3, <1>4, <1>5, <1>6 DEF PeerStep, GoesOn
<1> QED
  BY <1>2, <1>3, <1>4, <1>5, <1>7

\* What is left to show of such a step.
LEMMA OneMessageKeeps ==
  ASSUME IInv, NEW t \in Transfers, NEW m \in Messages, m.t = t, PeerStep(t, <<m>>), phase[t] # "new",
         Paced(t)', Fits(m)', m.isEmpty \/ ~In(t, {"BYE"}),
         \A n \in DOMAIN wire : wire[n].t = t /\ ~wire[n].isEmpty =>
           /\ IsPart(wire[n]) \/ phase'[t] = phase[t] \/ phase'[t] = "closed"
           /\ InOrder(wire[n], m),
         ~m.isEmpty => lastId[t] <= m.id /\ (m.step = "BYE" => lastId[t] < m.id),
         Room', answers' = answers \/ (answers # <<>> /\ answers' = Tail(answers)),
         IsData(m, t) => m.nr = sent[t] + 1,
         \/ sent'[t] = sent[t]
         \/ sent'[t] = sent[t] + 1 /\ IsData(m, t)
  PROVE  IInv'
<1>1. PICK ms : ms = <<m>>
  OBVIOUS
<1>2. DOMAIN ms = {1} /\ ms[1] = m
  BY <1>1
<1>3. PeerStep(t, ms)
  BY <1>1
<1>4. \A u : Kept(u)
  BY ClientStays, SameIsKept DEF PeerStep
<1>5. ASSUME NEW n \in DOMAIN wire, wire[n].t = t PROVE Fits(wire[n])' /\ InOrder(wire[n], m)
  <2>1. PICK a \in Messages : a = wire[n]
    BY MessageTypes DEF IInv
  <2>2. Fits(a)
    BY <2>1 DEF IInv, Script
  <2>3. a.isEmpty \/ IsPart(a) \/ phase'[t] = phase[t] \/ phase'[t] = "closed"
    BY <1>5, <2>1
  <2>4. /\ phase'[t] # "new" /\ lastId[t] <= lastId'[t] /\ sent[t] <= sent'[t]
        /\ lastId[t] \in Nat /\ lastId'[t] \in Nat /\ sent[t] \in Nat /\ sent'[t] \in Nat
    BY OtherTypes, Constants DEF IInv, PeerStep
  <2>5. Fits(a)'
    BY <1>4, <1>5, <2>1, <2>2, <2>3, <2>4, FitsGrown
  <2>6. Fits(wire[n])'
    <3>1. wire'[n] = wire[n]
      BY <1>3, WireGrows DEF IInv
    <3> QED
      BY <2>1, <2>5, <3>1
  <2>7. InOrder(wire[n], m)
    BY <1>5 DEF InOrder
  <2> QED
    BY <2>6, <2>7
<1>6. Script'
  BY <1>5, OneMoreMessage DEF IInv
<1>7. Numbers'
  BY <1>2, <1>3, PeerNumbers DEF IInv
<1>8. Told'
  BY <1>3, PeerTold DEF IInv
<1>9. Data'
  BY <1>2, <1>3, PeerData DEF IInv
<1> QED
  BY <1>3, <1>6, <1>7, <1>8, <1>9, PeerKeeps

\* What the state is of a transfer the peer was told has a destination.
LEMMA AcceptedFile ==
  ASSUME IInv, NEW t \in Transfers, Accepted(t)
  PROVE  \E tr \in DOMAIN transfers :
           transfers[tr].of = t /\ transfers[tr].hasDestination /\ transfers[tr].step # "INVITATION"
<1>1. PICK tr \in DOMAIN transfers : transfers[tr].of = t /\ transfers[tr].hasDestination
  BY DEF Accepted
<1>2. transfers[tr].step # "INVITATION"
  BY <1>1, Destination DEF IInv
<1> QED
  BY <1>1, <1>2

\* The identifiers after the next one.
LEMMA NextId ==
  ASSUME IInv, NEW t \in Transfers
  PROVE  /\ lastId[t] \in Nat /\ lastId[t] + 1 \in Nat /\ lastId[t] <= lastId[t] + 1
         /\ Base[t] < lastId[t] + 1 /\ lastId[t] < lastId[t] + 1
         /\ sent[t] \in 0 .. Chunks /\ sent[t] <= sent[t] /\ sent[t] \in Nat
         /\ answers \in Seq(AnswerRecord)
         /\ sent = [sent EXCEPT ![t] = sent[t]]
<1>1. sent \in [Transfers -> 0 .. Chunks] /\ answers \in Seq(AnswerRecord)
  BY DEF IInv, Types, TypeOK, AnswerRecord, AnswerKinds
<1>2. PICK b, l \in Nat : b = Base[t] /\ l = lastId[t] /\ b <= l
  BY RoomLeft DEF IInv
<1>3. l + 1 \in Nat /\ l <= l + 1 /\ b < l + 1 /\ l < l + 1
  BY <1>2
<1>4. sent[t] \in 0 .. Chunks /\ sent[t] \in Nat
  BY <1>1, Constants
<1>5. sent = [sent EXCEPT ![t] = sent[t]]
  BY <1>1
<1> QED
  BY <1>1, <1>2, <1>3, <1>4, <1>5

\* The peer asks for a channel.
LEMMA AsksKeeps ==
  ASSUME IInv, NEW t \in Transfers, PeerAsksForChannel(t)
  PROVE  IInv'
<1>1. /\ phase[t] = "accepted" /\ Kind[t] = "FILE"
      /\ phase' = [phase EXCEPT ![t] = "asked"] /\ lastId' = [lastId EXCEPT ![t] = @ + 1]
      /\ wire' = wire \o <<Message(t, lastId'[t], "transreqbody", 1, 1)>>
      /\ UNCHANGED <<sent, answers, chat, signals, application, files>>
  BY DEF PeerAsksForChannel, SendMessages
<1>2. lastId'[t] = lastId[t] + 1
  BY <1>1 DEF IInv, Types, TypeOK
<1>3. PICK m \in Messages : /\ m = Message(t, lastId'[t], "transreqbody", 1, 1)
                            /\ m.t = t /\ m.id = lastId[t] + 1 /\ m.step = "NEGOTIATION"
                            /\ m.isFinished /\ ~m.isEmpty
  <2>1. parse("transreqbody") = "NEGOTIATION"
    BY DEF parse
  <2>2. PICK id \in Nat : id = lastId'[t]
    BY <1>2, NextId
  <2> QED
    BY <1>2, <2>1, <2>2, MessageMade
<1>4. PeerStep(t, <<m>>) /\ phase'[t] = "asked" /\ sent'[t] = sent[t]
  <2>1. PICK y \in Nat, z \in 0 .. Chunks : y = lastId[t] + 1 /\ lastId[t] <= y /\ z = sent[t] /\ sent[t] <= z
    BY NextId
  <2>2. lastId' = [lastId EXCEPT ![t] = y] /\ sent' = [sent EXCEPT ![t] = z]
    BY <1>1, <2>1, NextId
  <2>3. wire' = wire \o <<m>>
    BY <1>1, <1>3
  <2>4. answers' \in Seq(AnswerRecord) /\ UNCHANGED <<chat, signals, application, files>>
    BY <1>1, NextId
  <2>5. GoesOn(t, m, "asked", y, z)
    BY <1>1, <2>1, <2>2, <2>3, <2>4 DEF GoesOn
  <2> QED
    BY <1>3, <2>1, <2>5, OneMessageStep DEF IInv
<1>5. Accepted(t) /\ ~In(t, {"TRANSFER"}) /\ ~In(t, {"BYE"}) /\ sent[t] = 0
  BY <1>1 DEF IInv, Pace, Paced
<1>6. In(t, {"NEGOTIATION"}) /\ In(t, {"NEGOTIATION", "TRANSFER", "BYE"})
  <2>1. PICK tr \in DOMAIN transfers : transfers[tr].of = t /\ transfers[tr].step # "INVITATION"
    BY <1>5, AcceptedFile
  <2>2. transfers[tr].step \in {"INVITATION", "NEGOTIATION", "TRANSFER", "BYE"}
    BY DEF IInv, Objects
  <2>3. transfers[tr].step = "NEGOTIATION"
    BY <1>5, <2>1, <2>2 DEF In
  <2> QED
    BY <2>1, <2>3 DEF In
<1>7. Kept(t)
  BY <1>4, ClientStays, SameIsKept DEF PeerStep
<1>8. Paced(t)'
  BY <1>1, <1>4, <1>5, <1>7 DEF Paced, IInv, Pace, Kept
<1>9. Fits(m)'
  <2>1. RequestFits(m)'
    BY <1>1, <1>3, <1>4, <1>5, <1>6, <1>7 DEF RequestFits, Kept
  <2>2. Base[t] < m.id /\ m.id <= lastId'[t]
    BY <1>2, <1>3, NextId
  <2> QED
    BY <1>3, <1>4, <2>1, <2>2 DEF Fits, IsPart
<1>10. ASSUME NEW n \in DOMAIN wire, wire[n].t = t PROVE wire[n].isEmpty
  <2>1. Fits(wire[n]) /\ wire[n].step \in Steps
    BY MessageTypes DEF IInv, Script
  <2>2. PICK a : a = wire[n] /\ a.t = t
    BY <1>10
  <2>3. ~a.isEmpty => ~IsPart(a) /\ a.step # "NEGOTIATION" /\ a.step # "TRANSFER" /\ a.step # "BYE"
    BY <1>1, <1>6, <2>1, <2>2 DEF Fits, PartFits, RequestFits, DataFits, ByeFits
  <2> QED
    BY <2>1, <2>2, <2>3 DEF IsPart, Steps
<1>11. Room'
  <2>1. \A u, kind : Waiting(u, kind)' = Waiting(u, kind)
    BY <1>1 DEF Waiting
  <2>2. AnswersToCome(t)' = AnswersToCome(t)
    BY <1>4, ClientStays DEF AnswersToCome, Same, PeerStep
  <2>3. OwnSteps(t)' + 1 <= OwnSteps(t)
    BY <1>1, <1>4 DEF OwnSteps, One
  <2>4. lastId'[t] + Needed(t)' <= lastId[t] + Needed(t)
    BY <1>2, <2>1, <2>2, <2>3, NeededFalls DEF IInv
  <2> QED
    BY <1>4, <2>1, <2>4, PeerRoom DEF IInv
<1>12. ~IsData(m, t)
  BY <1>3 DEF IsData
<1>13. lastId[t] <= m.id
  BY <1>3, NextId
<1> QED
  BY <1>1, <1>3, <1>4, <1>5, <1>8, <1>9, <1>10, <1>11, <1>12, <1>13, OneMessageKeeps

\* The peer sends a piece of the data.
LEMMA SendsKeeps ==
  ASSUME IInv, NEW t \in Transfers, PeerSendsChunk(t)
  PROVE  IInv'
<1> DEFINE next == IF sent[t] = 0 THEN lastId[t] + 1 ELSE lastId[t]
<1>1. /\ phase[t] = "ready" /\ sent[t] < Chunks
      /\ sent' = [sent EXCEPT ![t] = @ + 1] /\ lastId' = [lastId EXCEPT ![t] = next]
      /\ wire' = wire \o <<Message(t, lastId'[t], "data", sent'[t], Chunks)>>
      /\ UNCHANGED <<phase, answers, chat, signals, application, files>>
  BY DEF PeerSendsChunk, SendMessages
<1>2. lastId'[t] = next /\ sent'[t] = sent[t] + 1
  BY <1>1 DEF IInv, Types, TypeOK
<1>3. PICK y \in Nat, s \in Nat, l \in Nat : /\ y = next /\ s = sent[t] /\ l = lastId[t]
                                             /\ l <= y /\ y = IF s = 0 THEN l + 1 ELSE l
  BY NextId
<1>4. s < Chunks /\ s + 1 \in 0 .. Chunks /\ s + 1 \in Nat /\ s <= s + 1
  BY <1>1, <1>3, Constants
<1>5. PICK m \in Messages : /\ m = Message(t, lastId'[t], "data", sent'[t], Chunks)
                            /\ m.t = t /\ m.id = y /\ m.step = "TRANSFER" /\ m.nr = s + 1
                            /\ (m.isFinished <=> m.nr = Chunks) /\ ~m.isEmpty
  <2>1. parse("data") = "TRANSFER"
    BY DEF parse
  <2>2. PICK nr \in Nat : nr = s + 1
    BY <1>4
  <2> QED
    BY <1>2, <1>3, <2>1, <2>2, MessageMade
<1>6. PeerStep(t, <<m>>) /\ phase'[t] = "ready" /\ lastId'[t] = y /\ sent'[t] = s + 1
  <2>1. lastId' = [lastId EXCEPT ![t] = y] /\ sent' = [sent EXCEPT ![t] = s + 1]
        /\ answers' \in Seq(AnswerRecord)
    BY <1>1, <1>3, NextId
  <2>2. phase' = [phase EXCEPT ![t] = "ready"]
    BY <1>1 DEF IInv, Types, TypeOK
  <2>3. wire' = wire \o <<m>> /\ UNCHANGED <<chat, signals, application, files>>
    BY <1>1, <1>5
  <2>4. PICK z \in 0 .. Chunks : z = s + 1 /\ sent[t] <= z
    BY <1>3, <1>4
  <2>5. GoesOn(t, m, "ready", y, z)
    BY <1>3, <2>1, <2>2, <2>3, <2>4 DEF GoesOn
  <2> QED
    BY <1>3, <1>5, <2>4, <2>5, OneMessageStep DEF IInv
<1>7. In(t, {"TRANSFER"}) /\ ~In(t, {"BYE"}) /\ Kind[t] = "FILE" /\ Accepted(t)
  BY <1>1 DEF IInv, Pace, Paced
<1>8. PICK tr \in DOMAIN transfers : transfers[tr].of = t /\ transfers[tr].step = "TRANSFER"
  BY <1>7 DEF In
<1>9. Kept(t)
  BY <1>6, ClientStays, SameIsKept DEF PeerStep
<1>10. Paced(t)'
  BY <1>6, <1>7, <1>9 DEF Paced, Kept
<1>11. Base[t] < y
  <2>1. PICK k \in DOMAIN FTList : FTList[k] = tr
    BY <1>8, Listing DEF IInv
  <2>2. k \in Nat /\ Base[t] < k /\ k <= lastId[t]
    BY <1>8, <2>1, EntryTypes DEF IInv, Numbers
  <2>3. PICK b \in Nat : b = Base[t]
    BY RoomLeft DEF IInv
  <2>4. b < k /\ k <= l
    BY <1>3, <2>2, <2>3
  <2>5. b < y
    BY <1>3, <2>2, <2>4
  <2> QED
    BY <2>3, <2>5
<1>12. Fits(m)'
  <2>1. m.nr \in 1 .. sent'[t]
    BY <1>4, <1>5, <1>6
  <2>2. DataFits(m)'
    BY <1>5, <1>6, <1>7, <1>9, <2>1 DEF DataFits, Kept
  <2> QED
    BY <1>3, <1>5, <1>6, <1>11, <2>2 DEF Fits, IsPart
<1>13. ASSUME NEW n \in DOMAIN wire, wire[n].t = t, ~wire[n].isEmpty
       PROVE  InOrder(wire[n], m)
  <2>1. PICK a \in Messages : a = wire[n] /\ a.t = t /\ ~a.isEmpty /\ a.id \in Nat /\ a.nr \in Nat /\ a.step \in Steps
    BY <1>13, MessageTypes DEF IInv
  <2>2. Fits(a)
    BY <2>1 DEF IInv, Script
  <2>3. In(t, {"NEGOTIATION", "TRANSFER", "BYE"})
    BY <1>8 DEF In
  <2>4. ~IsPart(a) /\ a.step # "NEGOTIATION" /\ a.step # "BYE"
    BY <1>1, <2>1, <2>2, <2>3 DEF Fits, PartFits, RequestFits, ByeFits
  <2>5. a.step = "TRANSFER" => a.nr \in 1 .. s
    BY <1>3, <2>1, <2>2 DEF Fits, DataFits
  <2>6. a.id <= l
    BY <1>3, <2>1, <2>2 DEF Fits
  <2>7. a.id <= m.id
    BY <1>3, <1>5, <2>1, <2>6
  <2>8. a.step = "TRANSFER" => a.nr < m.nr
    BY <1>3, <1>5, <2>1, <2>5
  <2> QED
    BY <1>5, <2>1, <2>4, <2>7, <2>8 DEF InOrder
<1>14. Room'
  <2>1. \A u, kind : Waiting(u, kind)' = Waiting(u, kind)
    BY <1>1 DEF Waiting
  <2>2. AnswersToCome(t)' = AnswersToCome(t)
    BY <1>6, ClientStays DEF AnswersToCome, Same, PeerStep
  <2>3. PICK d \in {0, 1} : d = IF s = 0 THEN 1 ELSE 0
    OBVIOUS
  <2>4. OwnSteps(t)' + d <= OwnSteps(t)
    BY <1>1, <1>3, <1>6, <1>7, <2>3 DEF OwnSteps, One
  <2>5. lastId'[t] = lastId[t] + d
    BY <1>3, <1>6, <2>3
  <2>6. lastId'[t] + Needed(t)' <= lastId[t] + Needed(t)
    BY <2>1, <2>2, <2>4, <2>5, NeededFalls DEF IInv
  <2> QED
    BY <1>6, <2>1, <2>6, PeerRoom DEF IInv
<1>15. IsData(m, t) /\ m.nr = sent[t] + 1 /\ sent'[t] = sent[t] + 1
  BY <1>3, <1>5, <1>6 DEF IsData
<1>16. lastId[t] <= m.id /\ m.step # "BYE"
  BY <1>3, <1>5
<1>17. phase[t] # "new" /\ phase'[t] = phase[t]
  BY <1>1, <1>6
<1>18. answers' = answers
  BY <1>1
<1> QED
  BY <1>5, <1>6, <1>7, <1>10, <1>12, <1>13, <1>14, <1>15, <1>16, <1>17, <1>18, OneMessageKeeps

\* The peer ends a transfer, or gives it up.
LEMMA EndsKeeps ==
  ASSUME IInv, NEW t \in Transfers, PeerEnds(t)
  PROVE  IInv'
<1>1. /\ phase[t] \notin {"new", "closed"}
      /\ phase' = [phase EXCEPT ![t] = "closed"] /\ lastId' = [lastId EXCEPT ![t] = @ + 1]
      /\ wire' = wire \o <<Message(t, lastId'[t], "sessionclosebody", 1, 1)>>
      /\ UNCHANGED <<sent, answers, chat, signals, application, files>>
  BY DEF PeerEnds, SendMessages
<1>2. lastId'[t] = lastId[t] + 1
  BY <1>1 DEF IInv, Types, TypeOK
<1>3. PICK m \in Messages : /\ m = Message(t, lastId'[t], "sessionclosebody", 1, 1)
                            /\ m.t = t /\ m.id = lastId[t] + 1 /\ m.step = "BYE"
                            /\ m.isFinished /\ ~m.isEmpty
  <2>1. parse("sessionclosebody") = "BYE"
    BY DEF parse
  <2>2. PICK id \in Nat : id = lastId'[t]
    BY <1>2, NextId
  <2> QED
    BY <1>2, <2>1, <2>2, MessageMade
<1>4. PeerStep(t, <<m>>) /\ phase'[t] = "closed" /\ sent'[t] = sent[t]
  <2>1. PICK y \in Nat, z \in 0 .. Chunks : y = lastId[t] + 1 /\ lastId[t] <= y /\ z = sent[t] /\ sent[t] <= z
    BY NextId
  <2>2. lastId' = [lastId EXCEPT ![t] = y] /\ sent' = [sent EXCEPT ![t] = z]
    BY <1>1, <2>1, NextId
  <2>3. wire' = wire \o <<m>>
    BY <1>1, <1>3
  <2>4. answers' \in Seq(AnswerRecord) /\ UNCHANGED <<chat, signals, application, files>>
    BY <1>1, NextId
  <2>5. GoesOn(t, m, "closed", y, z)
    BY <1>1, <2>1, <2>2, <2>3, <2>4 DEF GoesOn
  <2> QED
    BY <1>3, <2>1, <2>5, OneMessageStep DEF IInv
<1>5. ~In(t, {"BYE"})
  BY <1>1 DEF IInv, Pace, Paced
<1>6. Kept(t)
  BY <1>4, ClientStays, SameIsKept DEF PeerStep
<1>7. Paced(t)'
  BY <1>1, <1>4, <1>6 DEF Paced, IInv, Pace, Kept
<1>8. Fits(m)'
  <2>1. ByeFits(m)'
    BY <1>3, <1>4, <1>5, <1>6 DEF ByeFits, Kept
  <2>2. Base[t] < m.id /\ m.id <= lastId'[t]
    BY <1>2, <1>3, NextId
  <2> QED
    BY <1>3, <1>4, <2>1, <2>2 DEF Fits, IsPart
<1>9. ASSUME NEW n \in DOMAIN wire, wire[n].t = t, ~wire[n].isEmpty
      PROVE  InOrder(wire[n], m)
  <2>1. PICK a \in Messages, l \in Nat : a = wire[n] /\ a.t = t /\ ~a.isEmpty /\ a.id \in Nat /\ l = lastId[t]
    BY <1>9, MessageTypes, NextId DEF IInv
  <2>2. Fits(a)
    BY <2>1 DEF IInv, Script
  <2>3. a.step # "BYE"
    BY <1>1, <2>1, <2>2 DEF Fits, ByeFits
  <2>4. a.id <= l
    BY <2>1, <2>2 DEF Fits
  <2>5. a.id < m.id /\ a.id <= m.id
    BY <1>3, <2>1, <2>4
  <2> QED
    BY <1>3, <2>1, <2>3, <2>5 DEF InOrder, IsPart
<1>10. Room'
  <2>1. \A u, kind : Waiting(u, kind)' = Waiting(u, kind)
    BY <1>1 DEF Waiting
  <2>2. AnswersToCome(t)' = AnswersToCome(t)
    BY <1>4, ClientStays DEF AnswersToCome, Same, PeerStep
  <2>3. OwnSteps(t)' + 1 <= OwnSteps(t)
    BY <1>1, <1>4 DEF OwnSteps, One
  <2>4. lastId'[t] + Needed(t)' <= lastId[t] + Needed(t)
    BY <1>2, <2>1, <2>2, <2>3, NeededFalls DEF IInv
  <2> QED
    BY <1>4, <2>1, <2>4, PeerRoom DEF IInv
<1>11. ~IsData(m, t)
  BY <1>3 DEF IsData
<1>12. lastId[t] <= m.id /\ lastId[t] < m.id
  BY <1>3, NextId
<1> QED
  BY <1>1, <1>3, <1>4, <1>5, <1>7, <1>8, <1>9, <1>10, <1>11, <1>12, OneMessageKeeps

\* How the peer goes on with an answer.
TakesKeepsPhase(a, x) ==
  x = CASE a.kind = "200OK" /\ phase[a.t] = "invited" -> "accepted"
        [] a.kind = "200OK NEGOTIATION" /\ phase[a.t] = "asked" -> "ready"
        [] OTHER -> phase[a.t]

\* The peer takes an answer, and acknowledges it.
LEMMA TakesKeeps ==
  ASSUME IInv, PeerTakesAnswer
  PROVE  IInv'
<1>1. /\ Len(answers) \in Nat /\ answers # <<>> /\ answers' = Tail(answers) /\ Tail(answers) \in Seq(AnswerRecord)
      /\ 1 \in DOMAIN answers /\ Head(answers) = answers[1] /\ Head(answers) \in AnswerRecord
  <2>1. answers # <<>> /\ answers' = Tail(answers) /\ answers \in Seq(AnswerRecord)
    BY Sizes DEF PeerTakesAnswer, IInv
  <2>2. /\ Len(answers) \in Nat /\ Len(answers) >= 1 /\ DOMAIN answers = 1 .. Len(answers)
        /\ Head(answers) = answers[1] /\ Head(answers) \in AnswerRecord
        /\ Tail(answers) \in Seq(AnswerRecord)
    BY <2>1, Taken
  <2> QED
    BY <2>1, <2>2
<1>2. PICK a \in AnswerRecord, t \in Transfers : /\ a = Head(answers) /\ t = a.t
                                                 /\ a.kind \in AnswerKinds
  BY <1>1 DEF AnswerRecord, AnswerKinds
<1>3. ToldOf(a)
  BY <1>1, <1>2 DEF IInv, Told
<1>4. /\ phase[t] \in {"invited", "accepted", "asked", "ready", "closed"}
      /\ phase[t] \in {"invited", "accepted"} => ~In(t, {"TRANSFER"})
      /\ phase[t] # "closed" => ~In(t, {"BYE"})
      /\ phase[t] \in {"new", "invited", "accepted", "asked"} => sent[t] = 0
  BY <1>2, <1>3, OtherTypes DEF ToldOf, IInv, Pace, Paced
<1>5. PICK x \in {"invited", "accepted", "asked", "ready", "closed"} : TakesKeepsPhase(a, x)
  BY <1>2, <1>4 DEF TakesKeepsPhase
<1>6. /\ phase' = [phase EXCEPT ![t] = x] /\ lastId' = [lastId EXCEPT ![t] = @ + 1]
      /\ wire' = wire \o <<Ack(t, lastId'[t])>>
      /\ UNCHANGED <<sent, chat, signals, application, files>>
  BY <1>2, <1>5 DEF PeerTakesAnswer, SendMessages, TakesKeepsPhase
<1>7. lastId'[t] = lastId[t] + 1
  BY <1>6 DEF IInv, Types, TypeOK
<1>8. PICK m \in Messages : m = Ack(t, lastId'[t]) /\ m.t = t /\ m.id = lastId[t] + 1 /\ m.isEmpty
  <2>1. PICK id \in Nat : id = lastId'[t]
    BY <1>7, NextId
  <2> QED
    BY <1>7, <2>1, AckMade
<1>9. PeerStep(t, <<m>>) /\ phase'[t] = x /\ sent'[t] = sent[t]
  <2>1. PICK y \in Nat, z \in 0 .. Chunks : y = lastId[t] + 1 /\ lastId[t] <= y /\ z = sent[t] /\ sent[t] <= z
    BY NextId
  <2>2. lastId' = [lastId EXCEPT ![t] = y] /\ sent' = [sent EXCEPT ![t] = z]
    BY <1>6, <2>1, NextId
  <2>3. wire' = wire \o <<m>>
    BY <1>6, <1>8
  <2>4. answers' \in Seq(AnswerRecord) /\ UNCHANGED <<chat, signals, application, files>>
    BY <1>1, <1>6
  <2>5. GoesOn(t, m, x, y, z)
    BY <1>6, <2>1, <2>2, <2>3, <2>4 DEF GoesOn
  <2> QED
    BY <1>8, <2>1, <2>5, OneMessageStep DEF IInv
<1>10. Kept(t) /\ Same(t)
  BY <1>9, ClientStays, SameIsKept DEF PeerStep
<1>11. \/ x = phase[t]
       \/ /\ phase[t] = "invited" /\ x = "accepted" /\ (Kind[t] = "FILE" => Accepted(t))
       \/ /\ phase[t] = "asked" /\ x = "ready" /\ Kind[t] = "FILE" /\ Accepted(t)
          /\ In(t, {"TRANSFER"}) /\ ~In(t, {"NEGOTIATION"})
  <2>1. CASE a.kind = "200OK" /\ phase[t] = "invited"
    BY <1>2, <1>3, <1>5, <2>1 DEF TakesKeepsPhase, ToldOf
  <2>2. CASE a.kind = "200OK NEGOTIATION" /\ phase[t] = "asked"
    <3>1. x = "ready" /\ Kind[t] = "FILE" /\ Accepted(t) /\ In(t, {"TRANSFER", "BYE"}) /\ ~In(t, {"BYE"})
      BY <1>2, <1>3, <1>4, <1>5, <2>2 DEF TakesKeepsPhase, ToldOf
    <3>2. PICK tr \in DOMAIN transfers : transfers[tr].of = t /\ transfers[tr].step \in {"TRANSFER", "BYE"}
      BY <3>1 DEF In
    <3>3. transfers[tr].step = "TRANSFER"
      BY <3>1, <3>2 DEF In
    <3>4. In(t, {"TRANSFER"}) /\ ~In(t, {"NEGOTIATION"})
      BY <3>2, <3>3, OneObject DEF IInv
    <3> QED
      BY <2>2, <3>1, <3>4
  <2>3. CASE ~(a.kind = "200OK" /\ phase[t] = "invited") /\ ~(a.kind = "200OK NEGOTIATION" /\ phase[t] = "asked")
    BY <1>2, <1>5, <2>3 DEF TakesKeepsPhase
  <2> QED
    BY <2>1, <2>2, <2>3
<1>12. Paced(t)'
  <2>1. Paced(t)
    BY DEF IInv, Pace
  <2> QED
    BY <1>4, <1>9, <1>10, <1>11, <2>1 DEF Paced, Kept
<1>13. Fits(m)'
  <2>1. Base[t] < m.id /\ m.id <= lastId'[t]
    BY <1>7, <1>8, NextId
  <2> QED
    BY <1>8, <1>9, <2>1 DEF Fits, IsPart
<1>14. ASSUME NEW n \in DOMAIN wire, wire[n].t = t, ~wire[n].isEmpty
       PROVE  IsPart(wire[n]) \/ phase'[t] = phase[t]
  <2>1. PICK b \in Messages : b = wire[n] /\ b.t = t /\ ~b.isEmpty /\ b.step \in Steps
    BY <1>14, MessageTypes DEF IInv
  <2>2. Fits(b)
    BY <2>1 DEF IInv, Script
  <2>3. phase[t] \in {"invited", "asked"} => b.step # "TRANSFER" /\ b.step # "BYE"
    BY <2>1, <2>2 DEF Fits, DataFits, ByeFits
  <2>4. (phase[t] # "asked" /\ phase[t] # "closed") \/ ~In(t, {"NEGOTIATION"}) => b.step # "NEGOTIATION"
    BY <2>1, <2>2 DEF Fits, RequestFits
  <2> QED
    BY <1>9, <1>11, <2>1, <2>3, <2>4 DEF IsPart, Steps
<1>15. \A n \in DOMAIN wire : InOrder(wire[n], m)
  BY <1>8 DEF InOrder
<1>16. Room'
  <2>1. ASSUME NEW u \in Transfers, NEW kind \in AnswerKinds
        PROVE  Waiting(u, kind) = Waiting(u, kind)' + (IF u = t /\ kind = a.kind THEN 1 ELSE 0)
    <3>1. PICK v : v = [t |-> u, kind |-> kind]
      OBVIOUS
    <3>2. Cardinality(Places(answers, v)) = Cardinality(Places(Tail(answers), v)) + (IF Head(answers) = v THEN 1 ELSE 0)
      BY <1>1, PlacesTaken, Sizes DEF IInv
    <3>3. Head(answers) = v <=> u = t /\ kind = a.kind
      <4>1. a = [t |-> a.t, kind |-> a.kind]
        BY DEF AnswerRecord
      <4>2. v.t = u /\ v.kind = kind
        BY <3>1
      <4> QED
        BY <1>2, <3>1, <4>1, <4>2
    <3> QED
      BY <1>1, <3>1, <3>2, <3>3 DEF Waiting
  <2>2. AnswersToCome(t)' = AnswersToCome(t)
    BY <1>10 DEF AnswersToCome, Same
  <2>3. OwnSteps(t)' = OwnSteps(t)
    BY <1>4, <1>9, <1>11 DEF OwnSteps, One
  <2>4. lastId'[t] + Needed(t)' <= lastId[t] + Needed(t)
    <3>1. PICK c1, c2, c3, d1, d2, d3, e, o, l \in Nat :
            /\ c1 = Waiting(t, "200OK") /\ c2 = Waiting(t, "200OK NEGOTIATION") /\ c3 = Waiting(t, "PREPARATION")
            /\ d1 = Waiting(t, "200OK")' /\ d2 = Waiting(t, "200OK NEGOTIATION")'
            /\ d3 = Waiting(t, "PREPARATION")' /\ e = AnswersToCome(t) /\ o = OwnSteps(t) /\ l = lastId[t]
      BY <1>1, NeededParts, NextId
    <3>2. /\ c1 = d1 + (IF a.kind = "200OK" THEN 1 ELSE 0)
          /\ c2 = d2 + (IF a.kind = "200OK NEGOTIATION" THEN 1 ELSE 0)
          /\ c3 = d3 + (IF a.kind = "PREPARATION" THEN 1 ELSE 0)
      BY <2>1, <3>1 DEF AnswerKinds
    <3>6. c1 + c2 + c3 = d1 + d2 + d3 + 1
      <4>1. CASE a.kind = "200OK"
        BY <3>2, <4>1
      <4>2. CASE a.kind = "200OK NEGOTIATION"
        <5>1. a.kind # "200OK" /\ a.kind # "PREPARATION"
          BY <4>2
        <5>2. c1 = d1 + 0
          BY <3>2, <5>1
        <5>3. c3 = d3 + 0
          BY <3>2, <5>1
        <5>4. c2 = d2 + 1
          BY <3>2, <4>2
        <5> QED
          BY <5>2, <5>3, <5>4
      <4>3. CASE a.kind = "PREPARATION"
        BY <3>2, <4>3
      <4> QED
        BY <1>2, <4>1, <4>2, <4>3 DEF AnswerKinds
    <3>3. (l + 1) + (d1 + d2 + d3 + o + e) <= l + (c1 + c2 + c3 + o + e)
      BY <3>6
    <3>4. Needed(t) = c1 + c2 + c3 + o + e
      BY <3>1 DEF Needed
    <3>5. Needed(t)' = d1 + d2 + d3 + o + e
      BY <2>2, <2>3, <3>1 DEF Needed
    <3> QED
      BY <1>7, <3>1, <3>3, <3>4, <3>5
  <2>5. ASSUME NEW u \in Transfers, u # t, NEW kind \in AnswerKinds PROVE Waiting(u, kind)' = Waiting(u, kind)
    <3>1. PICK c, d \in Nat : c = Waiting(u, kind) /\ d = Waiting(u, kind)'
      BY <1>1, NeededParts, NextId
    <3>2. c = d + 0
      BY <2>1, <2>5, <3>1
    <3> QED
      BY <3>1, <3>2
  <2> QED
    BY <1>9, <2>4, <2>5, PeerRoom DEF IInv
<1>17. ~IsData(m, t)
  BY <1>8 DEF IsData
<1> QED
  BY <1>1, <1>4, <1>8, <1>9, <1>12, <1>13, <1>14, <1>15, <1>16, <1>17, OneMessageKeeps

-----------------------------------------------------------------------------
(* Which transfer a message is taken to belong to *)

\* Entry k of the list moves to id.
EntryMoves(list, k, id) ==
  /\ list \in [DOMAIN list -> DOMAIN transfers]
  /\ DOMAIN list = (DOMAIN FTList \ {k}) \union {id}
  /\ list[id] = FTList[k]
  /\ \A j \in DOMAIN FTList \ {k} : j # id /\ list[j] = FTList[j]

\* The Transfer with index tr takes a step.
Restepped(objects, tr, step) ==
  /\ objects \in Seq(Record) /\ DOMAIN objects = DOMAIN transfers
  /\ \A ur \in DOMAIN transfers : ur # tr => objects[ur] = transfers[ur]
  /\ objects[tr].of = transfers[tr].of /\ objects[tr].ftId = transfers[tr].ftId
  /\ objects[tr].p2pType = transfers[tr].p2pType
  /\ objects[tr].hasDestination = transfers[tr].hasDestination
  /\ objects[tr].hasTransfered = transfers[tr].hasTransfered
  /\ objects[tr].step = step

\* What the first message on its way can be.
LEMMA HeadOfWire ==
  ASSUME IInv, wire # <<>>, NEW m, m = Head(wire)
  PROVE  /\ 1 \in DOMAIN wire /\ wire[1] = m /\ m \in Messages /\ Fits(m)
         /\ m.t \in Transfers /\ m.id \in Nat /\ m.nr \in Nat /\ m.step \in Steps
         /\ m.id \in Interval(m.t)
<1>1. wire \in Seq(Messages)
  BY Sizes DEF IInv
<1>2. 1 \in DOMAIN wire /\ wire[1] = m
  <2>1. Len(wire) \in Nat /\ Len(wire) >= 1 /\ DOMAIN wire = 1 .. Len(wire) /\ Head(wire) = wire[1]
    BY <1>1, Taken
  <2> QED
    BY <2>1
<1>3. /\ m \in Messages /\ m.t \in Transfers /\ m.id \in Nat /\ m.nr \in Nat /\ m.step \in Steps
  BY <1>2, MessageTypes DEF IInv
<1>4. Fits(m)
  BY <1>2 DEF IInv, Script
<1>5. Base[m.t] < m.id /\ m.id <= lastId[m.t]
  BY <1>4 DEF Fits
<1>6. m.id \in Interval(m.t)
  BY <1>3, <1>5, InRange DEF IInv
<1> QED
  BY <1>2, <1>3, <1>4, <1>6

\* An entry lies in the interval of its transfer.
LEMMA EntryInRange ==
  ASSUME IInv, NEW k \in DOMAIN FTList, NEW u, u = transfers[FTList[k]].of
  PROVE  u \in Transfers /\ k \in Nat /\ k \in Interval(u)
<1>1. FTList[k] \in DOMAIN transfers /\ k \in Nat
  BY EntryTypes DEF IInv
<1>2. u \in Transfers
  BY <1>1, RecordTypes DEF IInv
<1>3. Base[u] < k /\ k <= lastId[u]
  BY DEF IInv, Numbers
<1>4. k \in Interval(u)
  BY <1>1, <1>2, <1>3, InRange DEF IInv
<1> QED
  BY <1>1, <1>2, <1>4

\* The first message of an invitation finds nothing, and creates its Transfer.
LEMMA FindsFirst ==
  ASSUME IInv, IdsFit, wire # <<>>, NEW m, m = Head(wire), ~m.isEmpty, m.step = "INVITATION"
  PROVE  /\ byte2int(m.id) = m.id /\ m.id = Base[m.t] + 1 /\ ~Known(m.t)
         /\ m.id \notin DOMAIN FTList
         /\ Listed(m) = [k \in DOMAIN FTList \union {m.id} |-> IF k = m.id THEN Len(transfers) + 1 ELSE FTList[k]]
         /\ \A stale : Stepped(m, stale) = Append(transfers, Transfer(m.t, stale))
<1>1. byte2int(m.id) = m.id
  BY HeadOfWire, IdsAreRead
<1>2. m.id = Base[m.t] + 1 /\ ~Known(m.t)
  BY HeadOfWire DEF Fits, IsPart, PartFits
<1>3. m.id \notin DOMAIN FTList
  <2> SUFFICES ASSUME m.id \in DOMAIN FTList PROVE FALSE
    OBVIOUS
  <2>1. PICK u : u = transfers[FTList[m.id]].of
    OBVIOUS
  <2>2. u \in Transfers /\ m.id \in Interval(u) /\ FTList[m.id] \in DOMAIN transfers
    BY <2>1, EntryInRange, EntryTypes DEF IInv
  <2>3. u # m.t
    BY <1>2, <2>1, <2>2 DEF Known
  <2> QED
    BY <2>2, <2>3, HeadOfWire, Apart
<1>4. IsNew(m) /\ ~IsMoved(m)
  BY <1>1, <1>3 DEF IsNew, IsMoved
<1>5. Listed(m) = [k \in DOMAIN FTList \union {m.id} |-> IF k = m.id THEN Len(transfers) + 1 ELSE FTList[k]]
  BY <1>1, <1>4 DEF Listed
<1>6. \A stale : Stepped(m, stale) = Append(transfers, Transfer(m.t, stale))
  BY <1>4 DEF Stepped
<1> QED
  BY <1>1, <1>2, <1>3, <1>5, <1>6

\* The step a Transfer is in when parseMsg goes on with a message that is not its first.
StepOf(m) == IF m.step = "NULL" THEN "INVITATION" ELSE m.step

\* Every other message finds the Transfer of its own transfer, which takes its step.
LEMMA FindsRest ==
  ASSUME IInv, IdsFit, wire # <<>>, NEW m, m = Head(wire), ~m.isEmpty, m.step # "INVITATION"
  PROVE  /\ byte2int(m.id) = m.id
         /\ \E k \in DOMAIN FTList :
              /\ transfers[FTList[k]].of = m.t
              /\ m.step # "BYE" => transfers[FTList[k]].step = StepOf(m)
              /\ transfers[FTList[k]].step # "BYE"
              /\ m.step = "NULL" => k = m.id
              /\ EntryMoves(Listed(m), k, m.id)
              /\ \A stale : Restepped(Stepped(m, stale), FTList[k], StepOf(m))
<1>1. byte2int(m.id) = m.id /\ m.id \in Nat /\ m.id <= SignBit
  BY HeadOfWire, IdsAreRead
<1>2. /\ 1 \in DOMAIN wire /\ wire[1] = m /\ m \in Messages /\ Fits(m) /\ m.t \in Transfers
      /\ m.step \in Steps /\ m.id \in Interval(m.t)
  BY HeadOfWire
<1>3. Known(m.t)
  <2>1. ASSUME ~Known(m.t) PROVE FALSE
    <3>1. \E i \in DOMAIN wire : i < 1 /\ IsFirst(wire[i], m.t)
      BY <1>2, <2>1 DEF IInv, Script
    <3>2. \A i \in DOMAIN wire : i \in Nat /\ i >= 1
      BY Sizes DEF IInv
    <3> QED
      BY <3>1, <3>2
  <2> QED
    BY <2>1
<1>4. PICK tr \in DOMAIN transfers : transfers[tr].of = m.t
  BY <1>3 DEF Known
<1>5. transfers[tr].step \in {"INVITATION", "NEGOTIATION", "TRANSFER"}
  <2>1. transfers[tr].step \in {"INVITATION", "NEGOTIATION", "TRANSFER", "BYE"}
    BY DEF IInv, Objects
  <2>2. transfers[tr].step # "BYE"
    <3>1. Coming(m.t)
      BY <1>2 DEF IInv, Script
    <3> QED
      BY <1>2, <1>4, <3>1 DEF Coming, In
  <2> QED
    BY <2>1, <2>2
<1>6. /\ m.step = "NULL" => transfers[tr].step = "INVITATION"
      /\ m.step = "NEGOTIATION" => transfers[tr].step = "NEGOTIATION"
      /\ m.step = "TRANSFER" => transfers[tr].step = "TRANSFER"
  <2>1. \A steps : In(m.t, steps) <=> transfers[tr].step \in steps
    BY <1>4, OneObject DEF IInv
  <2>2. m.step = "NULL" => ~In(m.t, {"NEGOTIATION", "TRANSFER", "BYE"})
    BY <1>2 DEF Fits, IsPart, PartFits
  <2>3. m.step = "NEGOTIATION" => In(m.t, {"NEGOTIATION"})
    BY <1>2 DEF Fits, RequestFits
  <2>4. m.step = "TRANSFER" => In(m.t, {"TRANSFER"})
    BY <1>2 DEF Fits, DataFits
  <2> QED
    BY <1>5, <2>1, <2>2, <2>3, <2>4
<1>7. PICK k \in DOMAIN FTList : FTList[k] = tr
  BY <1>5, Listing DEF IInv
<1>8. k \in Nat /\ k \in Interval(m.t)
  BY <1>4, <1>7, EntryInRange
<1>9. /\ k <= m.id /\ (m.step = "BYE" => k < m.id)
      /\ m.step = "NULL" => k = m.id
  <2>1. Follows(m, k) /\ (transfers[tr].step = "INVITATION" => k = Base[m.t] + 1)
    BY <1>2, <1>4, <1>7 DEF IInv, Numbers
  <2>2. m.step = "NULL" => m.id = Base[m.t] + 1
    BY <1>2 DEF Fits, IsPart, PartFits
  <2> QED
    BY <1>6, <2>1, <2>2 DEF Follows
\* The entries of other transfers are not under this identifier, nor between it and k.
<1>10. ASSUME NEW j \in DOMAIN FTList, j # k
       PROVE  j \in Nat /\ j # m.id /\ (k < j <=> m.id < j)
  <2>1. FTList[j] \in DOMAIN transfers /\ FTList[j] # tr
    BY <1>7, <1>10, EntryTypes DEF IInv, Objects
  <2>2. PICK u : u = transfers[FTList[j]].of
    OBVIOUS
  <2>3. u # m.t
    BY <1>4, <2>1, <2>2 DEF IInv, Objects
  <2>4. u \in Transfers /\ j \in Nat /\ j \in Interval(u)
    BY <2>2, EntryInRange
  <2> QED
    BY <1>2, <1>8, <2>3, <2>4, Apart
<1>11. EntryMoves(FTList, k, k)
  <2>1. FTList \in [DOMAIN FTList -> DOMAIN transfers]
    BY Sizes DEF IInv, Types, TypeOK
  <2>2. DOMAIN FTList = (DOMAIN FTList \ {k}) \union {k}
    OBVIOUS
  <2> QED
    BY <2>1, <2>2 DEF EntryMoves
<1>12. transfers \in Seq(Record) /\ transfers[tr] \in Record
  BY Sizes, RecordTypes DEF IInv
<1>13. CASE k = m.id
  <2>1. ~IsNew(m) /\ ~IsMoved(m)
    BY <1>1, <1>13 DEF IsNew, IsMoved
  <2>2. Listed(m) = FTList /\ \A stale : Stepped(m, stale) = transfers
    BY <2>1 DEF Listed, Stepped
  <2>3. m.step \in {"NULL", "NEGOTIATION", "TRANSFER"}
    <3>1. m.step # "BYE"
      BY <1>1, <1>8, <1>9, <1>13
    <3> QED
      BY <1>2, <3>1 DEF Steps
  <2>4. transfers[tr].step = StepOf(m)
    BY <1>6, <2>3 DEF StepOf
  <2>5. Restepped(transfers, tr, StepOf(m))
    BY <1>12, <2>4 DEF Restepped
  <2>6. EntryMoves(Listed(m), k, m.id)
    BY <1>11, <1>13, <2>2
  <2>7. \A stale : Restepped(Stepped(m, stale), FTList[k], StepOf(m))
    BY <1>7, <2>2, <2>5
  <2>8. m.step # "BYE" => transfers[FTList[k]].step = StepOf(m)
    BY <1>7, <2>4
  <2> QED
    BY <1>1, <1>4, <1>5, <1>7, <1>13, <2>6, <2>7, <2>8
<1>14. CASE k # m.id
  <2>1. k < m.id
    BY <1>1, <1>8, <1>9, <1>14
  <2>2. m.step \in {"NEGOTIATION", "TRANSFER", "BYE"}
    BY <1>2, <1>9, <1>14 DEF Steps
  <2>3. m.id \notin DOMAIN FTList
    BY <1>10, <1>14
  <2>4. DOMAIN FTList # {} /\ FTList # <<>>
    <3>1. DOMAIN <<>> = {}
      OBVIOUS
    <3> QED
      BY <3>1
  <2>5. IsNew(m) /\ IsMoved(m)
    BY <1>1, <2>2, <2>3, <2>4 DEF IsNew, IsMoved
  <2>6. Nearest(DOMAIN FTList, m.id) = k
    <3>1. DOMAIN FTList \subseteq Nat /\ SignBit \in Nat
      BY EntryTypes, Constants DEF IInv
    <3>2. \A j \in DOMAIN FTList : j <= SignBit
      <4> TAKE j \in DOMAIN FTList
      <4>1. PICK u : u = transfers[FTList[j]].of
        OBVIOUS
      <4>2. u \in Transfers /\ j \in Interval(u)
        BY <4>1, EntryInRange
      <4> QED
        BY <4>2, IdsAreRead
    <3>3. PICK n \in DOMAIN FTList : /\ n = Nearest(DOMAIN FTList, m.id)
                                     /\ n < m.id /\ k <= n
      BY <1>1, <2>1, <2>4, <3>1, <3>2, NearestFound
    <3>4. n = k
      <4>1. n \in Nat
        BY <3>1
      <4>2. ASSUME n # k PROVE FALSE
        <5>1. k < n
          BY <1>8, <3>3, <4>1, <4>2
        <5>2. m.id < n
          BY <1>10, <4>2, <5>1
        <5> QED
          BY <1>1, <3>3, <4>1, <5>2
      <4> QED
        BY <4>2
    <3> QED
      BY <3>3, <3>4
  <2>7. Listed(m) = [j \in (DOMAIN FTList \ {k}) \union {m.id} |-> IF j = m.id THEN FTList[k] ELSE FTList[j]]
    BY <1>1, <2>5, <2>6 DEF Listed
  <2>8. EntryMoves(Listed(m), k, m.id)
    <3>1. PICK list : list = Listed(m)
      OBVIOUS
    <3>2. \A j \in DOMAIN FTList : FTList[j] \in DOMAIN transfers
      BY EntryTypes DEF IInv
    <3>3. /\ DOMAIN list = (DOMAIN FTList \ {k}) \union {m.id} /\ list[m.id] = FTList[k]
          /\ \A j \in DOMAIN FTList \ {k} : j # m.id /\ list[j] = FTList[j]
      BY <1>10, <2>7, <3>1
    <3>4. list \in [DOMAIN list -> DOMAIN transfers]
      BY <2>7, <3>1, <3>2
    <3> QED
      BY <3>1, <3>3, <3>4 DEF EntryMoves
  <2>9. \A stale : Stepped(m, stale) = [transfers EXCEPT ![tr].step = m.step]
    BY <1>1, <1>7, <2>5, <2>6 DEF Stepped
  <2>10. Restepped([transfers EXCEPT ![tr].step = m.step], tr, m.step)
    <3>1. PICK e : e = [transfers[tr] EXCEPT !.step = m.step]
      OBVIOUS
    <3>2. /\ e \in Record /\ e.of = transfers[tr].of /\ e.ftId = transfers[tr].ftId
          /\ e.p2pType = transfers[tr].p2pType /\ e.hasDestination = transfers[tr].hasDestination
          /\ e.hasTransfered = transfers[tr].hasTransfered /\ e.step = m.step
      BY <1>2, <1>12, <3>1 DEF Record
    <3>3. PICK objects : objects = [transfers EXCEPT ![tr] = e]
      OBVIOUS
    <3>4. /\ objects \in Seq(Record) /\ DOMAIN objects = DOMAIN transfers /\ objects[tr] = e
          /\ \A ur \in DOMAIN transfers : ur # tr => objects[ur] = transfers[ur]
      BY <1>12, <3>2, <3>3, Updated
    <3>5. [transfers EXCEPT ![tr].step = m.step] = objects
      BY <3>1, <3>3
    <3> QED
      BY <3>2, <3>4, <3>5 DEF Restepped
  <2>11. StepOf(m) = m.step
    BY <2>2 DEF StepOf
  <2>12. \A stale : Restepped(Stepped(m, stale), FTList[k], StepOf(m))
    BY <1>7, <2>9, <2>10, <2>11
  <2>13. m.step # "BYE" => transfers[FTList[k]].step = StepOf(m)
    BY <1>6, <1>7, <2>2, <2>11
  <2>14. m.step # "NULL"
    BY <2>2
  <2> QED
    BY <1>1, <1>4, <1>5, <1>7, <2>8, <2>12, <2>13, <2>14
<1> QED
  BY <1>13, <1>14

-----------------------------------------------------------------------------
(* What the steps of the client have in common *)

\* The messages that are left once the first one is taken.
LEMMA WireShrinks ==
  ASSUME Types, wire # <<>>, wire' = Tail(wire)
  PROVE  /\ 1 \in DOMAIN wire /\ Head(wire) = wire[1] /\ wire' \in Seq(Messages)
         /\ \A n \in DOMAIN wire' : n \in Nat /\ n + 1 \in DOMAIN wire /\ 1 < n + 1 /\ wire'[n] = wire[n + 1]
         /\ \A n \in DOMAIN wire : n = 1 \/ (n - 1 \in DOMAIN wire' /\ wire'[n - 1] = wire[n])
<1>1. /\ Len(wire) \in Nat /\ Len(wire) >= 1 /\ DOMAIN wire = 1 .. Len(wire) /\ Head(wire) = wire[1]
      /\ DOMAIN wire' = 1 .. Len(wire) - 1 /\ wire' \in Seq(Messages)
      /\ \A i \in 1 .. Len(wire) - 1 : wire'[i] = wire[i + 1]
  BY SMTT(60), Sizes, Taken
<1>2. PICK w \in Nat : w = Len(wire) /\ w >= 1
  BY <1>1
<1>3. ASSUME NEW n \in DOMAIN wire'
      PROVE  n \in Nat /\ n + 1 \in DOMAIN wire /\ 1 < n + 1 /\ wire'[n] = wire[n + 1]
  <2>1. n \in 1 .. w - 1
    BY <1>1, <1>2
  <2>2. n \in Nat /\ n + 1 \in 1 .. w /\ 1 < n + 1
    BY <1>2, <2>1
  <2> QED
    BY <1>1, <1>2, <2>1, <2>2
<1>4. ASSUME NEW n \in DOMAIN wire, n # 1
      PROVE  n - 1 \in DOMAIN wire' /\ wire'[n - 1] = wire[n]
  <2>1. n \in 1 .. w
    BY <1>1, <1>2
  <2>2. n - 1 \in 1 .. w - 1 /\ (n - 1) + 1 = n
    BY <1>2, <1>4, <2>1
  <2> QED
    BY <1>1, <1>2, <2>2
<1>5. 1 \in 1 .. w
  BY <1>2
<1> QED
  BY <1>1, <1>2, <1>3, <1>4, <1>5

\* What is left to show of the messages when the thread takes one.
LEMMA TailScript ==
  ASSUME Types, Script, wire # <<>>, wire' = Tail(wire), UNCHANGED peer, NEW m, m = Head(wire),
         \A u \in Transfers : u # m.t \/ m.isEmpty => Kept(u),
         ~m.isEmpty => /\ Known(m.t)' /\ Coming(m.t)'
                       /\ \A a \in Messages : a.t = m.t /\ Fits(a) /\ InOrder(m, a) => Fits(a)'
  PROVE  Script'
<1>1. /\ 1 \in DOMAIN wire /\ m = wire[1]
      /\ \A n \in DOMAIN wire' : n \in Nat /\ n + 1 \in DOMAIN wire /\ 1 < n + 1 /\ wire'[n] = wire[n + 1]
      /\ \A n \in DOMAIN wire : n = 1 \/ (n - 1 \in DOMAIN wire' /\ wire'[n - 1] = wire[n])
  BY WireShrinks
<1>2. \A n \in DOMAIN wire : wire[n] \in Messages /\ wire[n].t \in Transfers
  BY MessageTypes
<1>3. phase' = phase /\ lastId' = lastId /\ sent' = sent
  BY DEF peer
<1>4. ASSUME NEW n \in DOMAIN wire' PROVE Fits(wire[n])'
  <2>1. PICK a \in Messages : a = wire[n + 1] /\ a.t \in Transfers
    BY <1>1, <1>2
  <2>2. Fits(a) /\ InOrder(m, a)
    BY <1>1, <2>1 DEF Script
  <2>3. Fits(a)'
    <3>1. CASE a.t # m.t \/ m.isEmpty
      <4>1. Kept(a.t)
        BY <2>1, <3>1
      <4> QED
        BY <1>3, <2>2, <4>1, FitsKept
    <3>2. CASE a.t = m.t /\ ~m.isEmpty
      BY <2>2, <3>2
    <3> QED
      BY <3>1, <3>2
  <2> QED
    BY <1>1, <2>1, <2>3
<1>5. ASSUME NEW i \in DOMAIN wire', NEW j \in DOMAIN wire', i < j PROVE InOrder(wire'[i], wire'[j])
  <2>1. i \in Nat /\ j \in Nat
    BY <1>1
  <2>2. i + 1 < j + 1
    BY <1>5, <2>1
  <2> QED
    BY <1>1, <2>2 DEF Script
<1>6. ASSUME NEW u \in Transfers, u # m.t \/ m.isEmpty, NEW n \in DOMAIN wire,
             IsFirst(wire[n], u) \/ (IsPart(wire[n]) /\ wire[n].t = u)
      PROVE  n # 1 /\ n - 1 \in DOMAIN wire' /\ wire'[n - 1] = wire[n]
  BY <1>1, <1>6 DEF IsFirst, IsPart
<1>7. ASSUME NEW n \in DOMAIN wire', NEW u \in Transfers, u = wire'[n].t,
             ~wire'[n].isEmpty, wire'[n].step # "INVITATION", ~Known(u)'
      PROVE  \E i \in DOMAIN wire' : i < n /\ IsFirst(wire'[i], u)
  <2>1. u # m.t \/ m.isEmpty
    BY <1>7
  <2>2. ~Known(u)
    BY <1>7, <2>1 DEF Kept
  <2>3. PICK i \in DOMAIN wire : i < n + 1 /\ IsFirst(wire[i], u)
    BY <1>1, <1>7, <2>2 DEF Script
  <2>4. i # 1 /\ i - 1 \in DOMAIN wire' /\ wire'[i - 1] = wire[i]
    BY <1>6, <2>1, <2>3
  <2>5. i - 1 < n
    <3>1. i \in Nat /\ n \in Nat
      BY <1>1, Sizes
    <3> QED
      BY <2>3, <3>1
  <2> QED
    BY <2>3, <2>4, <2>5
<1>8. ASSUME NEW u \in Transfers PROVE Coming(u)'
  <2>1. CASE u # m.t \/ m.isEmpty
    <3>1. Coming(u) /\ Kept(u)
      BY <2>1 DEF Script
    <3>2. ASSUME NEW n \in DOMAIN wire, IsFirst(wire[n], u)
          PROVE  \E i \in DOMAIN wire' : IsFirst(wire'[i], u)
      BY <1>6, <2>1, <3>2
    <3>3. ASSUME NEW n \in DOMAIN wire, IsPart(wire[n]), wire[n].t = u, wire[n].isFinished
          PROVE  \E i \in DOMAIN wire' : IsPart(wire'[i]) /\ wire'[i].t = u /\ wire'[i].isFinished
      BY <1>6, <2>1, <3>3
    <3>4. (\A n \in DOMAIN wire : wire[n].t = u => wire[n].isEmpty) =>
             \A n \in DOMAIN wire' : wire'[n].t = u => wire'[n].isEmpty
      BY <1>1
    <3>5. /\ phase'[u] # "new" /\ ~Known(u)' => \E n \in DOMAIN wire' : IsFirst(wire'[n], u)
          /\ phase'[u] # "new" /\ (~Known(u)' \/ In(u, {"INVITATION"})') =>
               \E n \in DOMAIN wire' : IsPart(wire'[n]) /\ wire'[n].t = u /\ wire'[n].isFinished
          /\ In(u, {"BYE"})' => \A n \in DOMAIN wire' : wire'[n].t = u => wire'[n].isEmpty
      BY <1>3, <3>1, <3>2, <3>3, <3>4 DEF Coming, Kept
    <3> QED
      BY <3>5 DEF Coming, IsFirst, IsPart
  <2>2. CASE u = m.t /\ ~m.isEmpty
    BY <2>2
  <2> QED
    BY <2>1, <2>2
<1>9. ASSUME NEW n \in DOMAIN wire' PROVE (~wire[n].isEmpty /\ wire[n].step # "INVITATION" /\ ~Known(wire[n].t) =>
         \E i \in DOMAIN wire : i < n /\ IsFirst(wire[i], wire[n].t))'
  <2>1. PICK u \in Transfers : u = wire'[n].t
    BY <1>1, <1>2
  <2> QED
    BY <1>7, <2>1 DEF IsFirst
<1> QED
  BY <1>4, <1>5, <1>8, <1>9 DEF Script, InOrder, IsPart

\* The messages when none is taken or added.
LEMMA ScriptKept ==
  ASSUME Types, Script, wire' = wire, UNCHANGED peer, \A u : Kept(u)
  PROVE  Script'
<1>1. phase' = phase /\ lastId' = lastId /\ sent' = sent
  BY DEF peer
<1>2. ASSUME NEW n \in DOMAIN wire' PROVE Fits(wire[n])'
  <2>1. PICK a : a = wire[n]
    OBVIOUS
  <2>2. Fits(a)'
    BY <1>1, <2>1, FitsKept DEF Script
  <2> QED
    BY <2>1, <2>2
<1>3. ASSUME NEW u \in Transfers PROVE Coming(u)'
  BY <1>1 DEF Script, Coming, Kept
<1>4. ASSUME NEW n \in DOMAIN wire' PROVE (~wire[n].isEmpty /\ wire[n].step # "INVITATION" /\ ~Known(wire[n].t) =>
         \E i \in DOMAIN wire : i < n /\ IsFirst(wire[i], wire[n].t))'
  <2>1. PICK u : u = wire[n].t
    OBVIOUS
  <2>2. Known(u)' = Known(u)
    BY DEF Kept
  <2> QED
    BY <2>1, <2>2 DEF Script
<1> QED
  BY <1>2, <1>3, <1>4 DEF Script

\* What the peer is told stays true.
LEMMA ToldKept ==
  ASSUME Types, Told,
         \A u : /\ Known(u) => Known(u)'
                /\ Accepted(u) => Accepted(u)'
                /\ In(u, {"TRANSFER", "BYE"}) => In(u, {"TRANSFER", "BYE"})',
         \/ answers' = answers
         \/ \E a \in AnswerRecord : answers' = Append(answers, a) /\ ToldOf(a)'
  PROVE  Told'
<1>1. \A a : ToldOf(a) => ToldOf(a)'
  BY DEF ToldOf
<1>2. CASE answers' = answers
  <2>1. ASSUME NEW n \in DOMAIN answers' PROVE ToldOf(answers[n])'
    <3>1. PICK a : a = answers[n]
      OBVIOUS
    <3>2. ToldOf(a)'
      BY <1>1, <1>2, <3>1 DEF Told
    <3> QED
      BY <1>2, <3>1, <3>2
  <2> QED
    BY <2>1 DEF Told
<1>3. CASE \E a \in AnswerRecord : answers' = Append(answers, a) /\ ToldOf(a)'
  <2>1. PICK a \in AnswerRecord : answers' = Append(answers, a) /\ ToldOf(a)'
    BY <1>3
  <2>2. /\ Len(answers) \in Nat /\ DOMAIN answers = 1 .. Len(answers)
        /\ DOMAIN answers' = 1 .. Len(answers) + 1
        /\ \A i \in 1 .. Len(answers) : answers'[i] = answers[i]
        /\ answers'[Len(answers) + 1] = a
    <3>1. answers \in Seq(AnswerRecord)
      BY Sizes
    <3> QED
      BY <2>1, <3>1, Appended
  <2>3. ASSUME NEW n \in DOMAIN answers' PROVE ToldOf(answers[n])'
    <3>1. CASE n \in DOMAIN answers
      <4>1. PICK b : b = answers[n]
        OBVIOUS
      <4>2. ToldOf(b)'
        BY SMTT(60), <1>1, <3>1, <4>1 DEF Told
      <4> QED
        BY <2>2, <3>1, <4>1, <4>2
    <3>2. CASE n \notin DOMAIN answers
      <4>1. PICK w \in Nat : w = Len(answers)
        BY <2>2
      <4>2. n = w + 1
        BY <2>2, <3>2, <4>1
      <4> QED
        BY ZenonT(60), <2>1, <2>2, <4>1, <4>2
    <3> QED
      BY <3>1, <3>2
  <2> QED
    BY <2>3 DEF Told
<1> QED
  BY <1>2, <1>3

\* A transfer needs no more identifiers than before.
LEMMA RoomKept ==
  ASSUME Types, Room, answers' \in Seq(AnswerRecord), UNCHANGED peer,
         \A u \in Transfers : Needed(u)' <= Needed(u)
  PROVE  Room'
<1>1. lastId' = lastId
  BY DEF peer
<1>2. ASSUME NEW u \in Transfers PROVE Base[u] <= lastId'[u] /\ lastId'[u] + Needed(u)' <= Base[u] + IdsPerTransfer
  <2>1. PICK b, l, x, x1 \in Nat : b = Base[u] /\ l = lastId[u] /\ x = Needed(u) /\ x1 = Needed(u)'
    BY RoomLeft, NeededIsNat
  <2>2. b <= l /\ l + x <= b + 6 /\ x1 <= x
    BY <2>1, RoomLeft DEF IdsPerTransfer
  <2>3. l + x1 <= b + 6
    BY <2>2
  <2> QED
    BY <1>1, <2>1, <2>2, <2>3 DEF IdsPerTransfer
<1> QED
  BY <1>2 DEF Room

\* An answer is one more that the peer will take.
LEMMA AnswerAdded ==
  ASSUME Types, NEW t \in Transfers, NEW kind \in AnswerKinds, Answer(t, kind)
  PROVE  /\ answers' \in Seq(AnswerRecord)
         /\ \E a \in AnswerRecord : answers' = Append(answers, a) /\ a.t = t /\ a.kind = kind
         /\ \A u \in Transfers : \A k \in AnswerKinds :
              Waiting(u, k)' = Waiting(u, k) + (IF u = t /\ k = kind THEN 1 ELSE 0)
<1>0. PICK a : a = [t |-> t, kind |-> kind]
  OBVIOUS
<1>1. a \in AnswerRecord /\ a.t = t /\ a.kind = kind
  BY <1>0 DEF AnswerRecord
<1>2. answers' = Append(answers, a) /\ answers \in Seq(AnswerRecord)
  BY <1>0, Sizes DEF Answer
<1>3. answers' \in Seq(AnswerRecord)
  BY <1>1, <1>2, Appended
<1>4. ASSUME NEW u \in Transfers, NEW k \in AnswerKinds
      PROVE  Waiting(u, k)' = Waiting(u, k) + (IF u = t /\ k = kind THEN 1 ELSE 0)
  <2>0. PICK v : v = [t |-> u, kind |-> k]
    OBVIOUS
  <2>1. v.t = u /\ v.kind = k
    BY <2>0
  <2>2. Cardinality(Places(Append(answers, a), v)) = Cardinality(Places(answers, v)) + (IF a = v THEN 1 ELSE 0)
    BY <1>1, <1>2, PlacesAppended
  <2>3. a = v <=> (u = t /\ k = kind)
    BY <1>0, <2>0, <1>1, <2>1
  <2> QED
    BY <1>2, <2>0, <2>2, <2>3 DEF Waiting
<1> QED
  BY <1>1, <1>2, <1>3, <1>4

-----------------------------------------------------------------------------
(* When the thread changes or creates one Transfer *)

\* The Transfer with index tr, that of transfer t, changes or is created.
OneChanges(tr, t) ==
  /\ transfers' \in Seq(Record) /\ DOMAIN transfers' = DOMAIN transfers \union {tr}
  /\ \A ur \in DOMAIN transfers : ur # tr => transfers'[ur] = transfers[ur]
  /\ transfers'[tr].of = t
  /\ IF tr \in DOMAIN transfers THEN transfers[tr].of = t ELSE ~Known(t)

\* What is known of the transfers when one object changes, or is created.
LEMMA Views ==
  ASSUME Objects, NEW t, NEW tr, OneChanges(tr, t)
  PROVE  /\ \A u : u # t => Same(u)
         /\ Known(t)'
         /\ \A steps : In(t, steps)' <=> transfers'[tr].step \in steps
         /\ Accepted(t)' <=> transfers'[tr].hasDestination
         /\ Prepared(t)' <=> transfers'[tr].p2pType = "NULL"
         /\ \A ur \in DOMAIN transfers : ur # tr => transfers[ur].of # t
<1>1. /\ DOMAIN transfers' = DOMAIN transfers \union {tr} /\ transfers'[tr].of = t
      /\ \A ur \in DOMAIN transfers : ur # tr => transfers'[ur] = transfers[ur]
  BY DEF OneChanges
<1>2. \A ur \in DOMAIN transfers : ur # tr => transfers[ur].of # t
  <2>1. CASE tr \in DOMAIN transfers
    BY <2>1 DEF OneChanges, Objects
  <2>2. CASE tr \notin DOMAIN transfers
    BY <2>2 DEF OneChanges, Known
  <2> QED
    BY <2>1, <2>2
<1>3. ASSUME NEW u, u # t PROVE Same(u)
  <2>1. tr \in DOMAIN transfers => transfers[tr].of # u
    BY <1>3 DEF OneChanges
  <2>2. Known(u)' = Known(u)
    BY <1>1, <1>3, <2>1 DEF Known
  <2>3. Accepted(u)' = Accepted(u)
    BY <1>1, <1>3, <2>1 DEF Accepted
  <2>4. Prepared(u)' = Prepared(u)
    BY <1>1, <1>3, <2>1 DEF Prepared
  <2>5. ASSUME NEW steps PROVE In(u, steps)' = In(u, steps)
    BY <1>1, <1>3, <2>1 DEF In
  <2> QED
    BY <2>2, <2>3, <2>4, <2>5 DEF Same
<1>4. \A ur \in DOMAIN transfers' : transfers'[ur].of = t => ur = tr
  BY <1>1, <1>2
<1>5. Known(t)'
  BY <1>1 DEF Known
<1>6. ASSUME NEW steps PROVE In(t, steps)' <=> transfers'[tr].step \in steps
  BY <1>1, <1>4 DEF In
<1>7. Accepted(t)' <=> transfers'[tr].hasDestination
  BY <1>1, <1>4 DEF Accepted
<1>8. Prepared(t)' <=> transfers'[tr].p2pType = "NULL"
  BY <1>1, <1>4 DEF Prepared
<1> QED
  BY <1>2, <1>3, <1>5, <1>6, <1>7, <1>8

\* The type a Transfer can have.
TypeFits(o) == o.p2pType = Kind[o.of] \/ (Kind[o.of] = "EMOTICON" /\ o.p2pType = "NULL")

\* In the list, tr is under id, and the others are where they were.
Entry(list, tr, id) ==
  /\ list \in [DOMAIN list -> DOMAIN transfers \union {tr}]
  /\ id \in DOMAIN list /\ list[id] = tr
  /\ \A j \in DOMAIN list : j # id => j \in DOMAIN FTList /\ FTList[j] # tr /\ list[j] = FTList[j]
  /\ \A j \in DOMAIN FTList : FTList[j] # tr => j \in DOMAIN list /\ j # id

\* What is left to show of the objects and the list when a message has arrived.
LEMMA Arrives ==
  ASSUME IInv, wire # <<>>, NEW m, m = Head(wire), ~m.isEmpty, wire' = Tail(wire), UNCHANGED peer,
         NEW tr, OneChanges(tr, m.t), Entry(FTList', tr, m.id),
         transfers'[tr].step \in {"INVITATION", "NEGOTIATION", "TRANSFER"}, TypeFits(transfers'[tr]),
         transfers'[tr].step = "INVITATION" => m.id = Base[m.t] + 1
  PROVE  Objects' /\ Numbers'
<1>1. /\ DOMAIN transfers' = DOMAIN transfers \union {tr} /\ transfers'[tr].of = m.t
      /\ \A ur \in DOMAIN transfers : ur # tr => transfers'[ur] = transfers[ur] /\ transfers[ur].of # m.t
  BY Views DEF OneChanges, IInv
<1>2. /\ m.id \in DOMAIN FTList' /\ FTList'[m.id] = tr
      /\ \A j \in DOMAIN FTList' : j # m.id => j \in DOMAIN FTList /\ FTList[j] # tr /\ FTList'[j] = FTList[j]
      /\ \A j \in DOMAIN FTList : FTList[j] # tr => j \in DOMAIN FTList' /\ j # m.id
  BY DEF Entry
<1>3. \A j \in DOMAIN FTList : FTList[j] \in DOMAIN transfers
  BY EntryTypes DEF IInv
<1>4. Objects'
  <2>1. \A ur, vr \in DOMAIN transfers' : transfers'[ur].of = transfers'[vr].of => ur = vr
    BY <1>1 DEF IInv, Objects
  <2>2. \A k, l \in DOMAIN FTList' : FTList'[k] = FTList'[l] => k = l
    BY <1>2 DEF IInv, Objects
  <2>3. ASSUME NEW ur \in DOMAIN transfers'
        PROVE  /\ transfers'[ur].step \in {"INVITATION", "NEGOTIATION", "TRANSFER", "BYE"}
               /\ TypeFits(transfers'[ur])
               /\ transfers'[ur].step = "BYE" <=> (\A k \in DOMAIN FTList' : FTList'[k] # ur)
    <3>1. CASE ur = tr
      BY <1>2, <3>1
    <3>2. CASE ur # tr
      <4>1. ur \in DOMAIN transfers /\ transfers'[ur] = transfers[ur]
        BY <1>1, <3>2
      <4>2. /\ transfers[ur].step \in {"INVITATION", "NEGOTIATION", "TRANSFER", "BYE"}
            /\ TypeFits(transfers[ur])
            /\ transfers[ur].step = "BYE" <=> (\A k \in DOMAIN FTList : FTList[k] # ur)
        BY <4>1 DEF IInv, Objects, TypeFits
      <4>3. (\A k \in DOMAIN FTList : FTList[k] # ur) <=> (\A k \in DOMAIN FTList' : FTList'[k] # ur)
        BY <1>2, <3>2
      <4> QED
        BY <4>1, <4>2, <4>3
    <3> QED
      BY <3>1, <3>2
  <2> QED
    BY <2>1, <2>2, <2>3 DEF Objects, TypeFits
<1>5. /\ \A n \in DOMAIN wire' : n \in Nat /\ n + 1 \in DOMAIN wire /\ 1 < n + 1 /\ wire'[n] = wire[n + 1]
      /\ 1 \in DOMAIN wire /\ m = wire[1]
  BY WireShrinks DEF IInv
<1>6. lastId' = lastId /\ phase' = phase
  BY DEF peer
<1>7. ASSUME NEW k \in DOMAIN FTList'
      PROVE  LET o == transfers'[FTList'[k]] IN
             /\ Base[o.of] < k /\ k <= lastId[o.of]
             /\ o.step = "INVITATION" => k = Base[o.of] + 1
             /\ \A n \in DOMAIN wire' : wire'[n].t = o.of => Follows(wire'[n], k)
  <2>1. CASE k = m.id
    <3>1. PICK o : o = transfers'[FTList'[k]]
      OBVIOUS
    <3>2. o.of = m.t /\ (o.step = "INVITATION" => m.id = Base[m.t] + 1)
      BY <1>1, <1>2, <2>1, <3>1
    <3>3. Base[m.t] < m.id /\ m.id <= lastId[m.t]
      BY HeadOfWire DEF Fits
    <3>4. ASSUME NEW n \in DOMAIN wire', wire'[n].t = m.t PROVE Follows(wire'[n], m.id)
      <4>1. PICK a : a = wire'[n] /\ InOrder(m, a)
        BY <1>5 DEF IInv, Script
      <4> QED
        BY <3>4, <4>1 DEF InOrder, Follows
    <3> QED
      BY <2>1, <3>1, <3>2, <3>3, <3>4
  <2>2. CASE k # m.id
    <3>1. PICK o : o = transfers'[FTList'[k]]
      OBVIOUS
    <3>2. k \in DOMAIN FTList /\ o = transfers[FTList[k]]
      BY <1>1, <1>2, <1>3, <2>2, <3>1
    <3>3. /\ Base[o.of] < k /\ k <= lastId[o.of]
          /\ o.step = "INVITATION" => k = Base[o.of] + 1
          /\ \A n \in DOMAIN wire : wire[n].t = o.of => Follows(wire[n], k)
      BY <3>2 DEF IInv, Numbers
    <3>4. \A n \in DOMAIN wire' : wire'[n].t = o.of => Follows(wire'[n], k)
      BY <1>5, <3>3
    <3> QED
      BY <3>1, <3>3, <3>4
  <2> QED
    BY <2>1, <2>2
<1>8. \A u \in Transfers : phase'[u] = "new" => lastId'[u] = Base[u]
  BY <1>6 DEF IInv, Numbers
<1>9. Numbers'
  BY <1>6, <1>7, <1>8 DEF Numbers, Follows
<1> QED
  BY <1>4, <1>9

-----------------------------------------------------------------------------
(* The offers *)

\* The Transfers that were offered are as they were, and then that no other was.
OffersLast ==
  /\ \A ur \in DOMAIN transfers : ur \in DOMAIN transfers' /\ transfers'[ur].of = transfers[ur].of
  /\ \A ur \in DOMAIN transfers : IsOffered(ur) => IsOffered(ur)' /\ transfers'[ur].ftId = transfers[ur].ftId
OffersStay ==
  OffersLast /\ \A ur \in DOMAIN transfers' : IsOffered(ur)' => ur \in DOMAIN transfers /\ IsOffered(ur)

\* The files that were offered, by their objects.
LEMMA OfferedTransfers ==
  ASSUME Objects
  PROVE  OfferedFiles = {t \in Transfers : \E ur \in DOMAIN transfers : transfers[ur].of = t /\ IsOffered(ur)}
<1>1. \A ur \in DOMAIN transfers : transfers[ur].step # "INVITATION" <=> transfers[ur].step \in {"NEGOTIATION", "TRANSFER", "BYE"}
  BY DEF Objects
<1>2. ASSUME NEW t \in Transfers
      PROVE  (Kind[t] = "FILE" /\ In(t, {"NEGOTIATION", "TRANSFER", "BYE"}))
               <=> \E ur \in DOMAIN transfers : transfers[ur].of = t /\ IsOffered(ur)
  BY <1>1 DEF In, IsOffered
<1> QED
  BY <1>2 DEF OfferedFiles

\* The same of the next state.
LEMMA OfferedTransfersThen ==
  ASSUME Objects'
  PROVE  OfferedFiles' = {t \in Transfers : \E ur \in DOMAIN transfers' : transfers'[ur].of = t /\ IsOffered(ur)'}
<1>1. \A ur \in DOMAIN transfers' : transfers'[ur].step # "INVITATION" <=> transfers'[ur].step \in {"NEGOTIATION", "TRANSFER", "BYE"}
  BY DEF Objects
<1>2. ASSUME NEW t \in Transfers
      PROVE  (Kind[t] = "FILE" /\ In(t, {"NEGOTIATION", "TRANSFER", "BYE"})')
               <=> \E ur \in DOMAIN transfers' : transfers'[ur].of = t /\ IsOffered(ur)'
  BY <1>1 DEF In, IsOffered
<1> QED
  BY <1>2 DEF OfferedFiles

\* Offers keep identifiers of their own in a step that makes none.
LEMMA OwnIdsKept ==
  ASSUME Objects, Objects', OwnIds, OffersStay, ftid' = ftid,
         \A i \in FtIds : i >= ftid => app'[i] = "none" /\ files'[i] = <<>>
  PROVE  OwnIds'
<1>1. OfferedFiles' = OfferedFiles
  <2>1. ASSUME NEW t PROVE (\E ur \in DOMAIN transfers' : transfers'[ur].of = t /\ IsOffered(ur)')
                             <=> \E ur \in DOMAIN transfers : transfers[ur].of = t /\ IsOffered(ur)
    BY DEF OffersStay, OffersLast
  <2> QED
    BY <2>1, OfferedTransfers, OfferedTransfersThen
<1>2. ASSUME NEW ur \in DOMAIN transfers', IsOffered(ur)'
      PROVE  ur \in DOMAIN transfers /\ IsOffered(ur) /\ transfers'[ur].ftId = transfers[ur].ftId
  BY <1>2 DEF OffersStay, OffersLast
<1>3. \A ur \in DOMAIN transfers' : IsOffered(ur)' => transfers'[ur].ftId < ftid /\ transfers'[ur].ftId \in FtIds
  BY <1>2 DEF OwnIds
<1>4. \A ur, vr \in DOMAIN transfers' :
        IsOffered(ur)' /\ IsOffered(vr)' /\ transfers'[ur].ftId = transfers'[vr].ftId => ur = vr
  BY <1>2 DEF OwnIds
<1> QED
  BY <1>1, <1>3, <1>4 DEF OwnIds

\* An offer keeps its identifier.
LEMMA OfferStays ==
  ASSUME OffersLast, NEW i, NEW tr, Offer(i, tr)
  PROVE  Offer(i, tr)'
  BY DEF Offer, OffersLast

\* A signal that waits for the application.
LEMMA SignalAdded ==
  ASSUME Types, NEW s \in SignalRecord, Emit(<<s>>)
  PROVE  /\ signals' \in Seq(SignalRecord)
         /\ \A p \in DOMAIN signals : p \in DOMAIN signals' /\ signals'[p] = signals[p]
         /\ \E n : /\ n \in DOMAIN signals' /\ n \notin DOMAIN signals /\ signals'[n] = s
                   /\ \A p \in DOMAIN signals' : p \in DOMAIN signals \/ p = n
<1>1. signals \in Seq(SignalRecord) /\ signals' = signals \o <<s>>
  BY Sizes DEF Emit
<1>2. signals' = Append(signals, s)
  BY <1>1, AppendIsConcat
<1>3. /\ signals' \in Seq(SignalRecord) /\ Len(signals) \in Nat /\ DOMAIN signals = 1 .. Len(signals)
      /\ DOMAIN signals' = 1 .. Len(signals) + 1 /\ signals'[Len(signals) + 1] = s
      /\ \A p \in 1 .. Len(signals) : signals'[p] = signals[p]
  BY SMTT(60), <1>1, <1>2, Appended
<1>4. PICK w \in Nat : w = Len(signals)
  BY <1>3
<1>5. PICK n : n = w + 1
  OBVIOUS
<1>6. /\ n \in DOMAIN signals' /\ n \notin DOMAIN signals /\ signals'[n] = s
      /\ \A p \in DOMAIN signals' : p \in DOMAIN signals \/ p = n
      /\ \A p \in DOMAIN signals : p \in DOMAIN signals' /\ signals'[p] = signals[p]
  BY <1>3, <1>4, <1>5
<1> QED
  BY <1>3, <1>6

\* The offers among the signals are those that were there.
SameIncoming ==
  \A p \in DOMAIN signals' : signals'[p].kind = "incoming" => p \in DOMAIN signals /\ signals'[p] = signals[p]

\* What has a destination now had it before.
SameDestinations ==
  \A ur \in DOMAIN transfers' : transfers'[ur].hasDestination => ur \in DOMAIN transfers /\ transfers[ur].hasDestination

\* The application knows its offers after a step that neither makes nor takes one.
LEMMA HeardKept ==
  ASSUME Heard, OffersStay, SameIncoming, SameDestinations, app' = app, offered' = offered
  PROVE  Heard'
<1>1. ASSUME NEW i \in FtIds, app'[i] # "none"
      PROVE  Offer(i, offered[i])' /\ \A p \in DOMAIN signals' : ~IsIncoming(signals'[p], i)
  <2>1. Offer(i, offered[i]) /\ \A p \in DOMAIN signals : ~IsIncoming(signals[p], i)
    BY <1>1 DEF Heard
  <2>2. PICK tr : tr = offered[i] /\ tr = offered'[i]
    OBVIOUS
  <2>3. Offer(i, tr)'
    BY <2>1, <2>2, OfferStays DEF OffersStay
  <2>4. \A p \in DOMAIN signals' : ~IsIncoming(signals'[p], i)
    BY <2>1 DEF SameIncoming, IsIncoming
  <2> QED
    BY <2>2, <2>3, <2>4
<1>2. ASSUME NEW p \in DOMAIN signals', signals'[p].kind = "incoming"
      PROVE  Offer(signals[p].ftId, signals[p].transfer)'
  <2>1. PICK s : s = signals'[p] /\ s = signals[p] /\ p \in DOMAIN signals
    BY <1>2 DEF SameIncoming
  <2>2. PICK i, tr : i = s.ftId /\ tr = s.transfer
    OBVIOUS
  <2>3. Offer(i, tr)
    BY <1>2, <2>1, <2>2 DEF Heard
  <2>4. Offer(i, tr)'
    BY <2>3, OfferStays DEF OffersStay
  <2> QED
    BY <2>1, <2>2, <2>4
<1>3. \A p, q \in DOMAIN signals' : \A i \in FtIds :
        IsIncoming(signals'[p], i) /\ IsIncoming(signals'[q], i) => p = q
  BY DEF Heard, SameIncoming, IsIncoming
<1>4. ASSUME NEW ur \in DOMAIN transfers', transfers'[ur].hasDestination
      PROVE  IsOffered(ur)' /\ app'[transfers'[ur].ftId] = "accepted"
  <2>1. ur \in DOMAIN transfers /\ transfers[ur].hasDestination
    BY <1>4 DEF SameDestinations
  <2>2. IsOffered(ur) /\ app[transfers[ur].ftId] = "accepted"
    BY <2>1 DEF Heard
  <2> QED
    BY <2>1, <2>2 DEF OffersStay, OffersLast
<1> QED
  BY <1>1, <1>2, <1>3, <1>4 DEF Heard, IsIncoming

\* The next offer has an identifier of its own.
LEMMA NextOffer ==
  ASSUME IInv, NEW t \in Transfers, Kind[t] = "FILE", ~In(t, {"NEGOTIATION", "TRANSFER", "BYE"})
  PROVE  ftid \in FtIds
<1>1. PICK F : F = {u \in Transfers : Kind[u] = "FILE"}
  OBVIOUS
<1>2. OfferedFiles \union {t} \subseteq F /\ t \notin OfferedFiles /\ IsFiniteSet(F) /\ FtIds = 1 .. Cardinality(F)
  BY <1>1, Constants, FS_Subset DEF OfferedFiles, FtIds
<1>3. IsFiniteSet(OfferedFiles) /\ Cardinality(OfferedFiles) \in Nat
  BY <1>2, FS_Subset, FS_CardinalityType
<1>4. Cardinality(OfferedFiles \union {t}) = Cardinality(OfferedFiles) + 1
  BY <1>2, <1>3, FS_AddElement
<1>5. Cardinality(OfferedFiles \union {t}) <= Cardinality(F) /\ Cardinality(F) \in Nat
  BY <1>2, FS_Subset, FS_CardinalityType
<1>6. ftid = Cardinality(OfferedFiles) + 1
  BY DEF IInv, OwnIds
<1> QED
  BY <1>2, <1>3, <1>4, <1>5, <1>6

\* An invitation that is complete is an offer under the next identifier.
LEMMA OfferMade ==
  ASSUME IInv, Objects', NEW t \in Transfers, NEW tr, OneChanges(tr, t), Kind[t] = "FILE",
         ~In(t, {"NEGOTIATION", "TRANSFER", "BYE"}), transfers'[tr].step = "NEGOTIATION",
         transfers'[tr].ftId = ftid, ~transfers'[tr].hasDestination, ftid' = ftid + 1,
         NEW s \in SignalRecord, s.kind = "incoming", s.ftId = ftid, s.transfer = tr, Emit(<<s>>),
         UNCHANGED <<application, files>>
  PROVE  OwnIds' /\ Heard'
<1>1. /\ DOMAIN transfers' = DOMAIN transfers \union {tr} /\ transfers'[tr].of = t
      /\ \A ur \in DOMAIN transfers : ur # tr => transfers'[ur] = transfers[ur] /\ transfers[ur].of # t
      /\ In(t, {"NEGOTIATION", "TRANSFER", "BYE"})'
      /\ \A u : u # t => Same(u)
  <2>1. /\ \A u : u # t => Same(u)
        /\ In(t, {"NEGOTIATION", "TRANSFER", "BYE"})' <=> transfers'[tr].step \in {"NEGOTIATION", "TRANSFER", "BYE"}
        /\ \A ur \in DOMAIN transfers : ur # tr => transfers[ur].of # t
    BY Views DEF IInv
  <2> QED
    BY <2>1 DEF OneChanges
<1>2. app' = app /\ offered' = offered /\ files' = files
  BY DEF application
<1>3. t \notin OfferedFiles /\ OfferedFiles' = OfferedFiles \union {t}
  BY <1>1 DEF OfferedFiles, Same
<1>4. IsFiniteSet(OfferedFiles) /\ Cardinality(OfferedFiles) \in Nat
  BY Constants, FS_Subset, FS_CardinalityType DEF OfferedFiles
<1>5. Cardinality(OfferedFiles') = Cardinality(OfferedFiles) + 1
  BY <1>3, <1>4, FS_AddElement
<1>6. ftid \in FtIds /\ ftid = Cardinality(OfferedFiles) + 1
  BY NextOffer DEF IInv, OwnIds
<1>7. ftid \in Nat
  BY OtherTypes DEF IInv
<1>8. IsOffered(tr)' /\ ~(tr \in DOMAIN transfers /\ IsOffered(tr))
  <2>1. ~(tr \in DOMAIN transfers /\ IsOffered(tr))
    <3> SUFFICES ASSUME tr \in DOMAIN transfers, IsOffered(tr) PROVE FALSE
      OBVIOUS
    <3>1. transfers[tr].of = t
      BY DEF OneChanges
    <3>2. transfers[tr].step \in {"NEGOTIATION", "TRANSFER", "BYE"}
      BY DEF IsOffered, IInv, Objects
    <3> QED
      BY <3>1, <3>2 DEF In
  <2> QED
    BY <1>1, <2>1 DEF IsOffered
<1>9. ASSUME NEW ur \in DOMAIN transfers', ur # tr
      PROVE  ur \in DOMAIN transfers /\ transfers'[ur] = transfers[ur] /\ (IsOffered(ur)' <=> IsOffered(ur))
  BY <1>1, <1>9 DEF IsOffered
<1>10. \A ur \in DOMAIN transfers : IsOffered(ur) => /\ transfers[ur].ftId \in FtIds /\ transfers[ur].ftId < ftid
                                                     /\ transfers[ur].ftId \in Nat
  BY Constants DEF IInv, OwnIds
<1>11. OwnIds'
  <2>1. \A ur \in DOMAIN transfers' : IsOffered(ur)' => transfers'[ur].ftId < ftid + 1 /\ transfers'[ur].ftId \in FtIds
    BY <1>6, <1>7, <1>9, <1>10
  <2>2. \A ur, vr \in DOMAIN transfers' :
          IsOffered(ur)' /\ IsOffered(vr)' /\ transfers'[ur].ftId = transfers'[vr].ftId => ur = vr
    <3>1. \A ur \in DOMAIN transfers' : IsOffered(ur)' /\ ur # tr => transfers'[ur].ftId # ftid
      BY <1>7, <1>9, <1>10
    <3>2. \A ur, vr \in DOMAIN transfers : IsOffered(ur) /\ IsOffered(vr) /\ transfers[ur].ftId = transfers[vr].ftId => ur = vr
      BY DEF IInv, OwnIds
    <3> QED
      BY <1>9, <3>1, <3>2
  <2>3. \A i \in FtIds : i >= ftid + 1 => app'[i] = "none" /\ files'[i] = <<>>
    BY <1>2, <1>7, Constants DEF IInv, OwnIds
  <2> QED
    BY <1>5, <1>6, <2>1, <2>2, <2>3 DEF OwnIds
<1>12. PICK n : /\ n \in DOMAIN signals' /\ n \notin DOMAIN signals /\ signals'[n] = s
                /\ \A p \in DOMAIN signals' : p \in DOMAIN signals \/ p = n
                /\ \A p \in DOMAIN signals : p \in DOMAIN signals' /\ signals'[p] = signals[p]
  BY SignalAdded DEF IInv
<1>13. ASSUME NEW i, NEW ur, Offer(i, ur) PROVE Offer(i, ur)' /\ i # ftid
  <2>1. ur # tr
    BY <1>8, <1>13 DEF Offer
  <2>2. Offer(i, ur)'
    BY <1>1, <1>9, <1>13, <2>1 DEF Offer
  <2>3. i # ftid
    BY <1>7, <1>10, <1>13 DEF Offer
  <2> QED
    BY <2>2, <2>3
<1>14. ASSUME NEW i, i = ftid PROVE Offer(i, tr)'
  BY <1>1, <1>8, <1>14 DEF Offer
<1>15. ASSUME NEW i \in FtIds, app'[i] # "none"
       PROVE  Offer(i, offered[i])' /\ \A p \in DOMAIN signals' : ~IsIncoming(signals'[p], i)
  <2>1. Offer(i, offered[i]) /\ \A p \in DOMAIN signals : ~IsIncoming(signals[p], i)
    BY <1>2, <1>15 DEF IInv, Heard
  <2>2. PICK ur : ur = offered[i] /\ ur = offered'[i]
    BY <1>2
  <2>3. Offer(i, ur)' /\ i # ftid
    BY <1>13, <2>1, <2>2
  <2>4. \A p \in DOMAIN signals' : ~IsIncoming(signals'[p], i)
    BY <1>12, <2>1, <2>3 DEF IsIncoming
  <2> QED
    BY <2>2, <2>3, <2>4
<1>16. ASSUME NEW p \in DOMAIN signals', signals'[p].kind = "incoming"
       PROVE  Offer(signals[p].ftId, signals[p].transfer)'
  <2>1. PICK i, ur : i = signals'[p].ftId /\ ur = signals'[p].transfer
    OBVIOUS
  <2>2. CASE p = n
    BY <1>12, <1>14, <2>1, <2>2
  <2>3. CASE p # n
    <3>1. Offer(i, ur)
      BY <1>12, <1>16, <2>1, <2>3 DEF IInv, Heard
    <3> QED
      BY <1>13, <2>1, <3>1
  <2> QED
    BY <2>2, <2>3
<1>17. ASSUME NEW p \in DOMAIN signals', NEW q \in DOMAIN signals', NEW i \in FtIds,
              IsIncoming(signals'[p], i), IsIncoming(signals'[q], i)
       PROVE  p = q
  <2>1. \A r \in DOMAIN signals : signals[r].kind = "incoming" => signals[r].ftId # ftid
    BY <1>13 DEF IInv, Heard
  <2>2. \A r \in DOMAIN signals' : IsIncoming(signals'[r], ftid) => r = n
    BY <1>12, <2>1 DEF IsIncoming
  <2>3. CASE i = ftid
    BY <1>17, <2>2, <2>3
  <2>4. CASE i # ftid
    <3>1. p # n /\ q # n
      BY <1>12, <1>17, <2>4 DEF IsIncoming
    <3> QED
      BY <1>12, <1>17, <3>1 DEF IInv, Heard
  <2> QED
    BY <2>3, <2>4
<1>18. ASSUME NEW ur \in DOMAIN transfers', transfers'[ur].hasDestination
       PROVE  IsOffered(ur)' /\ app'[transfers'[ur].ftId] = "accepted"
  <2>1. ur # tr
    BY <1>18
  <2>2. ur \in DOMAIN transfers /\ transfers'[ur] = transfers[ur] /\ (IsOffered(ur)' <=> IsOffered(ur))
    BY <1>9, <2>1
  <2> QED
    BY <1>2, <1>18, <2>2 DEF IInv, Heard
<1>19. Heard'
  BY <1>15, <1>16, <1>17, <1>18 DEF Heard, IsIncoming
<1> QED
  BY <1>11, <1>19

-----------------------------------------------------------------------------
(* The files, and what is left to show of the rest *)

\* The data on its way is what was on its way.
SameData ==
  /\ \A n \in DOMAIN wire' : \E i \in DOMAIN wire : wire[i] = wire'[n]
  /\ \A i \in DOMAIN wire : \A t : IsData(wire[i], t) => \E n \in DOMAIN wire' : wire'[n] = wire[i]

\* Data stays on its way when a message without any is taken.
LEMMA NoDataTaken ==
  ASSUME Types, wire # <<>>, wire' = Tail(wire), \A t : ~IsData(Head(wire), t)
  PROVE  SameData
<1>1. /\ 1 \in DOMAIN wire /\ Head(wire) = wire[1]
      /\ \A n \in DOMAIN wire' : n \in Nat /\ n + 1 \in DOMAIN wire /\ 1 < n + 1 /\ wire'[n] = wire[n + 1]
      /\ \A n \in DOMAIN wire : n = 1 \/ (n - 1 \in DOMAIN wire' /\ wire'[n - 1] = wire[n])
  BY WireShrinks
<1> QED
  BY <1>1 DEF SameData

\* The files stay as they should be in a step that appends nothing to them.
LEMMA DataKept ==
  ASSUME Types, OwnIds, Heard, Data, OffersLast, SameData,
         \A i \in FtIds : (app'[i] # "accepted" => app[i] # "accepted" \/ files[i] = <<>>)
                          /\ (files[i] # <<>> => offered'[i] = offered[i]),
         files' = files, sent' = sent,
         \A ur \in DOMAIN transfers' : transfers'[ur].hasDestination =>
           (ur \in DOMAIN transfers /\ transfers[ur].hasDestination) \/ DataOf(ur)',
         \A ur \in DOMAIN transfers' : transfers'[ur].hasTransfered =>
           ur \in DOMAIN transfers /\ transfers[ur].hasTransfered /\ transfers'[ur].hasDestination
  PROVE  Data'
<1>1. ASSUME NEW i \in FtIds, NEW n \in DOMAIN files'[i]
      PROVE  files'[i][n] = [t |-> transfers'[offered'[i]].of, step |-> "TRANSFER", nr |-> n]
  <2>1. n \in DOMAIN files[i]
    BY <1>1
  <2>2. files[i] # <<>>
    <3>1. DOMAIN <<>> = {}
      OBVIOUS
    <3> QED
      BY <2>1, <3>1
  <2>3. app[i] = "accepted"
    BY <2>2, OtherTypes DEF Data
  <2>4. Offer(i, offered[i])
    BY <2>3 DEF Heard
  <2>5. offered[i] \in DOMAIN transfers /\ offered'[i] = offered[i]
    BY <2>2, <2>4 DEF Offer
  <2>6. transfers'[offered'[i]].of = transfers[offered[i]].of
    BY <2>5 DEF OffersLast
  <2>7. files[i][n] = [t |-> transfers[offered[i]].of, step |-> "TRANSFER", nr |-> n]
    BY <2>1 DEF Data
  <2> QED
    BY <2>6, <2>7
<1>2. \A i \in FtIds : app'[i] # "accepted" => files'[i] = <<>>
  BY DEF Data
<1>3. ASSUME NEW ur \in DOMAIN transfers, transfers[ur].hasDestination
      PROVE  /\ transfers'[ur].ftId = transfers[ur].ftId /\ transfers'[ur].of = transfers[ur].of
             /\ transfers[ur].ftId \in FtIds /\ ur \in DOMAIN transfers'
  BY <1>3, Destination DEF OffersLast
<1>4. ASSUME NEW ur \in DOMAIN transfers', transfers'[ur].hasDestination PROVE DataOf(ur)'
  <2> SUFFICES ASSUME ur \in DOMAIN transfers, transfers[ur].hasDestination PROVE DataOf(ur)'
    BY <1>4
  <2>1. PICK t, done : t = transfers[ur].of /\ done = Len(files[transfers[ur].ftId])
    OBVIOUS
  <2>2. t = transfers'[ur].of /\ done = Len(files'[transfers'[ur].ftId])
    BY <1>3, <2>1
  <2>3. /\ done <= sent[t]
        /\ \A n \in DOMAIN wire : IsData(wire[n], t) => wire[n].nr > done
        /\ \A v \in done + 1 .. sent[t] : \E n \in DOMAIN wire : IsData(wire[n], t) /\ wire[n].nr = v
    BY <2>1 DEF Data, DataOf
  <2>4. /\ done <= sent'[t]
        /\ \A n \in DOMAIN wire' : IsData(wire'[n], t) => wire'[n].nr > done
        /\ \A v \in done + 1 .. sent'[t] : \E n \in DOMAIN wire' : IsData(wire'[n], t) /\ wire'[n].nr = v
    <3>1. \A n \in DOMAIN wire' : IsData(wire'[n], t) => wire'[n].nr > done
      <4> TAKE n \in DOMAIN wire'
      <4>1. PICK i \in DOMAIN wire : wire[i] = wire'[n]
        BY DEF SameData
      <4> QED
        BY <2>3, <4>1
    <3>2. ASSUME NEW v \in done + 1 .. sent'[t]
          PROVE  \E n \in DOMAIN wire' : IsData(wire'[n], t) /\ wire'[n].nr = v
      <4>1. PICK i \in DOMAIN wire : IsData(wire[i], t) /\ wire[i].nr = v
        BY <2>3, <3>2
      <4>2. PICK n \in DOMAIN wire' : wire'[n] = wire[i]
        BY <4>1 DEF SameData
      <4> QED
        BY <4>1, <4>2
    <3> QED
      BY <2>3, <3>1, <3>2
  <2> QED
    BY <2>2, <2>4 DEF DataOf, IsData
<1>5. ASSUME NEW ur \in DOMAIN transfers', transfers'[ur].hasTransfered
      PROVE  transfers'[ur].hasDestination /\ Len(files'[transfers'[ur].ftId]) = Chunks
  <2>1. /\ ur \in DOMAIN transfers /\ transfers[ur].hasTransfered /\ transfers'[ur].hasDestination
    BY <1>5
  <2>2. transfers[ur].hasDestination /\ Len(files[transfers[ur].ftId]) = Chunks
    BY <2>1 DEF Data
  <2> QED
    BY <1>3, <2>1, <2>2
<1> QED
  BY <1>1, <1>2, <1>4, <1>5 DEF Data

\* What is transferred stays so, under its identifier.
LEMMA FinishedStays ==
  ASSUME Types, OwnIds, Heard, Data, OffersLast,
         \A ur \in DOMAIN transfers : transfers[ur].hasTransfered => transfers'[ur].hasTransfered,
         NEW i, IsFinished(i)
  PROVE  IsFinished(i)'
<1>1. PICK ur \in DOMAIN transfers : transfers[ur].hasTransfered /\ transfers[ur].ftId = i
  BY DEF IsFinished
<1>2. transfers[ur].hasDestination
  BY <1>1 DEF Data
<1>3. IsOffered(ur)
  BY <1>2, Destination
<1>4. ur \in DOMAIN transfers' /\ transfers'[ur].ftId = i /\ transfers'[ur].hasTransfered
  BY <1>1, <1>3 DEF OffersLast
<1> QED
  BY <1>4 DEF IsFinished

\* The application is told rightly of finished files, if each new signal is right.
LEMMA FinishedKept ==
  ASSUME Finished, \A i : IsFinished(i) => IsFinished(i)',
         \A p \in DOMAIN signals' : signals'[p].kind = "finished" =>
           \/ \E q \in DOMAIN signals : signals[q] = signals'[p]
           \/ \A i : i = signals'[p].ftId => IsFinished(i)',
         \A i \in FtIds : \A n \in DOMAIN outcomes'[i] : outcomes'[i][n] = "finished" => IsFinished(i)
  PROVE  Finished'
<1>1. ASSUME NEW p \in DOMAIN signals', signals'[p].kind = "finished" PROVE IsFinished(signals[p].ftId)'
  <2>1. PICK i : i = signals'[p].ftId
    OBVIOUS
  <2>2. IsFinished(i)'
    <3>1. CASE \E q \in DOMAIN signals : signals[q] = signals'[p]
      BY <1>1, <2>1, <3>1 DEF Finished
    <3>2. CASE \A j : j = signals'[p].ftId => IsFinished(j)'
      BY <2>1, <3>2
    <3> QED
      BY <1>1, <3>1, <3>2
  <2> QED
    BY <2>1, <2>2
<1>2. \A i \in FtIds : \A n \in DOMAIN outcomes'[i] : outcomes'[i][n] = "finished" => IsFinished(i)'
  OBVIOUS
<1> QED
  BY <1>1, <1>2 DEF Finished

\* The thread takes or adds answers and Transfers; the rest of the peer and the application stay.
LEMMA ChatTypes ==
  ASSUME Types, UNCHANGED <<peer, application>>, wire # <<>>, wire' = Tail(wire),
         transfers' \in Seq(Record), DOMAIN transfers \subseteq DOMAIN transfers',
         FTList' \in [DOMAIN FTList' -> DOMAIN transfers'], DOMAIN FTList' \subseteq Nat,
         answers' \in Seq(AnswerRecord), signals' \in Seq(SignalRecord),
         ftid' \in Nat, spins' \in BOOLEAN, files' \in [FtIds -> Seq(Chunk)]
  PROVE  Types'
<1>1. /\ Len(transfers) \in Nat /\ DOMAIN transfers = 1 .. Len(transfers)
      /\ Len(transfers') \in Nat /\ DOMAIN transfers' = 1 .. Len(transfers')
  BY Sizes, LenProperties
<1>2. /\ phase' = phase /\ lastId' = lastId /\ sent' = sent
      /\ app' = app /\ offered' = offered /\ outcomes' = outcomes
  BY DEF peer, application
<1>3. wire' \in Seq(Messages)
  BY WireShrinks
<1>4. /\ phase \in [Transfers -> {"new", "invited", "accepted", "asked", "ready", "closed"}]
      /\ lastId \in [Transfers -> Nat] /\ sent \in [Transfers -> 0 .. Chunks]
      /\ app \in [FtIds -> {"none", "offered", "accepted"}]
      /\ offered \in [FtIds -> 0 .. Len(transfers)]
      /\ outcomes \in [FtIds \union StaleIds -> Seq({"finished", "cancelled"})]
  BY DEF Types, TypeOK
<1>5. offered \in [FtIds -> 0 .. Len(transfers')]
  <2>1. 0 .. Len(transfers) \subseteq 0 .. Len(transfers')
    <3>1. PICK a, b \in Nat : a = Len(transfers) /\ b = Len(transfers')
      BY <1>1
    <3>2. 1 .. a \subseteq 1 .. b
      BY <1>1, <3>1
    <3>3. 0 .. a \subseteq 0 .. b
      BY <3>2
    <3> QED
      BY <3>1, <3>3
  <2> QED
    BY <1>4, <2>1
<1>6. TypeOK'
  BY <1>1, <1>2, <1>3, <1>4, <1>5 DEF TypeOK, Record, AnswerRecord, AnswerKinds
<1> QED
  BY <1>6 DEF Types

\* An answer takes the place of one that was to come.
LEMMA AnswerRoom ==
  ASSUME Types, Room, UNCHANGED peer, NEW t \in Transfers, \A u : u # t => Same(u),
         \/ answers' = answers /\ AnswersToCome(t)' <= AnswersToCome(t)
         \/ \E kind \in AnswerKinds : Answer(t, kind) /\ AnswersToCome(t)' + 1 <= AnswersToCome(t)
  PROVE  Room' /\ answers' \in Seq(AnswerRecord)
<1>1. answers' \in Seq(AnswerRecord)
  BY Sizes, AnswerAdded
<1>2. \A u : OwnSteps(u)' = OwnSteps(u)
  BY DEF OwnSteps, peer
<1>3. ASSUME NEW u \in Transfers, u # t PROVE Needed(u)' = Needed(u)
  <2>1. AnswersToCome(u)' = AnswersToCome(u)
    BY <1>3 DEF AnswersToCome, Same
  <2>2. ASSUME NEW k \in AnswerKinds PROVE Waiting(u, k)' = Waiting(u, k)
    <3>1. CASE answers' = answers
      BY <3>1 DEF Waiting
    <3>2. CASE \E kind \in AnswerKinds : Answer(t, kind)
      <4>1. PICK a, b \in Nat : a = Waiting(u, k) /\ b = Waiting(u, k)'
        BY <1>1, Sizes, NeededParts
      <4>2. b = a + 0
        BY <1>3, <3>2, <4>1, AnswerAdded
      <4> QED
        BY <4>1, <4>2
    <3> QED
      BY <3>1, <3>2
  <2> QED
    BY <1>2, <2>1, <2>2 DEF Needed, AnswerKinds
<1>4. Needed(t)' <= Needed(t)
  <2>1. PICK c1, c2, c3, d1, d2, d3, e, e1, o \in Nat :
          /\ c1 = Waiting(t, "200OK") /\ c2 = Waiting(t, "200OK NEGOTIATION") /\ c3 = Waiting(t, "PREPARATION")
          /\ d1 = Waiting(t, "200OK")' /\ d2 = Waiting(t, "200OK NEGOTIATION")'
          /\ d3 = Waiting(t, "PREPARATION")' /\ e = AnswersToCome(t) /\ e1 = AnswersToCome(t)' /\ o = OwnSteps(t)
    BY <1>1, Sizes, NeededParts
  <2>2. Needed(t) = c1 + c2 + c3 + o + e
    BY <2>1 DEF Needed
  <2>3. Needed(t)' = d1 + d2 + d3 + o + e1
    BY <1>2, <2>1 DEF Needed
  <2>4. (d1 + d2 + d3) + e1 <= (c1 + c2 + c3) + e
    <3>1. CASE answers' = answers /\ AnswersToCome(t)' <= AnswersToCome(t)
      <4>1. c1 = d1 /\ c2 = d2 /\ c3 = d3
        BY <2>1, <3>1 DEF Waiting
      <4>2. e1 <= e
        BY <2>1, <3>1
      <4> QED
        BY <4>1, <4>2
    <3>2. CASE \E kind \in AnswerKinds : Answer(t, kind) /\ AnswersToCome(t)' + 1 <= AnswersToCome(t)
      <4>1. PICK kind \in AnswerKinds : Answer(t, kind)
        BY <3>2
      <4>2. e1 + 1 <= e
        BY <2>1, <3>2
      <4>3. \A k \in AnswerKinds : Waiting(t, k)' = Waiting(t, k) + (IF k = kind THEN 1 ELSE 0)
        BY <4>1, AnswerAdded
      <4>4. /\ d1 = c1 + (IF kind = "200OK" THEN 1 ELSE 0)
            /\ d2 = c2 + (IF kind = "200OK NEGOTIATION" THEN 1 ELSE 0)
            /\ d3 = c3 + (IF kind = "PREPARATION" THEN 1 ELSE 0)
        BY <2>1, <4>3 DEF AnswerKinds
      <4>5. d1 + d2 + d3 = c1 + c2 + c3 + 1
        <5>1. CASE kind = "200OK"
          BY <4>4, <5>1
        <5>2. CASE kind = "200OK NEGOTIATION"
          <6>1. kind # "200OK" /\ kind # "PREPARATION"
            BY <5>2
          <6>2. d1 = c1 + 0
            BY <4>4, <6>1
          <6>3. d3 = c3 + 0
            BY <4>4, <6>1
          <6>4. d2 = c2 + 1
            BY <4>4, <5>2
          <6> QED
            BY <6>2, <6>3, <6>4
        <5>3. CASE kind = "PREPARATION"
          BY <4>4, <5>3
        <5> QED
          BY <5>1, <5>2, <5>3 DEF AnswerKinds
      <4> QED
        BY <4>2, <4>5
    <3> QED
      BY <3>1, <3>2
  <2>5. d1 + d2 + d3 + o + e1 <= c1 + c2 + c3 + o + e
    BY <2>4
  <2> QED
    BY <2>2, <2>3, <2>5
<1>5. \A u \in Transfers : Needed(u)' <= Needed(u)
  <2>1. \A u \in Transfers : Needed(u) \in Nat
    BY Sizes, NeededIsNat
  <2> QED
    BY <1>3, <1>4, <2>1
<1> QED
  BY <1>1, <1>5, RoomKept

-----------------------------------------------------------------------------
(* What the search for the Transfer of a message gives *)

\* The objects and the list then: tr is the Transfer of the message, under its identifier.
Found(objects, list, m, tr) ==
  /\ objects \in Seq(Record) /\ DOMAIN objects = DOMAIN transfers \union {tr}
  /\ \A ur \in DOMAIN transfers : ur # tr => objects[ur] = transfers[ur]
  /\ objects[tr].of = m.t /\ objects[tr].step = StepOf(m)
  /\ IF tr \in DOMAIN transfers
     THEN /\ m.step # "INVITATION" /\ transfers[tr].of = m.t /\ transfers[tr].step # "BYE"
          /\ m.step # "BYE" => transfers[tr].step = StepOf(m)
          /\ objects[tr].ftId = transfers[tr].ftId /\ objects[tr].p2pType = transfers[tr].p2pType
          /\ objects[tr].hasDestination = transfers[tr].hasDestination
          /\ objects[tr].hasTransfered = transfers[tr].hasTransfered
     ELSE /\ m.step = "INVITATION" /\ ~Known(m.t) /\ objects[tr].p2pType = Kind[m.t]
          /\ ~objects[tr].hasDestination /\ ~objects[tr].hasTransfered
  /\ Entry(list, tr, m.id)

\* A message with content always finds its Transfer, under its own identifier.
LEMMA Finds ==
  ASSUME IInv, IdsFit, wire # <<>>, NEW m, m = Head(wire), ~m.isEmpty
  PROVE  /\ byte2int(m.id) = m.id /\ m.id \in DOMAIN Listed(m)
         /\ \E tr : Its(m) = tr /\ \A stale \in StaleIds : Found(Stepped(m, stale), Listed(m), m, tr)
<1>1. CASE m.step = "INVITATION"
  <2>1. /\ byte2int(m.id) = m.id /\ ~Known(m.t) /\ m.id \notin DOMAIN FTList
        /\ Listed(m) = [k \in DOMAIN FTList \union {m.id} |-> IF k = m.id THEN Len(transfers) + 1 ELSE FTList[k]]
        /\ \A stale : Stepped(m, stale) = Append(transfers, Transfer(m.t, stale))
    BY SMTT(60), <1>1, FindsFirst
  <2>2. PICK tr : tr = Len(transfers) + 1
    OBVIOUS
  <2>3. PICK list : list = Listed(m)
    OBVIOUS
  <2>4. DOMAIN list = DOMAIN FTList \union {m.id} /\ list[m.id] = tr
    BY <2>1, <2>2, <2>3
  <2>5. \A j \in DOMAIN FTList : list[j] = FTList[j] /\ j # m.id
    BY <2>1, <2>2, <2>3
  <2>6. /\ transfers \in Seq(Record) /\ Len(transfers) \in Nat /\ DOMAIN transfers = 1 .. Len(transfers)
        /\ \A j \in DOMAIN FTList : FTList[j] \in DOMAIN transfers
    BY Sizes, EntryTypes DEF IInv
  <2>7. tr \notin DOMAIN transfers /\ DOMAIN transfers \union {tr} = 1 .. Len(transfers) + 1
    <3>1. PICK l \in Nat : l = Len(transfers)
      BY <2>6
    <3>2. l + 1 \notin 1 .. l /\ (1 .. l) \union {l + 1} = 1 .. l + 1
      OBVIOUS
    <3> QED
      BY SMTT(60), <2>2, <2>6, <3>1, <3>2
  <2>8. Entry(list, tr, m.id)
    <3>1. \A j \in DOMAIN list : list[j] \in DOMAIN transfers \union {tr}
      BY <2>4, <2>5, <2>6
    <3>2. list \in [DOMAIN list -> DOMAIN transfers \union {tr}]
      BY <2>1, <2>3, <3>1
    <3> QED
      BY <2>4, <2>5, <2>6, <2>7, <3>2 DEF Entry
  <2>9. ASSUME NEW stale \in StaleIds PROVE Found(Stepped(m, stale), Listed(m), m, tr)
    <3>1. PICK o : o = Transfer(m.t, stale)
      OBVIOUS
    <3>2. m.t \in Transfers /\ stale \in FtIds \union StaleIds /\ Kind[m.t] \in {"FILE", "EMOTICON", "WEBCAM"}
      BY HeadOfWire, StaleAssumption, Constants
    <3>3. /\ o \in Record /\ o.of = m.t /\ o.step = "INVITATION" /\ o.p2pType = Kind[m.t]
          /\ ~o.hasDestination /\ ~o.hasTransfered
      BY <3>1, <3>2 DEF Transfer, Record, Steps
    <3>4. PICK objects : objects = Stepped(m, stale) /\ objects = Append(transfers, o)
      BY <2>1, <3>1
    <3>5. /\ objects \in Seq(Record) /\ DOMAIN objects = DOMAIN transfers \union {tr}
          /\ objects[tr] = o /\ \A ur \in DOMAIN transfers : objects[ur] = transfers[ur]
      <4>1. o \in Record /\ transfers \in Seq(Record)
        BY <2>6, <3>3
      <4>2. /\ objects \in Seq(Record) /\ DOMAIN objects = 1 .. Len(transfers) + 1
            /\ objects[Len(transfers) + 1] = o /\ \A ur \in 1 .. Len(transfers) : objects[ur] = transfers[ur]
        BY <3>4, <4>1, Appended
      <4> QED
        BY <2>2, <2>6, <2>7, <4>2
    <3>6. StepOf(m) = "INVITATION"
      BY <1>1 DEF StepOf
    <3> QED
      BY <1>1, <2>1, <2>3, <2>7, <2>8, <3>3, <3>4, <3>5, <3>6 DEF Found
  <2>10. Its(m) = tr
    BY <2>1, <2>3, <2>4 DEF Its
  <2> QED
    BY <2>1, <2>3, <2>4, <2>9, <2>10
<1>2. CASE m.step # "INVITATION"
  <2>1. byte2int(m.id) = m.id
    BY <1>2, FindsRest
  <2>2. PICK k \in DOMAIN FTList :
          /\ transfers[FTList[k]].of = m.t
          /\ m.step # "BYE" => transfers[FTList[k]].step = StepOf(m)
          /\ transfers[FTList[k]].step # "BYE"
          /\ EntryMoves(Listed(m), k, m.id)
          /\ \A stale : Restepped(Stepped(m, stale), FTList[k], StepOf(m))
    BY <1>2, FindsRest
  <2>3. PICK tr \in DOMAIN transfers : tr = FTList[k]
    BY EntryTypes DEF IInv
  <2>4. PICK list : list = Listed(m)
    OBVIOUS
  <2>5. /\ list \in [DOMAIN list -> DOMAIN transfers]
        /\ DOMAIN list = (DOMAIN FTList \ {k}) \union {m.id} /\ list[m.id] = tr
        /\ \A j \in DOMAIN FTList \ {k} : j # m.id /\ list[j] = FTList[j]
    BY <2>2, <2>3, <2>4 DEF EntryMoves
  <2>6. \A j \in DOMAIN FTList : FTList[j] = tr <=> j = k
    BY <2>3 DEF IInv, Objects
  <2>7. DOMAIN transfers \union {tr} = DOMAIN transfers
    OBVIOUS
  <2>8. Entry(list, tr, m.id)
    BY <2>5, <2>6, <2>7 DEF Entry
  <2>9. ASSUME NEW stale \in StaleIds PROVE Found(Stepped(m, stale), Listed(m), m, tr)
    <3>1. PICK objects : objects = Stepped(m, stale)
      OBVIOUS
    <3>2. Restepped(objects, tr, StepOf(m))
      BY <2>2, <2>3, <3>1
    <3> QED
      BY <1>2, <2>2, <2>3, <2>4, <2>7, <2>8, <3>1, <3>2 DEF Found, Restepped
  <2>10. Its(m) = tr
    BY <2>1, <2>4, <2>5 DEF Its
  <2> QED
    BY <2>1, <2>4, <2>5, <2>9, <2>10
<1> QED
  BY <1>1, <1>2

\* The step the thread takes with what it found.
LEMMA FoundStays ==
  ASSUME NEW m, NEW tr, NEW objects, NEW list, Found(objects, list, m, tr), transfers' = objects
  PROVE  OneChanges(tr, m.t) /\ transfers'[tr] = objects[tr] /\ objects[tr] \in Record
<1>1. objects[tr] \in Record
  <2>1. objects \in Seq(Record) /\ tr \in DOMAIN objects
    BY DEF Found
  <2> QED
    BY <2>1, ElementOfSeq
<1> QED
  BY <1>1 DEF Found, OneChanges

Becomes(objects, tr, e) == transfers' = [objects EXCEPT ![tr] = e]

\* What a step makes of the object it found.
LEMMA FoundBecomes ==
  ASSUME NEW m, NEW tr, NEW objects, NEW list, Found(objects, list, m, tr),
         NEW e \in Record, e.of = m.t, Becomes(objects, tr, e)
  PROVE  OneChanges(tr, m.t) /\ transfers'[tr] = e
<1>1. objects \in Seq(Record) /\ tr \in DOMAIN objects
  BY DEF Found
<1>2. /\ transfers' \in Seq(Record) /\ DOMAIN transfers' = DOMAIN objects /\ transfers'[tr] = e
      /\ \A ur \in DOMAIN objects : ur # tr => transfers'[ur] = objects[ur]
  BY <1>1, Updated DEF Becomes
<1> QED
  BY <1>2 DEF Found, OneChanges

\* What is left to show when a message has arrived.
LEMMA ArrivalRest ==
  ASSUME IInv, wire # <<>>, NEW m, m = Head(wire), ~m.isEmpty, wire' = Tail(wire),
         UNCHANGED <<peer, application, spins>>, NEW tr, OneChanges(tr, m.t), Objects', Numbers',
         FTList' \in [DOMAIN FTList' -> DOMAIN transfers'], DOMAIN FTList' \subseteq Nat,
         Paced(m.t)', Coming(m.t)',
         \A a \in Messages : a.t = m.t /\ Fits(a) /\ InOrder(m, a) => Fits(a)',
         /\ Accepted(m.t) => Accepted(m.t)'
         /\ In(m.t, {"TRANSFER", "BYE"}) => In(m.t, {"TRANSFER", "BYE"})',
         \/ answers' = answers /\ AnswersToCome(m.t)' <= AnswersToCome(m.t)
         \/ \E kind \in AnswerKinds :
              /\ Answer(m.t, kind) /\ AnswersToCome(m.t)' + 1 <= AnswersToCome(m.t)
              /\ \A a : a.t = m.t /\ a.kind = kind => ToldOf(a)',
         signals' \in Seq(SignalRecord), ftid' \in Nat, files' \in [FtIds -> Seq(Chunk)],
         OwnIds', Heard', Data', Finished'
  PROVE  IInv'
<1>1. /\ m.t \in Transfers /\ m.id \in Nat
      /\ phase' = phase /\ lastId' = lastId /\ sent' = sent
  BY HeadOfWire DEF peer
<1>2. (\A u : u # m.t => Same(u)) /\ Known(m.t)'
  BY Views DEF IInv
<1>4. Room' /\ answers' \in Seq(AnswerRecord)
  BY <1>1, <1>2, AnswerRoom DEF IInv
<1>5. Types'
  <2>1. transfers' \in Seq(Record) /\ DOMAIN transfers' = DOMAIN transfers \union {tr}
    BY DEF OneChanges
  <2>4. spins' \in BOOLEAN
    BY DEF IInv, Types, TypeOK
  <2> QED
    BY <1>4, <2>1, <2>4, ChatTypes DEF IInv
<1>6. Pace'
  <2>1. ASSUME NEW u \in Transfers, u # m.t PROVE Paced(u)'
    BY <1>1, <1>2, <2>1, SameIsKept, PaceKept DEF IInv, Pace
  <2> QED
    BY <2>1 DEF Pace
<1>7. Script'
  <2>1. \A u \in Transfers : u # m.t => Kept(u)
    BY <1>2, SameIsKept
  <2> QED
    BY <1>2, <2>1, TailScript DEF IInv
<1>8. Told'
  <2>1. \A u : /\ Known(u) => Known(u)'
               /\ Accepted(u) => Accepted(u)'
               /\ In(u, {"TRANSFER", "BYE"}) => In(u, {"TRANSFER", "BYE"})'
    BY <1>2 DEF Same
  <2>2. \/ answers' = answers
        \/ \E a \in AnswerRecord : answers' = Append(answers, a) /\ ToldOf(a)'
    <3>1. ASSUME NEW kind \in AnswerKinds, Answer(m.t, kind),
                 \A a : a.t = m.t /\ a.kind = kind => ToldOf(a)'
          PROVE  \E a \in AnswerRecord : answers' = Append(answers, a) /\ ToldOf(a)'
      <4>1. PICK a \in AnswerRecord : answers' = Append(answers, a) /\ a.t = m.t /\ a.kind = kind
        BY <1>1, <3>1, AnswerAdded DEF IInv
      <4> QED
        BY <3>1, <4>1
    <3> QED
      BY <3>1
  <2> QED
    BY <2>1, <2>2, ToldKept DEF IInv
<1> QED
  BY <1>4, <1>5, <1>6, <1>7, <1>8 DEF IInv

\* The same where its transfer goes on.
LEMMA ArrivalKeeps ==
  ASSUME IInv, wire # <<>>, NEW m, m = Head(wire), ~m.isEmpty, wire' = Tail(wire),
         UNCHANGED <<peer, application, spins>>, NEW tr, OneChanges(tr, m.t), Entry(FTList', tr, m.id),
         transfers'[tr].step \in {"INVITATION", "NEGOTIATION", "TRANSFER"}, TypeFits(transfers'[tr]),
         transfers'[tr].step = "INVITATION" => m.id = Base[m.t] + 1,
         Paced(m.t)', Coming(m.t)',
         \A a \in Messages : a.t = m.t /\ Fits(a) /\ InOrder(m, a) => Fits(a)',
         /\ Accepted(m.t) => Accepted(m.t)'
         /\ In(m.t, {"TRANSFER", "BYE"}) => In(m.t, {"TRANSFER", "BYE"})',
         \/ answers' = answers /\ AnswersToCome(m.t)' <= AnswersToCome(m.t)
         \/ \E kind \in AnswerKinds :
              /\ Answer(m.t, kind) /\ AnswersToCome(m.t)' + 1 <= AnswersToCome(m.t)
              /\ \A a : a.t = m.t /\ a.kind = kind => ToldOf(a)',
         signals' \in Seq(SignalRecord), ftid' \in Nat, files' \in [FtIds -> Seq(Chunk)],
         OwnIds', Heard', Data', Finished'
  PROVE  IInv'
<1>1. Objects' /\ Numbers'
  BY Arrives
<1>2. FTList' \in [DOMAIN FTList' -> DOMAIN transfers']
  BY DEF Entry, OneChanges
<1>3. m.id \in Nat
  BY HeadOfWire
<1>4. DOMAIN FTList' \subseteq Nat
  BY <1>3, EntryTypes DEF Entry, IInv
<1> QED
  BY <1>1, <1>2, <1>4, ArrivalRest

-----------------------------------------------------------------------------
(* Invitations *)

\* An offer is as it was when its Transfer changes in another respect.
LEMMA OffersOfOne ==
  ASSUME Objects, NEW t, NEW tr, OneChanges(tr, t),
         tr \in DOMAIN transfers /\ IsOffered(tr) => IsOffered(tr)' /\ transfers'[tr].ftId = transfers[tr].ftId
  PROVE  /\ OffersLast
         /\ (IsOffered(tr)' => tr \in DOMAIN transfers /\ IsOffered(tr)) => OffersStay
<1>1. /\ DOMAIN transfers' = DOMAIN transfers \union {tr} /\ transfers'[tr].of = t
      /\ \A ur \in DOMAIN transfers : ur # tr => transfers'[ur] = transfers[ur]
      /\ tr \in DOMAIN transfers => transfers[tr].of = t
  BY DEF OneChanges
<1>2. \A ur \in DOMAIN transfers : ur # tr => (IsOffered(ur)' <=> IsOffered(ur))
  BY <1>1 DEF IsOffered
<1>3. \A ur \in DOMAIN transfers : ur \in DOMAIN transfers' /\ transfers'[ur].of = transfers[ur].of
  BY <1>1
<1>4. ASSUME IsOffered(tr)' => tr \in DOMAIN transfers /\ IsOffered(tr),
             NEW ur \in DOMAIN transfers', IsOffered(ur)'
      PROVE  ur \in DOMAIN transfers /\ IsOffered(ur)
  <2>1. CASE ur = tr
    BY <1>4, <2>1
  <2>2. CASE ur # tr
    BY <1>1, <1>2, <1>4, <2>2
  <2> QED
    BY <2>1, <2>2
<1>5. ASSUME NEW ur \in DOMAIN transfers, IsOffered(ur)
      PROVE  IsOffered(ur)' /\ transfers'[ur].ftId = transfers[ur].ftId
  <2>1. CASE ur = tr
    BY <1>5, <2>1
  <2>2. CASE ur # tr
    BY <1>1, <1>2, <1>5, <2>2
  <2> QED
    BY <2>1, <2>2
<1> QED
  BY <1>3, <1>4, <1>5 DEF OffersStay, OffersLast

\* What a part of an invitation finds.
PartFound(m, tr) ==
  /\ phase[m.t] # "new" /\ phase[m.t] # "ready" /\ sent[m.t] = 0
  /\ ~In(m.t, {"NEGOTIATION", "TRANSFER", "BYE"}) /\ ~Accepted(m.t)
  /\ phase[m.t] \in {"accepted", "asked"} => Kind[m.t] # "FILE"
  /\ phase[m.t] # "asked"
  /\ m.nr \in 1 .. Parts[m.t] /\ (m.isFinished <=> m.nr = Parts[m.t]) /\ m.id = Base[m.t] + 1
  /\ \A a : a.t = m.t /\ Fits(a) /\ InOrder(m, a) /\ ~a.isEmpty /\ a.step \in Steps =>
       \/ a.step = "NULL" /\ m.nr < a.nr /\ a.nr \in 1 .. Parts[m.t]
       \/ a.step = "BYE" /\ phase[m.t] = "closed"

\* A part of an invitation finds a Transfer that is still being invited.
LEMMA PartFinds ==
  ASSUME IInv, wire # <<>>, NEW m, m = Head(wire), ~m.isEmpty, StepOf(m) = "INVITATION", NEW tr
  PROVE  PartFound(m, tr)
<1>1. m.t \in Transfers /\ m.nr \in Nat /\ Fits(m) /\ IsPart(m) /\ m.step \in Steps
  BY HeadOfWire DEF StepOf, IsPart
<1>2. PartFits(m) /\ phase[m.t] # "new"
  BY <1>1 DEF Fits
<1>3. ~In(m.t, {"NEGOTIATION", "TRANSFER", "BYE"})
  BY <1>2 DEF PartFits
<1>4. ~In(m.t, {"NEGOTIATION"}) /\ ~In(m.t, {"TRANSFER"}) /\ ~In(m.t, {"BYE"})
  BY <1>3 DEF In
<1>5. ~Accepted(m.t)
  <2> SUFFICES ASSUME Accepted(m.t) PROVE FALSE
    OBVIOUS
  <2>1. PICK ur \in DOMAIN transfers : transfers[ur].of = m.t /\ transfers[ur].step # "INVITATION"
    BY <1>1, AcceptedFile
  <2>2. transfers[ur].step \in {"NEGOTIATION", "TRANSFER", "BYE"}
    BY <2>1 DEF IInv, Objects
  <2> QED
    BY <1>3, <2>1, <2>2 DEF In
<1>6. /\ phase[m.t] # "ready" /\ sent[m.t] = 0
      /\ phase[m.t] \in {"accepted", "asked"} => Kind[m.t] # "FILE"
      /\ phase[m.t] # "asked"
  <2>1. Paced(m.t)
    BY <1>1 DEF IInv, Pace
  <2>2. sent[m.t] \in Nat
    BY <1>1, OtherTypes DEF IInv
  <2> QED
    BY <1>4, <1>5, <2>1, <2>2 DEF Paced
<1>7. ASSUME NEW a, a.t = m.t, Fits(a), InOrder(m, a), ~a.isEmpty, a.step \in Steps
      PROVE  \/ a.step = "NULL" /\ m.nr < a.nr /\ a.nr \in 1 .. Parts[m.t]
             \/ a.step = "BYE" /\ phase[m.t] = "closed"
  <2>1. CASE IsPart(a)
    <3>1. m.nr < a.nr /\ a.nr \in 1 .. Parts[m.t] /\ (a.step = "INVITATION" <=> a.nr = 1)
      BY <1>1, <1>7, <2>1 DEF InOrder, Fits, PartFits
    <3>2. m.nr \in 1 .. Parts[m.t]
      BY <1>2 DEF PartFits
    <3>3. a.nr # 1
      BY <3>1, <3>2, <1>1
    <3> QED
      BY <2>1, <3>1, <3>3 DEF IsPart
  <2>2. a.step # "NEGOTIATION" /\ a.step # "TRANSFER"
    BY <1>4, <1>7 DEF Fits, RequestFits, DataFits
  <2>3. a.step = "BYE" => phase[m.t] = "closed"
    BY <1>7 DEF Fits, ByeFits
  <2> QED
    BY <1>7, <2>1, <2>2, <2>3 DEF IsPart, Steps
<1> QED
  BY <1>2, <1>3, <1>5, <1>6, <1>7 DEF PartFound, PartFits

\* What comes after a part of an invitation fits when it has arrived.
LEMMA AfterPart ==
  ASSUME IInv, NEW m, m.t \in Transfers, NEW tr, PartFound(m, tr), UNCHANGED peer, Known(m.t)', ~In(m.t, {"BYE"})',
         \/ ~m.isFinished /\ ~In(m.t, {"NEGOTIATION", "TRANSFER", "BYE"})'
         \/ m.isFinished,
         NEW a \in Messages, a.t = m.t, Fits(a), InOrder(m, a)
  PROVE  Fits(a)'
<1>1. a.step \in Steps /\ a.nr \in Nat
  BY DEF Messages
<1>2. phase' = phase /\ lastId' = lastId /\ sent' = sent
  BY DEF peer
<1>3. phase'[a.t] # "new" /\ Base[a.t] < a.id /\ a.id <= lastId'[a.t]
  BY <1>2 DEF Fits
<1>4. CASE a.isEmpty
  BY <1>3, <1>4 DEF Fits, IsPart
<1>5. CASE ~a.isEmpty
  <2>1. \/ a.step = "NULL" /\ m.nr < a.nr /\ a.nr \in 1 .. Parts[m.t]
        \/ a.step = "BYE" /\ phase[m.t] = "closed"
    BY <1>1, <1>5 DEF PartFound
  <2>2. CASE a.step = "BYE"
    <3>1. ByeFits(a)
      BY <1>5, <2>2 DEF Fits
    <3>2. ByeFits(a)'
      BY <1>2, <3>1 DEF ByeFits
    <3> QED
      BY <1>3, <2>2, <3>2 DEF Fits, IsPart
  <2>3. CASE a.step = "NULL"
    <3>1. m.nr < a.nr /\ a.nr \in 1 .. Parts[m.t] /\ Parts[m.t] \in Nat
      BY <2>1, <2>3, Constants
    <3>2. ~m.isFinished
      BY <1>1, <3>1 DEF PartFound
    <3>3. PartFits(a)
      BY <1>5, <2>3 DEF Fits, IsPart
    <3>4. PartFits(a)'
      BY <2>3, <3>2, <3>3 DEF PartFits
    <3> QED
      BY <1>3, <2>3, <3>4 DEF Fits, IsPart
  <2> QED
    BY <2>1, <2>2, <2>3
<1> QED
  BY <1>4, <1>5

\* A part of an invitation that is not the last.
LEMMA InvitationGoesOn ==
  ASSUME IInv, wire # <<>>, NEW m, m = Head(wire), ~m.isEmpty, StepOf(m) = "INVITATION", ~m.isFinished,
         wire' = Tail(wire), UNCHANGED <<peer, application, spins, answers, ftid, signals, files>>,
         NEW tr, NEW objects, Found(objects, FTList', m, tr), transfers' = objects
  PROVE  IInv'
<1>0. tr \in DOMAIN transfers => transfers[tr].step = "INVITATION" /\ transfers[tr].of = m.t
  BY DEF Found, StepOf
<1>1. m.t \in Transfers /\ PartFound(m, tr)
  BY HeadOfWire, PartFinds
<1>2. OneChanges(tr, m.t) /\ transfers'[tr] = objects[tr] /\ transfers'[tr].step = "INVITATION" /\ transfers'[tr].of = m.t
  BY ZenonT(60), FoundStays DEF Found
<1>3. /\ \A u : u # m.t => Same(u)
      /\ Known(m.t)' /\ (\A steps : In(m.t, steps)' <=> transfers'[tr].step \in steps)
      /\ Accepted(m.t)' <=> transfers'[tr].hasDestination
      /\ Prepared(m.t)' <=> transfers'[tr].p2pType = "NULL"
  BY <1>2, Views DEF IInv
<1>4. ~In(m.t, {"NEGOTIATION", "TRANSFER", "BYE"})' /\ ~In(m.t, {"TRANSFER", "BYE"})' /\ ~In(m.t, {"BYE"})' /\ ~In(m.t, {"TRANSFER"})'
  BY <1>2, <1>3
<1>5. ~transfers'[tr].hasDestination /\ ~Accepted(m.t)' /\ ~Accepted(m.t)
  <2>1. ~Accepted(m.t)
    BY <1>1 DEF PartFound
  <2>2. tr \in DOMAIN transfers => ~transfers[tr].hasDestination
    BY <2>1 DEF Accepted, Found
  <2>3. ~transfers'[tr].hasDestination
    BY <1>2, <2>2, RecordTypes DEF Found, IInv
  <2> QED
    BY <1>3, <2>1, <2>3
<1>6. TypeFits(transfers'[tr])
  <2>1. CASE tr \in DOMAIN transfers
    BY <1>2, <2>1 DEF Found, TypeFits, IInv, Objects
  <2>2. CASE tr \notin DOMAIN transfers
    BY <1>2, <2>2 DEF Found, TypeFits
  <2> QED
    BY <2>1, <2>2
<1>7. phase' = phase /\ lastId' = lastId /\ sent' = sent
  BY DEF peer
<1>8. Paced(m.t)'
  <2>1. Paced(m.t)
    BY <1>1 DEF IInv, Pace
  <2> QED
    BY <1>1, <1>3, <1>4, <1>5, <1>7, <2>1 DEF Paced, PartFound
<1>9. Coming(m.t)'
  <2>1. Coming(m.t)
    BY <1>1 DEF IInv, Script
  <2>2. ~Known(m.t) \/ In(m.t, {"INVITATION"})
    <3>1. CASE tr \in DOMAIN transfers
      BY <1>0, <3>1 DEF In
    <3>2. CASE tr \notin DOMAIN transfers
      BY <3>2 DEF Found
    <3> QED
      BY <3>1, <3>2
  <2>3. phase[m.t] # "new"
    BY <1>1 DEF PartFound
  <2>4. PICK n \in DOMAIN wire : IsPart(wire[n]) /\ wire[n].t = m.t /\ wire[n].isFinished
    BY <2>1, <2>2, <2>3 DEF Coming
  <2>5. n - 1 \in DOMAIN wire' /\ wire'[n - 1] = wire[n]
    BY <2>4, WireShrinks DEF IInv
  <2>6. \E i \in DOMAIN wire' : IsPart(wire'[i]) /\ wire'[i].t = m.t /\ wire'[i].isFinished
    BY <2>4, <2>5
  <2> QED
    BY <1>3, <1>4, <2>6 DEF Coming, IsPart
<1>10. \A a \in Messages : a.t = m.t /\ Fits(a) /\ InOrder(m, a) => Fits(a)'
  BY <1>1, <1>3, <1>4, AfterPart
<1>11. AnswersToCome(m.t)' = AnswersToCome(m.t)
  <2>1. ~In(m.t, {"NEGOTIATION", "TRANSFER", "BYE"}) /\ ~In(m.t, {"TRANSFER", "BYE"})
    BY <1>1 DEF PartFound, In
  <2>2. Kind[m.t] = "EMOTICON" => (Prepared(m.t)' <=> Prepared(m.t))
    <3>1. CASE tr \in DOMAIN transfers
      <4>1. Prepared(m.t) <=> transfers[tr].p2pType = "NULL"
        BY <3>1, OneObject DEF Found, IInv
      <4> QED
        BY <1>2, <1>3, <3>1, <4>1 DEF Found
    <3>2. CASE tr \notin DOMAIN transfers
      <4>1. ~Prepared(m.t)
        BY <3>2, NoObject DEF Found
      <4> QED
        BY <1>2, <1>3, <3>2, <4>1 DEF Found
    <3> QED
      BY <3>1, <3>2
  <2>3. CASE Kind[m.t] = "FILE"
    BY <1>4, <1>5, <2>1, <2>3 DEF AnswersToCome
  <2>4. CASE Kind[m.t] = "EMOTICON"
    BY <1>4, <2>1, <2>2, <2>4 DEF AnswersToCome
  <2>5. CASE Kind[m.t] \notin {"FILE", "EMOTICON"}
    BY <2>5 DEF AnswersToCome
  <2> QED
    BY <2>3, <2>4, <2>5
<1>12. OffersStay
  <2>1. ~IsOffered(tr)'
    BY <1>2 DEF IsOffered
  <2>2. tr \in DOMAIN transfers => ~IsOffered(tr)
    BY <1>0 DEF IsOffered
  <2> QED
    BY <1>2, <2>1, <2>2, OffersOfOne DEF IInv
<1>21. Entry(FTList', tr, m.id) /\ m.id = Base[m.t] + 1
  BY <1>1 DEF Found, PartFound
<1>13. Objects'
  BY <1>2, <1>6, <1>21, Arrives
<1>14. \A ur \in DOMAIN transfers' : ur # tr => ur \in DOMAIN transfers /\ transfers'[ur] = transfers[ur]
  BY <1>2 DEF OneChanges
<1>15. OwnIds' /\ Heard'
  <2>1. app' = app /\ offered' = offered /\ files' = files /\ signals' = signals /\ ftid' = ftid
    BY DEF application
  <2>2. SameIncoming /\ SameDestinations
    BY <1>5, <1>14, <2>1 DEF SameIncoming, SameDestinations
  <2>3. \A i \in FtIds : i >= ftid => app'[i] = "none" /\ files'[i] = <<>>
    BY <2>1 DEF IInv, OwnIds
  <2> QED
    BY <1>12, <1>13, <2>1, <2>2, <2>3, OwnIdsKept, HeardKept DEF IInv
<1>16. ~transfers'[tr].hasTransfered
  <2>1. CASE tr \in DOMAIN transfers
    BY <1>2, <1>5, <2>1, RecordTypes DEF Found, IInv, Data
  <2>2. CASE tr \notin DOMAIN transfers
    BY <1>2, <2>2 DEF Found
  <2> QED
    BY <2>1, <2>2
<1>17. Data' /\ Finished'
  <2>1. SameData
    <3>1. \A t : ~IsData(m, t)
      BY DEF IsData, StepOf
    <3> QED
      BY <3>1, NoDataTaken DEF IInv
  <2>2. app' = app /\ offered' = offered /\ files' = files /\ signals' = signals /\ outcomes' = outcomes
    BY DEF application
  <2>3. Data'
    <3>1. \A ur \in DOMAIN transfers' : transfers'[ur].hasDestination => ur \in DOMAIN transfers /\ transfers[ur].hasDestination
      BY <1>5, <1>14
    <3>2. \A ur \in DOMAIN transfers' : transfers'[ur].hasTransfered =>
            ur \in DOMAIN transfers /\ transfers[ur].hasTransfered /\ transfers'[ur].hasDestination
      BY <1>14, <1>16 DEF IInv, Data
    <3> QED
      BY <1>7, <1>12, <2>1, <2>2, <3>1, <3>2, DataKept DEF IInv, OffersStay
  <2>4. Finished'
    <3>1. \A ur \in DOMAIN transfers : transfers[ur].hasTransfered => transfers'[ur].hasTransfered
      BY <1>2 DEF OneChanges, Found
    <3>2. \A i : IsFinished(i) => IsFinished(i)'
      BY <1>12, <3>1, FinishedStays DEF IInv, OffersStay
    <3> QED
      BY <2>2, <3>2, FinishedKept DEF IInv, Finished
  <2> QED
    BY <2>3, <2>4
<1>18. signals' \in Seq(SignalRecord) /\ ftid' \in Nat /\ files' \in [FtIds -> Seq(Chunk)]
  BY Sizes DEF IInv, Types, TypeOK
<1>19. AnswersToCome(m.t)' <= AnswersToCome(m.t)
  BY <1>11, NeededParts
<1>20. /\ Accepted(m.t) => Accepted(m.t)'
       /\ In(m.t, {"TRANSFER", "BYE"}) => In(m.t, {"TRANSFER", "BYE"})'
  BY <1>1, <1>5 DEF PartFound, In
<1> QED
  BY <1>2, <1>6, <1>8, <1>9, <1>10, <1>15, <1>17, <1>18, <1>19, <1>20, <1>21, ArrivalKeeps

\* How the last part of an invitation changes its Transfer.
Invited(e, o) ==
  e = [o EXCEPT !.step = "NEGOTIATION", !.ftId = IF o.p2pType = "FILE" THEN ftid ELSE @]

\* The last part of an invitation: a file is offered, a picture accepted.
LEMMA InvitationEnds ==
  ASSUME IInv, wire # <<>>, NEW m, m = Head(wire), ~m.isEmpty, StepOf(m) = "INVITATION", m.isFinished,
         wire' = Tail(wire), UNCHANGED <<peer, application, spins, files>>,
         NEW tr, NEW objects, Found(objects, FTList', m, tr), NEW type, type = objects[tr].p2pType,
         NEW e, Invited(e, objects[tr]),
         Becomes(objects, tr, e),
         NEW s, s = [Signal("incoming", ftid) EXCEPT !.transfer = tr],
         \/ type = "FILE" /\ ftid' = ftid + 1 /\ Emit(<<s>>)
         \/ type # "FILE" /\ UNCHANGED <<ftid, signals>>,
         \/ type = "EMOTICON" /\ Answer(objects[tr].of, "200OK")
         \/ type # "EMOTICON" /\ UNCHANGED answers
  PROVE  IInv'
<1>0. tr \in DOMAIN transfers => transfers[tr].step = "INVITATION" /\ transfers[tr].of = m.t
  BY DEF Found, StepOf
<1>1. m.t \in Transfers /\ PartFound(m, tr)
  BY HeadOfWire, PartFinds
<1>2. /\ objects[tr] \in Record /\ objects[tr].of = m.t /\ type \in {Kind[m.t], "NULL"}
      /\ type = "FILE" <=> Kind[m.t] = "FILE"
      /\ type = "NULL" => Kind[m.t] = "EMOTICON"
  <2>1. objects[tr] \in Record
    <3>1. objects \in Seq(Record) /\ tr \in DOMAIN objects
      BY DEF Found
    <3> QED
      BY <3>1, ElementOfSeq
  <2>2. type = Kind[m.t] \/ (Kind[m.t] = "EMOTICON" /\ type = "NULL")
    BY <1>0 DEF Found, IInv, Objects
  <2>3. Kind[m.t] # "NULL"
    BY <1>1, Constants
  <2> QED
    BY <2>1, <2>2, <2>3 DEF Found
<1>3. type = "FILE" => ftid \in FtIds
  BY <1>1, <1>2, NextOffer DEF PartFound
<1>4. /\ e \in Record /\ e.of = m.t /\ e.step = "NEGOTIATION" /\ e.p2pType = type
      /\ e.ftId = (IF type = "FILE" THEN ftid ELSE objects[tr].ftId)
      /\ e.hasDestination = objects[tr].hasDestination /\ e.hasTransfered = objects[tr].hasTransfered
  <2>1. PICK id : id = (IF type = "FILE" THEN ftid ELSE objects[tr].ftId)
    OBVIOUS
  <2>2. id \in FtIds \union StaleIds
    BY <1>2, <1>3, <2>1 DEF Record
  <2>3. e = [objects[tr] EXCEPT !.step = "NEGOTIATION", !.ftId = id]
    BY <2>1 DEF Invited
  <2> QED
    BY <1>2, <2>1, <2>2, <2>3 DEF Record, Steps
<1>5. OneChanges(tr, m.t) /\ transfers'[tr] = e
  BY <1>4, FoundBecomes
<1>6. /\ \A u : u # m.t => Same(u)
      /\ Known(m.t)' /\ (\A steps : In(m.t, steps)' <=> e.step \in steps)
      /\ Accepted(m.t)' <=> e.hasDestination
      /\ Prepared(m.t)' <=> e.p2pType = "NULL"
  <2>1. /\ \A u : u # m.t => Same(u)
        /\ Known(m.t)' /\ (\A steps : In(m.t, steps)' <=> transfers'[tr].step \in steps)
        /\ Accepted(m.t)' <=> transfers'[tr].hasDestination
        /\ Prepared(m.t)' <=> transfers'[tr].p2pType = "NULL"
    BY <1>5, Views DEF IInv
  <2> QED
    BY <1>5, <2>1
<1>7. ~In(m.t, {"BYE"})' /\ ~In(m.t, {"TRANSFER"})' /\ ~In(m.t, {"TRANSFER", "BYE"})' /\ ~In(m.t, {"INVITATION"})'
      /\ In(m.t, {"NEGOTIATION", "TRANSFER", "BYE"})'
  BY <1>4, <1>6
<1>8. ~e.hasDestination /\ ~Accepted(m.t)' /\ ~Accepted(m.t)
  <2>1. ~Accepted(m.t)
    BY <1>1 DEF PartFound
  <2>2. tr \in DOMAIN transfers => ~transfers[tr].hasDestination
    BY <2>1 DEF Accepted, Found
  <2>3. ~e.hasDestination
    BY <1>4, <2>2, RecordTypes DEF Found, IInv
  <2> QED
    BY <1>6, <2>1, <2>3
<1>9. ~e.hasTransfered
  <2>1. CASE tr \in DOMAIN transfers
    <3>1. ~transfers[tr].hasDestination
      BY <1>8, <1>0, <2>1 DEF Accepted
    <3>2. ~transfers[tr].hasTransfered
      BY <2>1, <3>1 DEF IInv, Data
    <3> QED
      BY <1>4, <2>1, <3>2 DEF Found
  <2>2. CASE tr \notin DOMAIN transfers
    BY <1>4, <2>2 DEF Found
  <2> QED
    BY <2>1, <2>2
<1>10. TypeFits(transfers'[tr])
  BY <1>2, <1>4, <1>5 DEF TypeFits
<1>11. phase' = phase /\ lastId' = lastId /\ sent' = sent /\ app' = app /\ offered' = offered /\ outcomes' = outcomes /\ files' = files
  BY DEF peer, application
<1>12. Paced(m.t)'
  <2>1. Paced(m.t)
    BY <1>1 DEF IInv, Pace
  <2> QED
    BY <1>1, <1>6, <1>7, <1>8, <1>11, <2>1 DEF Paced, PartFound
<1>13. Coming(m.t)'
  BY <1>6, <1>7 DEF Coming
<1>14. \A a \in Messages : a.t = m.t /\ Fits(a) /\ InOrder(m, a) => Fits(a)'
  BY <1>1, <1>6, <1>7, AfterPart
<1>15. /\ ~In(m.t, {"NEGOTIATION", "TRANSFER", "BYE"}) /\ ~In(m.t, {"TRANSFER", "BYE"})
       /\ Kind[m.t] = "EMOTICON" => (Prepared(m.t)' <=> Prepared(m.t))
       /\ type = "EMOTICON" => ~Prepared(m.t)
  <2>1. ~In(m.t, {"NEGOTIATION", "TRANSFER", "BYE"}) /\ ~In(m.t, {"TRANSFER", "BYE"})
    BY <1>1 DEF PartFound, In
  <2>2. CASE tr \in DOMAIN transfers
    <3>1. Prepared(m.t) <=> transfers[tr].p2pType = "NULL"
      BY <1>0, <2>2, OneObject DEF IInv
    <3> QED
      BY <1>4, <1>6, <2>1, <2>2, <3>1 DEF Found
  <2>3. CASE tr \notin DOMAIN transfers
    <3>1. ~Prepared(m.t)
      BY <2>3, NoObject DEF Found
    <3>2. type = Kind[m.t]
      BY <2>3 DEF Found
    <3> QED
      BY <1>4, <1>6, <2>1, <3>1, <3>2
  <2> QED
    BY <2>2, <2>3
<1>16. \/ answers' = answers /\ AnswersToCome(m.t)' <= AnswersToCome(m.t)
       \/ \E kind \in AnswerKinds :
            /\ Answer(m.t, kind) /\ AnswersToCome(m.t)' + 1 <= AnswersToCome(m.t)
            /\ \A a : a.t = m.t /\ a.kind = kind => ToldOf(a)'
  <2>1. CASE type = "EMOTICON"
    <3>1. Answer(m.t, "200OK") /\ Kind[m.t] = "EMOTICON"
      BY <1>2, <2>1
    <3>2. \A a : a.t = m.t /\ a.kind = "200OK" => ToldOf(a)'
      BY <1>6, <3>1 DEF ToldOf
    <3>3. AnswersToCome(m.t) = 1 + One(~Prepared(m.t)) /\ AnswersToCome(m.t)' = 0 + One(~Prepared(m.t)')
      BY <1>7, <1>15, <3>1 DEF AnswersToCome, One
    <3>4. One(~Prepared(m.t)') = 1 /\ One(~Prepared(m.t)) = 1
      BY <1>15, <2>1, <3>1 DEF One
    <3>5. AnswersToCome(m.t)' + 1 <= AnswersToCome(m.t)
      BY <3>3, <3>4
    <3>6. "200OK" \in AnswerKinds
      BY DEF AnswerKinds
    <3> QED
      BY <3>1, <3>2, <3>5, <3>6
  <2>2. CASE type # "EMOTICON"
    <3>1. answers' = answers
      BY <2>2
    <3>2. AnswersToCome(m.t) \in Nat /\ AnswersToCome(m.t)' \in Nat
      BY NeededParts
    <3>3. CASE Kind[m.t] = "FILE"
      <4>1. AnswersToCome(m.t)' = AnswersToCome(m.t)
        BY <1>7, <1>8, <1>15, <3>3 DEF AnswersToCome
      <4> QED
        BY <3>1, <3>2, <4>1
    <3>4. CASE Kind[m.t] = "EMOTICON"
      <4>1. PICK x \in {0, 1} : x = One(~Prepared(m.t)) /\ x = One(~Prepared(m.t)')
        BY <1>15, <3>4 DEF One
      <4>2. AnswersToCome(m.t) = 1 + x
        BY <1>15, <3>4, <4>1 DEF AnswersToCome, One
      <4>3. AnswersToCome(m.t)' = 0 + x
        BY <1>7, <3>4, <4>1 DEF AnswersToCome, One
      <4> QED
        BY <3>1, <4>2, <4>3
    <3>5. CASE Kind[m.t] \notin {"FILE", "EMOTICON"}
      <4>1. AnswersToCome(m.t)' = 0 /\ AnswersToCome(m.t) = 0
        BY <3>5 DEF AnswersToCome
      <4> QED
        BY <3>1, <4>1
    <3> QED
      BY <3>3, <3>4, <3>5
  <2> QED
    BY <2>1, <2>2
<1>17. Entry(FTList', tr, m.id) /\ m.id = Base[m.t] + 1
  BY <1>1 DEF Found, PartFound
<1>18. transfers'[tr].step \in {"INVITATION", "NEGOTIATION", "TRANSFER"} /\ transfers'[tr].step # "INVITATION"
  BY <1>4, <1>5
<1>19. Objects'
  BY <1>5, <1>10, <1>17, <1>18, Arrives
<1>20. \A ur \in DOMAIN transfers' : ur # tr => ur \in DOMAIN transfers /\ transfers'[ur] = transfers[ur]
  BY <1>5 DEF OneChanges
<1>21. ftid \in Nat /\ 0 <= ftid
  BY OtherTypes DEF IInv
<1>22. /\ OwnIds' /\ Heard' /\ signals' \in Seq(SignalRecord) /\ ftid' \in Nat
       /\ \A p \in DOMAIN signals' : signals'[p].kind = "finished" => \E q \in DOMAIN signals : signals[q] = signals'[p]
  <2>1. CASE type = "FILE"
    <3>1. /\ s \in SignalRecord /\ s.kind = "incoming" /\ s.ftId = ftid /\ s.transfer = tr
      <4>1. tr \in Nat
        <5>1. tr \in DOMAIN transfers' /\ transfers' \in Seq(Record)
          BY <1>5 DEF OneChanges
        <5>2. DOMAIN transfers' = 1 .. Len(transfers') /\ Len(transfers') \in Nat
          BY <5>1, LenProperties
        <5> QED
          BY <5>1, <5>2
      <4> QED
        BY <1>3, <2>1, <4>1 DEF Signal, SignalRecord
    <3>2. Emit(<<s>>) /\ ftid' = ftid + 1
      BY <2>1
    <3>3. transfers'[tr].step = "NEGOTIATION" /\ transfers'[tr].ftId = ftid /\ ~transfers'[tr].hasDestination
      BY <1>4, <1>5, <1>8, <2>1
    <3>4. OwnIds' /\ Heard'
      BY <1>1, <1>2, <1>5, <1>15, <1>19, <2>1, <3>1, <3>2, <3>3, OfferMade
    <3>5. signals' \in Seq(SignalRecord) /\ ftid' \in Nat
      BY SMTT(60), <1>21, <3>1, <3>2, SignalAdded DEF IInv
    <3>6. \A p \in DOMAIN signals' : signals'[p].kind = "finished" => \E q \in DOMAIN signals : signals[q] = signals'[p]
      BY <3>1, <3>2, SignalAdded DEF IInv
    <3> QED
      BY <3>4, <3>5, <3>6
  <2>2. CASE type # "FILE"
    <3>1. signals' = signals /\ ftid' = ftid
      BY <2>2
    <3>2. Kind[m.t] # "FILE"
      BY <1>2, <2>2
    <3>3. ~IsOffered(tr)' /\ (tr \in DOMAIN transfers => ~IsOffered(tr))
      BY <1>0, <1>4, <1>5, <3>2 DEF IsOffered
    <3>4. OffersStay
      BY <1>5, <3>3, OffersOfOne DEF IInv
    <3>5. SameIncoming /\ SameDestinations
      BY <1>5, <1>8, <1>20, <3>1 DEF SameIncoming, SameDestinations
    <3>6. \A i \in FtIds : i >= ftid => app'[i] = "none" /\ files'[i] = <<>>
      BY <1>11 DEF IInv, OwnIds
    <3>7. OwnIds' /\ Heard'
      BY <1>11, <1>19, <3>1, <3>4, <3>5, <3>6, OwnIdsKept, HeardKept DEF IInv
    <3> QED
      BY <1>21, <3>1, <3>7, Sizes DEF IInv
  <2> QED
    BY <2>1, <2>2
<1>23. OffersLast
  <2>1. tr \in DOMAIN transfers => ~IsOffered(tr)
    BY <1>0 DEF IsOffered
  <2> QED
    BY <1>5, <2>1, OffersOfOne DEF IInv
<1>24. Data'
  <2>1. SameData
    <3>1. \A t : ~IsData(m, t)
      BY DEF IsData, StepOf
    <3> QED
      BY <3>1, NoDataTaken DEF IInv
  <2>2. \A ur \in DOMAIN transfers' : transfers'[ur].hasDestination => ur \in DOMAIN transfers /\ transfers[ur].hasDestination
    BY <1>5, <1>8, <1>20
  <2>3. \A ur \in DOMAIN transfers' : transfers'[ur].hasTransfered =>
          ur \in DOMAIN transfers /\ transfers[ur].hasTransfered /\ transfers'[ur].hasDestination
    BY <1>5, <1>9, <1>20 DEF IInv, Data
  <2> QED
    BY <1>11, <1>23, <2>1, <2>2, <2>3, DataKept DEF IInv
<1>25. Finished'
  <2>1. \A ur \in DOMAIN transfers : transfers[ur].hasTransfered => transfers'[ur].hasTransfered
    <3>1. tr \in DOMAIN transfers => ~transfers[tr].hasTransfered
      BY <1>4, <1>9, RecordTypes DEF Found, IInv
    <3> QED
      BY <1>5, <3>1 DEF OneChanges
  <2>2. \A i : IsFinished(i) => IsFinished(i)'
    BY <1>23, <2>1, FinishedStays DEF IInv
  <2>3. \A i \in FtIds : \A n \in DOMAIN outcomes'[i] : outcomes'[i][n] = "finished" => IsFinished(i)
    BY <1>11 DEF IInv, Finished
  <2> QED
    BY <1>22, <2>2, <2>3, FinishedKept DEF IInv
<1>26. /\ Accepted(m.t) => Accepted(m.t)'
       /\ In(m.t, {"TRANSFER", "BYE"}) => In(m.t, {"TRANSFER", "BYE"})'
  BY <1>8, <1>15
<1>27. files' \in [FtIds -> Seq(Chunk)]
  BY <1>11 DEF IInv, Types
<1> QED
  BY <1>5, <1>10, <1>12, <1>13, <1>14, <1>16, <1>17, <1>18, <1>22, <1>24, <1>25, <1>26, <1>27, ArrivalKeeps

-----------------------------------------------------------------------------
(* Requests, data and the end of a transfer *)

\* The Transfer of a message that is not part of an invitation is there, and was offered if it is a file.
LEMMA FoundOld ==
  ASSUME IInv, wire # <<>>, NEW m, m = Head(wire), ~m.isEmpty, StepOf(m) # "INVITATION",
         NEW tr, NEW objects, NEW list, Found(objects, list, m, tr)
  PROVE  /\ tr \in DOMAIN transfers /\ transfers[tr].of = m.t /\ objects[tr].of = m.t
         /\ transfers[tr] \in Record /\ objects[tr] \in Record /\ m.t \in Transfers
         /\ transfers[tr].step \in {"NEGOTIATION", "TRANSFER"} /\ objects[tr].step = m.step
         /\ m.step # "BYE" => transfers[tr].step = m.step
         /\ objects[tr].ftId = transfers[tr].ftId /\ objects[tr].p2pType = transfers[tr].p2pType
         /\ objects[tr].hasDestination = transfers[tr].hasDestination
         /\ objects[tr].hasTransfered = transfers[tr].hasTransfered
         /\ TypeFits(transfers[tr])
<1>1. m.step # "INVITATION" /\ m.step # "NULL" /\ StepOf(m) = m.step
  BY DEF StepOf
<1>2. tr \in DOMAIN transfers
  BY <1>1 DEF Found
<1>3. /\ transfers[tr].of = m.t /\ objects[tr].of = m.t /\ objects[tr].step = m.step
      /\ transfers[tr].step # "BYE" /\ (m.step # "BYE" => transfers[tr].step = m.step)
      /\ objects[tr].ftId = transfers[tr].ftId /\ objects[tr].p2pType = transfers[tr].p2pType
      /\ objects[tr].hasDestination = transfers[tr].hasDestination
      /\ objects[tr].hasTransfered = transfers[tr].hasTransfered
      /\ objects \in Seq(Record) /\ tr \in DOMAIN objects
  BY <1>1, <1>2 DEF Found
<1>4. transfers[tr].step \in {"INVITATION", "NEGOTIATION", "TRANSFER", "BYE"} /\ TypeFits(transfers[tr])
  BY <1>2 DEF IInv, Objects, TypeFits
<1>5. m.t \in Transfers /\ Fits(m) /\ 1 \in DOMAIN wire /\ wire[1] = m
  BY HeadOfWire
<1>6. transfers[tr].step # "INVITATION"
  <2> SUFFICES ASSUME transfers[tr].step = "INVITATION" PROVE FALSE
    OBVIOUS
  <2>1. m.step = "BYE"
    BY <1>1, <1>3
  <2>2. In(m.t, {"INVITATION"})
    BY <1>2, <1>3 DEF In
  <2>3. phase[m.t] # "new" /\ Coming(m.t)
    BY <1>5 DEF IInv, Script, Fits
  <2>4. PICK n \in DOMAIN wire : IsPart(wire[n]) /\ wire[n].t = m.t
    BY <2>2, <2>3 DEF Coming
  <2>5. n # 1
    BY <1>5, <2>1, <2>4 DEF IsPart
  <2>6. 1 < n
    BY <2>5, Sizes DEF IInv
  <2>7. InOrder(m, wire[n])
    BY <1>5, <2>6 DEF IInv, Script
  <2> QED
    BY <2>1, <2>4, <2>7 DEF InOrder, IsPart
<1>7. transfers[tr] \in Record /\ objects[tr] \in Record
  BY <1>2, <1>3, RecordTypes, ElementOfSeq DEF IInv
<1> QED
  BY <1>2, <1>3, <1>4, <1>5, <1>6, <1>7

\* The offers when a Transfer that was offered changes.
LEMMA OffersOfMoved ==
  ASSUME IInv, Objects', NEW tr \in DOMAIN transfers, NEW t, OneChanges(tr, t),
         transfers[tr].step # "INVITATION", transfers'[tr].step # "INVITATION",
         transfers'[tr].ftId = transfers[tr].ftId,
         transfers'[tr].hasDestination = transfers[tr].hasDestination,
         SameIncoming, app' = app, offered' = offered, ftid' = ftid,
         \A i \in FtIds : i >= ftid => files'[i] = <<>>
  PROVE  OffersStay /\ OffersLast /\ OwnIds' /\ Heard'
<1>1. IsOffered(tr) <=> IsOffered(tr)'
  BY DEF IsOffered, OneChanges
<1>2. OffersStay /\ OffersLast
  BY <1>1, OffersOfOne DEF IInv
<1>3. SameDestinations
  BY DEF SameDestinations, OneChanges
<1>4. \A i \in FtIds : i >= ftid => app'[i] = "none" /\ files'[i] = <<>>
  BY DEF IInv, OwnIds
<1> QED
  BY <1>2, <1>3, <1>4, OwnIdsKept, HeardKept DEF IInv

\* The data and the ends when the step of a Transfer changes.
LEMMA FilesOfMoved ==
  ASSUME IInv, NEW tr \in DOMAIN transfers, NEW t, OneChanges(tr, t), OffersLast, SameData,
         transfers'[tr].hasDestination = transfers[tr].hasDestination,
         transfers'[tr].hasTransfered = transfers[tr].hasTransfered,
         UNCHANGED <<application, files, sent>>,
         \A p \in DOMAIN signals' : signals'[p].kind = "finished" => \E q \in DOMAIN signals : signals[q] = signals'[p]
  PROVE  Data' /\ Finished'
<1>1. app' = app /\ offered' = offered /\ outcomes' = outcomes /\ files' = files /\ sent' = sent
  BY DEF application
<1>2. \A ur \in DOMAIN transfers' : /\ ur \in DOMAIN transfers
                                    /\ transfers'[ur].hasDestination = transfers[ur].hasDestination
                                    /\ transfers'[ur].hasTransfered = transfers[ur].hasTransfered
  BY DEF OneChanges
<1>3. DOMAIN transfers' = DOMAIN transfers
  BY DEF OneChanges
<1>4. Data'
  <2>1. \A ur \in DOMAIN transfers : transfers[ur].hasTransfered => transfers[ur].hasDestination
    BY DEF IInv, Data
  <2> QED
    BY <1>1, <1>2, <2>1, DataKept DEF IInv
<1>5. Finished'
  <2>1. \A i : IsFinished(i) => IsFinished(i)'
    BY <1>2, <1>3, FinishedStays DEF IInv
  <2>2. \A i \in FtIds : \A n \in DOMAIN outcomes'[i] : outcomes'[i][n] = "finished" => IsFinished(i)
    BY <1>1 DEF IInv, Finished
  <2> QED
    BY <2>1, <2>2, FinishedKept DEF IInv
<1> QED
  BY <1>4, <1>5

\* How a request changes its Transfer.
Requested(e, o) == e = [o EXCEPT !.step = "TRANSFER"]

\* A request arrives for Transfer tr, which goes on with TRANSFER.
RequestTaken(m, tr, objects, e) ==
  /\ wire # <<>> /\ m = Head(wire) /\ ~m.isEmpty /\ StepOf(m) = "NEGOTIATION"
  /\ wire' = Tail(wire) /\ UNCHANGED <<peer, application, spins, ftid, signals, files>>
  /\ Found(objects, FTList', m, tr)
  /\ Requested(e, objects[tr]) /\ Becomes(objects, tr, e)
  /\ Answer(m.t, "200OK NEGOTIATION")

\* A request for a channel is taken.
LEMMA RequestKeeps ==
  ASSUME IInv, NEW m, NEW tr, NEW objects, NEW e, RequestTaken(m, tr, objects, e)
  PROVE  IInv'
<1>0. /\ wire # <<>> /\ m = Head(wire) /\ ~m.isEmpty /\ StepOf(m) = "NEGOTIATION" /\ m.step = "NEGOTIATION"
      /\ wire' = Tail(wire) /\ peer' = peer /\ application' = application /\ UNCHANGED <<spins, ftid, signals, files>>
  BY DEF RequestTaken, StepOf
<1>0f. Found(objects, FTList', m, tr)
  BY DEF RequestTaken
<1>0b. Becomes(objects, tr, e)
  BY DEF RequestTaken
<1>0r. Requested(e, objects[tr])
  BY DEF RequestTaken
<1>0a. Answer(m.t, "200OK NEGOTIATION")
  BY DEF RequestTaken
<1>2. /\ tr \in DOMAIN transfers /\ transfers[tr].of = m.t /\ objects[tr].of = m.t
      /\ transfers[tr] \in Record /\ objects[tr] \in Record /\ m.t \in Transfers
      /\ transfers[tr].step = "NEGOTIATION"
      /\ objects[tr].ftId = transfers[tr].ftId /\ objects[tr].p2pType = transfers[tr].p2pType
      /\ objects[tr].hasDestination = transfers[tr].hasDestination
      /\ objects[tr].hasTransfered = transfers[tr].hasTransfered
      /\ TypeFits(transfers[tr])
  BY <1>0, <1>0f, FoundOld
<1>3. /\ e \in Record /\ e.of = m.t /\ e.step = "TRANSFER"
      /\ e.ftId = transfers[tr].ftId /\ e.p2pType = transfers[tr].p2pType
      /\ e.hasDestination = transfers[tr].hasDestination /\ e.hasTransfered = transfers[tr].hasTransfered
  <2>1. /\ e \in Record /\ e.of = objects[tr].of /\ e.step = "TRANSFER"
        /\ e.ftId = objects[tr].ftId /\ e.p2pType = objects[tr].p2pType
        /\ e.hasDestination = objects[tr].hasDestination /\ e.hasTransfered = objects[tr].hasTransfered
    BY <1>2, <1>0r DEF Requested, Record, Steps
  <2> QED
    BY <1>2, <2>1
<1>4. OneChanges(tr, m.t) /\ transfers'[tr] = e
  BY <1>3, <1>0f, <1>0b, FoundBecomes
<1>5. /\ \A u : u # m.t => Same(u)
      /\ Known(m.t)' /\ (\A steps : In(m.t, steps)' <=> e.step \in steps)
      /\ Accepted(m.t)' <=> e.hasDestination
      /\ Prepared(m.t)' <=> e.p2pType = "NULL"
  <2>1. /\ \A u : u # m.t => Same(u)
        /\ Known(m.t)' /\ (\A steps : In(m.t, steps)' <=> transfers'[tr].step \in steps)
        /\ Accepted(m.t)' <=> transfers'[tr].hasDestination
        /\ Prepared(m.t)' <=> transfers'[tr].p2pType = "NULL"
    BY <1>4, Views DEF IInv
  <2> QED
    BY <1>4, <2>1
<1>6. /\ \A steps : In(m.t, steps) <=> transfers[tr].step \in steps
      /\ Accepted(m.t) <=> transfers[tr].hasDestination
  BY <1>2, OneObject DEF IInv
<1>7. Accepted(m.t) /\ Accepted(m.t)' /\ Kind[m.t] = "FILE" /\ phase[m.t] \in {"asked", "closed"}
  <2>1. RequestFits(m)
    BY <1>0, HeadOfWire DEF Fits
  <2> QED
    BY <1>3, <1>5, <1>6, <2>1 DEF RequestFits
<1>8. phase' = phase /\ lastId' = lastId /\ sent' = sent /\ app' = app /\ offered' = offered /\ signals' = signals /\ files' = files
  BY <1>0 DEF peer, application
<1>9. /\ ~In(m.t, {"BYE"})' /\ In(m.t, {"TRANSFER"})' /\ In(m.t, {"TRANSFER", "BYE"})' /\ ~In(m.t, {"INVITATION"})'
      /\ ~In(m.t, {"TRANSFER", "BYE"}) /\ ~In(m.t, {"TRANSFER"}) /\ In(m.t, {"NEGOTIATION", "TRANSFER", "BYE"})
  BY <1>2, <1>3, <1>5, <1>6
<1>10. Paced(m.t)'
  <2>1. Paced(m.t)
    BY <1>2 DEF IInv, Pace
  <2> QED
    BY <1>5, <1>7, <1>8, <1>9, <2>1 DEF Paced
<1>11. Coming(m.t)'
  BY <1>5, <1>9 DEF Coming
<1>12. ASSUME NEW a \in Messages, a.t = m.t, Fits(a), InOrder(m, a) PROVE Fits(a)'
  <2>1. phase'[a.t] # "new" /\ Base[a.t] < a.id /\ a.id <= lastId'[a.t]
    BY <1>8, <1>12 DEF Fits
  <2>2. ~a.isEmpty => ~IsPart(a) /\ a.step # "NEGOTIATION" /\ a.step # "TRANSFER"
    BY <1>0, <1>9, <1>12 DEF Fits, PartFits, DataFits, InOrder
  <2>3. ~a.isEmpty /\ a.step = "BYE" => ByeFits(a)'
    BY <1>8, <1>9, <1>12 DEF Fits, ByeFits
  <2> QED
    BY <2>1, <2>2, <2>3 DEF Fits, IsPart
<1>13. \E kind \in AnswerKinds :
            /\ Answer(m.t, kind) /\ AnswersToCome(m.t)' + 1 <= AnswersToCome(m.t)
            /\ \A a : a.t = m.t /\ a.kind = kind => ToldOf(a)'
  <2>1. \A a : a.t = m.t /\ a.kind = "200OK NEGOTIATION" => ToldOf(a)'
    BY <1>5, <1>7, <1>9 DEF ToldOf
  <2>2. AnswersToCome(m.t) = 0 + 1 /\ AnswersToCome(m.t)' = 0 + 0
    BY <1>7, <1>9 DEF AnswersToCome, One
  <2>3. "200OK NEGOTIATION" \in AnswerKinds
    BY DEF AnswerKinds
  <2>4. AnswersToCome(m.t)' + 1 <= AnswersToCome(m.t)
    BY <2>2
  <2> QED
    BY <1>0a, <2>1, <2>3, <2>4
<1>14. Entry(FTList', tr, m.id)
  BY <1>0f DEF Found
<1>15. TypeFits(transfers'[tr]) /\ transfers'[tr].step = "TRANSFER"
  BY <1>2, <1>3, <1>4 DEF TypeFits
<1>16. Objects'
  BY <1>0, <1>4, <1>14, <1>15, Arrives
<1>17. OffersLast /\ OwnIds' /\ Heard'
  <2>1. SameIncoming
    BY <1>8 DEF SameIncoming
  <2>2. \A i \in FtIds : i >= ftid => files'[i] = <<>>
    BY <1>8 DEF IInv, OwnIds
  <2> QED
    BY <1>0, <1>2, <1>3, <1>4, <1>8, <1>15, <1>16, <2>1, <2>2, OffersOfMoved
<1>18. Data' /\ Finished'
  <2>1. SameData
    <3>1. \A t : ~IsData(m, t)
      BY <1>0 DEF IsData
    <3> QED
      BY <1>0, <3>1, NoDataTaken DEF IInv
  <2> QED
    BY <1>2, <1>3, <1>4, <1>0, <1>8, <1>17, <2>1, FilesOfMoved
<1>19. signals' \in Seq(SignalRecord) /\ ftid' \in Nat /\ files' \in [FtIds -> Seq(Chunk)]
  BY <1>0, Sizes DEF IInv, Types, TypeOK
<1>20. Accepted(m.t) => Accepted(m.t)'
  BY <1>7
<1>21. In(m.t, {"TRANSFER", "BYE"}) => In(m.t, {"TRANSFER", "BYE"})'
  BY <1>9
<1> QED
  BY <1>0, <1>4, <1>10, <1>11, <1>12, <1>13, <1>14, <1>15, <1>17, <1>18, <1>19, <1>20, <1>21, ArrivalKeeps

\* Data arrives for Transfer tr.
DataTaken(m, tr) ==
  /\ wire # <<>> /\ m = Head(wire) /\ ~m.isEmpty /\ m.step = "TRANSFER"
  /\ wire' = Tail(wire) /\ UNCHANGED <<peer, application, spins, ftid, answers>>
  /\ tr \in DOMAIN transfers /\ OneChanges(tr, m.t) /\ Entry(FTList', tr, m.id)
  /\ transfers[tr].step = "TRANSFER" /\ transfers'[tr].step = "TRANSFER"
  /\ transfers'[tr].ftId = transfers[tr].ftId /\ transfers'[tr].p2pType = transfers[tr].p2pType
  /\ transfers'[tr].hasDestination = transfers[tr].hasDestination
  /\ transfers'[tr].hasTransfered <=> transfers[tr].hasTransfered \/ m.isFinished
  /\ files' = IF transfers[tr].hasDestination
              THEN [files EXCEPT ![transfers[tr].ftId] = Append(@, [t |-> m.t, step |-> m.step, nr |-> m.nr])]
              ELSE files
  /\ IF m.isFinished THEN Emit(<<Signal("finished", transfers[tr].ftId)>>) ELSE UNCHANGED signals

\* It is the next of the file that was accepted.
LEMMA NextChunk ==
  ASSUME IInv, NEW m, NEW tr, DataTaken(m, tr)
  PROVE  /\ transfers[tr].hasDestination /\ ~transfers[tr].hasTransfered
         /\ transfers[tr].ftId \in FtIds /\ offered[transfers[tr].ftId] = tr
         /\ app[transfers[tr].ftId] = "accepted" /\ IsOffered(tr)
         /\ m.nr = Len(files[transfers[tr].ftId]) + 1 /\ m.nr \in 1 .. sent[m.t]
         /\ m.isFinished <=> m.nr = Chunks
         /\ Len(files[transfers[tr].ftId]) \in Nat
<1>1. /\ wire # <<>> /\ m = Head(wire) /\ ~m.isEmpty /\ m.step = "TRANSFER"
      /\ tr \in DOMAIN transfers /\ transfers[tr].of = m.t
  BY DEF DataTaken, OneChanges
<1>2. /\ 1 \in DOMAIN wire /\ wire[1] = m /\ Fits(m) /\ m.t \in Transfers /\ m.nr \in Nat
  BY <1>1, HeadOfWire
<1>3. m.nr \in 1 .. sent[m.t] /\ (m.isFinished <=> m.nr = Chunks)
  BY <1>1, <1>2 DEF Fits, DataFits
<1>4. sent[m.t] \in Nat
  BY <1>2, OtherTypes DEF IInv
<1>5. transfers[tr].hasDestination
  <2>1. sent[m.t] > 0
    BY <1>3, <1>4
  <2>2. Accepted(m.t)
    BY <1>2, <2>1 DEF IInv, Pace, Paced
  <2> QED
    BY <1>1, <2>2, OneObject DEF IInv
<1>6. PICK id : id = transfers[tr].ftId
  OBVIOUS
<1>7. IsOffered(tr) /\ id \in FtIds /\ app[id] = "accepted"
  BY <1>1, <1>5, <1>6, Destination DEF IInv, Heard
<1>8. offered[id] = tr
  <2>1. Offer(id, offered[id])
    BY <1>7 DEF IInv, Heard
  <2>2. offered[id] \in DOMAIN transfers /\ IsOffered(offered[id]) /\ transfers[offered[id]].ftId = id
    BY <2>1 DEF Offer
  <2> QED
    BY <1>1, <1>6, <1>7, <2>2 DEF IInv, OwnIds
<1>9. PICK done : done = Len(files[id])
  OBVIOUS
<1>10. done \in Nat
  <2>1. files[id] \in Seq(Chunk)
    BY <1>7 DEF IInv, Types
  <2> QED
    BY <1>9, <2>1, LenProperties
<1>11. /\ \A n \in DOMAIN wire : IsData(wire[n], m.t) => wire[n].nr > done
       /\ \A v \in done + 1 .. sent[m.t] : \E n \in DOMAIN wire : IsData(wire[n], m.t) /\ wire[n].nr = v
  <2>1. DataOf(tr)
    BY <1>1, <1>5 DEF IInv, Data
  <2> QED
    BY <1>1, <1>6, <1>9, <2>1 DEF DataOf
<1>12. m.nr > done
  BY <1>1, <1>2, <1>11 DEF IsData
<1>13. m.nr = done + 1
  <2> SUFFICES ASSUME m.nr # done + 1 PROVE FALSE
    OBVIOUS
  <2>1. done + 1 < m.nr /\ done + 1 \in done + 1 .. sent[m.t]
    BY <1>2, <1>3, <1>4, <1>10, <1>12
  <2>2. PICK n \in DOMAIN wire : IsData(wire[n], m.t) /\ wire[n].nr = done + 1
    BY <1>11, <2>1
  <2>3. n # 1
    BY <1>2, <1>10, <2>1, <2>2
  <2>4. 1 < n
    BY <2>3, Sizes DEF IInv
  <2>5. InOrder(m, wire[n])
    BY <1>2, <2>4 DEF IInv, Script
  <2>6. m.nr < wire[n].nr
    BY <1>1, <2>2, <2>5 DEF InOrder, IsData
  <2> QED
    BY <1>2, <1>10, <2>1, <2>2, <2>6
<1>14. ~transfers[tr].hasTransfered
  <2> SUFFICES ASSUME transfers[tr].hasTransfered PROVE FALSE
    OBVIOUS
  <2>1. done = Chunks
    BY <1>1, <1>6, <1>9 DEF IInv, Data
  <2>2. sent[m.t] <= Chunks
    BY <1>2, OtherTypes DEF IInv
  <2> QED
    BY <1>2, <1>3, <1>4, <1>10, <1>13, <2>1, <2>2
<1> QED
  BY <1>3, <1>5, <1>6, <1>7, <1>8, <1>9, <1>10, <1>13, <1>14

\* The data of a transfer when its file and its messages stay as they are.
LEMMA DataOfKept ==
  ASSUME NEW ur, NEW t, NEW i, transfers[ur].of = t, transfers'[ur].of = t,
         transfers[ur].ftId = i, transfers'[ur].ftId = i, files'[i] = files[i], sent' = sent,
         \A n \in DOMAIN wire' : IsData(wire'[n], t) => \E k \in DOMAIN wire : wire[k] = wire'[n],
         \A k \in DOMAIN wire : IsData(wire[k], t) => \E n \in DOMAIN wire' : wire'[n] = wire[k],
         DataOf(ur)
  PROVE  DataOf(ur)'
<1>1. PICK done : done = Len(files[i])
  OBVIOUS
<1>2. /\ done <= sent[t]
      /\ \A n \in DOMAIN wire : IsData(wire[n], t) => wire[n].nr > done
      /\ \A v \in done + 1 .. sent[t] : \E n \in DOMAIN wire : IsData(wire[n], t) /\ wire[n].nr = v
  BY <1>1 DEF DataOf
<1>3. /\ done <= sent'[t]
      /\ \A n \in DOMAIN wire' : IsData(wire'[n], t) => wire'[n].nr > done
  BY <1>2
<1>4. ASSUME NEW v \in done + 1 .. sent'[t]
      PROVE  \E n \in DOMAIN wire' : IsData(wire'[n], t) /\ wire'[n].nr = v
  <2>1. PICK k \in DOMAIN wire : IsData(wire[k], t) /\ wire[k].nr = v
    BY <1>2, <1>4
  <2>2. PICK n \in DOMAIN wire' : wire'[n] = wire[k]
    BY <2>1
  <2> QED
    BY <2>1, <2>2
<1>5. done = Len(files'[i])
  BY <1>1
<1> QED
  BY <1>3, <1>4, <1>5 DEF DataOf, IsData

\* The files when data arrived.
LEMMA ChunkAdded ==
  ASSUME IInv, NEW m, NEW tr, DataTaken(m, tr), OffersLast
  PROVE  Data' /\ files' \in [FtIds -> Seq(Chunk)] /\ \A i \in FtIds : i >= ftid => files'[i] = <<>>
<1>1. /\ wire # <<>> /\ m = Head(wire) /\ ~m.isEmpty /\ m.step = "TRANSFER" /\ wire' = Tail(wire)
      /\ tr \in DOMAIN transfers /\ OneChanges(tr, m.t)
      /\ transfers'[tr].ftId = transfers[tr].ftId
      /\ transfers'[tr].hasDestination = transfers[tr].hasDestination
      /\ transfers'[tr].hasTransfered <=> transfers[tr].hasTransfered \/ m.isFinished
  BY DEF DataTaken
<1>2. app' = app /\ offered' = offered /\ sent' = sent
  BY DEF DataTaken, application, peer
<1>3. PICK id, done : id = transfers[tr].ftId /\ done = Len(files[id])
  OBVIOUS
<1>4. /\ transfers[tr].hasDestination /\ ~transfers[tr].hasTransfered
      /\ id \in FtIds /\ offered[id] = tr /\ app[id] = "accepted" /\ IsOffered(tr)
      /\ done \in Nat /\ m.nr = done + 1 /\ m.nr \in 1 .. sent[m.t] /\ (m.isFinished <=> m.nr = Chunks)
  BY <1>3, NextChunk
<1>5. /\ 1 \in DOMAIN wire /\ wire[1] = m /\ m.t \in Transfers /\ m.nr \in Nat
  BY <1>1, HeadOfWire
<1>6. sent[m.t] \in Nat
  BY <1>5, OtherTypes DEF IInv
<1>7. PICK c : c = [t |-> m.t, step |-> "TRANSFER", nr |-> m.nr]
  OBVIOUS
<1>8. c \in Chunk
  BY <1>5, <1>7 DEF Chunk
<1>9. PICK q \in Seq(Chunk) : q = files[id]
  BY <1>4, OtherTypes DEF IInv
<1>10. files' = [files EXCEPT ![id] = Append(q, c)]
  <2>1. files' = [files EXCEPT ![id] = Append(files[id], [t |-> m.t, step |-> m.step, nr |-> m.nr])]
    BY <1>3, <1>4 DEF DataTaken
  <2> QED
    BY <1>1, <1>7, <1>9, <2>1
<1>11. /\ Append(q, c) \in Seq(Chunk) /\ Len(Append(q, c)) = done + 1 /\ DOMAIN Append(q, c) = 1 .. done + 1
       /\ \A n \in 1 .. done : Append(q, c)[n] = q[n]
       /\ Append(q, c)[done + 1] = c /\ DOMAIN q = 1 .. done
  BY <1>3, <1>8, <1>9, Appended
<1>12. files \in [FtIds -> Seq(Chunk)]
  BY DEF IInv, Types
<1>13. /\ files' \in [FtIds -> Seq(Chunk)] /\ files'[id] = Append(q, c)
       /\ \A i \in FtIds : i # id => files'[i] = files[i]
  BY <1>4, <1>10, <1>11, <1>12
<1>14. \A ur \in DOMAIN transfers : transfers'[ur].of = transfers[ur].of
  BY DEF OffersLast
<1>15. ASSUME NEW i \in FtIds, NEW n \in DOMAIN files'[i]
       PROVE  files'[i][n] = [t |-> transfers'[offered'[i]].of, step |-> "TRANSFER", nr |-> n]
  <2>1. CASE i = id
    <3>1. transfers'[offered'[i]].of = m.t
      BY <1>1, <1>2, <1>4, <2>1 DEF OneChanges
    <3>2. CASE n = done + 1
      BY <1>4, <1>7, <1>11, <1>13, <2>1, <3>1, <3>2
    <3>3. CASE n # done + 1
      <4>1. n \in 1 .. done
        <5>1. n \in 1 .. done + 1
          BY <1>11, <1>13, <1>15, <2>1
        <5> QED
          BY <1>4, <3>3, <5>1
      <4>2. files'[i][n] = files[i][n] /\ n \in DOMAIN files[i]
        BY <1>9, <1>11, <1>13, <2>1, <4>1
      <4>3. files[i][n] = [t |-> transfers[offered[i]].of, step |-> "TRANSFER", nr |-> n]
        BY <4>2 DEF IInv, Data
      <4>4. transfers[offered[i]].of = transfers'[offered'[i]].of
        BY <1>1, <1>2, <1>4, <1>14, <2>1
      <4> QED
        BY <4>2, <4>3, <4>4
    <3> QED
      BY <3>2, <3>3
  <2>2. CASE i # id
    <3>1. n \in DOMAIN files[i] /\ files'[i][n] = files[i][n]
      BY <1>13, <1>15, <2>2
    <3>2. files[i] # <<>>
      <4>1. DOMAIN <<>> = {}
        OBVIOUS
      <4> QED
        BY <3>1, <4>1
    <3>3. app[i] = "accepted"
      BY <3>2, OtherTypes DEF IInv, Data
    <3>4. Offer(i, offered[i])
      BY <3>3 DEF IInv, Heard
    <3>5. transfers'[offered'[i]].of = transfers[offered[i]].of
      BY <1>2, <1>14, <3>4 DEF Offer
    <3>6. files[i][n] = [t |-> transfers[offered[i]].of, step |-> "TRANSFER", nr |-> n]
      BY <3>1 DEF IInv, Data
    <3> QED
      BY <3>1, <3>5, <3>6
  <2> QED
    BY <2>1, <2>2
<1>16. \A i \in FtIds : app'[i] # "accepted" => files'[i] = <<>>
  BY <1>2, <1>4, <1>13 DEF IInv, Data
<1>17. /\ \A n \in DOMAIN wire' : n \in Nat /\ n + 1 \in DOMAIN wire /\ 1 < n + 1 /\ wire'[n] = wire[n + 1]
       /\ \A n \in DOMAIN wire : n = 1 \/ (n - 1 \in DOMAIN wire' /\ wire'[n - 1] = wire[n])
  BY <1>1, WireShrinks DEF IInv
<1>18. ASSUME NEW ur \in DOMAIN transfers, ur # tr, transfers[ur].hasDestination
       PROVE  /\ transfers'[ur] = transfers[ur] /\ transfers[ur].of # m.t
              /\ transfers[ur].ftId \in FtIds /\ transfers[ur].ftId # id
  <2>1. IsOffered(ur) /\ transfers[ur].ftId \in FtIds
    BY <1>18, Destination DEF IInv
  <2>2. transfers[ur].ftId # id
    BY <1>1, <1>3, <1>4, <1>18, <2>1 DEF IInv, OwnIds
  <2>3. transfers[ur].of # m.t
    BY <1>1, <1>18 DEF IInv, Objects, OneChanges
  <2> QED
    BY <1>1, <1>18, <2>1, <2>2, <2>3 DEF OneChanges
<1>19. ASSUME NEW ur \in DOMAIN transfers, ur # tr, transfers[ur].hasDestination
       PROVE  DataOf(ur)'
  <2>1. PICK t, i : t = transfers[ur].of /\ i = transfers[ur].ftId
    OBVIOUS
  <2>2. /\ transfers'[ur].of = t /\ transfers'[ur].ftId = i /\ t # m.t /\ files'[i] = files[i]
    BY <1>13, <1>18, <1>19, <2>1
  <2>3. \A n \in DOMAIN wire' : IsData(wire'[n], t) => \E k \in DOMAIN wire : wire[k] = wire'[n]
    BY <1>17
  <2>4. \A k \in DOMAIN wire : IsData(wire[k], t) => \E n \in DOMAIN wire' : wire'[n] = wire[k]
    <3> TAKE k \in DOMAIN wire
    <3>1. CASE k = 1
      BY <1>5, <2>2, <3>1 DEF IsData
    <3>2. CASE k # 1
      BY <1>17, <3>2
    <3> QED
      BY <3>1, <3>2
  <2>5. DataOf(ur)
    BY <1>19 DEF IInv, Data
  <2> QED
    BY <1>2, <2>1, <2>2, <2>3, <2>4, <2>5, DataOfKept
<1>20. DataOf(tr)'
  <2>1. transfers'[tr].of = m.t /\ transfers'[tr].ftId = id /\ transfers[tr].of = m.t
    BY <1>1, <1>3 DEF OneChanges
  <2>2. /\ \A n \in DOMAIN wire : IsData(wire[n], m.t) => wire[n].nr > done
        /\ \A v \in done + 1 .. sent[m.t] : \E n \in DOMAIN wire : IsData(wire[n], m.t) /\ wire[n].nr = v
    <3>1. DataOf(tr)
      BY <1>1, <1>4 DEF IInv, Data
    <3> QED
      BY <1>3, <2>1, <3>1 DEF DataOf
  <2>3. done + 1 <= sent[m.t]
    BY <1>4, <1>6
  <2>4. ASSUME NEW n \in DOMAIN wire', IsData(wire'[n], m.t)
        PROVE  wire'[n].nr > done + 1
    <3>1. PICK j \in DOMAIN wire : 1 < j /\ wire[j] = wire'[n]
      BY <1>17, <2>4
    <3>2. InOrder(m, wire[j])
      BY <1>5, <3>1 DEF IInv, Script
    <3>3. m.nr < wire[j].nr /\ wire[j].nr \in Nat
      BY <1>1, <2>4, <3>1, <3>2, MessageTypes DEF InOrder, IsData, IInv
    <3> QED
      BY <1>4, <3>1, <3>3
  <2>5. ASSUME NEW v \in (done + 1) + 1 .. sent[m.t]
        PROVE  \E n \in DOMAIN wire' : IsData(wire'[n], m.t) /\ wire'[n].nr = v
    <3>1. v \in done + 1 .. sent[m.t] /\ v # done + 1
      BY <1>4, <1>6, <2>5
    <3>2. PICK j \in DOMAIN wire : IsData(wire[j], m.t) /\ wire[j].nr = v
      BY <2>2, <3>1
    <3>3. j # 1
      BY <1>4, <1>5, <3>1, <3>2
    <3> QED
      BY <1>17, <3>2, <3>3
  <2>6. PICK then : then = done + 1
    OBVIOUS
  <2>7. /\ then <= sent'[m.t]
        /\ \A n \in DOMAIN wire' : IsData(wire'[n], m.t) => wire'[n].nr > then
        /\ \A v \in then + 1 .. sent'[m.t] : \E n \in DOMAIN wire' : IsData(wire'[n], m.t) /\ wire'[n].nr = v
    BY <1>2, <2>3, <2>4, <2>5, <2>6
  <2>8. then = Len(files'[id])
    BY <1>11, <1>13, <2>6
  <2> QED
    BY <2>1, <2>7, <2>8 DEF DataOf, IsData
<1>21. ASSUME NEW ur \in DOMAIN transfers' PROVE ur \in DOMAIN transfers
  BY <1>1, <1>21 DEF OneChanges
<1>22. \A ur \in DOMAIN transfers' : transfers'[ur].hasDestination => DataOf(ur)'
  <2> TAKE ur \in DOMAIN transfers'
  <2>1. CASE ur = tr
    BY <1>20, <2>1
  <2>2. CASE ur # tr
    <3>1. transfers'[ur] = transfers[ur] /\ ur \in DOMAIN transfers
      BY <1>1, <1>21, <2>2 DEF OneChanges
    <3> QED
      BY <1>19, <2>2, <3>1
  <2> QED
    BY <2>1, <2>2
<1>23. \A ur \in DOMAIN transfers' : transfers'[ur].hasTransfered =>
          transfers'[ur].hasDestination /\ Len(files'[transfers'[ur].ftId]) = Chunks
  <2> TAKE ur \in DOMAIN transfers'
  <2> SUFFICES ASSUME transfers'[ur].hasTransfered
               PROVE  transfers'[ur].hasDestination /\ Len(files'[transfers'[ur].ftId]) = Chunks
    OBVIOUS
  <2>1. CASE ur = tr
    <3>1. done + 1 = Chunks
      BY <1>1, <1>4, <2>1
    <3> QED
      BY ZenonT(60), <1>1, <1>3, <1>4, <1>11, <1>13, <2>1, <3>1
  <2>2. CASE ur # tr
    <3>1. transfers'[ur] = transfers[ur] /\ ur \in DOMAIN transfers
      BY <1>1, <1>21, <2>2 DEF OneChanges
    <3>2. transfers[ur].hasDestination /\ Len(files[transfers[ur].ftId]) = Chunks
      BY <3>1 DEF IInv, Data
    <3> QED
      BY <1>13, <1>18, <2>2, <3>1, <3>2
  <2> QED
    BY <2>1, <2>2
<1>24. \A i \in FtIds : i >= ftid => files'[i] = <<>>
  <2> TAKE i \in FtIds
  <2> SUFFICES ASSUME i >= ftid PROVE files'[i] = <<>>
    OBVIOUS
  <2>1. app[i] = "none" /\ files[i] = <<>>
    BY DEF IInv, OwnIds
  <2> QED
    BY <1>4, <1>13, <2>1
<1> QED
  BY <1>13, <1>15, <1>16, <1>22, <1>23, <1>24 DEF Data

\* Data is put into the file of its transfer, and a file is finished when it is whole.
LEMMA DataKeeps ==
  ASSUME IInv, NEW m, NEW tr, DataTaken(m, tr)
  PROVE  IInv'
<1>1. /\ wire # <<>> /\ m = Head(wire) /\ ~m.isEmpty /\ m.step = "TRANSFER" /\ wire' = Tail(wire)
      /\ peer' = peer /\ application' = application /\ UNCHANGED <<spins, ftid, answers>>
      /\ tr \in DOMAIN transfers /\ OneChanges(tr, m.t) /\ Entry(FTList', tr, m.id)
      /\ transfers[tr].step = "TRANSFER" /\ transfers'[tr].step = "TRANSFER"
      /\ transfers'[tr].ftId = transfers[tr].ftId /\ transfers'[tr].p2pType = transfers[tr].p2pType
      /\ transfers'[tr].hasDestination = transfers[tr].hasDestination
      /\ transfers'[tr].hasTransfered <=> transfers[tr].hasTransfered \/ m.isFinished
  BY DEF DataTaken
<1>2. /\ phase' = phase /\ lastId' = lastId /\ sent' = sent /\ app' = app /\ offered' = offered
      /\ outcomes' = outcomes /\ answers' = answers /\ ftid' = ftid
  BY <1>1 DEF peer, application
<1>3. m.t \in Transfers /\ transfers[tr].of = m.t
  BY <1>1, HeadOfWire DEF OneChanges
<1>4. \A u : Same(u)
  <2>1. /\ \A u : u # m.t => Same(u)
        /\ Known(m.t)' /\ (\A steps : In(m.t, steps)' <=> transfers'[tr].step \in steps)
        /\ Accepted(m.t)' <=> transfers'[tr].hasDestination
        /\ Prepared(m.t)' <=> transfers'[tr].p2pType = "NULL"
    BY <1>1, Views DEF IInv
  <2>2. /\ Known(m.t) /\ (\A steps : In(m.t, steps) <=> transfers[tr].step \in steps)
        /\ Accepted(m.t) <=> transfers[tr].hasDestination
        /\ Prepared(m.t) <=> transfers[tr].p2pType = "NULL"
    BY <1>1, <1>3, OneObject DEF IInv
  <2>3. Known(m.t)' = Known(m.t) /\ (\A steps : In(m.t, steps)' = In(m.t, steps))
    BY <1>1, <2>1, <2>2, Zenon DEF Known, In
  <2>4. Accepted(m.t)' = Accepted(m.t) /\ Prepared(m.t)' = Prepared(m.t)
    BY <1>1, <2>1, <2>2 DEF Accepted, Prepared
  <2> QED
    BY <2>1, <2>3, <2>4 DEF Same
<1>5. \A u : Kept(u)
  BY <1>4, SameIsKept
<1>6. Paced(m.t)'
  BY <1>2, <1>3, <1>5, PaceKept DEF IInv, Pace
<1>7. ASSUME NEW a \in Messages, a.t = m.t, Fits(a), InOrder(m, a) PROVE Fits(a)'
  BY <1>2, <1>5, <1>7, FitsKept
<1>8. Coming(m.t)'
  <2>1. Known(m.t)' /\ ~In(m.t, {"INVITATION"})' /\ ~In(m.t, {"BYE"})'
    <3>1. /\ Known(m.t)' /\ (\A steps : In(m.t, steps)' <=> transfers'[tr].step \in steps)
      BY <1>1, Views DEF IInv
    <3> QED
      BY <1>1, <3>1
  <2> QED
    BY <2>1 DEF Coming
<1>9. AnswersToCome(m.t)' <= AnswersToCome(m.t)
  <2>1. AnswersToCome(m.t)' = AnswersToCome(m.t)
    BY <1>4 DEF AnswersToCome, Same
  <2>2. AnswersToCome(m.t) \in Nat
    BY NeededParts
  <2> QED
    BY <2>1, <2>2
<1>10. TypeFits(transfers'[tr])
  BY <1>1, <1>3 DEF TypeFits, OneChanges, IInv, Objects
<1>11. Objects'
  BY <1>1, <1>10, Arrives
<1>12. PICK s : s = Signal("finished", transfers[tr].ftId)
  OBVIOUS
<1>13. s \in SignalRecord /\ s.kind = "finished" /\ s.ftId = transfers[tr].ftId
  <2>1. transfers[tr].ftId \in FtIds \union StaleIds
    BY <1>1, RecordTypes DEF IInv
  <2> QED
    BY <1>12, <2>1 DEF Signal, SignalRecord
<1>14. IF m.isFinished THEN Emit(<<s>>) ELSE signals' = signals
  BY <1>12 DEF DataTaken
<1>15. /\ signals' \in Seq(SignalRecord)
       /\ \A p \in DOMAIN signals' : \/ p \in DOMAIN signals /\ signals'[p] = signals[p]
                                     \/ m.isFinished /\ signals'[p] = s
  <2>1. CASE m.isFinished
    <3>1. Emit(<<s>>)
      BY <1>14, <2>1
    <3>2. /\ signals' \in Seq(SignalRecord)
          /\ \A p \in DOMAIN signals : p \in DOMAIN signals' /\ signals'[p] = signals[p]
          /\ \E n : /\ n \in DOMAIN signals' /\ n \notin DOMAIN signals /\ signals'[n] = s
                    /\ \A p \in DOMAIN signals' : p \in DOMAIN signals \/ p = n
      BY <1>13, <3>1, SignalAdded DEF IInv
    <3> QED
      BY <2>1, <3>2
  <2>2. CASE ~m.isFinished
    BY <1>14, <2>2, Sizes DEF IInv
  <2> QED
    BY <2>1, <2>2
<1>16. SameIncoming
  BY <1>13, <1>15 DEF SameIncoming
<1>17. OffersLast
  <2>1. IsOffered(tr)' <=> IsOffered(tr)
    BY <1>1 DEF IsOffered, OneChanges
  <2> QED
    BY <1>1, <2>1, OffersOfOne DEF IInv
<1>18. Data' /\ files' \in [FtIds -> Seq(Chunk)] /\ \A i \in FtIds : i >= ftid => files'[i] = <<>>
  BY <1>17, ChunkAdded
<1>19. OwnIds' /\ Heard'
  <2>1. transfers[tr].step # "INVITATION" /\ transfers'[tr].step # "INVITATION"
    BY <1>1
  <2> QED
    BY <1>1, <1>2, <1>11, <1>16, <1>18, <2>1, OffersOfMoved
<1>20. Finished'
  <2>1. \A ur \in DOMAIN transfers : transfers[ur].hasTransfered => transfers'[ur].hasTransfered
    BY <1>1 DEF OneChanges
  <2>2. \A i : IsFinished(i) => IsFinished(i)'
    BY <1>17, <2>1, FinishedStays DEF IInv
  <2>3. m.isFinished => \A i : i = s.ftId => IsFinished(i)'
    BY <1>1, <1>13 DEF IsFinished, OneChanges
  <2>4. \A p \in DOMAIN signals' : signals'[p].kind = "finished" =>
           \/ \E q \in DOMAIN signals : signals[q] = signals'[p]
           \/ \A i : i = signals'[p].ftId => IsFinished(i)'
    BY <1>15, <2>3
  <2>5. \A i \in FtIds : \A n \in DOMAIN outcomes'[i] : outcomes'[i][n] = "finished" => IsFinished(i)
    BY <1>2 DEF IInv, Finished
  <2> QED
    BY <2>2, <2>4, <2>5, FinishedKept DEF IInv
<1>21. /\ Accepted(m.t) => Accepted(m.t)'
       /\ In(m.t, {"TRANSFER", "BYE"}) => In(m.t, {"TRANSFER", "BYE"})'
  BY <1>4 DEF Same
<1>22. ftid' \in Nat
  BY <1>2, OtherTypes DEF IInv
<1>23. /\ transfers'[tr].step \in {"INVITATION", "NEGOTIATION", "TRANSFER"}
       /\ transfers'[tr].step = "INVITATION" => m.id = Base[m.t] + 1
  BY <1>1
<1> QED
  BY <1>1, <1>2, <1>6, <1>7, <1>8, <1>9, <1>10, <1>15, <1>18, <1>19, <1>20, <1>21, <1>22, <1>23, ArrivalKeeps

\* The end of a transfer arrives for Transfer tr.
ByeTaken(m, tr) ==
  /\ wire # <<>> /\ m = Head(wire) /\ ~m.isEmpty /\ m.step = "BYE"
  /\ wire' = Tail(wire) /\ UNCHANGED <<peer, application, spins, ftid, answers, files>>
  /\ tr \in DOMAIN transfers /\ OneChanges(tr, m.t)
  /\ transfers[tr].step \in {"NEGOTIATION", "TRANSFER"} /\ transfers'[tr].step = "BYE"
  /\ transfers'[tr].ftId = transfers[tr].ftId /\ transfers'[tr].p2pType = transfers[tr].p2pType
  /\ transfers'[tr].hasDestination = transfers[tr].hasDestination
  /\ transfers'[tr].hasTransfered = transfers[tr].hasTransfered
  /\ FTList' \in [DOMAIN FTList' -> DOMAIN transfers]
  /\ \A j : j \in DOMAIN FTList' <=> j \in DOMAIN FTList /\ FTList[j] # tr
  /\ \A j \in DOMAIN FTList' : FTList'[j] = FTList[j]
  /\ IF transfers[tr].hasTransfered THEN UNCHANGED signals
     ELSE Emit(<<Signal("cancelled", transfers[tr].ftId)>>)

\* It is the last of its messages, and its Transfer the last that is listed for it.
LEMMA ByeKeeps ==
  ASSUME IInv, NEW m, NEW tr, ByeTaken(m, tr)
  PROVE  IInv'
<1>1. /\ wire # <<>> /\ m = Head(wire) /\ ~m.isEmpty /\ m.step = "BYE" /\ wire' = Tail(wire)
      /\ peer' = peer /\ application' = application /\ UNCHANGED <<spins, ftid, answers, files>>
      /\ tr \in DOMAIN transfers /\ OneChanges(tr, m.t)
      /\ transfers[tr].step \in {"NEGOTIATION", "TRANSFER"} /\ transfers'[tr].step = "BYE"
      /\ transfers'[tr].ftId = transfers[tr].ftId /\ transfers'[tr].p2pType = transfers[tr].p2pType
      /\ transfers'[tr].hasDestination = transfers[tr].hasDestination
      /\ transfers'[tr].hasTransfered = transfers[tr].hasTransfered
  BY DEF ByeTaken
<1>2. /\ FTList' \in [DOMAIN FTList' -> DOMAIN transfers]
      /\ \A j : j \in DOMAIN FTList' <=> j \in DOMAIN FTList /\ FTList[j] # tr
      /\ \A j \in DOMAIN FTList' : FTList'[j] = FTList[j]
  BY DEF ByeTaken
<1>3. /\ phase' = phase /\ lastId' = lastId /\ sent' = sent /\ app' = app /\ offered' = offered
      /\ outcomes' = outcomes /\ answers' = answers /\ ftid' = ftid /\ files' = files
  BY <1>1 DEF peer, application
<1>4. /\ m.t \in Transfers /\ transfers[tr].of = m.t /\ Fits(m) /\ 1 \in DOMAIN wire /\ wire[1] = m
  BY <1>1, HeadOfWire DEF OneChanges
<1>5. phase[m.t] = "closed"
  BY <1>1, <1>4 DEF Fits, ByeFits
<1>6. /\ \A u : u # m.t => Same(u)
      /\ Known(m.t)' /\ (\A steps : In(m.t, steps)' <=> "BYE" \in steps)
      /\ Accepted(m.t)' <=> transfers[tr].hasDestination
      /\ Prepared(m.t)' <=> transfers[tr].p2pType = "NULL"
  <2>1. /\ \A u : u # m.t => Same(u)
        /\ Known(m.t)' /\ (\A steps : In(m.t, steps)' <=> transfers'[tr].step \in steps)
        /\ Accepted(m.t)' <=> transfers'[tr].hasDestination
        /\ Prepared(m.t)' <=> transfers'[tr].p2pType = "NULL"
    BY <1>1, Views DEF IInv
  <2> QED
    BY <1>1, <2>1
<1>7. /\ \A steps : In(m.t, steps) <=> transfers[tr].step \in steps
      /\ Accepted(m.t) <=> transfers[tr].hasDestination
      /\ Prepared(m.t) <=> transfers[tr].p2pType = "NULL"
  BY <1>1, <1>4, OneObject DEF IInv
<1>8. /\ \A ur \in DOMAIN transfers : ur # tr => transfers'[ur] = transfers[ur]
      /\ DOMAIN transfers' = DOMAIN transfers /\ transfers'[tr].of = transfers[tr].of
  BY <1>1 DEF OneChanges
<1>9. \A ur \in DOMAIN transfers : transfers'[ur].of = transfers[ur].of
  BY <1>8
<1>10. /\ \A n \in DOMAIN wire' : n \in Nat /\ n + 1 \in DOMAIN wire /\ 1 < n + 1 /\ wire'[n] = wire[n + 1]
  BY <1>1, WireShrinks DEF IInv
<1>11. Objects'
  <2>1. \A ur, vr \in DOMAIN transfers' : transfers'[ur].of = transfers'[vr].of => ur = vr
    BY <1>8, <1>9 DEF IInv, Objects
  <2>2. \A k, l \in DOMAIN FTList' : FTList'[k] = FTList'[l] => k = l
    BY <1>2 DEF IInv, Objects
  <2>3. ASSUME NEW ur \in DOMAIN transfers'
        PROVE  /\ transfers'[ur].step \in {"INVITATION", "NEGOTIATION", "TRANSFER", "BYE"}
               /\ \/ transfers'[ur].p2pType = Kind[transfers'[ur].of]
                  \/ Kind[transfers'[ur].of] = "EMOTICON" /\ transfers'[ur].p2pType = "NULL"
               /\ transfers'[ur].step = "BYE" <=> \A k \in DOMAIN FTList' : FTList'[k] # ur
    <3>1. /\ ur \in DOMAIN transfers
          /\ transfers[ur].step \in {"INVITATION", "NEGOTIATION", "TRANSFER", "BYE"}
          /\ \/ transfers[ur].p2pType = Kind[transfers[ur].of]
             \/ Kind[transfers[ur].of] = "EMOTICON" /\ transfers[ur].p2pType = "NULL"
          /\ transfers[ur].step = "BYE" <=> \A k \in DOMAIN FTList : FTList[k] # ur
      BY <1>8, <2>3 DEF IInv, Objects
    <3>2. CASE ur = tr
      <4>1. \A k \in DOMAIN FTList' : FTList'[k] # ur
        BY <1>2, <3>2
      <4> QED
        BY <1>1, <1>9, <3>1, <3>2, <4>1
    <3>3. CASE ur # tr
      <4>1. (\A k \in DOMAIN FTList' : FTList'[k] # ur) <=> (\A k \in DOMAIN FTList : FTList[k] # ur)
        BY <1>2, <3>3
      <4>2. transfers'[ur] = transfers[ur]
        BY <1>8, <3>1, <3>3
      <4> QED
        BY <3>1, <4>1, <4>2
    <3> QED
      BY <3>2, <3>3
  <2> QED
    BY <2>1, <2>2, <2>3 DEF Objects
<1>12. Numbers'
  <2>1. ASSUME NEW k \in DOMAIN FTList', NEW o, o = transfers'[FTList'[k]]
        PROVE  /\ Base[o.of] < k /\ k <= lastId'[o.of]
               /\ o.step = "INVITATION" => k = Base[o.of] + 1
               /\ \A n \in DOMAIN wire' : wire'[n].t = o.of => Follows(wire'[n], k)
    <3>1. k \in DOMAIN FTList /\ FTList'[k] = FTList[k] /\ FTList[k] # tr /\ FTList[k] \in DOMAIN transfers
      BY <1>2, <2>1, EntryTypes DEF IInv
    <3>2. o = transfers[FTList[k]]
      BY <1>8, <2>1, <3>1
    <3>3. /\ Base[o.of] < k /\ k <= lastId[o.of]
          /\ o.step = "INVITATION" => k = Base[o.of] + 1
          /\ \A n \in DOMAIN wire : wire[n].t = o.of => Follows(wire[n], k)
      BY <3>1, <3>2 DEF IInv, Numbers
    <3>4. \A n \in DOMAIN wire' : wire'[n].t = o.of => Follows(wire'[n], k)
      BY <1>10, <3>3
    <3> QED
      BY <1>3, <3>3, <3>4
  <2>2. \A t \in Transfers : phase'[t] = "new" => lastId'[t] = Base[t]
    BY <1>3 DEF IInv, Numbers
  <2> QED
    BY <2>1, <2>2 DEF Numbers, Follows
<1>13. ~In(m.t, {"BYE"}) /\ ~In(m.t, {"INVITATION"})
  BY <1>1, <1>7
<1>14. Paced(m.t)'
  <2>1. Paced(m.t)
    BY <1>4 DEF IInv, Pace
  <2>2. /\ ~In(m.t, {"TRANSFER"})' /\ (Accepted(m.t)' <=> Accepted(m.t))
    BY <1>6, <1>7
  <2> QED
    BY <1>3, <1>5, <1>6, <2>1, <2>2 DEF Paced
<1>15. \A j \in DOMAIN wire : 1 < j /\ wire[j].t = m.t => wire[j].isEmpty
  <2> TAKE j \in DOMAIN wire
  <2> SUFFICES ASSUME 1 < j, wire[j].t = m.t, ~wire[j].isEmpty PROVE FALSE
    BY MessageTypes DEF IInv
  <2>1. InOrder(m, wire[j])
    BY <1>4 DEF IInv, Script
  <2> QED
    BY <1>1, <2>1 DEF InOrder
<1>16. Coming(m.t)'
  <2>1. \A n \in DOMAIN wire' : wire'[n].t = m.t => wire'[n].isEmpty
    BY <1>10, <1>15
  <2>2. Known(m.t)' /\ ~In(m.t, {"INVITATION"})'
    BY <1>6
  <2> QED
    BY <2>1, <2>2 DEF Coming
<1>17. ASSUME NEW a \in Messages, a.t = m.t, Fits(a), InOrder(m, a) PROVE Fits(a)'
  <2>1. a.isEmpty
    BY <1>1, <1>17 DEF InOrder, Messages
  <2>2. phase'[a.t] # "new" /\ Base[a.t] < a.id /\ a.id <= lastId'[a.t]
    BY <1>3, <1>17 DEF Fits
  <2> QED
    BY <2>1, <2>2 DEF Fits, IsPart
<1>18. AnswersToCome(m.t)' <= AnswersToCome(m.t)
  <2>1. AnswersToCome(m.t) \in Nat /\ AnswersToCome(m.t)' \in Nat
    BY NeededParts
  <2>2. CASE Kind[m.t] = "FILE"
    <3>1. In(m.t, {"TRANSFER", "BYE"})' /\ (Accepted(m.t)' <=> Accepted(m.t))
      BY <1>6, <1>7
    <3>2. PICK x \in {0, 1} : x = One(~Accepted(m.t)) /\ x = One(~Accepted(m.t)')
      BY <3>1 DEF One
    <3>3. PICK y \in {0, 1} : y = One(~In(m.t, {"TRANSFER", "BYE"}))
      BY DEF One
    <3>4. AnswersToCome(m.t) = x + y
      BY <2>2, <3>2, <3>3 DEF AnswersToCome
    <3>5. AnswersToCome(m.t)' = x + 0
      BY <2>2, <3>1, <3>2 DEF AnswersToCome, One
    <3> QED
      BY <3>4, <3>5
  <2>3. CASE Kind[m.t] = "EMOTICON"
    <3>1. /\ In(m.t, {"NEGOTIATION", "TRANSFER", "BYE"})' /\ In(m.t, {"NEGOTIATION", "TRANSFER", "BYE"})
          /\ Prepared(m.t)' <=> Prepared(m.t)
      BY <1>1, <1>6, <1>7
    <3>2. AnswersToCome(m.t)' = AnswersToCome(m.t)
      BY <2>3, <3>1 DEF AnswersToCome
    <3> QED
      BY <2>1, <3>2
  <2>4. CASE Kind[m.t] \notin {"FILE", "EMOTICON"}
    <3>1. AnswersToCome(m.t)' = 0 /\ AnswersToCome(m.t) = 0
      BY <2>4 DEF AnswersToCome
    <3> QED
      BY <3>1
  <2> QED
    BY <2>2, <2>3, <2>4
<1>19. PICK s : s = Signal("cancelled", transfers[tr].ftId)
  OBVIOUS
<1>20. s \in SignalRecord /\ s.kind = "cancelled"
  <2>1. transfers[tr].ftId \in FtIds \union StaleIds
    BY <1>1, RecordTypes DEF IInv
  <2> QED
    BY <1>19, <2>1 DEF Signal, SignalRecord
<1>21. IF transfers[tr].hasTransfered THEN signals' = signals ELSE Emit(<<s>>)
  BY <1>19 DEF ByeTaken
<1>22. /\ signals' \in Seq(SignalRecord)
       /\ \A p \in DOMAIN signals' : \/ p \in DOMAIN signals /\ signals'[p] = signals[p]
                                     \/ signals'[p] = s
  <2>1. CASE transfers[tr].hasTransfered
    BY <1>21, <2>1, Sizes DEF IInv
  <2>2. CASE ~transfers[tr].hasTransfered
    <3>1. Emit(<<s>>)
      BY <1>21, <2>2
    <3>2. /\ signals' \in Seq(SignalRecord)
          /\ \A p \in DOMAIN signals : p \in DOMAIN signals' /\ signals'[p] = signals[p]
          /\ \E n : /\ n \in DOMAIN signals' /\ n \notin DOMAIN signals /\ signals'[n] = s
                    /\ \A p \in DOMAIN signals' : p \in DOMAIN signals \/ p = n
      BY <1>20, <3>1, SignalAdded DEF IInv
    <3> QED
      BY <3>2
  <2> QED
    BY <2>1, <2>2
<1>23. OffersLast /\ OwnIds' /\ Heard'
  <2>1. SameIncoming
    BY <1>20, <1>22 DEF SameIncoming
  <2>2. \A i \in FtIds : i >= ftid => files'[i] = <<>>
    BY <1>3 DEF IInv, OwnIds
  <2>3. transfers[tr].step # "INVITATION" /\ transfers'[tr].step # "INVITATION"
    BY <1>1
  <2> QED
    BY <1>1, <1>3, <1>11, <2>1, <2>2, <2>3, OffersOfMoved
<1>24. Data' /\ Finished'
  <2>1. SameData
    <3>1. \A t : ~IsData(m, t)
      BY <1>1 DEF IsData
    <3> QED
      BY <1>1, <3>1, NoDataTaken DEF IInv
  <2>2. \A p \in DOMAIN signals' : signals'[p].kind = "finished" => \E q \in DOMAIN signals : signals[q] = signals'[p]
    BY <1>20, <1>22
  <2> QED
    BY <1>1, <1>3, <1>23, <2>1, <2>2, FilesOfMoved
<1>25. /\ Accepted(m.t) => Accepted(m.t)'
       /\ In(m.t, {"TRANSFER", "BYE"})'
  BY <1>6, <1>7
<1>26. ftid' \in Nat /\ files' \in [FtIds -> Seq(Chunk)]
  BY <1>3, OtherTypes DEF IInv, Types
<1>27. FTList' \in [DOMAIN FTList' -> DOMAIN transfers'] /\ DOMAIN FTList' \subseteq Nat
  BY <1>2, <1>8, EntryTypes DEF IInv
<1> QED
  BY <1>1, <1>3, <1>11, <1>12, <1>14, <1>16, <1>17, <1>18, <1>22, <1>23, <1>24, <1>25, <1>26, <1>27, ArrivalRest

-----------------------------------------------------------------------------
(* Acknowledgements *)

\* The Transfers, but for what is prepared of them.
StaysButPrepared(tr) ==
  /\ transfers'[tr].of = transfers[tr].of /\ transfers'[tr].step = transfers[tr].step
  /\ transfers'[tr].ftId = transfers[tr].ftId
  /\ transfers'[tr].hasDestination = transfers[tr].hasDestination
  /\ transfers'[tr].hasTransfered = transfers[tr].hasTransfered
  /\ transfers'[tr].p2pType = transfers[tr].p2pType
     \/ (Kind[transfers[tr].of] = "EMOTICON" /\ transfers'[tr].p2pType = "NULL")

AckTaken(m) ==
  /\ wire # <<>> /\ m = Head(wire) /\ m.isEmpty /\ wire' = Tail(wire)
  /\ UNCHANGED <<peer, FTList, ftid, signals, application, files>> /\ spins' \in BOOLEAN
  /\ transfers' \in Seq(Record) /\ DOMAIN transfers' = DOMAIN transfers
  /\ \A tr \in DOMAIN transfers : StaysButPrepared(tr)

\* What taking an acknowledgement leaves to show.
LEMMA AckRest ==
  ASSUME IInv, NEW m, AckTaken(m), Room', answers' \in Seq(AnswerRecord),
         \/ answers' = answers
         \/ \E a \in AnswerRecord : answers' = Append(answers, a) /\ ToldOf(a)'
  PROVE  IInv'
<1>1. /\ wire # <<>> /\ m = Head(wire) /\ m.isEmpty /\ wire' = Tail(wire)
      /\ peer' = peer /\ application' = application /\ UNCHANGED <<FTList, ftid, signals, files>>
      /\ spins' \in BOOLEAN
      /\ transfers' \in Seq(Record) /\ DOMAIN transfers' = DOMAIN transfers
  BY DEF AckTaken
<1>2. /\ phase' = phase /\ lastId' = lastId /\ sent' = sent /\ app' = app /\ offered' = offered
      /\ outcomes' = outcomes
  BY <1>1 DEF peer, application
<1>3. \A tr \in DOMAIN transfers :
        /\ transfers'[tr].of = transfers[tr].of /\ transfers'[tr].step = transfers[tr].step
        /\ transfers'[tr].ftId = transfers[tr].ftId
        /\ transfers'[tr].hasDestination = transfers[tr].hasDestination
        /\ transfers'[tr].hasTransfered = transfers[tr].hasTransfered
  BY DEF AckTaken, StaysButPrepared
<1>4. \A u : /\ Known(u)' = Known(u) /\ Accepted(u)' = Accepted(u)
             /\ \A steps : In(u, steps)' = In(u, steps)
  BY <1>1, <1>3 DEF Known, Accepted, In
<1>5. \A u : Kept(u)
  BY <1>4 DEF Kept
<1>6. Types'
  <2>1. FTList' \in [DOMAIN FTList' -> DOMAIN transfers'] /\ DOMAIN FTList' \subseteq Nat
    BY <1>1, EntryTypes DEF IInv, Types, TypeOK
  <2>2. signals' \in Seq(SignalRecord) /\ ftid' \in Nat /\ files' \in [FtIds -> Seq(Chunk)]
    BY <1>1, Sizes, OtherTypes DEF IInv, Types
  <2> QED
    BY <1>1, <2>1, <2>2, ChatTypes DEF IInv
<1>7. Objects'
  <2>1. \A tr, ur \in DOMAIN transfers' : transfers'[tr].of = transfers'[ur].of => tr = ur
    BY <1>1, <1>3 DEF IInv, Objects
  <2>2. \A k, l \in DOMAIN FTList' : FTList'[k] = FTList'[l] => k = l
    BY <1>1 DEF IInv, Objects
  <2>3. ASSUME NEW tr \in DOMAIN transfers'
        PROVE  /\ transfers'[tr].step \in {"INVITATION", "NEGOTIATION", "TRANSFER", "BYE"}
               /\ transfers'[tr].step = "BYE" <=> \A k \in DOMAIN FTList' : FTList'[k] # tr
    BY <1>1, <1>3, <2>3 DEF IInv, Objects
  <2>4. ASSUME NEW tr \in DOMAIN transfers'
        PROVE  \/ transfers'[tr].p2pType = Kind[transfers'[tr].of]
               \/ Kind[transfers'[tr].of] = "EMOTICON" /\ transfers'[tr].p2pType = "NULL"
    <3>1. tr \in DOMAIN transfers /\ StaysButPrepared(tr)
      BY <1>1, <2>4 DEF AckTaken
    <3>2. \/ transfers[tr].p2pType = Kind[transfers[tr].of]
          \/ Kind[transfers[tr].of] = "EMOTICON" /\ transfers[tr].p2pType = "NULL"
      BY <3>1 DEF IInv, Objects
    <3> QED
      BY <3>1, <3>2 DEF StaysButPrepared
  <2> QED
    BY <2>1, <2>2, <2>3, <2>4 DEF Objects
<1>8. Pace'
  <2>1. ASSUME NEW u \in Transfers PROVE Paced(u)'
    BY <1>2, <1>5, PaceKept DEF IInv, Pace
  <2> QED
    BY <2>1 DEF Pace
<1>9. Script'
  BY <1>1, <1>5, TailScript DEF IInv
<1>10. Numbers'
  <2>1. ASSUME NEW k \in DOMAIN FTList', NEW o, o = transfers'[FTList'[k]]
        PROVE  /\ Base[o.of] < k /\ k <= lastId'[o.of]
               /\ o.step = "INVITATION" => k = Base[o.of] + 1
               /\ \A n \in DOMAIN wire' : wire'[n].t = o.of => Follows(wire'[n], k)
    <3>1. PICK p : p = transfers[FTList[k]]
      OBVIOUS
    <3>2. k \in DOMAIN FTList /\ o.of = p.of /\ o.step = p.step
      BY <1>1, <1>3, <2>1, <3>1, EntryTypes DEF IInv
    <3>3. /\ Base[p.of] < k /\ k <= lastId[p.of]
          /\ p.step = "INVITATION" => k = Base[p.of] + 1
          /\ \A n \in DOMAIN wire : wire[n].t = p.of => Follows(wire[n], k)
      BY <3>1, <3>2 DEF IInv, Numbers
    <3>4. \A n \in DOMAIN wire' : n \in Nat /\ n + 1 \in DOMAIN wire /\ 1 < n + 1 /\ wire'[n] = wire[n + 1]
      BY <1>1, WireShrinks DEF IInv
    <3>5. \A n \in DOMAIN wire' : wire'[n].t = o.of => Follows(wire'[n], k)
      BY <3>2, <3>3, <3>4
    <3> QED
      BY <1>2, <3>2, <3>3, <3>5
  <2>2. \A t \in Transfers : phase'[t] = "new" => lastId'[t] = Base[t]
    BY <1>2 DEF IInv, Numbers
  <2> QED
    BY <2>1, <2>2 DEF Numbers, Follows
<1>11. Told'
  BY <1>4, ToldKept DEF IInv
<1>12. \A tr \in DOMAIN transfers : IsOffered(tr)' <=> IsOffered(tr)
  BY <1>3 DEF IsOffered
<1>13. OffersStay /\ OffersLast
  BY <1>1, <1>3, <1>12 DEF OffersStay, OffersLast
<1>14. OwnIds' /\ Heard'
  <2>1. SameIncoming /\ SameDestinations
    BY <1>1, <1>3 DEF SameIncoming, SameDestinations
  <2>2. \A i \in FtIds : i >= ftid => app'[i] = "none" /\ files'[i] = <<>>
    BY <1>1, <1>2 DEF IInv, OwnIds
  <2> QED
    BY <1>1, <1>2, <1>7, <1>13, <2>1, <2>2, OwnIdsKept, HeardKept DEF IInv
<1>15. Data'
  <2>1. SameData
    <3>1. \A t : ~IsData(m, t)
      BY <1>1 DEF IsData
    <3> QED
      BY <1>1, <3>1, NoDataTaken DEF IInv
  <2>2. \A ur \in DOMAIN transfers : transfers[ur].hasTransfered => transfers[ur].hasDestination
    BY DEF IInv, Data
  <2> QED
    BY <1>1, <1>2, <1>3, <1>13, <2>1, <2>2, DataKept DEF IInv
<1>16. Finished'
  <2>1. \A i : IsFinished(i) => IsFinished(i)'
    BY <1>3, <1>13, FinishedStays DEF IInv
  <2>2. \A i \in FtIds : \A n \in DOMAIN outcomes'[i] : outcomes'[i][n] = "finished" => IsFinished(i)
    BY <1>2 DEF IInv, Finished
  <2>3. \A p \in DOMAIN signals' : signals'[p].kind = "finished" => \E q \in DOMAIN signals : signals[q] = signals'[p]
    BY <1>1
  <2> QED
    BY <2>1, <2>2, <2>3, FinishedKept DEF IInv
<1> QED
  BY <1>6, <1>7, <1>8, <1>9, <1>10, <1>11, <1>14, <1>15, <1>16 DEF IInv

\* An acknowledgement prepares the nearest transfer, if that is a picture which is not.
LEMMA AckKeeps ==
  ASSUME IInv, IdsFit, NEW m, wire # <<>>, AckArrives(m)
  PROVE  IInv'
<1>1. /\ m = Head(wire) /\ m.isEmpty /\ wire' = Tail(wire)
      /\ UNCHANGED <<peer, FTList, ftid, signals, application, files>>
  BY DEF AckArrives, Takes
<1>2. m.id \in Nat /\ byte2int(m.id) \in Nat
  BY <1>1, HeadOfWire DEF byte2int
<1>3. PICK keys, id : keys = DOMAIN FTList \ {byte2int(m.id)} /\ id = byte2int(m.id)
  OBVIOUS
<1>4. CASE transfers' = transfers /\ answers' = answers /\ spins' \in BOOLEAN
  <2>1. AckTaken(m)
    BY <1>1, <1>4, Sizes DEF AckTaken, StaysButPrepared, IInv
  <2>2. Room' /\ answers' \in Seq(AnswerRecord)
    <3>1. \A u : Same(u)
      BY <1>4, Unchanged
    <3>2. CASE Transfers = {}
      BY <1>4, <3>2, Sizes DEF Room, IInv
    <3>3. CASE Transfers # {}
      <4>1. PICK t \in Transfers : TRUE
        BY <3>3
      <4>2. AnswersToCome(t)' = AnswersToCome(t) /\ AnswersToCome(t) \in Nat
        BY <3>1, NeededParts DEF AnswersToCome, Same
      <4>3. AnswersToCome(t)' <= AnswersToCome(t)
        BY <4>2
      <4> QED
        BY <1>1, <1>4, <3>1, <4>3, AnswerRoom DEF IInv
    <3> QED
      BY <3>2, <3>3
  <2> QED
    BY <1>4, <2>1, <2>2, AckRest
<1>5. CASE keys = {}
  BY <1>3, <1>4, <1>5 DEF AckArrives, FindsNothing
<1>6. CASE keys # {}
  <2>1. Nearest(keys, id) \in keys
    <3>1. ASSUME NEW k \in DOMAIN FTList PROVE k \in Nat /\ k <= SignBit
      <4>1. PICK u : u = transfers[FTList[k]].of
        OBVIOUS
      <4>2. u \in Transfers /\ k \in Interval(u)
        BY <4>1, EntryInRange
      <4> QED
        BY <4>2, IdsAreRead
    <3>2. keys \subseteq Nat /\ \A k \in keys : k <= SignBit
      BY <1>3, <3>1
    <3>3. SignBit \in Nat
      BY Constants
    <3> QED
      BY <1>2, <1>3, <1>6, <3>2, <3>3, NearestFound
  <2>2. PICK tr \in DOMAIN transfers : tr = FTList[Nearest(keys, id)]
    BY <1>3, <2>1, EntryTypes DEF IInv
  <2>3. /\ IF transfers[tr].p2pType = "EMOTICON"
           THEN /\ transfers' = [transfers EXCEPT ![tr].p2pType = "NULL"]
                /\ Answer(transfers[tr].of, "PREPARATION")
           ELSE UNCHANGED <<transfers, answers>>
        /\ UNCHANGED spins
    BY <1>3, <1>6, <2>2 DEF AckArrives
  <2>4. spins' \in BOOLEAN
    BY <2>3 DEF IInv, Types, TypeOK
  <2>5. CASE transfers[tr].p2pType # "EMOTICON"
    BY <1>4, <2>3, <2>4, <2>5
  <2>6. CASE transfers[tr].p2pType = "EMOTICON"
    <3>1. PICK o \in Record : o = transfers[tr]
      BY RecordTypes DEF IInv
    <3>2. PICK e : e = [o EXCEPT !.p2pType = "NULL"]
      OBVIOUS
    <3>3. /\ e \in Record /\ e.of = o.of /\ e.step = o.step /\ e.ftId = o.ftId /\ e.p2pType = "NULL"
          /\ e.hasDestination = o.hasDestination /\ e.hasTransfered = o.hasTransfered
      BY <3>1, <3>2 DEF Record
    <3>4. transfers' = [transfers EXCEPT ![tr] = e]
      BY <2>3, <2>6, <3>1, <3>2
    <3>5. /\ transfers' \in Seq(Record) /\ DOMAIN transfers' = DOMAIN transfers /\ transfers'[tr] = e
          /\ \A ur \in DOMAIN transfers : ur # tr => transfers'[ur] = transfers[ur]
      <4>1. transfers \in Seq(Record)
        BY Sizes DEF IInv
      <4> QED
        BY <3>3, <3>4, <4>1, Updated
    <3>6. PICK t \in Transfers : t = o.of
      BY <3>1, RecordTypes DEF IInv
    <3>7. Kind[t] = "EMOTICON"
      BY <2>6, <3>1, <3>6 DEF IInv, Objects
    <3>8. AckTaken(m)
      <4>1. \A ur \in DOMAIN transfers : StaysButPrepared(ur)
        <5> TAKE ur \in DOMAIN transfers
        <5>1. CASE ur = tr
          BY <3>1, <3>3, <3>5, <3>6, <3>7, <5>1 DEF StaysButPrepared
        <5>2. CASE ur # tr
          BY <3>5, <5>2 DEF StaysButPrepared
        <5> QED
          BY <5>1, <5>2
      <4> QED
        BY <1>1, <2>4, <3>5, <4>1 DEF AckTaken
    <3>9. OneChanges(tr, t)
      <4>1. DOMAIN transfers' = DOMAIN transfers \union {tr}
        BY <3>5
      <4>2. transfers'[tr].of = t /\ transfers[tr].of = t
        BY <3>1, <3>3, <3>5, <3>6
      <4> QED
        BY <3>5, <4>1, <4>2 DEF OneChanges
    <3>10. /\ \A u : u # t => Same(u)
           /\ Known(t)' /\ (\A steps : In(t, steps)' <=> o.step \in steps)
           /\ Prepared(t)'
      <4>1. /\ \A u : u # t => Same(u)
            /\ Known(t)' /\ (\A steps : In(t, steps)' <=> transfers'[tr].step \in steps)
            /\ Prepared(t)' <=> transfers'[tr].p2pType = "NULL"
        BY <3>9, Views DEF IInv
      <4>2. transfers'[tr].step = o.step /\ transfers'[tr].p2pType = "NULL"
        BY <3>3, <3>5
      <4> QED
        BY <4>1, <4>2
    <3>11. (\A steps : In(t, steps) <=> o.step \in steps) /\ ~Prepared(t)
      <4>1. (\A steps : In(t, steps) <=> transfers[tr].step \in steps) /\ (Prepared(t) <=> transfers[tr].p2pType = "NULL")
        BY <3>1, <3>6, OneObject DEF IInv
      <4> QED
        BY <2>6, <3>1, <4>1
    <3>12. AnswersToCome(t)' + 1 <= AnswersToCome(t)
      <4>1. PICK x \in {0, 1} : /\ x = One(~In(t, {"NEGOTIATION", "TRANSFER", "BYE"}))
                                /\ x = One(~In(t, {"NEGOTIATION", "TRANSFER", "BYE"})')
        BY <3>10, <3>11 DEF One
      <4>2. AnswersToCome(t) = x + 1
        BY <3>7, <3>11, <4>1 DEF AnswersToCome, One
      <4>3. AnswersToCome(t)' = x + 0
        BY <3>7, <3>10, <4>1 DEF AnswersToCome, One
      <4> QED
        BY <4>2, <4>3
    <3>13. Answer(t, "PREPARATION") /\ "PREPARATION" \in AnswerKinds
      BY <2>3, <2>6, <3>1, <3>6 DEF AnswerKinds
    <3>14. Room' /\ answers' \in Seq(AnswerRecord)
      BY <1>1, <3>10, <3>12, <3>13, AnswerRoom DEF IInv
    <3>15. PICK a \in AnswerRecord : answers' = Append(answers, a) /\ a.t = t /\ a.kind = "PREPARATION"
      BY <3>13, AnswerAdded DEF IInv
    <3>16. ToldOf(a)'
      BY <3>10, <3>15 DEF ToldOf
    <3> QED
      BY <3>8, <3>14, <3>15, <3>16, AckRest
  <2> QED
    BY <2>5, <2>6
<1> QED
  BY <1>5, <1>6

-----------------------------------------------------------------------------
(* The application *)

\* Its steps change a Transfer at most by accepting it.
ApplicationStep ==
  /\ UNCHANGED <<peer, wire, FTList, ftid, spins, files>>
  /\ transfers' \in Seq(Record) /\ DOMAIN transfers' = DOMAIN transfers
  /\ \A tr \in DOMAIN transfers :
       /\ transfers'[tr].of = transfers[tr].of /\ transfers'[tr].step = transfers[tr].step
       /\ transfers'[tr].ftId = transfers[tr].ftId /\ transfers'[tr].p2pType = transfers[tr].p2pType
       /\ transfers'[tr].hasTransfered = transfers[tr].hasTransfered
       /\ transfers[tr].hasDestination => transfers'[tr].hasDestination

\* What a step of the application leaves to show.
LEMMA ApplicationRest ==
  ASSUME IInv, ApplicationStep, Types', Room', Told', Heard', Data', Finished',
         \A i \in FtIds : i >= ftid => app'[i] = "none"
  PROVE  IInv'
<1>1. /\ UNCHANGED <<peer, wire, FTList, ftid, spins, files>>
      /\ transfers' \in Seq(Record) /\ DOMAIN transfers' = DOMAIN transfers
      /\ \A tr \in DOMAIN transfers :
           /\ transfers'[tr].of = transfers[tr].of /\ transfers'[tr].step = transfers[tr].step
           /\ transfers'[tr].ftId = transfers[tr].ftId /\ transfers'[tr].p2pType = transfers[tr].p2pType
           /\ transfers'[tr].hasTransfered = transfers[tr].hasTransfered
           /\ transfers[tr].hasDestination => transfers'[tr].hasDestination
  BY DEF ApplicationStep
<1>2. phase' = phase /\ lastId' = lastId /\ sent' = sent
  BY <1>1 DEF peer
<1>3. \A u : Kept(u)
  <2> TAKE u
  <2>1. Known(u)' = Known(u) /\ (\A steps : In(u, steps)' = In(u, steps))
    BY <1>1 DEF Known, In
  <2>2. Accepted(u) => Accepted(u)'
    BY <1>1 DEF Accepted
  <2> QED
    BY <2>1, <2>2 DEF Kept
<1>4. Objects'
  <2>1. \A tr, ur \in DOMAIN transfers' : transfers'[tr].of = transfers'[ur].of => tr = ur
    BY <1>1 DEF IInv, Objects
  <2>2. \A k, l \in DOMAIN FTList' : FTList'[k] = FTList'[l] => k = l
    BY <1>1 DEF IInv, Objects
  <2>3. ASSUME NEW tr \in DOMAIN transfers'
        PROVE  /\ transfers'[tr].step \in {"INVITATION", "NEGOTIATION", "TRANSFER", "BYE"}
               /\ \/ transfers'[tr].p2pType = Kind[transfers'[tr].of]
                  \/ Kind[transfers'[tr].of] = "EMOTICON" /\ transfers'[tr].p2pType = "NULL"
               /\ transfers'[tr].step = "BYE" <=> \A k \in DOMAIN FTList' : FTList'[k] # tr
    BY <1>1, <2>3 DEF IInv, Objects
  <2> QED
    BY <2>1, <2>2, <2>3 DEF Objects
<1>5. Pace'
  <2>1. ASSUME NEW u \in Transfers PROVE Paced(u)'
    BY <1>2, <1>3, PaceKept DEF IInv, Pace
  <2> QED
    BY <2>1 DEF Pace
<1>6. Script'
  BY <1>1, <1>3, ScriptKept DEF IInv
<1>7. Numbers'
  <2>1. ASSUME NEW k \in DOMAIN FTList', NEW o, o = transfers'[FTList'[k]]
        PROVE  /\ Base[o.of] < k /\ k <= lastId'[o.of]
               /\ o.step = "INVITATION" => k = Base[o.of] + 1
               /\ \A n \in DOMAIN wire' : wire'[n].t = o.of => Follows(wire'[n], k)
    <3>1. PICK p : p = transfers[FTList[k]]
      OBVIOUS
    <3>2. k \in DOMAIN FTList /\ o.of = p.of /\ o.step = p.step
      BY <1>1, <2>1, <3>1, EntryTypes DEF IInv
    <3>3. /\ Base[p.of] < k /\ k <= lastId[p.of]
          /\ p.step = "INVITATION" => k = Base[p.of] + 1
          /\ \A n \in DOMAIN wire : wire[n].t = p.of => Follows(wire[n], k)
      BY <3>1, <3>2 DEF IInv, Numbers
    <3> QED
      BY <1>1, <1>2, <3>2, <3>3
  <2>2. \A t \in Transfers : phase'[t] = "new" => lastId'[t] = Base[t]
    BY <1>2 DEF IInv, Numbers
  <2> QED
    BY <2>1, <2>2 DEF Numbers, Follows
<1>8. OwnIds'
  <2>1. \A tr \in DOMAIN transfers : IsOffered(tr)' <=> IsOffered(tr)
    BY <1>1 DEF IsOffered
  <2>2. OffersStay
    BY <1>1, <2>1 DEF OffersStay, OffersLast
  <2>3. \A i \in FtIds : i >= ftid => app'[i] = "none" /\ files'[i] = <<>>
    BY <1>1 DEF IInv, OwnIds
  <2> QED
    BY <1>1, <1>4, <2>2, <2>3, OwnIdsKept DEF IInv
<1> QED
  BY <1>4, <1>5, <1>6, <1>7, <1>8 DEF IInv

\* The application hears of an offer before it ends.
LEMMA SignalKeeps ==
  ASSUME IInv, SignalTaken
  PROVE  IInv'
<1>1. PICK s : s = Head(signals)
  OBVIOUS
<1>2. /\ signals # <<>> /\ signals' = Tail(signals)
      /\ peer' = peer /\ wire' = wire /\ answers' = answers /\ chat' = chat /\ files' = files
      /\ IF s.kind = "incoming"
         THEN /\ app' = [app EXCEPT ![s.ftId] = "offered"]
              /\ offered' = [offered EXCEPT ![s.ftId] = s.transfer]
              /\ outcomes' = outcomes
         ELSE /\ outcomes' = [outcomes EXCEPT ![s.ftId] = Append(@, s.kind)]
              /\ app' = app /\ offered' = offered
  BY <1>1 DEF SignalTaken
<1>3. transfers' = transfers /\ FTList' = FTList /\ ftid' = ftid /\ spins' = spins
  BY <1>2 DEF chat
<1>4. phase' = phase /\ lastId' = lastId /\ sent' = sent
  BY <1>2 DEF peer
<1>5. /\ signals \in Seq(SignalRecord) /\ signals' \in Seq(SignalRecord) /\ s \in SignalRecord
      /\ Len(signals) \in Nat /\ Len(signals) >= 1 /\ s = signals[1]
      /\ DOMAIN signals = 1 .. Len(signals) /\ DOMAIN signals' = 1 .. Len(signals) - 1
      /\ \A n \in 1 .. Len(signals) - 1 : signals'[n] = signals[n + 1]
  BY <1>1, <1>2, Sizes, Taken DEF IInv
<1>6. 1 \in DOMAIN signals
  BY <1>5
<1>7. \A n \in DOMAIN signals' : n \in Nat /\ n + 1 \in DOMAIN signals /\ n + 1 # 1 /\ signals'[n] = signals[n + 1]
  BY <1>5
<1>8. \A u : Same(u)
  BY <1>3, Unchanged
<1>9. s.kind = "incoming" => /\ s.ftId \in FtIds /\ app[s.ftId] = "none" /\ s.ftId < ftid
                             /\ Offer(s.ftId, s.transfer) /\ s.transfer \in DOMAIN transfers
  <2> SUFFICES ASSUME s.kind = "incoming"
               PROVE  /\ s.ftId \in FtIds /\ app[s.ftId] = "none" /\ s.ftId < ftid
                      /\ Offer(s.ftId, s.transfer) /\ s.transfer \in DOMAIN transfers
    OBVIOUS
  <2>1. Offer(s.ftId, s.transfer)
    BY <1>5, <1>6 DEF IInv, Heard
  <2>2. s.ftId \in FtIds /\ s.ftId < ftid /\ s.transfer \in DOMAIN transfers
    BY <2>1 DEF Offer, IInv, OwnIds
  <2>3. app[s.ftId] = "none"
    BY <1>5, <1>6, <2>2 DEF IInv, Heard, IsIncoming
  <2> QED
    BY <2>1, <2>2, <2>3
<1>10. /\ app \in [FtIds -> {"none", "offered", "accepted"}]
       /\ offered \in [FtIds -> 0 .. Len(transfers)]
       /\ outcomes \in [FtIds \union StaleIds -> Seq({"finished", "cancelled"})]
  BY DEF IInv, Types, TypeOK
<1>11. /\ app' \in [FtIds -> {"none", "offered", "accepted"}]
       /\ offered' \in [FtIds -> 0 .. Len(transfers)]
       /\ \A i \in FtIds : \/ app'[i] = app[i] /\ offered'[i] = offered[i]
                           \/ /\ s.kind = "incoming" /\ i = s.ftId
                              /\ app'[i] = "offered" /\ offered'[i] = s.transfer /\ app[i] = "none"
  <2>1. CASE s.kind = "incoming"
    <3>1. s.transfer \in 0 .. Len(transfers)
      BY <1>9, <2>1, Sizes DEF IInv
    <3> QED
      BY <1>2, <1>9, <1>10, <2>1, <3>1
  <2>2. CASE s.kind # "incoming"
    BY <1>2, <1>10, <2>2
  <2> QED
    BY <2>1, <2>2
<1>12. /\ outcomes' \in [FtIds \union StaleIds -> Seq({"finished", "cancelled"})]
       /\ \A i \in FtIds : \A n \in DOMAIN outcomes'[i] :
            \/ n \in DOMAIN outcomes[i] /\ outcomes'[i][n] = outcomes[i][n]
            \/ s.kind # "incoming" /\ i = s.ftId /\ outcomes'[i][n] = s.kind
  <2>0. s.ftId \in FtIds \union StaleIds
    BY <1>5 DEF SignalRecord
  <2>1. CASE s.kind # "incoming"
    <3>1. PICK q \in Seq({"finished", "cancelled"}) : q = outcomes[s.ftId]
      BY <1>10, <2>0
    <3>2. s.kind \in {"finished", "cancelled"}
      BY <1>5, <2>1 DEF SignalRecord
    <3>3. PICK q1 : q1 = Append(q, s.kind)
      OBVIOUS
    <3>4. /\ q1 \in Seq({"finished", "cancelled"})
          /\ \A n \in DOMAIN q1 : (n \in DOMAIN q /\ q1[n] = q[n]) \/ q1[n] = s.kind
      <4>1. /\ q1 \in Seq({"finished", "cancelled"}) /\ Len(q) \in Nat /\ DOMAIN q = 1 .. Len(q)
            /\ DOMAIN q1 = 1 .. Len(q) + 1 /\ q1[Len(q) + 1] = s.kind
            /\ \A n \in 1 .. Len(q) : q1[n] = q[n]
        BY <3>2, <3>3, Appended
      <4> QED
        BY <4>1
    <3>5. outcomes' = [outcomes EXCEPT ![s.ftId] = q1]
      BY <1>2, <2>1, <3>1, <3>3
    <3>6. /\ outcomes'[s.ftId] = q1 /\ \A i \in FtIds : i # s.ftId => outcomes'[i] = outcomes[i]
          /\ outcomes' \in [FtIds \union StaleIds -> Seq({"finished", "cancelled"})]
      BY <1>10, <2>0, <3>4, <3>5
    <3> QED
      BY <2>1, <3>1, <3>4, <3>6
  <2>2. CASE s.kind = "incoming"
    BY <1>2, <1>10, <2>2
  <2> QED
    BY <2>1, <2>2
<1>13. Types'
  BY <1>2, <1>3, <1>4, <1>5, <1>11, <1>12 DEF IInv, Types, TypeOK
<1>14. ApplicationStep
  BY <1>2, <1>3, Sizes DEF ApplicationStep, IInv
<1>15. Room'
  <2>1. ASSUME NEW u \in Transfers PROVE Needed(u)' = Needed(u)
    <3>1. AnswersToCome(u)' = AnswersToCome(u)
      BY <1>8 DEF AnswersToCome, Same
    <3>2. OwnSteps(u)' = OwnSteps(u)
      BY <1>4 DEF OwnSteps
    <3>3. \A kind : Waiting(u, kind)' = Waiting(u, kind)
      BY <1>2 DEF Waiting
    <3>4. PICK a, b, c, d, e :
            /\ a = Waiting(u, "200OK") /\ b = Waiting(u, "200OK NEGOTIATION")
            /\ c = Waiting(u, "PREPARATION") /\ d = OwnSteps(u) /\ e = AnswersToCome(u)
      OBVIOUS
    <3>5. Needed(u) = a + b + c + d + e
      BY <3>4 DEF Needed
    <3>6. /\ a = Waiting(u, "200OK")' /\ b = Waiting(u, "200OK NEGOTIATION")'
          /\ c = Waiting(u, "PREPARATION")' /\ d = OwnSteps(u)' /\ e = AnswersToCome(u)'
      BY <3>1, <3>2, <3>3, <3>4
    <3>7. Needed(u)' = a + b + c + d + e
      BY <3>6 DEF Needed
    <3> QED
      BY <3>5, <3>7
  <2> QED
    BY <1>4, <2>1 DEF IInv, Room
<1>16. Told'
  BY <1>2, <1>8, ToldKept DEF Same, IInv
<1>17. \A i, tr : Offer(i, tr)' <=> Offer(i, tr)
  BY <1>3 DEF Offer, IsOffered
<1>18. Heard'
  <2>1. ASSUME NEW i \in FtIds, app'[i] # "none"
        PROVE  Offer(i, offered[i])' /\ \A p \in DOMAIN signals' : ~IsIncoming(signals'[p], i)
    <3>1. CASE app'[i] = app[i] /\ offered'[i] = offered[i]
      <4>1. Offer(i, offered[i]) /\ \A p \in DOMAIN signals : ~IsIncoming(signals[p], i)
        BY <2>1, <3>1 DEF IInv, Heard
      <4>2. PICK tr : tr = offered[i] /\ tr = offered'[i]
        BY <3>1
      <4>3. Offer(i, tr)'
        BY <1>17, <4>1, <4>2
      <4> QED
        BY <1>7, <4>1, <4>2, <4>3
    <3>2. CASE s.kind = "incoming" /\ i = s.ftId /\ offered'[i] = s.transfer
      <4>1. PICK tr : tr = s.transfer /\ tr = offered'[i]
        BY <3>2
      <4>2. Offer(i, tr)'
        BY <1>9, <1>17, <3>2, <4>1
      <4>3. IsIncoming(signals[1], i)
        BY <1>5, <3>2 DEF IsIncoming
      <4>4. ASSUME NEW p \in DOMAIN signals', IsIncoming(signals'[p], i) PROVE FALSE
        <5>1. p + 1 \in DOMAIN signals /\ p + 1 # 1 /\ IsIncoming(signals[p + 1], i)
          BY <1>7, <4>4
        <5> QED
          BY <1>6, <4>3, <5>1 DEF IInv, Heard
      <4> QED
        BY <4>1, <4>2, <4>4
    <3> QED
      BY <1>11, <3>1, <3>2
  <2>2. ASSUME NEW p \in DOMAIN signals', signals'[p].kind = "incoming"
        PROVE  Offer(signals[p].ftId, signals[p].transfer)'
    <3>1. PICK x : x = signals'[p] /\ x = signals[p + 1] /\ p + 1 \in DOMAIN signals
      BY <1>7, <2>2
    <3>2. PICK i, tr : i = x.ftId /\ tr = x.transfer
      OBVIOUS
    <3>3. Offer(i, tr)
      BY <2>2, <3>1, <3>2 DEF IInv, Heard
    <3>4. Offer(i, tr)'
      BY <1>17, <3>3
    <3> QED
      BY <3>1, <3>2, <3>4
  <2>3. ASSUME NEW p \in DOMAIN signals', NEW q \in DOMAIN signals', NEW i \in FtIds,
               IsIncoming(signals'[p], i), IsIncoming(signals'[q], i)
        PROVE  p = q
    <3>1. p + 1 \in DOMAIN signals /\ q + 1 \in DOMAIN signals /\ p \in Nat /\ q \in Nat
          /\ IsIncoming(signals[p + 1], i) /\ IsIncoming(signals[q + 1], i)
      BY <1>7, <2>3
    <3>2. p + 1 = q + 1
      BY <3>1 DEF IInv, Heard
    <3> QED
      BY <3>1, <3>2
  <2>4. ASSUME NEW tr \in DOMAIN transfers', transfers'[tr].hasDestination
        PROVE  IsOffered(tr)' /\ app'[transfers'[tr].ftId] = "accepted"
    <3>1. tr \in DOMAIN transfers /\ transfers[tr].hasDestination
      BY <1>3, <2>4
    <3>2. /\ IsOffered(tr) /\ transfers[tr].ftId \in FtIds /\ app[transfers[tr].ftId] = "accepted"
      BY <3>1, Destination DEF IInv
    <3>3. app'[transfers[tr].ftId] = app[transfers[tr].ftId]
      BY <1>11, <3>2
    <3>4. IsOffered(tr)'
      BY <1>3, <3>2 DEF IsOffered
    <3> QED
      BY <1>3, <3>2, <3>3, <3>4
  <2> QED
    BY <2>1, <2>2, <2>3, <2>4 DEF Heard, IsIncoming
<1>19. OffersLast
  BY <1>3 DEF OffersLast, IsOffered
<1>20. Data'
  <2>1. SameData
    BY <1>2 DEF SameData
  <2>2. \A i \in FtIds : (app'[i] # "accepted" => app[i] # "accepted" \/ files[i] = <<>>)
                         /\ (files[i] # <<>> => offered'[i] = offered[i])
    BY <1>11 DEF IInv, Data
  <2>3. \A ur \in DOMAIN transfers : transfers[ur].hasTransfered => transfers[ur].hasDestination
    BY DEF IInv, Data
  <2> QED
    BY <1>2, <1>3, <1>4, <1>19, <2>1, <2>2, <2>3, DataKept DEF IInv
<1>21. Finished'
  <2>1. \A i : IsFinished(i) => IsFinished(i)'
    BY <1>3 DEF IsFinished
  <2>2. \A p \in DOMAIN signals' : signals'[p].kind = "finished" => \E q \in DOMAIN signals : signals[q] = signals'[p]
    BY <1>7
  <2>3. s.kind = "finished" => IsFinished(s.ftId)
    BY <1>5, <1>6 DEF IInv, Finished
  <2>4. \A i \in FtIds : \A n \in DOMAIN outcomes'[i] : outcomes'[i][n] = "finished" => IsFinished(i)
    BY <1>12, <2>3 DEF IInv, Finished
  <2> QED
    BY <2>1, <2>2, <2>4, FinishedKept DEF IInv
<1>22. \A i \in FtIds : i >= ftid => app'[i] = "none"
  <2>1. ASSUME NEW i \in FtIds, i >= ftid PROVE app'[i] = "none"
    <3>1. app[i] = "none"
      BY <2>1 DEF IInv, OwnIds
    <3>2. s.kind = "incoming" => i # s.ftId
      BY <1>9, <2>1, OtherTypes, Constants DEF IInv
    <3> QED
      BY <1>11, <3>1, <3>2
  <2> QED
    BY <2>1
<1> QED
  BY <1>13, <1>14, <1>15, <1>16, <1>18, <1>20, <1>21, <1>22, ApplicationRest

\* What is accepted was not, and none of its data was sent.
LEMMA AcceptKeeps ==
  ASSUME IInv, NEW i \in FtIds, acceptFileTransfer(i)
  PROVE  IInv'
<1>1. PICK tr : tr = offered[i]
  OBVIOUS
<1>2. /\ app[i] = "offered" /\ app' = [app EXCEPT ![i] = "accepted"]
      /\ transfers' = [transfers EXCEPT ![tr].hasDestination = TRUE]
      /\ Answer(transfers[tr].of, "200OK")
      /\ peer' = peer /\ UNCHANGED <<wire, FTList, ftid, spins, signals, offered, outcomes, files>>
  BY <1>1 DEF acceptFileTransfer
<1>3. phase' = phase /\ lastId' = lastId /\ sent' = sent
  BY <1>2 DEF peer
<1>4. Offer(i, tr) /\ \A p \in DOMAIN signals : ~IsIncoming(signals[p], i)
  BY <1>1, <1>2 DEF IInv, Heard
<1>5. /\ tr \in DOMAIN transfers /\ IsOffered(tr) /\ transfers[tr].ftId = i /\ i < ftid
      /\ Kind[transfers[tr].of] = "FILE" /\ transfers[tr].step # "INVITATION"
  BY <1>4 DEF Offer, IsOffered, IInv, OwnIds
<1>6. ~transfers[tr].hasDestination
  BY <1>2, <1>5 DEF IInv, Heard
<1>7. PICK o \in Record : o = transfers[tr]
  BY <1>5, RecordTypes DEF IInv
<1>8. PICK e : e = [o EXCEPT !.hasDestination = TRUE]
  OBVIOUS
<1>9. /\ e \in Record /\ e.of = o.of /\ e.step = o.step /\ e.ftId = o.ftId /\ e.p2pType = o.p2pType
      /\ e.hasDestination /\ e.hasTransfered = o.hasTransfered
  BY <1>7, <1>8 DEF Record
<1>10. transfers' = [transfers EXCEPT ![tr] = e]
  BY <1>2, <1>7, <1>8
<1>11. /\ transfers' \in Seq(Record) /\ DOMAIN transfers' = DOMAIN transfers /\ transfers'[tr] = e
       /\ \A ur \in DOMAIN transfers : ur # tr => transfers'[ur] = transfers[ur]
  <2>1. transfers \in Seq(Record)
    BY Sizes DEF IInv
  <2> QED
    BY <1>5, <1>9, <1>10, <2>1, Updated
<1>12. PICK t \in Transfers : t = o.of
  BY <1>5, <1>7, RecordTypes DEF IInv
<1>13. ApplicationStep
  <2>1. \A ur \in DOMAIN transfers :
       /\ transfers'[ur].of = transfers[ur].of /\ transfers'[ur].step = transfers[ur].step
       /\ transfers'[ur].ftId = transfers[ur].ftId /\ transfers'[ur].p2pType = transfers[ur].p2pType
       /\ transfers'[ur].hasTransfered = transfers[ur].hasTransfered
       /\ transfers[ur].hasDestination => transfers'[ur].hasDestination
    <3> TAKE ur \in DOMAIN transfers
    <3>1. CASE ur = tr
      BY <1>7, <1>9, <1>11, <3>1
    <3>2. CASE ur # tr
      BY <1>11, <3>2
    <3> QED
      BY <3>1, <3>2
  <2> QED
    BY <1>2, <1>11, <2>1 DEF ApplicationStep
<1>14. OneChanges(tr, t)
  <2>1. DOMAIN transfers' = DOMAIN transfers \union {tr}
    BY <1>5, <1>11
  <2>2. transfers'[tr].of = t /\ transfers[tr].of = t
    BY <1>7, <1>9, <1>11, <1>12
  <2> QED
    BY <1>11, <2>1, <2>2 DEF OneChanges
<1>15. /\ \A u : u # t => Same(u)
       /\ Known(t)' /\ (\A steps : In(t, steps)' <=> o.step \in steps)
       /\ Accepted(t)'
  <2>1. /\ \A u : u # t => Same(u)
        /\ Known(t)' /\ (\A steps : In(t, steps)' <=> transfers'[tr].step \in steps)
        /\ Accepted(t)' <=> transfers'[tr].hasDestination
    BY <1>14, Views DEF IInv
  <2>2. transfers'[tr].step = o.step /\ transfers'[tr].hasDestination
    BY <1>9, <1>11
  <2> QED
    BY <2>1, <2>2
<1>16. (\A steps : In(t, steps) <=> o.step \in steps) /\ ~Accepted(t)
  <2>1. (\A steps : In(t, steps) <=> transfers[tr].step \in steps) /\ (Accepted(t) <=> transfers[tr].hasDestination)
    BY <1>5, <1>7, <1>12, OneObject DEF IInv
  <2> QED
    BY <1>6, <1>7, <2>1
<1>17. Kind[t] = "FILE"
  BY <1>5, <1>7, <1>12
<1>18. AnswersToCome(t)' + 1 <= AnswersToCome(t)
  <2>1. PICK x \in {0, 1} : /\ x = One(~In(t, {"TRANSFER", "BYE"}))
                            /\ x = One(~In(t, {"TRANSFER", "BYE"})')
    BY <1>15, <1>16 DEF One
  <2>2. AnswersToCome(t) = 1 + x
    BY <1>16, <1>17, <2>1 DEF AnswersToCome, One
  <2>3. AnswersToCome(t)' = 0 + x
    BY <1>15, <1>17, <2>1 DEF AnswersToCome, One
  <2> QED
    BY <2>2, <2>3
<1>19. Answer(t, "200OK") /\ "200OK" \in AnswerKinds
  BY <1>2, <1>7, <1>12 DEF AnswerKinds
<1>20. Room' /\ answers' \in Seq(AnswerRecord)
  BY <1>2, <1>15, <1>18, <1>19, AnswerRoom DEF IInv
<1>21. Told'
  <2>1. PICK a \in AnswerRecord : answers' = Append(answers, a) /\ a.t = t /\ a.kind = "200OK"
    BY <1>19, AnswerAdded DEF IInv
  <2>2. ToldOf(a)'
    BY <1>15, <2>1 DEF ToldOf
  <2>3. \A u : /\ Known(u) => Known(u)'
               /\ Accepted(u) => Accepted(u)'
               /\ In(u, {"TRANSFER", "BYE"}) => In(u, {"TRANSFER", "BYE"})'
    <3> TAKE u
    <3>1. CASE u = t
      BY <1>15, <1>16, <3>1
    <3>2. CASE u # t
      BY <1>15, <3>2 DEF Same
    <3> QED
      BY <3>1, <3>2
  <2> QED
    BY <2>1, <2>2, <2>3, ToldKept DEF IInv
<1>22. app \in [FtIds -> {"none", "offered", "accepted"}]
  BY DEF IInv, Types, TypeOK
<1>23. /\ app' \in [FtIds -> {"none", "offered", "accepted"}] /\ app'[i] = "accepted"
       /\ \A j \in FtIds : j # i => app'[j] = app[j]
  BY <1>2, <1>22
<1>24. Types'
  <2>1. Len(transfers') = Len(transfers)
    BY <1>11, Sizes, LenProperties, Updated, <1>5, <1>9, <1>10 DEF IInv
  <2>2. /\ phase \in [Transfers -> {"new", "invited", "accepted", "asked", "ready", "closed"}]
        /\ lastId \in [Transfers -> Nat] /\ sent \in [Transfers -> 0 .. Chunks]
        /\ wire \in Seq(Messages)
        /\ FTList \in [DOMAIN FTList -> 1 .. Len(transfers)] /\ DOMAIN FTList \subseteq Nat
        /\ ftid \in Nat /\ spins \in BOOLEAN
        /\ offered \in [FtIds -> 0 .. Len(transfers)]
        /\ outcomes \in [FtIds \union StaleIds -> Seq({"finished", "cancelled"})]
        /\ files \in [FtIds -> Seq(Chunk)] /\ signals \in Seq(SignalRecord)
    BY DEF IInv, Types, TypeOK
  <2>3. TypeOK'
    BY <1>2, <1>3, <1>11, <1>20, <1>23, <2>1, <2>2 DEF TypeOK, Record, AnswerRecord, AnswerKinds
  <2> QED
    BY <1>2, <2>2, <2>3 DEF Types
<1>25. \A ur \in DOMAIN transfers : IsOffered(ur)' <=> IsOffered(ur)
  <2> TAKE ur \in DOMAIN transfers
  <2>1. transfers'[ur].of = transfers[ur].of /\ transfers'[ur].step = transfers[ur].step
    BY <1>13 DEF ApplicationStep
  <2> QED
    BY <2>1 DEF IsOffered
<1>26. OffersLast
  <2>1. \A ur \in DOMAIN transfers : transfers'[ur].of = transfers[ur].of /\ transfers'[ur].ftId = transfers[ur].ftId
    BY <1>13 DEF ApplicationStep
  <2> QED
    BY <1>11, <1>25, <2>1 DEF OffersLast
<1>27. Heard'
  <2>1. ASSUME NEW j \in FtIds, app'[j] # "none"
        PROVE  Offer(j, offered[j])' /\ \A p \in DOMAIN signals' : ~IsIncoming(signals'[p], j)
    <3>1. app[j] # "none"
      BY <1>2, <1>23, <2>1
    <3>2. Offer(j, offered[j]) /\ \A p \in DOMAIN signals : ~IsIncoming(signals[p], j)
      BY <3>1 DEF IInv, Heard
    <3>3. PICK ur : ur = offered[j] /\ ur = offered'[j]
      BY <1>2
    <3>4. Offer(j, ur)'
      BY <1>26, <3>2, <3>3, OfferStays
    <3> QED
      BY <1>2, <3>2, <3>3, <3>4
  <2>2. ASSUME NEW p \in DOMAIN signals', signals'[p].kind = "incoming"
        PROVE  Offer(signals[p].ftId, signals[p].transfer)'
    <3>1. PICK x : x = signals'[p] /\ x = signals[p] /\ p \in DOMAIN signals
      BY <1>2, <2>2
    <3>2. PICK j, ur : j = x.ftId /\ ur = x.transfer
      OBVIOUS
    <3>3. Offer(j, ur)
      BY <2>2, <3>1, <3>2 DEF IInv, Heard
    <3>4. Offer(j, ur)'
      BY <1>26, <3>3, OfferStays
    <3> QED
      BY <3>1, <3>2, <3>4
  <2>3. \A p, q \in DOMAIN signals' : \A j \in FtIds :
          IsIncoming(signals'[p], j) /\ IsIncoming(signals'[q], j) => p = q
    BY <1>2 DEF IInv, Heard
  <2>4. ASSUME NEW ur \in DOMAIN transfers', transfers'[ur].hasDestination
        PROVE  IsOffered(ur)' /\ app'[transfers'[ur].ftId] = "accepted"
    <3>1. CASE ur = tr
      BY <1>5, <1>7, <1>9, <1>11, <1>23, <1>25, <3>1
    <3>2. CASE ur # tr
      <4>1. ur \in DOMAIN transfers /\ transfers'[ur] = transfers[ur]
        BY <1>11, <2>4, <3>2
      <4>2. IsOffered(ur) /\ transfers[ur].ftId \in FtIds /\ app[transfers[ur].ftId] = "accepted"
        BY <2>4, <4>1, Destination DEF IInv
      <4>3. transfers[ur].ftId # i
        BY <1>2, <4>2
      <4> QED
        BY <1>23, <1>25, <4>1, <4>2, <4>3
    <3> QED
      BY <3>1, <3>2
  <2> QED
    BY <2>1, <2>2, <2>3, <2>4 DEF Heard, IsIncoming
<1>28. DataOf(tr)'
  <2>1. files[i] = <<>>
    BY <1>2 DEF IInv, Data
  <2>2. Len(files[i]) = 0
    BY <2>1
  <2>3. sent[t] = 0
    <3>1. Paced(t) /\ sent[t] \in Nat
      BY <1>12, OtherTypes DEF IInv, Pace
    <3> QED
      BY <1>16, <3>1 DEF Paced
  <2>4. \A n \in DOMAIN wire : ~IsData(wire[n], t)
    <3>1. ASSUME NEW n \in DOMAIN wire, IsData(wire[n], t) PROVE FALSE
      <4>1. Fits(wire[n])
        BY DEF IInv, Script
      <4>2. wire[n].nr \in 1 .. 0
        BY <2>3, <3>1, <4>1 DEF IsData, Fits, DataFits
      <4> QED
        BY <4>2
    <3> QED
      BY <3>1
  <2>5. transfers'[tr].of = t /\ transfers'[tr].ftId = i
    BY <1>5, <1>7, <1>9, <1>11, <1>12
  <2>6. /\ 0 <= sent'[t]
        /\ \A n \in DOMAIN wire' : IsData(wire'[n], t) => wire'[n].nr > 0
        /\ \A v \in 0 + 1 .. sent'[t] : \E n \in DOMAIN wire' : IsData(wire'[n], t) /\ wire'[n].nr = v
    BY <1>2, <1>3, <2>3, <2>4
  <2>7. 0 = Len(files'[i])
    BY <1>2, <2>2
  <2> QED
    BY <2>5, <2>6, <2>7 DEF DataOf, IsData
<1>29. Data'
  <2>1. SameData
    BY <1>2 DEF SameData
  <2>2. \A j \in FtIds : (app'[j] # "accepted" => app[j] # "accepted" \/ files[j] = <<>>)
                         /\ (files[j] # <<>> => offered'[j] = offered[j])
    BY <1>2, <1>23
  <2>3. \A ur \in DOMAIN transfers' : transfers'[ur].hasDestination =>
           (ur \in DOMAIN transfers /\ transfers[ur].hasDestination) \/ DataOf(ur)'
    BY <1>11, <1>28
  <2>4. \A ur \in DOMAIN transfers' : transfers'[ur].hasTransfered =>
           ur \in DOMAIN transfers /\ transfers[ur].hasTransfered /\ transfers'[ur].hasDestination
    <3>1. \A ur \in DOMAIN transfers : transfers[ur].hasTransfered => transfers[ur].hasDestination
      BY DEF IInv, Data
    <3>2. \A ur \in DOMAIN transfers : /\ transfers'[ur].hasTransfered = transfers[ur].hasTransfered
                                       /\ transfers[ur].hasDestination => transfers'[ur].hasDestination
      BY <1>13 DEF ApplicationStep
    <3> QED
      BY <1>11, <3>1, <3>2
  <2> QED
    BY <1>2, <1>3, <1>26, <2>1, <2>2, <2>3, <2>4, DataKept DEF IInv
<1>30. Finished'
  <2>1. \A ur \in DOMAIN transfers : transfers[ur].hasTransfered => transfers'[ur].hasTransfered
    BY <1>13 DEF ApplicationStep
  <2>2. \A j : IsFinished(j) => IsFinished(j)'
    BY <1>26, <2>1, FinishedStays DEF IInv
  <2>3. \A p \in DOMAIN signals' : signals'[p].kind = "finished" => \E q \in DOMAIN signals : signals[q] = signals'[p]
    BY <1>2
  <2>4. \A j \in FtIds : \A n \in DOMAIN outcomes'[j] : outcomes'[j][n] = "finished" => IsFinished(j)
    BY <1>2 DEF IInv, Finished
  <2> QED
    BY <2>2, <2>3, <2>4, FinishedKept DEF IInv
<1>31. \A j \in FtIds : j >= ftid => app'[j] = "none"
  <2>1. \A j \in FtIds : j >= ftid => app[j] = "none" /\ j # i
    BY <1>5, OtherTypes, Constants DEF IInv, OwnIds
  <2> QED
    BY <1>23, <2>1
<1> QED
  BY <1>13, <1>20, <1>21, <1>24, <1>27, <1>29, <1>30, <1>31, ApplicationRest

-----------------------------------------------------------------------------
(* The thread's step *)

\* Two fields of a Transfer change.
LEMMA TwoFields ==
  ASSUME NEW objects \in Seq(Record), NEW tr \in DOMAIN objects, NEW id, NEW e,
         e = [objects[tr] EXCEPT !.step = "NEGOTIATION", !.ftId = id]
  PROVE  [objects EXCEPT ![tr].step = "NEGOTIATION", ![tr].ftId = id] = [objects EXCEPT ![tr] = e]
  OBVIOUS

\* How the last part of an invitation changes its Transfer, in the form of the others.
LEMMA BecomesInvited ==
  ASSUME NEW objects, NEW list, NEW m, NEW tr, Found(objects, list, m, tr), NEW type, type = objects[tr].p2pType,
         transfers' = [objects EXCEPT ![tr].step = "NEGOTIATION",
                                      ![tr].ftId = IF type = "FILE" THEN ftid ELSE @]
  PROVE  \E e : Invited(e, objects[tr]) /\ Becomes(objects, tr, e)
<1>1. objects \in Seq(Record) /\ tr \in DOMAIN objects
  BY DEF Found
<1>2. PICK id : id = (IF type = "FILE" THEN ftid ELSE objects[tr].ftId)
  OBVIOUS
<1>3. PICK e : e = [objects[tr] EXCEPT !.step = "NEGOTIATION", !.ftId = id]
  OBVIOUS
<1>4. objects[tr] \in Record
  BY <1>1, ElementOfSeq
<1>5. transfers' = [objects EXCEPT ![tr].step = "NEGOTIATION", ![tr].ftId = id]
  BY <1>1, <1>2, <1>4 DEF Record
<1>6. transfers' = [objects EXCEPT ![tr] = e]
  BY <1>1, <1>3, <1>5, TwoFields
<1>7. e = [objects[tr] EXCEPT !.step = "NEGOTIATION", !.ftId = IF objects[tr].p2pType = "FILE" THEN ftid ELSE @]
  BY <1>2, <1>3, <1>4 DEF Record
<1> QED
  BY <1>6, <1>7 DEF Invited, Becomes

\* The thread takes a part of an invitation.
LEMMA InvitationKeeps ==
  ASSUME IInv, wire # <<>>, NEW m, NEW objects, InvitationArrives(m, objects),
         NEW tr, Its(m) = tr, Found(objects, Listed(m), m, tr)
  PROVE  IInv'
<1>1. /\ m = Head(wire) /\ ~m.isEmpty /\ wire' = Tail(wire)
      /\ objects[tr].step = "INVITATION" /\ FTList' = Listed(m)
      /\ peer' = peer /\ application' = application /\ spins' = spins /\ files' = files
  BY DEF InvitationArrives, Continues, Takes
<1>2. Found(objects, FTList', m, tr) /\ StepOf(m) = "INVITATION"
  <2>1. PICK list : list = Listed(m)
    OBVIOUS
  <2>2. Found(objects, list, m, tr) /\ FTList' = list
    BY <1>1, <2>1
  <2> QED
    BY <1>1, <2>2 DEF Found
<1>3. CASE ~m.isFinished
  <2>1. transfers' = objects /\ ftid' = ftid /\ signals' = signals /\ answers' = answers
    BY <1>3 DEF InvitationArrives
  <2> QED
    BY <1>1, <1>2, <1>3, <2>1, InvitationGoesOn
<1>4. CASE m.isFinished
  <2>1. PICK type, s : type = objects[tr].p2pType /\ s = [Signal("incoming", ftid) EXCEPT !.transfer = tr]
    OBVIOUS
  <2>2. /\ transfers' = [objects EXCEPT ![tr].step = "NEGOTIATION",
                                        ![tr].ftId = IF type = "FILE" THEN ftid ELSE @]
        /\ IF type = "FILE" THEN ftid' = ftid + 1 /\ Emit(<<s>>) ELSE UNCHANGED <<ftid, signals>>
        /\ IF type = "EMOTICON" THEN Answer(objects[tr].of, "200OK") ELSE UNCHANGED answers
    BY <1>4, <2>1 DEF InvitationArrives
  <2>3. PICK e : Invited(e, objects[tr]) /\ Becomes(objects, tr, e)
    BY <2>1, <2>2, BecomesInvited
  <2>4. \/ type = "FILE" /\ ftid' = ftid + 1 /\ Emit(<<s>>)
        \/ type # "FILE" /\ UNCHANGED <<ftid, signals>>
    BY <2>2
  <2>5. \/ type = "EMOTICON" /\ Answer(objects[tr].of, "200OK")
        \/ type # "EMOTICON" /\ UNCHANGED answers
    BY <2>2
  <2> QED
    BY <1>1, <1>2, <1>4, <2>1, <2>3, <2>4, <2>5, InvitationEnds
<1> QED
  BY <1>3, <1>4

\* A request for a channel finds the Transfer that it is about.
LEMMA RequestArrived ==
  ASSUME IInv, wire # <<>>, NEW m, NEW objects, NegotiationArrives(m, objects),
         NEW tr, Its(m) = tr, Found(objects, Listed(m), m, tr)
  PROVE  \E e : RequestTaken(m, tr, objects, e)
<1>1. /\ m = Head(wire) /\ ~m.isEmpty /\ wire' = Tail(wire)
      /\ objects[tr].step = "NEGOTIATION" /\ FTList' = Listed(m)
      /\ peer' = peer /\ application' = application
      /\ ftid' = ftid /\ spins' = spins /\ signals' = signals /\ files' = files
  BY DEF NegotiationArrives, Continues, Takes
<1>2. Found(objects, FTList', m, tr) /\ StepOf(m) = "NEGOTIATION"
  <2>1. PICK list : list = Listed(m)
    OBVIOUS
  <2>2. Found(objects, list, m, tr) /\ FTList' = list
    BY <1>1, <2>1
  <2> QED
    BY <1>1, <2>2 DEF Found
<1>3. m.isFinished
  <2>1. Fits(m) /\ m.step = "NEGOTIATION"
    BY <1>1, <1>2, HeadOfWire DEF StepOf
  <2> QED
    BY <1>1, <2>1 DEF Fits, RequestFits
<1>4. transfers' = [objects EXCEPT ![tr].step = "TRANSFER"] /\ Answer(m.t, "200OK NEGOTIATION")
  BY <1>3 DEF NegotiationArrives
<1>5. PICK e : e = [objects[tr] EXCEPT !.step = "TRANSFER"]
  OBVIOUS
<1>6. Requested(e, objects[tr]) /\ Becomes(objects, tr, e)
  BY <1>4, <1>5 DEF Requested, Becomes
<1>7. RequestTaken(m, tr, objects, e)
  BY <1>1, <1>2, <1>4, <1>6 DEF RequestTaken
<1> QED
  BY <1>7

\* The thread takes a message of the negotiation.
LEMMA NegotiationKeeps ==
  ASSUME IInv, wire # <<>>, NEW m, NEW objects, NegotiationArrives(m, objects),
         NEW tr, Its(m) = tr, Found(objects, Listed(m), m, tr)
  PROVE  IInv'
<1>1. PICK e : RequestTaken(m, tr, objects, e)
  BY RequestArrived
<1> QED
  BY <1>1, RequestKeeps

\* A piece of the data finds the Transfer of the file it belongs to.
LEMMA DataArrived ==
  ASSUME IInv, wire # <<>>, NEW m, NEW objects, DataArrives(m, objects),
         NEW tr, Its(m) = tr, Found(objects, Listed(m), m, tr)
  PROVE  DataTaken(m, tr)
<1>1. /\ m = Head(wire) /\ ~m.isEmpty /\ wire' = Tail(wire)
      /\ objects[tr].step = "TRANSFER" /\ FTList' = Listed(m)
      /\ peer' = peer /\ application' = application
      /\ ftid' = ftid /\ spins' = spins /\ answers' = answers
  BY DEF DataArrives, Continues, Takes
<1>2. PICK list : list = Listed(m)
  OBVIOUS
<1>3. Found(objects, list, m, tr)
  BY <1>2
<1>4. StepOf(m) = "TRANSFER" /\ m.step = "TRANSFER"
  BY <1>1, <1>3 DEF Found, StepOf
<1>5. /\ tr \in DOMAIN transfers /\ transfers[tr].of = m.t /\ objects[tr].of = m.t
      /\ objects[tr] \in Record /\ transfers[tr] \in Record
      /\ transfers[tr].step = "TRANSFER" /\ objects[tr].step = "TRANSFER"
      /\ objects[tr].ftId = transfers[tr].ftId /\ objects[tr].p2pType = transfers[tr].p2pType
      /\ objects[tr].hasDestination = transfers[tr].hasDestination
      /\ objects[tr].hasTransfered = transfers[tr].hasTransfered
  BY <1>1, <1>3, <1>4, FoundOld
<1>6. PICK o \in Record : o = objects[tr]
  BY <1>5
<1>7. PICK e : e = [o EXCEPT !.hasTransfered = TRUE]
  OBVIOUS
<1>8. /\ e \in Record /\ e.of = o.of /\ e.step = o.step /\ e.ftId = o.ftId /\ e.p2pType = o.p2pType
      /\ e.hasDestination = o.hasDestination /\ e.hasTransfered
  BY <1>6, <1>7 DEF Record
<1>9. IF m.isFinished THEN transfers' = [objects EXCEPT ![tr] = e] ELSE transfers' = objects
  <2>1. IF m.isFinished THEN transfers' = [objects EXCEPT ![tr].hasTransfered = TRUE] ELSE transfers' = objects
    BY DEF DataArrives
  <2> QED
    BY <1>6, <1>7, <2>1
<1>10. OneChanges(tr, m.t) /\ transfers'[tr] = IF m.isFinished THEN e ELSE o
  <2>1. CASE m.isFinished
    <3>1. Becomes(objects, tr, e)
      BY <1>9, <2>1 DEF Becomes
    <3>2. e.of = m.t
      BY <1>5, <1>6, <1>8
    <3> QED
      BY <1>3, <1>8, <2>1, <3>1, <3>2, FoundBecomes
  <2>2. CASE ~m.isFinished
    <3>1. transfers' = objects
      BY <1>9, <2>2
    <3> QED
      BY <1>3, <1>6, <2>2, <3>1, FoundStays
  <2> QED
    BY <2>1, <2>2
<1>11. /\ transfers'[tr].step = "TRANSFER"
       /\ transfers'[tr].ftId = transfers[tr].ftId /\ transfers'[tr].p2pType = transfers[tr].p2pType
       /\ transfers'[tr].hasDestination = transfers[tr].hasDestination
       /\ transfers'[tr].hasTransfered <=> transfers[tr].hasTransfered \/ m.isFinished
  <2>1. CASE m.isFinished
    BY <1>5, <1>6, <1>8, <1>10, <2>1
  <2>2. CASE ~m.isFinished
    BY <1>5, <1>6, <1>10, <2>2
  <2> QED
    BY <2>1, <2>2
<1>12. Entry(FTList', tr, m.id)
  <2>1. Entry(list, tr, m.id) /\ FTList' = list
    BY <1>1, <1>2, <1>3 DEF Found
  <2> QED
    BY <2>1
<1>13. /\ files' = IF transfers[tr].hasDestination
                   THEN [files EXCEPT ![transfers[tr].ftId] = Append(@, [t |-> m.t, step |-> m.step, nr |-> m.nr])]
                   ELSE files
       /\ IF m.isFinished THEN Emit(<<Signal("finished", transfers[tr].ftId)>>) ELSE signals' = signals
  BY <1>5 DEF DataArrives
<1>14. DataTaken(m, tr)
  BY <1>1, <1>4, <1>5, <1>10, <1>11, <1>12, <1>13 DEF DataTaken
<1> QED
  BY <1>14

\* The thread takes a piece of the data.
LEMMA TransferKeeps ==
  ASSUME IInv, wire # <<>>, NEW m, NEW objects, DataArrives(m, objects),
         NEW tr, Its(m) = tr, Found(objects, Listed(m), m, tr)
  PROVE  IInv'
  BY DataArrived, DataKeeps

\* A BYE finds the Transfer it ends.
LEMMA ByeArrived ==
  ASSUME IInv, IdsFit, wire # <<>>, NEW m, NEW objects, ByeArrives(m, objects),
         NEW tr, Its(m) = tr, Found(objects, Listed(m), m, tr)
  PROVE  ByeTaken(m, tr)
<1>1. /\ m = Head(wire) /\ ~m.isEmpty /\ wire' = Tail(wire)
      /\ objects[tr].step = "BYE" /\ transfers' = objects
      /\ peer' = peer /\ application' = application
      /\ ftid' = ftid /\ spins' = spins /\ answers' = answers /\ files' = files
  BY DEF ByeArrives, Continues, Takes
<1>2. PICK list : list = Listed(m)
  OBVIOUS
<1>3. Found(objects, list, m, tr)
  BY <1>2
<1>4. StepOf(m) = "BYE" /\ m.step = "BYE"
  BY <1>1, <1>3 DEF Found, StepOf
<1>5. /\ tr \in DOMAIN transfers /\ transfers[tr].of = m.t
      /\ transfers[tr].step \in {"NEGOTIATION", "TRANSFER"}
      /\ objects[tr].ftId = transfers[tr].ftId /\ objects[tr].p2pType = transfers[tr].p2pType
      /\ objects[tr].hasDestination = transfers[tr].hasDestination
      /\ objects[tr].hasTransfered = transfers[tr].hasTransfered
  BY <1>1, <1>3, <1>4, FoundOld
<1>6. OneChanges(tr, m.t) /\ transfers'[tr] = objects[tr]
  BY <1>1, <1>3, FoundStays
<1>7. /\ list \in [DOMAIN list -> DOMAIN transfers] /\ m.id \in DOMAIN list /\ list[m.id] = tr
      /\ \A j \in DOMAIN list : j # m.id => j \in DOMAIN FTList /\ FTList[j] # tr /\ list[j] = FTList[j]
      /\ \A j \in DOMAIN FTList : FTList[j] # tr => j \in DOMAIN list /\ j # m.id
  <2>1. Entry(list, tr, m.id)
    BY <1>3 DEF Found
  <2>2. DOMAIN transfers \union {tr} = DOMAIN transfers
    BY <1>5
  <2> QED
    BY <2>1, <2>2 DEF Entry
<1>8. FTList' = [k \in DOMAIN list \ {m.id} |-> list[k]]
  <2>1. byte2int(m.id) = m.id
    BY <1>1, Finds
  <2>2. FTList' = [k \in DOMAIN Listed(m) \ {byte2int(m.id)} |-> Listed(m)[k]]
    BY DEF ByeArrives
  <2> QED
    BY <1>2, <2>1, <2>2
<1>9. /\ FTList' \in [DOMAIN FTList' -> DOMAIN transfers]
      /\ \A j : j \in DOMAIN FTList' <=> j \in DOMAIN FTList /\ FTList[j] # tr
      /\ \A j \in DOMAIN FTList' : FTList'[j] = FTList[j]
  <2>1. DOMAIN FTList' = DOMAIN list \ {m.id} /\ \A j \in DOMAIN FTList' : FTList'[j] = list[j]
    BY <1>8
  <2>2. \A j \in DOMAIN FTList' : FTList'[j] \in DOMAIN transfers
    BY <1>7, <2>1
  <2>3. FTList' \in [DOMAIN FTList' -> DOMAIN transfers]
    BY <1>8, <2>1, <2>2
  <2> QED
    BY <1>7, <2>1, <2>3
<1>10. IF transfers[tr].hasTransfered THEN UNCHANGED signals
       ELSE Emit(<<Signal("cancelled", transfers[tr].ftId)>>)
  BY <1>5 DEF ByeArrives
<1>11. ByeTaken(m, tr)
  BY <1>1, <1>4, <1>5, <1>6, <1>9, <1>10 DEF ByeTaken
<1> QED
  BY <1>11

\* The thread takes a BYE.
LEMMA EndKeeps ==
  ASSUME IInv, IdsFit, wire # <<>>, NEW m, NEW objects, ByeArrives(m, objects),
         NEW tr, Its(m) = tr, Found(objects, Listed(m), m, tr)
  PROVE  IInv'
  BY ByeArrived, ByeKeeps

\* The thread takes the next message.
LEMMA ParseKeeps ==
  ASSUME IInv, IdsFit, parseMsg
  PROVE  IInv'
<1>1. PICK m : m = Head(wire)
  OBVIOUS
<1>2. /\ wire # <<>>
      /\ \/ AckArrives(m)
         \/ Dropped(m)
         \/ \E stale \in StaleIds : \E objects : objects = Stepped(m, stale) /\
              (\/ InvitationArrives(m, objects)
               \/ NegotiationArrives(m, objects)
               \/ DataArrives(m, objects)
               \/ ByeArrives(m, objects))
  BY <1>1, Zenon DEF parseMsg
<1>3. CASE AckArrives(m)
  BY <1>2, <1>3, AckKeeps
<1>4. CASE Dropped(m)
  <2>1. ~m.isEmpty /\ byte2int(m.id) \notin DOMAIN Listed(m)
    BY <1>4 DEF Dropped
  <2> QED
    BY <1>1, <1>2, <2>1, Finds
<1>5. ASSUME NEW stale \in StaleIds, NEW objects, objects = Stepped(m, stale),
             \/ InvitationArrives(m, objects)
             \/ NegotiationArrives(m, objects)
             \/ DataArrives(m, objects)
             \/ ByeArrives(m, objects)
      PROVE  IInv'
  <2>1. ~m.isEmpty
    BY <1>5 DEF InvitationArrives, NegotiationArrives, DataArrives, ByeArrives, Continues
  <2>2. PICK tr : Its(m) = tr /\ Found(Stepped(m, stale), Listed(m), m, tr)
    BY <1>1, <1>2, <2>1, Finds
  <2>3. Found(objects, Listed(m), m, tr)
    BY <1>5, <2>2
  <2>4. CASE InvitationArrives(m, objects)
    BY <1>2, <2>2, <2>3, <2>4, InvitationKeeps
  <2>5. CASE NegotiationArrives(m, objects)
    BY <1>2, <2>2, <2>3, <2>5, NegotiationKeeps
  <2>6. CASE DataArrives(m, objects)
    BY <1>2, <2>2, <2>3, <2>6, TransferKeeps
  <2>7. CASE ByeArrives(m, objects)
    BY <1>2, <2>2, <2>3, <2>7, EndKeeps
  <2> QED
    BY <1>5, <2>4, <2>5, <2>6, <2>7
<1> QED
  BY <1>2, <1>3, <1>4, <1>5

-----------------------------------------------------------------------------
(* The theorems *)

\* Nothing has happened yet.
LEMMA InitiallyTrue ==
  ASSUME Init
  PROVE  IInv
<1>1. /\ phase = [t \in Transfers |-> "new"] /\ lastId = Base /\ sent = [t \in Transfers |-> 0]
      /\ wire = <<>> /\ answers = <<>> /\ signals = <<>>
      /\ transfers = <<>> /\ FTList = <<>> /\ ftid = 1 /\ spins = FALSE
      /\ app = [i \in FtIds |-> "none"] /\ offered = [i \in FtIds |-> 0]
      /\ outcomes = [i \in FtIds \union StaleIds |-> <<>>] /\ files = [i \in FtIds |-> <<>>]
  BY DEF Init
<1>2. DOMAIN <<>> = {} /\ Len(<<>>) = 0 /\ \A S : <<>> \in Seq(S)
  OBVIOUS
<1>3. Chunks \in Nat /\ Base \in [Transfers -> Nat]
  BY Constants, TransfersAssumption
<1>4. Types
  <2>1. sent \in [Transfers -> 0 .. Chunks]
    BY <1>1, <1>3
  <2>2. FTList \in [DOMAIN FTList -> 1 .. Len(transfers)] /\ DOMAIN FTList \subseteq Nat
    BY <1>1, <1>2
  <2>3. offered \in [FtIds -> 0 .. Len(transfers)]
    BY <1>1, <1>2
  <2>4. /\ wire \in Seq(Messages) /\ signals \in Seq(SignalRecord)
        /\ answers \in Seq([t: Transfers, kind: {"200OK", "200OK NEGOTIATION", "PREPARATION"}])
        /\ transfers \in Seq([of: Transfers, step: Steps, ftId: FtIds \union StaleIds,
                              p2pType: {"NULL", "FILE", "EMOTICON", "WEBCAM"},
                              hasDestination: BOOLEAN, hasTransfered: BOOLEAN])
    BY <1>1, <1>2
  <2>5. /\ outcomes \in [FtIds \union StaleIds -> Seq({"finished", "cancelled"})] /\ files \in [FtIds -> Seq(Chunk)]
    BY <1>1, <1>2
  <2>6. /\ phase \in [Transfers -> {"new", "invited", "accepted", "asked", "ready", "closed"}]
        /\ lastId \in [Transfers -> Nat] /\ ftid \in Nat /\ spins \in BOOLEAN
        /\ app \in [FtIds -> {"none", "offered", "accepted"}]
    BY <1>1, <1>3
  <2> QED
    BY <2>1, <2>2, <2>3, <2>4, <2>5, <2>6 DEF Types, TypeOK
<1>5. DOMAIN transfers = {} /\ DOMAIN FTList = {} /\ DOMAIN wire = {} /\ DOMAIN signals = {} /\ DOMAIN answers = {}
  BY <1>1, <1>2
<1>6. \A t : ~Known(t) /\ ~Accepted(t) /\ ~Prepared(t) /\ \A steps : ~In(t, steps)
  BY <1>5 DEF Known, Accepted, Prepared, In
<1>7. Objects
  BY <1>5 DEF Objects
<1>8. Pace
  <2>1. ASSUME NEW t \in Transfers PROVE Paced(t)
    <3>1. phase[t] = "new" /\ sent[t] = 0
      BY <1>1
    <3> QED
      BY <1>6, <3>1 DEF Paced
  <2> QED
    BY <2>1 DEF Pace
<1>9. Script
  BY <1>1, <1>5, <1>6 DEF Script, Coming
<1>10. Numbers
  BY <1>1, <1>5 DEF Numbers
<1>11. Room
  <2>1. ASSUME NEW t \in Transfers PROVE Base[t] <= lastId[t] /\ lastId[t] + Needed(t) <= Base[t] + IdsPerTransfer
    <3>0. PICK a, b, c, d, e :
            /\ a = Waiting(t, "200OK") /\ b = Waiting(t, "200OK NEGOTIATION")
            /\ c = Waiting(t, "PREPARATION") /\ d = OwnSteps(t) /\ e = AnswersToCome(t)
      OBVIOUS
    <3>0s. Needed(t) = a + b + c + d + e
      BY <3>0 DEF Needed
    <3>1. a = 0 /\ b = 0 /\ c = 0
      <4>1. \A v : Places(answers, v) = {}
        BY <1>5 DEF Places
      <4> QED
        BY <3>0, <4>1, FS_EmptySet DEF Waiting
    <3>2. PICK l \in Nat : l = Base[t] /\ l = lastId[t]
      BY <1>1, <1>3
    <3>3. phase[t] = "new" /\ sent[t] = 0
      BY <1>1
    <3>4. CASE Kind[t] = "FILE"
      <4>1. d = 1 + 1 + (1 + 1)
        BY <3>0, <3>3, <3>4 DEF OwnSteps, One
      <4>2. e = 1 + 1
        BY <1>6, <3>0, <3>4 DEF AnswersToCome, One
      <4>3. Needed(t) = 6
        BY <3>0s, <3>1, <4>1, <4>2
      <4> QED
        BY <3>2, <4>3 DEF IdsPerTransfer
    <3>5. CASE Kind[t] # "FILE"
      <4>1. d = 1 + 1 + 0
        BY <3>0, <3>3, <3>5 DEF OwnSteps, One
      <4>2. e \in 0 .. 2
        <5>1. CASE Kind[t] = "EMOTICON"
          <6>1. e = 1 + 1
            BY <1>6, <3>0, <3>5, <5>1 DEF AnswersToCome, One
          <6> QED
            BY <6>1
        <5>2. CASE Kind[t] # "EMOTICON"
          <6>1. AnswersToCome(t) = 0
            BY <3>5, <5>2 DEF AnswersToCome
          <6>2. e = 0
            BY <3>0, <6>1
          <6> QED
            BY <6>2
        <5> QED
          BY <5>1, <5>2
      <4>3. Needed(t) \in 2 .. 4
        BY <3>0s, <3>1, <4>1, <4>2
      <4> QED
        BY <3>2, <4>3 DEF IdsPerTransfer
    <3> QED
      BY <3>4, <3>5
  <2> QED
    BY <2>1 DEF Room
<1>12. Told
  BY <1>5 DEF Told
<1>13. OwnIds
  <2>1. OfferedFiles = {}
    BY <1>6 DEF OfferedFiles
  <2>2. ftid = Cardinality(OfferedFiles) + 1
    BY <1>1, <2>1, FS_EmptySet
  <2>3. \A i \in FtIds : app[i] = "none" /\ files[i] = <<>>
    BY <1>1
  <2> QED
    BY <1>5, <2>2, <2>3 DEF OwnIds
<1>14. Heard
  BY <1>1, <1>5 DEF Heard
<1>15. Data
  <2>1. \A i \in FtIds : files[i] = <<>> /\ DOMAIN files[i] = {}
    BY <1>1, <1>2
  <2> QED
    BY <1>5, <2>1 DEF Data
<1>16. Finished
  <2>1. \A i \in FtIds : DOMAIN outcomes[i] = {}
    BY <1>1, <1>2
  <2> QED
    BY <1>5, <2>1 DEF Finished
<1> QED
  BY <1>4, <1>7, <1>8, <1>9, <1>10, <1>11, <1>12, <1>13, <1>14, <1>15, <1>16 DEF IInv

\* Nothing changes in a stuttering step.
LEMMA Stutters ==
  ASSUME IInv, UNCHANGED vars
  PROVE  IInv'
<1>1. /\ phase' = phase /\ lastId' = lastId /\ sent' = sent /\ wire' = wire /\ answers' = answers
      /\ transfers' = transfers /\ FTList' = FTList /\ ftid' = ftid /\ spins' = spins
      /\ signals' = signals /\ app' = app /\ offered' = offered /\ outcomes' = outcomes /\ files' = files
  BY DEF vars, peer, chat, application
<1>2. \A t : /\ Known(t)' = Known(t) /\ Accepted(t)' = Accepted(t) /\ Prepared(t)' = Prepared(t)
            /\ \A steps : In(t, steps)' = In(t, steps)
  BY <1>1 DEF Known, Accepted, Prepared, In
<1>3. Types'
  BY <1>1 DEF IInv, Types, TypeOK
<1>4. Objects'
  BY <1>1 DEF IInv, Objects
<1>5. Pace'
  BY <1>1, <1>2 DEF IInv, Pace, Paced
<1>6. Script'
  <2>1. \A t : Coming(t)' = Coming(t)
    BY <1>1, <1>2 DEF Coming
  <2>2. \A m : Fits(m)' = Fits(m)
    BY <1>1, <1>2 DEF Fits, PartFits, RequestFits, DataFits, ByeFits
  <2> QED
    BY <1>1, <1>2, <2>1, <2>2 DEF IInv, Script
<1>7. Numbers'
  BY <1>1 DEF IInv, Numbers
<1>8. Room'
  <2>1. \A t : Needed(t)' = Needed(t)
    BY ZenonT(60), <1>1, <1>2 DEF Needed, OwnSteps, AnswersToCome, Waiting
  <2> QED
    BY <1>1, <2>1 DEF IInv, Room
<1>9. Told'
  <2>1. \A a : ToldOf(a)' = ToldOf(a)
    BY <1>1, <1>2 DEF ToldOf
  <2> QED
    BY <1>1, <2>1 DEF IInv, Told
<1>10. \A tr : IsOffered(tr)' = IsOffered(tr) /\ \A i : Offer(i, tr)' = Offer(i, tr)
  BY <1>1 DEF IsOffered, Offer
<1>11. OwnIds'
  BY <1>1, <1>2, <1>10 DEF IInv, OwnIds, OfferedFiles
<1>12. Heard'
  BY <1>1, <1>10 DEF IInv, Heard
<1>13. Data'
  BY <1>1 DEF IInv, Data, DataOf
<1>14. Finished'
  BY <1>1 DEF IInv, Finished, IsFinished
<1> QED
  BY <1>3, <1>4, <1>5, <1>6, <1>7, <1>8, <1>9, <1>11, <1>12, <1>13, <1>14 DEF IInv

\* Every step keeps the invariant.
LEMMA NextKeeps ==
  ASSUME IInv, IdsFit, [Next]_vars
  PROVE  IInv'
<1>1. CASE \E t \in Transfers : PeerInvites(t)
  BY <1>1, InvitesKeeps
<1>2. CASE \E t \in Transfers : PeerAsksForChannel(t)
  BY <1>2, AsksKeeps
<1>3. CASE \E t \in Transfers : PeerSendsChunk(t)
  BY <1>3, SendsKeeps
<1>4. CASE \E t \in Transfers : PeerEnds(t)
  BY <1>4, EndsKeeps
<1>5. CASE PeerTakesAnswer
  BY <1>5, TakesKeeps
<1>6. CASE parseMsg
  BY <1>6, ParseKeeps
<1>7. CASE SignalTaken
  BY <1>7, SignalKeeps
<1>8. CASE \E i \in FtIds : acceptFileTransfer(i)
  BY <1>8, AcceptKeeps
<1>9. CASE UNCHANGED vars
  BY <1>9, Stutters
<1> QED
  BY <1>1, <1>2, <1>3, <1>4, <1>5, <1>6, <1>7, <1>8, <1>9 DEF Next

\* The invariant holds in every state.
THEOREM Inductive ==
  ASSUME IdsFit
  PROVE  Spec => []IInv
<1>1. Init => IInv
  BY InitiallyTrue
<1>2. IInv /\ [Next]_vars => IInv'
  BY NextKeeps
<1> QED
  BY <1>1, <1>2, PTL DEF Spec

\* Every state is of the model's types: an entry of m_FTList is one of the
\* Transfer objects, whatever is cut into pieces or given up.
THEOREM TypeCorrect ==
  ASSUME IdsFit
  PROVE  Spec => []TypeOK
<1>1. IInv => TypeOK
  BY DEF IInv, Types
<1> QED
  BY <1>1, Inductive, PTL

\* The nearest smaller identifier is always the transfer's own: no entry is ever
\* under an identifier another transfer used, and no transfer has two.
THEOREM EntriesFollow ==
  ASSUME IdsFit
  PROVE  Spec => []EntriesFollowTheirTransfer
<1>1. IInv => EntriesFollowTheirTransfer
  <2> SUFFICES ASSUME IInv
               PROVE  EntriesFollowTheirTransfer
    OBVIOUS
  <2>1. \A k \in DOMAIN FTList : FTList[k] \in DOMAIN transfers
    BY EntryTypes DEF IInv
  <2>2. ASSUME NEW k \in DOMAIN FTList, NEW l \in DOMAIN FTList, k # l
        PROVE  transfers[FTList[k]].of # transfers[FTList[l]].of
    BY <2>1, <2>2 DEF IInv, Objects
  <2>3. ASSUME NEW k \in DOMAIN FTList
        PROVE  Base[transfers[FTList[k]].of] < k /\ k <= lastId[transfers[FTList[k]].of]
    BY DEF IInv, Numbers
  <2> QED
    BY <2>2, <2>3 DEF EntriesFollowTheirTransfer
<1> QED
  BY <1>1, Inductive, PTL

\* A destination holds what its own transfer sent, in order and without gaps, and
\* all of it when the application hears that the transfer is finished.
THEOREM FilesWhole ==
  ASSUME IdsFit
  PROVE  Spec => []FilesAreWhole
<1>1. IInv => FilesAreWhole
  <2> SUFFICES ASSUME IInv, NEW i \in FtIds
               PROVE  /\ \A n \in DOMAIN files[i] :
                           files[i][n] = [t |-> transfers[offered[i]].of, step |-> "TRANSFER", nr |-> n]
                      /\ "finished" \in {outcomes[i][n] : n \in DOMAIN outcomes[i]} => Len(files[i]) = Chunks
    BY DEF FilesAreWhole
  <2>1. \A n \in DOMAIN files[i] :
          files[i][n] = [t |-> transfers[offered[i]].of, step |-> "TRANSFER", nr |-> n]
    BY DEF IInv, Data
  <2>2. ASSUME NEW n \in DOMAIN outcomes[i], outcomes[i][n] = "finished"
        PROVE  Len(files[i]) = Chunks
    <3>1. PICK tr \in DOMAIN transfers : transfers[tr].hasTransfered /\ transfers[tr].ftId = i
      BY <2>2 DEF IInv, Finished, IsFinished
    <3> QED
      BY <3>1 DEF IInv, Data
  <2> QED
    BY <2>1, <2>2
<1> QED
  BY <1>1, Inductive, PTL

-----------------------------------------------------------------------------
(* The offers and their ends *)

(* The inductive invariant of the refinement, besides IInv *)

\* An offer that is its own ends once, after it was made, and as its transfer did.
IsEnd(s, i) == s.kind \in {"finished", "cancelled"} /\ s.ftId = i
HasEnded(i, kind) ==
  \E tr \in DOMAIN transfers :
    /\ Offer(i, tr)
    /\ IF kind = "finished" THEN transfers[tr].hasTransfered
       ELSE transfers[tr].step = "BYE" /\ ~transfers[tr].hasTransfered

IsMade(i) == app[i] # "none" \/ \E p \in DOMAIN signals : IsIncoming(signals[p], i)
OffersMade == \A tr \in DOMAIN transfers : IsOffered(tr) => IsMade(transfers[tr].ftId)

EndComes(i, p) ==
  /\ HasEnded(i, signals[p].kind) /\ outcomes[i] = <<>>
  /\ app[i] # "none" \/ \E q \in DOMAIN signals : q < p /\ IsIncoming(signals[q], i)
  /\ \A q \in DOMAIN signals : IsEnd(signals[q], i) => p = q
EndTold(i) == app[i] # "none" /\ Len(outcomes[i]) = 1 /\ HasEnded(i, outcomes[i][1])

Ends ==
  /\ OffersMade
  /\ \A i \in FtIds : \A p \in DOMAIN signals : IsEnd(signals[p], i) /\ ~IsShared(i) => EndComes(i, p)
  /\ \A i \in FtIds : outcomes[i] # <<>> /\ ~IsShared(i) => EndTold(i)

-----------------------------------------------------------------------------
(* What the steps have in common *)

\* What has ended stays so.
EndsLast ==
  \A tr \in DOMAIN transfers : IsOffered(tr) =>
    /\ transfers[tr].hasTransfered => transfers'[tr].hasTransfered
    /\ transfers[tr].step = "BYE" =>
         transfers'[tr].step = "BYE" /\ transfers'[tr].hasTransfered = transfers[tr].hasTransfered

\* An offer that is shared stays so, and a step makes at most one so.
SharesLast == \A i : IsShared(i) => IsShared(i)'
SharesOne == \E j : \A i : i # j /\ IsShared(i)' => IsShared(i)
Shares == SharesLast /\ SharesOne

\* An end stays the end of its offer.
LEMMA HasEndedLasts ==
  ASSUME OffersLast, EndsLast, NEW i, NEW kind, HasEnded(i, kind)
  PROVE  HasEnded(i, kind)'
<1>1. PICK tr \in DOMAIN transfers :
        /\ Offer(i, tr)
        /\ IF kind = "finished" THEN transfers[tr].hasTransfered
           ELSE transfers[tr].step = "BYE" /\ ~transfers[tr].hasTransfered
  BY DEF HasEnded
<1>2. IsOffered(tr) /\ Offer(i, tr)'
  BY <1>1, OfferStays DEF Offer
<1>3. tr \in DOMAIN transfers'
  BY <1>1 DEF OffersLast
<1>4. IF kind = "finished" THEN transfers'[tr].hasTransfered
      ELSE transfers'[tr].step = "BYE" /\ ~transfers'[tr].hasTransfered
  BY <1>1, <1>2 DEF EndsLast
<1> QED
  BY <1>2, <1>3, <1>4 DEF HasEnded

\* What one object that changes can make shared.
LEMMA SharesKept ==
  ASSUME NEW t, NEW tr, OneChanges(tr, t),
         Kind[t] # "FILE" /\ tr \in DOMAIN transfers => transfers'[tr].ftId = transfers[tr].ftId
  PROVE  Shares
<1>1. /\ DOMAIN transfers' = DOMAIN transfers \union {tr} /\ transfers'[tr].of = t
      /\ \A ur \in DOMAIN transfers : ur # tr => transfers'[ur] = transfers[ur]
      /\ tr \in DOMAIN transfers => transfers[tr].of = t
  BY DEF OneChanges
<1>2. SharesLast
  <2>1. ASSUME NEW i, NEW ur \in DOMAIN transfers, Kind[transfers[ur].of] # "FILE", transfers[ur].ftId = i
        PROVE  ur \in DOMAIN transfers' /\ Kind[transfers'[ur].of] # "FILE" /\ transfers'[ur].ftId = i
    BY <1>1, <2>1
  <2> QED
    BY <2>1 DEF SharesLast, IsShared
<1>3. SharesOne
  <2>1. PICK j : j = transfers'[tr].ftId
    OBVIOUS
  <2>2. ASSUME NEW i, i # j, NEW ur \in DOMAIN transfers', Kind[transfers'[ur].of] # "FILE", transfers'[ur].ftId = i
        PROVE  ur \in DOMAIN transfers /\ Kind[transfers[ur].of] # "FILE" /\ transfers[ur].ftId = i
    BY <1>1, <2>1, <2>2
  <2>3. \A i : i # j /\ IsShared(i)' => IsShared(i)
    BY <2>2 DEF IsShared
  <2> QED
    BY <2>3 DEF SharesOne
<1> QED
  BY <1>2, <1>3 DEF Shares

\* When an object that was not offered changes, or goes on towards its end.
LEMMA OneLasts ==
  ASSUME NEW t, NEW tr, OneChanges(tr, t),
         tr \in DOMAIN transfers /\ IsOffered(tr) =>
           /\ transfers'[tr].ftId = transfers[tr].ftId /\ transfers'[tr].step # "INVITATION"
           /\ transfers[tr].step # "BYE" /\ (transfers[tr].hasTransfered => transfers'[tr].hasTransfered)
  PROVE  OffersLast /\ EndsLast
         /\ \A ur \in DOMAIN transfers' : ur # tr => ur \in DOMAIN transfers /\ (IsOffered(ur)' <=> IsOffered(ur))
<1>1. /\ DOMAIN transfers' = DOMAIN transfers \union {tr} /\ transfers'[tr].of = t
      /\ \A ur \in DOMAIN transfers : ur # tr => transfers'[ur] = transfers[ur]
      /\ tr \in DOMAIN transfers => transfers[tr].of = t
  BY DEF OneChanges
<1>2. \A ur \in DOMAIN transfers : transfers'[ur].of = transfers[ur].of
  BY <1>1
<1>3. OffersLast
  <2>1. ASSUME NEW ur \in DOMAIN transfers, IsOffered(ur)
        PROVE  IsOffered(ur)' /\ transfers'[ur].ftId = transfers[ur].ftId
    <3>1. CASE ur = tr
      BY <1>2, <2>1, <3>1 DEF IsOffered
    <3>2. CASE ur # tr
      BY <1>1, <2>1, <3>2 DEF IsOffered
    <3> QED
      BY <3>1, <3>2
  <2> QED
    BY <1>1, <1>2, <2>1 DEF OffersLast
<1>4. EndsLast
  <2>1. ASSUME NEW ur \in DOMAIN transfers, IsOffered(ur)
        PROVE  /\ transfers[ur].hasTransfered => transfers'[ur].hasTransfered
               /\ transfers[ur].step = "BYE" =>
                    transfers'[ur].step = "BYE" /\ transfers'[ur].hasTransfered = transfers[ur].hasTransfered
    <3>1. CASE ur = tr
      BY <2>1, <3>1
    <3>2. CASE ur # tr
      BY <1>1, <3>2
    <3> QED
      BY <3>1, <3>2
  <2> QED
    BY <2>1 DEF EndsLast
<1>5. \A ur \in DOMAIN transfers' : ur # tr => ur \in DOMAIN transfers /\ (IsOffered(ur)' <=> IsOffered(ur))
  BY <1>1 DEF IsOffered
<1> QED
  BY <1>3, <1>4, <1>5

\* The ends after a step that signals nothing, and in which no offer is made.
LEMMA QuietEnds ==
  ASSUME Ends, OffersStay, EndsLast, SharesLast, signals' = signals, outcomes' = outcomes,
         \A i \in FtIds : app[i] # "none" => app'[i] # "none",
         \A tr \in DOMAIN transfers : IsOffered(tr) => transfers[tr].ftId \in FtIds
  PROVE  Ends'
<1>1. \A i, kind : HasEnded(i, kind) => HasEnded(i, kind)'
  BY HasEndedLasts DEF OffersStay
<1>2. \A i \in FtIds : IsMade(i) => IsMade(i)'
  BY DEF IsMade
<1>3. OffersMade'
  <2>1. ASSUME NEW ur \in DOMAIN transfers', IsOffered(ur)' PROVE IsMade(transfers[ur].ftId)'
    <3>1. ur \in DOMAIN transfers /\ IsOffered(ur) /\ transfers'[ur].ftId = transfers[ur].ftId
      BY <2>1 DEF OffersStay, OffersLast
    <3>2. PICK i \in FtIds : i = transfers[ur].ftId /\ i = transfers'[ur].ftId
      BY <3>1
    <3>3. IsMade(i)
      BY <3>1, <3>2 DEF Ends, OffersMade
    <3>4. IsMade(i)'
      BY <1>2, <3>3
    <3> QED
      BY <3>2, <3>4
  <2> QED
    BY <2>1 DEF OffersMade
<1>4. ASSUME NEW i \in FtIds, NEW p \in DOMAIN signals', IsEnd(signals'[p], i), ~IsShared(i)'
      PROVE  EndComes(i, p)'
  <2>1. EndComes(i, p)
    BY <1>4 DEF Ends, SharesLast
  <2>2. PICK k : k = signals[p].kind /\ k = signals'[p].kind
    OBVIOUS
  <2>3. HasEnded(i, k)'
    BY <1>1, <2>1, <2>2 DEF EndComes
  <2> QED
    BY <2>1, <2>2, <2>3 DEF EndComes
<1>5. ASSUME NEW i \in FtIds, outcomes'[i] # <<>>, ~IsShared(i)'
      PROVE  EndTold(i)'
  <2>1. EndTold(i)
    BY <1>5 DEF Ends, SharesLast
  <2>2. PICK k : k = outcomes[i][1] /\ k = outcomes'[i][1]
    OBVIOUS
  <2>3. HasEnded(i, k)'
    BY <1>1, <2>1, <2>2 DEF EndTold
  <2> QED
    BY <2>1, <2>2, <2>3 DEF EndTold
<1> QED
  BY <1>3, <1>4, <1>5 DEF Ends

\* The signals after one more is queued.
LEMMA SignalQueued ==
  ASSUME Types, NEW s \in SignalRecord, signals' = Append(signals, s)
  PROVE  \E last \in Nat :
           /\ last \in DOMAIN signals' /\ signals'[last] = s
           /\ \A p \in DOMAIN signals : p \in DOMAIN signals' /\ p < last /\ signals'[p] = signals[p]
           /\ \A p \in DOMAIN signals' : p \in DOMAIN signals \/ p = last
<1>1. /\ Len(signals) \in Nat /\ DOMAIN signals = 1 .. Len(signals)
      /\ DOMAIN signals' = 1 .. Len(signals) + 1 /\ signals'[Len(signals) + 1] = s
      /\ \A i \in 1 .. Len(signals) : signals'[i] = signals[i]
  BY SMTT(60), Sizes, Appended
<1>2. PICK w \in Nat : w = Len(signals)
  BY <1>1
<1>3. PICK last \in Nat : last = w + 1
  OBVIOUS
<1>4. DOMAIN signals = 1 .. w /\ DOMAIN signals' = 1 .. last /\ last = w + 1
  BY <1>1, <1>2, <1>3
<1>5. signals'[last] = s /\ \A p \in DOMAIN signals : signals'[p] = signals[p]
  BY <1>1, <1>2, <1>3
<1> QED
  BY <1>4, <1>5

\* The ends after a step that signals an offer or an end.
LEMMA SignalledEnds ==
  ASSUME IInv, Ends, OffersLast, EndsLast, SharesLast, app' = app, outcomes' = outcomes,
         NEW s \in SignalRecord, signals' = Append(signals, s),
         \A ur \in DOMAIN transfers' : IsOffered(ur)' =>
           (ur \in DOMAIN transfers /\ IsOffered(ur)) \/ IsIncoming(s, transfers'[ur].ftId),
         \A i \in FtIds : IsEnd(s, i) /\ ~IsShared(i) =>
           HasEnded(i, s.kind)' /\ IsMade(i) /\ \A kind : ~HasEnded(i, kind)
  PROVE  Ends'
<1>1. PICK last \in Nat :
           /\ last \in DOMAIN signals' /\ signals'[last] = s
           /\ \A p \in DOMAIN signals : p \in DOMAIN signals' /\ p < last /\ signals'[p] = signals[p]
           /\ \A p \in DOMAIN signals' : p \in DOMAIN signals \/ p = last
  BY SignalQueued DEF IInv
<1>2. \A i, kind : HasEnded(i, kind) => HasEnded(i, kind)'
  BY HasEndedLasts
<1>3. \A i : IsMade(i) => IsMade(i)'
  BY <1>1 DEF IsMade
<1>4. OffersMade'
  <2>1. ASSUME NEW ur \in DOMAIN transfers', IsOffered(ur)' PROVE IsMade(transfers[ur].ftId)'
    <3>1. PICK i : i = transfers'[ur].ftId
      OBVIOUS
    <3>2. CASE ur \in DOMAIN transfers /\ IsOffered(ur)
      <4>1. IsMade(i)
        BY <3>1, <3>2 DEF Ends, OffersMade, OffersLast
      <4>2. IsMade(i)'
        BY <1>3, <4>1
      <4> QED
        BY <3>1, <4>2
    <3>3. CASE IsIncoming(s, i)
      <4>1. IsMade(i)'
        BY <1>1, <3>3 DEF IsMade
      <4> QED
        BY <3>1, <4>1
    <3> QED
      BY <2>1, <3>1, <3>2, <3>3
  <2> QED
    BY <2>1 DEF OffersMade
<1>5. ASSUME NEW i \in FtIds, NEW p \in DOMAIN signals, IsEnd(signals[p], i), ~IsShared(i)
      PROVE  HasEnded(i, signals[p].kind) /\ EndComes(i, p)
  BY <1>5 DEF Ends, EndComes
<1>6. ASSUME NEW i \in FtIds, NEW p \in DOMAIN signals', IsEnd(signals'[p], i), ~IsShared(i)'
      PROVE  EndComes(i, p)'
  <2>0. ~IsShared(i)
    BY <1>6 DEF SharesLast
  <2>1. CASE p \in DOMAIN signals
    <3>1. EndComes(i, p) /\ signals'[p] = signals[p]
      BY <1>1, <1>5, <1>6, <2>0, <2>1
    <3>2. PICK k : k = signals[p].kind /\ k = signals'[p].kind
      BY <3>1
    <3>3. HasEnded(i, k)'
      BY <1>2, <3>1, <3>2 DEF EndComes
    <3>4. app'[i] # "none" \/ \E q \in DOMAIN signals' : q < p /\ IsIncoming(signals'[q], i)
      BY <1>1, <3>1 DEF EndComes
    <3>5. ~IsEnd(s, i)
      BY <2>0, <3>1, <3>2 DEF EndComes
    <3>6. \A q \in DOMAIN signals' : IsEnd(signals'[q], i) => p = q
      BY <1>1, <3>1, <3>5 DEF EndComes
    <3>7. outcomes'[i] = <<>>
      BY <3>1 DEF EndComes
    <3> QED
      BY <3>2, <3>3, <3>4, <3>6, <3>7 DEF EndComes
  <2>2. CASE p = last
    <3>1. IsEnd(s, i)
      BY <1>1, <1>6, <2>2
    <3>2. HasEnded(i, s.kind)' /\ IsMade(i) /\ \A kind : ~HasEnded(i, kind)
      BY <2>0, <3>1
    <3>3. PICK k : k = s.kind /\ k = signals'[p].kind
      BY <1>1, <2>2
    <3>4. HasEnded(i, k)'
      BY <3>2, <3>3
    <3>5. app'[i] # "none" \/ \E q \in DOMAIN signals' : q < p /\ IsIncoming(signals'[q], i)
      BY <1>1, <2>2, <3>2 DEF IsMade
    <3>6. \A q \in DOMAIN signals' : IsEnd(signals'[q], i) => p = q
      BY <1>1, <1>5, <2>0, <2>2, <3>2
    <3>7. outcomes'[i] = <<>>
      BY <2>0, <3>2 DEF Ends, EndTold
    <3> QED
      BY <3>3, <3>4, <3>5, <3>6, <3>7 DEF EndComes
  <2> QED
    BY <1>1, <2>1, <2>2
<1>7. ASSUME NEW i \in FtIds, outcomes'[i] # <<>>, ~IsShared(i)'
      PROVE  EndTold(i)'
  <2>1. EndTold(i)
    BY <1>7 DEF Ends, SharesLast
  <2>2. PICK k : k = outcomes[i][1] /\ k = outcomes'[i][1]
    OBVIOUS
  <2>3. HasEnded(i, k)'
    BY <1>2, <2>1, <2>2 DEF EndTold
  <2> QED
    BY <2>1, <2>2, <2>3 DEF EndTold
<1> QED
  BY <1>4, <1>6, <1>7 DEF Ends

\* A Transfer that gets another message has not ended.
LEMMA NotEnded ==
  ASSUME OwnIds, NEW tr \in DOMAIN transfers, IsOffered(tr),
         ~transfers[tr].hasTransfered, transfers[tr].step # "BYE", NEW kind
  PROVE  ~HasEnded(transfers[tr].ftId, kind)
<1> SUFFICES ASSUME HasEnded(transfers[tr].ftId, kind)
             PROVE  FALSE
  OBVIOUS
<1>1. PICK ur \in DOMAIN transfers :
        /\ Offer(transfers[tr].ftId, ur)
        /\ IF kind = "finished" THEN transfers[ur].hasTransfered
           ELSE transfers[ur].step = "BYE" /\ ~transfers[ur].hasTransfered
  BY DEF HasEnded
<1>2. ur = tr
  BY <1>1 DEF Offer, OwnIds
<1> QED
  BY <1>1, <1>2

\* The ends after the end of a Transfer is signalled.
LEMMA EndSignalled ==
  ASSUME IInv, Ends, OffersStay, EndsLast, SharesLast, app' = app, outcomes' = outcomes,
         NEW kind \in {"finished", "cancelled"}, NEW tr \in DOMAIN transfers,
         Emit(<<Signal(kind, transfers[tr].ftId)>>),
         transfers[tr].step # "BYE", ~transfers[tr].hasTransfered,
         Kind[transfers[tr].of] = "FILE" => IsOffered(tr),
         IF kind = "finished" THEN transfers'[tr].hasTransfered
         ELSE transfers'[tr].step = "BYE" /\ ~transfers'[tr].hasTransfered
  PROVE  Ends'
<1>1. PICK i : i = transfers[tr].ftId
  OBVIOUS
<1>2. i \in FtIds \union StaleIds
  BY <1>1, RecordTypes DEF IInv
<1>3. PICK s : s = Signal(kind, i)
  OBVIOUS
<1>4. s \in SignalRecord /\ s.kind = kind /\ s.ftId = i
  BY <1>2, <1>3 DEF Signal, SignalRecord
<1>5. signals' = Append(signals, s)
  <2>1. signals' = signals \o <<s>>
    BY <1>1, <1>3 DEF Emit
  <2>2. signals \in Seq(SignalRecord)
    BY Sizes DEF IInv
  <2> QED
    BY <1>4, <2>1, <2>2, AppendIsConcat
<1>6. \A ur \in DOMAIN transfers' : IsOffered(ur)' => ur \in DOMAIN transfers /\ IsOffered(ur)
  BY DEF OffersStay
<1>7. ASSUME NEW j \in FtIds, IsEnd(s, j), ~IsShared(j)
      PROVE  HasEnded(j, s.kind)' /\ IsMade(j) /\ \A k : ~HasEnded(j, k)
  <2>1. j = i
    BY <1>4, <1>7 DEF IsEnd
  <2>2. IsOffered(tr) /\ Offer(j, tr)
    BY <1>1, <1>7, <2>1 DEF IsShared, Offer
  <2>3. Offer(j, tr)' /\ tr \in DOMAIN transfers'
    BY <2>2, OfferStays DEF OffersStay, OffersLast
  <2>4. PICK k : k = kind /\ k = s.kind
    BY <1>4
  <2>5. HasEnded(j, k)'
    BY <2>3, <2>4 DEF HasEnded
  <2>6. IsMade(j)
    BY <1>1, <2>1, <2>2 DEF Ends, OffersMade
  <2>7. \A x : ~HasEnded(j, x)
    BY <1>1, <2>1, <2>2, NotEnded DEF IInv
  <2> QED
    BY <2>4, <2>5, <2>6, <2>7
<1> QED
  BY <1>4, <1>5, <1>6, <1>7, SignalledEnds DEF OffersStay

-----------------------------------------------------------------------------
(* The steps of the chat's thread *)

\* An offer has the identifier of a file.
LEMMA OfferedIds ==
  ASSUME IInv
  PROVE  \A tr \in DOMAIN transfers : IsOffered(tr) => transfers[tr].ftId \in FtIds
  BY DEF IInv, OwnIds

\* The ends after one object changed, which was not offered or goes on, and nothing was signalled.
LEMMA OneQuiet ==
  ASSUME IInv, Ends, NEW t, NEW tr, OneChanges(tr, t), application' = application, signals' = signals,
         tr \in DOMAIN transfers /\ IsOffered(tr) =>
           /\ transfers'[tr].ftId = transfers[tr].ftId /\ transfers'[tr].step # "INVITATION"
           /\ transfers[tr].step # "BYE" /\ (transfers[tr].hasTransfered => transfers'[tr].hasTransfered),
         IsOffered(tr)' => tr \in DOMAIN transfers /\ IsOffered(tr),
         Kind[t] # "FILE" /\ tr \in DOMAIN transfers => transfers'[tr].ftId = transfers[tr].ftId
  PROVE  Ends' /\ Shares
<1>1. OffersLast /\ EndsLast
      /\ \A ur \in DOMAIN transfers' : ur # tr => ur \in DOMAIN transfers /\ (IsOffered(ur)' <=> IsOffered(ur))
  BY OneLasts
<1>2. OffersStay
  BY <1>1 DEF OffersStay
<1>3. Shares
  BY SharesKept
<1>4. app' = app /\ outcomes' = outcomes
  BY DEF application
<1> QED
  BY <1>1, <1>2, <1>3, <1>4, OfferedIds, QuietEnds DEF Shares

\* An acknowledgement changes nothing that the application knows.
LEMMA AckEnds ==
  ASSUME IInv, Ends, NEW m, AckArrives(m)
  PROVE  Ends' /\ Shares
<1>1. application' = application /\ signals' = signals
  BY DEF AckArrives
<1>2. app' = app /\ outcomes' = outcomes
  BY <1>1 DEF application
<1>3. \/ transfers' = transfers
      \/ \E tr : transfers' = [transfers EXCEPT ![tr].p2pType = "NULL"]
  <2>1. PICK keys, id : keys = DOMAIN FTList \ {byte2int(m.id)} /\ id = byte2int(m.id)
    OBVIOUS
  <2>2. PICK tr : tr = FTList[Nearest(keys, id)]
    OBVIOUS
  <2> QED
    BY <2>1, <2>2, Zenon DEF AckArrives
<1>4. /\ DOMAIN transfers' = DOMAIN transfers
      /\ \A ur \in DOMAIN transfers :
           /\ transfers'[ur].of = transfers[ur].of /\ transfers'[ur].step = transfers[ur].step
           /\ transfers'[ur].ftId = transfers[ur].ftId /\ transfers'[ur].hasTransfered = transfers[ur].hasTransfered
  <2>1. CASE transfers' = transfers
    BY <2>1
  <2>2. ASSUME NEW tr, transfers' = [transfers EXCEPT ![tr].p2pType = "NULL"]
        PROVE  /\ DOMAIN transfers' = DOMAIN transfers
               /\ \A ur \in DOMAIN transfers :
                    /\ transfers'[ur].of = transfers[ur].of /\ transfers'[ur].step = transfers[ur].step
                    /\ transfers'[ur].ftId = transfers[ur].ftId
                    /\ transfers'[ur].hasTransfered = transfers[ur].hasTransfered
    <3>1. DOMAIN transfers' = DOMAIN transfers
      BY <2>2
    <3>2. ASSUME NEW ur \in DOMAIN transfers
          PROVE  /\ transfers'[ur].of = transfers[ur].of /\ transfers'[ur].step = transfers[ur].step
                 /\ transfers'[ur].ftId = transfers[ur].ftId
                 /\ transfers'[ur].hasTransfered = transfers[ur].hasTransfered
      <4>1. PICK o \in Record : o = transfers[ur]
        BY RecordTypes DEF IInv
      <4>2. transfers'[ur] = o \/ transfers'[ur] = [o EXCEPT !.p2pType = "NULL"]
        BY <2>2, <4>1
      <4> QED
        BY <4>1, <4>2 DEF Record
    <3> QED
      BY <3>1, <3>2
  <2> QED
    BY <1>3, <2>1, <2>2
<1>5. OffersStay /\ EndsLast
  BY <1>4 DEF OffersStay, OffersLast, EndsLast, IsOffered
<1>6. \A i : IsShared(i)' <=> IsShared(i)
  BY <1>4 DEF IsShared
<1> QED
  BY <1>1, <1>2, <1>5, <1>6, OfferedIds, QuietEnds DEF Shares, SharesLast, SharesOne

\* A part of an invitation makes an offer, when it is the last and the transfer a file.
LEMMA EndsAfterInvitation ==
  ASSUME IInv, IdsFit, Ends, wire # <<>>, NEW m,
         NEW stale \in StaleIds, NEW objects, objects = Stepped(m, stale), InvitationArrives(m, objects),
         NEW tr, Its(m) = tr, Found(objects, Listed(m), m, tr)
  PROVE  Ends' /\ Shares
<1>1. /\ m = Head(wire) /\ ~m.isEmpty /\ objects[tr].step = "INVITATION" /\ application' = application
  BY DEF InvitationArrives, Continues, Takes
<1>2. PICK list : list = Listed(m)
  OBVIOUS
<1>3. Found(objects, list, m, tr)
  BY <1>2
<1>4. StepOf(m) = "INVITATION"
  BY <1>1, <1>3 DEF Found
<1>5. m.step # "BYE"
  BY <1>4 DEF StepOf
<1>6. objects \in Seq(Record) /\ tr \in DOMAIN objects /\ objects[tr].of = m.t
  BY <1>3 DEF Found
<1>7. PICK o \in Record : o = objects[tr]
  BY <1>6, ElementOfSeq
<1>8. tr \in DOMAIN transfers => ~IsOffered(tr)
  BY <1>3, <1>4, <1>5 DEF Found, IsOffered
<1>9. tr \in DOMAIN transfers => o.ftId = transfers[tr].ftId
  BY <1>3, <1>7 DEF Found
<1>10. o.p2pType = "FILE" <=> Kind[m.t] = "FILE"
  <2>1. CASE tr \in DOMAIN transfers
    <3>1. transfers[tr].of = m.t /\ o.p2pType = transfers[tr].p2pType
      BY <1>3, <1>7, <2>1 DEF Found
    <3> QED
      BY <2>1, <3>1 DEF IInv, Objects
  <2>2. CASE tr \notin DOMAIN transfers
    BY <1>3, <1>7, <2>2 DEF Found
  <2> QED
    BY <2>1, <2>2
<1>11. CASE ~m.isFinished
  <2>1. transfers' = objects /\ signals' = signals
    BY <1>11 DEF InvitationArrives
  <2>2. OneChanges(tr, m.t) /\ transfers'[tr] = o
    BY <1>3, <1>7, <2>1, FoundStays
  <2>3. ~IsOffered(tr)'
    BY <1>1, <1>7, <2>2 DEF IsOffered
  <2> QED
    BY <1>1, <1>8, <1>9, <2>1, <2>2, <2>3, OneQuiet
<1>12. CASE m.isFinished
  <2>1. PICK type, s : type = objects[tr].p2pType /\ s = [Signal("incoming", ftid) EXCEPT !.transfer = tr]
    OBVIOUS
  <2>2. /\ transfers' = [objects EXCEPT ![tr].step = "NEGOTIATION",
                                        ![tr].ftId = IF type = "FILE" THEN ftid ELSE @]
        /\ IF type = "FILE" THEN Emit(<<s>>) ELSE signals' = signals
    BY <1>12, <2>1 DEF InvitationArrives
  <2>3. PICK e : Invited(e, objects[tr]) /\ Becomes(objects, tr, e)
    BY <1>3, <2>1, <2>2, BecomesInvited
  <2>4. CASE type # "FILE"
    <3>1. e = [o EXCEPT !.step = "NEGOTIATION"]
      BY <1>7, <2>1, <2>3, <2>4 DEF Invited, Record
    <3>2. e \in Record /\ e.of = o.of /\ e.ftId = o.ftId
      BY <1>7, <3>1 DEF Record, Steps
    <3>3. OneChanges(tr, m.t) /\ transfers'[tr] = e
      BY <1>3, <1>6, <1>7, <2>3, <3>2, FoundBecomes
    <3>4. Kind[m.t] # "FILE"
      BY <1>7, <1>10, <2>1, <2>4
    <3>5. ~IsOffered(tr)'
      BY <1>6, <1>7, <3>2, <3>3, <3>4 DEF IsOffered
    <3> QED
      BY <1>1, <1>8, <1>9, <2>2, <2>4, <3>2, <3>3, <3>4, <3>5, OneQuiet
  <2>5. CASE type = "FILE"
    <3>1. ftid \in FtIds
      <4>1. Kind[m.t] = "FILE"
        BY <1>7, <1>10, <2>1, <2>5
      <4>2. m.t \in Transfers /\ PartFound(m, tr)
        BY <1>1, <1>4, HeadOfWire, PartFinds
      <4> QED
        BY <4>1, <4>2, NextOffer DEF IInv, PartFound
    <3>2. e = [o EXCEPT !.step = "NEGOTIATION", !.ftId = ftid]
      BY <1>7, <2>1, <2>3, <2>5 DEF Invited
    <3>3. e \in Record /\ e.of = o.of /\ e.ftId = ftid
      BY <1>7, <3>1, <3>2 DEF Record, Steps
    <3>4. OneChanges(tr, m.t) /\ transfers'[tr] = e
      BY <1>3, <1>6, <1>7, <2>3, <3>3, FoundBecomes
    <3>5. OffersLast /\ EndsLast
          /\ \A ur \in DOMAIN transfers' : ur # tr => ur \in DOMAIN transfers /\ (IsOffered(ur)' <=> IsOffered(ur))
      BY <1>8, <3>4, OneLasts
    <3>6. Shares
      <4>1. Kind[m.t] = "FILE"
        BY <1>7, <1>10, <2>1, <2>5
      <4> QED
        BY <3>4, <4>1, SharesKept
    <3>7. s \in SignalRecord /\ s.kind = "incoming" /\ s.ftId = ftid
      <4>1. tr \in Nat
        BY <1>6, LenProperties
      <4> QED
        BY <2>1, <3>1, <4>1 DEF Signal, SignalRecord
    <3>8. signals' = Append(signals, s)
      <4>1. signals' = signals \o <<s>> /\ signals \in Seq(SignalRecord)
        BY <2>2, <2>5, Sizes DEF Emit, IInv
      <4> QED
        BY <3>7, <4>1, AppendIsConcat
    <3>9. \A ur \in DOMAIN transfers' : IsOffered(ur)' =>
            (ur \in DOMAIN transfers /\ IsOffered(ur)) \/ IsIncoming(s, transfers'[ur].ftId)
      BY <3>3, <3>4, <3>5, <3>7 DEF IsIncoming
    <3>10. \A i \in FtIds : ~IsEnd(s, i)
      BY <3>7 DEF IsEnd
    <3>11. app' = app /\ outcomes' = outcomes
      BY <1>1 DEF application
    <3> QED
      BY <3>5, <3>6, <3>7, <3>8, <3>9, <3>10, <3>11, SignalledEnds DEF Shares
  <2> QED
    BY <2>4, <2>5
<1> QED
  BY <1>11, <1>12

\* A request for a channel goes on with a transfer.
LEMMA EndsAfterNegotiation ==
  ASSUME IInv, Ends, NEW m, NEW tr, NEW objects, NEW e, RequestTaken(m, tr, objects, e)
  PROVE  Ends' /\ Shares
<1>1. /\ wire # <<>> /\ m = Head(wire) /\ ~m.isEmpty /\ StepOf(m) = "NEGOTIATION"
      /\ application' = application /\ signals' = signals
  BY DEF RequestTaken
<1>2. Found(objects, FTList', m, tr) /\ Requested(e, objects[tr]) /\ Becomes(objects, tr, e)
  BY DEF RequestTaken
<1>3. PICK list : list = FTList'
  OBVIOUS
<1>4. Found(objects, list, m, tr)
  BY <1>2, <1>3
<1>5. /\ tr \in DOMAIN transfers /\ transfers[tr].of = m.t /\ objects[tr] \in Record
      /\ objects[tr].of = m.t /\ transfers[tr].step # "BYE" /\ transfers[tr].step = m.step
      /\ objects[tr].ftId = transfers[tr].ftId
      /\ objects[tr].hasTransfered = transfers[tr].hasTransfered
  BY <1>1, <1>4, FoundOld DEF StepOf
<1>6. m.step = "NEGOTIATION"
  BY <1>1 DEF StepOf
<1>7. PICK o \in Record : o = objects[tr]
  BY <1>5
<1>8. e = [o EXCEPT !.step = "TRANSFER"]
  BY <1>2, <1>7 DEF Requested
<1>9. e \in Record /\ e.of = o.of /\ e.ftId = o.ftId /\ e.step = "TRANSFER" /\ e.hasTransfered = o.hasTransfered
  BY <1>7, <1>8 DEF Record, Steps
<1>10. OneChanges(tr, m.t) /\ transfers'[tr] = e
  BY <1>2, <1>4, <1>5, <1>7, <1>9, FoundBecomes
<1>11. /\ transfers'[tr].ftId = transfers[tr].ftId /\ transfers'[tr].step # "INVITATION"
       /\ transfers'[tr].hasTransfered = transfers[tr].hasTransfered
  BY <1>5, <1>7, <1>9, <1>10
<1>12. IsOffered(tr)' => IsOffered(tr)
  BY <1>5, <1>6, <1>7, <1>9, <1>10 DEF IsOffered
<1> QED
  BY <1>1, <1>5, <1>10, <1>11, <1>12, OneQuiet

\* The last piece of the data ends its transfer, which had no end before.
LEMMA EndsAfterData ==
  ASSUME IInv, Ends, NEW m, NEW tr, DataTaken(m, tr)
  PROVE  Ends' /\ Shares
<1>1. /\ application' = application
      /\ tr \in DOMAIN transfers /\ OneChanges(tr, m.t)
      /\ transfers[tr].step = "TRANSFER" /\ transfers'[tr].step = "TRANSFER"
      /\ transfers'[tr].ftId = transfers[tr].ftId
      /\ (transfers'[tr].hasTransfered <=> transfers[tr].hasTransfered \/ m.isFinished)
      /\ IF m.isFinished THEN Emit(<<Signal("finished", transfers[tr].ftId)>>) ELSE UNCHANGED signals
  BY DEF DataTaken
<1>2. transfers[tr].of = m.t /\ transfers'[tr].of = m.t
  BY <1>1 DEF OneChanges
<1>3. IsOffered(tr) /\ ~transfers[tr].hasTransfered
  BY NextChunk
<1>5. CASE ~m.isFinished
  BY <1>1, <1>2, <1>3, <1>5, OneQuiet
<1>6. CASE m.isFinished
  <2>1. OffersLast /\ EndsLast
        /\ \A ur \in DOMAIN transfers' : ur # tr => ur \in DOMAIN transfers /\ (IsOffered(ur)' <=> IsOffered(ur))
    BY <1>1, OneLasts
  <2>2. OffersStay
    BY <1>1, <1>3, <2>1 DEF OffersStay
  <2>3. Shares
    BY <1>1, SharesKept
  <2>4. app' = app /\ outcomes' = outcomes
    BY <1>1 DEF application
  <2>5. Emit(<<Signal("finished", transfers[tr].ftId)>>) /\ transfers'[tr].hasTransfered
    BY <1>1, <1>6
  <2> QED
    BY <1>1, <1>3, <2>1, <2>2, <2>3, <2>4, <2>5, EndSignalled DEF Shares
<1> QED
  BY <1>5, <1>6

\* A BYE ends a transfer that had no end before.
LEMMA EndsAfterBye ==
  ASSUME IInv, Ends, NEW m, NEW tr, ByeTaken(m, tr)
  PROVE  Ends' /\ Shares
<1>1. /\ application' = application
      /\ tr \in DOMAIN transfers /\ OneChanges(tr, m.t)
      /\ transfers[tr].step \in {"NEGOTIATION", "TRANSFER"} /\ transfers'[tr].step = "BYE"
      /\ transfers'[tr].ftId = transfers[tr].ftId
      /\ transfers'[tr].hasTransfered = transfers[tr].hasTransfered
      /\ IF transfers[tr].hasTransfered THEN UNCHANGED signals
         ELSE Emit(<<Signal("cancelled", transfers[tr].ftId)>>)
  BY DEF ByeTaken
<1>2. transfers[tr].of = m.t /\ transfers'[tr].of = m.t
  BY <1>1 DEF OneChanges
<1>3. (IsOffered(tr)' <=> IsOffered(tr)) /\ (Kind[transfers[tr].of] = "FILE" => IsOffered(tr))
  BY <1>1, <1>2 DEF IsOffered
<1>5. CASE transfers[tr].hasTransfered
  BY <1>1, <1>2, <1>3, <1>5, OneQuiet
<1>6. CASE ~transfers[tr].hasTransfered
  <2>1. OffersLast /\ EndsLast
        /\ \A ur \in DOMAIN transfers' : ur # tr => ur \in DOMAIN transfers /\ (IsOffered(ur)' <=> IsOffered(ur))
    BY <1>1, OneLasts
  <2>2. OffersStay
    BY <1>1, <1>3, <2>1 DEF OffersStay
  <2>3. Shares
    BY <1>1, SharesKept
  <2>4. app' = app /\ outcomes' = outcomes
    BY <1>1 DEF application
  <2>5. Emit(<<Signal("cancelled", transfers[tr].ftId)>>) /\ ~transfers'[tr].hasTransfered /\ transfers[tr].step # "BYE"
    BY <1>1, <1>6
  <2> QED
    BY <1>1, <1>3, <1>6, <2>1, <2>2, <2>3, <2>4, <2>5, EndSignalled DEF Shares
<1> QED
  BY <1>5, <1>6

\* The thread takes the next message.
LEMMA EndsAfterParse ==
  ASSUME IInv, IdsFit, Ends, parseMsg
  PROVE  Ends' /\ Shares
<1>1. PICK m : m = Head(wire)
  OBVIOUS
<1>2. /\ wire # <<>>
      /\ \/ AckArrives(m)
         \/ Dropped(m)
         \/ \E stale \in StaleIds : \E objects : objects = Stepped(m, stale) /\
              (\/ InvitationArrives(m, objects)
               \/ NegotiationArrives(m, objects)
               \/ DataArrives(m, objects)
               \/ ByeArrives(m, objects))
  BY <1>1, Zenon DEF parseMsg
<1>3. CASE AckArrives(m)
  BY <1>3, AckEnds
<1>4. CASE Dropped(m)
  <2>1. ~m.isEmpty /\ byte2int(m.id) \notin DOMAIN Listed(m)
    BY <1>4 DEF Dropped
  <2> QED
    BY <1>1, <1>2, <2>1, Finds
<1>5. ASSUME NEW stale \in StaleIds, NEW objects, objects = Stepped(m, stale),
             \/ InvitationArrives(m, objects)
             \/ NegotiationArrives(m, objects)
             \/ DataArrives(m, objects)
             \/ ByeArrives(m, objects)
      PROVE  Ends' /\ Shares
  <2>1. ~m.isEmpty
    BY <1>5 DEF InvitationArrives, NegotiationArrives, DataArrives, ByeArrives, Continues
  <2>2. PICK tr : Its(m) = tr /\ Found(Stepped(m, stale), Listed(m), m, tr)
    BY <1>1, <1>2, <2>1, Finds
  <2>3. Found(objects, Listed(m), m, tr)
    BY <1>5, <2>2
  <2>4. CASE InvitationArrives(m, objects)
    BY <1>2, <1>5, <2>2, <2>3, <2>4, EndsAfterInvitation
  <2>5. CASE NegotiationArrives(m, objects)
    <3>1. PICK e : RequestTaken(m, tr, objects, e)
      BY <1>2, <2>2, <2>3, <2>5, RequestArrived
    <3> QED
      BY <3>1, EndsAfterNegotiation
  <2>6. CASE DataArrives(m, objects)
    <3>1. DataTaken(m, tr)
      BY <1>2, <2>2, <2>3, <2>6, DataArrived
    <3> QED
      BY <3>1, EndsAfterData
  <2>7. CASE ByeArrives(m, objects)
    <3>1. ByeTaken(m, tr)
      BY <1>2, <2>2, <2>3, <2>7, ByeArrived
    <3> QED
      BY <3>1, EndsAfterBye
  <2> QED
    BY <1>5, <2>4, <2>5, <2>6, <2>7
<1> QED
  BY <1>2, <1>3, <1>4, <1>5

-----------------------------------------------------------------------------
(* The steps of the application *)

\* What the application is told with the signal s: an offer it did not know, or
\* the end of one it knows, which was not told before.
Hears(s) ==
  /\ signals # <<>> /\ s = signals[1] /\ 1 \in DOMAIN signals /\ s \in SignalRecord
  /\ \A n \in DOMAIN signals' : n \in Nat /\ n + 1 \in DOMAIN signals /\ n + 1 # 1 /\ signals'[n] = signals[n + 1]
  /\ \A n \in DOMAIN signals : n \in Nat /\ (n = 1 \/ (n - 1 \in DOMAIN signals' /\ signals'[n - 1] = signals[n]))
  /\ transfers' = transfers
  /\ \A i \in FtIds :
       /\ IF IsIncoming(s, i) THEN app[i] = "none" /\ app'[i] = "offered" ELSE app'[i] = app[i]
       /\ IF IsEnd(s, i) THEN outcomes'[i] = Append(outcomes[i], s.kind) ELSE outcomes'[i] = outcomes[i]

\* The application takes a signal.
LEMMA SignalHeard ==
  ASSUME IInv, SignalTaken
  PROVE  \E s : Hears(s) /\ app' \in [FtIds -> {"none", "offered", "accepted"}]
<1>1. PICK s : s = Head(signals)
  OBVIOUS
<1>2. /\ signals # <<>> /\ signals' = Tail(signals) /\ chat' = chat
      /\ IF s.kind = "incoming"
         THEN /\ app' = [app EXCEPT ![s.ftId] = "offered"]
              /\ outcomes' = outcomes
         ELSE outcomes' = [outcomes EXCEPT ![s.ftId] = Append(@, s.kind)] /\ app' = app
  BY <1>1 DEF SignalTaken
<1>3. transfers' = transfers
  BY <1>2 DEF chat
<1>4. /\ signals \in Seq(SignalRecord) /\ s \in SignalRecord
      /\ Len(signals) \in Nat /\ Len(signals) >= 1 /\ s = signals[1]
      /\ DOMAIN signals = 1 .. Len(signals) /\ DOMAIN signals' = 1 .. Len(signals) - 1
      /\ \A n \in 1 .. Len(signals) - 1 : signals'[n] = signals[n + 1]
  BY SMTT(60), <1>1, <1>2, Sizes, Taken DEF IInv
<1>5. PICK w \in Nat : w = Len(signals)
  BY <1>4
<1>6. /\ w >= 1 /\ DOMAIN signals = 1 .. w /\ DOMAIN signals' = 1 .. w - 1
      /\ \A n \in 1 .. w - 1 : signals'[n] = signals[n + 1]
  BY <1>4, <1>5
<1>7. 1 \in DOMAIN signals
  BY <1>6
<1>8. \A n \in DOMAIN signals' : n \in Nat /\ n + 1 \in DOMAIN signals /\ n + 1 # 1 /\ signals'[n] = signals[n + 1]
  BY <1>6
<1>9. \A n \in DOMAIN signals : n \in Nat /\ (n = 1 \/ (n - 1 \in DOMAIN signals' /\ signals'[n - 1] = signals[n]))
  <2>1. ASSUME NEW n \in 1 .. w, n # 1
        PROVE  n - 1 \in 1 .. w - 1 /\ signals'[n - 1] = signals[n]
    <3>1. n - 1 \in 1 .. w - 1 /\ (n - 1) + 1 = n
      BY <2>1
    <3> QED
      BY <1>6, <3>1
  <2> QED
    BY <1>6, <2>1
<1>10. /\ app \in [FtIds -> {"none", "offered", "accepted"}]
       /\ outcomes \in [FtIds \union StaleIds -> Seq({"finished", "cancelled"})]
  BY DEF IInv, Types, TypeOK
<1>11. s.kind \in {"incoming", "finished", "cancelled"}
  BY <1>4 DEF SignalRecord
<1>12. s.kind = "incoming" => s.ftId \in FtIds /\ app[s.ftId] = "none"
  <2>1. ASSUME s.kind = "incoming" PROVE s.ftId \in FtIds
    <3>1. Offer(s.ftId, s.transfer)
      BY <1>4, <1>7, <2>1 DEF IInv, Heard
    <3> QED
      BY <3>1 DEF Offer, IInv, OwnIds
  <2>2. ASSUME s.kind = "incoming" PROVE app[s.ftId] = "none"
    BY <1>4, <1>7, <2>1, <2>2 DEF IInv, Heard, IsIncoming
  <2> QED
    BY <2>1, <2>2
<1>13. ASSUME NEW i \in FtIds
       PROVE  /\ IF IsIncoming(s, i) THEN app[i] = "none" /\ app'[i] = "offered" ELSE app'[i] = app[i]
              /\ IF IsEnd(s, i) THEN outcomes'[i] = Append(outcomes[i], s.kind) ELSE outcomes'[i] = outcomes[i]
  <2>1. CASE s.kind = "incoming"
    BY <1>2, <1>10, <1>12, <2>1 DEF IsIncoming, IsEnd
  <2>2. CASE s.kind # "incoming"
    <3>1. app' = app /\ ~IsIncoming(s, i)
      BY <1>2, <2>2 DEF IsIncoming
    <3>2. IsEnd(s, i) <=> s.ftId = i
      BY <1>11, <2>2 DEF IsEnd
    <3>3. outcomes' = [outcomes EXCEPT ![s.ftId] = Append(@, s.kind)]
      BY <1>2, <2>2
    <3>4. IF s.ftId = i THEN outcomes'[i] = Append(outcomes[i], s.kind) ELSE outcomes'[i] = outcomes[i]
      BY <1>10, <3>3
    <3> QED
      BY <3>1, <3>2, <3>4
  <2> QED
    BY <2>1, <2>2
<1>14. app' \in [FtIds -> {"none", "offered", "accepted"}]
  BY <1>2, <1>10
<1> QED
  BY <1>2, <1>3, <1>4, <1>7, <1>8, <1>9, <1>13, <1>14 DEF Hears

\* The end that the first signal tells is that of an offer the application knows.
LEMMA EndHeard ==
  ASSUME Ends, NEW s, Hears(s), NEW i \in FtIds, IsEnd(s, i), ~IsShared(i)
  PROVE  /\ HasEnded(i, s.kind) /\ outcomes[i] = <<>> /\ app[i] # "none"
         /\ \A q \in DOMAIN signals : IsEnd(signals[q], i) => q = 1
<1>1. /\ s = signals[1] /\ 1 \in DOMAIN signals
      /\ \A n \in DOMAIN signals : n \in Nat /\ (n = 1 \/ n - 1 \in DOMAIN signals')
      /\ \A n \in DOMAIN signals' : n \in Nat
  BY DEF Hears
<1>2. EndComes(i, 1)
  BY <1>1 DEF Ends
<1>3. \A q \in DOMAIN signals : ~(q < 1)
  <2>1. ASSUME NEW q \in DOMAIN signals, q < 1 PROVE FALSE
    <3>1. q \in Nat /\ q # 1 /\ q - 1 \in Nat
      BY <1>1, <2>1
    <3> QED
      BY <2>1, <3>1
  <2> QED
    BY <2>1
<1> QED
  BY <1>1, <1>2, <1>3 DEF EndComes

\* The ends after a signal is taken.
LEMMA EndsAfterSignal ==
  ASSUME IInv, Ends, SignalTaken
  PROVE  Ends'
<1>1. PICK s : Hears(s)
  BY SignalHeard
<1>2. /\ s = signals[1] /\ 1 \in DOMAIN signals /\ s \in SignalRecord /\ transfers' = transfers
      /\ \A n \in DOMAIN signals' : n \in Nat /\ n + 1 \in DOMAIN signals /\ n + 1 # 1 /\ signals'[n] = signals[n + 1]
      /\ \A n \in DOMAIN signals : n \in Nat /\ (n = 1 \/ (n - 1 \in DOMAIN signals' /\ signals'[n - 1] = signals[n]))
  BY <1>1 DEF Hears
<1>3. ASSUME NEW i \in FtIds
      PROVE  /\ IF IsIncoming(s, i) THEN app'[i] = "offered" ELSE app'[i] = app[i]
             /\ IF IsEnd(s, i) THEN outcomes'[i] = Append(outcomes[i], s.kind) ELSE outcomes'[i] = outcomes[i]
  BY <1>1 DEF Hears
<1>4. \A i, kind : HasEnded(i, kind)' <=> HasEnded(i, kind)
  BY <1>2 DEF HasEnded, Offer, IsOffered
<1>5. \A tr : IsOffered(tr)' <=> IsOffered(tr)
  BY <1>2 DEF IsOffered
<1>6. \A i : IsShared(i)' <=> IsShared(i)
  BY <1>2 DEF IsShared
<1>7. \A i \in FtIds : app[i] # "none" => app'[i] # "none"
  BY <1>3
<1>8. ASSUME NEW i \in FtIds, IsMade(i) PROVE IsMade(i)'
  <2>1. CASE app[i] # "none"
    BY <1>7, <2>1 DEF IsMade
  <2>2. ASSUME NEW p \in DOMAIN signals, IsIncoming(signals[p], i) PROVE IsMade(i)'
    <3>1. CASE p = 1
      BY <1>2, <1>3, <2>2, <3>1 DEF IsMade
    <3>2. CASE p # 1
      <4>1. p - 1 \in DOMAIN signals' /\ signals'[p - 1] = signals[p]
        BY <1>2, <3>2
      <4> QED
        BY <2>2, <4>1 DEF IsMade
    <3> QED
      BY <3>1, <3>2
  <2> QED
    BY <1>8, <2>1, <2>2 DEF IsMade
<1>9. OffersMade'
  <2>1. ASSUME NEW ur \in DOMAIN transfers', IsOffered(ur)' PROVE IsMade(transfers[ur].ftId)'
    <3>1. PICK i : i = transfers[ur].ftId /\ i = transfers'[ur].ftId
      BY <1>2
    <3>2. ur \in DOMAIN transfers /\ IsOffered(ur) /\ i \in FtIds
      BY <1>2, <1>5, <2>1, <3>1, OfferedIds
    <3>3. IsMade(i)
      BY <3>1, <3>2 DEF Ends, OffersMade
    <3>4. IsMade(i)'
      BY <1>8, <3>2, <3>3
    <3> QED
      BY <3>1, <3>4
  <2> QED
    BY <2>1 DEF OffersMade
<1>10. ASSUME NEW i \in FtIds, NEW p \in DOMAIN signals', IsEnd(signals'[p], i), ~IsShared(i)
       PROVE  EndComes(i, p)'
  <2>1. PICK n \in DOMAIN signals : n = p + 1
    BY <1>2
  <2>2. p \in Nat /\ n # 1 /\ signals'[p] = signals[n] /\ IsEnd(signals[n], i)
    BY <1>2, <1>10, <2>1
  <2>3. EndComes(i, n)
    BY <1>10, <2>2 DEF Ends
  <2>4. ~IsEnd(s, i)
    BY <1>1, <1>10, <2>2, EndHeard
  <2>5. outcomes'[i] = <<>>
    BY <1>3, <2>3, <2>4 DEF EndComes
  <2>6. PICK k : k = signals[n].kind /\ k = signals'[p].kind
    BY <2>2
  <2>7. HasEnded(i, k)'
    BY <1>4, <2>3, <2>6 DEF EndComes
  <2>8. app'[i] # "none" \/ \E q \in DOMAIN signals' : q < p /\ IsIncoming(signals'[q], i)
    <3>1. CASE app[i] # "none"
      BY <1>7, <3>1
    <3>2. ASSUME NEW q \in DOMAIN signals, q < n, IsIncoming(signals[q], i)
          PROVE  app'[i] # "none" \/ \E r \in DOMAIN signals' : r < p /\ IsIncoming(signals'[r], i)
      <4>1. CASE q = 1
        BY <1>2, <1>3, <3>2, <4>1
      <4>2. CASE q # 1
        <5>1. q \in Nat /\ q - 1 \in DOMAIN signals' /\ signals'[q - 1] = signals[q]
          BY <1>2, <4>2
        <5>2. q - 1 < p
          BY <2>1, <2>2, <3>2, <5>1
        <5> QED
          BY <3>2, <5>1, <5>2
      <4> QED
        BY <4>1, <4>2
    <3> QED
      BY <2>3, <3>1, <3>2 DEF EndComes
  <2>9. ASSUME NEW q \in DOMAIN signals', IsEnd(signals'[q], i) PROVE p = q
    <3>1. q \in Nat /\ q + 1 \in DOMAIN signals /\ IsEnd(signals[q + 1], i)
      BY <1>2, <2>9
    <3>2. n = q + 1
      BY <2>3, <3>1 DEF EndComes
    <3> QED
      BY <2>1, <2>2, <3>1, <3>2
  <2> QED
    BY <2>5, <2>6, <2>7, <2>8, <2>9 DEF EndComes
<1>11. ASSUME NEW i \in FtIds, outcomes'[i] # <<>>, ~IsShared(i)
       PROVE  EndTold(i)'
  <2>1. CASE IsEnd(s, i)
    <3>1. HasEnded(i, s.kind) /\ outcomes[i] = <<>> /\ app[i] # "none"
      BY <1>1, <1>11, <2>1, EndHeard
    <3>2. PICK k : k = s.kind
      OBVIOUS
    <3>3. outcomes'[i] = Append(<<>>, k)
      BY <1>3, <2>1, <3>1, <3>2
    <3>4. Len(outcomes'[i]) = 1 /\ outcomes'[i][1] = k
      BY <3>3
    <3>5. HasEnded(i, k)'
      BY <1>4, <3>1, <3>2
    <3> QED
      BY <1>7, <3>1, <3>4, <3>5 DEF EndTold
  <2>2. CASE ~IsEnd(s, i)
    <3>1. outcomes'[i] = outcomes[i]
      BY <1>3, <2>2
    <3>2. EndTold(i)
      BY <1>11, <3>1 DEF Ends
    <3>3. PICK k : k = outcomes[i][1] /\ k = outcomes'[i][1]
      BY <3>1
    <3>4. HasEnded(i, k)'
      BY <1>4, <3>2, <3>3 DEF EndTold
    <3> QED
      BY <1>7, <3>1, <3>2, <3>3, <3>4 DEF EndTold
  <2> QED
    BY <2>1, <2>2
<1> QED
  BY <1>6, <1>9, <1>10, <1>11 DEF Ends

\* The ends after a file is accepted.
LEMMA EndsAfterAccept ==
  ASSUME IInv, Ends, NEW i \in FtIds, acceptFileTransfer(i)
  PROVE  Ends' /\ \A j : IsShared(j)' <=> IsShared(j)
<1>1. /\ signals' = signals /\ outcomes' = outcomes /\ app' = [app EXCEPT ![i] = "accepted"]
      /\ transfers' = [transfers EXCEPT ![offered[i]].hasDestination = TRUE]
  BY DEF acceptFileTransfer
<1>2. DOMAIN transfers' = DOMAIN transfers
  BY <1>1
<1>3. ASSUME NEW ur \in DOMAIN transfers
      PROVE  /\ transfers'[ur].of = transfers[ur].of /\ transfers'[ur].step = transfers[ur].step
             /\ transfers'[ur].ftId = transfers[ur].ftId
             /\ transfers'[ur].hasTransfered = transfers[ur].hasTransfered
  <2>1. PICK o \in Record : o = transfers[ur]
    BY RecordTypes DEF IInv
  <2>2. transfers'[ur] = o \/ transfers'[ur] = [o EXCEPT !.hasDestination = TRUE]
    BY <1>1, <2>1
  <2> QED
    BY <2>1, <2>2 DEF Record
<1>4. OffersStay /\ EndsLast /\ \A j : IsShared(j)' <=> IsShared(j)
  BY <1>2, <1>3 DEF OffersStay, OffersLast, EndsLast, IsOffered, IsShared
<1>5. app \in [FtIds -> {"none", "offered", "accepted"}]
  BY DEF IInv, Types, TypeOK
<1>6. \A j \in FtIds : app[j] # "none" => app'[j] # "none"
  BY <1>1, <1>5
<1> QED
  BY <1>1, <1>4, <1>6, OfferedIds, QuietEnds DEF SharesLast

-----------------------------------------------------------------------------
(* The refinement *)

\* A step of the peer is none that the application sees.
LEMMA EndsAfterPeer ==
  ASSUME IInv, Ends, UNCHANGED <<chat, signals, application>>
  PROVE  Ends'
<1>1. transfers' = transfers /\ signals' = signals /\ app' = app /\ outcomes' = outcomes
  BY DEF chat, application
<1>2. OffersStay /\ EndsLast /\ SharesLast
  BY <1>1 DEF OffersStay, OffersLast, EndsLast, IsOffered, SharesLast, IsShared
<1> QED
  BY <1>1, <1>2, OfferedIds, QuietEnds

\* Nothing was offered yet.
LEMMA EndsInitially ==
  ASSUME Init
  PROVE  Ends
<1>1. /\ transfers = <<>> /\ signals = <<>> /\ outcomes = [i \in FtIds \union StaleIds |-> <<>>]
  BY DEF Init
<1>2. DOMAIN transfers = {} /\ DOMAIN signals = {}
  BY <1>1
<1> QED
  BY <1>1, <1>2 DEF Ends, OffersMade

\* Every step keeps the ends as they should be.
LEMMA NextEnds ==
  ASSUME IInv, IdsFit, Ends, [Next]_vars
  PROVE  Ends'
<1>1. CASE \E t \in Transfers : PeerInvites(t) \/ PeerAsksForChannel(t) \/ PeerSendsChunk(t) \/ PeerEnds(t)
  BY <1>1, EndsAfterPeer DEF PeerInvites, PeerAsksForChannel, PeerSendsChunk, PeerEnds
<1>2. CASE PeerTakesAnswer
  BY <1>2, EndsAfterPeer DEF PeerTakesAnswer
<1>3. CASE parseMsg
  BY <1>3, EndsAfterParse
<1>4. CASE SignalTaken
  BY <1>4, EndsAfterSignal
<1>5. CASE \E i \in FtIds : acceptFileTransfer(i)
  BY <1>5, EndsAfterAccept
<1>6. CASE UNCHANGED vars
  BY <1>6, EndsAfterPeer DEF vars
<1> QED
  BY <1>1, <1>2, <1>3, <1>4, <1>5, <1>6 DEF Next

\* What the application knows of each offer, before and after a step.
LEMMA StatesOfOffers ==
  /\ OfferStates = [i \in FtIds |-> OfferStates[i]] /\ OfferStates' = [i \in FtIds |-> OfferStates'[i]]
  /\ \A i \in FtIds : IsShared(i) => OfferStates[i] = "shared"
  /\ \A i \in FtIds : IsShared(i)' => OfferStates'[i] = "shared"
  /\ \A i \in FtIds : ~IsShared(i) /\ outcomes[i] = <<>> => OfferStates[i] = app[i]
  /\ \A i \in FtIds : ~IsShared(i)' /\ outcomes'[i] = <<>> => OfferStates'[i] = app'[i]
  /\ \A i \in FtIds : ~IsShared(i) /\ Len(outcomes[i]) = 1 => OfferStates[i] = outcomes[i][1]
  /\ \A i \in FtIds : \A k : ~IsShared(i)' /\ outcomes'[i] = <<k>> => OfferStates'[i] = k
<1>1. OfferStates = [i \in FtIds |-> OfferStates[i]] /\ OfferStates' = [i \in FtIds |-> OfferStates'[i]]
  BY DEF OfferStates
<1>2. /\ \A i \in FtIds : IsShared(i) => OfferStates[i] = "shared"
      /\ \A i \in FtIds : IsShared(i)' => OfferStates'[i] = "shared"
  BY DEF OfferStates
<1>3. ASSUME NEW i \in FtIds, ~IsShared(i), outcomes[i] = <<>>
      PROVE  OfferStates[i] = app[i]
  <2>1. Len(outcomes[i]) # 1
    BY <1>3
  <2> QED
    BY <1>3, <2>1 DEF OfferStates
<1>4. ASSUME NEW i \in FtIds, ~IsShared(i)', outcomes'[i] = <<>>
      PROVE  OfferStates'[i] = app'[i]
  <2>1. Len(outcomes'[i]) # 1
    BY <1>4
  <2> QED
    BY <1>4, <2>1 DEF OfferStates
<1>5. ASSUME NEW i \in FtIds, ~IsShared(i), Len(outcomes[i]) = 1
      PROVE  OfferStates[i] = outcomes[i][1]
  <2>1. outcomes[i] # <<>>
    BY <1>5
  <2> QED
    BY <1>5, <2>1 DEF OfferStates
<1>6. ASSUME NEW i \in FtIds, NEW k, ~IsShared(i)', outcomes'[i] = <<k>>
      PROVE  OfferStates'[i] = k
  <2>1. outcomes'[i] # <<>> /\ Len(outcomes'[i]) = 1 /\ outcomes'[i][1] = k
    BY <1>6
  <2> QED
    BY <1>6, <2>1 DEF OfferStates
<1> QED
  BY <1>1, <1>2, <1>3, <1>4, <1>5, <1>6

\* The application was told nothing new of an offer, and it is shared as before.
SameOffer(i) == app'[i] = app[i] /\ outcomes'[i] = outcomes[i] /\ (IsShared(i)' <=> IsShared(i))

\* Such an offer stays in its state.
LEMMA SameState ==
  ASSUME NEW i \in FtIds, SameOffer(i)
  PROVE  OfferStates'[i] = OfferStates[i]
<1>1. PICK o : o = outcomes[i] /\ o = outcomes'[i]
  BY DEF SameOffer
<1>2. PICK a : a = app[i] /\ a = app'[i]
  BY DEF SameOffer
<1>3. CASE IsShared(i)
  BY <1>3, StatesOfOffers DEF SameOffer
<1>4. CASE ~IsShared(i)
  <2>1. ~IsShared(i)'
    BY <1>4 DEF SameOffer
  <2>2. PICK c : c = CASE o = <<>> -> a [] Len(o) = 1 -> o[1] [] OTHER -> "ended twice"
    OBVIOUS
  <2>3. OfferStates[i] = c
    BY <1>1, <1>2, <1>4, <2>2 DEF OfferStates
  <2>4. OfferStates'[i] = c
    BY <1>1, <1>2, <2>1, <2>2 DEF OfferStates
  <2> QED
    BY <2>3, <2>4
<1> QED
  BY <1>3, <1>4

\* All offers stay in their states.
LEMMA SameStates ==
  ASSUME \A i \in FtIds : SameOffer(i)
  PROVE  OfferStates' = OfferStates
<1>1. \A i \in FtIds : OfferStates'[i] = OfferStates[i]
  BY SameState
<1> QED
  BY <1>1, StatesOfOffers

\* When what the application knows of one offer changes.
LEMMA OneOfferMoves ==
  ASSUME NEW i \in FtIds, NEW from, NEW to, OfferStates[i] \in from, OfferStates'[i] = to,
         \A j \in FtIds : j # i => SameOffer(j)
  PROVE  Offers!Move(i, from, to)
<1>1. OfferStates = [j \in FtIds |-> OfferStates[j]] /\ OfferStates' = [j \in FtIds |-> OfferStates'[j]]
  BY StatesOfOffers
<1>2. \A j \in FtIds : j # i => OfferStates'[j] = OfferStates[j]
  BY SameState
<1>3. OfferStates' = [OfferStates EXCEPT ![i] = to]
  BY <1>1, <1>2
<1> QED
  BY <1>3 DEF Offers!Move

\* A signal is a step of its offer, or no news of one that is not shared.
LEMMA SignalRefines ==
  ASSUME IInv, Ends, SignalTaken
  PROVE  [Offers!Next]_OfferStates
<1>1. PICK s : Hears(s)
  BY SignalHeard
<1>2. s \in SignalRecord /\ s = signals[1] /\ 1 \in DOMAIN signals /\ transfers' = transfers
  BY <1>1 DEF Hears
<1>3. ASSUME NEW i \in FtIds
      PROVE  /\ IF IsIncoming(s, i) THEN app[i] = "none" /\ app'[i] = "offered" ELSE app'[i] = app[i]
             /\ IF IsEnd(s, i) THEN outcomes'[i] = Append(outcomes[i], s.kind) ELSE outcomes'[i] = outcomes[i]
  BY <1>1 DEF Hears
<1>4. \A i \in FtIds : app[i] \in {"none", "offered", "accepted"}
  BY DEF IInv, Types, TypeOK
<1>5. \A i, j \in FtIds : (IsIncoming(s, i) \/ IsEnd(s, i)) /\ i # j => ~IsIncoming(s, j) /\ ~IsEnd(s, j)
  BY DEF IsIncoming, IsEnd
<1>6. \A i : IsShared(i)' <=> IsShared(i)
  BY <1>2 DEF IsShared
<1>7. ASSUME NEW i \in FtIds, ~IsIncoming(s, i), ~IsEnd(s, i)
      PROVE  SameOffer(i)
  BY <1>3, <1>6, <1>7 DEF SameOffer
<1>8. ASSUME NEW i \in FtIds, IsIncoming(s, i), ~IsShared(i)
      PROVE  Offers!Next
  <2>1. ~IsEnd(s, i)
    BY <1>8 DEF IsIncoming, IsEnd
  <2>2. app[i] = "none" /\ app'[i] = "offered" /\ outcomes'[i] = outcomes[i]
    BY <1>3, <1>8, <2>1
  <2>3. outcomes[i] = <<>>
    BY <1>8, <2>2 DEF Ends, EndTold
  <2>4. OfferStates[i] \in {"none"} /\ OfferStates'[i] = "offered"
    BY <1>6, <1>8, <2>2, <2>3, StatesOfOffers
  <2>5. \A j \in FtIds : j # i => SameOffer(j)
    BY <1>5, <1>7, <1>8
  <2>6. Offers!Move(i, {"none"}, "offered")
    BY <2>4, <2>5, OneOfferMoves
  <2> QED
    BY <2>6 DEF Offers!Next, Offers!Offer
<1>9. ASSUME NEW i \in FtIds, IsEnd(s, i), ~IsShared(i)
      PROVE  Offers!Next
  <2>1. HasEnded(i, s.kind) /\ outcomes[i] = <<>> /\ app[i] # "none"
    BY <1>1, <1>9, EndHeard
  <2>2. ~IsIncoming(s, i)
    BY <1>9 DEF IsIncoming, IsEnd
  <2>3. PICK k : k = s.kind
    OBVIOUS
  <2>4. outcomes'[i] = <<k>>
    <3>1. outcomes'[i] = Append(<<>>, k)
      BY <1>3, <1>9, <2>1, <2>3
    <3> QED
      BY <3>1
  <2>5. OfferStates[i] = app[i] /\ OfferStates'[i] = k
    BY <1>6, <1>9, <2>1, <2>4, StatesOfOffers
  <2>6. \A j \in FtIds : j # i => SameOffer(j)
    BY <1>5, <1>7, <1>9
  <2>7. CASE k = "finished"
    <3>1. PICK tr \in DOMAIN transfers : Offer(i, tr) /\ transfers[tr].hasTransfered
      BY <2>1, <2>3, <2>7 DEF HasEnded
    <3>2. transfers[tr].hasDestination /\ transfers[tr].ftId = i
      BY <3>1 DEF IInv, Data, Offer
    <3>3. app[i] = "accepted"
      BY <3>2 DEF IInv, Heard
    <3>4. OfferStates[i] \in {"accepted"} /\ OfferStates'[i] = "finished"
      BY <2>5, <2>7, <3>3
    <3>5. Offers!Move(i, {"accepted"}, "finished")
      BY <2>6, <3>4, OneOfferMoves
    <3> QED
      BY <3>5 DEF Offers!Next, Offers!Finish
  <2>8. CASE k = "cancelled"
    <3>1. OfferStates[i] \in {"offered", "accepted"} /\ OfferStates'[i] = "cancelled"
      BY <1>4, <2>1, <2>5, <2>8
    <3>2. Offers!Move(i, {"offered", "accepted"}, "cancelled")
      BY <2>6, <3>1, OneOfferMoves
    <3> QED
      BY <3>2 DEF Offers!Next, Offers!Cancel
  <2> QED
    BY <1>9, <2>3, <2>7, <2>8 DEF IsEnd
<1>10. CASE \A i \in FtIds : IsIncoming(s, i) \/ IsEnd(s, i) => IsShared(i)
  <2>1. ASSUME NEW i \in FtIds PROVE OfferStates'[i] = OfferStates[i]
    <3>1. CASE IsShared(i)
      BY <1>6, <3>1, StatesOfOffers
    <3>2. CASE ~IsShared(i)
      BY <1>7, <1>10, <3>2, SameState
    <3> QED
      BY <3>1, <3>2
  <2>2. OfferStates' = OfferStates
    BY <2>1, StatesOfOffers
  <2> QED
    BY <2>2
<1> QED
  BY <1>8, <1>9, <1>10

\* What the chat's thread reads, the application is told by signals only.
LEMMA ParsingTellsNothing ==
  ASSUME parseMsg
  PROVE  application' = application
<1>1. PICK m : m = Head(wire)
  OBVIOUS
<1>2. \/ AckArrives(m)
      \/ Dropped(m)
      \/ \E step, objects : Continues(m, step, objects)
  BY <1>1, Zenon DEF parseMsg, InvitationArrives, NegotiationArrives, DataArrives, ByeArrives
<1>3. CASE AckArrives(m)
  BY <1>3 DEF AckArrives
<1>4. CASE Dropped(m)
  BY <1>4 DEF Dropped
<1>5. ASSUME NEW step, NEW objects, Continues(m, step, objects)
      PROVE  application' = application
  BY <1>5 DEF Continues
<1> QED
  BY <1>2, <1>3, <1>4, <1>5

\* What the chat's thread reads makes one offer shared, or none.
LEMMA ParsingRefines ==
  ASSUME IInv, IdsFit, Ends, parseMsg
  PROVE  [Offers!Next]_OfferStates
<1>1. app' = app /\ outcomes' = outcomes
  BY ParsingTellsNothing DEF application
<1>2. Shares
  BY EndsAfterParse
<1>3. PICK j : \A i : i # j /\ IsShared(i)' => IsShared(i)
  BY <1>2 DEF Shares, SharesOne
<1>4. ASSUME NEW i \in FtIds, i # j \/ IsShared(i) \/ ~IsShared(i)'
      PROVE  SameOffer(i)
  BY <1>1, <1>2, <1>3, <1>4 DEF SameOffer, Shares, SharesLast
<1>5. CASE j \in FtIds /\ ~IsShared(j) /\ IsShared(j)'
  <2>1. OfferStates[j] \in {"none", "offered", "accepted", "finished", "cancelled"}
    <3>1. CASE outcomes[j] = <<>>
      <4>1. OfferStates[j] = app[j]
        BY <1>5, <3>1, StatesOfOffers
      <4>2. app[j] \in {"none", "offered", "accepted"}
        BY <1>5 DEF IInv, Types, TypeOK
      <4> QED
        BY <4>1, <4>2
    <3>2. CASE outcomes[j] # <<>>
      <4>1. Len(outcomes[j]) = 1
        BY <1>5, <3>2 DEF Ends, EndTold
      <4>2. OfferStates[j] = outcomes[j][1]
        BY <1>5, <4>1, StatesOfOffers
      <4>3. outcomes[j] \in Seq({"finished", "cancelled"})
        BY <1>5 DEF IInv, Types, TypeOK
      <4>4. outcomes[j][1] \in {"finished", "cancelled"}
        BY <4>1, <4>3
      <4> QED
        BY <4>2, <4>4
    <3> QED
      BY <3>1, <3>2
  <2>2. OfferStates'[j] = "shared"
    BY <1>5, StatesOfOffers
  <2>3. \A i \in FtIds : i # j => SameOffer(i)
    BY <1>4
  <2>4. Offers!Move(j, {"none", "offered", "accepted", "finished", "cancelled"}, "shared")
    BY <1>5, <2>1, <2>2, <2>3, OneOfferMoves
  <2> QED
    BY <1>5, <2>4 DEF Offers!Next, Offers!Share
<1>6. CASE ~(j \in FtIds /\ ~IsShared(j) /\ IsShared(j)')
  BY <1>4, <1>6, SameStates
<1> QED
  BY <1>5, <1>6

\* Every step is one of an offer, or no news of it for the application.
LEMMA StepRefines ==
  ASSUME IInv, IdsFit, Ends, [Next]_vars
  PROVE  [Offers!Next]_OfferStates
<1>1. ASSUME application' = application, chat' = chat
      PROVE  OfferStates' = OfferStates
  BY <1>1, SameStates DEF application, chat, SameOffer, IsShared
<1>2. CASE \E t \in Transfers : PeerInvites(t) \/ PeerAsksForChannel(t) \/ PeerSendsChunk(t) \/ PeerEnds(t)
  BY <1>1, <1>2 DEF PeerInvites, PeerAsksForChannel, PeerSendsChunk, PeerEnds
<1>3. CASE PeerTakesAnswer
  BY <1>1, <1>3 DEF PeerTakesAnswer
<1>4. CASE parseMsg
  BY <1>4, ParsingRefines
<1>5. CASE SignalTaken
  BY <1>5, SignalRefines
<1>6. ASSUME NEW i \in FtIds, acceptFileTransfer(i)
      PROVE  [Offers!Next]_OfferStates
  <2>1. app[i] = "offered" /\ outcomes[i] = <<>> /\ outcomes' = outcomes /\ app' = [app EXCEPT ![i] = "accepted"]
    BY <1>6 DEF acceptFileTransfer
  <2>2. app \in [FtIds -> {"none", "offered", "accepted"}]
    BY DEF IInv, Types, TypeOK
  <2>3. \A j : IsShared(j)' <=> IsShared(j)
    BY <1>6, EndsAfterAccept
  <2>4. app'[i] = "accepted" /\ \A j \in FtIds : j # i => SameOffer(j)
    BY <2>1, <2>2, <2>3 DEF SameOffer
  <2>5. CASE IsShared(i)
    <3>1. OfferStates'[i] = OfferStates[i]
      BY <2>3, <2>5, StatesOfOffers
    <3>2. \A j \in FtIds : OfferStates'[j] = OfferStates[j]
      BY <2>4, <3>1, SameState
    <3> QED
      BY <3>2, StatesOfOffers
  <2>6. CASE ~IsShared(i)
    <3>1. OfferStates[i] \in {"offered"} /\ OfferStates'[i] = "accepted"
      BY <2>1, <2>3, <2>4, <2>6, StatesOfOffers
    <3>2. Offers!Move(i, {"offered"}, "accepted")
      BY <2>4, <3>1, OneOfferMoves
    <3> QED
      BY <3>2 DEF Offers!Next, Offers!Accept
  <2> QED
    BY <2>5, <2>6
<1>7. CASE UNCHANGED vars
  BY <1>1, <1>7 DEF vars
<1> QED
  BY <1>2, <1>3, <1>4, <1>5, <1>6, <1>7 DEF Next

\* Ends, besides IInv, holds in every state.
THEOREM EndsInductive ==
  ASSUME IdsFit
  PROVE  Spec => [](IInv /\ Ends)
<1>1. Init => Ends
  BY EndsInitially
<1>2. IInv /\ Ends /\ [Next]_vars => Ends'
  BY NextEnds
<1> QED
  BY <1>1, <1>2, Inductive, PTL DEF Spec

\* The chat, its signals and the peer together behave as FileOffers promises, whatever
\* the memory of a new Transfer holds: an application is told of each transfer one offer
\* and then one end, and that it is finished only if it was accepted, for as long as no
\* picture or webcam was left with the identifier of the offer.
THEOREM Refinement ==
  ASSUME IdsFit
  PROVE  Spec => EndsOnce
<1>1. Init => Offers!Init
  <2>1. ASSUME Init PROVE OfferStates = [i \in FtIds |-> "none"]
    <3>1. transfers = <<>> /\ app = [i \in FtIds |-> "none"]
          /\ outcomes = [i \in FtIds \union StaleIds |-> <<>>]
      BY <2>1 DEF Init
    <3>2. \A i \in FtIds : ~IsShared(i) /\ outcomes[i] = <<>>
      BY <3>1 DEF IsShared
    <3> QED
      BY <3>1, <3>2, StatesOfOffers
  <2> QED
    BY <2>1 DEF Offers!Init
<1>2. IInv /\ IdsFit /\ Ends /\ [Next]_vars => [Offers!Next]_OfferStates
  BY StepRefines
<1> QED
  BY <1>1, <1>2, EndsInductive, PTL DEF Spec, EndsOnce, Offers!Spec
=============================================================================
