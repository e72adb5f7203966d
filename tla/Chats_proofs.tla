---------------------------- MODULE Chats_proofs ----------------------------
(***************************************************************************)
(* Proofs about Chats: the type invariant and the safety properties, for   *)
(* any number of chats, contacts, texts and lost connections.              *)
(*                                                                         *)
(* Two arguments are independent.  The passports are counted: every chat   *)
(* that has still to call finds one in the queue.  And the texts of a chat *)
(* are followed on their way, which is through m_buf and the queue of      *)
(* signals: their numbers grow along it and none is missing.               *)
(***************************************************************************)
EXTENDS Chats, QueueLemmas

Signal(d) == [chat: d, what: {"TEXT", "BYE"}, nr: Nat]
Hearings == [what: {"TEXT", "BYE"}, nr: Nat]

-----------------------------------------------------------------------------
(* The inductive invariant *)

\* The commands a chat has still to parse: those in m_buf, then those not yet received.
Coming(n) == chatList[n].buf \o board[n].wire

Early == {"idle", "greeted", "ready", "calling"}

\* A chat and the stage of its switchboard, which the contact is not at before the call.
Stages(c, b) ==
  /\ c.thread = "started" => b.stage = "idle"
  /\ b.stage \in {"idle", "greeted"} => c.taken = Nobody
  /\ b.stage \in {"idle", "greeted", "ready"} => c.called = Nobody
  /\ b.stage \in Early \cup {"talking"} => ~b.left
  /\ b.stage \in Early => b.texts = 0
  /\ c.taken # Nobody => c.called = Nobody

\* The USR is the only command until the chat has called, and an error of the call that
\* ends the chat is one before which nothing was written.
Ahead(coming, c, b) ==
  /\ b.stage \in {"idle", "greeted"} => coming = <<>>
  /\ \A i \in DOMAIN coming :
       /\ coming[i].cmd = "USR" =>
            /\ Len(coming) = 1 /\ b.stage \in {"ready", "closed"}
            /\ c.isMine /\ c.called = Nobody /\ c.taken = Nobody
       /\ coming[i].cmd = "215" =>
            b.stage \in {"left", "closed"} /\ b.texts = 0 /\ ~b.left

Local(c, b) == Stages(c, b) /\ Ahead(c.buf \o b.wire, c, b)

LocalInv == \A n \in DOMAIN chatList : Local(chatList[n], board[n])

\* What the contact writes is ranked: its texts by their numbers, its leave after them.
Written == {"TEXT", "BYE"}
Total(n) == board[n].texts + IF board[n].left THEN 1 ELSE 0
Rank(n, what, nr) == IF what = "BYE" THEN board[n].texts + 1 ELSE nr
Due(n, what, nr) ==
  /\ Rank(n, what, nr) > Len(heard[n]) /\ Rank(n, what, nr) <= Total(n)
  /\ what = "BYE" => board[n].left

Signalled(n) == {i \in DOMAIN signals : signals[i].chat = n}
Arriving(n) == {i \in DOMAIN Coming(n) : Coming(n)[i].cmd \in Written}
SRank(n, i) == Rank(n, signals[i].what, signals[i].nr)
CRank(n, i) == Rank(n, Coming(n)[i].cmd, Coming(n)[i].nr)

\* The ranks grow along the way from the contact to the application, ...
InTransit(n) ==
  /\ \A i \in Signalled(n) : Due(n, signals[i].what, signals[i].nr)
  /\ \A i \in Arriving(n) : Due(n, Coming(n)[i].cmd, Coming(n)[i].nr)
  /\ \A i, j \in Signalled(n) : i < j => SRank(n, i) < SRank(n, j)
  /\ \A i, j \in Arriving(n) : i < j => CRank(n, i) < CRank(n, j)
  /\ \A i \in Signalled(n), j \in Arriving(n) : SRank(n, i) < CRank(n, j)

\* ... each of them is on the way or was heard, ...
NothingLost(n) ==
  \A t \in Nat : t > Len(heard[n]) /\ t <= Total(n) =>
    \/ \E i \in Signalled(n) : SRank(n, i) = t
    \/ \E i \in Arriving(n) : CRank(n, i) = t

\* ... and what was heard was heard in its place.
HeardInOrder(n) ==
  /\ Len(heard[n]) <= Total(n)
  /\ \A k \in DOMAIN heard[n] :
       /\ Rank(n, heard[n][k].what, heard[n][k].nr) = k
       /\ heard[n][k].what = "BYE" => board[n].left

Followed(n) == InTransit(n) /\ NothingLost(n) /\ HeardInOrder(n)
TextsInv == \A n \in DOMAIN chatList : Followed(n)

\* Every invitation is a request under way or a chat, and a passport that is queued or called.
MineSet == {n \in DOMAIN chatList : chatList[n].isMine}
Counts ==
  /\ Cardinality(MineSet) + Cardinality(Places(requests, "asked")) + asked = Len(invited)
  /\ Cardinality(Called) + Len(destPassport) = Len(invited)
  /\ Len(invited) + rings <= MaxChats
  /\ \A i \in DOMAIN destPassport :
       destPassport[i] = invited[Len(invited) - Len(destPassport) + i]

\* While the application invites in order, at most the last chat has not called.
OneAtATime ==
  orderly =>
    /\ Len(destPassport) <= 1
    /\ \A n \in DOMAIN chatList :
         /\ chatList[n].isMine /\ chatList[n].called = Nobody =>
              /\ Cardinality(MineUpTo(n)) = Len(invited)
              /\ chatList[n].taken \in {Nobody, invited[Len(invited)]}
         /\ chatList[n].called # Nobody =>
              chatList[n].called = invited[Cardinality(MineUpTo(n))]

PassportInv == Counts /\ OneAtATime /\ PassportsSuffice

IInv == TypeOK /\ LocalInv /\ TextsInv /\ PassportInv

-----------------------------------------------------------------------------
(* Types *)

\* The facts about types that the steps need.
LEMMA Types ==
  ASSUME TypeOK
  PROVE  /\ chatList \in Seq(ParserSB) /\ board \in Seq(Switchboard)
         /\ signals \in Seq(Signal(DOMAIN chatList)) /\ heard \in Seq(Seq(Hearings))
         /\ Len(chatList) \in Nat /\ DOMAIN chatList = 1 .. Len(chatList)
         /\ DOMAIN board = DOMAIN chatList /\ DOMAIN heard = DOMAIN chatList
         /\ Len(board) = Len(chatList) /\ Len(heard) = Len(chatList)
         /\ Len(signals) \in Nat /\ DOMAIN signals = 1 .. Len(signals)
         /\ requests \in Seq({"asked", "rung"}) /\ asked \in Nat /\ rings \in Nat
         /\ destPassport \in Seq(Contacts) /\ invited \in Seq(Contacts)
         /\ Len(destPassport) \in Nat /\ DOMAIN destPassport = 1 .. Len(destPassport)
         /\ Len(invited) \in Nat /\ DOMAIN invited = 1 .. Len(invited)
         /\ MaxChats \in Nat
<1>1. /\ chatList \in Seq(ParserSB) /\ board \in Seq(Switchboard)
      /\ signals \in Seq(Signal(DOMAIN chatList)) /\ heard \in Seq(Seq(Hearings))
      /\ DOMAIN board = DOMAIN chatList /\ DOMAIN heard = DOMAIN chatList
      /\ requests \in Seq({"asked", "rung"}) /\ asked \in Nat /\ rings \in Nat
      /\ destPassport \in Seq(Contacts) /\ invited \in Seq(Contacts)
  BY BoundsAssumption DEF TypeOK, Signal, Hearings
<1>2. /\ Len(chatList) \in Nat /\ DOMAIN chatList = 1 .. Len(chatList)
      /\ Len(board) \in Nat /\ DOMAIN board = 1 .. Len(board)
      /\ Len(heard) \in Nat /\ DOMAIN heard = 1 .. Len(heard)
  BY <1>1, LenProperties
<1>3. /\ Len(signals) \in Nat /\ DOMAIN signals = 1 .. Len(signals)
      /\ Len(destPassport) \in Nat /\ DOMAIN destPassport = 1 .. Len(destPassport)
      /\ Len(invited) \in Nat /\ DOMAIN invited = 1 .. Len(invited)
  BY <1>1, LenProperties
<1> QED
  BY <1>1, <1>2, <1>3, BoundsAssumption

LEMMA ChatTypes ==
  ASSUME TypeOK, NEW n \in DOMAIN chatList
  PROVE  /\ chatList[n] \in ParserSB /\ board[n] \in Switchboard /\ heard[n] \in Seq(Hearings)
         /\ board[n].texts \in Nat /\ board[n].left \in BOOLEAN
         /\ chatList[n].buf \in Seq(Commands) /\ board[n].wire \in Seq(Commands)
         /\ Coming(n) \in Seq(Commands) /\ Len(Coming(n)) \in Nat
         /\ DOMAIN Coming(n) = 1 .. Len(Coming(n))
         /\ \A i \in DOMAIN Coming(n) : Coming(n)[i] \in Commands
         /\ Len(heard[n]) \in Nat /\ DOMAIN heard[n] = 1 .. Len(heard[n])
         /\ \A k \in DOMAIN heard[n] : heard[n][k] \in Hearings
<1>1. chatList[n] \in ParserSB /\ board[n] \in Switchboard /\ heard[n] \in Seq(Hearings)
  BY Types, ElementOfSeq
<1>2. /\ board[n].texts \in Nat /\ board[n].left \in BOOLEAN
      /\ chatList[n].buf \in Seq(Commands) /\ board[n].wire \in Seq(Commands)
  BY <1>1 DEF ParserSB, Switchboard
<1>3. Coming(n) \in Seq(Commands)
  BY <1>2, ConcatProperties DEF Coming
<1>4. /\ Len(Coming(n)) \in Nat /\ DOMAIN Coming(n) = 1 .. Len(Coming(n))
      /\ Len(heard[n]) \in Nat /\ DOMAIN heard[n] = 1 .. Len(heard[n])
  BY <1>1, <1>3, LenProperties
<1>5. /\ \A i \in DOMAIN Coming(n) : Coming(n)[i] \in Commands
      /\ \A k \in DOMAIN heard[n] : heard[n][k] \in Hearings
  BY <1>1, <1>3, <1>4, ElementOfSeq
<1> QED
  BY <1>1, <1>2, <1>3, <1>4, <1>5

LEMMA SignalTypes ==
  ASSUME TypeOK, NEW i \in DOMAIN signals
  PROVE  /\ signals[i].chat \in DOMAIN chatList /\ signals[i].what \in Written
         /\ signals[i].nr \in Nat
<1>1. signals[i] \in Signal(DOMAIN chatList)
  BY Types, ElementOfSeq
<1> QED
  BY <1>1 DEF Signal, Written

\* Ranks and totals are numbers.
LEMMA RankTypes ==
  ASSUME TypeOK, NEW n \in DOMAIN chatList
  PROVE  /\ Total(n) \in Nat
         /\ \A i \in Signalled(n) : SRank(n, i) \in Nat /\ i \in Nat
         /\ \A i \in Arriving(n) : CRank(n, i) \in Nat /\ i \in Nat
<1>1. Total(n) \in Nat
  BY ChatTypes DEF Total
<1>2. ASSUME NEW i \in Signalled(n) PROVE SRank(n, i) \in Nat /\ i \in Nat
  BY SMTT(60), Types, ChatTypes, SignalTypes DEF Signalled, SRank, Rank
<1>3. ASSUME NEW i \in Arriving(n) PROVE CRank(n, i) \in Nat /\ i \in Nat
  <2>1. Coming(n)[i] \in Commands /\ i \in Nat
    BY ChatTypes DEF Arriving
  <2>2. Coming(n)[i].nr \in Nat
    BY <2>1 DEF Commands
  <2> QED
    BY <2>1, <2>2, ChatTypes DEF CRank, Rank
<1> QED
  BY <1>1, <1>2, <1>3

-----------------------------------------------------------------------------
(* How the steps move the texts of a chat *)

SameTexts(n) == board'[n].texts = board[n].texts /\ board'[n].left = board[n].left

\* The signals of a chat are those there were, a places nearer to the front.
SignalsMove(n, a) ==
  /\ \A i \in Signalled(n)' : i \in Nat /\ i + a \in Signalled(n) /\ signals'[i] = signals[i + a]
  /\ \A i \in Signalled(n) : i - a \in Signalled(n)'

ArrivingMove(n, b) ==
  /\ \A i \in Arriving(n)' : i \in Nat /\ i + b \in Arriving(n) /\ Coming(n)'[i] = Coming(n)[i + b]
  /\ \A i \in Arriving(n) : i - b \in Arriving(n)'

\* As long as all of them stay on the way, they stay in order.
LEMMA Carried ==
  ASSUME TypeOK, NEW n \in DOMAIN chatList, Followed(n),
         SameTexts(n), heard'[n] = heard[n],
         NEW a \in Nat, SignalsMove(n, a), NEW b \in Nat, ArrivingMove(n, b)
  PROVE  Followed(n)'
<1>1. /\ Total(n)' = Total(n) /\ \A what, nr : Rank(n, what, nr)' = Rank(n, what, nr)
      /\ \A what, nr : Due(n, what, nr)' = Due(n, what, nr)
  BY DEF SameTexts, Total, Rank, Due
<1>2. /\ \A i \in Signalled(n)' : i \in Int /\ i + a \in Signalled(n) /\ signals'[i] = signals[i + a]
      /\ \A i \in Signalled(n)' : SRank(n, i)' = SRank(n, i + a)
      /\ \A i \in Signalled(n) : i \in Int /\ i - a \in Signalled(n)' /\ SRank(n, i - a)' = SRank(n, i)
  <2>1. \A i \in Signalled(n)' : i \in Int
    BY DEF SignalsMove
  <2>2. \A i \in Signalled(n) : i \in Int
    BY Types DEF Signalled
  <2>3. \A i \in Signalled(n)' : SRank(n, i)' = SRank(n, i + a)
    BY <1>1 DEF SRank, SignalsMove
  <2>4. \A i \in Signalled(n) : (i - a) + a = i
    BY <2>2
  <2> QED
    BY <2>1, <2>2, <2>3, <2>4 DEF SignalsMove
<1>3. /\ \A i \in Arriving(n)' : i \in Int /\ i + b \in Arriving(n) /\ Coming(n)'[i] = Coming(n)[i + b]
      /\ \A i \in Arriving(n)' : CRank(n, i)' = CRank(n, i + b)
      /\ \A i \in Arriving(n) : i \in Int /\ i - b \in Arriving(n)' /\ CRank(n, i - b)' = CRank(n, i)
  <2>1. \A i \in Arriving(n)' : i \in Int
    BY DEF ArrivingMove
  <2>2. \A i \in Arriving(n) : i \in Int
    BY ChatTypes DEF Arriving
  <2>3. \A i \in Arriving(n)' : CRank(n, i)' = CRank(n, i + b)
    BY <1>1 DEF CRank, ArrivingMove
  <2>4. \A i \in Arriving(n) : (i - b) + b = i
    BY <2>2
  <2> QED
    BY <2>1, <2>2, <2>3, <2>4 DEF ArrivingMove
<1>4. InTransit(n)'
  <2>1. \A i \in Signalled(n)' : Due(n, signals[i].what, signals[i].nr)'
    BY <1>1, <1>2 DEF Followed, InTransit
  <2>2. \A i \in Arriving(n)' : Due(n, Coming(n)[i].cmd, Coming(n)[i].nr)'
    BY <1>1, <1>3 DEF Followed, InTransit
  <2>3. \A i, j \in Signalled(n)' : i < j => SRank(n, i)' < SRank(n, j)'
    <3>1. \A i, j \in Signalled(n)' : i < j => i + a < j + a
      BY <1>2
    <3> QED
      BY <1>2, <3>1 DEF Followed, InTransit
  <2>4. \A i, j \in Arriving(n)' : i < j => CRank(n, i)' < CRank(n, j)'
    <3>1. \A i, j \in Arriving(n)' : i < j => i + b < j + b
      BY <1>3
    <3> QED
      BY <1>3, <3>1 DEF Followed, InTransit
  <2>5. \A i \in Signalled(n)', j \in Arriving(n)' : SRank(n, i)' < CRank(n, j)'
    BY <1>2, <1>3 DEF Followed, InTransit
  <2> QED
    BY <2>1, <2>2, <2>3, <2>4, <2>5 DEF InTransit
<1>5. NothingLost(n)'
  BY <1>1, <1>2, <1>3 DEF Followed, NothingLost
<1>6. HeardInOrder(n)'
  BY <1>1 DEF Followed, HeardInOrder, SameTexts
<1> QED
  BY <1>4, <1>5, <1>6 DEF Followed

\* The contact writes its next text, or leaves: the new event is the last one.
LEMMA Writes ==
  ASSUME TypeOK, NEW n \in DOMAIN chatList, Followed(n),
         heard'[n] = heard[n], SignalsMove(n, 0), ~board[n].left, board'[n].texts \in Nat,
         NEW last \in Nat, last = Len(Coming(n)) + 1,
         NEW c \in Commands, Coming(n)' = Append(Coming(n), c), c.cmd \in Written,
         Total(n)' = Total(n) + 1,
         c.cmd = "TEXT" => ~board'[n].left /\ c.nr = board'[n].texts,
         c.cmd = "BYE" => board'[n].left
  PROVE  Followed(n)'
<1>1. /\ Total(n) \in Nat /\ Total(n) = board[n].texts
      /\ \A i \in Signalled(n) : SRank(n, i) \in Nat /\ i \in Nat
      /\ \A i \in Arriving(n) : CRank(n, i) \in Nat /\ i \in Nat
  BY RankTypes, ChatTypes DEF Total
<1>2. /\ last \in Nat /\ Coming(n)'[last] = c /\ last \in Arriving(n)'
      /\ \A i \in Arriving(n) : i < last /\ i \in Arriving(n)' /\ Coming(n)'[i] = Coming(n)[i]
      /\ \A i \in Arriving(n)' : i # last => i \in Arriving(n)
  BY ChatTypes, Appended DEF Arriving
<1>3. /\ \A i \in Signalled(n) : signals[i].what # "BYE"
      /\ \A i \in Arriving(n) : Coming(n)[i].cmd # "BYE"
      /\ \A k \in DOMAIN heard[n] : heard[n][k].what # "BYE"
  BY DEF Followed, InTransit, Due, HeardInOrder
<1>4. Signalled(n)' = Signalled(n) /\ \A i \in Signalled(n) : signals'[i] = signals[i]
  <2>1. \A i \in Signalled(n)' : i \in Signalled(n) /\ signals'[i] = signals[i]
    BY DEF SignalsMove
  <2>2. \A i \in Signalled(n) : i \in Signalled(n)'
    BY <1>1 DEF SignalsMove
  <2> QED
    BY <2>1, <2>2
<1>5. /\ \A i \in Signalled(n) : SRank(n, i)' = SRank(n, i)
      /\ \A i \in Arriving(n) : CRank(n, i)' = CRank(n, i)
      /\ \A k \in DOMAIN heard[n] :
           Rank(n, heard[n][k].what, heard[n][k].nr)' = Rank(n, heard[n][k].what, heard[n][k].nr)
  BY <1>2, <1>3, <1>4 DEF SRank, CRank, Rank
<1>6. CRank(n, last)' = Total(n) + 1 /\ Due(n, c.cmd, c.nr)'
  <2>1. Rank(n, c.cmd, c.nr)' = Total(n) + 1
    BY <1>1, ChatTypes DEF Rank, Total, Written
  <2> QED
    BY <1>1, <1>2, <2>1, ChatTypes DEF CRank, Due, Followed, HeardInOrder
<1>7. /\ \A i \in Signalled(n) : SRank(n, i) <= Total(n) /\ SRank(n, i) > Len(heard[n])
      /\ \A i \in Arriving(n) : CRank(n, i) <= Total(n) /\ CRank(n, i) > Len(heard[n])
  BY DEF Followed, InTransit, Due, SRank, CRank
<1>8. InTransit(n)'
  <2>1. ASSUME NEW i \in Signalled(n) PROVE Due(n, signals[i].what, signals[i].nr)'
    <3>1. SRank(n, i) > Len(heard[n]) /\ SRank(n, i) <= Total(n)'
      BY <1>1, <1>7
    <3> QED
      BY <1>3, <1>4, <1>5, <3>1 DEF Due, SRank
  <2>2. ASSUME NEW i \in Arriving(n)' PROVE Due(n, Coming(n)[i].cmd, Coming(n)[i].nr)'
    <3>1. CASE i = last
      BY <1>2, <1>6, <3>1
    <3>2. CASE i # last
      <4>1. i \in Arriving(n) /\ CRank(n, i) > Len(heard[n]) /\ CRank(n, i) <= Total(n)'
        BY <1>1, <1>2, <1>7, <3>2
      <4> QED
        BY <1>2, <1>3, <1>5, <4>1 DEF Due, CRank
    <3> QED
      BY <3>1, <3>2
  <2>3. ASSUME NEW i \in Arriving(n)', NEW j \in Arriving(n)', i < j
        PROVE  CRank(n, i)' < CRank(n, j)'
    <3>1. i # last
      BY <1>1, <1>2, <2>3
    <3>2. CASE j = last
      BY <1>1, <1>2, <1>5, <1>6, <1>7, <3>1, <3>2
    <3>3. CASE j # last
      BY <1>2, <1>5, <2>3, <3>1, <3>3 DEF Followed, InTransit
    <3> QED
      BY <3>2, <3>3
  <2>4. ASSUME NEW i \in Signalled(n), NEW j \in Arriving(n)' PROVE SRank(n, i)' < CRank(n, j)'
    <3>1. CASE j = last
      BY <1>1, <1>5, <1>6, <1>7, <3>1
    <3>2. CASE j # last
      BY <1>2, <1>5, <3>2 DEF Followed, InTransit
    <3> QED
      BY <3>1, <3>2
  <2>5. \A i, j \in Signalled(n) : i < j => SRank(n, i)' < SRank(n, j)'
    BY <1>5 DEF Followed, InTransit
  <2> QED
    BY <1>4, <2>1, <2>2, <2>3, <2>4, <2>5 DEF InTransit
<1>9. NothingLost(n)'
  <2> SUFFICES ASSUME NEW t \in Nat, t > Len(heard[n]), t <= Total(n) + 1
               PROVE  \/ \E i \in Signalled(n)' : SRank(n, i)' = t
                      \/ \E i \in Arriving(n)' : CRank(n, i)' = t
    BY DEF NothingLost
  <2>1. CASE t = Total(n) + 1
    BY <1>2, <1>6, <2>1
  <2>2. CASE t # Total(n) + 1
    <3>1. t <= Total(n)
      BY <1>1, <2>2
    <3>2. \/ \E i \in Signalled(n) : SRank(n, i) = t
          \/ \E i \in Arriving(n) : CRank(n, i) = t
      BY <3>1 DEF Followed, NothingLost
    <3> QED
      BY <1>2, <1>4, <1>5, <3>2
  <2> QED
    BY <2>1, <2>2
<1>10. HeardInOrder(n)'
  <2>1. Len(heard[n]) <= Total(n)'
    BY <1>1, ChatTypes DEF Followed, HeardInOrder
  <2> QED
    BY <1>3, <1>5, <2>1 DEF Followed, HeardInOrder
<1> QED
  BY <1>8, <1>9, <1>10 DEF Followed

\* The first of the events is taken away, the others move one place to the front.
SignalsLeft(n) ==
  /\ \A i \in Signalled(n)' :
       i \in Nat \ {0} /\ i + 1 \in Signalled(n) /\ signals'[i] = signals[i + 1]
  /\ \A i \in Signalled(n) : i # 1 => i - 1 \in Signalled(n)'

ArrivingLeft(n) ==
  /\ \A i \in Arriving(n)' :
       i \in Nat \ {0} /\ i + 1 \in Arriving(n) /\ Coming(n)'[i] = Coming(n)[i + 1]
  /\ \A i \in Arriving(n) : i # 1 => i - 1 \in Arriving(n)'

\* A signal is emitted for the first event: it follows the signals of the chat there were.
LEMMA Emitted ==
  ASSUME TypeOK, NEW n \in DOMAIN chatList, Followed(n), SameTexts(n), heard'[n] = heard[n],
         1 \in Arriving(n), ArrivingLeft(n),
         NEW last \in Nat, last = Len(signals) + 1, Signalled(n)' = Signalled(n) \cup {last},
         \A i \in Signalled(n) : signals'[i] = signals[i],
         signals'[last].what = Coming(n)[1].cmd, signals'[last].nr = Coming(n)[1].nr
  PROVE  Followed(n)'
<1>1. /\ Total(n) \in Nat /\ Len(heard[n]) \in Nat
      /\ \A i \in Signalled(n) : SRank(n, i) \in Nat /\ i \in Nat
      /\ \A i \in Arriving(n) : CRank(n, i) \in Nat /\ i \in Nat /\ (i # 1 => 1 < i)
  BY RankTypes, ChatTypes DEF Arriving
<1>2. /\ Total(n)' = Total(n) /\ \A what, nr : Rank(n, what, nr)' = Rank(n, what, nr)
      /\ \A what, nr : Due(n, what, nr)' = Due(n, what, nr)
  BY DEF SameTexts, Total, Rank, Due
<1>3. /\ \A i \in Signalled(n) : i < last /\ SRank(n, i)' = SRank(n, i)
      /\ SRank(n, last)' = CRank(n, 1)
  <2>1. \A i \in Signalled(n) : i < last
    BY Types DEF Signalled
  <2> QED
    BY <1>2, <2>1 DEF SRank, CRank
<1>4. /\ \A i \in Arriving(n)' : i + 1 \in Arriving(n) /\ i + 1 # 1 /\ CRank(n, i)' = CRank(n, i + 1)
      /\ \A i \in Arriving(n) : i # 1 => i - 1 \in Arriving(n)' /\ CRank(n, i - 1)' = CRank(n, i)
  <2>1. \A i \in Arriving(n)' : i + 1 \in Arriving(n) /\ i + 1 # 1 /\ CRank(n, i)' = CRank(n, i + 1)
    <3>1. \A i \in Arriving(n)' : i + 1 \in Arriving(n) /\ i + 1 # 1
      BY DEF ArrivingLeft
    <3> QED
      BY <1>2, <3>1 DEF CRank, ArrivingLeft
  <2>2. \A i \in Arriving(n) : i # 1 => i - 1 \in Arriving(n)' /\ (i - 1) + 1 = i
    BY <1>1 DEF ArrivingLeft
  <2> QED
    BY <2>1, <2>2
<1>5. InTransit(n)'
  <2>1. ASSUME NEW i \in Signalled(n)' PROVE Due(n, signals[i].what, signals[i].nr)'
    BY <1>2 DEF Followed, InTransit
  <2>2. ASSUME NEW i \in Arriving(n)' PROVE Due(n, Coming(n)[i].cmd, Coming(n)[i].nr)'
    BY <1>2 DEF Followed, InTransit, ArrivingLeft
  <2>3. ASSUME NEW i \in Signalled(n)', NEW j \in Signalled(n)', i < j
        PROVE  SRank(n, i)' < SRank(n, j)'
    BY <1>1, <1>3, <2>3 DEF Followed, InTransit
  <2>4. ASSUME NEW i \in Arriving(n)', NEW j \in Arriving(n)', i < j
        PROVE  CRank(n, i)' < CRank(n, j)'
    <3>1. i + 1 < j + 1
      BY <2>4 DEF ArrivingLeft
    <3> QED
      BY <1>4, <3>1 DEF Followed, InTransit
  <2>5. ASSUME NEW i \in Signalled(n)', NEW j \in Arriving(n)'
        PROVE  SRank(n, i)' < CRank(n, j)'
    <3>1. j + 1 \in Arriving(n) /\ 1 < j + 1 /\ CRank(n, j)' = CRank(n, j + 1)
      BY <1>1, <1>4
    <3> QED
      BY <1>3, <3>1 DEF Followed, InTransit
  <2> QED
    BY <2>1, <2>2, <2>3, <2>4, <2>5 DEF InTransit
<1>6. NothingLost(n)'
  <2> SUFFICES ASSUME NEW t \in Nat, t > Len(heard[n]), t <= Total(n)
               PROVE  \/ \E i \in Signalled(n)' : SRank(n, i)' = t
                      \/ \E i \in Arriving(n)' : CRank(n, i)' = t
    BY <1>2 DEF NothingLost
  <2>1. CASE \E i \in Signalled(n) : SRank(n, i) = t
    BY <1>3, <2>1
  <2>2. CASE \E i \in Arriving(n) : CRank(n, i) = t
    BY <1>3, <1>4, <2>2
  <2> QED
    BY <2>1, <2>2 DEF Followed, NothingLost
<1>7. HeardInOrder(n)'
  BY <1>2 DEF Followed, HeardInOrder, SameTexts
<1> QED
  BY <1>5, <1>6, <1>7 DEF Followed

\* The application hears the first signal of the chat: it is the next event in order.
LEMMA Hears ==
  ASSUME TypeOK, NEW n \in DOMAIN chatList, Followed(n), SameTexts(n),
         1 \in Signalled(n), SignalsLeft(n), ArrivingMove(n, 0),
         heard'[n] = Append(heard[n], [what |-> signals[1].what, nr |-> signals[1].nr])
  PROVE  Followed(n)'
<1>1. /\ Total(n) \in Nat /\ Len(heard[n]) \in Nat /\ DOMAIN heard[n] = 1 .. Len(heard[n])
      /\ \A i \in Signalled(n) : SRank(n, i) \in Nat /\ i \in Nat /\ (i # 1 => 1 < i)
      /\ \A i \in Arriving(n) : CRank(n, i) \in Nat /\ i \in Nat
  BY SMTT(60), RankTypes, ChatTypes, Types DEF Signalled
<1>2. /\ Total(n)' = Total(n) /\ \A what, nr : Rank(n, what, nr)' = Rank(n, what, nr)
  BY DEF SameTexts, Total, Rank
<1>3. SRank(n, 1) = Len(heard[n]) + 1
  <2>1. SRank(n, 1) > Len(heard[n]) /\ SRank(n, 1) <= Total(n)
    BY DEF Followed, InTransit, Due, SRank
  <2>2. \/ \E i \in Signalled(n) : SRank(n, i) = Len(heard[n]) + 1
        \/ \E i \in Arriving(n) : CRank(n, i) = Len(heard[n]) + 1
    BY <1>1, <2>1 DEF Followed, NothingLost
  <2>3. \A i \in Signalled(n) : i # 1 => SRank(n, 1) < SRank(n, i)
    BY <1>1 DEF Followed, InTransit
  <2>4. \A i \in Arriving(n) : SRank(n, 1) < CRank(n, i)
    BY DEF Followed, InTransit
  <2> QED
    BY <1>1, <2>1, <2>2, <2>3, <2>4
<1>4. /\ Len(heard'[n]) = Len(heard[n]) + 1 /\ DOMAIN heard'[n] = 1 .. Len(heard[n]) + 1
      /\ \A k \in 1 .. Len(heard[n]) : heard'[n][k] = heard[n][k]
      /\ heard'[n][Len(heard[n]) + 1].what = signals[1].what
      /\ heard'[n][Len(heard[n]) + 1].nr = signals[1].nr
  <2>1. [what |-> signals[1].what, nr |-> signals[1].nr] \in Hearings
    BY SignalTypes DEF Hearings, Signalled, Written
  <2> QED
    BY <2>1, ChatTypes, Appended
<1>5. /\ \A i \in Signalled(n)' : i + 1 \in Signalled(n) /\ i + 1 # 1 /\ SRank(n, i)' = SRank(n, i + 1)
      /\ \A i \in Signalled(n) : i # 1 => i - 1 \in Signalled(n)' /\ SRank(n, i - 1)' = SRank(n, i)
  <2>1. \A i \in Signalled(n)' : i + 1 \in Signalled(n) /\ signals'[i] = signals[i + 1]
    BY DEF SignalsLeft
  <2>3. \A i \in Signalled(n)' : i + 1 # 1
    BY DEF SignalsLeft
  <2>4. \A i \in Signalled(n)' : SRank(n, i)' = SRank(n, i + 1)
    BY <1>2, <2>1 DEF SRank
  <2>5. \A i \in Signalled(n) : i # 1 => i - 1 \in Signalled(n)' /\ (i - 1) + 1 = i
    BY <1>1 DEF SignalsLeft
  <2> QED
    BY <2>1, <2>3, <2>4, <2>5
<1>6. Arriving(n)' = Arriving(n) /\ \A i \in Arriving(n) : Coming(n)'[i] = Coming(n)[i]
  <2>1. \A i \in Arriving(n)' : i \in Arriving(n) /\ Coming(n)'[i] = Coming(n)[i]
    BY DEF ArrivingMove
  <2>2. \A i \in Arriving(n) : i \in Arriving(n)'
    BY <1>1 DEF ArrivingMove
  <2> QED
    BY <2>1, <2>2
<1>7. \A i \in Arriving(n) : CRank(n, i)' = CRank(n, i)
  BY <1>2, <1>6 DEF CRank
<1>8. InTransit(n)'
  <2>1. ASSUME NEW i \in Signalled(n)' PROVE Due(n, signals[i].what, signals[i].nr)'
    <3>1. SRank(n, i)' > Len(heard[n]) + 1 /\ SRank(n, i)' <= Total(n)
      <4>1. SRank(n, 1) < SRank(n, i + 1)
        BY <1>1, <1>5 DEF Followed, InTransit
      <4>2. SRank(n, i + 1) <= Total(n)
        BY <1>5 DEF Followed, InTransit, Due, SRank
      <4> QED
        BY <1>1, <1>3, <1>5, <4>1, <4>2
    <3>2. signals'[i].what = "BYE" => board[n].left
      BY <1>5 DEF Followed, InTransit, Due, SignalsLeft
    <3> QED
      BY <1>2, <1>4, <3>1, <3>2 DEF Due, SRank, SameTexts
  <2>2. ASSUME NEW i \in Arriving(n) PROVE Due(n, Coming(n)[i].cmd, Coming(n)[i].nr)'
    <3>1. CRank(n, i) > Len(heard[n]) + 1 /\ CRank(n, i) <= Total(n)
      <4>1. SRank(n, 1) < CRank(n, i) /\ CRank(n, i) <= Total(n)
        BY DEF Followed, InTransit, Due, CRank
      <4> QED
        BY <1>1, <1>3, <4>1
    <3>2. Coming(n)'[i].cmd = "BYE" => board[n].left
      BY <1>6 DEF Followed, InTransit, Due
    <3> QED
      BY <1>2, <1>4, <1>7, <3>1, <3>2 DEF Due, CRank, SameTexts
  <2>3. ASSUME NEW i \in Signalled(n)', NEW j \in Signalled(n)', i < j
        PROVE  SRank(n, i)' < SRank(n, j)'
    <3>1. i + 1 < j + 1
      BY <2>3 DEF SignalsLeft
    <3> QED
      BY <1>5, <3>1 DEF Followed, InTransit
  <2>4. \A i, j \in Arriving(n) : i < j => CRank(n, i)' < CRank(n, j)'
    BY <1>7 DEF Followed, InTransit
  <2>5. ASSUME NEW i \in Signalled(n)', NEW j \in Arriving(n)
        PROVE  SRank(n, i)' < CRank(n, j)'
    BY <1>5, <1>7 DEF Followed, InTransit
  <2> QED
    BY <1>6, <2>1, <2>2, <2>3, <2>4, <2>5 DEF InTransit
<1>9. NothingLost(n)'
  <2> SUFFICES ASSUME NEW t \in Nat, t > Len(heard[n]) + 1, t <= Total(n)
               PROVE  \/ \E i \in Signalled(n)' : SRank(n, i)' = t
                      \/ \E i \in Arriving(n)' : CRank(n, i)' = t
    BY <1>2, <1>4 DEF NothingLost
  <2>1. \/ \E i \in Signalled(n) : SRank(n, i) = t
        \/ \E i \in Arriving(n) : CRank(n, i) = t
    BY <1>1 DEF Followed, NothingLost
  <2>2. CASE \E i \in Signalled(n) : SRank(n, i) = t
    <3>1. PICK i \in Signalled(n) : SRank(n, i) = t
      BY <2>2
    <3>2. i # 1
      BY <1>1, <1>3, <3>1
    <3> QED
      BY <1>5, <3>1, <3>2
  <2>3. CASE \E i \in Arriving(n) : CRank(n, i) = t
    BY <1>6, <1>7, <2>3
  <2> QED
    BY <2>1, <2>2, <2>3
<1>10. HeardInOrder(n)'
  <2>1. Len(heard'[n]) <= Total(n)'
    <3>1. SRank(n, 1) <= Total(n)
      BY DEF Followed, InTransit, Due, SRank
    <3> QED
      BY <1>2, <1>3, <1>4, <3>1
  <2>2. ASSUME NEW k \in DOMAIN heard'[n]
        PROVE  /\ Rank(n, heard[n][k].what, heard[n][k].nr)' = k
               /\ heard'[n][k].what = "BYE" => board'[n].left
    <3>1. CASE k = Len(heard[n]) + 1
      <4>1. Rank(n, signals[1].what, signals[1].nr) = k /\ (signals[1].what = "BYE" => board[n].left)
        BY <1>3, <3>1 DEF SRank, Followed, InTransit, Due
      <4> QED
        BY <1>2, <1>4, <3>1, <4>1 DEF SameTexts
    <3>2. CASE k # Len(heard[n]) + 1
      <4>1. k \in DOMAIN heard[n] /\ heard'[n][k] = heard[n][k]
        BY <1>1, <1>4, <3>2
      <4> QED
        BY <1>2, <4>1 DEF Followed, HeardInOrder, SameTexts
    <3> QED
      BY <3>1, <3>2
  <2> QED
    BY <2>1, <2>2 DEF HeardInOrder
<1> QED
  BY <1>8, <1>9, <1>10 DEF Followed

-----------------------------------------------------------------------------
(* What a step of one chat leaves to show *)

ChatStep(n, c, b) ==
  /\ c \in ParserSB /\ b \in Switchboard /\ c.isMine = chatList[n].isMine
  /\ chatList' = [chatList EXCEPT ![n] = c] /\ board' = [board EXCEPT ![n] = b]

LEMMA StepView ==
  ASSUME TypeOK, NEW n \in DOMAIN chatList, NEW c, NEW b, ChatStep(n, c, b)
  PROVE  /\ chatList' \in Seq(ParserSB) /\ board' \in Seq(Switchboard)
         /\ DOMAIN chatList' = DOMAIN chatList /\ DOMAIN board' = DOMAIN chatList
         /\ chatList'[n] = c /\ board'[n] = b /\ Coming(n)' = c.buf \o b.wire
         /\ \A m \in DOMAIN chatList : m # n =>
              chatList'[m] = chatList[m] /\ board'[m] = board[m] /\ Coming(m)' = Coming(m)
         /\ \A m \in DOMAIN chatList : chatList'[m].isMine = chatList[m].isMine
<1>1. /\ chatList \in Seq(ParserSB) /\ board \in Seq(Switchboard) /\ DOMAIN board = DOMAIN chatList
  BY Types
<1>2. /\ c \in ParserSB /\ b \in Switchboard /\ c.isMine = chatList[n].isMine
      /\ chatList' = [chatList EXCEPT ![n] = c] /\ board' = [board EXCEPT ![n] = b]
  BY DEF ChatStep
<1>3. /\ chatList' \in Seq(ParserSB) /\ DOMAIN chatList' = DOMAIN chatList /\ chatList'[n] = c
      /\ \A m \in DOMAIN chatList : m # n => chatList'[m] = chatList[m]
  BY <1>1, <1>2, Updated
<1>4. /\ board' \in Seq(Switchboard) /\ DOMAIN board' = DOMAIN chatList /\ board'[n] = b
      /\ \A m \in DOMAIN chatList : m # n => board'[m] = board[m]
  BY <1>1, <1>2, Updated
<1> QED
  BY <1>2, <1>3, <1>4 DEF Coming

LEMMA StepTypes ==
  ASSUME TypeOK, NEW n \in DOMAIN chatList, NEW c, NEW b, ChatStep(n, c, b),
         c.socket <=> c.thread = "running", c.taken # Nobody \/ c.called # Nobody => c.isMine,
         signals' \in Seq(Signal(DOMAIN chatList)),
         heard' \in Seq(Seq(Hearings)), DOMAIN heard' = DOMAIN heard,
         UNCHANGED server, UNCHANGED <<invited, orderly>>,
         destPassport' \in Seq(Contacts), crashed' \in {"no", "passport", "socket"}
  PROVE  TypeOK'
<1>1. /\ chatList' \in Seq(ParserSB) /\ board' \in Seq(Switchboard)
      /\ DOMAIN chatList' = DOMAIN chatList /\ DOMAIN board' = DOMAIN chatList
      /\ chatList'[n] = c /\ \A m \in DOMAIN chatList : m # n => chatList'[m] = chatList[m]
  BY StepView
<1>2. \A m \in DOMAIN chatList' :
        /\ chatList'[m].socket <=> chatList'[m].thread = "running"
        /\ chatList'[m].taken # Nobody \/ chatList'[m].called # Nobody => chatList'[m].isMine
  BY <1>1 DEF TypeOK
<1>3. /\ requests' \in Seq({"asked", "rung"}) /\ asked' \in 0 .. MaxChats /\ rings' \in 0 .. MaxChats
      /\ invited' \in Seq(Contacts) /\ orderly' \in BOOLEAN
  BY DEF TypeOK, server
<1> QED
  BY <1>1, <1>2, <1>3 DEF TypeOK, Signal, Hearings

LEMMA StepLocal ==
  ASSUME TypeOK, LocalInv, NEW n \in DOMAIN chatList, NEW c, NEW b, ChatStep(n, c, b), Local(c, b)
  PROVE  LocalInv'
<1>1. ASSUME NEW m \in DOMAIN chatList PROVE Local(chatList'[m], board'[m])
  <2>1. CASE m = n
    BY <2>1, StepView
  <2>2. CASE m # n
    BY <2>2, StepView DEF LocalInv
  <2> QED
    BY <2>1, <2>2
<1> QED
  BY <1>1, StepView DEF LocalInv

\* At most signals of chat n are appended.
SignalsOf(n) ==
  /\ \A i \in DOMAIN signals : i \in DOMAIN signals' /\ signals'[i] = signals[i]
  /\ \A i \in DOMAIN signals' : i \in DOMAIN signals \/ signals'[i].chat = n

\* What becomes of the commands a chat has still to parse.
LEMMA ComingSame ==
  ASSUME TypeOK, NEW n \in DOMAIN chatList, Coming(n)' = Coming(n)
  PROVE  ArrivingMove(n, 0)
<1>1. Arriving(n)' = Arriving(n) /\ \A i \in Arriving(n) : i \in Nat
  BY ChatTypes DEF Arriving
<1> QED
  BY <1>1 DEF ArrivingMove

LEMMA ComingAppended ==
  ASSUME TypeOK, NEW n \in DOMAIN chatList, NEW e \in Commands, e.cmd \notin Written,
         Coming(n)' = Append(Coming(n), e)
  PROVE  ArrivingMove(n, 0)
<1>1. /\ Len(Coming(n)) \in Nat /\ DOMAIN Coming(n) = 1 .. Len(Coming(n))
      /\ DOMAIN Coming(n)' = 1 .. Len(Coming(n)) + 1
      /\ \A i \in 1 .. Len(Coming(n)) : Coming(n)'[i] = Coming(n)[i]
      /\ Coming(n)'[Len(Coming(n)) + 1] = e
  BY ChatTypes, Appended
<1>2. /\ Arriving(n)' = Arriving(n)
      /\ \A i \in Arriving(n) : i \in Nat /\ Coming(n)'[i] = Coming(n)[i]
  BY <1>1 DEF Arriving
<1>3. \A i \in Arriving(n) : i + 0 = i /\ i - 0 = i
  BY <1>2
<1> QED
  BY <1>2, <1>3 DEF ArrivingMove

LEMMA ComingTaken ==
  ASSUME TypeOK, NEW n \in DOMAIN chatList, Coming(n) # <<>>, Coming(n)' = Tail(Coming(n))
  PROVE  /\ ArrivingLeft(n)
         /\ Coming(n)[1].cmd \notin Written => ArrivingMove(n, 1)
<1>1. /\ Len(Coming(n)) \in Nat /\ DOMAIN Coming(n) = 1 .. Len(Coming(n))
      /\ DOMAIN Coming(n)' = 1 .. Len(Coming(n)) - 1
      /\ \A i \in 1 .. Len(Coming(n)) - 1 : Coming(n)'[i] = Coming(n)[i + 1]
  BY ChatTypes, Taken
<1>2. \A i \in Arriving(n)' :
        i \in Nat \ {0} /\ i + 1 \in Arriving(n) /\ Coming(n)'[i] = Coming(n)[i + 1]
  BY <1>1 DEF Arriving
<1>3. ASSUME NEW i \in Arriving(n), i # 1 PROVE i - 1 \in Arriving(n)'
  <2>1. i - 1 \in 1 .. Len(Coming(n)) - 1 /\ (i - 1) + 1 = i
    BY <1>1, <1>3 DEF Arriving
  <2> QED
    BY <1>1, <2>1 DEF Arriving
<1>4. Coming(n)[1].cmd \notin Written => 1 \notin Arriving(n)
  BY DEF Arriving
<1> QED
  BY <1>2, <1>3, <1>4 DEF ArrivingLeft, ArrivingMove

LEMMA SignalsSame ==
  ASSUME TypeOK, NEW n, signals' = signals
  PROVE  SignalsMove(n, 0) /\ SignalsOf(n)
<1>1. Signalled(n)' = Signalled(n) /\ \A i \in Signalled(n) : i \in Nat
  BY Types DEF Signalled
<1> QED
  BY <1>1 DEF SignalsMove, SignalsOf

\* The texts of the other chats, when at most signals of chat n are appended.
LEMMA StepTexts ==
  ASSUME TypeOK, TextsInv, NEW n \in DOMAIN chatList, NEW c, NEW b, ChatStep(n, c, b),
         Followed(n)', heard' = heard, SignalsOf(n)
  PROVE  TextsInv'
<1> SUFFICES ASSUME NEW m \in DOMAIN chatList, m # n PROVE Followed(m)'
  BY StepView DEF TextsInv
<1>1. SameTexts(m) /\ Followed(m) /\ heard'[m] = heard[m]
  BY StepView DEF SameTexts, TextsInv
<1>2. SignalsMove(m, 0)
  <2>1. \A i \in Signalled(m)' : i \in Nat /\ i + 0 \in Signalled(m) /\ signals'[i] = signals[i + 0]
    BY SMTT(60), Types DEF SignalsOf, Signalled
  <2>2. \A i \in Signalled(m) : i - 0 \in Signalled(m)'
    BY Types DEF SignalsOf, Signalled
  <2> QED
    BY <2>1, <2>2 DEF SignalsMove
<1>3. ArrivingMove(m, 0)
  <2>1. Coming(m)' = Coming(m)
    BY StepView
  <2> QED
    BY <2>1, ComingSame
<1> QED
  BY <1>1, <1>2, <1>3, Carried

\* Steps that neither take a passport nor call.
LEMMA StepPassports ==
  ASSUME TypeOK, PassportInv, NEW n \in DOMAIN chatList, NEW c, NEW b, ChatStep(n, c, b),
         c.called = chatList[n].called, c.taken = chatList[n].taken,
         UNCHANGED server, UNCHANGED client, crashed' # "passport"
  PROVE  PassportInv'
<1>1. /\ DOMAIN chatList' = DOMAIN chatList
      /\ \A m \in DOMAIN chatList :
           /\ chatList'[m].isMine = chatList[m].isMine
           /\ chatList'[m].called = chatList[m].called /\ chatList'[m].taken = chatList[m].taken
  BY ZenonT(60), StepView
<1>2. MineSet' = MineSet /\ Called' = Called
  BY <1>1 DEF MineSet, Called
<1>3. \A m \in DOMAIN chatList : MineUpTo(m)' = MineUpTo(m)
  BY SMTT(60), <1>1, Types DEF MineUpTo
<1>4. Counts'
  BY <1>2 DEF PassportInv, Counts, server, client
<1>5. OneAtATime'
  BY <1>1, <1>3 DEF PassportInv, OneAtATime, client
<1> QED
  BY <1>4, <1>5 DEF PassportInv, PassportsSuffice

\* All that is left to show of a step of one chat that takes no passport.
LEMMA StepKeeps ==
  ASSUME IInv, NEW n \in DOMAIN chatList, NEW c, NEW b, ChatStep(n, c, b), Local(c, b),
         c.called = chatList[n].called, c.taken = chatList[n].taken,
         c.socket <=> c.thread = "running",
         Followed(n)', heard' = heard, SignalsOf(n), signals' \in Seq(Signal(DOMAIN chatList)),
         UNCHANGED server, UNCHANGED client, crashed' = crashed
  PROVE  IInv'
<1>1. c.taken # Nobody \/ c.called # Nobody => c.isMine
  BY DEF IInv, TypeOK, ChatStep
<1>2. TypeOK'
  BY <1>1, Types, StepTypes DEF IInv, TypeOK, client
<1>3. LocalInv'
  BY StepLocal DEF IInv
<1>4. TextsInv'
  BY StepTexts DEF IInv
<1>5. PassportInv'
  BY StepPassports DEF IInv, PassportInv, PassportsSuffice
<1> QED
  BY <1>2, <1>3, <1>4, <1>5 DEF IInv

\* The same, of a step that writes no text and emits no signal.
LEMMA QuietStep ==
  ASSUME IInv, NEW n \in DOMAIN chatList, NEW c, NEW b, ChatStep(n, c, b), Local(c, b),
         c.called = chatList[n].called, c.taken = chatList[n].taken,
         c.socket <=> c.thread = "running",
         b.texts = board[n].texts, b.left = board[n].left, NEW k \in Nat, ArrivingMove(n, k),
         UNCHANGED <<server, client, signals, heard, crashed>>
  PROVE  IInv'
<1>1. TypeOK /\ Followed(n)
  BY DEF IInv, TextsInv
<1>2. SameTexts(n)
  <2>1. board'[n] = b
    BY <1>1, StepView
  <2> QED
    BY <2>1 DEF SameTexts
<1>3. SignalsMove(n, 0) /\ SignalsOf(n)
  BY <1>1, SignalsSame
<1>4. Followed(n)'
  BY <1>1, <1>2, <1>3, Carried
<1> QED
  BY <1>1, <1>3, <1>4, Types, StepKeeps

-----------------------------------------------------------------------------
(* A chat's thread *)

\* The fields that a chat, its switchboard and its commands are seen through.
LEMMA ChatFields ==
  ASSUME IInv, NEW n \in DOMAIN chatList
  PROVE  /\ TypeOK /\ chatList[n] \in ParserSB /\ board[n] \in Switchboard
         /\ Local(chatList[n], board[n]) /\ Followed(n)
         /\ chatList[n].socket <=> chatList[n].thread = "running"
         /\ board \in Seq(Switchboard) /\ DOMAIN board = DOMAIN chatList
         /\ chatList \in Seq(ParserSB)
         /\ [board EXCEPT ![n] = board[n]] = board
         /\ [chatList EXCEPT ![n] = chatList[n]] = chatList
<1>1. TypeOK /\ Local(chatList[n], board[n]) /\ Followed(n)
  BY DEF IInv, LocalInv, TextsInv
<1>2. /\ board \in Seq(Switchboard) /\ chatList \in Seq(ParserSB) /\ DOMAIN board = DOMAIN chatList
  BY <1>1, Types
<1>3. [board EXCEPT ![n] = board[n]] = board /\ [chatList EXCEPT ![n] = chatList[n]] = chatList
  BY <1>2, LenProperties
<1> QED
  BY <1>1, <1>2, <1>3, ChatTypes DEF TypeOK

\* With nothing to come, the stages decide.
LEMMA NothingAhead ==
  ASSUME NEW c, NEW b, Stages(c, b), c.buf \o b.wire = <<>>
  PROVE  Local(c, b)
<1>1. DOMAIN <<>> = {}
  OBVIOUS
<1> QED
  BY <1>1 DEF Local, Ahead

\* A step of the chat that leaves what is to come.
LEMMA LeavesComing ==
  ASSUME IInv, NEW n \in DOMAIN chatList, NEW c, NEW b, ChatStep(n, c, b),
         c.buf \o b.wire = chatList[n].buf \o board[n].wire
  PROVE  ArrivingMove(n, 0)
<1>1. TypeOK
  BY DEF IInv
<1>2. Coming(n)' = c.buf \o b.wire
  BY ZenonT(60), <1>1, StepView
<1> QED
  BY <1>1, <1>2, ComingSame DEF Coming

LEMMA RunStartsKeeps ==
  ASSUME IInv, NEW n \in DOMAIN chatList, RunStarts(n)
  PROVE  IInv'
<1>1. /\ chatList[n].thread = "started" /\ board[n].stage = "idle"
      /\ chatList[n].buf \o board[n].wire = <<>> /\ chatList[n].taken = Nobody
      /\ chatList[n].called = Nobody /\ ~board[n].left /\ board[n].texts = 0
  BY ChatFields DEF RunStarts, Local, Stages, Ahead, Early
<1>2. PICK c, b :
        /\ chatList' = [chatList EXCEPT ![n] = c] /\ board' = [board EXCEPT ![n] = b]
        /\ \/ /\ c = [chatList[n] EXCEPT !.thread = "running", !.socket = TRUE]
              /\ b = [board[n] EXCEPT !.stage = "greeted"]
           \/ c = [chatList[n] EXCEPT !.thread = "ended"] /\ b = board[n]
  BY ChatFields DEF RunStarts
<1>3. /\ c \in ParserSB /\ b \in Switchboard
      /\ c.isMine = chatList[n].isMine /\ c.buf = chatList[n].buf /\ b.wire = board[n].wire
      /\ c.called = chatList[n].called /\ c.taken = chatList[n].taken
      /\ b.texts = board[n].texts /\ b.left = board[n].left
      /\ c.socket <=> c.thread = "running"
      /\ c.thread # "started" /\ b.stage \in {"idle", "greeted"}
  BY ZenonT(60), <1>1, <1>2, ChatFields DEF ParserSB, Switchboard
<1>4. ChatStep(n, c, b)
  BY <1>2, <1>3 DEF ChatStep
<1>5. Local(c, b)
  <2>1. Stages(c, b)
    BY <1>1, <1>3 DEF Stages, Early
  <2>2. c.buf \o b.wire = <<>>
    BY <1>1, <1>3
  <2> QED
    BY <2>1, <2>2, NothingAhead
<1>6. ArrivingMove(n, 0)
  BY <1>3, <1>4, LeavesComing
<1> QED
  BY <1>3, <1>4, <1>5, <1>6, QuietStep DEF RunStarts

\* The command at the front of m_buf, and those that follow it.
LEMMA RestView ==
  ASSUME IInv, NEW n \in DOMAIN chatList, chatList[n].buf # <<>>
  PROVE  /\ Tail(chatList[n].buf) \in Seq(Commands) /\ Head(chatList[n].buf) \in Commands
         /\ Coming(n) # <<>> /\ Coming(n)[1] = Head(chatList[n].buf) /\ 1 \in DOMAIN Coming(n)
         /\ Tail(chatList[n].buf) \o board[n].wire = Tail(Coming(n))
         /\ \A i \in DOMAIN Tail(Coming(n)) :
              /\ i + 1 \in DOMAIN Coming(n) /\ Tail(Coming(n))[i] = Coming(n)[i + 1]
              /\ Len(Coming(n)) # 1
<1>1. TypeOK /\ chatList[n].buf \in Seq(Commands) /\ board[n].wire \in Seq(Commands)
      /\ Coming(n) \in Seq(Commands)
  BY ChatTypes DEF IInv
<1>2. /\ Coming(n) # <<>> /\ Head(Coming(n)) = Head(chatList[n].buf)
      /\ Tail(chatList[n].buf) \o board[n].wire = Tail(Coming(n))
  BY <1>1, JoinedTail DEF Coming
<1>3. Tail(chatList[n].buf) \in Seq(Commands) /\ Head(chatList[n].buf) \in Commands
  BY <1>1, Taken
<1>4. /\ Len(Coming(n)) \in Nat /\ Len(Coming(n)) >= 1 /\ DOMAIN Coming(n) = 1 .. Len(Coming(n))
      /\ Head(Coming(n)) = Coming(n)[1]
      /\ DOMAIN Tail(Coming(n)) = 1 .. Len(Coming(n)) - 1
      /\ \A i \in 1 .. Len(Coming(n)) - 1 : Tail(Coming(n))[i] = Coming(n)[i + 1]
  BY <1>1, <1>2, Taken
<1>5. ASSUME NEW i \in DOMAIN Tail(Coming(n))
      PROVE  /\ i + 1 \in DOMAIN Coming(n) /\ Tail(Coming(n))[i] = Coming(n)[i + 1]
             /\ Len(Coming(n)) # 1
  BY <1>4
<1>6. Coming(n)[1] = Head(chatList[n].buf)
  BY <1>2, <1>4
<1>7. 1 \in DOMAIN Coming(n)
  BY <1>4
<1> QED
  BY <1>2, <1>3, <1>5, <1>6, <1>7

\* What follows it is as what was to come.
LEMMA RestLocal ==
  ASSUME IInv, NEW n \in DOMAIN chatList, chatList[n].buf # <<>>,
         NEW c, NEW b, c.buf \o b.wire = Tail(Coming(n)), Stages(c, b),
         b.stage = board[n].stage, b.texts = board[n].texts, b.left = board[n].left
  PROVE  Local(c, b) /\ b.stage \notin {"idle", "greeted"}
<1>1. Ahead(Coming(n), chatList[n], board[n])
  BY ChatFields DEF Local, Coming
<1>2. b.stage \notin {"idle", "greeted"}
  BY <1>1, RestView DEF Ahead
<1>3. ASSUME NEW i \in DOMAIN Tail(Coming(n))
      PROVE  /\ Tail(Coming(n))[i].cmd # "USR"
             /\ Tail(Coming(n))[i].cmd = "215" =>
                  b.stage \in {"left", "closed"} /\ b.texts = 0 /\ ~b.left
  <2>1. /\ i + 1 \in DOMAIN Coming(n) /\ Tail(Coming(n))[i] = Coming(n)[i + 1]
        /\ Len(Coming(n)) # 1
    BY RestView
  <2> QED
    BY <1>1, <2>1 DEF Ahead
<1> QED
  BY <1>2, <1>3 DEF Local, Ahead

LEMMA parseSilentlyKeeps ==
  ASSUME IInv, NEW n \in DOMAIN chatList, parseSilently(n)
  PROVE  IInv'
<1>1. /\ chatList[n].buf # <<>> /\ Head(chatList[n].buf).cmd \in {"ANS", "JOI", "ACK", "217"}
      /\ chatList[n].taken = Nobody
  BY DEF parseSilently, Parses
<1>2. PICK c, b : c = [chatList[n] EXCEPT !.buf = Tail(@)] /\ b = board[n]
  OBVIOUS
<1>3. /\ c \in ParserSB /\ c.isMine = chatList[n].isMine /\ c.buf = Tail(chatList[n].buf)
      /\ c.called = chatList[n].called /\ c.taken = chatList[n].taken
      /\ c.thread = chatList[n].thread /\ c.socket = chatList[n].socket
  <2>1. chatList[n] \in ParserSB /\ Tail(chatList[n].buf) \in Seq(Commands)
    BY <1>1, RestView, ChatFields
  <2> QED
    BY <1>2, <2>1 DEF ParserSB
<1>4. ChatStep(n, c, b)
  BY <1>2, <1>3, ChatFields DEF ChatStep, parseSilently, Rest
<1>5. c.buf \o b.wire = Tail(Coming(n))
  BY <1>1, <1>2, <1>3, RestView
<1>6. Local(c, b)
  <2>1. Stages(chatList[n], board[n])
    BY ChatFields DEF Local
  <2>2. Stages(c, b)
    BY <1>2, <1>3, <2>1 DEF Stages
  <2> QED
    BY <1>1, <1>2, <1>5, <2>2, RestLocal
<1>7. ArrivingMove(n, 1)
  <2>1. TypeOK
    BY DEF IInv
  <2>2. Coming(n)' = Tail(Coming(n))
    BY <1>4, <1>5, <2>1, StepView
  <2>3. Coming(n)[1].cmd \notin Written /\ Coming(n) # <<>>
    BY <1>1, RestView DEF Written
  <2> QED
    BY <2>1, <2>2, <2>3, ComingTaken
<1>8. UNCHANGED <<server, client, signals, heard, crashed>>
  BY DEF parseSilently, Parses
<1>9. c.socket <=> c.thread = "running"
  BY <1>3, ChatFields
<1> QED
  BY <1>2, <1>3, <1>4, <1>6, <1>7, <1>8, <1>9, QuietStep

\* The thread reads when m_buf is empty: what is to come is the same.
LEMMA RecvKeeps ==
  ASSUME IInv, NEW n \in DOMAIN chatList, Recv(n)
  PROVE  IInv'
<1>1. chatList[n].buf = <<>>
  BY DEF Recv
<1>2. PICK k \in 1 .. Len(board[n].wire) :
        /\ chatList' = [chatList EXCEPT ![n].buf = SubSeq(board[n].wire, 1, k)]
        /\ board' = [board EXCEPT ![n].wire = SubSeq(@, k + 1, Len(@))]
  BY DEF Recv
<1>3. PICK c, b : /\ c = [chatList[n] EXCEPT !.buf = SubSeq(board[n].wire, 1, k)]
                  /\ b = [board[n] EXCEPT !.wire = SubSeq(@, k + 1, Len(@))]
  OBVIOUS
<1>4. /\ board[n].wire \in Seq(Commands) /\ Len(board[n].wire) \in Nat
      /\ SubSeq(board[n].wire, 1, k) \in Seq(Commands)
      /\ SubSeq(board[n].wire, k + 1, Len(board[n].wire)) \in Seq(Commands)
  <2>1. board[n].wire \in Seq(Commands)
    BY ChatTypes, ChatFields
  <2> QED
    BY <2>1, LenProperties, SubSeqProperties
<1>5. SubSeq(board[n].wire, 1, k) \o SubSeq(board[n].wire, k + 1, Len(board[n].wire))
        = chatList[n].buf \o board[n].wire
  <2>1. SubSeq(board[n].wire, 1, k) \o SubSeq(board[n].wire, k + 1, Len(board[n].wire))
          = SubSeq(board[n].wire, 1, Len(board[n].wire))
    BY <1>4, ConcatAdjacentSubSeq
  <2>2. SubSeq(board[n].wire, 1, Len(board[n].wire)) = board[n].wire
    BY <1>4, SubSeqFull
  <2>3. <<>> \o board[n].wire = board[n].wire
    BY <1>4, ConcatEmptySeq
  <2> QED
    BY <1>1, <2>1, <2>2, <2>3
<1>6. /\ c \in ParserSB /\ b \in Switchboard
      /\ c.isMine = chatList[n].isMine /\ c.buf = SubSeq(board[n].wire, 1, k)
      /\ b.wire = SubSeq(board[n].wire, k + 1, Len(board[n].wire))
      /\ c.called = chatList[n].called /\ c.taken = chatList[n].taken
      /\ c.thread = chatList[n].thread /\ c.socket = chatList[n].socket
      /\ b.stage = board[n].stage /\ b.texts = board[n].texts /\ b.left = board[n].left
  BY ZenonT(60), <1>3, <1>4, ChatFields DEF ParserSB, Switchboard
<1>7. ChatStep(n, c, b)
  BY <1>2, <1>3, <1>6 DEF ChatStep
<1>8. c.buf \o b.wire = chatList[n].buf \o board[n].wire
  BY <1>5, <1>6
<1>9. Local(c, b)
  <2>1. /\ Stages(chatList[n], board[n])
        /\ Ahead(chatList[n].buf \o board[n].wire, chatList[n], board[n])
    BY ChatFields DEF Local
  <2>2. Stages(c, b)
    BY <1>6, <2>1 DEF Stages
  <2>3. Ahead(chatList[n].buf \o board[n].wire, c, b)
    BY <1>6, <2>1 DEF Ahead
  <2> QED
    BY <1>8, <2>2, <2>3 DEF Local
<1>10. ArrivingMove(n, 0)
  BY <1>7, <1>8, LeavesComing
<1>11. UNCHANGED <<server, client, signals, heard, crashed>>
  BY DEF Recv
<1>12. c.socket <=> c.thread = "running"
  BY <1>6, ChatFields
<1> QED
  BY <1>6, <1>7, <1>9, <1>10, <1>11, <1>12, QuietStep

LEMMA RunEndsKeeps ==
  ASSUME IInv, NEW n \in DOMAIN chatList, RunEnds(n)
  PROVE  IInv'
<1>1. PICK c, b : c = [chatList[n] EXCEPT !.thread = "ended", !.socket = FALSE] /\ b = board[n]
  OBVIOUS
<1>2. /\ c \in ParserSB /\ c.isMine = chatList[n].isMine /\ c.buf = chatList[n].buf
      /\ c.called = chatList[n].called /\ c.taken = chatList[n].taken
      /\ c.thread = "ended" /\ c.socket = FALSE
  <2>1. chatList[n] \in ParserSB
    BY ChatFields
  <2> QED
    BY <1>1, <2>1 DEF ParserSB
<1>3. ChatStep(n, c, b)
  BY <1>1, <1>2, ChatFields DEF ChatStep, RunEnds
<1>4. Local(c, b)
  <2>1. /\ Stages(chatList[n], board[n])
        /\ Ahead(chatList[n].buf \o board[n].wire, chatList[n], board[n])
    BY ChatFields DEF Local
  <2>2. Stages(c, b)
    BY <1>1, <1>2, <2>1 DEF Stages
  <2>3. Ahead(chatList[n].buf \o board[n].wire, c, b)
    BY <1>1, <1>2, <2>1 DEF Ahead
  <2> QED
    BY <1>1, <1>2, <2>2, <2>3 DEF Local
<1>5. ArrivingMove(n, 0)
  BY <1>1, <1>2, <1>3, LeavesComing
<1>6. UNCHANGED <<server, client, signals, heard, crashed>>
  BY DEF RunEnds
<1> QED
  BY <1>1, <1>2, <1>3, <1>4, <1>5, <1>6, QuietStep

\* The socket is closed: of what was to come only the rest of m_buf is left.
LEMMA CloseView ==
  ASSUME IInv, NEW n \in DOMAIN chatList, chatList[n].buf # <<>>
  PROVE  /\ Tail(chatList[n].buf) \o <<>> = Tail(chatList[n].buf)
         /\ \A i \in DOMAIN Tail(chatList[n].buf) :
              /\ i \in Nat \ {0} /\ i + 1 \in DOMAIN Coming(n)
              /\ Tail(chatList[n].buf)[i] = Coming(n)[i + 1] /\ Len(Coming(n)) # 1
<1>1. PICK p, w : p = chatList[n].buf /\ w = board[n].wire
  OBVIOUS
<1>2. p \in Seq(Commands) /\ w \in Seq(Commands) /\ p # <<>> /\ Coming(n) = p \o w
  BY <1>1, ChatTypes DEF IInv, Coming
<1>3. /\ Tail(p) \o <<>> = Tail(p)
      /\ \A i \in DOMAIN Tail(p) :
           /\ i \in Nat \ {0} /\ i + 1 \in DOMAIN (p \o w) /\ Tail(p)[i] = (p \o w)[i + 1]
           /\ Len(p \o w) # 1
  BY <1>2, JoinedRest
<1> QED
  BY <1>1, <1>2, <1>3

\* The chat when a handler has ended it.
Ends(n) == chatList' = [Rest(n) EXCEPT ![n].endChat = TRUE] /\ Close(n)

LEMMA EndsView ==
  ASSUME IInv, NEW n \in DOMAIN chatList, chatList[n].buf # <<>>, chatList[n].taken = Nobody, Ends(n)
  PROVE  \E c, b :
           /\ ChatStep(n, c, b) /\ Local(c, b) /\ (c.socket <=> c.thread = "running")
           /\ c.called = chatList[n].called /\ c.taken = chatList[n].taken
           /\ b.texts = board[n].texts /\ b.left = board[n].left
           /\ Coming(n)' = Tail(chatList[n].buf)
<1>0. PICK c, b : /\ c = [chatList[n] EXCEPT !.buf = Tail(@), !.endChat = TRUE]
                /\ b = [board[n] EXCEPT !.stage = "closed", !.wire = <<>>]
  OBVIOUS
<1>1. chatList[n] \in ParserSB /\ Tail(chatList[n].buf) \in Seq(Commands) /\ board[n] \in Switchboard
  BY RestView, ChatFields
<1>2. /\ c \in ParserSB /\ c.isMine = chatList[n].isMine /\ c.buf = Tail(chatList[n].buf)
      /\ c.called = chatList[n].called /\ c.taken = chatList[n].taken
      /\ c.thread = chatList[n].thread /\ c.socket = chatList[n].socket
  BY <1>0, <1>1 DEF ParserSB
<1>3. /\ b \in Switchboard /\ b.stage = "closed" /\ b.wire = <<>>
      /\ b.texts = board[n].texts /\ b.left = board[n].left
  BY <1>0, <1>1, EmptySeq DEF Switchboard
<1>4. ChatStep(n, c, b)
  <2>1. board' = [board EXCEPT ![n] = b]
    BY <1>0 DEF Ends, Close
  <2>2. chatList' = [chatList EXCEPT ![n] = c]
    BY <1>0, ChatFields DEF Ends, Rest
  <2> QED
    BY <1>2, <1>3, <2>1, <2>2 DEF ChatStep
<1>5. c.buf \o b.wire = Tail(chatList[n].buf)
  BY <1>2, <1>3, CloseView
<1>6. Coming(n)' = Tail(chatList[n].buf)
  <2>1. TypeOK
    BY DEF IInv
  <2>2. Coming(n)' = c.buf \o b.wire
    BY ZenonT(60), <1>4, <2>1, StepView
  <2> QED
    BY <1>5, <2>2
<1>7. Local(c, b)
  <2>1. Stages(chatList[n], board[n]) /\ Ahead(Coming(n), chatList[n], board[n])
    BY ChatFields DEF Local, Coming
  <2>2. Stages(c, b)
    <3>1. board[n].stage # "idle"
      BY <2>1, RestView DEF Ahead
    <3> QED
      BY <1>2, <1>3, <2>1, <3>1 DEF Stages, Early
  <2>3. ASSUME NEW i \in DOMAIN Tail(chatList[n].buf)
        PROVE  /\ Tail(chatList[n].buf)[i].cmd # "USR"
               /\ Tail(chatList[n].buf)[i].cmd = "215" => b.texts = 0 /\ ~b.left
    <3>1. /\ i + 1 \in DOMAIN Coming(n) /\ Tail(chatList[n].buf)[i] = Coming(n)[i + 1]
          /\ Len(Coming(n)) # 1
      BY CloseView
    <3> QED
      BY <1>3, <2>1, <3>1 DEF Ahead
  <2> QED
    BY <1>3, <1>5, <2>2, <2>3 DEF Local, Ahead
<1>8. c.socket <=> c.thread = "running"
  BY <1>2, ChatFields
<1> QED
  BY <1>2, <1>3, <1>4, <1>6, <1>7, <1>8

\* An error of the call: the contact is not there, so nothing of it is lost.
LEMMA parseErrorKeeps ==
  ASSUME IInv, NEW n \in DOMAIN chatList, parseError(n)
  PROVE  IInv'
<1>1. /\ chatList[n].buf # <<>> /\ Head(chatList[n].buf).cmd = "215" /\ chatList[n].taken = Nobody
      /\ Ends(n)
  BY DEF parseError, Parses, Ends
<1>3. PICK c, b :
        /\ ChatStep(n, c, b) /\ Local(c, b) /\ (c.socket <=> c.thread = "running")
        /\ c.called = chatList[n].called /\ c.taken = chatList[n].taken
        /\ b.texts = board[n].texts /\ b.left = board[n].left
        /\ Coming(n)' = Tail(chatList[n].buf)
  BY <1>1, EndsView
<1>4. Arriving(n) = {}
  <2>1. board[n].texts = 0 /\ ~board[n].left
    <3>1. Ahead(Coming(n), chatList[n], board[n])
      BY ChatFields DEF Local, Coming
    <3> QED
      BY <1>1, <3>1, RestView DEF Ahead
  <2>2. Total(n) = 0
    BY <2>1 DEF Total
  <2>3. Len(heard[n]) \in Nat
    BY ChatTypes, ChatFields
  <2>4. ASSUME NEW i \in Arriving(n) PROVE FALSE
    <3>1. CRank(n, i) \in Nat
      BY RankTypes, ChatFields
    <3>2. CRank(n, i) > Len(heard[n]) /\ CRank(n, i) <= Total(n)
      BY ChatFields DEF Followed, InTransit, Due, CRank
    <3> QED
      BY <2>2, <2>3, <3>1, <3>2
  <2> QED
    BY <2>4
<1>5. Arriving(n)' = {}
  <2>1. ASSUME NEW i \in DOMAIN Tail(chatList[n].buf)
        PROVE  Tail(chatList[n].buf)[i].cmd \notin Written
    BY <1>1, <1>4, CloseView DEF Arriving
  <2> QED
    BY <1>3, <2>1 DEF Arriving
<1>6. ArrivingMove(n, 0)
  BY <1>4, <1>5 DEF ArrivingMove
<1>7. UNCHANGED <<server, client, signals, heard, crashed>>
  BY DEF parseError, Parses
<1> QED
  BY <1>3, <1>6, <1>7, QuietStep

-----------------------------------------------------------------------------
(* The switchboards *)

LEMMA BoardKeeps ==
  ASSUME IInv, NEW n \in DOMAIN chatList, NEW stage, NEW next, NEW e \in Commands,
         Board(n, stage, <<e>>, next), e.cmd \notin Written,
         next \in {"ready", "talking", "left"},
         e.cmd = "USR" =>
           /\ next = "ready" /\ stage = "greeted" /\ chatList[n].isMine,
         e.cmd = "215" => next = "left",
         stage \in {"greeted", "calling"}, next = "ready" => stage = "greeted"
  PROVE  IInv'
<1>1. board[n].stage = stage /\ board' = [board EXCEPT ![n].stage = next, ![n].wire = @ \o <<e>>]
  BY DEF Board
<1>2. PICK c, b : /\ c = chatList[n] 
                  /\ b = [board[n] EXCEPT !.stage = next, !.wire = @ \o <<e>>]
  OBVIOUS
<1>3. board[n] \in Switchboard /\ board[n].wire \o <<e>> = Append(board[n].wire, e)
      /\ Append(board[n].wire, e) \in Seq(Commands)
  <2>1. board[n] \in Switchboard /\ board[n].wire \in Seq(Commands)
    BY ChatFields, ChatTypes
  <2> QED
    BY <2>1, AppendIsConcat, Appended
<1>4. /\ b \in Switchboard /\ b.stage = next /\ b.wire = Append(board[n].wire, e)
      /\ b.texts = board[n].texts /\ b.left = board[n].left
  BY <1>2, <1>3 DEF Switchboard
<1>5. c \in ParserSB /\ c.isMine = chatList[n].isMine
  BY <1>2, ChatFields
<1>6. ChatStep(n, c, b)
  <2>1. chatList' = [chatList EXCEPT ![n] = c]
    BY <1>2, ChatFields DEF Board
  <2> QED
    BY <1>1, <1>2, <1>4, <1>5, <2>1 DEF ChatStep
<1>7. c.buf \o b.wire = Append(Coming(n), e)
  <2>1. PICK p, w : p = chatList[n].buf /\ w = board[n].wire
    OBVIOUS
  <2>2. p \in Seq(Commands) /\ w \in Seq(Commands)
    BY <2>1, ChatFields, ChatTypes
  <2>3. p \o Append(w, e) = Append(p \o w, e)
    BY <2>2, JoinedAppend
  <2> QED
    BY <1>2, <1>4, <2>1, <2>3 DEF Coming
<1>8. Local(c, b)
  <2>1. Stages(chatList[n], board[n]) /\ Ahead(Coming(n), chatList[n], board[n])
    BY ChatFields DEF Local, Coming
  <2>2. /\ Len(Append(Coming(n), e)) = Len(Coming(n)) + 1
        /\ DOMAIN Append(Coming(n), e) = 1 .. Len(Coming(n)) + 1
        /\ DOMAIN Coming(n) = 1 .. Len(Coming(n)) /\ Len(Coming(n)) \in Nat
        /\ \A i \in 1 .. Len(Coming(n)) : Append(Coming(n), e)[i] = Coming(n)[i]
        /\ Append(Coming(n), e)[Len(Coming(n)) + 1] = e
    BY ChatTypes, ChatFields, Appended
  <2>3. Stages(c, b)
    BY <1>1, <1>2, <1>4, <2>1 DEF Stages, Early
  <2>4. stage = "greeted" => Len(Coming(n)) = 0
    BY <1>1, <2>1 DEF Ahead
  <2>5. ASSUME NEW i \in DOMAIN Append(Coming(n), e)
        PROVE  /\ Append(Coming(n), e)[i].cmd = "USR" =>
                    /\ Len(Append(Coming(n), e)) = 1 /\ b.stage \in {"ready", "closed"}
                    /\ c.isMine /\ c.called = Nobody /\ c.taken = Nobody
               /\ Append(Coming(n), e)[i].cmd = "215" =>
                    b.stage \in {"left", "closed"} /\ b.texts = 0 /\ ~b.left
    <3>1. CASE i = Len(Coming(n)) + 1
      BY <1>1, <1>2, <1>4, <2>1, <2>2, <2>4, <3>1 DEF Stages, Early
    <3>2. CASE i # Len(Coming(n)) + 1
      <4>1. i \in DOMAIN Coming(n) /\ Append(Coming(n), e)[i] = Coming(n)[i]
        BY <2>2, <3>2
      <4>2. stage = "calling"
        BY <2>2, <2>4, <4>1
      <4> QED
        BY <1>1, <2>1, <4>1, <4>2 DEF Ahead
    <3> QED
      BY <3>1, <3>2
  <2> QED
    BY <1>4, <1>7, <2>3, <2>5 DEF Local, Ahead
<1>9. ArrivingMove(n, 0)
  <2>1. TypeOK
    BY DEF IInv
  <2>2. Coming(n)' = Append(Coming(n), e)
    BY ZenonT(60), <1>6, <1>7, <2>1, StepView
  <2> QED
    BY <2>1, <2>2, ComingAppended
<1>10. UNCHANGED <<server, client, signals, heard, crashed>>
  BY DEF Board
<1>11. c.socket <=> c.thread = "running"
  BY <1>2, ChatFields
<1> QED
  BY <1>2, <1>4, <1>6, <1>8, <1>9, <1>10, <1>11, QuietStep

LEMMA BoardGreetsKeeps ==
  ASSUME IInv, NEW n \in DOMAIN chatList, BoardGreets(n)
  PROVE  IInv'
<1>1. /\ Cmd("USR") \in Commands /\ Cmd("USR").cmd = "USR"
      /\ Cmd("ANS") \in Commands /\ Cmd("ANS").cmd = "ANS"
  BY DEF Cmd, Commands
<1>2. CASE chatList[n].isMine
  <2>1. Board(n, "greeted", <<Cmd("USR")>>, "ready")
    BY <1>2 DEF BoardGreets
  <2> QED
    BY <1>1, <1>2, <2>1, BoardKeeps DEF Written
<1>3. CASE ~chatList[n].isMine
  <2>1. Board(n, "greeted", <<Cmd("ANS")>>, "talking")
    BY <1>3 DEF BoardGreets
  <2> QED
    BY <1>1, <2>1, BoardKeeps DEF Written
<1> QED
  BY <1>2, <1>3

LEMMA BoardCallsKeeps ==
  ASSUME IInv, NEW n \in DOMAIN chatList, BoardCalls(n)
  PROVE  IInv'
<1>1. CASE Board(n, "calling", <<Cmd("JOI")>>, "talking")
  <2>1. Cmd("JOI") \in Commands /\ Cmd("JOI").cmd = "JOI"
    BY DEF Cmd, Commands
  <2> QED
    BY <1>1, <2>1, BoardKeeps DEF Written
<1>2. ASSUME NEW error \in {"215", "217"}, Board(n, "calling", <<Cmd(error)>>, "left")
      PROVE  IInv'
  <2>1. Cmd(error) \in Commands /\ Cmd(error).cmd = error
    BY DEF Cmd, Commands
  <2> QED
    BY <1>2, <2>1, BoardKeeps DEF Written
<1> QED
  BY <1>1, <1>2 DEF BoardCalls

LEMMA BoardClosesKeeps ==
  ASSUME IInv, NEW n \in DOMAIN chatList, BoardCloses(n)
  PROVE  IInv'
<1>1. PICK c, b : c = chatList[n] /\ b = [board[n] EXCEPT !.stage = "closed", !.lost = TRUE]
  OBVIOUS
<1>2. board[n].stage \notin {"idle", "closed"}
  BY DEF BoardCloses
<1>3. /\ b \in Switchboard /\ b.stage = "closed" /\ b.wire = board[n].wire
      /\ b.texts = board[n].texts /\ b.left = board[n].left
  <2>1. board[n] \in Switchboard
    BY ChatFields
  <2> QED
    BY <1>1, <2>1 DEF Switchboard
<1>4. ChatStep(n, c, b)
  <2>1. chatList' = [chatList EXCEPT ![n] = c] /\ c \in ParserSB /\ c.isMine = chatList[n].isMine
    BY <1>1, ChatFields DEF BoardCloses
  <2>2. board' = [board EXCEPT ![n] = b]
    BY <1>1 DEF BoardCloses
  <2> QED
    BY <1>3, <2>1, <2>2 DEF ChatStep
<1>5. Local(c, b)
  <2>1. /\ Stages(chatList[n], board[n])
        /\ Ahead(chatList[n].buf \o board[n].wire, chatList[n], board[n])
    BY ChatFields DEF Local
  <2>2. Stages(c, b)
    BY <1>1, <1>2, <1>3, <2>1 DEF Stages, Early
  <2>3. Ahead(chatList[n].buf \o board[n].wire, c, b)
    BY <1>1, <1>3, <2>1 DEF Ahead
  <2> QED
    BY <1>1, <1>3, <2>2, <2>3 DEF Local
<1>6. ArrivingMove(n, 0)
  BY <1>1, <1>3, <1>4, LeavesComing
<1>7. UNCHANGED <<server, client, signals, heard, crashed>>
  BY DEF BoardCloses
<1>8. c.socket <=> c.thread = "running"
  BY <1>1, ChatFields
<1> QED
  BY <1>1, <1>3, <1>4, <1>5, <1>6, <1>7, <1>8, QuietStep

\* The contact writes: a text, or that it leaves.
LEMMA WritesKeeps ==
  ASSUME IInv, NEW n \in DOMAIN chatList, board[n].stage = "talking",
         NEW e \in Commands, e.cmd \in Written, e.nr = IF e.cmd = "TEXT" THEN board[n].texts + 1 ELSE e.nr,
         NEW b \in Switchboard, board' = [board EXCEPT ![n] = b],
         b.wire = Append(board[n].wire, e),
         e.cmd = "TEXT" => b.stage = "talking" /\ b.texts = board[n].texts + 1 /\ b.left = board[n].left,
         e.cmd = "BYE" => b.stage = "left" /\ b.texts = board[n].texts /\ b.left,
         UNCHANGED <<server, client, chatList, signals, heard, crashed>>
  PROVE  IInv'
<1>1. PICK c : c = chatList[n]
  OBVIOUS
<1>2. /\ TypeOK /\ Followed(n) /\ board[n].texts \in Nat /\ ~board[n].left
      /\ Stages(chatList[n], board[n]) /\ Ahead(Coming(n), chatList[n], board[n])
  <2>1. /\ TypeOK /\ Followed(n)
        /\ Stages(chatList[n], board[n]) /\ Ahead(Coming(n), chatList[n], board[n])
    BY ChatFields DEF Local, Coming
  <2> QED
    BY <2>1, ChatTypes DEF Stages
<1>3. ChatStep(n, c, b)
  <2>1. chatList' = [chatList EXCEPT ![n] = c] /\ c \in ParserSB /\ c.isMine = chatList[n].isMine
    BY <1>1, ChatFields
  <2> QED
    BY <2>1 DEF ChatStep
<1>4. c.buf \o b.wire = Append(Coming(n), e)
  <2>1. PICK p, w : p = chatList[n].buf /\ w = board[n].wire
    OBVIOUS
  <2>2. p \in Seq(Commands) /\ w \in Seq(Commands)
    BY <1>2, <2>1, ChatTypes
  <2>3. p \o Append(w, e) = Append(p \o w, e)
    BY <2>2, JoinedAppend
  <2> QED
    BY <1>1, <2>1, <2>3 DEF Coming
<1>5. /\ board'[n] = b /\ Coming(n)' = Append(Coming(n), e)
  BY ZenonT(60), <1>2, <1>3, <1>4, StepView
<1>6. Local(c, b)
  <2>1. Stages(c, b)
    BY <1>1, <1>2 DEF Stages, Early, Written
  <2>2. /\ DOMAIN Append(Coming(n), e) = 1 .. Len(Coming(n)) + 1
        /\ DOMAIN Coming(n) = 1 .. Len(Coming(n)) /\ Len(Coming(n)) \in Nat
        /\ \A i \in 1 .. Len(Coming(n)) : Append(Coming(n), e)[i] = Coming(n)[i]
        /\ Append(Coming(n), e)[Len(Coming(n)) + 1] = e
    BY <1>2, ChatTypes, Appended
  <2>3. ASSUME NEW i \in DOMAIN Append(Coming(n), e)
        PROVE  Append(Coming(n), e)[i].cmd \notin {"USR", "215"}
    <3>1. CASE i = Len(Coming(n)) + 1
      BY <2>2, <3>1 DEF Written
    <3>2. CASE i # Len(Coming(n)) + 1
      <4>1. i \in DOMAIN Coming(n) /\ Append(Coming(n), e)[i] = Coming(n)[i]
        BY <2>2, <3>2
      <4> QED
        BY <1>2, <4>1 DEF Ahead
    <3> QED
      BY <3>1, <3>2
  <2>4. b.stage \notin {"idle", "greeted"}
    BY DEF Written
  <2> QED
    BY <1>4, <2>1, <2>3, <2>4 DEF Local, Ahead
<1>7. Followed(n)'
  <2>1. SignalsMove(n, 0)
    BY <1>2, SignalsSame
  <2>2. PICK last \in Nat : last = Len(Coming(n)) + 1
    BY <1>2, ChatTypes
  <2>3. Total(n)' = Total(n) + 1 /\ board'[n].texts \in Nat
    BY <1>2, <1>5 DEF Total, Written
  <2>4. /\ e.cmd = "TEXT" => ~board'[n].left /\ e.nr = board'[n].texts
        /\ e.cmd = "BYE" => board'[n].left
    BY <1>2, <1>5
  <2>5. heard'[n] = heard[n]
    OBVIOUS
  <2> QED
    BY <1>2, <1>5, <2>1, <2>2, <2>3, <2>4, <2>5, Writes
<1>8. SignalsOf(n) /\ signals' \in Seq(Signal(DOMAIN chatList))
  BY <1>2, SignalsSame, Types
<1>9. c.socket <=> c.thread = "running"
  BY <1>1, ChatFields
<1>10. c.called = chatList[n].called /\ c.taken = chatList[n].taken
  BY <1>1
<1> QED
  BY <1>3, <1>6, <1>7, <1>8, <1>9, <1>10, StepKeeps

LEMMA ContactWritesKeeps ==
  ASSUME IInv, NEW n \in DOMAIN chatList, ContactWrites(n)
  PROVE  IInv'
<1>1. PICK t, e, b :
        /\ t = board[n].texts + 1 /\ e = [cmd |-> "TEXT", nr |-> t]
        /\ b = [board[n] EXCEPT !.texts = t, !.wire = Append(@, e)]
  OBVIOUS
<1>2. /\ board[n] \in Switchboard /\ board[n].texts \in Nat /\ board[n].wire \in Seq(Commands)
      /\ t \in Nat
  BY <1>1, ChatFields, ChatTypes
<1>3. e \in Commands /\ e.cmd = "TEXT" /\ e.nr = t
  BY <1>1, <1>2 DEF Commands
<1>4. Append(board[n].wire, e) \in Seq(Commands)
  BY <1>2, <1>3, Appended
<1>5. /\ b \in Switchboard /\ b.wire = Append(board[n].wire, e)
      /\ b.stage = board[n].stage /\ b.texts = t /\ b.left = board[n].left
  BY <1>1, <1>2, <1>4 DEF Switchboard
<1>6. board' = [board EXCEPT ![n] = b]
  BY <1>1 DEF ContactWrites
<1>7. board[n].stage = "talking" /\ UNCHANGED <<server, client, chatList, signals, heard, crashed>>
  BY DEF ContactWrites
<1> QED
  BY <1>1, <1>3, <1>5, <1>6, <1>7, WritesKeeps DEF Written

LEMMA ContactLeavesKeeps ==
  ASSUME IInv, NEW n \in DOMAIN chatList, ContactLeaves(n)
  PROVE  IInv'
<1>1. PICK e, b :
        /\ e = Cmd("BYE")
        /\ b = [board[n] EXCEPT !.stage = "left", !.left = TRUE, !.wire = Append(@, e)]
  OBVIOUS
<1>2. board[n] \in Switchboard /\ board[n].texts \in Nat /\ board[n].wire \in Seq(Commands)
  BY ChatFields, ChatTypes
<1>3. e \in Commands /\ e.cmd = "BYE"
  BY <1>1 DEF Commands, Cmd
<1>4. Append(board[n].wire, e) \in Seq(Commands)
  BY <1>2, <1>3, Appended
<1>5. /\ b \in Switchboard /\ b.wire = Append(board[n].wire, e)
      /\ b.stage = "left" /\ b.texts = board[n].texts /\ b.left
  BY <1>1, <1>2, <1>4 DEF Switchboard
<1>6. board' = [board EXCEPT ![n] = b]
  BY <1>1 DEF ContactLeaves
<1>7. board[n].stage = "talking" /\ UNCHANGED <<server, client, chatList, signals, heard, crashed>>
  BY DEF ContactLeaves
<1> QED
  BY <1>3, <1>5, <1>6, <1>7, WritesKeeps DEF Written

-----------------------------------------------------------------------------
(* What a chat's thread emits *)

LEMMA EmitView ==
  ASSUME IInv, NEW n \in DOMAIN chatList, chatList[n].buf # <<>>,
         Head(chatList[n].buf).cmd \in Written, Emit(n),
         NEW last \in Nat, last = Len(signals) + 1
  PROVE  /\ SignalsOf(n) /\ signals' \in Seq(Signal(DOMAIN chatList))
         /\ Signalled(n)' = Signalled(n) \cup {last}
         /\ \A i \in Signalled(n) : signals'[i] = signals[i]
         /\ signals'[last].what = Coming(n)[1].cmd /\ signals'[last].nr = Coming(n)[1].nr
         /\ 1 \in Arriving(n)
<1>1. TypeOK
  BY DEF IInv
<1>2. PICK s : s = [chat |-> n, what |-> Head(chatList[n].buf).cmd, nr |-> Head(chatList[n].buf).nr]
  OBVIOUS
<1>3. s \in Signal(DOMAIN chatList) /\ s.chat = n /\ s.what = Coming(n)[1].cmd /\ s.nr = Coming(n)[1].nr
  <2>1. Head(chatList[n].buf) \in Commands /\ Coming(n)[1] = Head(chatList[n].buf)
    BY RestView
  <2>2. Head(chatList[n].buf).nr \in Nat
    BY <2>1 DEF Commands
  <2> QED
    BY <1>2, <2>1, <2>2 DEF Signal, Written
<1>4. signals' = Append(signals, s)
  BY <1>2 DEF Emit
<1>5. /\ signals' \in Seq(Signal(DOMAIN chatList)) /\ DOMAIN signals = 1 .. Len(signals)
      /\ Len(signals) \in Nat
      /\ DOMAIN signals' = 1 .. Len(signals) + 1
      /\ \A i \in 1 .. Len(signals) : signals'[i] = signals[i]
      /\ signals'[last] = s
  BY <1>1, <1>3, <1>4, Types, Appended
<1>6. SignalsOf(n)
  <2>1. \A i \in DOMAIN signals : i \in DOMAIN signals' /\ signals'[i] = signals[i]
    BY <1>5
  <2>2. \A i \in DOMAIN signals' : i \in DOMAIN signals \/ i = last
    BY <1>5
  <2> QED
    BY <1>3, <1>5, <2>1, <2>2 DEF SignalsOf
<1>7. Signalled(n)' = Signalled(n) \cup {last}
  <2>1. \A i : i \in DOMAIN signals' <=> i \in DOMAIN signals \/ i = last
    BY <1>5
  <2>2. \A i \in DOMAIN signals : signals'[i] = signals[i]
    BY <1>5
  <2> QED
    BY <1>3, <1>5, <2>1, <2>2 DEF Signalled
<1>8. \A i \in Signalled(n) : signals'[i] = signals[i]
  BY <1>5 DEF Signalled
<1>9. 1 \in Arriving(n)
  BY RestView DEF Arriving
<1> QED
  BY <1>3, <1>5, <1>6, <1>7, <1>8, <1>9

LEMMA parseMsgKeeps ==
  ASSUME IInv, NEW n \in DOMAIN chatList, parseMsg(n)
  PROVE  IInv'
<1>1. /\ chatList[n].buf # <<>> /\ Head(chatList[n].buf).cmd \in Written /\ chatList[n].taken = Nobody
      /\ Emit(n)
  BY DEF parseMsg, Parses, Written
<1>2. PICK c, b : c = [chatList[n] EXCEPT !.buf = Tail(@)] /\ b = board[n]
  OBVIOUS
<1>3. /\ c \in ParserSB /\ c.isMine = chatList[n].isMine /\ c.buf = Tail(chatList[n].buf)
      /\ c.called = chatList[n].called /\ c.taken = chatList[n].taken
      /\ c.thread = chatList[n].thread /\ c.socket = chatList[n].socket
  <2>1. chatList[n] \in ParserSB /\ Tail(chatList[n].buf) \in Seq(Commands)
    BY <1>1, RestView, ChatFields
  <2> QED
    BY <1>2, <2>1 DEF ParserSB
<1>4. ChatStep(n, c, b)
  BY <1>2, <1>3, ChatFields DEF ChatStep, parseMsg, Rest
<1>5. c.buf \o b.wire = Tail(Coming(n))
  BY <1>1, <1>2, <1>3, RestView
<1>6. Local(c, b)
  <2>1. Stages(chatList[n], board[n])
    BY ChatFields DEF Local
  <2>2. Stages(c, b)
    BY <1>2, <1>3, <2>1 DEF Stages
  <2> QED
    BY <1>1, <1>2, <1>5, <2>2, RestLocal
<1>7. TypeOK /\ Followed(n)
  BY ChatFields
<1>8. PICK last \in Nat : last = Len(signals) + 1
  BY <1>7, Types
<1>9. /\ SignalsOf(n) /\ signals' \in Seq(Signal(DOMAIN chatList))
      /\ Signalled(n)' = Signalled(n) \cup {last}
      /\ \A i \in Signalled(n) : signals'[i] = signals[i]
      /\ signals'[last].what = Coming(n)[1].cmd /\ signals'[last].nr = Coming(n)[1].nr
      /\ 1 \in Arriving(n)
  BY <1>1, <1>8, EmitView
<1>10. UNCHANGED <<server, client, heard, crashed>>
  BY DEF parseMsg, Parses
<1>11. Followed(n)'
  <2>1. SameTexts(n)
    BY <1>2, <1>4, <1>7, StepView DEF SameTexts
  <2>2. ArrivingLeft(n)
    <3>1. Coming(n)' = Tail(Coming(n))
      BY <1>4, <1>5, <1>7, StepView
    <3>2. Coming(n) # <<>>
      BY <1>1, RestView
    <3> QED
      BY <1>7, <3>1, <3>2, ComingTaken
  <2>3. heard'[n] = heard[n]
    BY <1>10
  <2> QED
    BY <1>7, <1>8, <1>9, <2>1, <2>2, <2>3, Emitted
<1>12. c.socket <=> c.thread = "running"
  BY <1>3, ChatFields
<1> QED
  BY <1>3, <1>4, <1>6, <1>9, <1>10, <1>11, <1>12, StepKeeps

\* The contact has left, which was its last word.
LEMMA parseByeKeeps ==
  ASSUME IInv, NEW n \in DOMAIN chatList, parseBye(n)
  PROVE  IInv'
<1>1. /\ chatList[n].buf # <<>> /\ Head(chatList[n].buf).cmd = "BYE" /\ chatList[n].taken = Nobody
      /\ Ends(n) /\ Emit(n)
  BY DEF parseBye, Parses, Ends
<1>2. PICK c, b :
        /\ ChatStep(n, c, b) /\ Local(c, b) /\ (c.socket <=> c.thread = "running")
        /\ c.called = chatList[n].called /\ c.taken = chatList[n].taken
        /\ b.texts = board[n].texts /\ b.left = board[n].left
        /\ Coming(n)' = Tail(chatList[n].buf)
  BY <1>1, EndsView
<1>3. TypeOK /\ Followed(n)
  BY ChatFields
<1>4. PICK last \in Nat : last = Len(signals) + 1
  BY <1>3, Types
<1>5. /\ SignalsOf(n) /\ signals' \in Seq(Signal(DOMAIN chatList))
      /\ Signalled(n)' = Signalled(n) \cup {last}
      /\ \A i \in Signalled(n) : signals'[i] = signals[i]
      /\ signals'[last].what = Coming(n)[1].cmd /\ signals'[last].nr = Coming(n)[1].nr
      /\ 1 \in Arriving(n)
  BY <1>1, <1>4, EmitView DEF Written
<1>6. \A i \in Arriving(n) : i = 1
  <2> SUFFICES ASSUME NEW i \in Arriving(n), i # 1 PROVE FALSE
    OBVIOUS
  <2>1. /\ CRank(n, 1) < CRank(n, i) /\ CRank(n, i) <= Total(n) /\ board[n].left
    <3>1. 1 < i
      BY <1>3, ChatTypes DEF Arriving
    <3>2. Coming(n)[1].cmd = "BYE"
      BY <1>1, RestView
    <3> QED
      BY <1>3, <1>5, <3>1, <3>2 DEF Followed, InTransit, Due, CRank
  <2>2. CRank(n, 1) = Total(n) /\ Total(n) \in Nat /\ CRank(n, i) \in Nat
    <3>1. Coming(n)[1].cmd = "BYE"
      BY <1>1, RestView
    <3> QED
      BY <1>3, <2>1, <3>1, RankTypes DEF CRank, Rank, Total
  <2> QED
    BY <2>1, <2>2
<1>7. ArrivingLeft(n)
  <2>1. ASSUME NEW i \in DOMAIN Tail(chatList[n].buf)
        PROVE  Tail(chatList[n].buf)[i].cmd \notin Written
    <3>1. /\ i \in Nat \ {0} /\ i + 1 \in DOMAIN Coming(n)
          /\ Tail(chatList[n].buf)[i] = Coming(n)[i + 1]
      BY <1>1, CloseView
    <3>2. i + 1 # 1
      BY <3>1
    <3> QED
      BY <1>6, <3>1, <3>2 DEF Arriving
  <2>2. Arriving(n)' = {}
    BY <1>2, <2>1 DEF Arriving
  <2> QED
    BY <1>6, <2>2 DEF ArrivingLeft
<1>8. UNCHANGED <<server, client, heard, crashed>>
  BY DEF parseBye, Parses
<1>9. Followed(n)'
  <2>1. SameTexts(n)
    <3>1. board'[n] = b
      BY <1>2, <1>3, StepView
    <3> QED
      BY <1>2, <3>1 DEF SameTexts
  <2>2. heard'[n] = heard[n]
    BY <1>8
  <2> QED
    BY <1>3, <1>4, <1>5, <1>7, <2>1, <2>2, Emitted
<1> QED
  BY <1>2, <1>5, <1>8, <1>9, StepKeeps

-----------------------------------------------------------------------------
(* The passports *)

\* The chats that have called, those the client started, and those up to one of them.
LEMMA MineCounts ==
  ASSUME TypeOK
  PROVE  /\ IsFiniteSet(MineSet) /\ Cardinality(MineSet) \in Nat
         /\ IsFiniteSet(Called) /\ Cardinality(Called) \in Nat /\ Called \subseteq MineSet
         /\ Cardinality(Called) <= Cardinality(MineSet)
         /\ Cardinality(Called) = Cardinality(MineSet) => Called = MineSet
         /\ \A n \in DOMAIN chatList :
              /\ IsFiniteSet(MineUpTo(n)) /\ Cardinality(MineUpTo(n)) \in Nat
              /\ Cardinality(MineUpTo(n)) <= Cardinality(MineSet)
              /\ chatList[n].isMine => Cardinality(MineUpTo(n)) >= 1
<1>1. IsFiniteSet(DOMAIN chatList) /\ MineSet \subseteq DOMAIN chatList
  BY Types, FS_Interval DEF MineSet
<1>2. Called \subseteq MineSet
  BY DEF Called, MineSet, TypeOK
<1>3. IsFiniteSet(MineSet) /\ Cardinality(MineSet) \in Nat
  BY <1>1, FS_Subset, FS_CardinalityType
<1>4. /\ IsFiniteSet(Called) /\ Cardinality(Called) \in Nat
      /\ Cardinality(Called) <= Cardinality(MineSet)
      /\ Cardinality(Called) = Cardinality(MineSet) => Called = MineSet
  BY <1>2, <1>3, FS_Subset, FS_CardinalityType
<1>5. ASSUME NEW n \in DOMAIN chatList
      PROVE  /\ IsFiniteSet(MineUpTo(n)) /\ Cardinality(MineUpTo(n)) \in Nat
             /\ Cardinality(MineUpTo(n)) <= Cardinality(MineSet)
             /\ chatList[n].isMine => Cardinality(MineUpTo(n)) >= 1
  <2>1. MineUpTo(n) \subseteq MineSet
    BY Types DEF MineUpTo, MineSet
  <2>2. /\ IsFiniteSet(MineUpTo(n)) /\ Cardinality(MineUpTo(n)) \in Nat
        /\ Cardinality(MineUpTo(n)) <= Cardinality(MineSet)
    BY <1>3, <2>1, FS_Subset, FS_CardinalityType
  <2>3. chatList[n].isMine => MineUpTo(n) # {}
    <3>1. n \in 1 .. n
      BY Types
    <3> QED
      BY <3>1 DEF MineUpTo
  <2>4. MineUpTo(n) # {} => Cardinality(MineUpTo(n)) >= 1
    BY <2>2, FS_EmptySet
  <2> QED
    BY <2>2, <2>3, <2>4
<1> QED
  BY <1>2, <1>3, <1>4, <1>5

\* A chat that has still to call finds a passport: more chats have been invited than called.
LEMMA PassportWaits ==
  ASSUME IInv, NEW n \in DOMAIN chatList, chatList[n].isMine, chatList[n].called = Nobody
  PROVE  destPassport # <<>> /\ Len(destPassport) >= 1
<1>1. TypeOK /\ Counts
  BY DEF IInv, PassportInv
<1>2. Called # MineSet
  BY DEF Called, MineSet
<1>3. Cardinality(Called) < Cardinality(MineSet)
  BY <1>1, <1>2, MineCounts
<1>4. Cardinality(Places(requests, "asked")) \in Nat /\ asked \in Nat
  BY <1>1, Types, PlacesFinite
<1>5. Len(destPassport) >= 1
  BY SMTT(60), <1>1, <1>3, <1>4, MineCounts, Types DEF Counts
<1> QED
  BY <1>5

\* nextChatPassport reads the passport: in order, that of the last invitation.
LEMMA parseUsrKeeps ==
  ASSUME IInv, NEW n \in DOMAIN chatList, parseUsr(n)
  PROVE  IInv'
<1>1. /\ chatList[n].buf # <<>> /\ Head(chatList[n].buf).cmd = "USR" /\ chatList[n].taken = Nobody
  BY DEF parseUsr, Parses
<1>2. /\ TypeOK /\ Followed(n) /\ Counts /\ OneAtATime /\ PassportsSuffice
      /\ Stages(chatList[n], board[n]) /\ Ahead(Coming(n), chatList[n], board[n])
  BY ChatFields DEF IInv, PassportInv, Local, Coming
<1>3. /\ board[n].stage \in {"ready", "closed"} /\ chatList[n].isMine
      /\ chatList[n].called = Nobody
  BY <1>1, <1>2, RestView DEF Ahead
<1>4. destPassport # <<>> /\ Len(destPassport) >= 1
  BY <1>3, PassportWaits
<1>5. PICK who, c, b :
        /\ who = Head(destPassport) /\ b = board[n]
        /\ c = [chatList[n] EXCEPT !.buf = Tail(@), !.taken = who]
  OBVIOUS
<1>6. who \in Contacts /\ who = destPassport[1] /\ 1 \in DOMAIN destPassport
  BY <1>2, <1>4, <1>5, Types, Taken
<1>7. /\ c \in ParserSB /\ c.isMine = chatList[n].isMine /\ c.buf = Tail(chatList[n].buf)
      /\ c.called = chatList[n].called /\ c.taken = who
      /\ c.thread = chatList[n].thread /\ c.socket = chatList[n].socket
  <2>1. chatList[n] \in ParserSB /\ Tail(chatList[n].buf) \in Seq(Commands)
    BY <1>1, RestView, ChatFields
  <2> QED
    BY <1>5, <1>6, <2>1 DEF ParserSB
<1>8. UNCHANGED <<server, client, board, signals, heard, crashed>>
  BY <1>4 DEF parseUsr, Parses
<1>9. ChatStep(n, c, b)
  <2>1. chatList' = [chatList EXCEPT ![n] = c]
    BY <1>4, <1>5, ChatFields DEF parseUsr, Rest
  <2>2. board' = [board EXCEPT ![n] = b] /\ b \in Switchboard
    BY <1>5, <1>8, ChatFields
  <2> QED
    BY <1>7, <2>1, <2>2 DEF ChatStep
<1>10. c.buf \o b.wire = Tail(Coming(n))
  BY <1>1, <1>5, <1>7, RestView
<1>11. TypeOK'
  <2>1. c.socket <=> c.thread = "running"
    BY <1>7, ChatFields
  <2>2. c.isMine
    BY <1>3, <1>7
  <2>3. /\ destPassport' \in Seq(Contacts) /\ crashed' \in {"no", "passport", "socket"}
        /\ signals' \in Seq(Signal(DOMAIN chatList)) /\ heard' \in Seq(Seq(Hearings))
        /\ DOMAIN heard' = DOMAIN heard
        /\ UNCHANGED server /\ UNCHANGED <<invited, orderly>>
    <3>1. crashed \in {"no", "passport", "socket"}
      BY <1>2 DEF TypeOK
    <3> QED
      BY <1>2, <1>8, <3>1, Types DEF client
  <2> QED
    BY <1>2, <1>9, <2>1, <2>2, <2>3, StepTypes
<1>12. LocalInv'
  <2>1. Stages(c, b)
    BY <1>2, <1>3, <1>5, <1>7 DEF Stages, Early
  <2>2. Local(c, b)
    BY <1>1, <1>5, <1>10, <2>1, RestLocal
  <2> QED
    BY <1>2, <1>9, <2>2, StepLocal DEF IInv
<1>13. TextsInv'
  <2>1. SameTexts(n)
    BY <1>8 DEF SameTexts
  <2>2. ArrivingMove(n, 1)
    <3>1. Coming(n)' = Tail(Coming(n))
      BY <1>2, <1>9, <1>10, StepView
    <3>2. Coming(n)[1].cmd \notin Written /\ Coming(n) # <<>>
      BY <1>1, RestView DEF Written
    <3> QED
      BY <1>2, <3>1, <3>2, ComingTaken
  <2>3. SignalsMove(n, 0) /\ SignalsOf(n)
    BY <1>2, <1>8, SignalsSame
  <2>4. heard' = heard /\ heard'[n] = heard[n]
    BY <1>8
  <2>5. Followed(n)'
    BY <1>2, <2>1, <2>2, <2>3, <2>4, Carried
  <2> QED
    BY <1>2, <1>9, <2>3, <2>4, <2>5, StepTexts DEF IInv
<1>14. PassportInv'
  <2>1. /\ DOMAIN chatList' = DOMAIN chatList /\ chatList'[n] = c
        /\ \A m \in DOMAIN chatList : m # n => chatList'[m] = chatList[m]
        /\ \A m \in DOMAIN chatList :
             chatList'[m].isMine = chatList[m].isMine /\ chatList'[m].called = chatList[m].called
    <3>1. /\ DOMAIN chatList' = DOMAIN chatList /\ chatList'[n] = c
          /\ \A m \in DOMAIN chatList : m # n => chatList'[m] = chatList[m]
      BY <1>2, <1>9, StepView
    <3> QED
      BY <1>7, <3>1
  <2>2. MineSet' = MineSet /\ Called' = Called
    BY <2>1 DEF MineSet, Called
  <2>3. \A m \in DOMAIN chatList : MineUpTo(m)' = MineUpTo(m)
    BY SMTT(60), <1>2, <2>1, Types DEF MineUpTo
  <2>4. Counts'
    BY <1>2, <1>8, <2>2 DEF Counts, server, client
  <2>5. orderly => who = invited[Len(invited)]
    <3>1. orderly => Len(destPassport) = 1
      BY <1>2, <1>4, Types DEF OneAtATime
    <3>2. destPassport[1] = invited[Len(invited) - Len(destPassport) + 1]
      BY <1>2, <1>6 DEF Counts
    <3>3. Len(invited) - 1 + 1 = Len(invited)
      BY <1>2, Types
    <3> QED
      BY <1>6, <3>1, <3>2, <3>3
  <2>6. OneAtATime'
    <3>1. orderly' = orderly /\ destPassport' = destPassport /\ invited' = invited
      BY <1>8 DEF client
    <3> QED
      BY <1>2, <1>7, <2>1, <2>3, <2>5, <3>1 DEF OneAtATime
  <2> QED
    BY <1>2, <1>8, <2>4, <2>6 DEF PassportInv, PassportsSuffice
<1> QED
  BY <1>11, <1>12, <1>13, <1>14 DEF IInv

\* It removes the first passport, whichever chat took that one, and calls the one it read.
LEMMA nextChatPassportKeeps ==
  ASSUME IInv, NEW n \in DOMAIN chatList, nextChatPassport(n)
  PROVE  IInv'
<1>1. chatList[n].taken # Nobody
  BY DEF nextChatPassport
<1>2. /\ TypeOK /\ Followed(n) /\ Counts /\ OneAtATime /\ PassportsSuffice
      /\ Stages(chatList[n], board[n]) /\ Ahead(Coming(n), chatList[n], board[n])
  BY ChatFields DEF IInv, PassportInv, Local, Coming
<1>3. chatList[n].called = Nobody /\ chatList[n].isMine /\ board[n].stage \notin {"idle", "greeted"}
  BY <1>1, <1>2 DEF Stages, TypeOK
<1>4. destPassport # <<>> /\ Len(destPassport) >= 1
  BY <1>3, PassportWaits
<1>5. PICK who, stage, c, b :
        /\ who = chatList[n].taken
        /\ stage = IF board[n].stage = "ready" THEN "calling" ELSE board[n].stage
        /\ b = [board[n] EXCEPT !.stage = stage]
        /\ c = [chatList[n] EXCEPT !.called = who, !.taken = Nobody]
  OBVIOUS
<1>6. /\ c \in ParserSB /\ c.isMine = chatList[n].isMine /\ c.buf = chatList[n].buf
      /\ c.called = who /\ c.taken = Nobody
      /\ c.thread = chatList[n].thread /\ c.socket = chatList[n].socket
  <2>1. chatList[n] \in ParserSB
    BY ChatFields
  <2>2. chatList[n].taken \in Contacts \cup {Nobody}
    BY <2>1 DEF ParserSB
  <2> QED
    BY <1>5, <2>1, <2>2 DEF ParserSB
<1>7. /\ b \in Switchboard /\ b.stage = stage /\ b.wire = board[n].wire
      /\ b.texts = board[n].texts /\ b.left = board[n].left
  <2>1. board[n] \in Switchboard
    BY ChatFields
  <2>2. stage \in {"idle", "greeted", "ready", "calling", "talking", "left", "closed"}
    BY <1>5, <2>1 DEF Switchboard
  <2> QED
    BY <1>5, <2>1, <2>2 DEF Switchboard
<1>8. /\ UNCHANGED <<server, invited, orderly, signals, heard, crashed>>
      /\ destPassport' = Tail(destPassport)
      /\ chatList' = [chatList EXCEPT ![n].called = chatList[n].taken, ![n].taken = Nobody]
      /\ board' = [board EXCEPT ![n].stage = IF @ = "ready" THEN "calling" ELSE @]
  BY <1>4 DEF nextChatPassport
<1>9. ChatStep(n, c, b)
  <2>1. chatList' = [chatList EXCEPT ![n] = c]
    BY <1>5, <1>8, ChatFields
  <2>2. board' = [board EXCEPT ![n] = b]
    BY <1>5, <1>8
  <2> QED
    BY <1>6, <1>7, <2>1, <2>2 DEF ChatStep
<1>10. c.buf \o b.wire = chatList[n].buf \o board[n].wire
  BY <1>6, <1>7
<1>11. /\ Tail(destPassport) \in Seq(Contacts) /\ Len(Tail(destPassport)) = Len(destPassport) - 1
       /\ DOMAIN Tail(destPassport) = 1 .. Len(destPassport) - 1
       /\ \A i \in 1 .. Len(destPassport) - 1 : Tail(destPassport)[i] = destPassport[i + 1]
       /\ DOMAIN destPassport = 1 .. Len(destPassport) /\ Len(destPassport) \in Nat
  BY <1>2, <1>4, Types, Taken
<1>12. TypeOK'
  <2>1. c.socket <=> c.thread = "running"
    BY <1>6, ChatFields
  <2>2. c.isMine
    BY <1>3, <1>6
  <2>3. /\ destPassport' \in Seq(Contacts) /\ crashed' \in {"no", "passport", "socket"}
        /\ signals' \in Seq(Signal(DOMAIN chatList)) /\ heard' \in Seq(Seq(Hearings))
        /\ DOMAIN heard' = DOMAIN heard
        /\ UNCHANGED server /\ UNCHANGED <<invited, orderly>>
    <3>1. crashed \in {"no", "passport", "socket"}
      BY <1>2 DEF TypeOK
    <3> QED
      BY <1>2, <1>8, <1>11, <3>1, Types
  <2> QED
    BY <1>2, <1>9, <2>1, <2>2, <2>3, StepTypes
<1>13. LocalInv'
  <2>1. Stages(c, b)
    BY <1>2, <1>3, <1>5, <1>6, <1>7 DEF Stages, Early
  <2>2. Ahead(Coming(n), c, b)
    BY <1>1, <1>2, <1>3, <1>5, <1>7 DEF Ahead
  <2>3. Local(c, b)
    BY <1>10, <2>1, <2>2 DEF Local, Coming
  <2> QED
    BY <1>2, <1>9, <2>3, StepLocal DEF IInv
<1>14. TextsInv'
  <2>1. SameTexts(n)
    <3>1. board'[n] = b
      BY ZenonT(60), <1>2, <1>9, StepView
    <3> QED
      BY <1>7, <3>1 DEF SameTexts
  <2>2. ArrivingMove(n, 0)
    BY <1>9, <1>10, LeavesComing
  <2>3. SignalsMove(n, 0) /\ SignalsOf(n)
    BY <1>2, <1>8, SignalsSame
  <2>4. heard' = heard /\ heard'[n] = heard[n]
    BY <1>8
  <2>5. Followed(n)'
    BY <1>2, <2>1, <2>2, <2>3, <2>4, Carried
  <2> QED
    BY <1>2, <1>9, <2>3, <2>4, <2>5, StepTexts DEF IInv
<1>15. PassportInv'
  <2>1. /\ DOMAIN chatList' = DOMAIN chatList /\ chatList'[n] = c
        /\ \A m \in DOMAIN chatList : m # n => chatList'[m] = chatList[m]
        /\ \A m \in DOMAIN chatList : chatList'[m].isMine = chatList[m].isMine
    <3>1. /\ DOMAIN chatList' = DOMAIN chatList /\ chatList'[n] = c
          /\ \A m \in DOMAIN chatList : m # n => chatList'[m] = chatList[m]
      BY <1>2, <1>9, StepView
    <3> QED
      BY <1>6, <3>1
  <2>2. MineSet' = MineSet
    BY <2>1 DEF MineSet
  <2>3. Cardinality(Called)' = Cardinality(Called) + 1
    <3>1. Called' = Called \cup {n}
      BY ZenonT(60), <1>1, <1>5, <1>6, <2>1 DEF Called
    <3>2. n \notin Called
      BY <1>3 DEF Called
    <3> QED
      BY <1>2, <3>1, <3>2, MineCounts, FS_AddElement
  <2>4. \A m \in DOMAIN chatList : MineUpTo(m)' = MineUpTo(m)
    BY SMTT(60), <1>2, <2>1, Types DEF MineUpTo
  <2>5. Counts'
    <3>1. Cardinality(Called)' + Len(destPassport') = Len(invited)
      <4>1. Cardinality(Called) \in Nat /\ Len(destPassport) \in Nat
        BY <1>2, MineCounts, Types
      <4>2. Cardinality(Called) + Len(destPassport) = Len(invited)
        BY <1>2 DEF Counts
      <4>3. Len(destPassport') = Len(destPassport) - 1
        BY <1>8, <1>11
      <4> QED
        BY <2>3, <4>1, <4>2, <4>3
    <3>2. ASSUME NEW i \in DOMAIN destPassport'
          PROVE  destPassport'[i] = invited[Len(invited) - Len(destPassport') + i]
      <4>1. i \in 1 .. Len(destPassport) - 1 /\ i + 1 \in DOMAIN destPassport
        BY <1>8, <1>11
      <4>2. destPassport'[i] = invited[Len(invited) - Len(destPassport) + (i + 1)]
        BY <1>2, <1>8, <1>11, <4>1 DEF Counts
      <4>3. Len(invited) - Len(destPassport) + (i + 1) = Len(invited) - Len(destPassport') + i
        BY SMTT(60), <1>2, <1>8, <1>11, <4>1, Types
      <4> QED
        BY <4>2, <4>3
    <3> QED
      BY <1>2, <1>8, <2>2, <3>1, <3>2 DEF Counts, server
  <2>6. OneAtATime'
    <3> SUFFICES ASSUME orderly
                 PROVE  /\ Len(destPassport') <= 1
                        /\ \A m \in DOMAIN chatList :
                             /\ chatList'[m].isMine /\ chatList'[m].called = Nobody =>
                                  /\ Cardinality(MineUpTo(m)) = Len(invited)
                                  /\ chatList'[m].taken \in {Nobody, invited[Len(invited)]}
                             /\ chatList'[m].called # Nobody =>
                                  chatList'[m].called = invited[Cardinality(MineUpTo(m))]
      BY <1>8, <2>1, <2>4 DEF OneAtATime
    <3>1. Len(destPassport') <= 1
      BY <1>2, <1>8, <1>11 DEF OneAtATime
    <3>2. Cardinality(MineUpTo(n)) = Len(invited) /\ who = invited[Len(invited)]
      BY <1>1, <1>2, <1>3, <1>5 DEF OneAtATime
    <3> QED
      BY ZenonT(60), <1>1, <1>2, <1>5, <1>6, <2>1, <3>1, <3>2 DEF OneAtATime
  <2> QED
    BY <1>2, <1>8, <2>5, <2>6 DEF PassportInv, PassportsSuffice
<1> QED
  BY <1>12, <1>13, <1>14, <1>15 DEF IInv

-----------------------------------------------------------------------------
(* The requests *)

\* Steps that touch no chat.
LEMMA ChatsSame ==
  ASSUME IInv, UNCHANGED <<chatList, board, signals, heard>>
  PROVE  /\ LocalInv' /\ TextsInv' /\ MineSet' = MineSet /\ Called' = Called
         /\ \A n : MineUpTo(n)' = MineUpTo(n)
<1>1. LocalInv'
  BY DEF IInv, LocalInv
<1>2. TextsInv'
  <2>1. ASSUME NEW n \in DOMAIN chatList PROVE Followed(n)'
    <3>1. /\ TypeOK /\ Followed(n) /\ SignalsMove(n, 0)
      BY ChatFields, SignalsSame
    <3>2. Coming(n)' = Coming(n)
      BY DEF Coming
    <3>3. ArrivingMove(n, 0)
      BY <3>1, <3>2, ComingSame
    <3>4. SameTexts(n) /\ heard'[n] = heard[n]
      BY DEF SameTexts
    <3> QED
      BY <3>1, <3>3, <3>4, Carried
  <2> QED
    BY <2>1 DEF TextsInv
<1>3. MineSet' = MineSet /\ Called' = Called /\ \A n : MineUpTo(n)' = MineUpTo(n)
  BY DEF MineSet, Called, MineUpTo
<1> QED
  BY <1>1, <1>2, <1>3

\* If the application invites in order, every chat it asked for before has called.
LEMMA initChatKeeps ==
  ASSUME IInv, NEW who \in Contacts, initChat(who)
  PROVE  IInv'
<1>1. TypeOK /\ Counts /\ OneAtATime /\ PassportsSuffice
  BY DEF IInv, PassportInv
<1>2. /\ Len(invited) + rings < MaxChats
      /\ destPassport' = Append(destPassport, who) /\ invited' = Append(invited, who)
      /\ orderly' = (orderly /\ Cardinality(Called) = Len(invited)) /\ asked' = asked + 1
      /\ UNCHANGED <<requests, rings, chatList, board, signals, heard, crashed>>
  BY DEF initChat
<1>3. /\ destPassport' \in Seq(Contacts) /\ Len(destPassport') = Len(destPassport) + 1
      /\ DOMAIN destPassport' = 1 .. Len(destPassport) + 1
      /\ \A i \in 1 .. Len(destPassport) : destPassport'[i] = destPassport[i]
      /\ destPassport'[Len(destPassport) + 1] = who
  BY <1>1, <1>2, Types, Appended
<1>4. /\ invited' \in Seq(Contacts) /\ Len(invited') = Len(invited) + 1
      /\ \A i \in 1 .. Len(invited) : invited'[i] = invited[i]
      /\ invited'[Len(invited) + 1] = who
  BY <1>1, <1>2, Types, Appended
<1>5. /\ LocalInv' /\ TextsInv' /\ MineSet' = MineSet /\ Called' = Called
      /\ \A n : MineUpTo(n)' = MineUpTo(n)
  BY <1>2, ChatsSame
<1>6. /\ Len(invited) \in Nat /\ Len(destPassport) \in Nat /\ asked \in Nat /\ rings \in Nat
      /\ DOMAIN destPassport = 1 .. Len(destPassport) /\ MaxChats \in Nat
      /\ Cardinality(MineSet) \in Nat /\ Cardinality(Called) \in Nat
      /\ Cardinality(Called) <= Cardinality(MineSet)
      /\ Cardinality(Places(requests, "asked")) \in Nat
  BY <1>1, Types, MineCounts, PlacesFinite
<1>7. TypeOK'
  <2>1. asked' \in 0 .. MaxChats
    BY SMTT(60), <1>1, <1>2, <1>6 DEF Counts
  <2> QED
    BY <1>1, <1>2, <1>3, <1>4, <2>1 DEF TypeOK
<1>8. Counts'
  <2>1. /\ Cardinality(MineSet) + Cardinality(Places(requests, "asked")) + asked' = Len(invited')
        /\ Cardinality(Called) + Len(destPassport') = Len(invited')
        /\ Len(invited') + rings <= MaxChats
    <3>1. /\ Cardinality(MineSet) + Cardinality(Places(requests, "asked")) + asked = Len(invited)
          /\ Cardinality(Called) + Len(destPassport) = Len(invited)
      BY <1>1 DEF Counts
    <3>2. /\ asked' = asked + 1 /\ Len(invited') = Len(invited) + 1
          /\ Len(destPassport') = Len(destPassport) + 1
      BY <1>2, <1>3, <1>4
    <3>3. /\ Cardinality(MineSet) + Cardinality(Places(requests, "asked")) + asked' = Len(invited')
          /\ Cardinality(Called) + Len(destPassport') = Len(invited')
      BY SMTT(60), <1>6, <3>1, <3>2
    <3>4. Len(invited') + rings <= MaxChats
      BY <1>2, <1>6, <3>2
    <3> QED
      BY <3>3, <3>4
  <2>2. ASSUME NEW i \in DOMAIN destPassport'
        PROVE  destPassport'[i] = invited'[Len(invited') - Len(destPassport') + i]
    <3>1. /\ Len(invited') - Len(destPassport') + i = Len(invited) - Len(destPassport) + i
          /\ i \in Int
      BY <1>3, <1>4, <1>6
    <3>2. CASE i = Len(destPassport) + 1
      <4>1. Len(invited) - Len(destPassport) + i = Len(invited) + 1
        BY <1>6, <3>2
      <4> QED
        BY <1>3, <1>4, <3>1, <3>2, <4>1
    <3>3. CASE i # Len(destPassport) + 1
      <4>1. i \in DOMAIN destPassport /\ destPassport'[i] = destPassport[i]
        BY <1>3, <1>6, <3>3
      <4>2. Len(invited) - Len(destPassport) + i \in 1 .. Len(invited)
        BY SMTT(60), <1>1, <1>6, <4>1 DEF Counts
      <4>3. destPassport[i] = invited[Len(invited) - Len(destPassport) + i]
        BY <1>1, <4>1 DEF Counts
      <4> QED
        BY <1>4, <3>1, <4>1, <4>2, <4>3
    <3> QED
      BY <3>2, <3>3
  <2> QED
    BY <1>2, <1>5, <2>1, <2>2 DEF Counts
<1>9. OneAtATime'
  <2> SUFFICES ASSUME orderly, Cardinality(Called) = Len(invited)
               PROVE  /\ Len(destPassport') <= 1
                      /\ \A n \in DOMAIN chatList :
                           /\ chatList[n].isMine /\ chatList[n].called = Nobody =>
                                /\ Cardinality(MineUpTo(n)) = Len(invited')
                                /\ chatList[n].taken \in {Nobody, invited'[Len(invited')]}
                           /\ chatList[n].called # Nobody =>
                                chatList[n].called = invited'[Cardinality(MineUpTo(n))]
    BY <1>2, <1>5 DEF OneAtATime
  <2>1. Len(destPassport') <= 1
    BY <1>1, <1>3, <1>6 DEF Counts
  <2>2. MineSet = Called
    <3>1. Cardinality(MineSet) = Cardinality(Called)
      BY <1>1, <1>6 DEF Counts
    <3> QED
      BY <1>1, <3>1, MineCounts
  <2>3. ASSUME NEW n \in DOMAIN chatList
        PROVE  /\ ~(chatList[n].isMine /\ chatList[n].called = Nobody)
               /\ chatList[n].called # Nobody =>
                    chatList[n].called = invited'[Cardinality(MineUpTo(n))]
    <3>1. ~(chatList[n].isMine /\ chatList[n].called = Nobody)
      BY <2>2 DEF MineSet, Called
    <3>2. ASSUME chatList[n].called # Nobody
          PROVE  Cardinality(MineUpTo(n)) \in 1 .. Len(invited)
      <4>1. chatList[n].isMine
        BY <1>1, <3>2 DEF TypeOK
      <4>2. /\ Cardinality(MineUpTo(n)) \in Nat /\ Cardinality(MineUpTo(n)) >= 1
            /\ Cardinality(MineUpTo(n)) <= Cardinality(MineSet)
        BY <1>1, <4>1, MineCounts
      <4> QED
        BY <1>6, <2>2, <4>2
    <3>3. chatList[n].called # Nobody => chatList[n].called = invited[Cardinality(MineUpTo(n))]
      BY <1>1 DEF OneAtATime
    <3> QED
      BY <1>4, <3>1, <3>2, <3>3
  <2> QED
    BY <2>1, <2>3
<1> QED
  BY <1>1, <1>2, <1>5, <1>7, <1>8, <1>9 DEF IInv, PassportInv, PassportsSuffice

LEMMA ServerAnswersXfrKeeps ==
  ASSUME IInv, ServerAnswersXfr
  PROVE  IInv'
<1>1. TypeOK /\ Counts /\ OneAtATime /\ PassportsSuffice
  BY DEF IInv, PassportInv
<1>2. /\ asked > 0 /\ asked' = asked - 1 /\ requests' = Append(requests, "asked")
      /\ UNCHANGED <<rings, client, chatList, board, signals, heard, crashed>>
  BY DEF ServerAnswersXfr
<1>3. /\ LocalInv' /\ TextsInv' /\ MineSet' = MineSet /\ Called' = Called
      /\ \A n : MineUpTo(n)' = MineUpTo(n)
  BY <1>2, ChatsSame
<1>4. requests' \in Seq({"asked", "rung"})
  BY <1>1, <1>2, Types, Appended
<1>5. Cardinality(Places(requests', "asked")) = Cardinality(Places(requests, "asked")) + 1
  <2>1. requests \in Seq({"asked", "rung"}) /\ "asked" \in {"asked", "rung"}
    BY <1>1, Types
  <2>2. Cardinality(Places(Append(requests, "asked"), "asked"))
          = Cardinality(Places(requests, "asked")) + (IF "asked" = "asked" THEN 1 ELSE 0)
    BY <2>1, PlacesAppended
  <2> QED
    BY <1>2, <2>2
<1>6. TypeOK'
  <2>1. asked' \in 0 .. MaxChats
    BY <1>1, <1>2, BoundsAssumption DEF TypeOK
  <2> QED
    BY <1>1, <1>2, <1>4, <2>1 DEF TypeOK, client
<1>7. Counts'
  <2>1. Cardinality(MineSet) + Cardinality(Places(requests', "asked")) + asked' = Len(invited)
    <3>1. /\ Cardinality(MineSet) \in Nat /\ Cardinality(Places(requests, "asked")) \in Nat
          /\ asked \in Nat
      BY <1>1, Types, MineCounts, PlacesFinite
    <3> QED
      BY SMTT(60), <1>1, <1>2, <1>5, <3>1 DEF Counts
  <2> QED
    BY <1>1, <1>2, <1>3, <2>1 DEF Counts, client
<1>8. OneAtATime'
  BY <1>1, <1>2, <1>3 DEF OneAtATime, client
<1> QED
  BY <1>1, <1>2, <1>3, <1>6, <1>7, <1>8 DEF IInv, PassportInv, PassportsSuffice

LEMMA ContactInvitesKeeps ==
  ASSUME IInv, ContactInvites
  PROVE  IInv'
<1>1. TypeOK /\ Counts /\ OneAtATime /\ PassportsSuffice
  BY DEF IInv, PassportInv
<1>2. /\ Len(invited) + rings < MaxChats /\ rings' = rings + 1
      /\ requests' = Append(requests, "rung")
      /\ UNCHANGED <<asked, client, chatList, board, signals, heard, crashed>>
  BY DEF ContactInvites
<1>3. /\ LocalInv' /\ TextsInv' /\ MineSet' = MineSet /\ Called' = Called
      /\ \A n : MineUpTo(n)' = MineUpTo(n)
  BY <1>2, ChatsSame
<1>4. requests' \in Seq({"asked", "rung"})
  BY <1>1, <1>2, Types, Appended
<1>5. Cardinality(Places(requests', "asked")) = Cardinality(Places(requests, "asked"))
  <2>1. requests \in Seq({"asked", "rung"}) /\ "rung" \in {"asked", "rung"}
    BY <1>1, Types
  <2>2. Cardinality(Places(Append(requests, "rung"), "asked"))
          = Cardinality(Places(requests, "asked")) + (IF "rung" = "asked" THEN 1 ELSE 0)
    BY <2>1, PlacesAppended
  <2>3. Cardinality(Places(requests, "asked")) \in Nat
    BY <2>1, PlacesFinite
  <2> QED
    BY <1>2, <2>2, <2>3
<1>6. /\ rings \in Nat /\ Len(invited) \in Nat /\ MaxChats \in Nat
  BY <1>1, Types
<1>7. TypeOK'
  <2>1. rings' \in 0 .. MaxChats
    BY <1>2, <1>6
  <2> QED
    BY <1>1, <1>2, <1>4, <2>1 DEF TypeOK, client
<1>8. Counts'
  <2>1. Len(invited) + rings' <= MaxChats
    BY <1>2, <1>6
  <2> QED
    BY <1>1, <1>2, <1>3, <1>5, <2>1 DEF Counts, client
<1>9. OneAtATime'
  BY <1>1, <1>2, <1>3 DEF OneAtATime, client
<1> QED
  BY <1>1, <1>2, <1>3, <1>7, <1>8, <1>9 DEF IInv, PassportInv, PassportsSuffice

\* A new chat: nothing is to come, and if the client starts it, it is the last of those.
LEMMA chatRequestKeeps ==
  ASSUME IInv, chatRequest
  PROVE  IInv'
<1>1. TypeOK /\ Counts /\ OneAtATime /\ PassportsSuffice
  BY DEF IInv, PassportInv
<1>2. PICK new, c, b :
        /\ new = Len(chatList) + 1
        /\ c = [isMine |-> Head(requests) = "asked", thread |-> "started", socket |-> FALSE,
                endChat |-> FALSE, buf |-> <<>>, taken |-> Nobody, called |-> Nobody, said |-> 0]
        /\ b = [stage |-> "idle", wire |-> <<>>, texts |-> 0, left |-> FALSE, lost |-> FALSE]
  OBVIOUS
<1>3. /\ requests # <<>> /\ requests' = Tail(requests)
      /\ chatList' = Append(chatList, c) /\ board' = Append(board, b)
      /\ heard' = Append(heard, <<>>)
      /\ UNCHANGED <<asked, rings, client, signals, crashed>>
  BY <1>2 DEF chatRequest
<1>4. /\ c \in ParserSB /\ c.thread = "started" /\ c.socket = FALSE /\ c.buf = <<>>
      /\ c.taken = Nobody /\ c.called = Nobody /\ c.isMine = (Head(requests) = "asked")
      /\ b \in Switchboard /\ b.stage = "idle" /\ b.wire = <<>> /\ b.texts = 0 /\ b.left = FALSE
  BY <1>2, EmptySeq DEF ParserSB, Switchboard
<1>5. /\ chatList' \in Seq(ParserSB) /\ DOMAIN chatList' = 1 .. Len(chatList) + 1
      /\ DOMAIN chatList = 1 .. Len(chatList) /\ Len(chatList) \in Nat
      /\ \A n \in DOMAIN chatList : chatList'[n] = chatList[n]
      /\ chatList'[new] = c
  BY <1>1, <1>2, <1>3, <1>4, Types, Appended
<1>6. /\ board' \in Seq(Switchboard) /\ DOMAIN board' = DOMAIN chatList'
      /\ \A n \in DOMAIN chatList : board'[n] = board[n]
      /\ board'[new] = b
  <2>1. board \in Seq(Switchboard) /\ Len(board) = Len(chatList)
    BY <1>1, Types
  <2>2. /\ Append(board, b) \in Seq(Switchboard) /\ DOMAIN Append(board, b) = 1 .. Len(board) + 1
        /\ \A n \in 1 .. Len(board) : Append(board, b)[n] = board[n]
        /\ Append(board, b)[Len(board) + 1] = b
    BY <1>4, <2>1, Appended
  <2> QED
    BY <1>2, <1>3, <1>5, <2>1, <2>2
<1>7. /\ heard' \in Seq(Seq(Hearings)) /\ DOMAIN heard' = DOMAIN chatList'
      /\ \A n \in DOMAIN chatList : heard'[n] = heard[n]
      /\ heard'[new] = <<>>
  <2>1. heard \in Seq(Seq(Hearings)) /\ Len(heard) = Len(chatList) /\ <<>> \in Seq(Hearings)
    BY <1>1, Types, EmptySeq
  <2>2. /\ Append(heard, <<>>) \in Seq(Seq(Hearings))
        /\ DOMAIN Append(heard, <<>>) = 1 .. Len(heard) + 1
        /\ \A n \in 1 .. Len(heard) : Append(heard, <<>>)[n] = heard[n]
        /\ Append(heard, <<>>)[Len(heard) + 1] = <<>>
    BY <2>1, Appended
  <2> QED
    BY <1>2, <1>3, <1>5, <2>1, <2>2
<1>8. /\ new \in Nat /\ new \notin DOMAIN chatList /\ new \in DOMAIN chatList'
      /\ \A n \in DOMAIN chatList' : n # new => n \in DOMAIN chatList
      /\ \A n \in DOMAIN chatList : n \in DOMAIN chatList' /\ n \in Nat /\ n < new
  BY <1>2, <1>5
<1>9. /\ Tail(requests) \in Seq({"asked", "rung"})
      /\ Cardinality(Places(requests, "asked"))
           = Cardinality(Places(Tail(requests), "asked")) + (IF c.isMine THEN 1 ELSE 0)
      /\ Cardinality(Places(Tail(requests), "asked")) \in Nat
  <2>1. requests \in Seq({"asked", "rung"})
    BY <1>1, Types
  <2>2. Tail(requests) \in Seq({"asked", "rung"})
    BY <1>3, <2>1, Taken
  <2>3. Cardinality(Places(requests, "asked"))
          = Cardinality(Places(Tail(requests), "asked")) + (IF Head(requests) = "asked" THEN 1 ELSE 0)
    BY <1>3, <2>1, PlacesTaken
  <2>4. Cardinality(Places(Tail(requests), "asked")) \in Nat
    BY <2>2, PlacesFinite
  <2> QED
    BY <1>4, <2>2, <2>3, <2>4
<1>10. TypeOK'
  <2>1. signals' \in Seq(Signal(DOMAIN chatList'))
    <3>1. Signal(DOMAIN chatList) \subseteq Signal(DOMAIN chatList')
      BY <1>8 DEF Signal
    <3>2. signals \in Seq(Signal(DOMAIN chatList))
      BY <1>1, Types
    <3> QED
      BY <1>3, <3>1, <3>2, SeqOfMore
  <2>2. \A n \in DOMAIN chatList' :
          /\ chatList'[n].socket <=> chatList'[n].thread = "running"
          /\ chatList'[n].taken # Nobody \/ chatList'[n].called # Nobody => chatList'[n].isMine
    <3>1. ASSUME NEW n \in DOMAIN chatList
          PROVE  /\ chatList'[n].socket <=> chatList'[n].thread = "running"
                 /\ chatList'[n].taken # Nobody \/ chatList'[n].called # Nobody => chatList'[n].isMine
      BY <1>1, <1>5 DEF TypeOK
    <3>2. /\ chatList'[new].socket <=> chatList'[new].thread = "running"
          /\ chatList'[new].taken # Nobody \/ chatList'[new].called # Nobody => chatList'[new].isMine
      BY <1>4, <1>5
    <3> QED
      BY <1>8, <3>1, <3>2
  <2>3. /\ asked' \in 0 .. MaxChats /\ rings' \in 0 .. MaxChats /\ destPassport' \in Seq(Contacts)
        /\ invited' \in Seq(Contacts) /\ orderly' \in BOOLEAN
        /\ crashed' \in {"no", "passport", "socket"} /\ requests' \in Seq({"asked", "rung"})
    BY <1>1, <1>3, <1>9 DEF TypeOK, client
  <2> QED
    BY <1>5, <1>6, <1>7, <2>1, <2>2, <2>3 DEF TypeOK, Signal, Hearings
<1>11. LocalInv'
  <2>1. ASSUME NEW n \in DOMAIN chatList PROVE Local(chatList'[n], board'[n])
    BY <1>5, <1>6 DEF IInv, LocalInv
  <2>2. Local(c, b)
    <3>1. Stages(c, b)
      BY <1>4 DEF Stages, Early
    <3>2. c.buf \o b.wire = <<>>
      <4>1. <<>> \o <<>> = <<>>
        OBVIOUS
      <4> QED
        BY <1>4, <4>1
    <3> QED
      BY <3>1, <3>2, NothingAhead
  <2> QED
    BY <1>5, <1>6, <1>8, <2>1, <2>2 DEF LocalInv
<1>12. TextsInv'
  <2>1. ASSUME NEW n \in DOMAIN chatList PROVE Followed(n)'
    <3>1. Followed(n) /\ SignalsMove(n, 0)
      BY <1>1, <1>3, ChatFields, SignalsSame
    <3>2. Coming(n)' = Coming(n)
      BY <1>5, <1>6 DEF Coming
    <3>3. ArrivingMove(n, 0)
      BY <1>1, <3>2, ComingSame
    <3>4. SameTexts(n) /\ heard'[n] = heard[n]
      BY <1>6, <1>7 DEF SameTexts
    <3> QED
      BY <1>1, <3>1, <3>3, <3>4, Carried
  <2>2. Followed(new)'
    <3>1. Signalled(new)' = {}
      BY <1>1, <1>3, <1>8, SignalTypes DEF Signalled
    <3>2. Arriving(new)' = {}
      <4>1. Coming(new)' = <<>>
        <5>1. <<>> \o <<>> = <<>>
          OBVIOUS
        <5> QED
          BY <1>4, <1>5, <1>6, <5>1 DEF Coming
      <4>2. DOMAIN <<>> = {}
        OBVIOUS
      <4> QED
        BY <4>1, <4>2 DEF Arriving
    <3>3. Total(new)' = 0 /\ Len(heard'[new]) = 0 /\ DOMAIN heard'[new] = {}
      <4>1. Len(<<>>) = 0 /\ DOMAIN <<>> = {}
        OBVIOUS
      <4> QED
        BY <1>4, <1>6, <1>7, <4>1 DEF Total
    <3>4. InTransit(new)' /\ NothingLost(new)' /\ HeardInOrder(new)'
      BY <3>1, <3>2, <3>3 DEF InTransit, NothingLost, HeardInOrder
    <3> QED
      BY <3>4 DEF Followed
  <2> QED
    BY <1>8, <2>1, <2>2 DEF TextsInv
<1>13. Called' = Called
  BY <1>4, <1>5, <1>8 DEF Called
<1>14. /\ c.isMine => MineSet' = MineSet \cup {new} /\ MineUpTo(new)' = MineSet \cup {new}
       /\ ~c.isMine => MineSet' = MineSet
       /\ \A n \in DOMAIN chatList : MineUpTo(n)' = MineUpTo(n)
  <2>1. c.isMine => MineSet' = MineSet \cup {new}
    BY <1>5, <1>8 DEF MineSet
  <2>2. ~c.isMine => MineSet' = MineSet
    BY <1>5, <1>8 DEF MineSet
  <2>3. MineUpTo(new)' = MineSet'
    BY <1>2, <1>5 DEF MineUpTo, MineSet
  <2>4. \A n \in DOMAIN chatList : MineUpTo(n)' = MineUpTo(n)
    BY <1>5 DEF MineUpTo
  <2> QED
    BY <2>1, <2>2, <2>3, <2>4
<1>15. /\ Cardinality(MineSet') = Cardinality(MineSet) + (IF c.isMine THEN 1 ELSE 0)
       /\ c.isMine => Cardinality(MineUpTo(new)') = Cardinality(MineSet) + 1
  <2>1. IsFiniteSet(MineSet) /\ new \notin MineSet /\ Cardinality(MineSet) \in Nat
    BY <1>1, <1>8, MineCounts DEF MineSet
  <2>2. Cardinality(MineSet \cup {new}) = Cardinality(MineSet) + 1
    BY <2>1, FS_AddElement
  <2>3. CASE c.isMine
    BY <1>14, <2>2, <2>3
  <2>4. CASE ~c.isMine
    BY <1>14, <2>1, <2>4
  <2> QED
    BY <2>3, <2>4
<1>16. /\ Cardinality(MineSet) \in Nat /\ Cardinality(Called) \in Nat /\ asked \in Nat
       /\ Cardinality(Called) <= Cardinality(MineSet)
       /\ Len(invited) \in Nat /\ Len(destPassport) \in Nat
  BY <1>1, MineCounts, Types
<1>17. Counts'
  <2>1. Cardinality(MineSet') + Cardinality(Places(Tail(requests), "asked")) + asked = Len(invited)
    <3>1. Cardinality(MineSet) + Cardinality(Places(requests, "asked")) + asked = Len(invited)
      BY <1>1 DEF Counts
    <3>2. CASE c.isMine
      BY <1>9, <1>15, <1>16, <3>1, <3>2
    <3>3. CASE ~c.isMine
      BY <1>9, <1>15, <1>16, <3>1, <3>3
    <3> QED
      BY <3>2, <3>3
  <2> QED
    BY <1>1, <1>3, <1>13, <2>1 DEF Counts, client
<1>18. OneAtATime'
  <2> SUFFICES ASSUME orderly, NEW n \in DOMAIN chatList'
               PROVE  /\ chatList'[n].isMine /\ chatList'[n].called = Nobody =>
                           /\ Cardinality(MineUpTo(n)') = Len(invited)
                           /\ chatList'[n].taken \in {Nobody, invited[Len(invited)]}
                      /\ chatList'[n].called # Nobody =>
                           chatList'[n].called = invited[Cardinality(MineUpTo(n)')]
    BY <1>1, <1>3 DEF OneAtATime, client
  <2>1. CASE n = new
    <3>1. c.isMine => Cardinality(MineSet) + 1 = Len(invited)
      <4>1. Len(destPassport) <= 1
        BY <1>1 DEF OneAtATime
      <4>2. /\ Cardinality(MineSet) + Cardinality(Places(requests, "asked")) + asked = Len(invited)
            /\ Cardinality(Called) + Len(destPassport) = Len(invited)
        BY <1>1 DEF Counts
      <4>3. c.isMine => Cardinality(Places(requests, "asked")) >= 1
        BY <1>9
      <4>4. Cardinality(Places(requests, "asked")) \in Nat
        BY <1>9
      <4> QED
        BY <1>16, <4>1, <4>2, <4>3, <4>4
    <3> QED
      BY <1>4, <1>5, <1>15, <2>1, <3>1
  <2>2. CASE n # new
    BY <1>1, <1>5, <1>8, <1>14, <2>2 DEF OneAtATime
  <2> QED
    BY <2>1, <2>2
<1> QED
  BY <1>1, <1>3, <1>10, <1>11, <1>12, <1>17, <1>18 DEF IInv, PassportInv, PassportsSuffice

-----------------------------------------------------------------------------
(* The application's thread *)

\* What becomes of the chat whose signal is taken: it is the same, or the application
\* answers, and the switchboard may acknowledge.
LEMMA SendView ==
  ASSUME IInv, NEW n \in DOMAIN chatList,
         UNCHANGED <<chatList, board, crashed>> \/ sendChat(n)
  PROVE  \E c, b :
           /\ ChatStep(n, c, b) /\ Local(c, b) /\ (c.socket <=> c.thread = "running")
           /\ c.called = chatList[n].called /\ c.taken = chatList[n].taken
           /\ b.texts = board[n].texts /\ b.left = board[n].left /\ ArrivingMove(n, 0)
           /\ crashed' \in {"no", "passport", "socket"} /\ crashed' # "passport"
<1>1. /\ TypeOK /\ crashed \in {"no", "passport", "socket"} /\ crashed # "passport"
      /\ chatList[n] \in ParserSB /\ board[n] \in Switchboard
  BY ChatFields DEF IInv, TypeOK, PassportInv, PassportsSuffice
<1>2. CASE UNCHANGED <<chatList, board>> /\ crashed' \in {crashed, "socket"}
  <2>1. PICK c, b : c = chatList[n] /\ b = board[n]
    OBVIOUS
  <2>2. ChatStep(n, c, b)
    BY <1>1, <1>2, <2>1, ChatFields DEF ChatStep
  <2>3. Local(c, b) /\ (c.socket <=> c.thread = "running")
    BY <2>1, ChatFields
  <2>4. ArrivingMove(n, 0)
    BY <2>1, <2>2, LeavesComing
  <2> QED
    BY <1>1, <1>2, <2>1, <2>2, <2>3, <2>4
<1>3. CASE chatList[n].socket /\ sendChat(n)
  <2>1. PICK said, c :
          said = chatList[n].said + 1 /\ c = [chatList[n] EXCEPT !.said = said]
    OBVIOUS
  <2>2. PICK e, b :
          /\ e = Cmd("ACK")
          /\ b = [board[n] EXCEPT !.wire = IF board[n].stage = "talking" THEN Append(@, e) ELSE @]
    OBVIOUS
  <2>3. /\ c \in ParserSB /\ c.isMine = chatList[n].isMine /\ c.buf = chatList[n].buf
        /\ c.called = chatList[n].called /\ c.taken = chatList[n].taken
        /\ c.thread = chatList[n].thread /\ c.socket = chatList[n].socket
    <3>1. chatList[n].said \in Nat
      BY <1>1 DEF ParserSB
    <3>2. said \in Nat
      BY <2>1, <3>1
    <3> QED
      BY <1>1, <2>1, <3>2 DEF ParserSB
  <2>4. e \in Commands /\ e.cmd = "ACK"
    BY <2>2 DEF Commands, Cmd
  <2>5. /\ b \in Switchboard /\ b.stage = board[n].stage
        /\ b.wire = IF board[n].stage = "talking" THEN Append(board[n].wire, e) ELSE board[n].wire
        /\ b.texts = board[n].texts /\ b.left = board[n].left
    <3>1. board[n].wire \in Seq(Commands)
      BY <1>1, ChatTypes
    <3>2. Append(board[n].wire, e) \in Seq(Commands)
      BY <2>4, <3>1, Appended
    <3> QED
      BY <1>1, <2>2, <3>1, <3>2 DEF Switchboard
  <2>6. ChatStep(n, c, b)
    <3>1. chatList' = [chatList EXCEPT ![n] = c]
      BY <1>3, <2>1 DEF sendChat
    <3>2. board' = [board EXCEPT ![n] = b]
      BY <1>3, <2>2 DEF sendChat
    <3> QED
      BY <2>3, <2>5, <3>1, <3>2 DEF ChatStep
  <2>7. crashed' = crashed
    BY <1>3 DEF sendChat
  <2>8. c.socket <=> c.thread = "running"
    BY <2>3, ChatFields
  <2>9. /\ Stages(chatList[n], board[n]) /\ Ahead(Coming(n), chatList[n], board[n])
    BY ChatFields DEF Local, Coming
  <2>10. Stages(c, b)
    BY <2>3, <2>5, <2>9 DEF Stages
  <2>11. CASE board[n].stage = "talking"
    <3>1. c.buf \o b.wire = Append(Coming(n), e)
      <4>1. PICK p, w : p = chatList[n].buf /\ w = board[n].wire
        OBVIOUS
      <4>2. p \in Seq(Commands) /\ w \in Seq(Commands)
        BY <1>1, <4>1, ChatTypes
      <4>3. p \o Append(w, e) = Append(p \o w, e)
        BY <2>4, <4>2, JoinedAppend
      <4> QED
        BY <2>3, <2>5, <2>11, <4>1, <4>3 DEF Coming
    <3>2. ArrivingMove(n, 0)
      <4>1. Coming(n)' = Append(Coming(n), e)
        BY <1>1, <2>6, <3>1, StepView
      <4> QED
        BY <1>1, <2>4, <4>1, ComingAppended DEF Written
    <3>3. /\ DOMAIN Append(Coming(n), e) = 1 .. Len(Coming(n)) + 1
          /\ DOMAIN Coming(n) = 1 .. Len(Coming(n)) /\ Len(Coming(n)) \in Nat
          /\ \A i \in 1 .. Len(Coming(n)) : Append(Coming(n), e)[i] = Coming(n)[i]
          /\ Append(Coming(n), e)[Len(Coming(n)) + 1] = e
      BY <1>1, <2>4, ChatTypes, Appended
    <3>4. ASSUME NEW i \in DOMAIN Append(Coming(n), e)
          PROVE  Append(Coming(n), e)[i].cmd \notin {"USR", "215"}
      <4>1. CASE i = Len(Coming(n)) + 1
        BY <2>4, <3>3, <4>1
      <4>2. CASE i # Len(Coming(n)) + 1
        <5>1. i \in DOMAIN Coming(n) /\ Append(Coming(n), e)[i] = Coming(n)[i]
          BY <3>3, <4>2
        <5> QED
          BY <2>9, <2>11, <5>1 DEF Ahead
      <4> QED
        BY <4>1, <4>2
    <3>5. Local(c, b)
      BY <2>5, <2>10, <2>11, <3>1, <3>4 DEF Local, Ahead
    <3> QED
      BY <1>1, <2>3, <2>5, <2>6, <2>7, <2>8, <3>2, <3>5
  <2>12. CASE board[n].stage # "talking"
    <3>1. c.buf \o b.wire = chatList[n].buf \o board[n].wire
      BY <2>3, <2>5, <2>12
    <3>2. ArrivingMove(n, 0)
      BY <2>6, <3>1, LeavesComing
    <3>3. Ahead(Coming(n), c, b)
      BY <2>3, <2>5, <2>9 DEF Ahead
    <3>4. Local(c, b)
      BY <2>10, <3>1, <3>3 DEF Local, Coming
    <3> QED
      BY <1>1, <2>3, <2>5, <2>6, <2>7, <2>8, <3>2, <3>4
  <2> QED
    BY <2>11, <2>12
<1> QED
  BY <1>2, <1>3 DEF sendChat

LEMMA SignalTakenKeeps ==
  ASSUME IInv, SignalTaken
  PROVE  IInv'
<1>1. TypeOK /\ TextsInv
  BY DEF IInv
<1>2. PICK n : n = Head(signals).chat
  OBVIOUS
<1>3. /\ signals # <<>> /\ signals' = Tail(signals)
      /\ heard' = [heard EXCEPT ![n] = Append(@, [what |-> Head(signals).what, nr |-> Head(signals).nr])]
      /\ UNCHANGED <<chatList, board, crashed>> \/ sendChat(n)
      /\ UNCHANGED <<server, client>>
  BY <1>2 DEF SignalTaken
<1>4. /\ Tail(signals) \in Seq(Signal(DOMAIN chatList)) /\ Len(signals) \in Nat /\ Len(signals) >= 1
      /\ DOMAIN signals = 1 .. Len(signals) /\ DOMAIN signals' = 1 .. Len(signals) - 1
      /\ Head(signals) = signals[1] /\ \A i \in 1 .. Len(signals) - 1 : signals'[i] = signals[i + 1]
  BY <1>1, <1>3, Types, Taken
<1>5. 1 \in DOMAIN signals /\ n \in DOMAIN chatList
  <2>1. 1 \in DOMAIN signals
    BY <1>4
  <2> QED
    BY <1>1, <1>2, <1>4, <2>1, SignalTypes
<1>6. PICK c, b :
        /\ ChatStep(n, c, b) /\ Local(c, b) /\ (c.socket <=> c.thread = "running")
        /\ c.called = chatList[n].called /\ c.taken = chatList[n].taken
        /\ b.texts = board[n].texts /\ b.left = board[n].left /\ ArrivingMove(n, 0)
        /\ crashed' \in {"no", "passport", "socket"} /\ crashed' # "passport"
  BY <1>3, <1>5, SendView
<1>7. PICK h : h = [what |-> signals[1].what, nr |-> signals[1].nr]
  OBVIOUS
<1>8. /\ heard' \in Seq(Seq(Hearings)) /\ DOMAIN heard' = DOMAIN heard
      /\ heard'[n] = Append(heard[n], h)
      /\ \A m \in DOMAIN chatList : m # n => heard'[m] = heard[m]
  <2>1. h \in Hearings
    BY <1>1, <1>5, <1>7, SignalTypes DEF Hearings, Written
  <2>2. heard[n] \in Seq(Hearings) /\ heard \in Seq(Seq(Hearings)) /\ DOMAIN heard = DOMAIN chatList
    BY <1>1, <1>5, ChatTypes, Types
  <2>3. Append(heard[n], h) \in Seq(Hearings)
    BY <2>1, <2>2, Appended
  <2>4. heard' = [heard EXCEPT ![n] = Append(heard[n], h)]
    BY <1>3, <1>4, <1>7
  <2> QED
    BY <1>5, <2>2, <2>3, <2>4, Updated
<1>9. TypeOK'
  <2>1. c.taken # Nobody \/ c.called # Nobody => c.isMine
    BY <1>1, <1>5, <1>6 DEF TypeOK, ChatStep
  <2>2. destPassport' \in Seq(Contacts) /\ UNCHANGED server /\ UNCHANGED <<invited, orderly>>
    BY <1>1, <1>3, Types DEF client
  <2> QED
    BY <1>1, <1>3, <1>4, <1>5, <1>6, <1>8, <2>1, <2>2, StepTypes
<1>10. LocalInv'
  BY <1>1, <1>5, <1>6, StepLocal DEF IInv
<1>11. PassportInv'
  BY <1>1, <1>3, <1>5, <1>6, StepPassports DEF IInv
<1>12. Followed(n)'
  <2>1. SameTexts(n)
    <3>1. board'[n] = b
      BY ZenonT(60), <1>1, <1>5, <1>6, StepView
    <3> QED
      BY <1>6, <3>1 DEF SameTexts
  <2>2. 1 \in Signalled(n)
    BY <1>2, <1>4, <1>5 DEF Signalled
  <2>3. SignalsLeft(n)
    <3>1. ASSUME NEW i \in Signalled(n)'
          PROVE  i \in Nat \ {0} /\ i + 1 \in Signalled(n) /\ signals'[i] = signals[i + 1]
      BY <1>4 DEF Signalled
    <3>2. ASSUME NEW i \in Signalled(n), i # 1 PROVE i - 1 \in Signalled(n)'
      <4>1. i - 1 \in 1 .. Len(signals) - 1 /\ (i - 1) + 1 = i
        BY <1>4, <3>2 DEF Signalled
      <4> QED
        BY <1>4, <4>1 DEF Signalled
    <3> QED
      BY <3>1, <3>2 DEF SignalsLeft
  <2> QED
    BY <1>1, <1>5, <1>6, <1>7, <1>8, <2>1, <2>2, <2>3, Hears DEF TextsInv
<1>13. ASSUME NEW m \in DOMAIN chatList, m # n PROVE Followed(m)'
  <2>1. SameTexts(m) /\ Coming(m)' = Coming(m)
    BY <1>1, <1>5, <1>6, <1>13, StepView DEF SameTexts
  <2>2. ArrivingMove(m, 0)
    BY <1>1, <2>1, ComingSame
  <2>3. SignalsMove(m, 1)
    <3>1. ASSUME NEW i \in Signalled(m)'
          PROVE  i \in Nat /\ i + 1 \in Signalled(m) /\ signals'[i] = signals[i + 1]
      BY <1>4 DEF Signalled
    <3>2. ASSUME NEW i \in Signalled(m) PROVE i - 1 \in Signalled(m)'
      <4>1. i # 1
        BY <1>2, <1>4, <1>13 DEF Signalled
      <4>2. i - 1 \in 1 .. Len(signals) - 1 /\ (i - 1) + 1 = i
        BY <1>4, <4>1 DEF Signalled
      <4> QED
        BY <1>4, <4>2 DEF Signalled
    <3> QED
      BY <3>1, <3>2 DEF SignalsMove
  <2>4. Followed(m) /\ heard'[m] = heard[m]
    BY <1>1, <1>8, <1>13 DEF TextsInv
  <2> QED
    BY <1>1, <2>1, <2>2, <2>3, <2>4, Carried
<1>14. TextsInv'
  <2>1. DOMAIN chatList' = DOMAIN chatList
    BY <1>1, <1>5, <1>6, StepView
  <2> QED
    BY <1>12, <1>13, <2>1 DEF TextsInv
<1> QED
  BY <1>9, <1>10, <1>11, <1>14 DEF IInv

-----------------------------------------------------------------------------
(* The invariant and the theorems *)

LEMMA InitInvariant ==
  ASSUME Init
  PROVE  IInv
<1>1. /\ requests = <<>> /\ asked = 0 /\ rings = 0
      /\ destPassport = <<>> /\ invited = <<>> /\ orderly = TRUE
      /\ chatList = <<>> /\ board = <<>> /\ signals = <<>> /\ heard = <<>>
      /\ crashed = "no"
  BY DEF Init
<1>2. DOMAIN <<>> = {} /\ Len(<<>>) = 0
  OBVIOUS
<1>3. \A S : <<>> \in Seq(S)
  BY EmptySeq
<1>4. TypeOK
  BY <1>1, <1>2, <1>3, BoundsAssumption DEF TypeOK
<1>5. LocalInv /\ TextsInv
  BY <1>1, <1>2 DEF LocalInv, TextsInv
<1>6. MineSet = {} /\ Called = {} /\ Places(requests, "asked") = {}
  BY <1>1, <1>2 DEF MineSet, Called, Places
<1>7. Counts
  BY <1>1, <1>2, <1>6, FS_EmptySet, BoundsAssumption DEF Counts
<1>8. OneAtATime
  BY <1>1, <1>2 DEF OneAtATime
<1> QED
  BY <1>1, <1>4, <1>5, <1>7, <1>8 DEF IInv, PassportInv, PassportsSuffice

LEMMA StutterKeeps ==
  ASSUME IInv, UNCHANGED vars
  PROVE  IInv'
<1>1. /\ UNCHANGED <<chatList, board, signals, heard>>
      /\ UNCHANGED <<requests, asked, rings, destPassport, invited, orderly, crashed>>
  BY DEF vars, client, server
<1>2. /\ LocalInv' /\ TextsInv' /\ MineSet' = MineSet /\ Called' = Called
      /\ \A n : MineUpTo(n)' = MineUpTo(n)
  BY <1>1, ChatsSame
<1>3. TypeOK'
  BY <1>1 DEF IInv, TypeOK
<1>4. Counts' /\ OneAtATime' /\ PassportsSuffice'
  BY <1>1, <1>2 DEF IInv, PassportInv, Counts, OneAtATime, PassportsSuffice
<1> QED
  BY <1>2, <1>3, <1>4 DEF IInv, PassportInv

LEMMA StepInvariant ==
  ASSUME IInv, [Next]_vars
  PROVE  IInv'
<1>1. CASE chatRequest
  BY <1>1, chatRequestKeeps
<1>2. CASE SignalTaken
  BY <1>2, SignalTakenKeeps
<1>3. CASE ServerAnswersXfr
  BY <1>3, ServerAnswersXfrKeeps
<1>4. CASE ContactInvites
  BY <1>4, ContactInvitesKeeps
<1>5. ASSUME NEW who \in Contacts, initChat(who) PROVE IInv'
  BY <1>5, initChatKeeps
<1>6. ASSUME NEW n \in DOMAIN chatList, run(n) PROVE IInv'
  <2>1. CASE RunStarts(n)
    BY <2>1, RunStartsKeeps
  <2>2. CASE Recv(n)
    BY <2>2, RecvKeeps
  <2>3. CASE parse(n)
    BY <2>3, parseSilentlyKeeps, parseMsgKeeps, parseByeKeeps, parseErrorKeeps, parseUsrKeeps,
       nextChatPassportKeeps DEF parse
  <2>4. CASE RunEnds(n)
    BY <2>4, RunEndsKeeps
  <2> QED
    BY <1>6, <2>1, <2>2, <2>3, <2>4 DEF run
<1>7. ASSUME NEW n \in DOMAIN chatList, BoardGreets(n) PROVE IInv'
  BY <1>7, BoardGreetsKeeps
<1>8. ASSUME NEW n \in DOMAIN chatList, BoardCalls(n) PROVE IInv'
  BY <1>8, BoardCallsKeeps
<1>9. ASSUME NEW n \in DOMAIN chatList, ContactWrites(n) PROVE IInv'
  BY <1>9, ContactWritesKeeps
<1>10. ASSUME NEW n \in DOMAIN chatList, ContactLeaves(n) PROVE IInv'
  BY <1>10, ContactLeavesKeeps
<1>11. ASSUME NEW n \in DOMAIN chatList, BoardCloses(n) PROVE IInv'
  BY <1>11, BoardClosesKeeps
<1>12. CASE UNCHANGED vars
  BY <1>12, StutterKeeps
<1> QED
  BY <1>1, <1>2, <1>3, <1>4, <1>5, <1>6, <1>7, <1>8, <1>9, <1>10, <1>11, <1>12 DEF Next

\* The inductive invariant holds in every reachable state.
LEMMA Inductive == Spec => []IInv
<1>1. Init => IInv
  BY InitInvariant
<1>2. IInv /\ [Next]_vars => IInv'
  BY StepInvariant
<1> QED
  BY <1>1, <1>2, PTL DEF Spec

\* Type correctness of the chats, of their switchboards and of what is on the way between
\* the threads; a ParserSB has its socket exactly while its thread runs, and only one that
\* the client starts takes a passport or calls.
THEOREM TypeCorrect == Spec => []TypeOK
<1>1. IInv => TypeOK
  BY DEF IInv
<1> QED
  BY <1>1, Inductive, PTL

\* nextChatPassport finds a passport whenever a chat calls it, however the threads of the
\* chats interleave between reading the first passport and removing it, and however many
\* chats and invitations there are.
THEOREM PassportsAreThere == Spec => []PassportsSuffice
<1>1. IInv => PassportsSuffice
  BY DEF IInv, PassportInv
<1> QED
  BY <1>1, Inductive, PTL

\* An application that invites a contact only when the chats before have called gets, for
\* each chat that it starts, the contact it invited, although the passports are handed out
\* in the order in which the switchboards answer.
THEOREM InvitedAreCalled == Spec => []CallsTheInvited
<1>1. IInv => CallsTheInvited
  BY DEF IInv, PassportInv, OneAtATime, CallsTheInvited
<1> QED
  BY <1>1, Inductive, PTL

\* In each chat the application hears each text of the contact in its place, once, and that
\* the contact has left after all of them.
THEOREM HeardInPlace == Spec => []HeardAsWritten
<1>1. ASSUME IInv, NEW n \in DOMAIN heard, NEW k \in DOMAIN heard[n]
      PROVE  /\ heard[n][k].what = "TEXT" => heard[n][k].nr = k
             /\ heard[n][k].what = "BYE" => k = Len(heard[n]) /\ k = board[n].texts + 1
  <2>1. n \in DOMAIN chatList /\ TypeOK
    BY <1>1, Types DEF IInv
  <2>2. HeardInOrder(n)
    BY <1>1, <2>1 DEF IInv, TextsInv, Followed
  <2>3. heard[n][k].what = "TEXT" => heard[n][k].nr = k
    BY <2>2 DEF HeardInOrder, Rank
  <2>4. ASSUME heard[n][k].what = "BYE" PROVE k = Len(heard[n]) /\ k = board[n].texts + 1
    <3>1. k = board[n].texts + 1 /\ board[n].left
      BY <2>2, <2>4 DEF HeardInOrder, Rank
    <3>2. Len(heard[n]) <= board[n].texts + 1
      BY <2>2, <3>1 DEF HeardInOrder, Total
    <3>3. k \in 1 .. Len(heard[n]) /\ Len(heard[n]) \in Nat /\ board[n].texts \in Nat
      BY <2>1, ChatTypes
    <3> QED
      BY <3>1, <3>2, <3>3
  <2> QED
    BY <2>3, <2>4
<1>2. IInv => HeardAsWritten
  BY <1>1 DEF HeardAsWritten
<1> QED
  BY <1>2, Inductive, PTL
=============================================================================
