------------------------- MODULE Messaging_proofs -------------------------
(***************************************************************************)
(* What the clients of Messaging show of each other, the files that are    *)
(* offered to them and the texts they are told, for any number of clients. *)
(*                                                                         *)
(* A client shows a contact as it is when nothing waits, because the last  *)
(* of the statuses that wait is always the current one (Shows): each new   *)
(* status is relayed behind the others, and a client that connects is sent *)
(* all of them.  On AIM, who is shown as away either had the away message  *)
(* told since, or it is coming, or another status is (TellsAway).  An      *)
(* offer stays a transfer to be received because what sendFile and         *)
(* handleServiceEnd write to m_transfers by mistake is never the cookie of *)
(* an offer (Files).  Texts are told as written because what parse reads   *)
(* of each SNAC that waits (Carries) is, in the order of the queue, what   *)
(* is due and was not told (InOrder).                                      *)
(***************************************************************************)
EXTENDS Messaging, QueueLemmas

-----------------------------------------------------------------------------
(* The inductive invariant *)

\* What waits in a queue is in it from the first place on.
IsQueue(q) == q \in Seq({q[i] : i \in DOMAIN q})

IsStatus(s, d) == s.kind = "status" /\ s.from = d
IsAway(s, d) == s.kind = "userinfo" /\ s.from = d /\ s.away

\* The SNACs of q tell a client, who was told last that its contact d is as in last, that it is as
\* in now: the last status is that one, and any other has one behind it.
Shows(q, d, now, last) ==
  /\ (\A p \in DOMAIN q : ~IsStatus(q[p], d)) => last = now
  /\ \A p \in DOMAIN q : IsStatus(q[p], d) =>
       q[p].code = specPack(now) \/ \E i \in DOMAIN q : i > p /\ IsStatus(q[i], d)

\* The away message of d was told or is coming, unless it has another status to come.
TellsAway(q, d, isTold) ==
  isTold \/ \E p \in DOMAIN q : IsStatus(q[p], d) \/ IsAway(q[p], d)

\* The statuses that are set, shown and told.
Known == {"OFFLINE", "ONLINE"} \union Statuses

\* What may wait for c.
IsSNAC(s, c) ==
  /\ s.kind = "status" => s.from \in Others(c) /\ \E x \in Known : s.code = specPack(x)
  /\ s.kind = "userinfo" => s.from \in Others(c)
  /\ s.kind = "typing" => s.notice # NoText
  /\ s.kind = "message" => s.wire.format \in {1, 2, 4} /\ s.wire.cookie \in {0} \union Cookies

Boxes ==
  /\ DOMAIN inbox = Clients
  /\ \A c \in Clients :
       /\ IsQueue(inbox[c]) /\ \A p \in DOMAIN inbox[c] : IsSNAC(inbox[c][p], c)
       /\ c \notin online => inbox[c] = <<>>

\* A client without a session has the status and shows the contacts as after the loss.
Views ==
  /\ DOMAIN status = Clients /\ DOMAIN seen = Clients /\ DOMAIN awayTold = Clients
  /\ \A c \in Clients :
       /\ status[c] \in Known /\ awayTold[c] \subseteq Others(c)
       /\ DOMAIN seen[c] = Others(c) /\ \A d \in Others(c) : seen[c][d] \in Known
       /\ c \notin online => status[c] = "OFFLINE" /\ \A d \in Others(c) : seen[c][d] = "OFFLINE"

View(c, d) ==
  /\ Shows(inbox[c], d, Shown(status[d]), seen[c][d])
  /\ protocol = "AIM" /\ seen[c][d] = "AWAY" => TellsAway(inbox[c], d, d \in awayTold[c])
Presence == \A c \in online : \A d \in Others(c) : View(c, d)

\* An offer is of a cookie that no one else writes to m_transfers.
Files ==
  /\ DOMAIN transfers = Clients /\ DOMAIN services = Clients
  /\ DOMAIN hears = Clients /\ DOMAIN offers = Clients
  /\ \A c \in Clients :
       /\ DOMAIN transfers[c] \subseteq {0, OwnCookie, NoCookie} \union Cookies
       /\ \A k \in DOMAIN transfers[c] : transfers[c][k] \in {"RECEIVING", "unset"}
       /\ services[c] \in 0 .. calls /\ hears[c] \in BOOLEAN
       /\ offers[c] \subseteq {0} \union Cookies
       /\ \A k \in offers[c] : k \in DOMAIN transfers[c] /\ transfers[c][k] = "RECEIVING"

Session == protocol \in {"ICQ", "AIM"} /\ awaymsg \in BOOLEAN /\ calls \in 0 .. MaxCalls /\ online \subseteq Clients

IInv == Session /\ Boxes /\ Views /\ Presence /\ Files

-----------------------------------------------------------------------------
(* How queues change *)

\* The queue r is q without its first k elements, and then the elements of X.
Moves(q, r, k, X) ==
  /\ k \in {0, 1} /\ (k = 1 => 1 \in DOMAIN q)
  /\ \A p \in DOMAIN q : p \in Nat /\ p > 0 /\ (p > k => p - k \in DOMAIN r /\ r[p - k] = q[p])
  /\ \A p \in DOMAIN r : p \in Nat /\ ((p + k \in DOMAIN q /\ p + k > k /\ r[p] = q[p + k]) \/ r[p] \in X)
  /\ \A x \in X : \E p \in DOMAIN r : r[p] = x /\ \A i \in DOMAIN q : i > k => i - k < p

\* A queue is a function on the numbers up to its length.
LEMMA QueueShape ==
  ASSUME NEW q, IsQueue(q)
  PROVE  \E n \in Nat : n = Len(q) /\ DOMAIN q = 1 .. n
<1> DEFINE S == {q[i] : i \in DOMAIN q}
<1>1. q \in Seq(S)
  BY DEF IsQueue
<1>2. Len(q) \in Nat /\ DOMAIN q = 1 .. Len(q)
  BY <1>1, LenProperties
<1> QED
  BY <1>2

\* A function on such numbers is a queue.
LEMMA QueueFormed ==
  ASSUME NEW q, NEW S, q \in Seq(S)
  PROVE  IsQueue(q)
<1>1. Len(q) \in Nat /\ q \in [1 .. Len(q) -> S]
  BY LenProperties
<1>2. q \in [1 .. Len(q) -> {q[i] : i \in DOMAIN q}]
  BY <1>1
<1> QED
  BY <1>1, <1>2 DEF IsQueue

\* A queue that stays.
LEMMA Stayed ==
  ASSUME NEW q, IsQueue(q)
  PROVE  Moves(q, q, 0, {})
<1>1. PICK n \in Nat : DOMAIN q = 1 .. n
  BY QueueShape
<1> QED
  BY <1>1 DEF Moves

\* A queue that one more element is appended to.
LEMMA Grown ==
  ASSUME NEW q, IsQueue(q), NEW x
  PROVE  IsQueue(Append(q, x)) /\ Moves(q, Append(q, x), 0, {x})
<1> DEFINE S == {q[i] : i \in DOMAIN q} \union {x}
<1>1. q \in Seq(S) /\ x \in S
  BY SeqOfMore DEF IsQueue
<1>2. PICK r : r = Append(q, x)
  OBVIOUS
<1>3. PICK n \in Nat : n = Len(q) /\ DOMAIN q = 1 .. n
  BY QueueShape
<1>4. r \in Seq(S) /\ DOMAIN r = 1 .. n + 1 /\ r[n + 1] = x /\ \A i \in 1 .. n : r[i] = q[i]
  BY <1>1, <1>2, <1>3, Appended
<1>5. IsQueue(r)
  BY <1>4, QueueFormed
<1>6. \A p \in DOMAIN r : p \in Nat /\ ((p \in DOMAIN q /\ p > 0 /\ r[p] = q[p]) \/ r[p] = x)
  BY <1>3, <1>4
<1>7. n + 1 \in DOMAIN r /\ \A i \in DOMAIN q : i > 0 => i < n + 1
  BY <1>3, <1>4
<1>8. \A p \in DOMAIN q : p \in Nat /\ p > 0 /\ p \in DOMAIN r /\ r[p] = q[p]
  BY <1>3, <1>4
<1>9. Moves(q, r, 0, {x})
  BY <1>4, <1>6, <1>7, <1>8 DEF Moves
<1> QED
  BY <1>2, <1>5, <1>9

\* A queue whose first element is taken.
LEMMA Shortened ==
  ASSUME NEW q, IsQueue(q), q # <<>>
  PROVE  IsQueue(Tail(q)) /\ Moves(q, Tail(q), 1, {}) /\ 1 \in DOMAIN q /\ Head(q) = q[1]
<1> DEFINE S == {q[i] : i \in DOMAIN q}
<1>1. q \in Seq(S)
  BY DEF IsQueue
<1>2. PICK r : r = Tail(q)
  OBVIOUS
<1>3. PICK n \in Nat : n = Len(q) /\ DOMAIN q = 1 .. n
  BY QueueShape
<1>4. /\ r \in Seq(S) /\ n >= 1 /\ DOMAIN r = 1 .. n - 1 /\ Head(q) = q[1]
      /\ \A i \in 1 .. n - 1 : r[i] = q[i + 1]
  <2>1. /\ Tail(q) \in Seq(S) /\ Len(q) >= 1 /\ Head(q) = q[1]
        /\ DOMAIN Tail(q) = 1 .. Len(q) - 1
        /\ \A i \in 1 .. Len(q) - 1 : Tail(q)[i] = q[i + 1]
    BY <1>1, Taken
  <2> QED
    BY <1>2, <1>3, <2>1
<1>5. IsQueue(r)
  BY <1>4, QueueFormed
<1>6. 1 \in DOMAIN q
  BY <1>3, <1>4
<1>7. \A p \in DOMAIN r : p \in Nat /\ p + 1 \in DOMAIN q /\ p + 1 > 1 /\ r[p] = q[p + 1]
  BY <1>3, <1>4
<1>8. \A p \in DOMAIN q : p \in Nat /\ p > 0 /\ (p > 1 => p - 1 \in DOMAIN r /\ r[p - 1] = q[p])
  <2>1. ASSUME NEW p \in 1 .. n, p > 1
        PROVE  p - 1 \in 1 .. n - 1 /\ r[p - 1] = q[p]
    <3>1. p - 1 \in 1 .. n - 1 /\ (p - 1) + 1 = p
      BY <2>1
    <3> QED
      BY <1>4, <3>1
  <2> QED
    BY <1>3, <1>4, <2>1
<1>9. Moves(q, r, 1, {})
  BY <1>6, <1>7, <1>8 DEF Moves
<1> QED
  BY <1>2, <1>4, <1>5, <1>6, <1>9

\* A queue whose first element is taken and that one is appended to.
LEMMA ShortenedAndGrown ==
  ASSUME NEW q, IsQueue(q), q # <<>>, NEW x
  PROVE  IsQueue(Append(Tail(q), x)) /\ Moves(q, Append(Tail(q), x), 1, {x})
<1>1. PICK t : t = Tail(q)
  OBVIOUS
<1>2. IsQueue(t) /\ Moves(q, t, 1, {}) /\ 1 \in DOMAIN q
  BY <1>1, Shortened
<1>3. PICK r : r = Append(t, x)
  OBVIOUS
<1>4. IsQueue(r) /\ Moves(t, r, 0, {x})
  BY <1>2, <1>3, Grown
<1>5. \A p \in DOMAIN q : p \in Nat /\ p > 0 /\ (p > 1 => p - 1 \in DOMAIN r /\ r[p - 1] = q[p])
  <2>1. \A p \in DOMAIN q : p \in Nat /\ p > 0 /\ (p > 1 => p - 1 \in DOMAIN t /\ t[p - 1] = q[p])
    BY <1>2 DEF Moves
  <2>2. \A p \in DOMAIN t : p \in Nat /\ p > 0 /\ p \in DOMAIN r /\ r[p] = t[p]
    BY <1>4 DEF Moves
  <2> QED
    BY <2>1, <2>2
<1>6. \A p \in DOMAIN r : p \in Nat /\ ((p + 1 \in DOMAIN q /\ p + 1 > 1 /\ r[p] = q[p + 1]) \/ r[p] = x)
  <2>1. \A p \in DOMAIN t : p \in Nat /\ p + 1 \in DOMAIN q /\ p + 1 > 1 /\ t[p] = q[p + 1]
    BY <1>2 DEF Moves
  <2>2. \A p \in DOMAIN r : p \in Nat /\ ((p \in DOMAIN t /\ r[p] = t[p]) \/ r[p] = x)
    BY <1>4 DEF Moves
  <2> QED
    BY <2>1, <2>2
<1>7. PICK last \in DOMAIN r : last \in Nat /\ r[last] = x /\ \A i \in DOMAIN t : i > 0 => i < last
  BY <1>4 DEF Moves
<1>8. \A i \in DOMAIN q : i > 1 => i - 1 < last
  <2>1. \A p \in DOMAIN q : p \in Nat /\ (p > 1 => p - 1 \in DOMAIN t)
    BY <1>2 DEF Moves
  <2> QED
    BY <1>7, <2>1
<1>9. Moves(q, r, 1, {x})
  BY <1>2, <1>5, <1>6, <1>7, <1>8 DEF Moves
<1> QED
  BY <1>1, <1>3, <1>4, <1>9

-----------------------------------------------------------------------------
(* What the queues tell of a contact *)

\* What is read of a status that is written.
LEMMA StatusRead ==
  ASSUME NEW s \in PresenceStatus
  PROVE  parseStatus(specPack(s)) = s
  BY DEF PresenceStatus, specPack, parseStatus

\* A queue goes on telling of d when nothing of d is taken or appended.
LEMMA ShowsOn ==
  ASSUME NEW q, NEW r, NEW k, NEW X, Moves(q, r, k, X), NEW d, NEW now, NEW last,
         Shows(q, d, now, last), k = 1 => ~IsStatus(q[1], d), \A x \in X : ~IsStatus(x, d)
  PROVE  Shows(r, d, now, last)
<1>0. k \in {0, 1}
  BY DEF Moves
<1>1. \A p \in DOMAIN q : IsStatus(q[p], d) => p \in Nat /\ p > k /\ p - k \in DOMAIN r /\ r[p - k] = q[p]
  BY DEF Moves
<1>2. \A p \in DOMAIN r : IsStatus(r[p], d) => p \in Nat /\ p + k \in DOMAIN q /\ r[p] = q[p + k]
  BY DEF Moves
<1>3. (\A p \in DOMAIN r : ~IsStatus(r[p], d)) => last = now
  BY <1>1 DEF Shows
<1>4. ASSUME NEW p \in DOMAIN r, IsStatus(r[p], d)
      PROVE  r[p].code = specPack(now) \/ \E i \in DOMAIN r : i > p /\ IsStatus(r[i], d)
  <2>1. PICK m \in DOMAIN q : m = p + k /\ p \in Nat /\ r[p] = q[m] /\ IsStatus(q[m], d)
    BY <1>2, <1>4
  <2>2. q[m].code = specPack(now) \/ \E i \in DOMAIN q : i > m /\ IsStatus(q[i], d)
    BY <2>1 DEF Shows
  <2>3. ASSUME NEW i \in DOMAIN q, i > m, IsStatus(q[i], d)
        PROVE  \E j \in DOMAIN r : j > p /\ IsStatus(r[j], d)
    <3>1. i \in Nat /\ i - k \in DOMAIN r /\ r[i - k] = q[i]
      BY <1>1, <2>3
    <3>2. i - k > p
      BY <1>0, <2>1, <2>3, <3>1
    <3> QED
      BY <2>3, <3>1, <3>2
  <2> QED
    BY <2>1, <2>2, <2>3
<1> QED
  BY <1>3, <1>4 DEF Shows

\* A queue tells of d what was appended last.
LEMMA ShowsNew ==
  ASSUME NEW q, NEW r, NEW x, Moves(q, r, 0, {x}), NEW d, NEW now, NEW last,
         IsStatus(x, d), x.code = specPack(now)
  PROVE  Shows(r, d, now, last)
<1>1. PICK p \in DOMAIN r : r[p] = x /\ \A i \in DOMAIN q : i > 0 => i < p
  BY DEF Moves
<1>2. \A j \in DOMAIN r : r[j] = x \/ (j \in DOMAIN q /\ j > 0)
  BY DEF Moves
<1>3. \A j \in DOMAIN r : r[j] = x \/ j < p
  BY <1>1, <1>2
<1>4. p \in Nat /\ \A j \in DOMAIN r : j \in Nat
  BY DEF Moves
<1> QED
  BY <1>1, <1>3, <1>4 DEF Shows

\* When a status of d is taken, what is left of the queue tells the rest.
LEMMA ShowsRest ==
  ASSUME NEW q, NEW r, NEW X, Moves(q, r, 1, X), NEW d, NEW now \in PresenceStatus, NEW last,
         Shows(q, d, now, last), IsStatus(q[1], d), \A x \in X : ~IsStatus(x, d)
  PROVE  Shows(r, d, now, parseStatus(q[1].code))
<1>1. \A p \in DOMAIN q : p \in Nat /\ (p > 1 => p - 1 \in DOMAIN r /\ r[p - 1] = q[p])
  BY DEF Moves
<1>2. \A p \in DOMAIN r : IsStatus(r[p], d) => p \in Nat /\ p + 1 \in DOMAIN q /\ p + 1 > 1 /\ r[p] = q[p + 1]
  BY DEF Moves
<1>3. 1 \in DOMAIN q
  BY DEF Moves
<1>4. ASSUME \A p \in DOMAIN r : ~IsStatus(r[p], d)
      PROVE  parseStatus(q[1].code) = now
  <2>1. \A p \in DOMAIN q : p > 1 => ~IsStatus(q[p], d)
    BY <1>1, <1>4
  <2>2. q[1].code = specPack(now)
    BY <1>3, <2>1 DEF Shows
  <2> QED
    BY <2>2, StatusRead
<1>5. ASSUME NEW p \in DOMAIN r, IsStatus(r[p], d)
      PROVE  r[p].code = specPack(now) \/ \E i \in DOMAIN r : i > p /\ IsStatus(r[i], d)
  <2>1. PICK m \in DOMAIN q : m = p + 1 /\ p \in Nat /\ m > 1 /\ r[p] = q[m] /\ IsStatus(q[m], d)
    BY <1>2, <1>5
  <2>2. q[m].code = specPack(now) \/ \E i \in DOMAIN q : i > m /\ IsStatus(q[i], d)
    BY <2>1 DEF Shows
  <2>3. ASSUME NEW i \in DOMAIN q, i > m, IsStatus(q[i], d)
        PROVE  \E j \in DOMAIN r : j > p /\ IsStatus(r[j], d)
    <3>1. i \in Nat /\ i > 1
      BY <1>1, <2>1, <2>3
    <3>2. i - 1 \in DOMAIN r /\ r[i - 1] = q[i] /\ i - 1 > p
      BY <1>1, <2>1, <2>3, <3>1
    <3> QED
      BY <2>3, <3>2
  <2> QED
    BY <2>1, <2>2, <2>3
<1> QED
  BY <1>4, <1>5 DEF Shows

\* A queue goes on telling of the away message of d.
LEMMA TellsAwayOn ==
  ASSUME NEW q, NEW r, NEW k, NEW X, Moves(q, r, k, X), NEW d, NEW before, NEW after,
         TellsAway(q, d, before), before => after,
         k = 1 => ~IsStatus(q[1], d) /\ (IsAway(q[1], d) => after)
  PROVE  TellsAway(r, d, after)
<1>1. \A p \in DOMAIN q : p \in Nat /\ p > 0 /\ (p > k => p - k \in DOMAIN r /\ r[p - k] = q[p])
  BY DEF Moves
<1>2. k \in {0, 1}
  BY DEF Moves
<1>3. CASE before
  BY <1>3 DEF TellsAway
<1>4. ASSUME NEW p \in DOMAIN q, IsStatus(q[p], d) \/ IsAway(q[p], d)
      PROVE  TellsAway(r, d, after)
  <2>1. CASE p > k
    BY <1>1, <1>4, <2>1 DEF TellsAway
  <2>2. CASE ~(p > k)
    <3>1. k = 1 /\ p = 1
      BY <1>1, <1>2, <2>2
    <3> QED
      BY <1>4, <3>1 DEF TellsAway
  <2> QED
    BY <2>1, <2>2
<1> QED
  BY <1>3, <1>4 DEF TellsAway

-----------------------------------------------------------------------------
(* What a step relays *)

\* The first k SNACs of c are taken, and of N those are appended that may wait there.
Delivered(c, k, N) ==
  /\ DOMAIN inbox' = Clients
  /\ \A e \in Clients :
       /\ IsQueue(inbox'[e])
       /\ e \notin online => inbox'[e] = inbox[e]
       /\ \E X \in SUBSET N :
            Moves(inbox[e], inbox'[e], IF e = c THEN k ELSE 0, X) /\ \A x \in X : IsSNAC(x, e)

\* Nothing is relayed.
LEMMA NothingRelayed ==
  ASSUME Boxes, inbox' = inbox, NEW c
  PROVE  Delivered(c, 0, {})
<1>1. ASSUME NEW e \in Clients PROVE Moves(inbox[e], inbox'[e], 0, {})
  BY Stayed DEF Boxes
<1> QED
  BY <1>1 DEF Delivered, Boxes

\* One SNAC is relayed.
LEMMA OneRelayed ==
  ASSUME Boxes, Session, NEW to, NEW x, inbox' = Relayed(inbox, to, x), IsSNAC(x, to), NEW c
  PROVE  Delivered(c, 0, {x})
<1>1. ASSUME NEW e \in Clients
      PROVE  /\ IsQueue(inbox'[e]) /\ (e \notin online => inbox'[e] = inbox[e])
             /\ \E X \in SUBSET {x} : Moves(inbox[e], inbox'[e], 0, X) /\ \A y \in X : IsSNAC(y, e)
  <2>1. CASE e = to /\ to \in online
    <3>1. inbox'[e] = Append(inbox[e], x)
      BY <2>1 DEF Relayed, Boxes
    <3>2. IsQueue(inbox'[e]) /\ Moves(inbox[e], inbox'[e], 0, {x})
      BY <3>1, Grown DEF Boxes
    <3> QED
      BY <2>1, <3>2
  <2>2. CASE ~(e = to /\ to \in online)
    <3>1. inbox'[e] = inbox[e]
      BY <2>2 DEF Relayed, Boxes
    <3>2. IsQueue(inbox'[e]) /\ Moves(inbox[e], inbox'[e], 0, {})
      BY <3>1, Stayed DEF Boxes
    <3> QED
      BY <3>1, <3>2
  <2> QED
    BY <2>1, <2>2
<1>2. DOMAIN inbox' = Clients
  BY DEF Relayed, Boxes
<1> QED
  BY <1>1, <1>2 DEF Delivered

\* A SNAC is taken.
LEMMA OneTaken ==
  ASSUME Boxes, NEW c \in Clients, inbox[c] # <<>>, inbox' = TakenFrom(c)
  PROVE  Delivered(c, 1, {})
<1>1. ASSUME NEW e \in Clients
      PROVE  /\ IsQueue(inbox'[e]) /\ (e \notin online => inbox'[e] = inbox[e])
             /\ Moves(inbox[e], inbox'[e], IF e = c THEN 1 ELSE 0, {})
  <2>1. CASE e = c
    <3>1. inbox'[e] = Tail(inbox[e])
      BY <2>1 DEF TakenFrom, Boxes
    <3> QED
      BY <2>1, <3>1, Shortened DEF Boxes
  <2>2. CASE e # c
    <3>1. inbox'[e] = inbox[e]
      BY <2>2 DEF TakenFrom, Boxes
    <3> QED
      BY <2>2, <3>1, Stayed DEF Boxes
  <2> QED
    BY <2>1, <2>2
<1>2. DOMAIN inbox' = Clients
  BY DEF TakenFrom, Boxes
<1> QED
  BY <1>1, <1>2 DEF Delivered

\* A SNAC is taken and one is relayed for it.
LEMMA TakenAndRelayed ==
  ASSUME Boxes, Session, NEW c \in Clients, inbox[c] # <<>>, NEW to, NEW x, IsSNAC(x, to),
         inbox' = Relayed(TakenFrom(c), to, x)
  PROVE  Delivered(c, 1, {x})
<1>0. /\ TakenFrom(c)[c] = Tail(inbox[c]) /\ DOMAIN TakenFrom(c) = Clients
      /\ \A e \in Clients : e # c => TakenFrom(c)[e] = inbox[e]
  BY DEF TakenFrom, Boxes
<1>1. ASSUME NEW e \in Clients
      PROVE  /\ IsQueue(inbox'[e]) /\ (e \notin online => inbox'[e] = inbox[e])
             /\ \E X \in SUBSET {x} : /\ Moves(inbox[e], inbox'[e], IF e = c THEN 1 ELSE 0, X)
                                      /\ \A y \in X : IsSNAC(y, e)
  <2>1. e = c => e \in online
    BY DEF Boxes
  <2>2. IsQueue(inbox[e]) /\ (e = c => inbox[e] # <<>>)
    BY DEF Boxes
  <2>3. CASE e = to /\ to \in online
    <3>1. inbox'[e] = Append(TakenFrom(c)[e], x)
      BY <1>0, <2>3 DEF Relayed
    <3>2. CASE e = c
      <4>1. IsQueue(inbox'[e]) /\ Moves(inbox[e], inbox'[e], 1, {x})
        BY <1>0, <2>2, <3>1, <3>2, ShortenedAndGrown
      <4> QED
        BY <2>3, <3>2, <4>1
    <3>3. CASE e # c
      <4>1. IsQueue(inbox'[e]) /\ Moves(inbox[e], inbox'[e], 0, {x})
        BY <1>0, <2>2, <3>1, <3>3, Grown
      <4> QED
        BY <2>3, <3>3, <4>1
    <3> QED
      BY <3>2, <3>3
  <2>4. CASE ~(e = to /\ to \in online)
    <3>1. inbox'[e] = TakenFrom(c)[e]
      BY <1>0, <2>4 DEF Relayed
    <3>2. CASE e = c
      <4>1. IsQueue(inbox'[e]) /\ Moves(inbox[e], inbox'[e], 1, {})
        BY <1>0, <2>2, <3>1, <3>2, Shortened
      <4> QED
        BY <2>1, <3>2, <4>1
    <3>3. CASE e # c
      <4>1. inbox'[e] = inbox[e] /\ IsQueue(inbox'[e]) /\ Moves(inbox[e], inbox'[e], 0, {})
        BY <1>0, <2>2, <3>1, <3>3, Stayed
      <4> QED
        BY <3>3, <4>1
    <3> QED
      BY <3>2, <3>3
  <2> QED
    BY <2>3, <2>4
<1>2. DOMAIN inbox' = Clients
  BY <1>0 DEF Relayed
<1> QED
  BY <1>1, <1>2 DEF Delivered

\* What waits stays what may wait.
LEMMA DeliveredBoxes ==
  ASSUME Boxes, NEW c, NEW k, NEW N, Delivered(c, k, N), online' = online
  PROVE  Boxes'
<1>1. ASSUME NEW e \in Clients
      PROVE  /\ IsQueue(inbox'[e]) /\ \A p \in DOMAIN inbox'[e] : IsSNAC(inbox'[e][p], e)
             /\ e \notin online' => inbox'[e] = <<>>
  <2>1. IsQueue(inbox'[e]) /\ (e \notin online => inbox'[e] = inbox[e])
    BY DEF Delivered
  <2>2. PICK X \in SUBSET N :
          Moves(inbox[e], inbox'[e], IF e = c THEN k ELSE 0, X) /\ \A x \in X : IsSNAC(x, e)
    BY DEF Delivered
  <2>3. \A p \in DOMAIN inbox'[e] : (\E i \in DOMAIN inbox[e] : inbox'[e][p] = inbox[e][i]) \/ inbox'[e][p] \in X
    BY <2>2 DEF Moves
  <2>4. \A i \in DOMAIN inbox[e] : IsSNAC(inbox[e][i], e)
    BY DEF Boxes
  <2>5. \A p \in DOMAIN inbox'[e] : IsSNAC(inbox'[e][p], e)
    BY <2>2, <2>3, <2>4
  <2> QED
    BY <2>1, <2>5 DEF Boxes
<1>2. DOMAIN inbox' = Clients
  BY DEF Delivered
<1> QED
  BY <1>1, <1>2 DEF Boxes, IsSNAC

-----------------------------------------------------------------------------
(* Steps without news of a status *)

\* What is shown depends on the type of all and the away message, besides the status.
LEMMA ShownStays ==
  ASSUME UNCHANGED config, NEW d
  PROVE  Shown(status[d])' = Shown(status'[d])
  BY DEF config, Shown

\* What c is told of d goes on as it was, when no status of d is taken or relayed.
LEMMA ViewOn ==
  ASSUME NEW c, NEW d, NEW k, NEW X, View(c, d), Moves(inbox[c], inbox'[c], k, X), UNCHANGED config,
         status'[d] = status[d], seen'[c][d] = seen[c][d], d \in awayTold[c] => d \in awayTold'[c],
         \A x \in X : ~IsStatus(x, d),
         k = 1 => ~IsStatus(inbox[c][1], d) /\ (IsAway(inbox[c][1], d) => d \in awayTold'[c])
  PROVE  View(c, d)'
<1>1. PICK now : now = Shown(status[d]) /\ now = Shown(status[d])'
  BY ShownStays
<1>2. PICK last : last = seen[c][d] /\ last = seen'[c][d]
  OBVIOUS
<1>3. Shows(inbox'[c], d, now, last)
  BY <1>1, <1>2, ShowsOn DEF View
<1>4. protocol = "AIM" /\ last = "AWAY" => TellsAway(inbox'[c], d, d \in awayTold'[c])
  <2>1. PICK before : before <=> d \in awayTold[c]
    OBVIOUS
  <2>2. PICK after : after <=> d \in awayTold'[c]
    OBVIOUS
  <2>3. protocol = "AIM" /\ last = "AWAY" => TellsAway(inbox[c], d, before)
    BY <1>2, <2>1 DEF View, TellsAway
  <2>4. protocol = "AIM" /\ last = "AWAY" => TellsAway(inbox'[c], d, after)
    BY <2>1, <2>2, <2>3, TellsAwayOn
  <2> QED
    BY <2>2, <2>4 DEF TellsAway
<1>5. protocol' = protocol
  BY DEF config
<1> QED
  BY <1>1, <1>2, <1>3, <1>4, <1>5 DEF View, Shows, TellsAway

\* When SNACs of other kinds are taken and relayed.
LEMMA PresenceOn ==
  ASSUME IInv, NEW c, NEW k, NEW N, Delivered(c, k, N), UNCHANGED <<config, online, status, seen>>,
         \A x \in N : x.kind # "status",
         k = 1 => inbox[c][1].kind # "status",
         \A e \in Clients : awayTold[e] \subseteq awayTold'[e],
         \A d : k = 1 /\ IsAway(inbox[c][1], d) => d \in awayTold'[c]
  PROVE  Presence'
<1>1. ASSUME NEW e \in online, NEW d \in Others(e)
      PROVE  View(e, d)'
  <2>1. e \in Clients
    BY DEF IInv, Session
  <2>2. PICK l : l = IF e = c THEN k ELSE 0
    OBVIOUS
  <2>3. PICK X \in SUBSET N : Moves(inbox[e], inbox'[e], l, X)
    BY <2>1, <2>2 DEF Delivered
  <2>4. \A x \in X : ~IsStatus(x, d)
    BY DEF IsStatus
  <2>5. l = 1 => ~IsStatus(inbox[e][1], d) /\ (IsAway(inbox[e][1], d) => d \in awayTold'[e])
    BY <2>2 DEF IsStatus
  <2>6. View(e, d)
    BY DEF IInv, Presence
  <2> QED
    BY <2>1, <2>3, <2>4, <2>5, <2>6, ViewOn
<1> QED
  BY <1>1 DEF Presence
-----------------------------------------------------------------------------
(* Messages *)

\* Only the fields that the proofs use: the sender's, the channel and the cookie.
MessageRecord(fields) ==
  [uin : fields, format : fields, text : fields, encoding : fields, type : fields, cookie : fields,
   request : fields]

\* A new message, and one with other fields set, is for channel 1 unless that is set, and has no cookie.
LEMMA NewMessages ==
  ASSUME NEW to
  PROVE  /\ NewMessage(to).format = 1 /\ NewMessage(to).cookie = 0 /\ NewMessage(to).uin = to
         /\ \E fields : NewMessage(to) \in MessageRecord(fields)
<1>1. PICK n : n = NewMessage(to)
  OBVIOUS
<1>2. n = [uin |-> to, format |-> 1, text |-> NoText, encoding |-> "ASCII", type |-> "PLAIN",
           cookie |-> 0, request |-> "REQUEST"]
  BY <1>1 DEF NewMessage
<1>3. n \in MessageRecord({to, 1, NoText, "ASCII", "PLAIN", 0, "REQUEST"})
  BY <1>2 DEF MessageRecord
<1> QED
  BY <1>1, <1>2, <1>3

\* A message whose other fields are set is like it.
Like(x, m) == x.cookie = m.cookie /\ x.format = m.format /\ \E fields : x \in MessageRecord(fields)

\* Fields that are set leave it so.
LEMMA FieldsSet ==
  ASSUME NEW fields, NEW m \in MessageRecord(fields), NEW x, NEW a, NEW b, NEW c,
         \/ x = [m EXCEPT !.text = a]
         \/ x = [m EXCEPT !.type = a]
         \/ x = [m EXCEPT !.request = a]
         \/ x = [m EXCEPT !.type = a, !.text = b]
         \/ x = [m EXCEPT !.type = a, !.encoding = b, !.text = c]
  PROVE  Like(x, m)
<1>1. \A y : y \in MessageRecord(fields \union {a, b, c}) => \E more : y \in MessageRecord(more)
  OBVIOUS
<1>2. CASE x = [m EXCEPT !.text = a]
  <2>1. x.cookie = m.cookie /\ x.format = m.format /\ x \in MessageRecord(fields \union {a, b, c})
    BY <1>2 DEF MessageRecord
  <2> QED
    BY <1>1, <2>1 DEF Like
<1>3. CASE x = [m EXCEPT !.type = a]
  <2>1. x.cookie = m.cookie /\ x.format = m.format /\ x \in MessageRecord(fields \union {a, b, c})
    BY <1>3 DEF MessageRecord
  <2> QED
    BY <1>1, <2>1 DEF Like
<1>4. CASE x = [m EXCEPT !.request = a]
  <2>1. x.cookie = m.cookie /\ x.format = m.format /\ x \in MessageRecord(fields \union {a, b, c})
    BY <1>4 DEF MessageRecord
  <2> QED
    BY <1>1, <2>1 DEF Like
<1>5. CASE x = [m EXCEPT !.type = a, !.text = b]
  <2>1. x.cookie = m.cookie /\ x.format = m.format /\ x \in MessageRecord(fields \union {a, b, c})
    BY <1>5 DEF MessageRecord
  <2> QED
    BY <1>1, <2>1 DEF Like
<1>6. CASE x = [m EXCEPT !.type = a, !.encoding = b, !.text = c]
  <2>1. x.cookie = m.cookie /\ x.format = m.format /\ x \in MessageRecord(fields \union {a, b, c})
    BY <1>6 DEF MessageRecord
  <2> QED
    BY <1>1, <2>1 DEF Like
<1> QED
  BY <1>2, <1>3, <1>4, <1>5, <1>6

\* A message that is packed may wait for anyone.
LEMMA PackedWaits ==
  ASSUME NEW m, m.format \in {1, 2, 4}, m.cookie \in {0} \union Cookies, NEW from, NEW e
  PROVE  IsSNAC(MessageSNAC(from, pack(m)), e) /\ MessageSNAC(from, pack(m)).kind = "message"
<1>1. PICK w : w = pack(m)
  OBVIOUS
<1>2. w.format = m.format /\ w.cookie = m.cookie
  BY <1>1 DEF pack
<1>3. PICK s : s = MessageSNAC(from, w)
  OBVIOUS
<1>4. s.kind = "message" /\ s.wire = w
  BY <1>3 DEF MessageSNAC
<1>5. IsSNAC(s, e)
  BY <1>2, <1>4 DEF IsSNAC
<1> QED
  BY <1>1, <1>3, <1>4, <1>5

\* A message is read with the cookie and the channel it was written with.
LEMMA ReadAsWritten ==
  ASSUME NEW wire, NEW from, wire.format \in {1, 2, 4}
  PROVE  /\ parse(wire, from).cookie = wire.cookie /\ parse(wire, from).format = wire.format
         /\ \E fields : parse(wire, from) \in MessageRecord(fields)
<1>1. PICK m : m = [NewMessage(from) EXCEPT !.cookie = wire.cookie, !.format = wire.format]
  OBVIOUS
<1>2. PICK fields : NewMessage(from) \in MessageRecord(fields)
  BY NewMessages
<1>3. m.cookie = wire.cookie /\ m.format = wire.format
  BY <1>1, <1>2 DEF MessageRecord
<1>4. m \in MessageRecord(fields \union {wire.cookie, wire.format})
  BY <1>1, <1>2 DEF MessageRecord
<1>5. Like(parseCh1(m, wire.tlvs), m)
  <2>1. \E a, b, c : parseCh1(m, wire.tlvs) = [m EXCEPT !.type = a, !.encoding = b, !.text = c]
    BY Zenon DEF parseCh1
  <2>2. PICK a, b, c : parseCh1(m, wire.tlvs) = [m EXCEPT !.type = a, !.encoding = b, !.text = c]
    BY <2>1
  <2> QED
    BY <1>4, <2>2, FieldsSet
<1>6. Like(parseCh2(m, wire.tlvs), m)
  <2>1. \E n : /\ \E a : n = [m EXCEPT !.request = a]
               /\ \/ parseCh2(m, wire.tlvs) = n
                  \/ \E b : parseCh2(m, wire.tlvs) = [n EXCEPT !.type = b]
                  \/ \E b, c : parseCh2(m, wire.tlvs) = [n EXCEPT !.type = b, !.text = c]
    BY Zenon DEF parseCh2
  <2>2. PICK n : /\ \E a : n = [m EXCEPT !.request = a]
                 /\ \/ parseCh2(m, wire.tlvs) = n
                    \/ \E b : parseCh2(m, wire.tlvs) = [n EXCEPT !.type = b]
                    \/ \E b, c : parseCh2(m, wire.tlvs) = [n EXCEPT !.type = b, !.text = c]
    BY <2>1, Zenon
  <2>3. PICK a : n = [m EXCEPT !.request = a]
    BY <2>2
  <2>4. Like(n, m)
    BY <1>4, <2>3, FieldsSet
  <2>5. PICK more : n \in MessageRecord(more)
    BY <2>4 DEF Like
  <2>6. PICK x : x = parseCh2(m, wire.tlvs)
    OBVIOUS
  <2>7. x = n \/ (\E b : x = [n EXCEPT !.type = b]) \/ (\E b, c : x = [n EXCEPT !.type = b, !.text = c])
    BY <2>2, <2>6
  <2>8. Like(x, m)
    <3>1. CASE x = n
      BY <2>4, <3>1
    <3>2. ASSUME NEW b, x = [n EXCEPT !.type = b]
          PROVE  Like(x, m)
      <4>1. Like(x, n)
        BY <2>5, <3>2, FieldsSet
      <4> QED
        BY <2>4, <4>1 DEF Like
    <3>3. ASSUME NEW b, NEW c, x = [n EXCEPT !.type = b, !.text = c]
          PROVE  Like(x, m)
      <4>1. Like(x, n)
        BY <2>5, <3>3, FieldsSet
      <4> QED
        BY <2>4, <4>1 DEF Like
    <3> QED
      BY <2>7, <3>1, <3>2, <3>3, Zenon
  <2> QED
    BY <2>6, <2>8
<1>7. Like(parseCh4(m, wire.tlvs), m)
  <2>1. \E a, b : parseCh4(m, wire.tlvs) = [m EXCEPT !.type = a, !.text = b]
    BY Zenon DEF parseCh4
  <2>2. PICK a, b : parseCh4(m, wire.tlvs) = [m EXCEPT !.type = a, !.text = b]
    BY <2>1
  <2> QED
    BY <1>4, <2>2, FieldsSet
<1>8. parse(wire, from) \in {parseCh1(m, wire.tlvs), parseCh2(m, wire.tlvs), parseCh4(m, wire.tlvs)}
  BY <1>1 DEF parse
<1>9. Like(parse(wire, from), m)
  BY <1>5, <1>6, <1>7, <1>8
<1> QED
  BY <1>3, <1>9 DEF Like
-----------------------------------------------------------------------------
(* Steps that no status changes with *)

\* What the clients show, when a SNAC that is no status was taken or relayed.
LEMMA QuietStep ==
  ASSUME IInv, NEW c, NEW k, NEW N, Delivered(c, k, N), UNCHANGED <<config, online, status, seen>>,
         \A x \in N : x.kind # "status",
         k = 1 => inbox[c][1].kind # "status",
         DOMAIN awayTold' = Clients,
         \A e \in Clients : awayTold[e] \subseteq awayTold'[e] /\ awayTold'[e] \subseteq Others(e),
         \A d : k = 1 /\ IsAway(inbox[c][1], d) => d \in awayTold'[c]
  PROVE  Boxes' /\ Views' /\ Presence'
<1>1. Boxes'
  BY DeliveredBoxes DEF IInv
<1>2. Presence'
  BY PresenceOn
<1>3. Views'
  BY DEF IInv, Views
<1> QED
  BY <1>1, <1>2, <1>3

\* The same, when what was told of away messages stays.
LEMMA QuietDelivery ==
  ASSUME IInv, NEW c, NEW k, NEW N, Delivered(c, k, N), UNCHANGED <<config, online, presenceVars>>,
         \A x \in N : x.kind # "status",
         k = 1 => inbox[c][1].kind \notin {"status", "userinfo"}
  PROVE  Boxes' /\ Views' /\ Presence'
<1>1. status' = status /\ seen' = seen /\ awayTold' = awayTold
  BY DEF presenceVars
<1>2. DOMAIN awayTold' = Clients
      /\ \A e \in Clients : awayTold[e] \subseteq awayTold'[e] /\ awayTold'[e] \subseteq Others(e)
  BY <1>1 DEF IInv, Views
<1>3. \A d : ~(k = 1 /\ IsAway(inbox[c][1], d))
  BY DEF IsAway
<1> QED
  BY <1>1, <1>2, <1>3, QuietStep

\* A message is relayed.
LEMMA MessageRelayed ==
  ASSUME IInv, UNCHANGED <<config, online, presenceVars>>,
         NEW m, m.format \in {1, 2, 4}, m.cookie \in {0} \union Cookies, NEW from, NEW to,
         inbox' = Relayed(inbox, to, MessageSNAC(from, pack(m)))
  PROVE  Boxes' /\ Views' /\ Presence'
<1>1. PICK x : x = MessageSNAC(from, pack(m))
  OBVIOUS
<1>2. x.kind = "message" /\ IsSNAC(x, to)
  BY <1>1, PackedWaits
<1>3. Delivered(to, 0, {x})
  BY <1>1, <1>2, OneRelayed DEF IInv
<1> QED
  BY <1>2, <1>3, QuietDelivery

\* The transfers stay, while the application may have made another call.
LEMMA FilesStay ==
  ASSUME IInv, UNCHANGED ftVars, calls' \in {calls, calls + 1}
  PROVE  Files'
<1>1. transfers' = transfers /\ services' = services /\ hears' = hears /\ offers' = offers
  BY DEF ftVars
<1>2. calls \in Nat
  BY BoundAssumption DEF IInv, Session
<1>3. \A n \in 0 .. calls : n \in 0 .. calls'
  BY <1>2
<1> QED
  BY <1>1, <1>3 DEF IInv, Files

\* A session stays one.
LEMMA SessionStays ==
  ASSUME IInv, UNCHANGED <<config, online>>, calls' = calls \/ Called
  PROVE  Session' /\ calls' \in {calls, calls + 1}
<1>1. protocol' = protocol /\ awaymsg' = awaymsg /\ online' = online
  BY DEF config
<1>2. calls' = calls \/ (calls < MaxCalls /\ calls' = calls + 1)
  BY DEF Called
<1>3. calls \in 0 .. MaxCalls /\ MaxCalls \in Nat
  BY BoundAssumption DEF IInv, Session
<1>4. calls' \in 0 .. MaxCalls /\ calls' \in {calls, calls + 1}
  BY <1>2, <1>3
<1> QED
  BY <1>1, <1>4 DEF IInv, Session

\* The calls that send something to a contact.
LEMMA SendingKeeps ==
  ASSUME IInv, NEW c \in Clients, SendsText(c) \/ SendsMessage(c) \/ sendTypingNotice(c)
  PROVE  IInv'
<1>1. Called /\ UNCHANGED <<config, online, presenceVars, ftVars>>
  BY DEF SendsText, SendsMessage, sendTypingNotice
<1>2. Session' /\ Files'
  BY <1>1, SessionStays, FilesStay
<1>3. ASSUME SendsText(c)
      PROVE  Boxes' /\ Views' /\ Presence'
  <2>1. PICK d \in Others(c), form \in {"latin", "wide"} :
          LET text == [nr |-> calls', form |-> form] IN sendMessage(c, textMessage(d, text), text)
    BY <1>3, Zenon DEF SendsText
  <2>2. PICK text : sendMessage(c, textMessage(d, text), text)
    BY <2>1, Zenon
  <2>3. PICK m : m = textMessage(d, text)
    OBVIOUS
  <2>4. inbox' = Relayed(inbox, m.uin, MessageSNAC(c, pack(m)))
    BY <2>2, <2>3 DEF sendMessage
  <2>5. PICK fields : NewMessage(d) \in MessageRecord(fields)
    BY NewMessages
  <2>6. PICK enc : m = [NewMessage(d) EXCEPT !.text = text, !.encoding = enc]
    BY <2>3, Zenon DEF textMessage
  <2>7. m.format = 1 /\ m.cookie = 0
    BY <2>5, <2>6, NewMessages DEF MessageRecord
  <2> QED
    BY <1>1, <2>4, <2>7, MessageRelayed
<1>4. ASSUME SendsMessage(c)
      PROVE  Boxes' /\ Views' /\ Presence'
  <2>1. PICK d \in Others(c) :
          LET text == [nr |-> calls', form |-> "latin"] IN
          sendMessage(c, [NewMessage(d) EXCEPT !.format = 4, !.type = "URL", !.text = text], text)
    BY <1>4, Zenon DEF SendsMessage
  <2>2. PICK text : sendMessage(c, [NewMessage(d) EXCEPT !.format = 4, !.type = "URL", !.text = text], text)
    BY <2>1, Zenon
  <2>3. PICK m : m = [NewMessage(d) EXCEPT !.format = 4, !.type = "URL", !.text = text]
    OBVIOUS
  <2>4. inbox' = Relayed(inbox, m.uin, MessageSNAC(c, pack(m)))
    BY <2>2, <2>3, Zenon DEF sendMessage
  <2>5. PICK fields : NewMessage(d) \in MessageRecord(fields)
    BY NewMessages
  <2>6. m.format = 4 /\ m.cookie = 0
    BY <2>3, <2>5, NewMessages DEF MessageRecord
  <2> QED
    BY <1>1, <2>4, <2>6, MessageRelayed
<1>5. ASSUME sendTypingNotice(c)
      PROVE  Boxes' /\ Views' /\ Presence'
  <2>1. PICK d, notice : /\ notice = [nr |-> calls', form |-> "typing"]
                         /\ inbox' = Relayed(inbox, d, [kind |-> "typing", from |-> c, notice |-> notice])
    BY <1>5, Zenon DEF sendTypingNotice
  <2>2. PICK x : x = [kind |-> "typing", from |-> c, notice |-> notice]
    OBVIOUS
  <2>5. notice # NoText
    <3>1. calls' # 0
      BY <1>1, BoundAssumption DEF Called, IInv, Session
    <3>2. notice.nr = calls' /\ NoText.nr = 0
      BY <2>1 DEF NoText
    <3> QED
      BY <3>1, <3>2
  <2>3. x.kind = "typing" /\ IsSNAC(x, d)
    BY <2>2, <2>5 DEF IsSNAC
  <2>4. Delivered(d, 0, {x})
    BY <2>1, <2>2, <2>3, OneRelayed DEF IInv
  <2> QED
    BY <1>1, <2>3, <2>4, QuietDelivery
<1> QED
  BY <1>2, <1>3, <1>4, <1>5 DEF IInv

\* The official client writes.
LEMMA PeerKeeps ==
  ASSUME IInv, PeerWrites
  PROVE  IInv'
<1>1. Called /\ UNCHANGED <<config, online, presenceVars, ftVars>>
  BY DEF PeerWrites
<1>2. Session' /\ Files'
  BY <1>1, SessionStays, FilesStay
<1>3. PICK c, wire : /\ wire \in PeerTexts(calls') \union PeerRequests
                     /\ inbox' = Relayed(inbox, c, MessageSNAC(Peer, wire))
  BY Zenon DEF PeerWrites
<1>4. wire.format \in {1, 2, 4} /\ wire.cookie \in {0} \union Cookies
  <2>1. CASE wire \in PeerTexts(calls')
    BY <2>1 DEF PeerTexts
  <2>2. CASE wire \in PeerRequests
    BY <2>2 DEF PeerRequests
  <2> QED
    BY <1>3, <2>1, <2>2
<1>5. PICK x : x = MessageSNAC(Peer, wire)
  OBVIOUS
<1>6. x.kind = "message" /\ IsSNAC(x, c)
  BY <1>4, <1>5 DEF MessageSNAC, IsSNAC
<1>7. Delivered(c, 0, {x})
  BY <1>3, <1>5, <1>6, OneRelayed DEF IInv
<1> QED
  BY <1>1, <1>2, <1>6, <1>7, QuietDelivery DEF IInv
-----------------------------------------------------------------------------
(* Transfers and services *)

\* Nothing is sent or taken.
LEMMA NothingSent ==
  ASSUME IInv, UNCHANGED <<config, online, inbox, presenceVars>>
  PROVE  Boxes' /\ Views' /\ Presence'
<1>1. PICK c : TRUE
  OBVIOUS
<1>2. Delivered(c, 0, {})
  BY NothingRelayed DEF IInv
<1> QED
  BY <1>2, QuietDelivery

\* What the files of one client need.
FilesOf(entries, n, listens, offered, limit) ==
  /\ DOMAIN entries \subseteq {0, OwnCookie, NoCookie} \union Cookies
  /\ \A k \in DOMAIN entries : entries[k] \in {"RECEIVING", "unset"}
  /\ n \in 0 .. limit /\ listens \in BOOLEAN
  /\ offered \subseteq {0} \union Cookies
  /\ \A k \in offered : k \in DOMAIN entries /\ entries[k] = "RECEIVING"

\* They are so for every client.
LEMMA FilesOfAll ==
  ASSUME IInv
  PROVE  \A c \in Clients : FilesOf(transfers[c], services[c], hears[c], offers[c], calls)
  BY DEF IInv, Files, FilesOf

\* g is f but for its value at c, which is v.
OnlyAt(f, g, c, v) == DOMAIN g = DOMAIN f /\ g[c] = v /\ \A e \in DOMAIN f : e # c => g[e] = f[e]

\* A value that is set, or left.
LEMMA SetAt ==
  ASSUME NEW f, NEW c \in DOMAIN f, NEW v
  PROVE  OnlyAt(f, [f EXCEPT ![c] = v], c, v) /\ OnlyAt(f, f, c, f[c])
  BY DEF OnlyAt

\* When only the files of c change.
LEMMA FilesChanged ==
  ASSUME IInv, calls' \in {calls, calls + 1}, NEW c \in Clients, NEW entries, NEW n, NEW listens, NEW offered,
         FilesOf(entries, n, listens, offered, calls'),
         OnlyAt(transfers, transfers', c, entries), OnlyAt(services, services', c, n),
         OnlyAt(hears, hears', c, listens), OnlyAt(offers, offers', c, offered)
  PROVE  Files'
<1>1. /\ DOMAIN transfers = Clients /\ DOMAIN services = Clients /\ DOMAIN hears = Clients /\ DOMAIN offers = Clients
  BY DEF IInv, Files
<1>2. calls \in Nat
  BY BoundAssumption DEF IInv, Session
<1>3. \A m \in 0 .. calls : m \in 0 .. calls'
  BY <1>2
<1>4. ASSUME NEW e \in Clients
      PROVE  FilesOf(transfers'[e], services'[e], hears'[e], offers'[e], calls')
  <2>1. CASE e = c
    BY <1>1, <2>1 DEF OnlyAt
  <2>2. CASE e # c
    <3>1. transfers'[e] = transfers[e] /\ services'[e] = services[e] /\ hears'[e] = hears[e] /\ offers'[e] = offers[e]
      BY <1>1, <2>2 DEF OnlyAt
    <3>2. FilesOf(transfers[e], services[e], hears[e], offers[e], calls)
      BY FilesOfAll
    <3> QED
      BY <1>3, <3>1, <3>2 DEF FilesOf
  <2> QED
    BY <2>1, <2>2
<1>5. /\ DOMAIN transfers' = Clients /\ DOMAIN services' = Clients
      /\ DOMAIN hears' = Clients /\ DOMAIN offers' = Clients
  BY <1>1 DEF OnlyAt
<1> QED
  BY <1>4, <1>5 DEF Files, FilesOf

\* The application answers an offer.
LEMMA AnswersKeeps ==
  ASSUME IInv, NEW c \in Clients, AnswersOffer(c)
  PROVE  IInv'
<1>1. Called /\ UNCHANGED <<config, online, inbox, presenceVars>>
  BY DEF AnswersOffer
<1>2. Session' /\ calls' \in {calls, calls + 1} /\ Boxes' /\ Views' /\ Presence'
  BY <1>1, SessionStays, NothingSent
<1>3. PICK k \in offers[c], accept \in BOOLEAN : acceptFileTransfer(c, k, accept)
  BY DEF AnswersOffer
<1>4. c \in DOMAIN transfers /\ c \in DOMAIN services /\ c \in DOMAIN hears /\ c \in DOMAIN offers
  BY DEF IInv, Files
<1>5. PICK offered : offered = offers[c] \ {k}
  OBVIOUS
<1>6. OnlyAt(offers, offers', c, offered) /\ OnlyAt(hears, hears', c, hears[c])
  BY <1>3, <1>4, <1>5, SetAt DEF acceptFileTransfer
<1>7. FilesOf(transfers[c], services[c], hears[c], offers[c], calls)
  BY FilesOfAll
<1>8. calls \in Nat /\ calls' = calls + 1
  BY <1>1, BoundAssumption DEF IInv, Session, Called
<1>9. CASE accept
  <2>1. transfers' = transfers /\ services' = [services EXCEPT ![c] = services[c] + 1]
    BY <1>3, <1>9 DEF acceptFileTransfer
  <2>2. OnlyAt(transfers, transfers', c, transfers[c]) /\ OnlyAt(services, services', c, services[c] + 1)
    BY <1>4, <2>1, SetAt
  <2>3. FilesOf(transfers[c], services[c] + 1, hears[c], offered, calls')
    BY <1>5, <1>7, <1>8 DEF FilesOf
  <2>4. Files'
    BY <1>2, <1>6, <2>2, <2>3, FilesChanged
  <2> QED
    BY <1>2, <2>4 DEF IInv
<1>10. CASE ~accept
  <2>1. PICK entries : entries = [j \in DOMAIN transfers[c] \ {k} |-> transfers[c][j]]
    OBVIOUS
  <2>2. services' = services /\ transfers' = [transfers EXCEPT ![c] = entries]
    BY <1>3, <1>10, <2>1 DEF acceptFileTransfer
  <2>3. OnlyAt(transfers, transfers', c, entries) /\ OnlyAt(services, services', c, services[c])
    BY <1>4, <2>2, SetAt
  <2>4. FilesOf(entries, services[c], hears[c], offered, calls')
    BY <1>5, <1>7, <1>8, <2>1 DEF FilesOf
  <2>5. Files'
    BY <1>2, <1>6, <2>3, <2>4, FilesChanged
  <2> QED
    BY <1>2, <2>5 DEF IInv
<1> QED
  BY <1>9, <1>10

\* The application sends a file.
LEMMA SendFileKeeps ==
  ASSUME IInv, NEW c \in Clients, sendFile(c)
  PROVE  IInv'
<1>1. Called /\ UNCHANGED <<config, online, inbox, presenceVars>> /\ hears' = hears /\ offers' = offers
  BY DEF sendFile
<1>2. Session' /\ calls' \in {calls, calls + 1} /\ Boxes' /\ Views' /\ Presence'
  BY <1>1, SessionStays, NothingSent
<1>3. c \in DOMAIN transfers /\ c \in DOMAIN services /\ c \in DOMAIN hears /\ c \in DOMAIN offers
  BY DEF IInv, Files
<1>4. FilesOf(transfers[c], services[c], hears[c], offers[c], calls)
  BY FilesOfAll
<1>5. calls \in Nat /\ calls' = calls + 1
  BY <1>1, BoundAssumption DEF IInv, Session, Called
<1>6. services' = [services EXCEPT ![c] = services[c] + 1]
  BY DEF sendFile
<1>7. PICK made : made = Entered(OwnCookie, "unset", transfers[c])
  OBVIOUS
<1>8. transfers' = transfers \/ transfers' = [transfers EXCEPT ![c] = made]
  BY <1>7 DEF sendFile
<1>9. PICK entries \in {transfers[c], made} : OnlyAt(transfers, transfers', c, entries)
  BY <1>3, <1>8, SetAt
<1>10. /\ DOMAIN made = DOMAIN transfers[c] \union {OwnCookie} /\ made[OwnCookie] = "unset"
       /\ \A j \in DOMAIN transfers[c] : j # OwnCookie => made[j] = transfers[c][j]
  BY <1>7 DEF Entered
<1>11. OwnCookie \notin offers[c]
  BY <1>4, CookiesAssumption DEF FilesOf
<1>12. FilesOf(entries, services[c] + 1, hears[c], offers[c], calls')
  BY <1>4, <1>5, <1>9, <1>10, <1>11 DEF FilesOf
<1>13. OnlyAt(services, services', c, services[c] + 1) /\ OnlyAt(hears, hears', c, hears[c])
       /\ OnlyAt(offers, offers', c, offers[c])
  BY <1>1, <1>3, <1>6, SetAt
<1>14. Files'
  BY <1>2, <1>9, <1>12, <1>13, FilesChanged
<1> QED
  BY <1>2, <1>14 DEF IInv

\* A service ends.
LEMMA ServiceEndKeeps ==
  ASSUME IInv, NEW c \in Clients, NEW successful \in BOOLEAN, handleServiceEnd(c, successful)
  PROVE  IInv'
<1>1. UNCHANGED <<config, online, inbox, presenceVars>> /\ calls' = calls /\ offers' = offers
      /\ hears' = [hears EXCEPT ![c] = FALSE] /\ services[c] > 0
  BY DEF handleServiceEnd
<1>2. Session' /\ calls' \in {calls, calls + 1} /\ Boxes' /\ Views' /\ Presence'
  BY <1>1, SessionStays, NothingSent
<1>3. c \in DOMAIN transfers /\ c \in DOMAIN services /\ c \in DOMAIN hears /\ c \in DOMAIN offers
  BY DEF IInv, Files
<1>4. FilesOf(transfers[c], services[c], hears[c], offers[c], calls)
  BY FilesOfAll
<1>5. PICK made : made = Entered(NoCookie, "unset", transfers[c])
  OBVIOUS
<1>6. PICK cleared : cleared = IF NoCookie \in DOMAIN transfers[c] THEN transfers[c] ELSE made
  OBVIOUS
<1>7. PICK rest : rest = [j \in DOMAIN cleared \ {NoCookie} |-> cleared[j]]
  OBVIOUS
<1>8. /\ transfers' = [transfers EXCEPT ![c] = rest] \/ transfers' = [transfers EXCEPT ![c] = cleared]
      /\ services' = services \/ services' = [services EXCEPT ![c] = services[c] - 1]
  BY <1>5, <1>6, <1>7 DEF handleServiceEnd, getCookieFromId
<1>9. PICK entries \in {rest, cleared} : OnlyAt(transfers, transfers', c, entries)
  BY <1>3, <1>8, SetAt
<1>10. PICK n \in {services[c], services[c] - 1} : OnlyAt(services, services', c, n)
  BY <1>3, <1>8, SetAt, ZenonT(60)
<1>11. OnlyAt(hears, hears', c, FALSE) /\ OnlyAt(offers, offers', c, offers[c])
  BY <1>1, <1>3, SetAt
<1>12. NoCookie \notin offers[c]
  BY <1>4, CookiesAssumption DEF FilesOf
<1>13. /\ DOMAIN made = DOMAIN transfers[c] \union {NoCookie} /\ made[NoCookie] = "unset"
       /\ \A j \in DOMAIN transfers[c] : j # NoCookie => made[j] = transfers[c][j]
  BY <1>5 DEF Entered
<1>14. /\ DOMAIN cleared = DOMAIN transfers[c] \union {NoCookie} /\ cleared[NoCookie] \in {"RECEIVING", "unset"}
       /\ \A j \in DOMAIN transfers[c] : j # NoCookie => cleared[j] = transfers[c][j]
  BY <1>4, <1>6, <1>13 DEF FilesOf
<1>15. FilesOf(cleared, services[c], FALSE, offers[c], calls)
  BY <1>4, <1>12, <1>14 DEF FilesOf
<1>16. FilesOf(rest, services[c], FALSE, offers[c], calls)
  BY <1>7, <1>12, <1>15 DEF FilesOf
<1>17. n \in 0 .. calls
  <2>1. services[c] \in 0 .. calls /\ calls \in Nat
    BY <1>4, BoundAssumption DEF FilesOf, IInv, Session
  <2> QED
    BY <1>1, <1>10, <2>1
<1>18. FilesOf(entries, n, FALSE, offers[c], calls')
  BY <1>1, <1>9, <1>15, <1>16, <1>17 DEF FilesOf
<1>19. Files'
  BY <1>2, <1>9, <1>10, <1>11, <1>18, FilesChanged
<1> QED
  BY <1>2, <1>19 DEF IInv

-----------------------------------------------------------------------------
(* SNACs that no status changes with *)

\* The first SNAC is one that may wait.
LEMMA HeadWaits ==
  ASSUME IInv, NEW c \in Clients, NEW kind, Arrives(c, kind)
  PROVE  /\ inbox[c] # <<>> /\ Head(inbox[c]) = inbox[c][1] /\ inbox[c][1].kind = kind
         /\ IsSNAC(inbox[c][1], c) /\ c \in online
<1>1. inbox[c] # <<>> /\ IsQueue(inbox[c])
  BY DEF Arrives, IInv, Boxes
<1>2. 1 \in DOMAIN inbox[c] /\ Head(inbox[c]) = inbox[c][1]
  BY <1>1, Shortened
<1> QED
  BY <1>1, <1>2 DEF Arrives, IInv, Boxes

\* What is taken is no status, and nothing is relayed.
LEMMA QuietTaken ==
  ASSUME IInv, NEW c \in Clients, NEW kind \in {"typing", "meta"}, Arrives(c, kind),
         inbox' = TakenFrom(c), UNCHANGED <<config, calls, online, presenceVars, ftVars>>
  PROVE  IInv'
<1>1. Session' /\ Files'
  BY SessionStays, FilesStay
<1>2. inbox[c] # <<>> /\ inbox[c][1].kind = kind
  BY HeadWaits
<1>3. Delivered(c, 1, {})
  BY <1>2, OneTaken DEF IInv
<1>4. Boxes' /\ Views' /\ Presence'
  BY <1>2, <1>3, QuietDelivery
<1> QED
  BY <1>1, <1>4 DEF IInv

\* A typing notice is told.
LEMMA TypingKeeps ==
  ASSUME IInv, NEW c \in Clients, typingEventArrived(c)
  PROVE  IInv'
  BY QuietTaken DEF typingEventArrived

\* What the server kept is passed over.
LEMMA MetaKeeps ==
  ASSUME IInv, NEW c \in Clients, serverMetaReply(c)
  PROVE  IInv'
  BY QuietTaken DEF serverMetaReply

\* The answer of the server on an away message is told.
LEMMA AwayKeeps ==
  ASSUME IInv, NEW c \in Clients, newAwayMessage(c)
  PROVE  IInv'
<1>1. UNCHANGED <<config, calls, online, ftVars>> /\ status' = status /\ seen' = seen
      /\ Arrives(c, "userinfo") /\ inbox' = TakenFrom(c)
  BY DEF newAwayMessage
<1>2. Session' /\ Files'
  BY <1>1, SessionStays, FilesStay
<1>3. PICK s : s = inbox[c][1]
  OBVIOUS
<1>4. inbox[c] # <<>> /\ Head(inbox[c]) = s /\ s.kind = "userinfo" /\ s.from \in Others(c)
  BY <1>1, <1>3, HeadWaits DEF IsSNAC
<1>5. Delivered(c, 1, {})
  BY <1>1, <1>4, OneTaken DEF IInv
<1>6. awayTold' = IF s.away THEN [awayTold EXCEPT ![c] = awayTold[c] \union {s.from}] ELSE awayTold
  BY <1>4 DEF newAwayMessage
<1>7. DOMAIN awayTold = Clients /\ \A e \in Clients : awayTold[e] \subseteq Others(e)
  BY DEF IInv, Views
<1>8. /\ DOMAIN awayTold' = Clients
      /\ \A e \in Clients : awayTold[e] \subseteq awayTold'[e] /\ awayTold'[e] \subseteq Others(e)
      /\ s.away => s.from \in awayTold'[c]
  BY <1>4, <1>6, <1>7
<1>9. \A d : IsAway(inbox[c][1], d) => d \in awayTold'[c]
  BY <1>3, <1>8 DEF IsAway
<1>10. Boxes' /\ Views' /\ Presence'
  BY <1>1, <1>3, <1>4, <1>5, <1>8, <1>9, QuietStep
<1> QED
  BY <1>2, <1>10 DEF IInv

\* A message is told or answered, and the file it may offer is a transfer.
LEMMA MessageKeeps ==
  ASSUME IInv, NEW c \in Clients, newMessage(c)
  PROVE  IInv'
<1>1. UNCHANGED <<config, calls, online, presenceVars>> /\ services' = services /\ hears' = hears
      /\ Arrives(c, "message")
  BY DEF newMessage
<1>2. Session'
  BY <1>1, SessionStays
<1>3. PICK s : s = inbox[c][1]
  OBVIOUS
<1>4. inbox[c] # <<>> /\ Head(inbox[c]) = s /\ s.kind = "message" /\ IsSNAC(s, c)
  BY <1>1, <1>3, HeadWaits
<1>5. s.wire.format \in {1, 2, 4} /\ s.wire.cookie \in {0} \union Cookies
  BY <1>4 DEF IsSNAC
<1>6. PICK m : m = parse(s.wire, s.from)
  OBVIOUS
<1>7. m.format \in {1, 2, 4} /\ m.cookie \in {0} \union Cookies
  BY <1>5, <1>6, ReadAsWritten
<1>8. PICK fields : m \in MessageRecord(fields)
  BY <1>5, <1>6, ReadAsWritten
<1>9. messageArrived(c, m) /\ ftMessageArrived(c, m)
  BY <1>4, <1>6, Zenon DEF newMessage
<1>10. Boxes' /\ Views' /\ Presence'
  <2>1. PICK answer : answer = [m EXCEPT !.text = NoText]
    OBVIOUS
  <2>2. answer.format = m.format /\ answer.cookie = m.cookie
    BY <1>8, <2>1, FieldsSet DEF Like
  <2>3. PICK x : x = MessageSNAC(c, pack(answer))
    OBVIOUS
  <2>4. x.kind = "message" /\ IsSNAC(x, m.uin)
    BY <1>7, <2>2, <2>3, PackedWaits
  <2>5. inbox' = Relayed(TakenFrom(c), m.uin, x) \/ inbox' = TakenFrom(c)
    BY <1>9, <2>1, <2>3 DEF messageArrived
  <2>6. Delivered(c, 1, {x}) \/ Delivered(c, 1, {})
    BY <1>4, <2>4, <2>5, OneTaken, TakenAndRelayed DEF IInv
  <2> QED
    BY <1>1, <1>3, <1>4, <2>4, <2>6, QuietDelivery
<1>11. Files'
  <2>1. c \in DOMAIN transfers /\ c \in DOMAIN services /\ c \in DOMAIN hears /\ c \in DOMAIN offers
    BY DEF IInv, Files
  <2>2. FilesOf(transfers[c], services[c], hears[c], offers[c], calls)
    BY FilesOfAll
  <2>3. OnlyAt(services, services', c, services[c]) /\ OnlyAt(hears, hears', c, hears[c])
    BY <1>1, <2>1, SetAt
  <2>4. CASE UNCHANGED <<transfers, offers>>
    BY <1>1, <2>4, FilesStay DEF ftVars
  <2>5. ASSUME ~(UNCHANGED <<transfers, offers>>)
        PROVE  Files'
    <3>1. PICK made : made = Entered(m.cookie, "RECEIVING", transfers[c])
      OBVIOUS
    <3>2. transfers' = [transfers EXCEPT ![c] = made]
          /\ (offers' = offers \/ offers' = [offers EXCEPT ![c] = offers[c] \union {m.cookie}])
      BY <1>9, <2>5, <3>1 DEF ftMessageArrived
    <3>3. PICK offered \in {offers[c], offers[c] \union {m.cookie}} : OnlyAt(offers, offers', c, offered)
      BY <2>1, <3>2, SetAt
    <3>4. OnlyAt(transfers, transfers', c, made)
      BY <2>1, <3>2, SetAt
    <3>5. /\ DOMAIN made = DOMAIN transfers[c] \union {m.cookie} /\ made[m.cookie] = "RECEIVING"
          /\ \A j \in DOMAIN transfers[c] : j # m.cookie => made[j] = transfers[c][j]
      BY <3>1 DEF Entered
    <3>6. FilesOf(made, services[c], hears[c], offered, calls')
      BY <1>1, <1>7, <2>2, <3>3, <3>5 DEF FilesOf
    <3> QED
      BY <1>1, <2>3, <3>3, <3>4, <3>6, FilesChanged
  <2> QED
    BY <2>4, <2>5
<1> QED
  BY <1>2, <1>10, <1>11 DEF IInv

-----------------------------------------------------------------------------
(* Statuses *)

\* What is shown of a known status is one, and the code knows all of them.
LEMMA ShownKnown ==
  Known \subseteq PresenceStatus /\ \A x \in Known : Shown(x) \in Known
  BY StatusesAssumption DEF Known, PresenceStatus, Shown

\* A status is taken and asked about.
LEMMA StatusKeeps ==
  ASSUME IInv, NEW c \in Clients, statusChanged(c)
  PROVE  IInv'
<1>1. UNCHANGED <<config, calls, online, ftVars>> /\ status' = status /\ Arrives(c, "status")
  BY DEF statusChanged
<1>2. Session' /\ Files'
  BY <1>1, SessionStays, FilesStay
<1>3. PICK s : s = inbox[c][1]
  OBVIOUS
<1>4. inbox[c] # <<>> /\ Head(inbox[c]) = s /\ s.kind = "status" /\ IsSNAC(s, c) /\ c \in online
  BY <1>1, <1>3, HeadWaits
<1>5. PICK d \in Others(c) : d = s.from
  BY <1>4 DEF IsSNAC
<1>6. PICK x \in Known : s.code = specPack(x)
  BY <1>4 DEF IsSNAC
<1>7. parseStatus(s.code) = x
  BY <1>6, StatusRead, ShownKnown
<1>8. /\ inbox' = AskForAwayMessage(c, d, x, TakenFrom(c))
      /\ seen' = [seen EXCEPT ![c][d] = x]
      /\ awayTold' = [awayTold EXCEPT ![c] = awayTold[c] \ {d}]
  BY <1>4, <1>5, <1>7 DEF statusChanged
<1>9. PICK u : u = [kind |-> "userinfo", from |-> d, away |-> Shown(status[d]) = "AWAY"]
  OBVIOUS
<1>10. PICK request : request = MessageSNAC(c, AwayRequest(d, x))
  OBVIOUS
<1>11. u.kind = "userinfo" /\ IsSNAC(u, c)
  BY <1>9 DEF IsSNAC
<1>12. request.kind = "message" /\ IsSNAC(request, d)
  <2>1. PICK type : AwayRequest(d, x) = pack([NewMessage(d) EXCEPT !.format = 2, !.type = type])
    BY Zenon DEF AwayRequest
  <2>2. PICK m : m = [NewMessage(d) EXCEPT !.format = 2, !.type = type]
    OBVIOUS
  <2>3. PICK fields : NewMessage(d) \in MessageRecord(fields)
    BY NewMessages
  <2>4. m.format = 2 /\ m.cookie = 0
    BY <2>2, <2>3, NewMessages DEF MessageRecord
  <2>5. request = MessageSNAC(c, pack(m))
    BY <1>10, <2>1, <2>2, Zenon
  <2> QED
    BY <2>4, <2>5, PackedWaits
<1>13. \/ inbox' = TakenFrom(c)
       \/ inbox' = Relayed(TakenFrom(c), c, u)
       \/ inbox' = Relayed(TakenFrom(c), d, request)
  BY <1>8, <1>9, <1>10 DEF AskForAwayMessage
<1>14. PICK N : Delivered(c, 1, N) /\ \A n \in N : n.kind # "status"
  <2>1. Delivered(c, 1, {}) \/ Delivered(c, 1, {u}) \/ Delivered(c, 1, {request})
    BY <1>4, <1>11, <1>12, <1>13, OneTaken, TakenAndRelayed DEF IInv
  <2> QED
    BY <1>11, <1>12, <2>1
<1>15. Boxes'
  BY <1>1, <1>14, DeliveredBoxes DEF IInv
<1>16. /\ DOMAIN seen = Clients /\ DOMAIN seen[c] = Others(c)
       /\ DOMAIN awayTold = Clients /\ awayTold[c] \subseteq Others(c)
  BY DEF IInv, Views
<1>17. /\ DOMAIN seen' = Clients /\ DOMAIN seen'[c] = Others(c) /\ seen'[c][d] = x
       /\ \A e \in Others(c) : e # d => seen'[c][e] = seen[c][e]
       /\ \A e \in Clients : e # c => seen'[e] = seen[e]
  BY <1>8, <1>16
<1>18. /\ DOMAIN awayTold' = Clients /\ awayTold'[c] = awayTold[c] \ {d}
       /\ \A e \in Clients : e # c => awayTold'[e] = awayTold[e]
  BY <1>8, <1>16
<1>19. Views'
  <2>1. ASSUME NEW e \in Clients
        PROVE  /\ status'[e] \in Known /\ awayTold'[e] \subseteq Others(e)
               /\ DOMAIN seen'[e] = Others(e) /\ \A g \in Others(e) : seen'[e][g] \in Known
               /\ e \notin online' => status'[e] = "OFFLINE" /\ \A g \in Others(e) : seen'[e][g] = "OFFLINE"
    <3>1. CASE e = c
      BY <1>1, <1>4, <1>16, <1>17, <1>18, <3>1 DEF IInv, Views
    <3>2. CASE e # c
      BY <1>1, <1>17, <1>18, <3>2 DEF IInv, Views
    <3> QED
      BY <3>1, <3>2
  <2> QED
    BY <1>1, <1>17, <1>18, <2>1 DEF IInv, Views, Known
<1>20. ASSUME NEW e \in online, NEW g \in Others(e), e # c \/ g # d
       PROVE  View(e, g)'
  <2>1. e \in Clients
    BY DEF IInv, Session
  <2>2. PICK l : l = IF e = c THEN 1 ELSE 0
    OBVIOUS
  <2>3. PICK X \in SUBSET N : Moves(inbox[e], inbox'[e], l, X)
    BY <1>14, <2>1, <2>2 DEF Delivered
  <2>4. \A n \in X : ~IsStatus(n, g)
    BY <1>14 DEF IsStatus
  <2>5. l = 1 => ~IsStatus(inbox[e][1], g) /\ ~IsAway(inbox[e][1], g)
    BY <1>3, <1>4, <1>5, <1>20, <2>2 DEF IsStatus, IsAway
  <2>6. View(e, g)
    BY DEF IInv, Presence
  <2>7. seen'[e][g] = seen[e][g] /\ (g \in awayTold[e] => g \in awayTold'[e])
    BY <1>17, <1>18, <1>20, <2>1
  <2> QED
    BY <1>1, <2>3, <2>4, <2>5, <2>6, <2>7, ViewOn
<1>21. View(c, d)'
  <2>1. PICK X \in SUBSET N : Moves(inbox[c], inbox'[c], 1, X)
    BY <1>14 DEF Delivered
  <2>2. \A n \in X : ~IsStatus(n, d)
    BY <1>14 DEF IsStatus
  <2>3. PICK now : now = Shown(status[d]) /\ now = Shown(status[d])'
    BY <1>1, ShownStays
  <2>4. now \in PresenceStatus
    BY <2>3, ShownKnown DEF IInv, Views, Others
  <2>5. Shows(inbox[c], d, now, seen[c][d])
    BY <1>4, <2>3 DEF IInv, Presence, View
  <2>6. IsStatus(inbox[c][1], d)
    BY <1>3, <1>4, <1>5 DEF IsStatus
  <2>7. Shows(inbox'[c], d, now, x)
    BY <1>3, <1>7, <2>1, <2>2, <2>4, <2>5, <2>6, ShowsRest
  <2>8. ASSUME protocol = "AIM", x = "AWAY"
        PROVE  \E p \in DOMAIN inbox'[c] : IsStatus(inbox'[c][p], d) \/ IsAway(inbox'[c][p], d)
    <3>1. CASE now = "AWAY"
      <4>1. inbox' = Relayed(TakenFrom(c), c, u)
        BY <1>8, <1>9, <2>3, <2>8, <3>1 DEF AskForAwayMessage
      <4>2. inbox'[c] = Append(Tail(inbox[c]), u)
        BY <1>4, <4>1 DEF Relayed, TakenFrom, IInv, Boxes
      <4>3. Moves(inbox[c], inbox'[c], 1, {u})
        BY <1>4, <4>2, ShortenedAndGrown DEF IInv, Boxes
      <4>4. PICK p \in DOMAIN inbox'[c] : inbox'[c][p] = u
        BY <4>3 DEF Moves
      <4>5. IsAway(u, d)
        BY <1>9, <2>3, <3>1 DEF IsAway
      <4> QED
        BY <4>4, <4>5
    <3>2. CASE now # "AWAY"
      BY <2>7, <2>8, <3>2 DEF Shows
    <3> QED
      BY <3>1, <3>2
  <2>9. protocol' = protocol
    BY <1>1 DEF config
  <2> QED
    BY <1>17, <2>3, <2>7, <2>8, <2>9 DEF View, Shows, TellsAway
<1>22. Presence'
  BY <1>1, <1>4, <1>20, <1>21 DEF Presence
<1> QED
  BY <1>2, <1>15, <1>19, <1>22 DEF IInv

\* The status that the server relays.
LEMMA StatusWaits ==
  ASSUME NEW c \in Clients, NEW e \in Others(c), NEW s \in Known, NEW x, x = StatusSNAC(c, s)
  PROVE  IsSNAC(x, e) /\ IsStatus(x, c) /\ x.code = specPack(Shown(s))
<1>1. PICK code : code = specPack(Shown(s))
  OBVIOUS
<1>2. x.kind = "status" /\ x.from = c /\ x.code = code
  BY <1>1 DEF StatusSNAC
<1>3. c \in Others(e)
  BY DEF Others
<1>4. \E y \in Known : code = specPack(y)
  BY <1>1, ShownKnown
<1> QED
  BY <1>1, <1>2, <1>3, <1>4 DEF IsSNAC, IsStatus

\* A status of c is relayed to all others who are online.
LEMMA StatusRelayed ==
  ASSUME IInv, NEW c \in Clients, NEW s \in Known, UNCHANGED config, status' = [status EXCEPT ![c] = s],
         NEW e \in Others(c), inbox'[e] = ShownToOthers(inbox, c, s)[e],
         seen'[e] = seen[e], awayTold'[e] = awayTold[e]
  PROVE  /\ IsQueue(inbox'[e]) /\ \A p \in DOMAIN inbox'[e] : IsSNAC(inbox'[e][p], e)
         /\ e \notin online => inbox'[e] = <<>>
         /\ e \in online => \A d \in Others(e) : View(e, d)'
<1>0. e \in Clients /\ e # c
  BY DEF Others
<1>1. IsQueue(inbox[e]) /\ (\A p \in DOMAIN inbox[e] : IsSNAC(inbox[e][p], e)) /\ (e \notin online => inbox[e] = <<>>)
  BY <1>0 DEF IInv, Boxes
<1>2. CASE e \notin online
  <2>1. inbox'[e] = inbox[e]
    BY <1>0, <1>2 DEF ShownToOthers
  <2> QED
    BY <1>1, <1>2, <2>1
<1>3. CASE e \in online
  <2>1. PICK x : x = StatusSNAC(c, s)
    OBVIOUS
  <2>2. inbox'[e] = Append(inbox[e], x)
    BY <1>0, <1>3, <2>1 DEF ShownToOthers
  <2>3. IsSNAC(x, e) /\ IsStatus(x, c) /\ x.code = specPack(Shown(s))
    BY <2>1, StatusWaits
  <2>4. IsQueue(inbox'[e]) /\ Moves(inbox[e], inbox'[e], 0, {x})
    BY <1>1, <2>2, Grown
  <2>5. ASSUME NEW p \in DOMAIN inbox'[e]
        PROVE  IsSNAC(inbox'[e][p], e)
    <3>1. (p \in DOMAIN inbox[e] /\ inbox'[e][p] = inbox[e][p]) \/ inbox'[e][p] = x
      BY <2>4 DEF Moves
    <3> QED
      BY <1>1, <2>3, <3>1
  <2>6. ASSUME NEW d \in Others(e)
        PROVE  View(e, d)'
    <3>1. CASE d = c
      <4>1. PICK now : now = Shown(s) /\ now = Shown(status[d])'
        <5>1. status'[d] = s
          BY <3>1 DEF IInv, Views
        <5> QED
          BY <5>1, ShownStays
      <4>2. Shows(inbox'[e], d, now, seen'[e][d])
        BY <2>3, <2>4, <3>1, <4>1, ShowsNew
      <4>3. \E p \in DOMAIN inbox'[e] : IsStatus(inbox'[e][p], d)
        BY <2>3, <2>4, <3>1 DEF Moves
      <4> QED
        BY <4>1, <4>2, <4>3 DEF View, Shows, TellsAway
    <3>2. CASE d # c
      <4>1. status'[d] = status[d]
        BY <3>2 DEF IInv, Views, Others
      <4>2. \A y \in {x} : ~IsStatus(y, d)
        BY <2>3, <3>2 DEF IsStatus
      <4>3. View(e, d)
        BY <1>3 DEF IInv, Presence
      <4>4. PICK k : k = 0 /\ Moves(inbox[e], inbox'[e], k, {x})
        BY <2>4
      <4>5. k # 1 /\ seen'[e][d] = seen[e][d] /\ (d \in awayTold[e] => d \in awayTold'[e])
        BY <4>4
      <4> QED
        BY <4>1, <4>2, <4>3, <4>4, <4>5, ViewOn, Zenon
    <3> QED
      BY <3>1, <3>2
  <2> QED
    BY <1>3, <2>4, <2>5, <2>6
<1> QED
  BY <1>2, <1>3

\* The application sets a status.
LEMMA SetsPresenceKeeps ==
  ASSUME IInv, NEW c \in Clients, SetsPresence(c)
  PROVE  IInv'
<1>1. Called /\ UNCHANGED <<config, online, ftVars>> /\ seen' = seen /\ awayTold' = awayTold /\ c \in online
  BY DEF SetsPresence
<1>2. Session' /\ Files'
  BY <1>1, SessionStays, FilesStay
<1>3. PICK s \in Statuses : status' = [status EXCEPT ![c] = s] /\ inbox' = ShownToOthers(inbox, c, s)
  BY DEF SetsPresence, setPresence
<1>4. s \in Known
  BY DEF Known
<1>5. inbox'[c] = inbox[c] /\ DOMAIN inbox' = Clients
  BY <1>3 DEF ShownToOthers
<1>6. \A e \in Others(c) : /\ IsQueue(inbox'[e]) /\ \A p \in DOMAIN inbox'[e] : IsSNAC(inbox'[e][p], e)
                           /\ e \notin online => inbox'[e] = <<>>
                           /\ e \in online => \A d \in Others(e) : View(e, d)'
  BY <1>1, <1>3, <1>4, StatusRelayed
<1>7. Boxes'
  <2>1. ASSUME NEW e \in Clients
        PROVE  /\ IsQueue(inbox'[e]) /\ \A p \in DOMAIN inbox'[e] : IsSNAC(inbox'[e][p], e)
               /\ e \notin online => inbox'[e] = <<>>
    <3>1. CASE e = c
      BY <1>5, <3>1 DEF IInv, Boxes
    <3>2. CASE e # c
      BY <1>6, <3>2 DEF Others
    <3> QED
      BY <3>1, <3>2
  <2> QED
    BY <1>1, <1>5, <2>1 DEF Boxes, IsSNAC
<1>8. Views'
  BY <1>1, <1>3, <1>4 DEF IInv, Views
<1>9. ASSUME NEW d \in Others(c)
      PROVE  View(c, d)'
  <2>1. PICK k, X : k = 0 /\ X = {} /\ Moves(inbox[c], inbox'[c], k, X)
    BY <1>5, Stayed DEF IInv, Boxes
  <2>2. status'[d] = status[d]
    BY <1>3 DEF IInv, Views, Others
  <2>3. View(c, d)
    BY <1>1 DEF IInv, Presence
  <2>4. k # 1 /\ seen'[c][d] = seen[c][d] /\ (d \in awayTold[c] => d \in awayTold'[c])
    BY <1>1, <2>1
  <2>5. \A y \in X : ~IsStatus(y, d)
    BY <2>1
  <2> QED
    BY <1>1, <2>1, <2>2, <2>3, <2>4, <2>5, ViewOn, Zenon
<1>10. Presence'
  <2>1. \A e \in online : e = c \/ e \in Others(c)
    BY DEF IInv, Session, Others
  <2> QED
    BY <1>1, <1>6, <1>9, <2>1 DEF Presence
<1> QED
  BY <1>2, <1>7, <1>8, <1>10 DEF IInv

\* A connection is lost.
LEMMA LossKeeps ==
  ASSUME IInv, NEW c \in Clients, BOSDisconnected(c)
  PROVE  IInv'
<1>1. /\ Called /\ UNCHANGED <<config, ftVars>> /\ online' = online \ {c}
      /\ status' = [status EXCEPT ![c] = "OFFLINE"]
      /\ inbox' = [ShownToOthers(inbox, c, "OFFLINE") EXCEPT ![c] = <<>>]
      /\ seen' = [seen EXCEPT ![c] = [d \in Others(c) |-> "OFFLINE"]]
      /\ awayTold' = [awayTold EXCEPT ![c] = {}]
  BY DEF BOSDisconnected
<1>2. Session' /\ Files'
  <2>1. protocol' = protocol /\ awaymsg' = awaymsg
    BY <1>1 DEF config
  <2>2. calls' = calls + 1 /\ calls' \in 0 .. MaxCalls
    BY <1>1, BoundAssumption DEF Called, IInv, Session
  <2>3. Files'
    BY <1>1, <2>2, FilesStay
  <2> QED
    BY <1>1, <2>1, <2>2, <2>3 DEF IInv, Session
<1>3. "OFFLINE" \in Known
  BY DEF Known
<1>4. DOMAIN seen = Clients /\ DOMAIN awayTold = Clients /\ DOMAIN status = Clients
  BY DEF IInv, Views
<1>5. inbox'[c] = <<>> /\ DOMAIN inbox' = Clients
  BY <1>1 DEF ShownToOthers
<1>6. \A e \in Others(c) : /\ inbox'[e] = ShownToOthers(inbox, c, "OFFLINE")[e]
                           /\ seen'[e] = seen[e] /\ awayTold'[e] = awayTold[e]
  BY <1>1, <1>4 DEF ShownToOthers, Others
<1>7. \A e \in Others(c) : /\ IsQueue(inbox'[e]) /\ \A p \in DOMAIN inbox'[e] : IsSNAC(inbox'[e][p], e)
                           /\ e \notin online => inbox'[e] = <<>>
                           /\ e \in online => \A d \in Others(e) : View(e, d)'
  BY <1>1, <1>3, <1>6, StatusRelayed
<1>8. IsQueue(<<>>) /\ DOMAIN <<>> = {}
  <2>1. <<>> \in Seq({})
    OBVIOUS
  <2>2. IsQueue(<<>>)
    BY <2>1, QueueFormed
  <2>3. DOMAIN <<>> = {}
    OBVIOUS
  <2> QED
    BY <2>2, <2>3
<1>9. Boxes'
  <2>1. ASSUME NEW e \in Clients
        PROVE  /\ IsQueue(inbox'[e]) /\ \A p \in DOMAIN inbox'[e] : IsSNAC(inbox'[e][p], e)
               /\ e \notin online' => inbox'[e] = <<>>
    <3>1. CASE e = c
      BY <1>5, <1>8, <3>1
    <3>2. CASE e # c
      BY <1>1, <1>7, <3>2 DEF Others
    <3> QED
      BY <3>1, <3>2
  <2> QED
    BY <1>5, <2>1 DEF Boxes, IsSNAC
<1>10. Views'
  <2>1. ASSUME NEW e \in Clients
        PROVE  /\ status'[e] \in Known /\ awayTold'[e] \subseteq Others(e)
               /\ DOMAIN seen'[e] = Others(e) /\ \A g \in Others(e) : seen'[e][g] \in Known
               /\ e \notin online' => status'[e] = "OFFLINE" /\ \A g \in Others(e) : seen'[e][g] = "OFFLINE"
    <3>1. CASE e = c
      BY <1>1, <1>3, <1>4, <3>1
    <3>2. CASE e # c
      <4>1. status'[e] = status[e] /\ seen'[e] = seen[e] /\ awayTold'[e] = awayTold[e]
        BY <1>1, <1>4, <3>2
      <4> QED
        BY <1>1, <3>2, <4>1 DEF IInv, Views
    <3> QED
      BY <3>1, <3>2
  <2>2. DOMAIN status' = Clients /\ DOMAIN seen' = Clients /\ DOMAIN awayTold' = Clients
    BY <1>1, <1>4
  <2> QED
    BY <2>1, <2>2 DEF Views
<1>11. Presence'
  <2>1. \A e \in online' : e \in online /\ e \in Others(c)
    BY <1>1 DEF IInv, Session, Others
  <2> QED
    BY <1>7, <2>1 DEF Presence
<1> QED
  BY <1>2, <1>9, <1>10, <1>11 DEF IInv

-----------------------------------------------------------------------------
(* Connections *)

\* What the server keeps for the clients.
Kept == DOMAIN stored = Clients /\ \A c \in Clients : IsQueue(stored[c])

\* A finite set as a queue has all its elements.
LEMMA AllInQueue ==
  ASSUME NEW S, IsFiniteSet(S)
  PROVE  \E n \in Nat : /\ SetToSeq(S) \in [1 .. n -> S]
                        /\ \A d \in S : \E i \in 1 .. n : SetToSeq(S)[i] = d
<1>1. PICK n \in Nat : n = Cardinality(S) /\ ExistsBijection(1 .. n, S)
  BY FS_CardinalityType
<1>2. PICK g : g \in Injection(1 .. n, S)
  BY <1>1 DEF ExistsBijection, Bijection
<1>3. PICK f : f = SetToSeq(S)
  OBVIOUS
<1>4. f \in [1 .. n -> S] /\ IsInjective(f)
  <2>1. \E h \in [1 .. n -> S] : IsInjective(h)
    BY <1>2 DEF Injection
  <2>2. f = CHOOSE h \in [1 .. n -> S] : IsInjective(h)
    BY <1>1, <1>3 DEF SetToSeq
  <2> QED
    BY <2>1, <2>2
<1>5. Cardinality(1 .. n) = Cardinality(S)
  BY <1>1, FS_Interval
<1>6. f \in Injection(1 .. n, S)
  BY <1>4 DEF Injection
<1>7. f \in Surjection(1 .. n, S)
  BY <1>5, <1>6, FS_Injection
<1> QED
  BY <1>3, <1>4, <1>7 DEF Surjection

\* What waits for a client that connects: the statuses of the contacts of S, and things of the
\* server that are no statuses.
Welcomes(q, S) ==
  /\ IsQueue(q)
  /\ \A p \in DOMAIN q : q[p].kind = "meta" \/ \E d \in S : q[p] = StatusSNAC(d, status[d])
  /\ \A d \in S : \E p \in DOMAIN q : q[p] = StatusSNAC(d, status[d])

\* What a client finds when it connects.
LEMMA Welcomed ==
  ASSUME IInv, Kept, NEW c \in Clients, finishedConnection(c)
  PROVE  Welcomes(inbox'[c], {d \in online : Shown(status[d]) # "OFFLINE"})
<1> DEFINE S == {d \in online : Shown(status[d]) # "OFFLINE"}
           T == {StatusSNAC(d, status[d]) : d \in S}
           M == {[kind |-> "meta", type |-> "OFFLINE_MESSAGE"], [kind |-> "meta", type |-> "END_OFFLINE_MESSAGES"]}
<1>1. PICK n \in Nat : /\ SetToSeq(S) \in [1 .. n -> S]
                       /\ \A d \in S : \E i \in 1 .. n : SetToSeq(S)[i] = d
  <2>1. S \subseteq Clients
    BY DEF IInv, Session
  <2>2. IsFiniteSet(S)
    BY <2>1, FS_Subset, BoundAssumption
  <2> QED
    BY <2>2, AllInQueue
<1>2. PICK contacts : contacts = SetToSeq(S)
  OBVIOUS
<1>3. contacts \in [1 .. n -> S] /\ \A d \in S : \E i \in 1 .. n : contacts[i] = d
  BY <1>1, <1>2
<1>4. contacts \in Seq(S) /\ Len(contacts) = n
  BY <1>3
<1>5. PICK shown : shown = [i \in 1 .. Len(contacts) |-> StatusSNAC(contacts[i], status[contacts[i]])]
  OBVIOUS
<1>6. /\ shown \in Seq(T) /\ Len(shown) = n
      /\ \A i \in 1 .. n : shown[i] = StatusSNAC(contacts[i], status[contacts[i]])
  <2>1. shown \in [1 .. n -> T]
    BY <1>3, <1>4, <1>5
  <2> QED
    BY <1>4, <1>5, <2>1
<1>7. PICK kept : kept = [i \in 1 .. Len(stored[c]) |-> [kind |-> "meta", type |-> "OFFLINE_MESSAGE"]]
  OBVIOUS
<1>8. kept \in Seq(M)
  <2>1. PICK k \in Nat : k = Len(stored[c])
    BY QueueShape DEF Kept
  <2>2. kept \in [1 .. k -> M]
    BY <1>7, <2>1
  <2> QED
    BY <2>2
<1>9. PICK rest : rest = IF protocol = "ICQ"
                         THEN Append(kept, [kind |-> "meta", type |-> "END_OFFLINE_MESSAGES"])
                         ELSE <<>>
  OBVIOUS
<1>10. rest \in Seq(M)
  <2>1. Append(kept, [kind |-> "meta", type |-> "END_OFFLINE_MESSAGES"]) \in Seq(M)
    BY <1>8, Appended
  <2>2. <<>> \in Seq(M)
    OBVIOUS
  <2> QED
    BY <1>9, <2>1, <2>2
<1>11. PICK q : q = shown \o rest
  OBVIOUS
<1>12. inbox'[c] = q
  <2>1. inbox' = [ShownToOthers(inbox, c, "ONLINE") EXCEPT ![c] = q]
    BY <1>2, <1>5, <1>7, <1>9, <1>11, Zenon DEF finishedConnection
  <2> QED
    BY <2>1 DEF ShownToOthers
<1>13. PICK l \in Nat : l = Len(rest)
  BY <1>10, LenProperties
<1>14. /\ q \in Seq(T \union M) /\ DOMAIN q = 1 .. n + l
       /\ \A i \in 1 .. n : q[i] = shown[i]
       /\ \A i \in 1 .. l : q[n + i] = rest[i] /\ rest[i] \in M
  <2>1. shown \in Seq(T \union M) /\ rest \in Seq(T \union M)
    BY <1>6, <1>10, SeqOfMore
  <2>2. \A i \in 1 .. l : rest[i] \in M
    BY <1>10, <1>13, ElementOfSeq
  <2>3. PICK U : U = T \union M
    OBVIOUS
  <2>4. /\ shown \o rest \in Seq(U) /\ DOMAIN (shown \o rest) = 1 .. Len(shown) + Len(rest)
        /\ \A i \in 1 .. Len(shown) : (shown \o rest)[i] = shown[i]
        /\ \A i \in 1 .. Len(rest) : (shown \o rest)[Len(shown) + i] = rest[i]
    BY <2>1, <2>3, Joined
  <2> QED
    BY <1>6, <1>11, <1>13, <2>2, <2>3, <2>4
<1>15. IsQueue(q)
  BY <1>14, QueueFormed
<1>16. ASSUME NEW p \in DOMAIN q
       PROVE  q[p].kind = "meta" \/ \E d \in S : q[p] = StatusSNAC(d, status[d])
  <2>1. CASE p \in 1 .. n
    BY <1>3, <1>6, <1>14, <2>1
  <2>2. CASE p \notin 1 .. n
    <3>1. p - n \in 1 .. l /\ n + (p - n) = p
      BY <1>14, <2>2
    <3>2. q[p] \in M
      BY <1>14, <3>1
    <3> QED
      BY <3>2
  <2> QED
    BY <2>1, <2>2
<1>17. ASSUME NEW d \in S
       PROVE  \E p \in DOMAIN q : q[p] = StatusSNAC(d, status[d])
  <2>1. PICK i \in 1 .. n : contacts[i] = d
    BY <1>3
  <2>2. i \in DOMAIN q /\ q[i] = shown[i]
    BY <1>13, <1>14
  <2>3. shown[i] = StatusSNAC(d, status[d])
    BY <1>6, <2>1
  <2> QED
    BY <2>2, <2>3
<1> QED
  BY <1>12, <1>15, <1>16, <1>17 DEF Welcomes

\* A client connects.
LEMMA ConnectionKeeps ==
  ASSUME IInv, Kept, NEW c \in Clients, finishedConnection(c)
  PROVE  IInv'
<1> DEFINE S == {d \in online : Shown(status[d]) # "OFFLINE"}
<1>1. /\ UNCHANGED <<config, calls, ftVars>> /\ online' = online \union {c} /\ c \notin online
      /\ status' = [status EXCEPT ![c] = "ONLINE"] /\ seen' = seen /\ awayTold' = awayTold
  BY DEF finishedConnection
<1>2. Session' /\ Files'
  <2>1. protocol' = protocol /\ awaymsg' = awaymsg /\ calls' = calls
    BY <1>1 DEF config
  <2>2. Files'
    BY <1>1, <2>1, FilesStay
  <2> QED
    BY <1>1, <2>1, <2>2 DEF IInv, Session
<1>3. "ONLINE" \in Known
  BY DEF Known
<1>4. DOMAIN seen = Clients /\ DOMAIN awayTold = Clients /\ DOMAIN status = Clients
  BY DEF IInv, Views
<1>5. DOMAIN inbox' = Clients /\ \A e \in Others(c) : inbox'[e] = ShownToOthers(inbox, c, "ONLINE")[e]
  <2>1. PICK q : inbox' = [ShownToOthers(inbox, c, "ONLINE") EXCEPT ![c] = q]
    BY Zenon DEF finishedConnection
  <2> QED
    BY <2>1 DEF ShownToOthers, Others
<1>6. \A e \in Others(c) : /\ IsQueue(inbox'[e]) /\ \A p \in DOMAIN inbox'[e] : IsSNAC(inbox'[e][p], e)
                           /\ e \notin online => inbox'[e] = <<>>
                           /\ e \in online => \A d \in Others(e) : View(e, d)'
  BY <1>1, <1>3, <1>5, StatusRelayed
<1>7. PICK q : q = inbox'[c]
  OBVIOUS
<1>8. Welcomes(q, S)
  BY <1>7, Welcomed
<1>9. ASSUME NEW d \in S
      PROVE  d \in Others(c) /\ \E x : /\ x = StatusSNAC(d, status[d]) /\ IsSNAC(x, c) /\ IsStatus(x, d)
                                       /\ x.code = specPack(Shown(status[d]))
  <2>1. d \in Others(c) /\ c \in Others(d) /\ d \in Clients
    BY <1>1 DEF IInv, Session, Others
  <2>2. status[d] \in Known
    BY <2>1 DEF IInv, Views
  <2> QED
    BY <2>1, <2>2, StatusWaits
<1>10. ASSUME NEW p \in DOMAIN q
       PROVE  IsSNAC(q[p], c)
  <2>1. CASE q[p].kind = "meta"
    BY <2>1 DEF IsSNAC
  <2>2. ASSUME NEW d \in S, q[p] = StatusSNAC(d, status[d])
        PROVE  IsSNAC(q[p], c)
    BY <1>9, <2>2
  <2> QED
    BY <1>8, <2>1, <2>2 DEF Welcomes
<1>11. Boxes'
  <2>1. ASSUME NEW e \in Clients
        PROVE  /\ IsQueue(inbox'[e]) /\ \A p \in DOMAIN inbox'[e] : IsSNAC(inbox'[e][p], e)
               /\ e \notin online' => inbox'[e] = <<>>
    <3>1. CASE e = c
      BY <1>1, <1>7, <1>8, <1>10, <3>1 DEF Welcomes
    <3>2. CASE e # c
      BY <1>1, <1>6, <3>2 DEF Others
    <3> QED
      BY <3>1, <3>2
  <2> QED
    BY <1>5, <2>1 DEF Boxes, IsSNAC
<1>12. Views'
  <2>1. DOMAIN status' = Clients /\ \A e \in Clients : status'[e] = IF e = c THEN "ONLINE" ELSE status[e]
    BY <1>1, <1>4
  <2> QED
    BY <1>1, <1>3, <2>1 DEF IInv, Views
<1>13. ASSUME NEW d \in Others(c)
       PROVE  View(c, d)'
  <2>1. d \in Clients /\ status'[d] = status[d] /\ seen'[c][d] = "OFFLINE"
    BY <1>1 DEF IInv, Views, Others
  <2>2. PICK now : now = Shown(status[d]) /\ now = Shown(status[d])'
    BY <1>1, <2>1, ShownStays
  <2>3. now # "OFFLINE" => d \in S
    BY <2>1, <2>2 DEF IInv, Views, Shown
  <2>4. now # "OFFLINE" => \E p \in DOMAIN q : IsStatus(q[p], d)
    BY <1>8, <1>9, <2>3 DEF Welcomes
  <2>5. ASSUME NEW p \in DOMAIN q, IsStatus(q[p], d)
        PROVE  q[p].code = specPack(now)
    <3>1. q[p].kind = "status" /\ q[p].from = d
      BY <2>5 DEF IsStatus
    <3>2. PICK e \in S : q[p] = StatusSNAC(e, status[e])
      BY <1>8, <3>1 DEF Welcomes
    <3>3. IsStatus(q[p], e) /\ q[p].code = specPack(Shown(status[e]))
      BY <1>9, <3>2
    <3>4. e = d
      BY <3>1, <3>3 DEF IsStatus
    <3> QED
      BY <2>2, <3>3, <3>4
  <2>6. Shows(q, d, now, "OFFLINE")
    BY <2>4, <2>5 DEF Shows
  <2> QED
    BY <1>7, <2>1, <2>2, <2>6 DEF View, Shows
<1>14. Presence'
  <2>1. \A e \in online' : e = c \/ (e \in online /\ e \in Others(c))
    BY <1>1 DEF IInv, Session, Others
  <2> QED
    BY <1>6, <1>13, <2>1 DEF Presence
<1> QED
  BY <1>2, <1>11, <1>12, <1>14 DEF IInv

-----------------------------------------------------------------------------
(* Every step *)

\* What the server keeps stays a queue for each client.
LEMMA KeptStays ==
  ASSUME Kept, [Next]_vars
  PROVE  Kept'
<1>1. ASSUME NEW from, NEW m, NEW text, sendMessage(from, m, text)
      PROVE  Kept'
  <2>1. PICK to : to = m.uin
    OBVIOUS
  <2>2. stored' = stored \/ (to \in Clients /\ stored' = [stored EXCEPT ![to] = Append(stored[to], text)])
    BY <1>1, <2>1 DEF sendMessage, IsKept
  <2>3. \A q : IsQueue(q) => IsQueue(Append(q, text))
    BY Grown
  <2> QED
    BY <2>2, <2>3 DEF Kept
<1>2. ASSUME stored' = stored
      PROVE  Kept'
  BY <1>2 DEF Kept
<1>3. CASE UNCHANGED vars
  BY <1>2, <1>3 DEF vars, textVars
<1>4. CASE PeerWrites
  BY <1>2, <1>4 DEF PeerWrites
<1>5. ASSUME NEW c \in Clients, SendsText(c)
      PROVE  Kept'
  BY <1>1, <1>5, Zenon DEF SendsText
<1>6. ASSUME NEW c \in Clients, SendsMessage(c)
      PROVE  Kept'
  BY <1>1, <1>6, Zenon DEF SendsMessage
<1>7. ASSUME NEW c \in Clients, sendTypingNotice(c) \/ finishedConnection(c) \/ BOSDisconnected(c)
      PROVE  Kept'
  BY <1>2, <1>7 DEF sendTypingNotice, finishedConnection, BOSDisconnected, textVars
<1>8. ASSUME NEW c \in Clients, SetsPresence(c) \/ AnswersOffer(c) \/ sendFile(c)
      PROVE  Kept'
  BY <1>2, <1>8 DEF SetsPresence, AnswersOffer, sendFile, textVars
<1>9. ASSUME NEW c \in Clients, Handles(c)
      PROVE  Kept'
  BY <1>2, <1>9 DEF Handles, newMessage, typingEventArrived, statusChanged, newAwayMessage, serverMetaReply, textVars
<1>10. ASSUME NEW c \in Clients, NEW successful \in BOOLEAN, handleServiceEnd(c, successful)
       PROVE  Kept'
  BY <1>2, <1>10 DEF handleServiceEnd, textVars
<1> QED
  BY <1>3, <1>4, <1>5, <1>6, <1>7, <1>8, <1>9, <1>10, Zenon DEF Next

\* Every step preserves the invariant.
LEMMA NextKeeps ==
  ASSUME IInv, Kept, [Next]_vars
  PROVE  IInv'
<1>1. CASE UNCHANGED vars
  <2>1. UNCHANGED <<config, online, inbox, presenceVars, ftVars>> /\ calls' = calls
    BY <1>1 DEF vars
  <2>2. Session' /\ Files' /\ Boxes' /\ Views' /\ Presence'
    BY <2>1, SessionStays, FilesStay, NothingSent
  <2> QED
    BY <2>2 DEF IInv
<1>2. CASE PeerWrites
  BY <1>2, PeerKeeps
<1>3. ASSUME NEW c \in Clients, SendsText(c) \/ SendsMessage(c) \/ sendTypingNotice(c)
      PROVE  IInv'
  BY <1>3, SendingKeeps
<1>4. ASSUME NEW c \in Clients, SetsPresence(c)
      PROVE  IInv'
  BY <1>4, SetsPresenceKeeps
<1>5. ASSUME NEW c \in Clients, AnswersOffer(c)
      PROVE  IInv'
  BY <1>5, AnswersKeeps
<1>6. ASSUME NEW c \in Clients, sendFile(c)
      PROVE  IInv'
  BY <1>6, SendFileKeeps
<1>7. ASSUME NEW c \in Clients, finishedConnection(c)
      PROVE  IInv'
  BY <1>7, ConnectionKeeps
<1>8. ASSUME NEW c \in Clients, BOSDisconnected(c)
      PROVE  IInv'
  BY <1>8, LossKeeps
<1>9. ASSUME NEW c \in Clients, Handles(c)
      PROVE  IInv'
  BY <1>9, MessageKeeps, TypingKeeps, StatusKeeps, AwayKeeps, MetaKeeps DEF Handles
<1>10. ASSUME NEW c \in Clients, NEW successful \in BOOLEAN, handleServiceEnd(c, successful)
       PROVE  IInv'
  BY <1>10, ServiceEndKeeps
<1> QED
  BY <1>1, <1>2, <1>3, <1>4, <1>5, <1>6, <1>7, <1>8, <1>9, <1>10, Zenon DEF Next

\* It holds at first.
LEMMA InitEstablishes ==
  ASSUME Init
  PROVE  IInv /\ Kept
<1>1. /\ protocol \in {"ICQ", "AIM"} /\ awaymsg \in BOOLEAN /\ calls = 0 /\ online = Clients
      /\ status = [c \in Clients |-> "ONLINE"]
      /\ inbox = [c \in Clients |-> <<>>] /\ stored = [c \in Clients |-> <<>>]
      /\ seen = [c \in Clients |-> [d \in Others(c) |-> "ONLINE"]]
      /\ awayTold = [c \in Clients |-> {}]
      /\ transfers = [c \in Clients |-> <<>>] /\ services = [c \in Clients |-> 0]
      /\ hears = [c \in Clients |-> TRUE] /\ offers = [c \in Clients |-> {}]
  BY DEF Init
<1>2. IsQueue(<<>>) /\ DOMAIN <<>> = {}
  <2>1. <<>> \in Seq({})
    OBVIOUS
  <2>2. IsQueue(<<>>)
    BY <2>1, QueueFormed
  <2>3. DOMAIN <<>> = {}
    OBVIOUS
  <2> QED
    BY <2>2, <2>3
<1>3. Session
  BY <1>1, BoundAssumption DEF Session
<1>4. Boxes /\ Kept
  BY <1>1, <1>2 DEF Boxes, Kept
<1>5. Views
  BY <1>1 DEF Views, Known
<1>6. Presence
  <2>1. ASSUME NEW c \in Clients, NEW d \in Others(c)
        PROVE  View(c, d)
    <3>1. d \in Clients
      BY DEF Others
    <3>2. status[d] = "ONLINE" /\ seen[c][d] = "ONLINE" /\ inbox[c] = <<>>
      BY <1>1, <3>1
    <3>3. Shown("ONLINE") = "ONLINE"
      BY DEF Shown
    <3> QED
      BY <1>2, <3>2, <3>3 DEF View, Shows
  <2> QED
    BY <1>1, <2>1 DEF Presence
<1>7. Files
  BY <1>1, <1>2 DEF Files
<1> QED
  BY <1>3, <1>4, <1>5, <1>6, <1>7 DEF IInv

-----------------------------------------------------------------------------
(* Texts that wait *)

\* What Append and Tail do to a queue.
LEMMA QueueGrown ==
  ASSUME NEW q, IsQueue(q), NEW x
  PROVE  \E n \in Nat : /\ DOMAIN q = 1 .. n /\ DOMAIN Append(q, x) = 1 .. n + 1 /\ Append(q, x)[n + 1] = x
                        /\ \A i \in 1 .. n : Append(q, x)[i] = q[i]
<1> DEFINE S == {q[i] : i \in DOMAIN q} \union {x}
<1>1. q \in Seq(S) /\ x \in S
  BY SeqOfMore DEF IsQueue
<1>2. PICK U : U = S
  OBVIOUS
<1>3. /\ Len(q) \in Nat /\ DOMAIN q = 1 .. Len(q) /\ DOMAIN Append(q, x) = 1 .. Len(q) + 1
      /\ Append(q, x)[Len(q) + 1] = x /\ \A i \in 1 .. Len(q) : Append(q, x)[i] = q[i]
  BY <1>1, <1>2, Appended
<1> QED
  BY <1>3

LEMMA QueueTaken ==
  ASSUME NEW q, IsQueue(q), q # <<>>
  PROVE  \E n \in Nat : /\ DOMAIN q = 1 .. n + 1 /\ DOMAIN Tail(q) = 1 .. n /\ Head(q) = q[1]
                        /\ \A i \in 1 .. n : Tail(q)[i] = q[i + 1]
<1>1. PICK U : q \in Seq(U)
  BY DEF IsQueue
<1>2. /\ Len(q) \in Nat /\ DOMAIN q = 1 .. Len(q) /\ Len(q) >= 1 /\ Head(q) = q[1]
      /\ DOMAIN Tail(q) = 1 .. Len(q) - 1 /\ \A i \in 1 .. Len(q) - 1 : Tail(q)[i] = q[i + 1]
  BY <1>1, Taken
<1>3. PICK n : n = Len(q) - 1
  OBVIOUS
<1>4. n \in Nat /\ Len(q) = n + 1
  BY <1>2, <1>3
<1> QED
  BY <1>2, <1>3, <1>4


\* The texts and notices that applications write.
Text == [nr : Nat, form : {"latin", "wide", "typing"}]

\* The text that the application will be told when s is handled, or none.
Carries(s) ==
  IF s.kind = "typing" THEN s.notice
  ELSE IF s.kind = "message"
  THEN LET m == parse(s.wire, s.from) IN
       IF m.format = 2 /\ m.request = "REQUEST" THEN NoText ELSE m.text
  ELSE NoText

\* Where the texts of a queue are.
Texts(q) == {i \in DOMAIN q : Carries(q[i]) # NoText}

\* The texts of q are, in its order, what is still to be told of d.
Assigned(q, t, d, f) ==
  /\ f \in [Texts(q) -> Len(t) + 1 .. Len(d)]
  /\ \A i \in Texts(q) : Carries(q[i]) = d[f[i]]
  /\ \A i, j \in Texts(q) : i < j => f[i] < f[j]
  /\ \A n \in Len(t) + 1 .. Len(d) : \E i \in Texts(q) : f[i] = n

\* What was told is the beginning of d, and the rest waits in q.
InOrder(q, t, d) ==
  /\ t \in Seq(Text) /\ d \in Seq(Text) /\ Len(t) <= Len(d)
  /\ \A i \in 1 .. Len(t) : t[i] = d[i]
  /\ \E f : Assigned(q, t, d, f)

\* So it is of every client, with b its queues.
AllInOrder(b, t, d) ==
  /\ DOMAIN b = Clients /\ DOMAIN t = Clients /\ DOMAIN d = Clients
  /\ \A c \in Clients : IsQueue(b[c]) /\ InOrder(b[c], t[c], d[c])

Heard == AllInOrder(inbox, told, due)

\* An application's text is not the absence of one.
LEMMA TextIsText ==
  ASSUME NEW n \in Nat \ {0}, NEW form \in {"latin", "wide", "typing"}
  PROVE  [nr |-> n, form |-> form] \in Text /\ [nr |-> n, form |-> form] # NoText
<1>1. PICK t : t = [nr |-> n, form |-> form]
  OBVIOUS
<1>2. t.nr = n /\ NoText.nr = 0
  BY <1>1 DEF NoText
<1>3. t \in Text
  BY <1>1 DEF Text
<1> QED
  BY <1>1, <1>2, <1>3

\* With no text waiting, all have been told.
LEMMA AllTold ==
  ASSUME NEW q, NEW t, NEW d, InOrder(q, t, d), Texts(q) = {}
  PROVE  t = d
<1>1. t \in Seq(Text) /\ d \in Seq(Text) /\ Len(t) \in Nat /\ Len(d) \in Nat /\ Len(t) <= Len(d)
  BY LenProperties DEF InOrder
<1>2. Len(t) = Len(d)
  <2>1. \A n \in Len(t) + 1 .. Len(d) : FALSE
    BY DEF InOrder, Assigned
  <2> QED
    BY <1>1, <2>1
<1> QED
  BY <1>1, <1>2, SeqEqual DEF InOrder

\* When all have been told and no text waits, they are in order.
LEMMA NoneWaits ==
  ASSUME NEW q, NEW t \in Seq(Text), Texts(q) = {}
  PROVE  InOrder(q, t, t)
<1>1. Len(t) \in Nat
  BY LenProperties
<1>2. Assigned(q, t, t, [i \in {} |-> 0])
  BY <1>1 DEF Assigned
<1> QED
  BY <1>1, <1>2 DEF InOrder

\* A queue with texts at the same places, in the same order, is as good.
LEMMA TextsMoved ==
  ASSUME NEW q, NEW r, NEW k \in Nat, NEW t, NEW d, InOrder(q, t, d),
         \A i \in Texts(q) : i \in Nat /\ i > k /\ i - k \in DOMAIN r /\ r[i - k] = q[i],
         \A i \in Texts(r) : i \in Nat /\ i + k \in Texts(q)
  PROVE  InOrder(r, t, d)
<1>1. PICK f : Assigned(q, t, d, f)
  BY DEF InOrder
<1>2. \A i \in Texts(r) : i \in Nat /\ i + k \in Texts(q) /\ r[i] = q[i + k]
  <2>1. ASSUME NEW i \in Texts(r) PROVE r[i] = q[i + k]
    <3>1. i \in Nat /\ i + k \in Texts(q) /\ (i + k) - k = i
      OBVIOUS
    <3> QED
      BY <3>1
  <2> QED
    BY <2>1
<1>3. \A i \in Texts(q) : i - k \in Texts(r) /\ (i - k) + k = i
  BY DEF Texts
<1>4. PICK g : g = [i \in Texts(r) |-> f[i + k]]
  OBVIOUS
<1>5. \A i \in Texts(r) : g[i] = f[i + k]
  BY <1>4
<1>6. g \in [Texts(r) -> Len(t) + 1 .. Len(d)]
  BY <1>1, <1>2, <1>4 DEF Assigned
<1>7. \A i \in Texts(r) : Carries(r[i]) = d[g[i]]
  BY <1>1, <1>2, <1>5 DEF Assigned
<1>8. ASSUME NEW i \in Texts(r), NEW j \in Texts(r), i < j PROVE g[i] < g[j]
  <2>1. i + k \in Texts(q) /\ j + k \in Texts(q) /\ i + k < j + k
    BY <1>2, <1>8
  <2> QED
    BY <1>1, <1>5, <2>1 DEF Assigned
<1>9. ASSUME NEW n \in Len(t) + 1 .. Len(d) PROVE \E i \in Texts(r) : g[i] = n
  <2>1. PICK i \in Texts(q) : f[i] = n
    BY <1>1 DEF Assigned
  <2>2. i - k \in Texts(r) /\ g[i - k] = n
    BY <1>3, <1>5, <2>1
  <2> QED
    BY <2>2
<1>10. Assigned(r, t, d, g)
  BY <1>6, <1>7, <1>8, <1>9 DEF Assigned
<1> QED
  BY <1>10 DEF InOrder

\* A SNAC without text is appended.
LEMMA SilentGrows ==
  ASSUME NEW q, IsQueue(q), NEW x, Carries(x) = NoText, NEW t, NEW d, InOrder(q, t, d)
  PROVE  InOrder(Append(q, x), t, d)
<1>1. PICK r : r = Append(q, x)
  OBVIOUS
<1>2. PICK n \in Nat : /\ DOMAIN q = 1 .. n /\ DOMAIN r = 1 .. n + 1 /\ r[n + 1] = x
                       /\ \A i \in 1 .. n : r[i] = q[i]
  BY <1>1, QueueGrown
<1>3. \A i \in Texts(q) : i \in Nat /\ i > 0 /\ i - 0 \in DOMAIN r /\ r[i - 0] = q[i]
  BY <1>2 DEF Texts
<1>4. \A i \in Texts(r) : i \in Nat /\ i + 0 \in Texts(q)
  BY <1>2 DEF Texts
<1>5. InOrder(r, t, d)
  BY <1>3, <1>4, TextsMoved
<1> QED
  BY <1>1, <1>5

\* A SNAC with a text that is to be told next after all others is appended.
LEMMA TextGrows ==
  ASSUME NEW q, IsQueue(q), NEW x, NEW text \in Text, text # NoText, Carries(x) = text,
         NEW t, NEW d, InOrder(q, t, d)
  PROVE  InOrder(Append(q, x), t, Append(d, text))
<1>1. PICK r : r = Append(q, x)
  OBVIOUS
<1>2. PICK n \in Nat : /\ DOMAIN q = 1 .. n /\ DOMAIN r = 1 .. n + 1 /\ r[n + 1] = x
                       /\ \A i \in 1 .. n : r[i] = q[i]
  BY <1>1, QueueGrown
<1>3. PICK e : e = Append(d, text)
  OBVIOUS
<1>4. t \in Seq(Text) /\ d \in Seq(Text) /\ Len(t) \in Nat /\ Len(d) \in Nat /\ Len(t) <= Len(d)
  BY LenProperties DEF InOrder
<1>5. /\ e \in Seq(Text) /\ Len(e) = Len(d) + 1 /\ e[Len(d) + 1] = text
      /\ \A i \in 1 .. Len(d) : e[i] = d[i]
  BY <1>3, <1>4, Appended
<1>6. PICK f : Assigned(q, t, d, f)
  BY DEF InOrder
<1>7. Texts(r) = Texts(q) \union {n + 1} /\ Texts(q) \subseteq 1 .. n
  BY <1>2 DEF Texts
<1>8. PICK g : g = [i \in Texts(r) |-> IF i = n + 1 THEN Len(d) + 1 ELSE f[i]]
  OBVIOUS
<1>9. /\ \A i \in Texts(q) : i \in Texts(r) /\ g[i] = f[i] /\ f[i] \in Len(t) + 1 .. Len(d) /\ i \in 1 .. n
      /\ n + 1 \in Texts(r) /\ g[n + 1] = Len(d) + 1
  BY <1>6, <1>7, <1>8 DEF Assigned
<1>10. g \in [Texts(r) -> Len(t) + 1 .. Len(e)]
  BY <1>4, <1>5, <1>7, <1>8, <1>9
<1>11. ASSUME NEW i \in Texts(r) PROVE Carries(r[i]) = e[g[i]]
  <2>1. CASE i = n + 1
    BY <1>2, <1>5, <1>9, <2>1
  <2>2. CASE i \in Texts(q)
    <3>1. r[i] = q[i] /\ Carries(q[i]) = d[f[i]] /\ f[i] \in 1 .. Len(d)
      BY <1>2, <1>4, <1>6, <1>9, <2>2 DEF Assigned
    <3> QED
      BY <1>5, <1>9, <2>2, <3>1
  <2> QED
    BY <1>7, <2>1, <2>2
<1>12. ASSUME NEW i \in Texts(r), NEW j \in Texts(r), i < j PROVE g[i] < g[j]
  <2>1. i \in Texts(q)
    BY <1>7, <1>12
  <2>2. CASE j = n + 1
    BY <1>4, <1>9, <2>1, <2>2
  <2>3. CASE j \in Texts(q)
    BY <1>6, <1>9, <1>12, <2>1, <2>3 DEF Assigned
  <2> QED
    BY <1>7, <2>2, <2>3
<1>13. ASSUME NEW m \in Len(t) + 1 .. Len(e) PROVE \E i \in Texts(r) : g[i] = m
  <2>1. CASE m = Len(d) + 1
    BY <1>9, <2>1
  <2>2. CASE m \in Len(t) + 1 .. Len(d)
    <3>1. PICK i \in Texts(q) : f[i] = m
      BY <1>6, <2>2 DEF Assigned
    <3> QED
      BY <1>9, <3>1
  <2> QED
    BY <1>4, <1>5, <2>1, <2>2
<1>14. Assigned(r, t, e, g)
  BY <1>10, <1>11, <1>12, <1>13 DEF Assigned
<1>15. \A i \in 1 .. Len(t) : t[i] = e[i]
  BY <1>4, <1>5 DEF InOrder
<1>16. InOrder(r, t, e)
  BY <1>4, <1>5, <1>14, <1>15 DEF InOrder
<1> QED
  BY <1>1, <1>3, <1>16

\* A SNAC without text is taken.
LEMMA SilentTaken ==
  ASSUME NEW q, IsQueue(q), q # <<>>, Carries(Head(q)) = NoText, NEW t, NEW d, InOrder(q, t, d)
  PROVE  InOrder(Tail(q), t, d)
<1>1. PICK r : r = Tail(q)
  OBVIOUS
<1>2. PICK n \in Nat : /\ DOMAIN q = 1 .. n + 1 /\ DOMAIN r = 1 .. n /\ Head(q) = q[1]
                       /\ \A i \in 1 .. n : r[i] = q[i + 1]
  BY <1>1, QueueTaken
<1>3. ASSUME NEW i \in Texts(q)
      PROVE  i \in Nat /\ i > 1 /\ i - 1 \in DOMAIN r /\ r[i - 1] = q[i]
  <2>1. i \in 1 .. n + 1 /\ i # 1
    BY <1>2 DEF Texts
  <2>2. i - 1 \in 1 .. n /\ (i - 1) + 1 = i /\ i > 1
    BY <1>2, <2>1
  <2> QED
    BY <1>2, <2>1, <2>2
<1>4. \A i \in Texts(r) : i \in Nat /\ i + 1 \in Texts(q)
  BY <1>2 DEF Texts
<1>5. InOrder(r, t, d)
  BY <1>3, <1>4, TextsMoved
<1> QED
  BY <1>1, <1>5

\* A SNAC with a text is taken: it is the first text that is still to be told.
LEMMA TextTaken ==
  ASSUME NEW q, IsQueue(q), q # <<>>, Carries(Head(q)) # NoText, NEW t, NEW d, InOrder(q, t, d)
  PROVE  InOrder(Tail(q), Append(t, Carries(Head(q))), d)
<1>1. PICK r : r = Tail(q)
  OBVIOUS
<1>2. PICK n \in Nat : /\ DOMAIN q = 1 .. n + 1 /\ DOMAIN r = 1 .. n /\ Head(q) = q[1]
                       /\ \A i \in 1 .. n : r[i] = q[i + 1]
  BY <1>1, QueueTaken
<1>3. PICK f : Assigned(q, t, d, f)
  BY DEF InOrder
<1>4. t \in Seq(Text) /\ d \in Seq(Text) /\ Len(t) \in Nat /\ Len(d) \in Nat /\ Len(t) <= Len(d)
  BY LenProperties DEF InOrder
<1>5. 1 \in Texts(q) /\ \A i \in Texts(q) : i \in 1 .. n + 1 /\ f[i] \in Len(t) + 1 .. Len(d)
  BY <1>2, <1>3 DEF Texts, Assigned
<1>6. f[1] = Len(t) + 1
  <2>1. PICK i \in Texts(q) : f[i] = Len(t) + 1
    BY <1>3, <1>4, <1>5 DEF Assigned
  <2>2. CASE i = 1
    BY <2>1, <2>2
  <2>3. CASE i # 1
    <3>1. f[1] < f[i]
      BY <1>3, <1>5, <2>3 DEF Assigned
    <3> QED
      BY <1>4, <1>5, <2>1, <3>1
  <2> QED
    BY <2>2, <2>3
<1>7. PICK text : text = Carries(Head(q))
  OBVIOUS
<1>8. text = d[Len(t) + 1] /\ Len(t) + 1 \in 1 .. Len(d) /\ text \in Text
  <2>1. text = d[Len(t) + 1]
    BY <1>2, <1>3, <1>5, <1>6, <1>7 DEF Assigned
  <2>2. Len(t) + 1 \in 1 .. Len(d)
    BY <1>4, <1>5, <1>6
  <2> QED
    BY <1>4, <2>1, <2>2, ElementOfSeq
<1>9. PICK u : u = Append(t, text)
  OBVIOUS
<1>10. /\ u \in Seq(Text) /\ Len(u) = Len(t) + 1 /\ u[Len(t) + 1] = text
       /\ \A i \in 1 .. Len(t) : u[i] = t[i]
  BY <1>4, <1>8, <1>9, Appended
<1>11. \A i \in 1 .. Len(u) : u[i] = d[i]
  BY <1>4, <1>8, <1>10 DEF InOrder
<1>12. PICK g : g = [i \in Texts(r) |-> f[i + 1]]
  OBVIOUS
<1>13. ASSUME NEW i \in Texts(r)
       PROVE  /\ i \in 1 .. n /\ i + 1 \in Texts(q) /\ r[i] = q[i + 1] /\ g[i] = f[i + 1]
              /\ f[i + 1] \in Len(u) + 1 .. Len(d)
  <2>1. i \in 1 .. n /\ i + 1 \in Texts(q) /\ r[i] = q[i + 1]
    BY <1>2 DEF Texts
  <2>2. f[1] < f[i + 1]
    BY <1>3, <1>5, <2>1 DEF Assigned
  <2>3. f[i + 1] \in Len(u) + 1 .. Len(d)
    BY <1>4, <1>5, <1>6, <1>10, <2>1, <2>2
  <2> QED
    BY <1>12, <2>1, <2>3
<1>14. g \in [Texts(r) -> Len(u) + 1 .. Len(d)]
  BY <1>12, <1>13
<1>15. \A i \in Texts(r) : Carries(r[i]) = d[g[i]]
  BY <1>3, <1>13 DEF Assigned
<1>16. ASSUME NEW i \in Texts(r), NEW j \in Texts(r), i < j PROVE g[i] < g[j]
  <2>1. i + 1 \in Texts(q) /\ j + 1 \in Texts(q) /\ i + 1 < j + 1
    BY <1>13, <1>16
  <2> QED
    BY <1>3, <1>13, <2>1 DEF Assigned
<1>17. ASSUME NEW m \in Len(u) + 1 .. Len(d) PROVE \E i \in Texts(r) : g[i] = m
  <2>1. m \in Len(t) + 1 .. Len(d) /\ m # Len(t) + 1
    BY <1>4, <1>10
  <2>2. PICK i \in Texts(q) : f[i] = m
    BY <1>3, <2>1 DEF Assigned
  <2>3. i # 1 /\ i \in 1 .. n + 1
    BY <1>5, <1>6, <2>1, <2>2
  <2>4. i - 1 \in 1 .. n /\ (i - 1) + 1 = i
    BY <1>2, <2>3
  <2>5. i - 1 \in Texts(r)
    BY <1>2, <2>2, <2>4 DEF Texts
  <2> QED
    BY <1>13, <2>2, <2>4, <2>5
<1>18. Assigned(r, u, d, g)
  BY <1>14, <1>15, <1>16, <1>17 DEF Assigned
<1>19. InOrder(r, u, d)
  <2>1. Len(u) <= Len(d)
    BY <1>8, <1>10
  <2> QED
    BY <1>4, <1>10, <1>11, <1>18, <2>1 DEF InOrder
<1> QED
  BY <1>1, <1>7, <1>9, <1>19


\* So it is of a client that has received nothing.
EmptyHeard == IsQueue(<<>>) /\ InOrder(<<>>, <<>>, <<>>)

LEMMA EmptyIsHeard == EmptyHeard
<1>1. DOMAIN <<>> = {} /\ <<>> \in Seq({}) /\ <<>> \in Seq(Text)
  OBVIOUS
<1>2. IsQueue(<<>>)
  BY <1>1, QueueFormed
<1>3. Texts(<<>>) = {}
  BY <1>1 DEF Texts
<1> QED
  BY <1>1, <1>2, <1>3, NoneWaits DEF EmptyHeard

-----------------------------------------------------------------------------
(* Texts that messages carry *)

\* Looking for a TLV finds it, behind one of another type as well.
LEMMA TLVFound ==
  ASSUME NEW p, NEW types, p.type \in types
  PROVE  /\ Skip(<<p>>, types) = p
         /\ \A a : a.type \notin types => Skip(<<a, p>>, types) = p
<1>1. Skip(<<p>>, types) = p
  <2>1. PICK s : s = <<p>>
    OBVIOUS
  <2>2. Len(s) = 1 /\ s[1] = p
    BY <2>1
  <2>3. {i \in 1 .. Len(s) : s[i].type \in types} = {1}
    BY <2>2
  <2>4. Min({1}) = 1
    BY DEF Min
  <2>5. SelectInSeq(s, LAMBDA t : t.type \in types) = 1
    BY <2>3, <2>4 DEF SelectInSeq
  <2>6. Skip(s, types) = s[1]
    BY <2>5 DEF Skip
  <2> QED
    BY <2>1, <2>2, <2>6
<1>2. ASSUME NEW a, a.type \notin types PROVE Skip(<<a, p>>, types) = p
  <2>1. PICK s : s = <<a, p>>
    OBVIOUS
  <2>2. Len(s) = 2 /\ s[1] = a /\ s[2] = p
    BY <2>1
  <2>3. {i \in 1 .. Len(s) : s[i].type \in types} = {2}
    BY <1>2, <2>2
  <2>4. Min({2}) = 2
    BY DEF Min
  <2>5. SelectInSeq(s, LAMBDA t : t.type \in types) = 2
    BY <2>3, <2>4 DEF SelectInSeq
  <2>6. Skip(s, types) = s[2]
    BY <2>5 DEF Skip
  <2> QED
    BY <2>1, <2>2, <2>6
<1> QED
  BY <1>1, <1>2

\* The fields of a message that the text depends on.
LEMMA TextSet ==
  ASSUME NEW fields, NEW m \in MessageRecord(fields), NEW x, NEW a, NEW c,
         x = [m EXCEPT !.type = a, !.text = c]
  PROVE  x.text = c /\ x.format = m.format /\ x.request = m.request
  BY DEF MessageRecord

LEMMA TextLeft ==
  ASSUME NEW fields, NEW m \in MessageRecord(fields), NEW x, NEW a, x = [m EXCEPT !.type = a]
  PROVE  x.text = m.text /\ x.format = m.format /\ x.request = m.request
  BY DEF MessageRecord

\* What the readers of channels 1 and 4 make of the text they find.
LEMMA Ch1Read ==
  ASSUME NEW fields, NEW m \in MessageRecord(fields), NEW tlvs, NEW p, Skip(tlvs, {2}) = p
  PROVE  parseCh1(m, tlvs).text = p.text /\ parseCh1(m, tlvs).format = m.format
<1>1. PICK a : parseCh1(m, tlvs) = [m EXCEPT !.type = a, !.encoding = p.encoding, !.text = p.text]
  BY Zenon DEF parseCh1
<1>2. PICK b : b = p.encoding
  OBVIOUS
<1>3. PICK c : c = p.text
  OBVIOUS
<1>4. PICK x : x = [m EXCEPT !.type = a, !.encoding = b, !.text = c]
  OBVIOUS
<1>5. x.text = c /\ x.format = m.format
  BY <1>4 DEF MessageRecord
<1>6. parseCh1(m, tlvs) = x
  BY <1>1, <1>2, <1>3, <1>4, Zenon
<1> QED
  BY <1>3, <1>5, <1>6, Zenon

LEMMA Ch4Read ==
  ASSUME NEW fields, NEW m \in MessageRecord(fields), NEW tlvs, NEW p, Head(tlvs) = p
  PROVE  parseCh4(m, tlvs).text = p.text /\ parseCh4(m, tlvs).format = m.format
<1>1. PICK a : parseCh4(m, tlvs) = [m EXCEPT !.type = a, !.text = p.text]
  BY Zenon DEF parseCh4
<1>3. PICK c : c = p.text
  OBVIOUS
<1>4. PICK x : x = [m EXCEPT !.type = a, !.text = c]
  OBVIOUS
<1>5. x.text = c /\ x.format = m.format
  BY <1>4 DEF MessageRecord
<1>6. parseCh4(m, tlvs) = x
  BY <1>1, <1>3, <1>4, Zenon
<1> QED
  BY <1>3, <1>5, <1>6, Zenon

\* What parse begins with.
LEMMA ParseBegins ==
  ASSUME NEW wire, NEW from, NEW m,
         m = [NewMessage(from) EXCEPT !.cookie = wire.cookie, !.format = wire.format]
  PROVE  \E fields : m \in MessageRecord(fields) /\ m.format = wire.format /\ m.text = NoText
<1>1. PICK n : n = NewMessage(from)
  OBVIOUS
<1>2. n = [uin |-> from, format |-> 1, text |-> NoText, encoding |-> "ASCII", type |-> "PLAIN",
           cookie |-> 0, request |-> "REQUEST"]
  BY <1>1 DEF NewMessage
<1>3. m = [n EXCEPT !.cookie = wire.cookie, !.format = wire.format]
  BY <1>1
<1>4. PICK fields : fields = {from, 1, NoText, "ASCII", "PLAIN", 0, "REQUEST", wire.cookie, wire.format}
  OBVIOUS
<1>5. m \in MessageRecord(fields) /\ m.format = wire.format /\ m.text = NoText
  BY <1>2, <1>3, <1>4 DEF MessageRecord
<1> QED
  BY <1>5

\* On channels 1 and 4 the text is read as it was written.
LEMMA TextRead ==
  ASSUME NEW wire, NEW from, NEW p,
         \/ wire.format = 1 /\ p.type = 2 /\ wire.tlvs = <<p>>
         \/ wire.format = 1 /\ p.type = 2 /\ \E a : a.type \in {4, 19} /\ wire.tlvs = <<a, p>>
         \/ wire.format = 4 /\ wire.tlvs = <<p>>
  PROVE  parse(wire, from).text = p.text /\ parse(wire, from).format = wire.format
<1>0. PICK m : m = [NewMessage(from) EXCEPT !.cookie = wire.cookie, !.format = wire.format]
  OBVIOUS
<1>1. PICK fields : m \in MessageRecord(fields) /\ m.format = wire.format
  BY <1>0, ParseBegins
<1>4. parse(wire, from) = CASE wire.format = 1 -> parseCh1(m, wire.tlvs)
                            [] wire.format = 2 -> parseCh2(m, wire.tlvs)
                            [] wire.format = 4 -> parseCh4(m, wire.tlvs)
  BY <1>0, Zenon DEF parse
<1>2. CASE wire.format = 1
  <2>1. Skip(wire.tlvs, {2}) = p
    <3>1. p.type = 2 /\ (wire.tlvs = <<p>> \/ \E a : a.type \in {4, 19} /\ wire.tlvs = <<a, p>>)
      BY <1>2
    <3>2. \A a : a.type \in {4, 19} => a.type \notin {2}
      OBVIOUS
    <3>3. p.type \in {2}
      BY <3>1
    <3>4. Skip(<<p>>, {2}) = p /\ \A a : a.type \notin {2} => Skip(<<a, p>>, {2}) = p
      BY <3>3, TLVFound
    <3>5. CASE wire.tlvs = <<p>>
      BY <3>4, <3>5
    <3>6. ASSUME NEW a, a.type \in {4, 19}, wire.tlvs = <<a, p>>
          PROVE  Skip(wire.tlvs, {2}) = p
      BY <3>2, <3>4, <3>6
    <3> QED
      BY <3>1, <3>5, <3>6
  <2>2. parse(wire, from) = parseCh1(m, wire.tlvs)
    BY <1>2, <1>4
  <2>3. PICK tlvs : tlvs = wire.tlvs
    OBVIOUS
  <2>5. m \in MessageRecord(fields) /\ Skip(tlvs, {2}) = p
    BY <1>1, <2>1, <2>3
  <2>6. parseCh1(m, tlvs).text = p.text /\ parseCh1(m, tlvs).format = m.format
    BY <2>5, Ch1Read
  <2>4. parseCh1(m, wire.tlvs).text = p.text /\ parseCh1(m, wire.tlvs).format = m.format
    BY <2>3, <2>6, Zenon
  <2> QED
    BY <1>1, <2>2, <2>4, Zenon
<1>3. CASE wire.format = 4
  <2>1. Head(wire.tlvs) = p
    BY <1>3
  <2>2. parse(wire, from) = parseCh4(m, wire.tlvs)
    BY <1>3, <1>4
  <2>3. PICK tlvs : tlvs = wire.tlvs
    OBVIOUS
  <2>5. m \in MessageRecord(fields) /\ Head(tlvs) = p
    BY <1>1, <2>1, <2>3
  <2>6. parseCh4(m, tlvs).text = p.text /\ parseCh4(m, tlvs).format = m.format
    BY <2>5, Ch4Read
  <2>4. parseCh4(m, wire.tlvs).text = p.text /\ parseCh4(m, wire.tlvs).format = m.format
    BY <2>3, <2>6, Zenon
  <2> QED
    BY <1>1, <2>2, <2>4, Zenon
<1> QED
  BY <1>2, <1>3

\* On channel 2 there is none but in requests, which are not told.
LEMMA NoTextRead ==
  ASSUME NEW wire, NEW from, NEW p, wire.format = 2, wire.tlvs = <<p>>, p.type = 5,
         p.capability = "file" \/ p.request = "REQUEST"
  PROVE  /\ parse(wire, from).format = 2
         /\ parse(wire, from).request = "REQUEST" \/ parse(wire, from).text = NoText
<1>0. PICK m : m = [NewMessage(from) EXCEPT !.cookie = wire.cookie, !.format = wire.format]
  OBVIOUS
<1>1. PICK fields : m \in MessageRecord(fields) /\ m.format = wire.format /\ m.text = NoText
  BY <1>0, ParseBegins
<1>2. Skip(wire.tlvs, {5}) = p
  BY TLVFound
<1>3. parse(wire, from) = parseCh2(m, wire.tlvs)
  BY <1>0 DEF parse
<1>8. PICK x : x = parse(wire, from)
  OBVIOUS
<1>4. PICK n : n = [m EXCEPT !.request = p.request]
  OBVIOUS
<1>5. n.text = NoText /\ n.format = 2 /\ n.request = p.request /\ n \in MessageRecord(fields \union {p.request})
  BY <1>1, <1>4 DEF MessageRecord
<1>6. CASE p.capability = "file"
  <2>1. parseCh2(m, wire.tlvs) = [n EXCEPT !.type = "FILEREQ"]
    BY <1>2, <1>4, <1>6 DEF parseCh2
  <2>3. x = [n EXCEPT !.type = "FILEREQ"]
    BY <1>3, <1>8, <2>1, Zenon
  <2>2. x.text = n.text /\ x.format = n.format
    BY <1>5, <2>3, TextLeft
  <2> QED
    BY <1>5, <1>8, <2>2
<1>7. CASE p.capability # "file"
  <2>1. \/ parseCh2(m, wire.tlvs) = n
        \/ \E a, b : parseCh2(m, wire.tlvs) = [n EXCEPT !.type = a, !.text = b]
    BY <1>2, <1>4, <1>7, Zenon DEF parseCh2
  <2>2. CASE parseCh2(m, wire.tlvs) = n
    BY <1>3, <1>5, <1>7, <2>2
  <2>3. ASSUME NEW a, NEW b, parseCh2(m, wire.tlvs) = [n EXCEPT !.type = a, !.text = b]
        PROVE  parse(wire, from).format = 2 /\ parse(wire, from).request = "REQUEST"
    <3>2. x = [n EXCEPT !.type = a, !.text = b]
      BY <1>3, <1>8, <2>3, Zenon
    <3>1. x.format = n.format /\ x.request = n.request
      BY <1>5, <3>2, TextSet
    <3> QED
      BY <1>5, <1>7, <1>8, <3>1
  <2> QED
    BY <2>1, <2>2, <2>3, Zenon
<1> QED
  BY <1>6, <1>7

\* What a relayed message carries.
LEMMA MessageCarries ==
  ASSUME NEW from, NEW wire, NEW p,
         \/ wire.format = 1 /\ p.type = 2 /\ wire.tlvs = <<p>>
         \/ wire.format = 1 /\ p.type = 2 /\ \E a : a.type \in {4, 19} /\ wire.tlvs = <<a, p>>
         \/ wire.format = 4 /\ wire.tlvs = <<p>>
  PROVE  Carries(MessageSNAC(from, wire)) = p.text
<1>1. PICK s : s = MessageSNAC(from, wire)
  OBVIOUS
<1>2. s.kind = "message" /\ s.wire = wire /\ s.from = from
  BY <1>1 DEF MessageSNAC
<1>3. PICK m : m = parse(wire, from)
  OBVIOUS
<1>4. m.text = p.text /\ m.format # 2
  BY <1>3, TextRead
<1>5. Carries(s) = m.text
  BY <1>2, <1>3, <1>4 DEF Carries
<1> QED
  BY <1>1, <1>4, <1>5

LEMMA RequestCarries ==
  ASSUME NEW from, NEW wire, NEW p, wire.format = 2, wire.tlvs = <<p>>, p.type = 5,
         p.capability = "file" \/ p.request = "REQUEST"
  PROVE  Carries(MessageSNAC(from, wire)) = NoText
<1>1. PICK s : s = MessageSNAC(from, wire)
  OBVIOUS
<1>2. s.kind = "message" /\ s.wire = wire /\ s.from = from
  BY <1>1 DEF MessageSNAC
<1>3. PICK m : m = parse(wire, from)
  OBVIOUS
<1>4. m.format = 2 /\ (m.request = "REQUEST" \/ m.text = NoText)
  BY <1>3, NoTextRead
<1>5. Carries(s) = NoText
  BY <1>2, <1>3, <1>4 DEF Carries
<1> QED
  BY <1>1, <1>5

\* A message of channel 2 that a client packs has no text that is told.
LEMMA PackedRequestCarries ==
  ASSUME NEW m, m.format = 2, NEW from
  PROVE  Carries(MessageSNAC(from, pack(m))) = NoText
<1>1. PICK p : p = packCh2(m)
  OBVIOUS
<1>2. p.type = 5 /\ p.capability = "file"
  BY <1>1 DEF packCh2
<1>3. PICK wire : wire = pack(m)
  OBVIOUS
<1>4. wire.format = 2 /\ wire.tlvs = <<p>>
  BY <1>1, <1>3 DEF pack
<1> QED
  BY <1>2, <1>3, <1>4, RequestCarries

\* A text message carries the text that the application gave.
LEMMA TextMessageCarries ==
  ASSUME NEW n, NEW form \in {"latin", "wide"}, NEW text, text = [nr |-> n, form |-> form], NEW from, NEW to
  PROVE  /\ Carries(MessageSNAC(from, pack(textMessage(to, text)))) = text
         /\ textMessage(to, text).uin = to
<1>1. PICK m : m = textMessage(to, text)
  OBVIOUS
<1>2. text.form = form
  OBVIOUS
<1>3. m = [uin |-> to, format |-> 1, text |-> text, encoding |-> IF form = "latin" THEN "ASCII" ELSE "UCS2BE",
           type |-> "PLAIN", cookie |-> 0, request |-> "REQUEST"]
  BY <1>1, <1>2 DEF textMessage, NewMessage
<1>4. m.format = 1 /\ m.text = text /\ m.uin = to /\ m.encoding = IF form = "latin" THEN "ASCII" ELSE "UCS2BE"
  BY <1>3
<1>5. form = "latin" => Latin(text) = text
  BY DEF Latin
<1>6. PICK p : p = packCh1(m)
  OBVIOUS
<1>7. p.type = 2 /\ p.text = text
  BY <1>4, <1>5, <1>6 DEF packCh1
<1>8. PICK wire : wire = pack(m)
  OBVIOUS
<1>9. wire.format = 1 /\ wire.tlvs = <<p>>
  BY <1>4, <1>6, <1>8 DEF pack
<1>10. Carries(MessageSNAC(from, wire)) = text
  BY <1>7, <1>9, MessageCarries
<1> QED
  BY <1>1, <1>4, <1>8, <1>10

\* So does a message of channel 4 whose text is latin.
LEMMA UrlMessageCarries ==
  ASSUME NEW m, m.format = 4, Latin(m.text) = m.text, NEW from
  PROVE  Carries(MessageSNAC(from, pack(m))) = m.text
<1>1. PICK p : p = packCh4(m)
  OBVIOUS
<1>2. p.text = m.text
  BY <1>1 DEF packCh4
<1>3. PICK wire : wire = pack(m)
  OBVIOUS
<1>4. wire.format = 4 /\ wire.tlvs = <<p>>
  BY <1>1, <1>3 DEF pack
<1>5. Carries(MessageSNAC(from, wire)) = p.text
  BY <1>4, MessageCarries
<1> QED
  BY <1>2, <1>3, <1>5

-----------------------------------------------------------------------------
(* Steps that texts wait or are told with *)

\* A SNAC without text is relayed.
LEMMA SilentRelayed ==
  ASSUME NEW b, NEW t, NEW d, AllInOrder(b, t, d), NEW to, NEW x, Carries(x) = NoText
  PROVE  AllInOrder(Relayed(b, to, x), t, d)
<1>1. PICK r : r = Relayed(b, to, x)
  OBVIOUS
<1>2. DOMAIN b = Clients /\ DOMAIN t = Clients /\ DOMAIN d = Clients
  BY DEF AllInOrder
<1>3. DOMAIN r = Clients /\ \A c \in Clients : r[c] = b[c] \/ r[c] = Append(b[c], x)
  BY <1>1, <1>2 DEF Relayed
<1>4. ASSUME NEW c \in Clients PROVE IsQueue(r[c]) /\ InOrder(r[c], t[c], d[c])
  <2>1. IsQueue(b[c]) /\ InOrder(b[c], t[c], d[c])
    BY DEF AllInOrder
  <2>2. IsQueue(Append(b[c], x)) /\ InOrder(Append(b[c], x), t[c], d[c])
    BY <2>1, Grown, SilentGrows
  <2> QED
    BY <1>3, <2>1, <2>2
<1>5. AllInOrder(r, t, d)
  BY <1>2, <1>3, <1>4 DEF AllInOrder
<1> QED
  BY <1>1, <1>5

\* A SNAC with a text is relayed, and the text is due.
LEMMA TextRelayed ==
  ASSUME NEW b, NEW t, NEW d, AllInOrder(b, t, d), NEW to \in Clients, NEW x,
         NEW text \in Text, text # NoText, Carries(x) = text
  PROVE  /\ to \in online => AllInOrder(Relayed(b, to, x), t, [d EXCEPT ![to] = Append(d[to], text)])
         /\ to \notin online => AllInOrder(Relayed(b, to, x), t, d)
<1>1. PICK r : r = Relayed(b, to, x)
  OBVIOUS
<1>2. DOMAIN b = Clients /\ DOMAIN t = Clients /\ DOMAIN d = Clients
  BY DEF AllInOrder
<1>3. ASSUME to \in online
      PROVE  AllInOrder(r, t, [d EXCEPT ![to] = Append(d[to], text)])
  <2>1. PICK e : e = [d EXCEPT ![to] = Append(d[to], text)]
    OBVIOUS
  <2>2. DOMAIN e = Clients /\ e[to] = Append(d[to], text) /\ \A c \in Clients : c # to => e[c] = d[c]
    BY <1>2, <2>1
  <2>3. DOMAIN r = Clients /\ r[to] = Append(b[to], x) /\ \A c \in Clients : c # to => r[c] = b[c]
    BY <1>1, <1>2, <1>3 DEF Relayed
  <2>4. ASSUME NEW c \in Clients PROVE IsQueue(r[c]) /\ InOrder(r[c], t[c], e[c])
    <3>1. IsQueue(b[c]) /\ InOrder(b[c], t[c], d[c])
      BY DEF AllInOrder
    <3>2. IsQueue(Append(b[c], x)) /\ InOrder(Append(b[c], x), t[c], Append(d[c], text))
      BY <3>1, Grown, TextGrows
    <3> QED
      BY <2>2, <2>3, <3>1, <3>2
  <2>5. AllInOrder(r, t, e)
    BY <1>2, <2>2, <2>3, <2>4 DEF AllInOrder
  <2> QED
    BY <2>1, <2>5
<1>4. to \notin online => r = b
  BY <1>1 DEF Relayed
<1> QED
  BY <1>1, <1>3, <1>4

\* A status is shown to the others.
LEMMA StatusSilent ==
  ASSUME NEW c, NEW s
  PROVE  Carries(StatusSNAC(c, s)) = NoText
<1>1. PICK x : x = StatusSNAC(c, s)
  OBVIOUS
<1>2. x.kind = "status"
  BY <1>1 DEF StatusSNAC
<1>3. Carries(x) = NoText
  BY <1>2 DEF Carries
<1> QED
  BY <1>1, <1>3

LEMMA StatusShown ==
  ASSUME NEW b, NEW t, NEW d, AllInOrder(b, t, d), NEW c, NEW s
  PROVE  AllInOrder(ShownToOthers(b, c, s), t, d)
<1>1. PICK r : r = ShownToOthers(b, c, s)
  OBVIOUS
<1>2. DOMAIN b = Clients /\ DOMAIN t = Clients /\ DOMAIN d = Clients
  BY DEF AllInOrder
<1>3. PICK x : x = StatusSNAC(c, s)
  OBVIOUS
<1>4. Carries(x) = NoText
  BY <1>3, StatusSilent
<1>5. DOMAIN r = Clients /\ \A e \in Clients : r[e] = b[e] \/ r[e] = Append(b[e], x)
  BY <1>1, <1>3 DEF ShownToOthers
<1>6. ASSUME NEW e \in Clients PROVE IsQueue(r[e]) /\ InOrder(r[e], t[e], d[e])
  <2>1. IsQueue(b[e]) /\ InOrder(b[e], t[e], d[e])
    BY DEF AllInOrder
  <2>2. IsQueue(Append(b[e], x)) /\ InOrder(Append(b[e], x), t[e], d[e])
    BY <1>4, <2>1, Grown, SilentGrows
  <2> QED
    BY <1>5, <2>1, <2>2
<1>7. AllInOrder(r, t, d)
  BY <1>2, <1>5, <1>6 DEF AllInOrder
<1> QED
  BY <1>1, <1>7

\* The first SNAC of a client is taken; if it has a text, that is told.
LEMMA HeardTaken ==
  ASSUME Heard, NEW c \in Clients, inbox[c] # <<>>, NEW text, text = Carries(Head(inbox[c]))
  PROVE  /\ text = NoText => AllInOrder(TakenFrom(c), told, due)
         /\ text # NoText => AllInOrder(TakenFrom(c), [told EXCEPT ![c] = Append(told[c], text)], due)
<1>1. PICK r : r = TakenFrom(c)
  OBVIOUS
<1>2. DOMAIN inbox = Clients /\ DOMAIN told = Clients /\ DOMAIN due = Clients
  BY DEF Heard, AllInOrder
<1>3. DOMAIN r = Clients /\ r[c] = Tail(inbox[c]) /\ \A e \in Clients : e # c => r[e] = inbox[e]
  BY <1>1, <1>2 DEF TakenFrom
<1>4. \A e \in Clients : IsQueue(inbox[e]) /\ InOrder(inbox[e], told[e], due[e])
  BY DEF Heard, AllInOrder
<1>5. IsQueue(r[c])
  BY <1>3, <1>4, Shortened
<1>6. ASSUME text = NoText PROVE AllInOrder(r, told, due)
  <2>1. InOrder(r[c], told[c], due[c])
    BY <1>3, <1>4, <1>6, SilentTaken
  <2> QED
    BY <1>2, <1>3, <1>4, <1>5, <2>1 DEF AllInOrder
<1>7. ASSUME text # NoText PROVE AllInOrder(r, [told EXCEPT ![c] = Append(told[c], text)], due)
  <2>1. PICK u : u = [told EXCEPT ![c] = Append(told[c], text)]
    OBVIOUS
  <2>2. DOMAIN u = Clients /\ u[c] = Append(told[c], text) /\ \A e \in Clients : e # c => u[e] = told[e]
    BY <1>2, <2>1
  <2>3. InOrder(r[c], u[c], due[c])
    BY <1>3, <1>4, <1>7, <2>2, TextTaken
  <2>4. AllInOrder(r, u, due)
    BY <1>2, <1>3, <1>4, <1>5, <2>2, <2>3 DEF AllInOrder
  <2> QED
    BY <2>1, <2>4
<1> QED
  BY <1>1, <1>6, <1>7

\* What the applications write is due when it is relayed.
LEMMA WritesHeard ==
  ASSUME Session, Heard, NEW c \in Clients, SendsText(c) \/ SendsMessage(c) \/ sendTypingNotice(c)
  PROVE  Heard'
<1>1. Called /\ UNCHANGED online /\ told' = told
  BY DEF SendsText, SendsMessage, sendTypingNotice, sendMessage
<1>2. calls' \in Nat \ {0}
  BY <1>1, BoundAssumption DEF Called, Session
<1>3. ASSUME NEW to \in Clients, NEW x, NEW text \in Text, text # NoText, Carries(x) = text,
             inbox' = Relayed(inbox, to, x),
             due' = IF to \in online THEN [due EXCEPT ![to] = Append(due[to], text)] ELSE due
      PROVE  Heard'
  <2>1. /\ to \in online => AllInOrder(Relayed(inbox, to, x), told, [due EXCEPT ![to] = Append(due[to], text)])
        /\ to \notin online => AllInOrder(Relayed(inbox, to, x), told, due)
    BY <1>3, TextRelayed DEF Heard
  <2>2. AllInOrder(inbox', told', due')
    BY <1>1, <1>3, <2>1
  <2> QED
    BY <2>2 DEF Heard, AllInOrder, InOrder, Assigned, IsQueue, Texts, Carries
<1>4. ASSUME NEW d \in Others(c), NEW m, m.uin = d, NEW text \in Text, text # NoText, sendMessage(c, m, text),
             Carries(MessageSNAC(c, pack(m))) = text
      PROVE  Heard'
  <2>1. d \in Clients
    BY DEF Others
  <2>2. inbox' = Relayed(inbox, d, MessageSNAC(c, pack(m)))
        /\ due' = IF d \in online THEN [due EXCEPT ![d] = Append(due[d], text)] ELSE due
    BY <1>4 DEF sendMessage
  <2> QED
    BY <1>3, <1>4, <2>1, <2>2
<1>5. ASSUME SendsText(c)
      PROVE  Heard'
  <2>1. PICK d \in Others(c), form \in {"latin", "wide"} :
          LET text == [nr |-> calls', form |-> form] IN sendMessage(c, textMessage(d, text), text)
    BY <1>5, Zenon DEF SendsText
  <2>2. PICK text : text = [nr |-> calls', form |-> form] /\ sendMessage(c, textMessage(d, text), text)
    BY <2>1, Zenon
  <2>3. text \in Text /\ text # NoText
    BY <1>2, <2>2, TextIsText
  <2>4. Carries(MessageSNAC(c, pack(textMessage(d, text)))) = text /\ textMessage(d, text).uin = d
    BY <2>2, TextMessageCarries
  <2> QED
    BY <1>4, <2>2, <2>3, <2>4
<1>6. ASSUME SendsMessage(c)
      PROVE  Heard'
  <2>1. PICK d \in Others(c) :
          LET text == [nr |-> calls', form |-> "latin"] IN
          sendMessage(c, [NewMessage(d) EXCEPT !.format = 4, !.type = "URL", !.text = text], text)
    BY <1>6, Zenon DEF SendsMessage
  <2>2. PICK text, m : /\ text = [nr |-> calls', form |-> "latin"] /\ sendMessage(c, m, text)
                       /\ m = [NewMessage(d) EXCEPT !.format = 4, !.type = "URL", !.text = text]
    BY <2>1, Zenon
  <2>3. text \in Text /\ text # NoText
    BY <1>2, <2>2, TextIsText
  <2>5. text = [nr |-> calls', form |-> "latin"] /\ sendMessage(c, m, text)
    BY <2>2
  <2>6. m = [NewMessage(d) EXCEPT !.format = 4, !.type = "URL", !.text = text]
    BY <2>2, Zenon
  <2>7. PICK fields : NewMessage(d) \in MessageRecord(fields)
    BY NewMessages
  <2>8. m.format = 4 /\ m.text = text /\ m.uin = d
    BY <2>6, <2>7, NewMessages DEF MessageRecord
  <2>9. Latin(text) = text
    BY <2>5 DEF Latin
  <2>4. Carries(MessageSNAC(c, pack(m))) = text
    BY <2>8, <2>9, UrlMessageCarries
  <2> QED
    BY <1>4, <2>3, <2>4, <2>5, <2>8
<1>7. ASSUME sendTypingNotice(c)
      PROVE  Heard'
  <2>1. PICK d \in Others(c) :
          LET notice == [nr |-> calls', form |-> "typing"] IN
          /\ inbox' = Relayed(inbox, d, [kind |-> "typing", from |-> c, notice |-> notice])
          /\ due' = IF d \in online THEN [due EXCEPT ![d] = Append(@, notice)] ELSE due
    BY <1>7, Zenon DEF sendTypingNotice
  <2>2. PICK notice : notice = [nr |-> calls', form |-> "typing"]
    OBVIOUS
  <2>3. notice \in Text /\ notice # NoText
    BY <1>2, <2>2, TextIsText
  <2>4. PICK x : x = [kind |-> "typing", from |-> c, notice |-> notice]
    OBVIOUS
  <2>5. x.kind = "typing" /\ x.notice = notice
    BY <2>4
  <2>6. Carries(x) = notice
    BY <2>5 DEF Carries
  <2>7. inbox' = Relayed(inbox, d, x) /\ due' = IF d \in online THEN [due EXCEPT ![d] = Append(due[d], notice)] ELSE due
    BY <2>1, <2>2, <2>4, Zenon
  <2>8. d \in Clients
    BY DEF Others
  <2> QED
    BY <1>3, <2>3, <2>6, <2>7, <2>8
<1> QED
  BY <1>5, <1>6, <1>7

\* So is what the official client writes, but for its requests.
LEMMA PeerHeard ==
  ASSUME Session, Heard, PeerWrites
  PROVE  Heard'
<1>1. Called /\ UNCHANGED online /\ told' = told
  BY DEF PeerWrites
<1>2. calls' \in Nat \ {0}
  BY <1>1, BoundAssumption DEF Called, Session
<1>3. PICK c \in online \cap PeerContacts :
        \/ \E wire \in PeerTexts(calls') :
             /\ inbox' = Relayed(inbox, c, MessageSNAC(Peer, wire))
             /\ due' = [due EXCEPT ![c] = Append(@, Last(wire.tlvs).text)]
        \/ \E wire \in PeerRequests :
             inbox' = Relayed(inbox, c, MessageSNAC(Peer, wire)) /\ UNCHANGED due
  BY Zenon DEF PeerWrites
<1>4. c \in Clients
  BY DEF Session
<1>5. ASSUME NEW wire \in PeerTexts(calls'), inbox' = Relayed(inbox, c, MessageSNAC(Peer, wire)),
             due' = [due EXCEPT ![c] = Append(due[c], Last(wire.tlvs).text)]
      PROVE  AllInOrder(inbox', told', due')
  <2>1. ASSUME NEW a, a.type \in {4, 19}, NEW form \in {"latin", "wide"}, NEW enc,
               NEW text, text = [nr |-> calls', form |-> form],
               NEW p, p = [type |-> 2, encoding |-> enc, text |-> text],
               wire = [cookie |-> 0, format |-> 1, storage |-> TRUE, tlvs |-> <<a, p>>]
        PROVE  AllInOrder(inbox', told', due')
    <3>1. p.type = 2 /\ p.text = text
      BY <2>1
    <3>2. wire.format = 1 /\ wire.tlvs = <<a, p>>
      BY <2>1
    <3>3. Last(wire.tlvs) = p
      <4>1. PICK q : q = <<a, p>>
        OBVIOUS
      <4>2. q[Len(q)] = p
        BY <4>1
      <4> QED
        BY <3>2, <4>1, <4>2 DEF Last
    <3>4. text \in Text /\ text # NoText
      BY <1>2, <2>1, TextIsText
    <3>5. PICK x : x = MessageSNAC(Peer, wire)
      OBVIOUS
    <3>6. Carries(x) = text
      BY <2>1, <3>1, <3>2, <3>5, MessageCarries
    <3>7. AllInOrder(Relayed(inbox, c, x), told, [due EXCEPT ![c] = Append(due[c], text)])
      BY <1>3, <1>4, <3>4, <3>6, TextRelayed DEF Heard
    <3> QED
      BY <1>1, <1>5, <3>1, <3>3, <3>5, <3>7
  <2>2. PICK b, e : b = [type |-> 19] /\ e = [type |-> 4]
    OBVIOUS
  <2>3. PICK t, u : t = [nr |-> calls', form |-> "wide"] /\ u = [nr |-> calls', form |-> "latin"]
    OBVIOUS
  <2>4. PICK p, q : /\ p = [type |-> 2, encoding |-> "UCS2BE", text |-> t]
                    /\ q = [type |-> 2, encoding |-> "ASCII", text |-> u]
    OBVIOUS
  <2>5. b.type \in {4, 19} /\ e.type \in {4, 19}
    BY <2>2
  <2>6. \/ wire = [cookie |-> 0, format |-> 1, storage |-> TRUE, tlvs |-> <<b, p>>]
        \/ wire = [cookie |-> 0, format |-> 1, storage |-> TRUE, tlvs |-> <<e, q>>]
    BY <2>2, <2>3, <2>4, Zenon DEF PeerTexts
  <2>7. CASE wire = [cookie |-> 0, format |-> 1, storage |-> TRUE, tlvs |-> <<b, p>>]
    <3>1. "wide" \in {"latin", "wide"}
      OBVIOUS
    <3> QED
      BY <2>1, <2>3, <2>4, <2>5, <2>7, <3>1
  <2>8. CASE wire = [cookie |-> 0, format |-> 1, storage |-> TRUE, tlvs |-> <<e, q>>]
    <3>1. "latin" \in {"latin", "wide"}
      OBVIOUS
    <3> QED
      BY <2>1, <2>3, <2>4, <2>5, <2>8, <3>1
  <2> QED
    BY <2>6, <2>7, <2>8
<1>6. ASSUME NEW wire \in PeerRequests, inbox' = Relayed(inbox, c, MessageSNAC(Peer, wire)), due' = due
      PROVE  AllInOrder(inbox', told', due')
  <2>1. PICK k, p : /\ p.type = 5 /\ (p.capability = "file" \/ p.request = "REQUEST")
                    /\ wire = [cookie |-> k, format |-> 2, storage |-> FALSE, tlvs |-> <<p>>]
    <3>1. \/ \E b : wire = [cookie |-> 0, format |-> 2, storage |-> FALSE,
                            tlvs |-> <<[type |-> 5, request |-> "REQUEST", capability |-> "icq",
                                        inner |-> [of |-> "message", byte |-> b, text |-> NoText]]>>]
          \/ \E k, r, i : wire = [cookie |-> k, format |-> 2, storage |-> FALSE,
                                  tlvs |-> <<[type |-> 5, request |-> r, capability |-> "file", inner |-> i]>>]
      BY DEF PeerRequests
    <3>2. ASSUME NEW b, wire = [cookie |-> 0, format |-> 2, storage |-> FALSE,
                                tlvs |-> <<[type |-> 5, request |-> "REQUEST", capability |-> "icq",
                                            inner |-> [of |-> "message", byte |-> b, text |-> NoText]]>>]
          PROVE  \E k, p : /\ p.type = 5 /\ (p.capability = "file" \/ p.request = "REQUEST")
                           /\ wire = [cookie |-> k, format |-> 2, storage |-> FALSE, tlvs |-> <<p>>]
      <4>1. PICK p : p = [type |-> 5, request |-> "REQUEST", capability |-> "icq",
                          inner |-> [of |-> "message", byte |-> b, text |-> NoText]]
        OBVIOUS
      <4>2. p.type = 5 /\ p.request = "REQUEST"
        BY <4>1
      <4> QED
        BY <3>2, <4>1, <4>2, Zenon
    <3>3. ASSUME NEW k, NEW r, NEW i,
                 wire = [cookie |-> k, format |-> 2, storage |-> FALSE,
                         tlvs |-> <<[type |-> 5, request |-> r, capability |-> "file", inner |-> i]>>]
          PROVE  \E l, p : /\ p.type = 5 /\ (p.capability = "file" \/ p.request = "REQUEST")
                           /\ wire = [cookie |-> l, format |-> 2, storage |-> FALSE, tlvs |-> <<p>>]
      <4>1. PICK p : p = [type |-> 5, request |-> r, capability |-> "file", inner |-> i]
        OBVIOUS
      <4>2. p.type = 5 /\ p.capability = "file"
        BY <4>1
      <4> QED
        BY <3>3, <4>1, <4>2, Zenon
    <3> QED
      BY <3>1, <3>2, <3>3
  <2>2. wire.format = 2 /\ wire.tlvs = <<p>>
    BY <2>1
  <2>3. p.type = 5 /\ (p.capability = "file" \/ p.request = "REQUEST")
    BY <2>1
  <2>4. PICK x : x = MessageSNAC(Peer, wire)
    OBVIOUS
  <2>5. Carries(x) = NoText
    BY <2>2, <2>3, <2>4, RequestCarries
  <2>6. AllInOrder(Relayed(inbox, c, x), told, due)
    BY <2>5, SilentRelayed DEF Heard
  <2> QED
    BY <1>1, <1>6, <2>4, <2>6
<1>7. AllInOrder(inbox', told', due')
  BY <1>3, <1>5, <1>6
<1> QED
  BY <1>7 DEF Heard, AllInOrder, InOrder, Assigned, IsQueue, Texts, Carries

\* A text that is taken is told, and what is sent for a SNAC that was taken has no text.
LEMMA HandlesHeard ==
  ASSUME IInv, Heard, NEW c \in Clients, Handles(c)
  PROVE  Heard'
<1>1. due' = due
  BY DEF Handles, newMessage, typingEventArrived, statusChanged, newAwayMessage, serverMetaReply, textVars
<1>2. PICK s : s = Head(inbox[c])
  OBVIOUS
<1>3. PICK text : text = Carries(s)
  OBVIOUS
<1>4. inbox[c] # <<>>
  BY DEF Handles, newMessage, typingEventArrived, statusChanged, newAwayMessage, serverMetaReply, Arrives
<1>5. /\ text = NoText => AllInOrder(TakenFrom(c), told, due)
      /\ text # NoText => AllInOrder(TakenFrom(c), [told EXCEPT ![c] = Append(told[c], text)], due)
  BY <1>2, <1>3, <1>4, HeardTaken
<1>6. ASSUME newMessage(c)
      PROVE  AllInOrder(inbox', told', due')
  <2>1. s.kind = "message" /\ Arrives(c, "message")
    BY <1>2, <1>6 DEF newMessage, Arrives
  <2>2. PICK m : m = parse(s.wire, s.from)
    OBVIOUS
  <2>3. messageArrived(c, m)
    BY <1>2, <1>6, <2>2, Zenon DEF newMessage
  <2>4. text = IF m.format = 2 /\ m.request = "REQUEST" THEN NoText ELSE m.text
    BY <1>3, <2>1, <2>2, Zenon DEF Carries
  <2>5. AllInOrder(TakenFrom(c), told', due)
    <3>1. CASE (m.format = 2 /\ m.request = "REQUEST") \/ m.text = NoText
      BY <1>5, <2>3, <2>4, <3>1 DEF messageArrived
    <3>2. CASE ~((m.format = 2 /\ m.request = "REQUEST") \/ m.text = NoText)
      BY <1>5, <2>3, <2>4, <3>2 DEF messageArrived
    <3> QED
      BY <3>1, <3>2
  <2>6. CASE ~ClientAnswers(m)
    BY <1>1, <2>3, <2>5, <2>6 DEF messageArrived
  <2>7. CASE ClientAnswers(m)
    <3>1. PICK answer : answer = [m EXCEPT !.text = NoText]
      OBVIOUS
    <3>2. \E fields : m \in MessageRecord(fields)
      <4>1. IsSNAC(s, c)
        BY <1>2, <2>1, HeadWaits
      <4>2. s.wire.format \in {1, 2, 4}
        BY <2>1, <4>1 DEF IsSNAC
      <4> QED
        BY <2>2, <4>2, ReadAsWritten
    <3>3. answer.format = m.format
      BY <3>1, <3>2, FieldsSet DEF Like
    <3>4. PICK x : x = MessageSNAC(c, pack(answer))
      OBVIOUS
    <3>5. Carries(x) = NoText
      BY <2>7, <3>3, <3>4, PackedRequestCarries DEF ClientAnswers
    <3>6. inbox' = Relayed(TakenFrom(c), m.uin, x)
      BY <2>3, <2>7, <3>1, <3>4 DEF messageArrived
    <3> QED
      BY <1>1, <2>5, <3>5, <3>6, SilentRelayed
  <2> QED
    BY <2>6, <2>7
<1>7. ASSUME typingEventArrived(c)
      PROVE  AllInOrder(inbox', told', due')
  <2>1. s.kind = "typing" /\ told' = [told EXCEPT ![c] = Append(told[c], s.notice)] /\ inbox' = TakenFrom(c)
    BY <1>2, <1>7 DEF typingEventArrived, Arrives
  <2>2. text = s.notice /\ s.notice # NoText
    <3>1. IsSNAC(s, c)
      BY <1>2, <1>7, HeadWaits DEF typingEventArrived
    <3> QED
      BY <1>3, <2>1, <3>1 DEF Carries, IsSNAC
  <2> QED
    BY <1>1, <1>5, <2>1, <2>2
<1>8. ASSUME statusChanged(c)
      PROVE  AllInOrder(inbox', told', due')
  <2>1. s.kind = "status" /\ told' = told
    BY <1>2, <1>8 DEF statusChanged, Arrives, textVars
  <2>2. AllInOrder(TakenFrom(c), told, due)
    BY <1>3, <1>5, <2>1 DEF Carries
  <2>3. PICK d, st : inbox' = AskForAwayMessage(c, d, st, TakenFrom(c))
    BY <1>8, Zenon DEF statusChanged
  <2>4. CASE inbox' = TakenFrom(c)
    BY <1>1, <2>1, <2>2, <2>4
  <2>5. ASSUME NEW to, NEW x, Carries(x) = NoText, inbox' = Relayed(TakenFrom(c), to, x)
        PROVE  AllInOrder(inbox', told', due')
    BY <1>1, <2>1, <2>2, <2>5, SilentRelayed
  <2>6. \/ inbox' = TakenFrom(c)
        \/ \E away : inbox' = Relayed(TakenFrom(c), c, [kind |-> "userinfo", from |-> d, away |-> away])
        \/ inbox' = Relayed(TakenFrom(c), d, MessageSNAC(c, AwayRequest(d, st)))
    BY <2>3, Zenon DEF AskForAwayMessage
  <2>7. ASSUME NEW away, inbox' = Relayed(TakenFrom(c), c, [kind |-> "userinfo", from |-> d, away |-> away])
        PROVE  AllInOrder(inbox', told', due')
    <3>1. PICK x : x = [kind |-> "userinfo", from |-> d, away |-> away]
      OBVIOUS
    <3>2. x.kind = "userinfo"
      BY <3>1
    <3>3. Carries(x) = NoText
      BY <3>2 DEF Carries
    <3> QED
      BY <2>5, <2>7, <3>1, <3>3
  <2>8. ASSUME inbox' = Relayed(TakenFrom(c), d, MessageSNAC(c, AwayRequest(d, st)))
        PROVE  AllInOrder(inbox', told', due')
    <3>1. PICK type, m : m = [NewMessage(d) EXCEPT !.format = 2, !.type = type] /\ pack(m) = AwayRequest(d, st)
      BY Zenon DEF AwayRequest
    <3>2. PICK fields : NewMessage(d) \in MessageRecord(fields)
      BY NewMessages
    <3>3. m.format = 2
      BY <3>1, <3>2 DEF MessageRecord
    <3>4. Carries(MessageSNAC(c, pack(m))) = NoText
      BY <3>3, PackedRequestCarries
    <3> QED
      BY <2>5, <2>8, <3>1, <3>4
  <2> QED
    BY <2>4, <2>6, <2>7, <2>8
<1>9. ASSUME newAwayMessage(c) \/ serverMetaReply(c)
      PROVE  AllInOrder(inbox', told', due')
  <2>1. s.kind \in {"userinfo", "meta"} /\ told' = told /\ inbox' = TakenFrom(c)
    BY <1>2, <1>9 DEF newAwayMessage, serverMetaReply, Arrives, textVars
  <2>2. text = NoText
    BY <1>3, <2>1 DEF Carries
  <2> QED
    BY <1>1, <1>5, <2>1, <2>2
<1>10. AllInOrder(inbox', told', due')
  BY <1>6, <1>7, <1>8, <1>9 DEF Handles
<1> QED
  BY <1>10 DEF Heard, AllInOrder, InOrder, Assigned, IsQueue, Texts, Carries

\* A client that connects has heard nothing yet of what is due in its session, and nothing is.
LEMMA ConnectionHeard ==
  ASSUME IInv, Kept, Heard, NEW c \in Clients, finishedConnection(c)
  PROVE  Heard'
<1>1. told' = told /\ due' = due /\ c \notin online
  BY DEF finishedConnection, textVars
<1>2. AllInOrder(ShownToOthers(inbox, c, "ONLINE"), told, due)
  BY StatusShown DEF Heard
<1>3. PICK q : inbox' = [ShownToOthers(inbox, c, "ONLINE") EXCEPT ![c] = q]
  BY Zenon DEF finishedConnection
<1>4. PICK b : b = ShownToOthers(inbox, c, "ONLINE")
  OBVIOUS
<1>5. /\ DOMAIN inbox' = Clients /\ inbox'[c] = q /\ \A e \in Clients : e # c => inbox'[e] = b[e]
      /\ \A e \in Clients : IsQueue(b[e]) /\ InOrder(b[e], told[e], due[e])
  BY <1>2, <1>3, <1>4 DEF AllInOrder
<1>6. IsQueue(q) /\ Texts(q) = {}
  <2>1. PICK S : Welcomes(q, S)
    BY <1>5, Welcomed
  <2>2. ASSUME NEW p \in DOMAIN q PROVE Carries(q[p]) = NoText
    <3>1. q[p].kind = "meta" \/ \E d \in S : q[p] = StatusSNAC(d, status[d])
      BY <2>1 DEF Welcomes
    <3>2. CASE q[p].kind = "meta"
      BY <3>2 DEF Carries
    <3> QED
      BY <3>1, <3>2, StatusSilent
  <2> QED
    BY <2>1, <2>2 DEF Welcomes, Texts
<1>7. told[c] = due[c] /\ told[c] \in Seq(Text)
  <2>1. inbox[c] = <<>> /\ InOrder(inbox[c], told[c], due[c])
    BY <1>1 DEF IInv, Boxes, Heard, AllInOrder
  <2>2. Texts(<<>>) = {}
    <3>1. DOMAIN <<>> = {}
      OBVIOUS
    <3> QED
      BY <3>1 DEF Texts
  <2> QED
    BY <2>1, <2>2, AllTold DEF InOrder
<1>8. InOrder(q, told[c], due[c])
  BY <1>6, <1>7, NoneWaits
<1>9. AllInOrder(inbox', told, due)
  <2>1. DOMAIN told = Clients /\ DOMAIN due = Clients
    BY DEF Heard, AllInOrder
  <2> QED
    BY <1>5, <1>6, <1>8, <2>1 DEF AllInOrder
<1>10. AllInOrder(inbox', told', due')
  BY <1>1, <1>9
<1> QED
  BY <1>10 DEF Heard, AllInOrder, InOrder, Assigned, IsQueue, Texts, Carries

\* What was due in a session that is lost is due no more.
LEMMA LossHeard ==
  ASSUME Heard, NEW c \in Clients, BOSDisconnected(c)
  PROVE  Heard'
<1>1. PICK b : b = ShownToOthers(inbox, c, "OFFLINE")
  OBVIOUS
<1>2. AllInOrder(b, told, due)
  BY <1>1, StatusShown DEF Heard
<1>3. inbox' = [b EXCEPT ![c] = <<>>] /\ due' = [due EXCEPT ![c] = <<>>] /\ told' = [told EXCEPT ![c] = <<>>]
  BY <1>1 DEF BOSDisconnected
<1>4. DOMAIN b = Clients /\ DOMAIN told = Clients /\ DOMAIN due = Clients
  BY <1>2 DEF AllInOrder
<1>5. EmptyHeard
  BY EmptyIsHeard
<1>6. ASSUME NEW e \in Clients PROVE IsQueue(inbox'[e]) /\ InOrder(inbox'[e], told'[e], due'[e])
  <2>1. CASE e = c
    BY <1>3, <1>4, <1>5, <2>1 DEF EmptyHeard
  <2>2. CASE e # c
    BY <1>2, <1>3, <1>4, <2>2 DEF AllInOrder
  <2> QED
    BY <2>1, <2>2
<1>7. DOMAIN inbox' = Clients /\ DOMAIN told' = Clients /\ DOMAIN due' = Clients
  BY <1>3, <1>4
<1>8. AllInOrder(inbox', told', due')
  BY <1>6, <1>7 DEF AllInOrder
<1> QED
  BY <1>8 DEF Heard, AllInOrder, InOrder, Assigned, IsQueue, Texts, Carries

\* Every step keeps the texts in order.
LEMMA HeardStays ==
  ASSUME IInv, Kept, Heard, [Next]_vars
  PROVE  Heard'
<1>1. ASSUME UNCHANGED <<inbox, told, due>>
      PROVE  Heard'
  <2>1. AllInOrder(inbox', told', due')
    BY <1>1 DEF Heard
  <2> QED
    BY <2>1 DEF Heard, AllInOrder, InOrder, Assigned, IsQueue, Texts, Carries
<1>2. CASE UNCHANGED vars
  BY <1>1, <1>2 DEF vars, textVars
<1>3. CASE PeerWrites
  BY <1>3, PeerHeard DEF IInv
<1>4. ASSUME NEW c \in Clients, SendsText(c) \/ SendsMessage(c) \/ sendTypingNotice(c)
      PROVE  Heard'
  BY <1>4, WritesHeard DEF IInv
<1>5. ASSUME NEW c \in Clients, SetsPresence(c)
      PROVE  Heard'
  <2>1. PICK s : inbox' = ShownToOthers(inbox, c, s)
    BY <1>5 DEF SetsPresence, setPresence
  <2>2. told' = told /\ due' = due
    BY <1>5 DEF SetsPresence, textVars
  <2>3. AllInOrder(inbox', told', due')
    BY <2>1, <2>2, StatusShown DEF Heard
  <2> QED
    BY <2>3 DEF Heard, AllInOrder, InOrder, Assigned, IsQueue, Texts, Carries
<1>6. ASSUME NEW c \in Clients, AnswersOffer(c) \/ sendFile(c)
      PROVE  Heard'
  BY <1>1, <1>6 DEF AnswersOffer, sendFile, textVars
<1>7. ASSUME NEW c \in Clients, finishedConnection(c)
      PROVE  Heard'
  BY <1>7, ConnectionHeard
<1>8. ASSUME NEW c \in Clients, BOSDisconnected(c)
      PROVE  Heard'
  BY <1>8, LossHeard
<1>9. ASSUME NEW c \in Clients, Handles(c)
      PROVE  Heard'
  BY <1>9, HandlesHeard
<1>10. ASSUME NEW c \in Clients, NEW successful \in BOOLEAN, handleServiceEnd(c, successful)
       PROVE  Heard'
  BY <1>1, <1>10 DEF handleServiceEnd, textVars
<1> QED
  BY <1>2, <1>3, <1>4, <1>5, <1>6, <1>7, <1>8, <1>9, <1>10, Zenon DEF Next

-----------------------------------------------------------------------------
(* The theorems *)

\* The invariant holds of every behaviour of the code: any number of clients on ICQ or AIM, who
\* write, set statuses, offer files, lose connections and come back.
THEOREM Inductive == Spec => [](IInv /\ Kept)
<1>1. Init => IInv /\ Kept
  BY InitEstablishes
<1>2. IInv /\ Kept /\ [Next]_vars => (IInv /\ Kept)'
  BY NextKeeps, KeptStays
<1> QED
  BY <1>1, <1>2, PTL DEF Spec

\* The statuses, transfers and offers are those that the code writes, and who has no session has
\* nothing to handle.
THEOREM TypeCorrect == Spec => []TypeOK
<1>1. IInv => TypeOK
  <2> SUFFICES ASSUME IInv PROVE TypeOK
    OBVIOUS
  <2>1. calls \in Nat /\ MaxCalls \in Nat /\ calls <= MaxCalls
    BY BoundAssumption DEF IInv, Session
  <2>2. ASSUME NEW c \in Clients
        PROVE  services[c] \in 0 .. MaxCalls
    <3>1. services[c] \in 0 .. calls
      BY DEF IInv, Files
    <3> QED
      BY <2>1, <3>1
  <2>3. ASSUME NEW c \in Clients
        PROVE  /\ status[c] \in Known /\ (inbox[c] # <<>> => c \in online)
               /\ (\A d \in Others(c) : seen[c][d] \in Known) /\ awayTold[c] \subseteq Others(c)
    BY DEF IInv, Views, Boxes
  <2>4. ASSUME NEW c \in Clients
        PROVE  /\ DOMAIN transfers[c] \subseteq {0, OwnCookie, NoCookie} \union Cookies
               /\ \A k \in DOMAIN transfers[c] : transfers[c][k] \in {"RECEIVING", "unset"}
               /\ hears[c] \in BOOLEAN /\ offers[c] \subseteq {0} \union Cookies
    BY DEF IInv, Files
  <2>5. Session
    BY DEF IInv
  <2> QED
    BY <2>2, <2>3, <2>4, <2>5 DEF TypeOK, Known, Session
<1> QED
  BY <1>1, Inductive, PTL

\* A client that has handled all it received shows each contact as it is, with the away message of
\* one who is away on AIM.
THEOREM PresenceTold == Spec => []PresenceIsTold
<1>1. IInv => PresenceIsTold
  <2> SUFFICES ASSUME IInv, NEW c \in online, inbox[c] = <<>>, NEW d \in Others(c)
               PROVE  /\ seen[c][d] = Shown(status[d])
                      /\ protocol = "AIM" /\ seen[c][d] = "AWAY" => d \in awayTold[c]
    BY DEF PresenceIsTold
  <2>1. DOMAIN inbox[c] = {}
    <3>1. DOMAIN <<>> = {}
      OBVIOUS
    <3> QED
      BY <3>1
  <2>2. View(c, d)
    BY DEF IInv, Presence
  <2> QED
    BY <2>1, <2>2 DEF View, Shows, TellsAway
<1> QED
  BY <1>1, Inductive, PTL

\* What the application may accept is a transfer that the code still knows.
THEOREM OffersPending == Spec => []OffersArePending
<1>1. IInv => OffersArePending
  BY DEF IInv, Files, OffersArePending
<1> QED
  BY <1>1, Inductive, PTL

\* Texts and notices reach the application as they were written, each once and in the order in which
\* the server relayed them, and all of them have when nothing is left to handle.
THEOREM TextsHeard == Spec => []TextsAreHeard
<1>1. Init => IInv /\ Kept /\ Heard
  <2> SUFFICES ASSUME Init PROVE Heard
    BY InitEstablishes
  <2>1. inbox = [c \in Clients |-> <<>>] /\ told = [c \in Clients |-> <<>>] /\ due = [c \in Clients |-> <<>>]
    BY DEF Init
  <2>2. EmptyHeard
    BY EmptyIsHeard
  <2> QED
    BY <2>1, <2>2 DEF Heard, AllInOrder, EmptyHeard
<1>2. IInv /\ Kept /\ Heard /\ [Next]_vars => (IInv /\ Kept /\ Heard)'
  BY NextKeeps, KeptStays, HeardStays
<1>3. IInv /\ Heard => TextsAreHeard
  <2> SUFFICES ASSUME IInv, Heard, NEW c \in online
               PROVE  IsPrefix(told[c], due[c]) /\ (inbox[c] = <<>> => told[c] = due[c])
    BY DEF TextsAreHeard
  <2>1. InOrder(inbox[c], told[c], due[c])
    BY DEF IInv, Session, Heard, AllInOrder
  <2>2. PICK t, d : t = told[c] /\ d = due[c]
    OBVIOUS
  <2>3. /\ t \in Seq(Text) /\ d \in Seq(Text) /\ Len(t) \in Nat /\ Len(d) \in Nat /\ Len(t) <= Len(d)
        /\ \A i \in 1 .. Len(t) : t[i] = d[i]
    BY <2>1, <2>2, LenProperties DEF InOrder
  <2>4. IsPrefix(t, d)
    BY <2>3 DEF IsPrefix
  <2>5. inbox[c] = <<>> => Texts(inbox[c]) = {}
    <3>1. DOMAIN <<>> = {}
      OBVIOUS
    <3> QED
      BY <3>1 DEF Texts
  <2> QED
    BY <2>1, <2>2, <2>4, <2>5, AllTold
<1> QED
  BY <1>1, <1>2, <1>3, PTL DEF Spec
=============================================================================
