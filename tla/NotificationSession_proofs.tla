---------------------- MODULE NotificationSession_proofs ----------------------
(***************************************************************************)
(* Proofs about NotificationSession, for every stored list, whichever      *)
(* commands are cut between two reads, and however long the session.       *)
(*                                                                         *)
(* Two positions in the text of what the server wrote, what was received   *)
(* and what the handlers removed, say where the session is.  The i-th      *)
(* command of a server is known (Expected): the nine of the log-in, the    *)
(* lines of the list, and then what comes after the connection is          *)
(* announced.  Before that the client and the server take turns (Early),   *)
(* so that the position tells which step of the script was asked last      *)
(* (InStep) and how many signals were emitted (SignalsSoFar), and the      *)
(* greedy expressions find no second command.  The last contact ends this; *)
(* after it, requests and commands of any number cross each other          *)
(* (LoggedIn), the parser keeps its place, and signals are only added.     *)
(*                                                                         *)
(* So the queue between the threads is known, too (Reported): the signals  *)
(* of the groups, of the contacts, of the connection, and then others.     *)
(* The main thread has taken some of them, which tells what it knows       *)
(* (Heard), whatever the parser's thread does meanwhile.                   *)
(***************************************************************************)
EXTENDS NotificationSession, QueueLemmas

-----------------------------------------------------------------------------
(* Types *)

RequestNames == {"VER", "CVR", "USR I", "USR S", "USR S empty", "SYN"}
StepNames == RequestNames \union {"CHG"}
LateRequests == {"CHG", "QRY", "ADC", "ADC BL", "ADC AL", "REM", "ADG", "RMG", "status"}
Requests == [cmd: RequestNames \union LateRequests, who: Contacts \union {"nobody"},
             group: Groups \union {NoGroup}]
Positions == [nr: Nat, part: 0 .. 4]
Listed == [who: Contacts \union {"nobody"}, group: Groups \union {NoGroup}]
Signals ==
  [name: {"newGroupArrived"}, group: Groups \union {NoGroup}]
  \union [name: {"newContactArrived"}, who: Contacts \union {"nobody"},
          group: { Captured(g) : g \in Groups \union {NoGroup} }]
  \union [name: {"statusChanged"}, who: Contacts \union {"nobody"}, status: {"off", "on"}]
  \union [name: {"personalMessage"}, who: Contacts \union {"nobody"}]
  \union [name: {"connected"}]
  \union [name: {"disconnected"}, reason: {"AuthenticationFailed", "AtOtherPlace"}]

ServerTypes ==
  /\ sent \in Seq(Command) /\ asked \in Seq(Requests)
  /\ link \in {"up", "closed"} /\ online \in BOOLEAN
  /\ redirects \in Nat
ParserTypes ==
  /\ got \in Positions /\ gone \in Positions
  /\ hasCommand \in BOOLEAN /\ parsing \in BOOLEAN /\ toCome \in Int
  /\ handled \in Seq(Command) /\ requests \in Seq(StepNames)
  /\ loop \in {"running", "returned", "undefined"}
  /\ signals \in Seq(Signals)
Types == ServerTypes /\ ParserTypes
SessionTypes ==
  /\ groups \subseteq Groups \union {NoGroup} /\ contacts \in [Contacts -> Statuses]
  /\ listed \in Seq(Listed)
-----------------------------------------------------------------------------
(* What the server sends, and where *)

NumGroups == Len(GroupList)
NumContacts == Len(ContactList)
Ready == NumGroups + NumContacts             \* so many signals come before that of the connection
ListEnd == 9 + NumGroups + 2 * NumContacts   \* the list ends with this command

\* The connection has been announced; the listener is to be told that there is none.
Announced == Len(signals) > Ready /\ signals[Ready + 1].name = "connected"
Refused == Len(signals) > 0 /\ signals[1].name = "disconnected"

LateKinds == {"CHG", "ILN", "CHL", "QRY", "ADN", "ADC", "ERR", "REM", "ADG", "RMG", "NLN", "FLN",
              "UBX", "MSG", "NOT", "OUT"}
Late(c) == c.kind \in LateKinds /\ (c.kind = "MSG" => c.who # "nobody")

\* The i-th command of a server
Expected(i, c) ==
  /\ i = 1 => c.kind = "VER"
  /\ i = 2 => c.kind = "CVR"
  /\ i = 3 => c.kind \in {"GCF", "TWN", "XFR"}
  /\ i = 4 => c.kind \in {"USR", "ERR"}
  /\ i = 5 => c.kind = "MSG" /\ c.who = "nobody"
  /\ i = 6 => c.kind = "SYN"
  /\ i = 7 => c.kind = "GTC"
  /\ i = 8 => c.kind = "BLP"
  /\ i = 9 => c.kind = "PRP"
  /\ i \in 10 .. ListEnd => c = Listing[i - 9]
  /\ i > ListEnd => Late(c)

InPlace == \A i \in DOMAIN sent : Expected(i, sent[i])

\* Before the connection is announced the server waits for a request or the client for its answer.
AskedAfter(n, cmd) ==
  \/ n = 0 /\ cmd = "VER"
  \/ n = 1 /\ cmd = "CVR"
  \/ n = 2 /\ cmd = "USR I"
  \/ n = 3 /\ cmd \in {"USR S", "USR S empty"}
  \/ n = 5 /\ cmd = "SYN"
Unanswered == Len(asked) = 1 /\ Len(sent) = gone.nr /\ AskedAfter(gone.nr, asked[1].cmd)
Early ==
  /\ ~online
  /\ gone.nr < 3 => Len(sent) <= gone.nr + 1
  /\ gone.nr \in {3, 4} => Len(sent) <= 5
  /\ gone.nr >= 5 => Len(sent) \in {5, ListEnd}
  /\ NumContacts > 0 => gone.nr < ListEnd - 1
  /\ asked = <<>> \/ Unanswered
\* Without a ticket nothing is asked, so that nothing more comes.
Silent == gone.nr = 3 /\ Len(sent) = 3 /\ asked = <<>>
LateAsked == \A i \in DOMAIN asked : asked[i].cmd \in LateRequests
LoggedIn ==
  NumContacts > 0 /\ gone.nr >= ListEnd - 1 /\ Len(sent) >= ListEnd /\ LateAsked
InTurn == IF Announced THEN LoggedIn ELSE Early /\ (Refused => Silent)

-----------------------------------------------------------------------------
(* Where the parser is *)

\* What was removed was received, and what was received was sent.
InText == Position(got) /\ got.nr <= Len(sent) /\ gone.nr <= Len(sent) /\ ~Before(got, gone)

NoDisplayName == \A i \in DOMAIN handled : handled[i].kind # "ADN"
WholeCommands == NoDisplayName => IsPrefix(handled, sent) /\ gone = HandledEnd

\* When parse has returned or is about to, the beginning of a command is left at most.
AllTaken == (~parsing \/ ~hasCommand) /\ gone.part = 0 => got.nr = gone.nr

-----------------------------------------------------------------------------
(* What was asked, and what was emitted *)

Step(i, request) ==
  /\ i <= 3 * (redirects + 1) => request = Prelude[((i - 1) % 3) + 1]
  /\ i = 3 * redirects + 4 => request \in {"USR S", "USR S empty"}
  /\ i = 3 * redirects + 5 => request = "SYN"
  /\ i = 3 * redirects + 6 => request = "CHG"
Steps == Len(requests) <= 3 * redirects + 6 /\ \A i \in DOMAIN requests : Step(i, requests[i])

\* The requests of this server's connection
Stage == IF Announced THEN 6 ELSE IF Refused THEN 3
         ELSE IF gone.nr < 3 THEN gone.nr + 1 ELSE IF gone.nr < 5 THEN 4 ELSE 5
InStep == Len(requests) = 3 * redirects + Stage

\* The i-th signal: the groups of the list, its contacts, the connection, and no other one.
InReport(i, s) ==
  /\ i <= NumGroups => s.name = "newGroupArrived" /\ s.group = GroupList[i]
  /\ i > NumGroups /\ i <= Ready =>
       s.name = "newContactArrived" /\ s.who = ContactList[i - NumGroups].who
  /\ i = Ready + 1 => s.name = "connected"
  /\ i > Ready + 1 => s.name # "connected"
Reported ==
  /\ Refused => \A i \in DOMAIN signals : signals[i].name = "disconnected"
  /\ ~Refused => \A i \in DOMAIN signals : InReport(i, signals[i])

\* Before the last contact: a signal was emitted for each line of the list that was removed, but for
\* those that end a contact.
SignalsSoFar ==
  ~Announced /\ ~Refused =>
    /\ gone.nr <= 9 => Len(signals) = 0
    /\ gone.nr >= 9 /\ gone.nr <= 9 + NumGroups => Len(signals) = gone.nr - 9
    /\ gone.nr >= 9 + NumGroups =>
         2 * (Len(signals) - NumGroups) \in {gone.nr - 9 - NumGroups, gone.nr - 8 - NumGroups}
    /\ gone.nr >= 6 /\ gone.nr <= 9 + NumGroups => toCome = NumContacts
    /\ gone.nr >= 9 + NumGroups => toCome = Ready - Len(signals)

Running == InPlace /\ InTurn /\ InText /\ AllTaken /\ InStep /\ SignalsSoFar

\* Handlers that go on with deleted objects are not described, only what was before.
ParserInv ==
  /\ Types
  /\ WholeCommands /\ ~Before(got, gone)
  /\ Steps /\ Reported
  /\ loop = "running" => Running

-----------------------------------------------------------------------------
(* What the main thread was told *)

Told(n) ==
  /\ Len(listed) >= n
  /\ \A i \in 1 .. n : listed[i].who = ContactList[i].who
  /\ \A i \in 1 .. n : contacts[ContactList[i].who] # "absent"

\* The first signals tell of the groups, the next of the contacts, before any goodbye.
Heard ==
  /\ taken <= Ready + 1 => goodbyes = <<>>
  /\ \A i \in 1 .. NumGroups : i <= taken => GroupList[i] \in groups
  /\ taken <= NumGroups => Len(listed) = 0
  /\ taken >= NumGroups /\ taken <= Ready =>
       Len(listed) = taken - NumGroups /\ Told(taken - NumGroups)

MainInv ==
  /\ taken \in 0 .. Len(signals) /\ SessionTypes
  /\ connected = IF taken > Ready /\ ~Refused THEN 1 ELSE 0
  /\ ~Refused => Heard
  /\ ConnectedMeansRoster

NSInv == ParserInv /\ MainInv

\* A step of parse adds to the queue; nothing is announced again.
Longer ==
  /\ signals' \in Seq(Signals)
  /\ Len(signals') >= Len(signals) /\ \A i \in 1 .. Len(signals) : signals'[i] = signals[i]
OnlyMore ==
  Longer /\ \A i \in Len(signals) + 1 .. Len(signals') : signals'[i].name # "connected"
Kept == ParserInv' /\ Longer

-----------------------------------------------------------------------------
(* Prefixes *)

\* A prefix is shorter and has the same elements.
LEMMA PrefixElements ==
  ASSUME NEW S, NEW s \in Seq(S), NEW t \in Seq(S)
  PROVE  IsPrefix(s, t) <=> Len(s) <= Len(t) /\ \A i \in 1 .. Len(s) : s[i] = t[i]
<1>1. Len(s) \in Nat /\ Len(t) \in Nat /\ DOMAIN s = 1 .. Len(s) /\ DOMAIN t = 1 .. Len(t)
  BY LenProperties
<1>2. ASSUME Len(s) <= Len(t)
      PROVE  /\ SubSeq(s, 1, Len(s)) \in Seq(S) /\ Len(SubSeq(s, 1, Len(s))) = Len(s)
             /\ SubSeq(t, 1, Len(s)) \in Seq(S) /\ Len(SubSeq(t, 1, Len(s))) = Len(s)
             /\ \A i \in 1 .. Len(s) : SubSeq(s, 1, Len(s))[i] = s[i]
             /\ \A i \in 1 .. Len(s) : SubSeq(t, 1, Len(s))[i] = t[i]
  <2>1. \A i \in 1 .. Len(s) : s[i] \in S /\ t[i] \in S
    BY <1>1, <1>2, ElementOfSeq
  <2> QED
    BY <1>1, <1>2, <2>1, SubSeqProperties
<1>3. ASSUME Len(s) <= Len(t), \A i \in 1 .. Len(s) : s[i] = t[i]
      PROVE  SubSeq(s, 1, Len(s)) = SubSeq(t, 1, Len(s))
  BY <1>1, <1>2, <1>3, SeqEqual
<1>4. ASSUME IsPrefix(s, t)
      PROVE  Len(s) <= Len(t) /\ \A i \in 1 .. Len(s) : s[i] = t[i]
  <2>1. Len(s) <= Len(t) /\ SubSeq(s, 1, Len(s)) = SubSeq(t, 1, Len(s))
    BY <1>4 DEF IsPrefix
  <2>2. ASSUME NEW i \in 1 .. Len(s) PROVE s[i] = t[i]
    <3>1. SubSeq(s, 1, Len(s))[i] = SubSeq(t, 1, Len(s))[i]
      BY <2>1, Zenon
    <3> QED
      BY <1>2, <2>1, <3>1
  <2> QED
    BY <2>1, <2>2
<1> QED
  BY <1>3, <1>4 DEF IsPrefix

\* A prefix and the next element are a prefix.
LEMMA PrefixNext ==
  ASSUME NEW S, NEW s \in Seq(S), NEW t \in Seq(S), IsPrefix(s, t), Len(s) < Len(t)
  PROVE  IsPrefix(Append(s, t[Len(s) + 1]), t)
<1>1. Len(s) \in Nat /\ Len(t) \in Nat /\ Len(s) + 1 \in 1 .. Len(t)
  BY LenProperties
<1>2. t[Len(s) + 1] \in S
  BY <1>1, ElementOfSeq
<1>3. Len(s) <= Len(t) /\ \A i \in 1 .. Len(s) : s[i] = t[i]
  BY PrefixElements
<1>4. PICK u : u = Append(s, t[Len(s) + 1])
  OBVIOUS
<1>5. /\ u \in Seq(S) /\ Len(u) = Len(s) + 1
      /\ \A i \in 1 .. Len(s) : u[i] = s[i]
      /\ u[Len(s) + 1] = t[Len(s) + 1]
  BY <1>2, <1>4, Appended
<1>6. Len(u) <= Len(t) /\ \A i \in 1 .. Len(u) : u[i] = t[i]
  BY <1>1, <1>3, <1>5
<1>7. IsPrefix(u, t)
  BY <1>5, <1>6, PrefixElements
<1> QED
  BY <1>4, <1>7

\* A prefix of a queue is one of a longer queue.
LEMMA PrefixLonger ==
  ASSUME NEW S, NEW s \in Seq(S), NEW t \in Seq(S), NEW u \in Seq(S), IsPrefix(s, t)
  PROVE  IsPrefix(s, t \o u)
<1>1. Len(s) \in Nat /\ Len(s) <= Len(t) /\ \A i \in 1 .. Len(s) : s[i] = t[i]
  BY PrefixElements, LenProperties
<1>2. /\ t \o u \in Seq(S) /\ Len(t) \in Nat /\ Len(u) \in Nat
      /\ Len(t \o u) = Len(t) + Len(u)
      /\ \A i \in 1 .. Len(t) : (t \o u)[i] = t[i]
  BY Joined
<1>3. Len(s) <= Len(t \o u) /\ \A i \in 1 .. Len(s) : s[i] = (t \o u)[i]
  BY <1>1, <1>2
<1> QED
  BY <1>2, <1>3, PrefixElements

-----------------------------------------------------------------------------
(* The command at the front of m_buf *)

\* The list has whole numbers of groups and contacts, and ends behind the log-in.
LEMMA ListSize ==
  NumGroups \in Nat /\ NumContacts \in Nat /\ ListEnd \in Nat /\ ListEnd >= 9
  /\ ListEnd = 9 + NumGroups + 2 * NumContacts
  /\ Ready \in Nat /\ Ready = NumGroups + NumContacts
BY ListAssumption, LenProperties DEF NumGroups, NumContacts, ListEnd, Ready

\* The elements of the stored list are groups and contacts.
LEMMA ListElements ==
  /\ \A i \in 1 .. NumGroups : GroupList[i] \in Groups
  /\ \A i \in 1 .. NumContacts :
       ContactList[i].who \in Contacts /\ ContactList[i].group \in Groups \union {NoGroup}
<1>1. \A i \in 1 .. NumGroups : GroupList[i] \in Groups
  BY ListAssumption, ElementOfSeq DEF NumGroups
<1>2. \A i \in 1 .. NumContacts : ContactList[i] \in [who: Contacts, group: Groups \union {NoGroup}]
  BY ListAssumption, ElementOfSeq DEF NumContacts
<1> QED
  BY <1>1, <1>2

\* Where the lines of the list are: those of the groups first, then two for each contact.
LEMMA ListingAt ==
  ASSUME NEW i \in 10 .. ListEnd
  PROVE  /\ i <= 9 + NumGroups => /\ Listing[i - 9] = OfGroup("LSG", GroupList[i - 9])
                                  /\ i - 9 \in 1 .. NumGroups
         /\ i > 9 + NumGroups =>
              \/ \E j \in 1 .. NumContacts :
                   /\ i = 8 + NumGroups + 2 * j
                   /\ Listing[i - 9] = [kind |-> "LST", who |-> ContactList[j].who,
                                        group |-> ContactList[j].group]
              \/ \E j \in 1 .. NumContacts :
                   i = 9 + NumGroups + 2 * j /\ Listing[i - 9] = Cmd("BPR")
<1>1. /\ NumGroups \in Nat /\ NumContacts \in Nat /\ ListEnd = 9 + NumGroups + 2 * NumContacts
      /\ i \in Nat
  BY ListSize
<1> DEFINE n == i - 9
<1>2. /\ n \in 1 .. NumGroups + 2 * NumContacts
      /\ Listing[n] = IF n <= NumGroups THEN OfGroup("LSG", GroupList[n])
                      ELSE IF (n - NumGroups) % 2 = 0 THEN Cmd("BPR")
                      ELSE LET listing == ContactList[(n - NumGroups + 1) \div 2]
                           IN [kind |-> "LST", who |-> listing.who, group |-> listing.group]
  BY <1>1 DEF Listing, NumGroups, NumContacts
<1>3. CASE i <= 9 + NumGroups
  <2>1. n <= NumGroups /\ n \in 1 .. NumGroups
    BY <1>1, <1>2, <1>3
  <2>2. Listing[n] = OfGroup("LSG", GroupList[n])
    BY <1>2, <2>1, Zenon
  <2> QED
    BY <1>1, <1>3, <2>1, <2>2
<1>4. CASE ~(i <= 9 + NumGroups)
  <2>1. ~(n <= NumGroups) /\ n - NumGroups \in 1 .. 2 * NumContacts
    BY <1>1, <1>2, <1>4
  <2>2. CASE (n - NumGroups) % 2 = 0
    <3>1. PICK j \in 1 .. NumContacts : n - NumGroups = 2 * j
      <4>1. (n - NumGroups) \div 2 \in 1 .. NumContacts
            /\ n - NumGroups = 2 * ((n - NumGroups) \div 2)
        BY <1>1, <2>1, <2>2
      <4> QED
        BY <4>1
    <3>2. i = 9 + NumGroups + 2 * j
      BY <1>1, <3>1
    <3>3. Listing[n] = Cmd("BPR")
      BY <1>2, <2>1, <2>2, Zenon
    <3> QED
      BY <1>4, <3>2, <3>3
  <2>3. CASE ~((n - NumGroups) % 2 = 0)
    <3>1. PICK j : j = (n - NumGroups + 1) \div 2
      OBVIOUS
    <3>2. j \in 1 .. NumContacts /\ n - NumGroups = 2 * j - 1
      BY <1>1, <2>1, <2>3, <3>1
    <3>3. i = 8 + NumGroups + 2 * j
      BY <1>1, <3>2
    <3>4. Listing[n] = [kind |-> "LST", who |-> ContactList[j].who, group |-> ContactList[j].group]
      BY <1>2, <2>1, <2>3, <3>1, Zenon
    <3> QED
      BY <1>4, <3>2, <3>3, <3>4
  <2> QED
    BY <2>2, <2>3
<1> QED
  BY <1>3, <1>4

\* The kinds of commands before the end of the list tell where they are.
LEMMA Place ==
  ASSUME NEW i \in Nat \ {0}, NEW c, Expected(i, c)
  PROVE  /\ c.kind = "VER" => i = 1
         /\ c.kind = "CVR" => i = 2
         /\ c.kind \in {"GCF", "TWN", "XFR"} => i = 3
         /\ c.kind = "USR" => i = 4
         /\ c.kind = "MSG" /\ c.who = "nobody" => i = 5
         /\ c.kind = "SYN" => i = 6
         /\ c.kind = "GTC" => i = 7
         /\ c.kind = "BLP" => i = 8
         /\ c.kind = "PRP" => i = 9
         /\ c.kind = "ERR" => i = 4 \/ i > ListEnd
         /\ c.kind = "MSG" => i = 5 \/ i > ListEnd
         /\ c.kind = "LSG" => i - 9 \in 1 .. NumGroups /\ c.group = GroupList[i - 9]
         /\ c.kind = "LST" => \E j \in 1 .. NumContacts :
                                /\ i = 8 + NumGroups + 2 * j
                                /\ c.who = ContactList[j].who
                                /\ c.group = ContactList[j].group
         /\ c.kind = "BPR" => \E j \in 1 .. NumContacts : i = 9 + NumGroups + 2 * j
         /\ c.kind \in LateKinds \ {"ERR", "MSG"} => i > ListEnd
<1>1. ListEnd \in Nat /\ ListEnd >= 9 /\ NumGroups \in Nat
  BY ListSize
<1>2. CASE i \in 10 .. ListEnd
  <2>1. c = Listing[i - 9] /\ i > 9
    BY <1>1, <1>2 DEF Expected
  <2>2. CASE i <= 9 + NumGroups
    <3>1. c = OfGroup("LSG", GroupList[i - 9]) /\ i - 9 \in 1 .. NumGroups
      BY <1>2, <2>1, <2>2, ListingAt
    <3>2. c.kind = "LSG" /\ c.group = GroupList[i - 9]
      BY <3>1 DEF OfGroup
    <3> QED
      BY <3>1, <3>2 DEF LateKinds
  <2>3. CASE ~(i <= 9 + NumGroups)
    <3>1. \/ \E j \in 1 .. NumContacts :
               /\ i = 8 + NumGroups + 2 * j
               /\ c = [kind |-> "LST", who |-> ContactList[j].who, group |-> ContactList[j].group]
          \/ \E j \in 1 .. NumContacts : i = 9 + NumGroups + 2 * j /\ c = Cmd("BPR")
      BY <1>1, <1>2, <2>1, <2>3, ListingAt
    <3>2. CASE \E j \in 1 .. NumContacts :
                 /\ i = 8 + NumGroups + 2 * j
                 /\ c = [kind |-> "LST", who |-> ContactList[j].who, group |-> ContactList[j].group]
      BY <3>2 DEF LateKinds
    <3>3. CASE \E j \in 1 .. NumContacts : i = 9 + NumGroups + 2 * j /\ c = Cmd("BPR")
      BY <3>3 DEF LateKinds, Cmd
    <3> QED
      BY <3>1, <3>2, <3>3
  <2> QED
    BY <2>2, <2>3
<1>3. CASE i > ListEnd
  BY <1>1, <1>3 DEF Expected, Late, LateKinds
<1>4. CASE i \in 1 .. 9
  <2>1. i \in {1, 2, 3, 4, 5, 6, 7, 8, 9}
    BY <1>4
  <2> QED
    BY <1>1, <2>1 DEF Expected, LateKinds
<1> QED
  BY <1>1, <1>2, <1>3, <1>4

\* A handler runs for a command that was sent, of which the beginning at least was received.
LEMMA AtFront ==
  ASSUME ParserInv, NEW k, Handles(k)
  PROVE  /\ loop = "running" /\ parsing /\ hasCommand /\ Running /\ FrontCmd.kind = k
         /\ gone.part = 0 /\ gone.nr \in Nat /\ gone.nr + 1 \in DOMAIN sent
         /\ gone = EndOf(gone.nr)
         /\ DOMAIN sent = 1 .. Len(sent) /\ Len(sent) \in Nat
         /\ got.nr \in Nat /\ got.nr <= Len(sent) /\ got.nr >= gone.nr
         /\ FrontCmd = sent[gone.nr + 1] /\ FrontCmd \in Command
         /\ Expected(gone.nr + 1, FrontCmd)
<1>1. loop = "running" /\ parsing /\ hasCommand /\ Named /\ FrontCmd.kind = k
  BY DEF Handles
<1>2. Running /\ Types
  BY <1>1 DEF ParserInv
<1>3. /\ sent \in Seq(Command) /\ got \in Positions /\ gone \in Positions
      /\ Len(sent) \in Nat /\ DOMAIN sent = 1 .. Len(sent)
  BY <1>2, LenProperties DEF Types, ServerTypes, ParserTypes
<1>4. /\ got.nr \in Nat /\ got.part \in 0 .. 4 /\ gone.nr \in Nat /\ gone.part \in 0 .. 4
      /\ gone = [nr |-> gone.nr, part |-> gone.part]
  BY <1>3 DEF Positions
<1>5. /\ got.part > 0 => got.nr < Len(sent)
      /\ got.nr <= Len(sent) /\ gone.nr <= Len(sent) /\ got.nr >= gone.nr
  BY <1>2, <1>3, <1>4 DEF Running, InText, Position, Before
<1>6. gone.part = 0 /\ gone.nr + 1 \in 1 .. Len(sent)
  BY <1>1, <1>3, <1>4, <1>5 DEF Named
<1>7. FrontCmd = sent[gone.nr + 1] /\ FrontCmd \in Command
  BY <1>3, <1>6, ElementOfSeq DEF FrontCmd
<1>8. Expected(gone.nr + 1, FrontCmd)
  BY <1>2, <1>3, <1>6, <1>7 DEF Running, InPlace
<1>9. gone = EndOf(gone.nr)
  BY <1>4, <1>6 DEF EndOf
<1>10. gone.nr + 1 \in DOMAIN sent
  BY <1>3, <1>6
<1> QED
  BY <1>1, <1>2, <1>3, <1>4, <1>5, <1>6, <1>7, <1>8, <1>9, <1>10

-----------------------------------------------------------------------------
(* The signals *)

\* What each signal carries.
LEMMA SignalFields ==
  ASSUME NEW s \in Signals
  PROVE  /\ s.name = "newGroupArrived" => s.group \in Groups \union {NoGroup}
         /\ s.name = "newContactArrived" => s.who \in Contacts \union {"nobody"}
         /\ s.name = "statusChanged" => s.status \in {"off", "on"}
BY DEF Signals

\* The signals of the handlers.
LEMMA SignalTyped ==
  ASSUME NEW c \in Contacts \union {"nobody"}, NEW g \in Groups \union {NoGroup}
  PROVE  /\ [name |-> "newGroupArrived", group |-> g] \in Signals
         /\ NewContact(c, NoGroup) \in Signals /\ NewContact(c, Captured(g)) \in Signals
         /\ StatusOf(c, "on") \in Signals /\ StatusOf(c, "off") \in Signals
         /\ [name |-> "personalMessage", who |-> c] \in Signals
         /\ Connected \in Signals
<1>1. Captured(NoGroup) = NoGroup
  BY DEF Captured
<1>2. NewContact(c, NoGroup) \in Signals /\ NewContact(c, Captured(g)) \in Signals
  BY <1>1 DEF Signals, NewContact
<1>3. [name |-> "newGroupArrived", group |-> g] \in Signals
  BY DEF Signals
<1>4. StatusOf(c, "on") \in Signals /\ StatusOf(c, "off") \in Signals
  BY DEF Signals, StatusOf
<1>5. [name |-> "personalMessage", who |-> c] \in Signals /\ Connected \in Signals
  BY DEF Signals, Connected
<1> QED
  BY <1>2, <1>3, <1>4, <1>5

\* Nothing was emitted.
LEMMA SameSignals ==
  ASSUME Types, UNCHANGED signals
  PROVE  OnlyMore
<1>1. signals \in Seq(Signals) /\ Len(signals) \in Nat
  BY LenProperties DEF Types, ParserTypes
<1> QED
  BY <1>1 DEF OnlyMore, Longer

\* A signal comes behind the others.
LEMMA EmittedOne ==
  ASSUME Types, NEW s \in Signals, Emit(s)
  PROVE  /\ Longer /\ Len(signals) \in Nat /\ Len(signals') = Len(signals) + 1
         /\ signals'[Len(signals) + 1] = s
         /\ DOMAIN signals' = 1 .. Len(signals) + 1
         /\ s.name # "connected" => OnlyMore
<1>1. signals \in Seq(Signals) /\ signals' = Append(signals, s)
  BY DEF Types, ParserTypes, Emit
<1>2. /\ signals' \in Seq(Signals) /\ Len(signals) \in Nat /\ Len(signals') = Len(signals) + 1
      /\ \A i \in 1 .. Len(signals) : signals'[i] = signals[i]
      /\ signals'[Len(signals) + 1] = s
      /\ DOMAIN signals' = 1 .. Len(signals) + 1
  BY <1>1, Appended
<1>3. Longer
  BY <1>2 DEF Longer
<1>4. ASSUME NEW i \in Len(signals) + 1 .. Len(signals') PROVE signals'[i] = s
  <2>1. i = Len(signals) + 1
    BY <1>2
  <2> QED
    BY <1>2, <2>1
<1> QED
  BY <1>2, <1>3, <1>4 DEF OnlyMore

\* Two signals do.
LEMMA EmittedTwo ==
  ASSUME Types, NEW s \in Signals, NEW r \in Signals, signals' = signals \o <<s, r>>
  PROVE  /\ Longer /\ Len(signals) \in Nat /\ Len(signals') = Len(signals) + 2
         /\ signals'[Len(signals) + 1] = s /\ signals'[Len(signals) + 2] = r
         /\ DOMAIN signals' = 1 .. Len(signals) + 2
         /\ s.name # "connected" /\ r.name # "connected" => OnlyMore
<1>1. signals \in Seq(Signals)
  BY DEF Types, ParserTypes
<1>2. PICK q : q = <<s, r>>
  OBVIOUS
<1>3. q \in Seq(Signals) /\ Len(q) = 2 /\ q[1] = s /\ q[2] = r
  BY <1>2
<1>4. /\ signals' \in Seq(Signals) /\ Len(signals) \in Nat /\ Len(signals') = Len(signals) + Len(q)
      /\ DOMAIN signals' = 1 .. Len(signals) + Len(q)
      /\ \A i \in 1 .. Len(signals) : signals'[i] = signals[i]
      /\ \A i \in 1 .. Len(q) : signals'[Len(signals) + i] = q[i]
  BY <1>1, <1>2, <1>3, Joined
<1>5. /\ Len(signals') = Len(signals) + 2
      /\ DOMAIN signals' = 1 .. Len(signals) + 2
      /\ signals'[Len(signals) + 1] = s /\ signals'[Len(signals) + 2] = r
  BY <1>3, <1>4
<1>6. Longer
  BY <1>4, <1>5 DEF Longer
<1>7. ASSUME NEW i \in Len(signals) + 1 .. Len(signals') PROVE signals'[i] \in {s, r}
  <2>1. i = Len(signals) + 1 \/ i = Len(signals) + 2
    BY <1>4, <1>5
  <2> QED
    BY <1>5, <2>1
<1> QED
  BY <1>4, <1>5, <1>6, <1>7 DEF OnlyMore

\* More signals announce nothing new, and refuse nothing when others came first.
LEMMA StillSo ==
  ASSUME Types, Longer
  PROVE  /\ Announced => Announced'
         /\ Refused => Refused'
         /\ OnlyMore /\ ~Announced => ~Announced'
         /\ Len(signals) > 0 /\ ~Refused => ~Refused'
<1>1. /\ Len(signals) \in Nat /\ Len(signals') \in Nat /\ Ready \in Nat
      /\ Len(signals') >= Len(signals)
      /\ \A i \in 1 .. Len(signals) : signals'[i] = signals[i]
  BY LenProperties, ListSize DEF Types, ParserTypes, Longer
<1>2. Announced => Announced'
  BY <1>1 DEF Announced
<1>3. Len(signals) > 0 => (Refused <=> Refused')
  BY <1>1 DEF Refused
<1>4. ASSUME OnlyMore, Announced' PROVE Announced
  <2>1. Len(signals') > Ready /\ signals'[Ready + 1].name = "connected"
    BY <1>4 DEF Announced
  <2>2. ~(Ready + 1 \in Len(signals) + 1 .. Len(signals'))
    BY <1>4, <2>1 DEF OnlyMore
  <2> QED
    BY <1>1, <2>1, <2>2 DEF Announced
<1> QED
  BY <1>1, <1>2, <1>3, <1>4 DEF Refused

-----------------------------------------------------------------------------
(* What the steps of the handlers have in common *)

\* A handler that takes its command leaves m_buf at the next one.
LEMMA TakeNext ==
  ASSUME ParserInv, NEW k, Handles(k), k # "NOT", Complete,
         gone' = EndOf(gone.nr + 1), handled' = Append(handled, FrontCmd),
         sent' = sent, got' = got, hasCommand' = hasCommand, parsing' = parsing
  PROVE  /\ gone' \in Positions /\ gone'.nr = gone.nr + 1 /\ gone'.part = 0
         /\ handled' \in Seq(Command)
         /\ WholeCommands' /\ (~Before(got, gone))'
         /\ InPlace' /\ InText' /\ AllTaken'
<1>1. /\ Running /\ FrontCmd.kind = k /\ parsing /\ hasCommand
      /\ gone.part = 0 /\ gone.nr \in Nat /\ gone.nr + 1 \in DOMAIN sent /\ gone = EndOf(gone.nr)
      /\ DOMAIN sent = 1 .. Len(sent) /\ Len(sent) \in Nat
      /\ got.nr \in Nat /\ got.nr <= Len(sent)
      /\ FrontCmd = sent[gone.nr + 1] /\ FrontCmd \in Command
  BY AtFront
<1>2. Types /\ WholeCommands
  BY DEF ParserInv
<1>3. handled \in Seq(Command) /\ sent \in Seq(Command) /\ got \in Positions
  BY <1>2 DEF Types, ParserTypes, ServerTypes
<1>4. gone' \in Positions /\ gone'.nr = gone.nr + 1 /\ gone'.part = 0
  BY <1>1 DEF EndOf, Positions
<1>5. /\ handled' \in Seq(Command) /\ Len(handled) \in Nat /\ DOMAIN handled = 1 .. Len(handled)
      /\ Len(handled') = Len(handled) + 1 /\ DOMAIN handled' = 1 .. Len(handled) + 1
      /\ \A i \in 1 .. Len(handled) : handled'[i] = handled[i]
      /\ handled'[Len(handled) + 1] = FrontCmd
  BY <1>1, <1>3, Appended
<1>6. ASSUME NoDisplayName' PROVE (IsPrefix(handled, sent) /\ gone = HandledEnd)'
  <2>1. NoDisplayName
    BY <1>5, <1>6 DEF NoDisplayName
  <2>2. IsPrefix(handled, sent) /\ gone = HandledEnd
    BY <1>2, <2>1 DEF WholeCommands
  <2>3. gone.nr = Len(handled)
    <3>1. CASE handled # <<>> /\ Last(handled).kind = "NOT"
      <4>1. gone.part = 4
        BY <2>2, <3>1 DEF HandledEnd
      <4> QED
        BY <1>1, <4>1
    <3>2. CASE ~(handled # <<>> /\ Last(handled).kind = "NOT")
      BY <2>2, <3>2 DEF HandledEnd, EndOf
    <3> QED
      BY <3>1, <3>2
  <2>4. IsPrefix(handled, sent)'
    <3>1. Len(handled) < Len(sent) /\ handled' = Append(handled, sent[Len(handled) + 1])
      BY <1>1, <2>3
    <3> QED
      BY <1>3, <2>2, <3>1, PrefixNext
  <2>5. Last(handled').kind # "NOT" /\ Len(handled') = gone.nr + 1
    BY <1>1, <1>5, <2>3 DEF Last
  <2>6. HandledEnd' = EndOf(Len(handled'))
    BY <2>5 DEF HandledEnd, EndOf
  <2> QED
    BY <2>4, <2>5, <2>6
<1>7. WholeCommands'
  BY <1>6 DEF WholeCommands
<1>8. got.part \in 0 .. 4 /\ got.nr >= gone.nr + 1
  BY <1>1, <1>3 DEF Positions, Complete
<1>9. (~Before(got, gone))'
  BY <1>1, <1>4, <1>8 DEF Before
<1>10. InPlace' /\ InText'
  <2>1. InPlace /\ InText
    BY <1>1 DEF Running
  <2>2. InPlace'
    BY <2>1 DEF InPlace
  <2>3. Position(got)' /\ (got.nr <= Len(sent))'
    BY <2>1 DEF InText, Position
  <2> QED
    BY <1>1, <1>4, <1>9, <2>2, <2>3 DEF InText
<1>11. AllTaken'
  BY <1>1 DEF AllTaken
<1> QED
  BY <1>4, <1>5, <1>7, <1>9, <1>10, <1>11

\* What asking does to the server.
LEMMA Asked ==
  ASSUME Types, NEW r, r \in RequestNames \union LateRequests, Ask(r)
  PROVE  /\ ServerTypes' /\ got' = got /\ sent' = sent /\ online' = online
         /\ redirects' = redirects /\ link' = link
         /\ Len(asked) \in Nat /\ DOMAIN asked = 1 .. Len(asked) /\ DOMAIN asked' = 1 .. Len(asked')
         /\ \/ asked' = asked
            \/ /\ Len(asked') = Len(asked) + 1
               /\ asked'[Len(asked) + 1].cmd = r
               /\ \A i \in 1 .. Len(asked) : asked'[i] = asked[i]
<1>1. Asks(r) \in Requests /\ Asks(r).cmd = r
  BY DEF Asks, Requests
<1>2. asked \in Seq(Requests) /\ ServerTypes
  BY DEF Types, ServerTypes
<1>3. UNCHANGED <<sent, link, online, redirects, got>>
      /\ asked' = IF link = "up" THEN Append(asked, Asks(r)) ELSE asked
  BY DEF Ask
<1>4. CASE link = "up"
  <2>1. asked' = Append(asked, Asks(r))
    BY <1>3, <1>4
  <2>2. /\ asked' \in Seq(Requests) /\ Len(asked) \in Nat /\ DOMAIN asked = 1 .. Len(asked)
        /\ Len(asked') = Len(asked) + 1 /\ DOMAIN asked' = 1 .. Len(asked) + 1
        /\ \A i \in 1 .. Len(asked) : asked'[i] = asked[i]
        /\ asked'[Len(asked) + 1] = Asks(r)
    BY <1>1, <1>2, <2>1, Appended
  <2> QED
    BY <1>1, <1>2, <1>3, <2>2 DEF ServerTypes
<1>5. CASE link # "up"
  <2>1. asked' = asked
    BY <1>3, <1>5
  <2> QED
    BY <1>2, <1>3, <2>1, LenProperties DEF ServerTypes
<1> QED
  BY <1>4, <1>5

\* The next request of the log-in.
LEMMA NextStep ==
  ASSUME Types, Steps, NEW x \in StepNames, requests' = Append(requests, x), redirects' = redirects,
         Len(requests) < 3 * redirects + 6, Step(Len(requests) + 1, x)
  PROVE  Steps' /\ requests' \in Seq(StepNames) /\ Len(requests') = Len(requests) + 1
<1>1. requests \in Seq(StepNames)
  BY DEF Types, ParserTypes
<1>2. /\ requests' \in Seq(StepNames) /\ Len(requests) \in Nat /\ DOMAIN requests = 1 .. Len(requests)
      /\ Len(requests') = Len(requests) + 1 /\ DOMAIN requests' = 1 .. Len(requests) + 1
      /\ \A i \in 1 .. Len(requests) : requests'[i] = requests[i]
      /\ requests'[Len(requests) + 1] = x
  BY <1>1, Appended
<1>3. ASSUME NEW i \in DOMAIN requests' PROVE Step(i, requests[i])'
  <2>1. CASE i \in DOMAIN requests
    <3>1. Step(i, requests[i]) /\ requests'[i] = requests[i]
      BY <1>2, <2>1 DEF Steps
    <3> QED
      BY <3>1 DEF Step
  <2>2. CASE i = Len(requests) + 1
    <3>1. requests'[i] = x
      BY <1>2, <2>2
    <3> QED
      BY <2>2, <3>1 DEF Step
  <2>3. i \in DOMAIN requests \/ i = Len(requests) + 1
    BY <1>2
  <2> QED
    BY <2>1, <2>2, <2>3, Zenon
<1>4. Len(requests') <= 3 * redirects' + 6
  <2>1. redirects \in Nat
    BY DEF Types, ServerTypes
  <2> QED
    BY <1>2, <2>1
<1> QED
  BY <1>2, <1>3, <1>4 DEF Steps

-----------------------------------------------------------------------------
-----------------------------------------------------------------------------
(* Before the connection is announced *)

\* The kind of the command at the front tells whether the connection was announced: before, no
\* request is left unanswered while a command waits for its handler.
LEMMA Phase ==
  ASSUME ParserInv, NEW k, Handles(k)
  PROVE  /\ k \in {"VER", "CVR", "GCF", "TWN", "XFR", "USR", "SYN", "GTC", "BLP", "PRP", "LSG",
                   "LST"} => ~Announced
         /\ k = "MSG" /\ FrontCmd.who = "nobody" => ~Announced
         /\ k \in LateKinds \ {"ERR", "MSG"} => Announced
         /\ ~Announced => Early /\ asked = <<>> /\ gone.nr + 1 <= ListEnd
         /\ Announced => LoggedIn /\ gone.nr + 1 >= ListEnd
         /\ ~Refused
<1>1. /\ Running /\ FrontCmd.kind = k /\ gone.nr \in Nat /\ gone.nr + 1 <= Len(sent)
      /\ Expected(gone.nr + 1, FrontCmd) /\ Len(sent) \in Nat
  BY AtFront
<1>2. /\ NumGroups \in Nat /\ NumContacts \in Nat /\ ListEnd \in Nat
      /\ ListEnd = 9 + NumGroups + 2 * NumContacts
  BY ListSize
<1>3. InTurn /\ asked \in Seq(Requests)
  BY <1>1 DEF ParserInv, Running, Types, ServerTypes
<1>4. ASSUME ~Announced PROVE Early /\ asked = <<>> /\ gone.nr + 1 <= ListEnd /\ ~Refused
  <2>1. Early /\ (Refused => Silent)
    BY <1>3, <1>4 DEF InTurn
  <2>2. gone.nr + 1 <= ListEnd
    <3>1. gone.nr \in Nat /\ gone.nr + 1 <= Len(sent) /\ Len(sent) \in Nat
      BY <1>1
    <3>2. ListEnd \in Nat /\ ListEnd >= 9
      BY ListSize
    <3>3. CASE gone.nr < 5
      BY <3>1, <3>2, <3>3
    <3>4. CASE ~(gone.nr < 5)
      <4>1. Len(sent) = 5 \/ Len(sent) = ListEnd
        BY <2>1, <3>1, <3>4 DEF Early
      <4>2. CASE Len(sent) = 5
        BY <3>1, <3>2, <4>2
      <4>3. CASE Len(sent) = ListEnd
        BY <3>1, <4>3
      <4> QED
        BY <4>1, <4>2, <4>3
    <3> QED
      BY <3>3, <3>4
  <2>3. ~Unanswered /\ ~Silent
    <3>1. ASSUME Unanswered PROVE Len(sent) = gone.nr
      BY <3>1, Zenon DEF Unanswered
    <3>2. ASSUME Silent PROVE Len(sent) = gone.nr
      BY <3>2 DEF Silent
    <3>3. Len(sent) # gone.nr
      BY <1>1
    <3> QED
      BY <3>1, <3>2, <3>3
  <2> QED
    BY <2>1, <2>2, <2>3 DEF Early
<1>5. ASSUME Announced
      PROVE  LoggedIn /\ gone.nr + 1 >= ListEnd /\ ListEnd >= 11 + NumGroups /\ ~Refused
  <2>1. LoggedIn
    BY <1>3, <1>5 DEF InTurn
  <2>2. ~Refused
    <3>1. signals \in Seq(Signals) /\ Ready \in Nat
      BY ListSize DEF ParserInv, Types, ParserTypes
    <3>2. Ready + 1 \in DOMAIN signals
      BY <1>5, <3>1, LenProperties DEF Announced
    <3> QED
      BY <1>5, <3>2 DEF ParserInv, Reported, Announced
  <2> QED
    BY <1>1, <1>2, <2>1, <2>2 DEF LoggedIn
<1>6. ASSUME k \in {"VER", "CVR", "GCF", "TWN", "XFR", "USR", "SYN", "GTC", "BLP", "PRP"}
             \/ (k = "MSG" /\ FrontCmd.who = "nobody")
      PROVE  ~Announced
  <2>1. gone.nr + 1 <= 9
    BY <1>1, <1>6, Place
  <2> QED
    BY <1>1, <1>2, <1>5, <2>1
<1>7. ASSUME k = "LSG" PROVE ~Announced
  <2>1. gone.nr + 1 - 9 \in 1 .. NumGroups
    BY <1>1, <1>7, Place
  <2> QED
    BY <1>1, <1>2, <1>5, <2>1
<1>8. ASSUME k = "LST" PROVE ~Announced
  <2>1. PICK j \in 1 .. NumContacts : gone.nr + 1 = 8 + NumGroups + 2 * j
    BY <1>1, <1>8, Place
  <2> QED
    BY <1>1, <1>2, <1>5, <2>1
<1>9. ASSUME k \in LateKinds \ {"ERR", "MSG"} PROVE Announced
  <2>1. gone.nr + 1 > ListEnd
    BY <1>1, <1>9, Place
  <2> QED
    BY <1>1, <1>2, <1>4, <2>1
<1> QED
  BY <1>4, <1>5, <1>6, <1>7, <1>8, <1>9

\* Each handler of the log-in asks for the step that follows those asked for so far.
LEMMA LogInSteps ==
  ASSUME ParserInv, loop = "running", ~Announced, ~Refused
  PROVE  /\ gone.nr = 0 => Step(Len(requests) + 1, "CVR")
         /\ gone.nr = 1 => Step(Len(requests) + 1, "USR I")
         /\ gone.nr = 2 => Step(Len(requests) + 1, "USR S") /\ Step(Len(requests) + 1, "USR S empty")
         /\ gone.nr = 4 => Step(Len(requests) + 1, "SYN")
<1>1. Len(requests) = 3 * redirects + Stage /\ redirects \in Nat
  BY DEF ParserInv, Running, InStep, Types, ServerTypes
<1>2. Stage = IF gone.nr < 3 THEN gone.nr + 1 ELSE IF gone.nr < 5 THEN 4 ELSE 5
  BY DEF Stage
<1>3. ASSUME NEW n \in Nat, n <= 3 * redirects + 3, NEW r, r = Prelude[((n - 1) % 3) + 1]
      PROVE  Step(n, r)
  <2>1. /\ n # 3 * redirects + 4 /\ n # 3 * redirects + 5 /\ n # 3 * redirects + 6
    BY <1>1, <1>3
  <2> QED
    BY <1>3, <2>1, Zenon DEF Step
<1>4. ASSUME gone.nr = 0
      PROVE  Step(Len(requests) + 1, "CVR")
  <2>1. PICK n \in Nat : n = 3 * redirects + 2
    BY <1>1
  <2>2. Len(requests) + 1 = n /\ n <= 3 * redirects + 3
    BY <1>1, <1>2, <1>4, <2>1
  <2>3. PICK m : m = ((n - 1) % 3) + 1
    OBVIOUS
  <2>4. m = 2
    BY <1>1, <2>1, <2>3
  <2>5. Prelude[m] = "CVR"
    BY <2>4 DEF Prelude
  <2>6. Step(n, "CVR")
    BY <1>3, <2>2, <2>3, <2>5, Zenon
  <2> QED
    BY <2>2, <2>6, Zenon
<1>5. ASSUME gone.nr = 1
      PROVE  Step(Len(requests) + 1, "USR I")
  <2>1. PICK n \in Nat : n = 3 * redirects + 3
    BY <1>1
  <2>2. Len(requests) + 1 = n /\ n <= 3 * redirects + 3
    BY <1>1, <1>2, <1>5, <2>1
  <2>3. PICK m : m = ((n - 1) % 3) + 1
    OBVIOUS
  <2>4. m = 3
    BY <1>1, <2>1, <2>3
  <2>5. Prelude[m] = "USR I"
    BY <2>4 DEF Prelude
  <2>6. Step(n, "USR I")
    BY <1>3, <2>2, <2>3, <2>5, Zenon
  <2> QED
    BY <2>2, <2>6, Zenon
<1>6. ASSUME gone.nr = 2
      PROVE  Step(Len(requests) + 1, "USR S") /\ Step(Len(requests) + 1, "USR S empty")
  <2>1. PICK n \in Nat : n = 3 * redirects + 4
    BY <1>1
  <2>2. Len(requests) + 1 = n
    BY <1>1, <1>2, <1>6, <2>1
  <2>3. /\ ~(n <= 3 * (redirects + 1)) /\ n # 3 * redirects + 6
        /\ n # 3 * redirects + 5
    BY <1>1, <2>1
  <2>4. Step(n, "USR S") /\ Step(n, "USR S empty")
    BY <2>3, Zenon DEF Step
  <2> QED
    BY <2>2, <2>4, Zenon
<1>7. ASSUME gone.nr = 4
      PROVE  Step(Len(requests) + 1, "SYN")
  <2>1. PICK n \in Nat : n = 3 * redirects + 5
    BY <1>1
  <2>2. Len(requests) + 1 = n
    BY <1>1, <1>2, <1>7, <2>1
  <2>3. /\ ~(n <= 3 * (redirects + 1)) /\ n # 3 * redirects + 6
        /\ n # 3 * redirects + 4
    BY <1>1, <2>1
  <2>4. Step(n, "SYN")
    BY <2>3, Zenon DEF Step
  <2> QED
    BY <2>2, <2>4, Zenon
<1> QED
  BY <1>4, <1>5, <1>6, <1>7, Zenon

\* What is asked during the log-in.
LEMMA Asking ==
  ASSUME NEW n, NEW r, AskedAfter(n, r)
  PROVE  r \in RequestNames
BY DEF AskedAfter, RequestNames

\* The handlers that ask for the next step of the log-in run when all before was answered.
LEMMA AskNext ==
  ASSUME ParserInv, NEW k, Handles(k), k # "NOT", Complete,
         gone' = EndOf(gone.nr + 1), handled' = Append(handled, FrontCmd),
         ~Announced, gone.nr <= 4, gone.nr # 3,
         NEW r \in StepNames, Send(r), Step(Len(requests) + 1, r), AskedAfter(gone.nr + 1, r),
         UNCHANGED <<hasCommand, parsing, toCome, signals>>
  PROVE  Kept
<1>1. /\ Running /\ gone.nr \in Nat /\ gone.nr + 1 <= Len(sent) /\ Len(sent) \in Nat
  BY AtFront
<1>2. Early /\ asked = <<>> /\ ~Refused
  BY Phase
<1>3. Types /\ Steps /\ Reported
  BY DEF ParserInv
<1>4. r \in RequestNames
  BY Asking
<1>5. Ask(r) /\ requests' = Append(requests, r) /\ loop' \in {loop, "undefined"}
  BY DEF Send, UseSocket
<1>6. /\ ServerTypes' /\ got' = got /\ sent' = sent /\ online' = online /\ redirects' = redirects
      /\ DOMAIN asked' = 1 .. Len(asked')
      /\ \/ asked' = asked
         \/ /\ Len(asked') = Len(asked) + 1
            /\ asked'[Len(asked) + 1].cmd = r
  BY <1>3, <1>4, <1>5, Asked
<1>7. /\ gone' \in Positions /\ gone'.nr = gone.nr + 1
      /\ handled' \in Seq(Command)
      /\ WholeCommands' /\ (~Before(got, gone))'
      /\ InPlace' /\ InText' /\ AllTaken'
  BY <1>6, TakeNext
<1>8. Stage = IF gone.nr < 3 THEN gone.nr + 1 ELSE 4
  BY <1>1, <1>2 DEF Stage
<1>9. Len(requests) = 3 * redirects + Stage /\ redirects \in Nat
  BY <1>1, <1>3 DEF Running, InStep, Types, ServerTypes
<1>10. Len(requests) < 3 * redirects + 6
  BY <1>1, <1>8, <1>9
<1>11. Steps' /\ requests' \in Seq(StepNames) /\ Len(requests') = Len(requests) + 1
  BY <1>3, <1>4, <1>5, <1>6, <1>10, NextStep
<1>12. ~Announced' /\ ~Refused'
  BY <1>2 DEF Announced, Refused
<1>13. Types'
  BY <1>3, <1>5, <1>6, <1>7, <1>11 DEF Types, ServerTypes, ParserTypes
<1>14. gone.nr \in {0, 1, 2, 4} /\ gone'.nr \in {1, 2, 3, 5}
  BY <1>1, <1>7
<1>15. InStep'
  <2>1. Stage' = Stage + 1
    BY <1>7, <1>8, <1>12, <1>14 DEF Stage
  <2>2. redirects' = redirects /\ Len(requests') = Len(requests) + 1
    BY <1>6, <1>11
  <2>3. Stage \in Nat
    BY <1>1, <1>8
  <2> QED
    BY <1>9, <2>1, <2>2, <2>3 DEF InStep
<1>16. InTurn'
  <2>1. /\ NumContacts \in Nat /\ ListEnd \in Nat
        /\ NumContacts > 0 => ListEnd >= 11
    BY ListSize
  <2>2. Len(sent) = gone.nr + 1
    BY <1>1, <1>2, <1>14 DEF Early
  <2>3. asked' = <<>> \/ (Len(asked') = 1 /\ asked'[1].cmd = r)
    <3>1. Len(asked) = 0
      BY <1>2
    <3> QED
      BY <1>2, <1>6, <3>1
  <2>4. asked' = <<>> \/ Unanswered'
    <3>1. CASE asked' = <<>>
      BY <3>1
    <3>2. CASE Len(asked') = 1 /\ asked'[1].cmd = r
      <4>1. Unanswered'
        BY <1>6, <1>7, <2>2, <3>2, Zenon DEF Unanswered
      <4> QED
        BY <4>1
    <3> QED
      BY <2>3, <3>1, <3>2
  <2>5. ~online' /\ sent' = sent
    BY <1>2, <1>6 DEF Early
  <2>6. /\ gone'.nr < 3 => Len(sent') <= gone'.nr + 1
        /\ gone'.nr \in {3, 4} => Len(sent') <= 5
        /\ gone'.nr >= 5 => Len(sent') \in {5, ListEnd}
        /\ NumContacts > 0 => gone'.nr < ListEnd - 1
    <3>1. Len(sent') = gone'.nr
      BY <1>7, <2>2, <2>5
    <3>2. gone'.nr = 1 \/ gone'.nr = 2 \/ gone'.nr = 3 \/ gone'.nr = 5
      BY <1>14
    <3>3. CASE gone'.nr = 5
      BY <2>1, <3>1, <3>3
    <3> QED
      BY <2>1, <3>1, <3>2, <3>3
  <2>7. Early'
    BY <2>4, <2>5, <2>6 DEF Early
  <2> QED
    BY <1>12, <2>7 DEF InTurn
<1>17. SignalsSoFar' /\ Reported'
  <2>1. SignalsSoFar /\ Reported /\ NumGroups \in Nat
    BY <1>1, ListSize DEF ParserInv, Running
  <2>2. Len(signals) = 0
    BY <1>2, <1>14, <2>1 DEF SignalsSoFar
  <2>3. SignalsSoFar'
    BY <1>7, <1>14, <2>1, <2>2 DEF SignalsSoFar
  <2>4. Reported'
    BY <1>2, <1>12, <2>1 DEF Reported
  <2> QED
    BY <2>3, <2>4
<1>18. Longer
  BY <1>3, SameSignals DEF OnlyMore
<1> QED
  BY <1>7, <1>11, <1>13, <1>15, <1>16, <1>17, <1>18 DEF ParserInv, Running, Kept

\* Where the handlers of the log-in are.
LEMMA FrontPlace ==
  ASSUME ParserInv, NEW k, Handles(k)
  PROVE  /\ k = "VER" => gone.nr = 0
         /\ k = "CVR" => gone.nr = 1
         /\ k \in {"GCF", "TWN", "XFR"} => gone.nr = 2
         /\ k = "MSG" /\ FrontCmd.who = "nobody" => gone.nr = 4
         /\ k = "MSG" /\ ~Announced => FrontCmd.who = "nobody"
<1>1. PICK n : n = gone.nr + 1
  OBVIOUS
<1>2. /\ n \in Nat \ {0} /\ Expected(n, FrontCmd) /\ FrontCmd.kind = k /\ gone.nr = n - 1
      /\ ListEnd \in Nat
  BY <1>1, AtFront, ListSize
<1>3. k = "MSG" /\ ~Announced => n = 5
  <2>1. ~Announced => n <= ListEnd
    BY <1>1, Phase
  <2>2. k = "MSG" => n = 5 \/ n > ListEnd
    BY <1>2, Place
  <2> QED
    BY <1>2, <2>1, <2>2
<1>4. n = 5 => FrontCmd.who = "nobody"
  BY <1>2 DEF Expected
<1>5. /\ k = "VER" => n = 1
      /\ k = "CVR" => n = 2
      /\ k \in {"GCF", "TWN", "XFR"} => n = 3
      /\ k = "MSG" /\ FrontCmd.who = "nobody" => n = 5
  BY <1>2, Place
<1> QED
  BY <1>2, <1>3, <1>4, <1>5

\* The handlers of the lines that ask for nothing, from the end of the authentication to the lines of
\* the list.
LEMMA NextLine ==
  ASSUME ParserInv, NEW k \in {"USR", "ERR", "SYN", "GTC", "BLP", "PRP", "LSG", "BPR"}, Handles(k),
         Complete, gone' = EndOf(gone.nr + 1), handled' = Append(handled, FrontCmd),
         ~Announced, SendNothing, UNCHANGED <<hasCommand, parsing>>,
         k # "LSG" => signals' = signals,
         k = "LSG" => Emit([name |-> "newGroupArrived", group |-> FrontCmd.group]),
         toCome' = IF k = "SYN" THEN NumContacts ELSE toCome
  PROVE  Kept
<1>1. /\ Running /\ gone.nr \in Nat /\ gone.nr + 1 <= Len(sent) /\ Len(sent) \in Nat
      /\ Expected(gone.nr + 1, FrontCmd) /\ FrontCmd.kind = k /\ FrontCmd \in Command
  BY AtFront
<1>2. Early /\ asked = <<>> /\ gone.nr + 1 <= ListEnd /\ ~Refused
  BY Phase
<1>3. Types /\ Steps /\ Reported /\ SignalsSoFar
  BY <1>1 DEF ParserInv, Running
<1>4. UNCHANGED <<sent, asked, link, online, redirects, got, requests, loop>>
  BY DEF SendNothing, server
<1>5. /\ gone' \in Positions /\ gone'.nr = gone.nr + 1
      /\ handled' \in Seq(Command)
      /\ WholeCommands' /\ (~Before(got, gone))'
      /\ InPlace' /\ InText' /\ AllTaken'
  BY <1>4, TakeNext
<1>6. /\ NumGroups \in Nat /\ NumContacts \in Nat /\ ListEnd \in Nat
      /\ ListEnd = 9 + NumGroups + 2 * NumContacts
      /\ Ready \in Nat /\ Ready = NumGroups + NumContacts
  BY ListSize
<1> DEFINE At == \/ gone'.nr = 4 /\ k \in {"USR", "ERR"}
                 \/ gone'.nr = 6 /\ k = "SYN"
                 \/ gone'.nr \in {7, 8, 9} /\ k \in {"GTC", "BLP", "PRP"}
                 \/ gone'.nr - 9 \in 1 .. NumGroups /\ k = "LSG"
                    /\ FrontCmd.group = GroupList[gone'.nr - 9]
                 \/ k = "BPR" /\ \E j \in 1 .. NumContacts : gone'.nr = 9 + NumGroups + 2 * j
<1>7. At
  <2>1. PICK n : n = gone.nr + 1
    OBVIOUS
  <2>2. /\ n \in Nat \ {0} /\ Expected(n, FrontCmd) /\ gone'.nr = n /\ n <= ListEnd
        /\ FrontCmd.kind = k
    BY <1>1, <1>2, <1>5, <2>1
  <2>3. CASE k \in {"USR", "ERR"}
    <3>1. n = 4
      BY <1>6, <2>2, <2>3, Place
    <3> QED
      BY <2>2, <2>3, <3>1
  <2>4. CASE k = "SYN"
    BY <2>2, <2>4, Place
  <2>5. CASE k \in {"GTC", "BLP", "PRP"}
    <3>1. n \in {7, 8, 9}
      BY <2>2, <2>5, Place
    <3> QED
      BY <2>2, <2>5, <3>1
  <2>6. CASE k = "LSG"
    <3>1. n - 9 \in 1 .. NumGroups /\ FrontCmd.group = GroupList[n - 9]
      BY <2>2, <2>6, Place
    <3> QED
      BY <2>2, <2>6, <3>1
  <2>7. CASE k = "BPR"
    <3>1. \E j \in 1 .. NumContacts : n = 9 + NumGroups + 2 * j
      BY <2>2, <2>7, Place
    <3> QED
      BY <2>2, <2>7, <3>1
  <2> QED
    BY <2>3, <2>4, <2>5, <2>6, <2>7
<1> HIDE DEF At
<1>8. /\ gone'.nr = 4 \/ gone'.nr >= 6
      /\ gone'.nr = 6 <=> k = "SYN"
      /\ gone'.nr <= 9 + NumGroups \/ \E j \in 1 .. NumContacts : gone'.nr = 9 + NumGroups + 2 * j
  <2>1. gone'.nr \in Nat
    BY <1>1, <1>5
  <2>2. CASE gone'.nr = 4 /\ k \in {"USR", "ERR"}
    BY <1>6, <2>2
  <2>3. CASE gone'.nr = 6 /\ k = "SYN"
    BY <1>6, <2>3
  <2>4. CASE gone'.nr \in {7, 8, 9} /\ k \in {"GTC", "BLP", "PRP"}
    BY <1>6, <2>4
  <2>5. CASE gone'.nr - 9 \in 1 .. NumGroups /\ k = "LSG" /\ FrontCmd.group = GroupList[gone'.nr - 9]
    BY <1>6, <2>1, <2>5
  <2>6. CASE k = "BPR" /\ \E j \in 1 .. NumContacts : gone'.nr = 9 + NumGroups + 2 * j
    BY <1>6, <2>1, <2>6
  <2> QED
    BY <1>7, <2>2, <2>3, <2>4, <2>5, <2>6 DEF At
<1>9. Longer /\ ~Announced' /\ ~Refused'
  <2>1. CASE k # "LSG"
    <3>1. Longer
      BY <1>3, <2>1, SameSignals DEF OnlyMore
    <3> QED
      BY <1>2, <2>1, <3>1 DEF Announced, Refused
  <2>2. CASE k = "LSG"
    <3>1. PICK s : s = [name |-> "newGroupArrived", group |-> FrontCmd.group]
      OBVIOUS
    <3>2. s \in Signals /\ s.name = "newGroupArrived" /\ Emit(s)
      BY <1>1, <2>2, <3>1 DEF Signals, Command
    <3>3. /\ Longer /\ OnlyMore /\ Len(signals) \in Nat
          /\ signals'[Len(signals) + 1].name = "newGroupArrived"
      BY <1>3, <3>2, EmittedOne
    <3>4. ~Announced' /\ (Len(signals) > 0 => ~Refused')
      BY <1>2, <1>3, <3>3, StillSo
    <3>5. Len(signals) = 0 => ~Refused'
      BY <3>3 DEF Refused
    <3> QED
      BY <3>3, <3>4, <3>5
  <2> QED
    BY <2>1, <2>2
<1>10. Types' /\ Steps'
  <2>1. toCome' \in Int
    BY <1>3, <1>6 DEF Types, ParserTypes
  <2>2. signals' \in Seq(Signals)
    BY <1>9 DEF Longer
  <2> QED
    BY <1>3, <1>4, <1>5, <2>1, <2>2 DEF Types, ServerTypes, ParserTypes, Steps, Step
<1>11. ~Announced' /\ ~Refused'
  BY <1>9
<1>12. InStep'
  <2>1. Stage' = Stage
    BY <1>1, <1>2, <1>5, <1>8, <1>9 DEF Stage
  <2> QED
    BY <1>1, <1>4, <2>1 DEF Running, InStep
<1>13. InTurn'
  <2>1. gone'.nr = 4 => Len(sent) <= 5
    <3>1. gone'.nr = 4 => gone.nr \in {3, 4}
      BY <1>1, <1>5
    <3> QED
      BY <1>2, <3>1 DEF Early
  <2>2. gone'.nr >= 6 => Len(sent) = 5 \/ Len(sent) = ListEnd
    <3>1. gone'.nr >= 6 => gone.nr >= 5
      BY <1>1, <1>5
    <3> QED
      BY <1>2, <3>1 DEF Early
  <2>3. NumContacts > 0 => gone'.nr < ListEnd - 1
    <3>1. ASSUME NumContacts > 0 PROVE gone'.nr <= ListEnd - 1
      BY <1>1, <1>2, <1>5, <1>6, <3>1 DEF Early
    <3>2. CASE gone'.nr <= 9 + NumGroups
      BY <1>1, <1>5, <1>6, <3>2
    <3>3. CASE \E j \in 1 .. NumContacts : gone'.nr = 9 + NumGroups + 2 * j
      BY <1>1, <1>5, <1>6, <3>1, <3>3
    <3> QED
      BY <1>8, <3>2, <3>3
  <2>4. ~online' /\ asked' = <<>> /\ sent' = sent
    BY <1>2, <1>4 DEF Early
  <2>5. /\ gone'.nr < 3 => Len(sent') <= gone'.nr + 1
        /\ gone'.nr \in {3, 4} => Len(sent') <= 5
        /\ gone'.nr >= 5 => Len(sent') \in {5, ListEnd}
    <3>1. CASE gone'.nr = 4
      BY <2>1, <2>4, <3>1
    <3>2. CASE gone'.nr >= 6
      BY <1>1, <1>5, <2>2, <2>4, <3>2
    <3> QED
      BY <1>8, <3>1, <3>2
  <2>6. Early'
    BY <2>3, <2>4, <2>5 DEF Early
  <2> QED
    BY <1>11, <2>6 DEF InTurn
<1>14. SignalsSoFar' /\ Reported'
  <2>1. Len(signals) \in Nat
    BY <1>3, LenProperties DEF Types, ParserTypes
  <2>2. CASE k = "LSG"
    <3>1. PICK i \in 1 .. NumGroups : gone'.nr = 9 + i /\ FrontCmd.group = GroupList[i]
      <4>1. gone'.nr \in Nat /\ gone'.nr - 9 \in 1 .. NumGroups
            /\ FrontCmd.group = GroupList[gone'.nr - 9]
        BY <1>1, <1>5, <1>7, <2>2 DEF At
      <4>2. gone'.nr = 9 + (gone'.nr - 9)
        BY <4>1
      <4> QED
        BY <4>1, <4>2
    <3>2. gone.nr = 8 + i /\ gone.nr >= 9 /\ gone.nr <= 9 + NumGroups /\ i \in Nat
      BY <1>1, <1>5, <1>6, <3>1
    <3>3. Len(signals) = i - 1 /\ toCome = NumContacts
      BY <1>2, <1>3, <1>6, <3>2 DEF SignalsSoFar
    <3>4. PICK s : s = [name |-> "newGroupArrived", group |-> FrontCmd.group]
      OBVIOUS
    <3>5. s \in Signals /\ s.name = "newGroupArrived" /\ s.group = GroupList[i] /\ Emit(s)
      BY <1>1, <2>2, <3>1, <3>4 DEF Signals, Command
    <3>6. /\ Len(signals') = Len(signals) + 1 /\ signals'[Len(signals) + 1] = s
          /\ DOMAIN signals' = 1 .. Len(signals) + 1
          /\ \A n \in 1 .. Len(signals) : signals'[n] = signals[n]
      BY <1>3, <1>9, <3>5, EmittedOne DEF Longer
    <3>7. Len(signals') = i /\ toCome' = NumContacts
      BY <2>2, <3>2, <3>3, <3>6
    <3>8. SignalsSoFar'
      <4>1. ~(gone'.nr <= 9) /\ Len(signals') = gone'.nr - 9
        BY <1>6, <3>1, <3>2, <3>7
      <4>2. ASSUME gone'.nr >= 9 + NumGroups
            PROVE  /\ 2 * (Len(signals') - NumGroups) = gone'.nr - 9 - NumGroups
                   /\ toCome' = Ready - Len(signals')
        <5>1. i = NumGroups
          BY <1>6, <3>1, <4>2
        <5> QED
          BY <1>6, <3>1, <3>7, <5>1
      <4> QED
        BY <3>7, <4>1, <4>2 DEF SignalsSoFar
    <3>9. ASSUME NEW n \in DOMAIN signals' PROVE InReport(n, signals'[n])
      <4>1. CASE n \in 1 .. Len(signals)
        <5>1. n \in DOMAIN signals
          BY <1>3, <4>1, LenProperties DEF Types, ParserTypes
        <5> QED
          BY <1>2, <1>3, <3>6, <4>1, <5>1 DEF Reported
      <4>2. CASE n = i
        <5>1. signals'[n] = s
          BY <3>2, <3>3, <3>6, <4>2
        <5>2. n <= NumGroups /\ ~(n > NumGroups) /\ n # Ready + 1 /\ ~(n > Ready + 1)
          BY <1>6, <3>1, <4>2
        <5> QED
          BY <3>5, <4>2, <5>1, <5>2 DEF InReport
      <4>3. n \in 1 .. Len(signals) \/ n = i
        BY <2>1, <3>2, <3>3, <3>6
      <4> QED
        BY <4>1, <4>2, <4>3
    <3>10. Reported'
      BY <1>9, <3>9 DEF Reported, InReport
    <3> QED
      BY <3>8, <3>10
  <2>3. CASE k # "LSG"
    <3>1. signals' = signals
      BY <2>3
    <3>2. SignalsSoFar'
      <4>1. CASE gone'.nr = 4
        <5>1. gone.nr <= 9
          BY <1>1, <1>5, <4>1
        <5> QED
          BY <1>2, <1>3, <1>6, <3>1, <4>1, <5>1 DEF SignalsSoFar
      <4>2. CASE gone'.nr = 6 /\ k = "SYN"
        <5>1. gone.nr <= 9 /\ toCome' = NumContacts
          BY <1>1, <1>5, <4>2
        <5> QED
          BY <1>2, <1>3, <1>6, <3>1, <4>2, <5>1 DEF SignalsSoFar
      <4>3. CASE gone'.nr \in {7, 8, 9} /\ k # "SYN"
        <5>1. gone.nr >= 6 /\ gone.nr <= 9 /\ gone.nr <= 9 + NumGroups /\ toCome' = toCome
          BY <1>1, <1>5, <1>6, <4>3
        <5>2. Len(signals) = 0 /\ toCome = NumContacts
          BY <1>2, <1>3, <5>1 DEF SignalsSoFar
        <5> QED
          BY <1>6, <3>1, <4>3, <5>1, <5>2 DEF SignalsSoFar
      <4>4. CASE k = "BPR" /\ \E j \in 1 .. NumContacts : gone'.nr = 9 + NumGroups + 2 * j
        <5>1. PICK j \in 1 .. NumContacts : gone'.nr = 9 + NumGroups + 2 * j
          BY <4>4
        <5>2. gone.nr >= 9 + NumGroups /\ gone.nr = 8 + NumGroups + 2 * j /\ j \in Nat
          <6>1. j \in Nat /\ j >= 1 /\ gone.nr + 1 = 9 + NumGroups + 2 * j
            BY <1>5, <1>6, <5>1
          <6>2. PICK n \in Nat : n = gone.nr
            BY <1>1
          <6> QED
            BY <1>6, <6>1, <6>2
        <5>5. toCome' = toCome
          BY <4>4
        <5>3. /\ \/ 2 * (Len(signals) - NumGroups) = gone.nr - 9 - NumGroups
                 \/ 2 * (Len(signals) - NumGroups) = gone.nr - 8 - NumGroups
              /\ toCome = Ready - Len(signals)
          BY <1>2, <1>3, <5>2 DEF SignalsSoFar
        <5>4. 2 * (Len(signals) - NumGroups) = 2 * j
          <6>1. PICK n \in Nat : n = Len(signals)
            BY <2>1
          <6>2. PICK g \in Nat, nr \in Nat : g = NumGroups /\ nr = gone.nr
            BY <1>1, <1>6
          <6>3. nr = 8 + g + 2 * j /\ (2 * (n - g) = nr - 9 - g \/ 2 * (n - g) = nr - 8 - g)
            BY <5>2, <5>3, <6>1, <6>2
          <6>4. n - g = j
            BY SMTT(30), <5>2, <6>3
          <6> QED
            BY <6>1, <6>2, <6>4
        <5>6. ~(gone'.nr <= 9 + NumGroups) /\ ~(gone'.nr <= 9)
          BY <1>6, <5>1, <5>2
        <5> QED
          BY <1>6, <2>1, <3>1, <5>1, <5>3, <5>4, <5>5, <5>6 DEF SignalsSoFar
      <4> QED
        BY <1>7, <2>3, <4>1, <4>2, <4>3, <4>4 DEF At
    <3>3. Reported'
      BY <1>3, <3>1 DEF Reported, InReport, Refused
    <3> QED
      BY <3>2, <3>3
  <2> QED
    BY <2>2, <2>3
<1> QED
  BY <1>5, <1>9, <1>10, <1>12, <1>13, <1>14 DEF ParserInv, Running, Kept

\* The contacts of the list are counted down: with the last one the connection is announced and the
\* status is asked for.
LEMMA Lst ==
  ASSUME ParserInv, Handles("LST"), TakeComplete, InParse,
         CountDown(NewContact(FrontCmd.who, Captured(FrontCmd.group)))
  PROVE  Kept
<1>1. /\ Running /\ gone.nr \in Nat /\ gone.nr + 1 <= Len(sent) /\ Len(sent) \in Nat
      /\ Expected(gone.nr + 1, FrontCmd) /\ FrontCmd.kind = "LST" /\ FrontCmd \in Command
  BY AtFront
<1>2. ~Announced /\ ~Refused /\ Early /\ asked = <<>> /\ gone.nr + 1 <= ListEnd
  BY Phase
<1>3. Types /\ Steps /\ Reported /\ SignalsSoFar /\ redirects \in Nat
  BY <1>1 DEF ParserInv, Running, Types, ServerTypes
<1>4. Complete /\ gone' = EndOf(gone.nr + 1) /\ handled' = Append(handled, FrontCmd)
      /\ hasCommand' = hasCommand /\ parsing' = parsing
  BY DEF TakeComplete, Take, InParse
<1>5. PICK contact : contact = NewContact(FrontCmd.who, Captured(FrontCmd.group))
  OBVIOUS
<1>6. /\ toCome' = toCome - 1
      /\ \/ /\ toCome' = 0 /\ Ask("CHG") /\ requests' = Append(requests, "CHG")
            /\ signals' = signals \o <<contact, Connected>> /\ loop' \in {loop, "undefined"}
         \/ /\ toCome' # 0 /\ Emit(contact) /\ loop' = loop
            /\ UNCHANGED <<sent, asked, link, online, redirects, got, requests>>
  BY <1>5 DEF CountDown, Send, UseSocket, SendNothing, server
<1>7. /\ ServerTypes' /\ got' = got /\ sent' = sent /\ online' = online /\ redirects' = redirects
      /\ asked' = <<>> \/ (toCome' = 0 /\ Len(asked') = 1 /\ asked'[1].cmd = "CHG"
                           /\ DOMAIN asked' = 1 .. 1)
  <2>1. CASE toCome' = 0 /\ Ask("CHG")
    <3>1. "CHG" \in RequestNames \union LateRequests
      BY DEF LateRequests
    <3>2. /\ ServerTypes' /\ got' = got /\ sent' = sent /\ online' = online
          /\ redirects' = redirects /\ DOMAIN asked' = 1 .. Len(asked')
          /\ \/ asked' = asked
             \/ Len(asked') = Len(asked) + 1 /\ asked'[Len(asked) + 1].cmd = "CHG"
      BY <1>3, <2>1, <3>1, Asked
    <3>3. Len(asked) = 0
      BY <1>2
    <3> QED
      BY <1>2, <2>1, <3>2, <3>3
  <2>2. CASE UNCHANGED <<sent, asked, link, online, redirects, got, requests>>
    BY <1>2, <1>3, <2>2 DEF Types, ServerTypes
  <2> QED
    BY <1>6, <2>1, <2>2
<1>8. /\ gone' \in Positions /\ gone'.nr = gone.nr + 1
      /\ handled' \in Seq(Command)
      /\ WholeCommands' /\ (~Before(got, gone))'
      /\ InPlace' /\ InText' /\ AllTaken'
  BY <1>4, <1>7, TakeNext
<1>9. /\ NumGroups \in Nat /\ NumContacts \in Nat /\ ListEnd \in Nat
      /\ ListEnd = 9 + NumGroups + 2 * NumContacts
      /\ Ready \in Nat /\ Ready = NumGroups + NumContacts
  BY ListSize
<1>10. PICK j \in 1 .. NumContacts :
         gone.nr + 1 = 8 + NumGroups + 2 * j /\ FrontCmd.who = ContactList[j].who
  <2>1. \E j \in 1 .. NumContacts :
          gone.nr + 1 = 8 + NumGroups + 2 * j /\ FrontCmd.who = ContactList[j].who
    BY <1>1, Place
  <2> QED
    BY <2>1
<1>11. /\ contact \in Signals /\ Connected \in Signals /\ Connected.name = "connected"
       /\ contact.name = "newContactArrived" /\ contact.who = ContactList[j].who
  <2>1. FrontCmd.who \in Contacts \union {"nobody"} /\ FrontCmd.group \in Groups \union {NoGroup}
    BY <1>1 DEF Command
  <2>2. contact \in Signals /\ Connected \in Signals
    BY <1>5, <2>1, SignalTyped
  <2> QED
    BY <1>5, <1>10, <2>2 DEF NewContact, Connected
<1>12. /\ Longer /\ Len(signals) \in Nat
       /\ \A i \in 1 .. Len(signals) : signals'[i] = signals[i]
       /\ signals'[Len(signals) + 1] = contact
       /\ \/ toCome' # 0 /\ OnlyMore /\ Len(signals') = Len(signals) + 1
             /\ DOMAIN signals' = 1 .. Len(signals) + 1
          \/ toCome' = 0 /\ Len(signals') = Len(signals) + 2
             /\ signals'[Len(signals) + 2] = Connected /\ DOMAIN signals' = 1 .. Len(signals) + 2
  <2>1. CASE toCome' # 0
    BY <1>3, <1>6, <1>11, <2>1, EmittedOne DEF Longer
  <2>2. CASE toCome' = 0
    BY <1>3, <1>6, <1>11, <2>2, EmittedTwo DEF Longer
  <2> QED
    BY <2>1, <2>2
<1>13. gone.nr >= 9 + NumGroups /\ gone.nr = 7 + NumGroups + 2 * j /\ j \in Nat /\ j >= 1
  <2>1. gone.nr \in Nat /\ gone.nr + 1 = 8 + NumGroups + 2 * j /\ j \in Nat /\ j >= 1
    BY <1>1, <1>9, <1>10
  <2> QED
    BY <1>9, <2>1
<1>14. Len(signals) = NumGroups + j - 1 /\ toCome = Ready - Len(signals)
  <2>1. /\ \/ 2 * (Len(signals) - NumGroups) = gone.nr - 9 - NumGroups
           \/ 2 * (Len(signals) - NumGroups) = gone.nr - 8 - NumGroups
        /\ toCome = Ready - Len(signals)
    BY <1>2, <1>3, <1>13 DEF SignalsSoFar
  <2>2. PICK n \in Nat : n = Len(signals)
    BY <1>12
  <2>3. 2 * (n - NumGroups) = 2 * j - 2 \/ 2 * (n - NumGroups) = 2 * j - 1
    BY <1>9, <1>13, <2>1, <2>2
  <2>4. n = NumGroups + j - 1
    BY <1>9, <1>13, <2>2, <2>3
  <2> QED
    BY <2>1, <2>2, <2>4
<1>15. toCome' = 0 <=> j = NumContacts
  BY <1>6, <1>9, <1>13, <1>14
<1>16. ~Refused'
  <2>1. Len(signals) > 0 => ~Refused'
    BY <1>2, <1>3, <1>12, StillSo
  <2>2. Len(signals) = 0 => ~Refused'
    BY <1>11, <1>12 DEF Refused
  <2> QED
    BY <1>12, <2>1, <2>2
<1>17. Reported'
  <2>1. ASSUME NEW i \in DOMAIN signals' PROVE InReport(i, signals'[i])
    <3>1. i \in 1 .. Len(signals) \/ i = Len(signals) + 1
          \/ (i = Len(signals) + 2 /\ toCome' = 0)
      BY <1>12
    <3>2. CASE i \in 1 .. Len(signals)
      <4>1. i \in DOMAIN signals
        BY <1>3, <3>2, LenProperties DEF Types, ParserTypes
      <4> QED
        BY <1>2, <1>3, <1>12, <3>2, <4>1 DEF Reported
    <3>3. CASE i = Len(signals) + 1
      <4>1. i = NumGroups + j /\ signals'[i] = contact /\ i - NumGroups = j
        BY <1>9, <1>12, <1>13, <1>14, <3>3
      <4>2. ~(i <= NumGroups) /\ i # Ready + 1 /\ ~(i > Ready + 1)
        BY <1>9, <1>13, <1>10, <4>1
      <4> QED
        BY <1>11, <4>1, <4>2 DEF InReport
    <3>4. CASE i = Len(signals) + 2 /\ toCome' = 0
      <4>1. i = Ready + 1 /\ signals'[i] = Connected
        BY <1>9, <1>12, <1>14, <1>15, <3>4
      <4>2. ~(i <= NumGroups) /\ ~(i <= Ready) /\ ~(i > Ready + 1)
        BY <1>9, <4>1
      <4> QED
        BY <1>11, <4>1, <4>2 DEF InReport
    <3> QED
      BY <3>1, <3>2, <3>3, <3>4
  <2> QED
    BY <1>16, <2>1 DEF Reported, InReport
<1>18. Announced' <=> toCome' = 0
  <2>1. CASE toCome' # 0
    <3>1. OnlyMore /\ Longer
      BY <1>12, <2>1
    <3> QED
      BY <1>2, <1>3, <2>1, <3>1, StillSo
  <2>2. CASE toCome' = 0
    <3>1. Len(signals') = Ready + 1 /\ Len(signals) + 2 = Ready + 1
      BY <1>9, <1>12, <1>14, <1>15, <2>2
    <3>2. signals'[Ready + 1] = Connected
      BY <1>12, <2>2, <3>1
    <3> QED
      BY <1>9, <1>11, <2>2, <3>1, <3>2 DEF Announced
  <2> QED
    BY <2>1, <2>2
<1>19. Stage = 5 /\ Len(requests) = 3 * redirects + 5
  <2>1. Stage = 5
    BY <1>2, <1>9, <1>13 DEF Stage
  <2> QED
    BY <1>1, <2>1 DEF Running, InStep
<1>20. NumContacts > 0 /\ (gone.nr >= 5 => Len(sent) \in {5, ListEnd})
  BY <1>2, <1>9, <1>10 DEF Early
<1>21. Len(sent) = ListEnd
  <2>1. gone.nr >= 9 /\ gone.nr \in Nat /\ gone.nr + 1 <= Len(sent) /\ Len(sent) \in Nat
    BY <1>1, <1>9, <1>13
  <2>2. Len(sent) = 5 \/ Len(sent) = ListEnd
    BY <1>20, <2>1
  <2>3. PICK n \in Nat : n = gone.nr
    BY <2>1
  <2>4. ASSUME Len(sent) = 5 PROVE FALSE
    <3>1. n >= 9 /\ n + 1 <= 5
      BY <2>1, <2>3, <2>4
    <3> QED
      BY <3>1
  <2> QED
    BY <2>2, <2>4
<1>22. signals' \in Seq(Signals) /\ toCome' \in Int
  BY <1>3, <1>6, <1>12 DEF Types, ParserTypes, Longer
<1>23. CASE toCome' = 0
  <2>1. Ask("CHG") /\ requests' = Append(requests, "CHG") /\ loop' \in {loop, "undefined"}
    BY <1>6, <1>23
  <2>2. Step(Len(requests) + 1, "CHG") /\ Len(requests) < 3 * redirects + 6
    BY <1>3, <1>19 DEF Step
  <2>3. Steps' /\ requests' \in Seq(StepNames) /\ Len(requests') = Len(requests) + 1
    <3>1. PICK x \in StepNames : x = "CHG"
      BY DEF StepNames
    <3>2. /\ Step(Len(requests) + 1, x) /\ requests' = Append(requests, x)
          /\ redirects' = redirects
      BY <1>7, <2>1, <2>2, <3>1
    <3> QED
      BY <1>3, <2>2, <3>2, NextStep
  <2>4. Types'
    BY <1>3, <1>4, <1>7, <1>8, <1>22, <2>1, <2>3 DEF Types, ParserTypes
  <2>5. InStep'
    <3>1. Stage' = 6
      BY <1>18, <1>23 DEF Stage
    <3>2. Len(requests') = 3 * redirects + 6
      BY <1>3, <1>19, <2>3
    <3> QED
      BY <1>7, <3>1, <3>2 DEF InStep
  <2>6. InTurn'
    <3>1. gone'.nr >= ListEnd - 1 /\ Len(sent') >= ListEnd
      <4>1. j = NumContacts /\ gone'.nr = gone.nr + 1 /\ sent' = sent
        BY <1>7, <1>8, <1>15, <1>23
      <4>2. gone'.nr = ListEnd - 1
        BY <1>9, <1>13, <4>1
      <4> QED
        BY <1>9, <1>21, <4>1, <4>2
    <3>2. \A i \in DOMAIN asked' : asked'[i].cmd \in LateRequests
      <4>1. CASE asked' = <<>>
        BY <4>1
      <4>2. CASE asked'[1].cmd = "CHG" /\ DOMAIN asked' = 1 .. 1
        <5>1. \A i \in DOMAIN asked' : i = 1
          BY <4>2
        <5>2. "CHG" \in LateRequests
          BY DEF LateRequests
        <5> QED
          BY <4>2, <5>1, <5>2
      <4> QED
        BY <1>7, <4>1, <4>2
    <3> QED
      BY <1>18, <1>20, <1>23, <3>1, <3>2 DEF InTurn, LoggedIn, LateAsked
  <2>7. SignalsSoFar'
    BY <1>18, <1>23 DEF SignalsSoFar
  <2> QED
    BY <1>8, <1>12, <1>17, <2>3, <2>4, <2>5, <2>6, <2>7 DEF ParserInv, Running, Kept
<1>24. CASE toCome' # 0
  <2>1. /\ ~Announced' /\ loop' = loop /\ Len(signals') = NumGroups + j
        /\ UNCHANGED <<sent, asked, link, online, redirects, got, requests>>
    <3>1. Len(signals') = NumGroups + j
      BY <1>9, <1>12, <1>13, <1>14, <1>24
    <3> QED
      BY <1>6, <1>18, <1>24, <3>1
  <2>2. Types' /\ Steps'
    <3>1. ParserTypes'
      BY <1>3, <1>4, <1>7, <1>8, <1>22, <2>1 DEF Types, ParserTypes
    <3>2. Steps'
      BY <1>3, <2>1 DEF Steps, Step
    <3> QED
      BY <1>7, <3>1, <3>2 DEF Types
  <2>3. InStep'
    <3>1. Stage' = 5
      BY <1>1, <1>8, <1>9, <1>13, <1>16, <2>1 DEF Stage
    <3> QED
      BY <1>19, <2>1, <3>1 DEF InStep
  <2>4. InTurn'
    <3>1. gone'.nr < ListEnd - 1 /\ gone'.nr >= 5
      <4>1. j # NumContacts /\ j <= NumContacts /\ j \in Nat
        BY <1>9, <1>10, <1>13, <1>15, <1>24
      <4>2. j + 1 <= NumContacts
        BY <1>9, <4>1
      <4>3. gone'.nr = 8 + NumGroups + 2 * j
        BY <1>8, <1>10
      <4> QED
        BY <1>9, <4>1, <4>2, <4>3
    <3>2. ~online' /\ asked' = <<>> /\ Len(sent') = ListEnd
      BY <1>2, <1>21, <2>1 DEF Early
    <3>3. Early'
      BY <1>1, <1>8, <3>1, <3>2 DEF Early
    <3> QED
      BY <1>16, <2>1, <3>3 DEF InTurn
  <2>5. SignalsSoFar'
    <3>1. gone'.nr = 8 + NumGroups + 2 * j
      BY <1>8, <1>10
    <3>2. ~(gone'.nr <= 9 + NumGroups) /\ ~(gone'.nr <= 9)
      BY <1>9, <1>13, <3>1
    <3>3. toCome' = Ready - Len(signals')
      BY <1>6, <1>9, <1>13, <1>14, <2>1
    <3>4. 2 * (Len(signals') - NumGroups) = gone'.nr - 8 - NumGroups
      BY <1>9, <1>13, <2>1, <3>1
    <3> QED
      BY <3>2, <3>3, <3>4 DEF SignalsSoFar
  <2> QED
    BY <1>8, <1>12, <1>17, <2>2, <2>3, <2>4, <2>5 DEF ParserInv, Running, Kept
<1> QED
  BY <1>23, <1>24


-----------------------------------------------------------------------------
(* After the connection is announced *)

\* Then it is enough that a step leaves the parser in its place and only adds signals.
LEMMA LateStep ==
  ASSUME ParserInv, loop = "running", Announced, UNCHANGED <<requests, redirects>>, Types',
         WholeCommands', (~Before(got, gone))', InPlace', InText', AllTaken',
         gone'.nr >= gone.nr, Len(sent') >= Len(sent), LateAsked', OnlyMore
  PROVE  Kept
<1>1. Running /\ Types /\ Steps /\ Reported /\ Longer
  BY DEF ParserInv, OnlyMore
<1>2. /\ Ready \in Nat /\ Len(signals) \in Nat /\ Len(signals) > Ready
      /\ signals[Ready + 1].name = "connected"
      /\ DOMAIN signals = 1 .. Len(signals) /\ DOMAIN signals' = 1 .. Len(signals')
      /\ Len(signals') \in Nat
  <2>1. signals \in Seq(Signals) /\ signals' \in Seq(Signals)
    BY <1>1 DEF Types, ParserTypes
  <2> QED
    BY <2>1, ListSize, LenProperties DEF Announced
<1>3. LoggedIn
  BY <1>1 DEF Running, InTurn
<1>4. ~Refused
  <2>1. Ready + 1 \in DOMAIN signals
    BY <1>2
  <2> QED
    BY <1>1, <1>2, <2>1 DEF Reported
<1>5. Announced' /\ ~Refused'
  BY <1>1, <1>2, <1>4, StillSo
<1>6. /\ gone.nr \in Nat /\ gone'.nr \in Nat /\ Len(sent) \in Nat /\ Len(sent') \in Nat
  <2>1. gone \in Positions /\ gone' \in Positions
    BY <1>1 DEF Types, ParserTypes
  <2>2. sent \in Seq(Command) /\ sent' \in Seq(Command)
    BY <1>1 DEF Types, ServerTypes
  <2> QED
    BY <2>1, <2>2, LenProperties DEF Positions
<1>7. InTurn'
  <2>1. /\ NumContacts > 0 /\ gone.nr >= ListEnd - 1 /\ Len(sent) >= ListEnd /\ ListEnd \in Nat
    BY <1>3, ListSize DEF LoggedIn
  <2>2. gone'.nr >= ListEnd - 1 /\ Len(sent') >= ListEnd
    BY <1>6, <2>1
  <2>3. LoggedIn'
    BY <2>1, <2>2 DEF LoggedIn
  <2> QED
    BY <1>5, <2>3 DEF InTurn
<1>8. InStep'
  BY <1>1, <1>5 DEF Running, InStep, Stage
<1>9. SignalsSoFar'
  BY <1>5 DEF SignalsSoFar
<1>10. Steps'
  BY <1>1 DEF Steps, Step
<1>11. Reported'
  <2>1. ASSUME NEW i \in DOMAIN signals' PROVE InReport(i, signals'[i])
    <3>1. CASE i \in 1 .. Len(signals)
      BY <1>1, <1>2, <1>4, <3>1 DEF Reported, Longer
    <3>2. CASE i \in Len(signals) + 1 .. Len(signals')
      <4>1. signals'[i].name # "connected"
        BY <3>2 DEF OnlyMore
      <4>2. ~(i <= NumGroups) /\ ~(i <= Ready) /\ i # Ready + 1
        BY <1>2, <3>2, ListSize
      <4> QED
        BY <4>1, <4>2 DEF InReport
    <3> QED
      BY <1>2, <2>1, <3>1, <3>2
  <2> QED
    BY <1>5, <2>1 DEF Reported, InReport
<1> QED
  BY <1>1, <1>7, <1>8, <1>9, <1>10, <1>11 DEF ParserInv, Running, Kept

\* A handler of a command that comes after the connection was announced.
LEMMA LateLine ==
  ASSUME ParserInv, NEW k, Handles(k), k # "NOT", Announced, TakeComplete, InParse,
         UNCHANGED <<requests, toCome>>, ServerTypes', UNCHANGED <<sent, got, redirects>>,
         loop' \in {loop, "undefined"}, LateAsked', OnlyMore
  PROVE  Kept
<1>1. loop = "running" /\ gone.nr \in Nat /\ Len(sent) \in Nat
  BY AtFront
<1>2. Complete /\ gone' = EndOf(gone.nr + 1) /\ handled' = Append(handled, FrontCmd)
      /\ hasCommand' = hasCommand /\ parsing' = parsing
  BY DEF TakeComplete, Take, InParse
<1>3. /\ gone' \in Positions /\ gone'.nr = gone.nr + 1
      /\ handled' \in Seq(Command)
      /\ WholeCommands' /\ (~Before(got, gone))'
      /\ InPlace' /\ InText' /\ AllTaken'
  BY <1>2, TakeNext
<1>4. Types'
  <2>1. Types /\ signals' \in Seq(Signals)
    BY DEF ParserInv, OnlyMore, Longer
  <2>2. ParserTypes'
    BY <1>2, <1>3, <2>1 DEF Types, ParserTypes
  <2> QED
    BY <2>2 DEF Types
<1>5. gone'.nr >= gone.nr /\ Len(sent') >= Len(sent)
  BY <1>1, <1>3
<1> QED
  BY <1>1, <1>3, <1>4, <1>5, LateStep

\* The same, with nothing asked.
LEMMA LateQuiet ==
  ASSUME ParserInv, NEW k, Handles(k), k # "NOT", Announced, TakeComplete, InParse,
         SendNothing, toCome' = toCome, OnlyMore
  PROVE  Kept
<1>1. UNCHANGED <<sent, asked, link, online, redirects, got, requests, loop>>
  BY DEF SendNothing, server
<1>2. ServerTypes'
  BY <1>1 DEF ParserInv, Types, ServerTypes
<1>3. LateAsked'
  <2>1. LateAsked
    BY Phase DEF LoggedIn
  <2> QED
    BY <1>1, <2>1 DEF LateAsked
<1> QED
  BY <1>1, <1>2, <1>3, LateLine

\* And one signal emitted, or none.
LEMMA LateEmits ==
  ASSUME ParserInv, NEW k, Handles(k), k # "NOT", Announced, TakeComplete, InParse,
         SendNothing, toCome' = toCome,
         EmitNothing \/ \E s \in Signals : s.name # "connected" /\ Emit(s)
  PROVE  Kept
<1>1. Types
  BY DEF ParserInv
<1>2. OnlyMore
  <2>1. CASE EmitNothing
    BY <1>1, <2>1, SameSignals DEF EmitNothing
  <2>2. CASE \E s \in Signals : s.name # "connected" /\ Emit(s)
    BY <1>1, <2>2, EmittedOne
  <2> QED
    BY <2>1, <2>2
<1> QED
  BY <1>2, LateQuiet

-----------------------------------------------------------------------------
(* The handlers *)

\* Only the flags of the parser change, and deleted objects may be used.
LEMMA FlagsOnly ==
  ASSUME ParserInv, loop = "running", hasCommand' \in BOOLEAN, parsing' \in BOOLEAN, AllTaken',
         UNCHANGED <<server, got, gone, toCome, handled, requests, signals>>,
         loop' \in {loop, "undefined"}
  PROVE  Kept
<1>1. Running /\ Types
  BY DEF ParserInv
<1>2. UNCHANGED <<sent, asked, link, online, redirects>>
  BY DEF server
<1>3. Types' /\ WholeCommands' /\ (~Before(got, gone))' /\ Steps'
  BY <1>2 DEF ParserInv, Types, ServerTypes, ParserTypes, WholeCommands, NoDisplayName,
              HandledEnd, Before, Steps, Step
<1>4. Reported' /\ Longer
  BY <1>1, SameSignals DEF ParserInv, Reported, Refused, OnlyMore
<1>5. InPlace' /\ InText'
  BY <1>1, <1>2 DEF Running, InPlace, InText, Position, Before
<1>6. InTurn' /\ InStep' /\ SignalsSoFar'
  BY <1>1, <1>2 DEF Running, InTurn, Early, Unanswered, LoggedIn, LateAsked, InStep, Stage,
                    SignalsSoFar, Announced, Refused, Silent
<1> QED
  BY <1>3, <1>4, <1>5, <1>6 DEF ParserInv, Running, Kept

\* Waiting for the rest of a command only clears the flag.
LEMMA WaitKeeps ==
  ASSUME ParserInv, NEW k, Handles(k), ~Complete, hasCommand' = FALSE,
         UNCHANGED <<server, got, gone, toCome, handled, requests, loop, signals, parsing>>
  PROVE  Kept
<1>1. loop = "running" /\ parsing /\ got.nr \in Nat /\ gone.nr \in Nat /\ got.nr >= gone.nr
  BY AtFront
<1>2. got.nr = gone.nr
  BY <1>1 DEF Complete
<1>3. AllTaken'
  BY <1>2 DEF AllTaken
<1>4. hasCommand' \in BOOLEAN /\ parsing' \in BOOLEAN
  BY DEF ParserInv, Types, ParserTypes
<1> QED
  BY <1>1, <1>3, <1>4, FlagsOnly

\* The same for the handlers that have it as their first branch.
LEMMA Waits ==
  ASSUME ParserInv, NEW k, Handles(k), InParse, Wait
  PROVE  Kept
BY WaitKeeps DEF Wait, InParse
\* During the log-in nothing follows the command at the front, so that the greedy expressions match
\* this command only.
LEMMA Alone ==
  ASSUME ParserInv, NEW k \in {"CVR", "GCF", "TWN", "XFR"}, Handles(k), Complete
  PROVE  /\ ~Announced /\ gone.nr = IF k = "CVR" THEN 1 ELSE 2
         /\ Len(sent) = gone.nr + 1 /\ got = EndOf(gone.nr + 1)
         /\ LastLineEnd = EndOf(gone.nr + 1)
<1>1. /\ Running /\ gone.nr \in Nat /\ gone.nr + 1 <= Len(sent) /\ Len(sent) \in Nat
      /\ Expected(gone.nr + 1, FrontCmd) /\ FrontCmd.kind = k
      /\ FrontCmd = sent[gone.nr + 1] /\ got.nr \in Nat /\ got.nr <= Len(sent)
  BY AtFront
<1>2. ~Announced /\ Early
  BY Phase
<1>3. gone.nr = IF k = "CVR" THEN 1 ELSE 2
  BY FrontPlace
<1>4. Len(sent) <= gone.nr + 1
  BY <1>2, <1>3 DEF Early
<1>5. Len(sent) = gone.nr + 1 /\ got.nr = gone.nr + 1
  BY <1>1, <1>4 DEF Complete
<1>6. got \in Positions /\ InText
  BY <1>1 DEF ParserInv, Types, ParserTypes, Running
<1>7. got.part = 0
  BY <1>1, <1>5, <1>6 DEF InText, Position, Positions
<1>8. got = EndOf(gone.nr + 1)
  BY <1>5, <1>6, <1>7 DEF Positions, EndOf
<1>9. sent[got.nr].kind = k
  BY <1>1, <1>5
<1>10. LastLineEnd = EndOf(gone.nr + 1)
  BY <1>5, <1>7, <1>9 DEF LastLineEnd
<1> QED
  BY <1>2, <1>3, <1>5, <1>8, <1>10

\* What the handlers of the log-in ask for is the next step of it.
LEMMA AskStep ==
  ASSUME ParserInv, NEW k, Handles(k), k # "NOT", Complete,
         gone' = EndOf(gone.nr + 1), handled' = Append(handled, FrontCmd),
         ~Announced, NEW r, AskedAfter(gone.nr + 1, r), Send(r),
         UNCHANGED <<hasCommand, parsing, toCome, signals>>
  PROVE  Kept
<1>1. loop = "running" /\ gone.nr \in Nat
  BY AtFront
<1>2. \/ gone.nr = 0 /\ r = "CVR"
      \/ gone.nr = 1 /\ r = "USR I"
      \/ gone.nr = 2 /\ r \in {"USR S", "USR S empty"}
      \/ gone.nr = 4 /\ r = "SYN"
  <2>1. PICK n : n = gone.nr + 1
    OBVIOUS
  <2>2. n # 0 /\ (n = 1 => gone.nr = 0) /\ (n = 2 => gone.nr = 1) /\ (n = 3 => gone.nr = 2)
        /\ (n = 5 => gone.nr = 4)
    BY <1>1, <2>1
  <2>3. AskedAfter(n, r)
    BY <2>1, Zenon
  <2> QED
    BY <2>2, <2>3 DEF AskedAfter
<1>3. gone.nr <= 4 /\ gone.nr # 3
  <2>1. gone.nr = 0 \/ gone.nr = 1 \/ gone.nr = 2 \/ gone.nr = 4
    BY <1>2, Zenon
  <2> QED
    BY <2>1
<1>4. r \in StepNames
  BY <1>2 DEF StepNames, RequestNames
<1>5. /\ gone.nr = 0 => Step(Len(requests) + 1, "CVR")
      /\ gone.nr = 1 => Step(Len(requests) + 1, "USR I")
      /\ gone.nr = 2 => Step(Len(requests) + 1, "USR S") /\ Step(Len(requests) + 1, "USR S empty")
      /\ gone.nr = 4 => Step(Len(requests) + 1, "SYN")
  BY <1>1, Phase, LogInSteps
<1>6. Step(Len(requests) + 1, r)
  BY <1>2, <1>5
<1> QED
  BY <1>3, <1>4, <1>6, AskNext

\* The handler of VER asks for the next step.
LEMMA VerStep == ASSUME ParserInv, ParseVer PROVE Kept
<1>1. Handles("VER") /\ InParse
  BY DEF ParseVer, EmitNothing
<1>2. CASE Wait
  BY <1>1, <1>2, Waits
<1>3. CASE TakeComplete /\ Send("CVR") /\ UNCHANGED <<toCome, signals>>
  <2>1. gone.nr = 0 /\ ~Announced
    BY <1>1, FrontPlace, Phase
  <2>2. AskedAfter(gone.nr + 1, "CVR")
    BY <2>1 DEF AskedAfter
  <2>3. /\ Complete /\ gone' = EndOf(gone.nr + 1) /\ handled' = Append(handled, FrontCmd)
        /\ UNCHANGED <<hasCommand, parsing, toCome, signals>>
    BY <1>1, <1>3 DEF TakeComplete, Take, InParse
  <2> QED
    BY <1>1, <1>3, <2>1, <2>2, <2>3, AskStep
<1> QED
  BY <1>2, <1>3 DEF ParseVer, EmitNothing

\* The handler of CVR asks for the next step.
LEMMA CvrStep == ASSUME ParserInv, ParseCvr PROVE Kept
<1>1. Handles("CVR") /\ InParse /\ TakeGreedily /\ Send("USR I") /\ UNCHANGED <<toCome, signals>>
  BY DEF ParseCvr, EmitNothing
<1>2. PICK k \in {"CVR", "GCF", "TWN", "XFR"} : k = "CVR"
  OBVIOUS
<1>3. Complete
  BY <1>1 DEF TakeGreedily
<1>4. ~Announced /\ gone.nr = 1 /\ LastLineEnd = EndOf(gone.nr + 1)
  BY <1>1, <1>2, <1>3, Alone
<1>5. AskedAfter(gone.nr + 1, "USR I")
  BY <1>4 DEF AskedAfter
<1>6. /\ gone' = EndOf(gone.nr + 1) /\ handled' = Append(handled, FrontCmd)
      /\ UNCHANGED <<hasCommand, parsing, toCome, signals>>
  BY <1>1, <1>4 DEF TakeGreedily, Take, InParse
<1> QED
  BY <1>1, <1>3, <1>4, <1>5, <1>6, AskStep

\* The handler of GCF that gets no ticket emits the end of a session that has not begun.
LEMMA RefusedStep ==
  ASSUME ParserInv, NEW k, Handles(k), k # "NOT", Complete, ~Announced, gone.nr = 2, Len(sent) = 3,
         gone' = EndOf(gone.nr + 1), handled' = Append(handled, FrontCmd),
         SendNothing, UNCHANGED <<toCome, hasCommand, parsing>>,
         EmitDisconnected("AuthenticationFailed")
  PROVE  Kept
<1>1. UNCHANGED <<sent, asked, link, online, redirects, got, requests, loop>>
  BY DEF SendNothing, server
<1>2. Types /\ Steps /\ Running
  BY AtFront DEF ParserInv
<1>3. Early /\ asked = <<>> /\ ~Refused
  BY Phase
<1>4. /\ gone' \in Positions /\ gone'.nr = 3
      /\ handled' \in Seq(Command)
      /\ WholeCommands' /\ (~Before(got, gone))'
      /\ InPlace' /\ InText' /\ AllTaken'
  <2>1. gone'.nr = gone.nr + 1
    BY <1>1, TakeNext
  <2> QED
    BY <1>1, <2>1, TakeNext
<1>5. Len(signals) = 0
  BY <1>2, <1>3 DEF Running, SignalsSoFar
<1>6. PICK s : s = [name |-> "disconnected", reason |-> "AuthenticationFailed"]
  OBVIOUS
<1>7. s \in Signals /\ s.name = "disconnected"
  BY <1>6 DEF Signals
<1>8. /\ Longer /\ OnlyMore /\ Len(signals') = 2 /\ DOMAIN signals' = 1 .. 2
      /\ signals'[1] = s /\ signals'[2] = s
  <2>1. signals' = signals \o <<s, s>>
    BY <1>6 DEF EmitDisconnected
  <2>2. /\ Longer /\ Len(signals') = Len(signals) + 2
        /\ signals'[Len(signals) + 1] = s /\ signals'[Len(signals) + 2] = s
        /\ DOMAIN signals' = 1 .. Len(signals) + 2
        /\ s.name # "connected" /\ s.name # "connected" => OnlyMore
    BY <1>2, <1>7, <2>1, EmittedTwo
  <2> QED
    BY <1>5, <1>7, <2>2
<1>9. Refused' /\ ~Announced'
  BY <1>2, <1>7, <1>8, StillSo DEF Refused
<1>10. Reported'
  <2>1. \A i \in DOMAIN signals' : signals'[i].name = "disconnected"
    BY <1>7, <1>8
  <2> QED
    BY <1>9, <2>1 DEF Reported
<1>11. Types' /\ Steps'
  <2>1. signals' \in Seq(Signals)
    BY <1>8 DEF Longer
  <2>2. ServerTypes'
    BY <1>1, <1>2 DEF Types, ServerTypes
  <2>3. ParserTypes'
    BY <1>1, <1>2, <1>4, <2>1 DEF Types, ParserTypes
  <2> QED
    BY <1>1, <1>2, <2>2, <2>3 DEF Types, Steps, Step
<1>12. InStep'
  <2>1. Stage = 3 /\ Stage' = 3
    BY <1>3, <1>9 DEF Stage
  <2> QED
    BY <1>1, <1>2, <2>1 DEF Running, InStep
<1>13. InTurn'
  <2>1. Silent'
    BY <1>1, <1>3, <1>4 DEF Silent
  <2>2. Early'
    <3>1. NumContacts > 0 => 3 < ListEnd - 1
      BY ListSize
    <3>2. gone'.nr = 3 /\ Len(sent') = 3 /\ ~online' /\ asked' = <<>>
      BY <1>1, <1>3, <1>4 DEF Early
    <3> QED
      BY <3>1, <3>2 DEF Early
  <2> QED
    BY <1>9, <2>1, <2>2 DEF InTurn
<1>14. SignalsSoFar'
  BY <1>9 DEF SignalsSoFar
<1> QED
  BY <1>4, <1>8, <1>10, <1>11, <1>12, <1>13, <1>14 DEF ParserInv, Running, Kept

\* The handler of GCF asks for a ticket: with it the next step is asked for.
LEMMA GcfStep == ASSUME ParserInv, ParseGcf PROVE Kept
<1>1. /\ Handles("GCF") /\ UNCHANGED parsing /\ TakeGreedily /\ UNCHANGED toCome
      /\ \/ Send("USR S") /\ UNCHANGED signals
         \/ SendNothing /\ EmitDisconnected("AuthenticationFailed")
  BY DEF ParseGcf, InParse, EmitNothing
<1>2. PICK k \in {"CVR", "GCF", "TWN", "XFR"} : k = "GCF"
  OBVIOUS
<1>3. Complete
  BY <1>1 DEF TakeGreedily
<1>4. ~Announced /\ gone.nr = 2 /\ Len(sent) = gone.nr + 1 /\ LastLineEnd = EndOf(gone.nr + 1)
  BY <1>1, <1>2, <1>3, Alone
<1>5. AskedAfter(gone.nr + 1, "USR S") /\ Len(sent) = 3
  BY <1>4 DEF AskedAfter
<1>6. /\ gone' = EndOf(gone.nr + 1) /\ handled' = Append(handled, FrontCmd)
      /\ UNCHANGED <<hasCommand, parsing, toCome>>
  BY <1>1, <1>4 DEF TakeGreedily, Take
<1>7. CASE Send("USR S") /\ UNCHANGED signals
  BY <1>1, <1>3, <1>4, <1>5, <1>6, <1>7, AskStep
<1>8. CASE SendNothing /\ EmitDisconnected("AuthenticationFailed")
  BY <1>1, <1>3, <1>4, <1>5, <1>6, <1>8, RefusedStep
<1> QED
  BY <1>1, <1>7, <1>8

\* So does the first branch of that of USR.
LEMMA TicketStep == ASSUME ParserInv, ParseUsrTicket PROVE Kept
<1>1. Handles("TWN") /\ InParse
  BY DEF ParseUsrTicket, EmitNothing
<1>2. CASE Wait
  BY <1>1, <1>2, Waits
<1>3. CASE TakeGreedily /\ UNCHANGED <<toCome, signals>> /\ (Send("USR S") \/ Send("USR S empty"))
  <2>1. PICK k \in {"CVR", "GCF", "TWN", "XFR"} : k = "TWN"
    OBVIOUS
  <2>2. Complete
    BY <1>3 DEF TakeGreedily
  <2>3. ~Announced /\ gone.nr = 2 /\ LastLineEnd = EndOf(gone.nr + 1)
    BY <1>1, <2>1, <2>2, Alone
  <2>4. AskedAfter(gone.nr + 1, "USR S") /\ AskedAfter(gone.nr + 1, "USR S empty")
    BY <2>3 DEF AskedAfter
  <2>5. /\ gone' = EndOf(gone.nr + 1) /\ handled' = Append(handled, FrontCmd)
        /\ UNCHANGED <<hasCommand, parsing, toCome, signals>>
    BY <1>1, <1>3, <2>3 DEF TakeGreedily, Take, InParse
  <2>6. CASE Send("USR S")
    BY <1>1, <2>2, <2>3, <2>4, <2>5, <2>6, AskStep
  <2>7. CASE Send("USR S empty")
    BY <1>1, <2>2, <2>3, <2>4, <2>5, <2>7, AskStep
  <2> QED
    BY <1>3, <2>6, <2>7
<1> QED
  BY <1>2, <1>3 DEF ParseUsrTicket, EmitNothing

\* The handler of XFR leaves the server for another, and the log-in begins again.
LEMMA XfrStep == ASSUME ParserInv, ParseXfr PROVE Kept
<1>1. /\ Handles("XFR") /\ InParse /\ Complete /\ UNCHANGED hasCommand
      /\ sent' = <<>> /\ handled' = <<>> /\ gone' = EndOf(0) /\ got' = EndOf(0) /\ online' = FALSE
      /\ redirects' = redirects + 1
      /\ link' \in {"up", "closed"}
      /\ asked' = IF link' = "up" THEN <<Asks("VER")>> ELSE <<>>
      /\ requests' = Append(requests, "VER")
      /\ UNCHANGED <<toCome, signals, parsing>> /\ loop' \in {loop, "undefined"}
  BY DEF ParseXfr, EmitNothing, InParse, UseSocket
<1>2. PICK k \in {"CVR", "GCF", "TWN", "XFR"} : k = "XFR"
  OBVIOUS
<1>3. ~Announced /\ ~Refused /\ gone.nr = 2
  BY <1>1, <1>2, Alone, Phase
<1>4. Running /\ loop = "running"
  BY <1>1, AtFront
<1>5. Types /\ Steps /\ Reported
  BY DEF ParserInv
<1>6. ~Announced' /\ ~Refused' /\ Longer
  BY <1>1, <1>3, <1>5, SameSignals DEF Announced, Refused, OnlyMore
<1>7. redirects \in Nat /\ Len(requests) = 3 * redirects + 3
  <2>1. Stage = 3
    BY <1>3 DEF Stage
  <2> QED
    BY <1>4, <1>5, <2>1 DEF Running, InStep, Types, ServerTypes
<1>8. PICK x \in StepNames : x = "VER"
  BY DEF StepNames, RequestNames
<1>9. requests \in Seq(StepNames)
  BY <1>5 DEF Types, ParserTypes
<1>10. /\ requests' \in Seq(StepNames) /\ DOMAIN requests = 1 .. Len(requests)
       /\ Len(requests') = Len(requests) + 1 /\ DOMAIN requests' = 1 .. Len(requests) + 1
       /\ \A i \in 1 .. Len(requests) : requests'[i] = requests[i]
       /\ requests'[Len(requests) + 1] = x
  <2>1. requests' = Append(requests, x)
    BY <1>1, <1>8
  <2> QED
    BY <1>9, <2>1, Appended
<1>11. /\ EndOf(0) \in Positions /\ EndOf(0).nr = 0 /\ EndOf(0).part = 0
       /\ <<>> \in Seq(Command)
  BY EmptySeq DEF EndOf, Positions
<1>12. /\ asked' \in Seq(Requests)
       /\ asked' = <<>> \/ (Len(asked') = 1 /\ asked'[1].cmd = "VER")
  <2>1. CASE link' = "up"
    <3>1. asked' = <<Asks("VER")>>
      BY <1>1, <2>1
    <3>2. Asks("VER") \in Requests /\ Asks("VER").cmd = "VER"
      BY DEF Asks, Requests, RequestNames
    <3> QED
      BY <3>1, <3>2
  <2>2. CASE link' # "up"
    BY <1>1, <2>2, EmptySeq
  <2> QED
    BY <2>1, <2>2
<1>13. Types'
  <2>1. ServerTypes'
    <3>1. sent' \in Seq(Command)
      BY <1>1, <1>11, Zenon
    <3>2. asked' \in Seq(Requests) /\ link' \in {"up", "closed"}
      BY <1>1, <1>12, Zenon
    <3>3. online' \in BOOLEAN
      <4>1. online' = FALSE
        BY <1>1, Zenon
      <4> QED
        BY <4>1
    <3>4. redirects' \in Nat
      <4>1. redirects' = redirects + 1
        BY <1>1, Zenon
      <4> QED
        BY <1>7, <4>1
    <3> QED
      BY <3>1, <3>2, <3>3, <3>4 DEF ServerTypes
  <2>2. ParserTypes'
    BY <1>1, <1>5, <1>10, <1>11 DEF Types, ParserTypes
  <2> QED
    BY <2>1, <2>2 DEF Types
<1>14. WholeCommands' /\ (~Before(got, gone))'
  <2>1. IsPrefix(handled, sent)' /\ (gone = HandledEnd)'
    <3>1. Len(<<>>) = 0 /\ ~(handled' # <<>>)
      BY <1>1
    <3>2. HandledEnd' = EndOf(0)
      BY <1>1, <3>1 DEF HandledEnd, EndOf
    <3>3. IsPrefix(<<>>, <<>>)
      BY DEF IsPrefix
    <3> QED
      BY <1>1, <3>2, <3>3
  <2>2. (~Before(got, gone))'
    BY <1>1, <1>11 DEF Before
  <2> QED
    BY <2>1, <2>2 DEF WholeCommands
<1>15. Steps'
  <2>1. Len(requests') <= 3 * redirects' + 6
    BY <1>1, <1>7, <1>10
  <2>2. ASSUME NEW i \in DOMAIN requests' PROVE Step(i, requests[i])'
    <3>1. /\ i \in Nat /\ i <= 3 * redirects + 4
          /\ i # 3 * redirects' + 4 /\ i # 3 * redirects' + 5 /\ i # 3 * redirects' + 6
      BY <1>1, <1>7, <1>10
    <3>2. requests'[i] = Prelude[((i - 1) % 3) + 1]
      <4>1. CASE i \in DOMAIN requests
        <5>1. i <= 3 * (redirects + 1) /\ requests'[i] = requests[i]
          BY <1>7, <1>10, <4>1
        <5>2. Step(i, requests[i])
          BY <1>5, <4>1 DEF Steps
        <5> QED
          BY <5>1, <5>2, Zenon DEF Step
      <4>2. CASE i = Len(requests) + 1
        <5>1. PICK m : m = ((i - 1) % 3) + 1
          OBVIOUS
        <5>2. i = 3 * redirects + 4
          BY <1>7, <4>2
        <5>3. m = 1
          BY <1>7, <5>1, <5>2
        <5>4. Prelude[m] = "VER"
          BY <5>3 DEF Prelude
        <5> QED
          BY <1>8, <1>10, <4>2, <5>1, <5>4, Zenon
      <4>3. i \in DOMAIN requests \/ i = Len(requests) + 1
        BY <1>7, <1>10
      <4> QED
        BY <4>1, <4>2, <4>3, Zenon
    <3> QED
      BY <3>1, <3>2, Zenon DEF Step
  <2> QED
    BY <2>1, <2>2 DEF Steps
<1>16. Reported'
  BY <1>1, <1>5 DEF Reported, Refused
<1>17. InStep'
  <2>1. Stage' = 1
    BY <1>1, <1>3, <1>6, <1>11 DEF Stage
  <2> QED
    BY <1>1, <1>7, <1>10, <2>1 DEF InStep
<1>18. InTurn'
  <2>1. gone'.nr = 0 /\ Len(sent') = 0 /\ ~online'
    BY <1>1, <1>11
  <2>2. NumContacts > 0 => 0 < ListEnd - 1
    BY ListSize
  <2>3. asked' = <<>> \/ Unanswered'
    <3>1. AskedAfter(0, "VER")
      BY DEF AskedAfter
    <3> QED
      BY <1>12, <2>1, <3>1 DEF Unanswered
  <2>4. Early'
    BY <2>1, <2>2, <2>3 DEF Early
  <2> QED
    BY <1>6, <2>4 DEF InTurn
<1>19. SignalsSoFar'
  <2>1. SignalsSoFar /\ NumGroups \in Nat
    BY <1>4, ListSize DEF Running
  <2>2. Len(signals') = 0
    BY <1>1, <1>3, <2>1 DEF SignalsSoFar
  <2>3. gone'.nr = 0
    BY <1>1, <1>11
  <2>4. ~(gone'.nr >= 9 + NumGroups) /\ ~(gone'.nr >= 6) /\ ~(gone'.nr >= 9)
    BY <2>1, <2>3
  <2> QED
    BY <2>2, <2>4 DEF SignalsSoFar
<1>20. InPlace' /\ InText' /\ AllTaken'
  <2>1. InPlace'
    BY <1>1 DEF InPlace
  <2>2. InText'
    BY <1>1, <1>11, <1>14 DEF InText, Position
  <2>3. AllTaken'
    BY <1>1 DEF AllTaken
  <2> QED
    BY <2>1, <2>2, <2>3
<1> QED
  BY <1>6, <1>13, <1>14, <1>15, <1>16, <1>17, <1>18, <1>19, <1>20 DEF ParserInv, Running, Kept

\* The handlers of the log-in that ask for nothing, and those of the lines of the list, which wait or
\* take their line.
LEMMA LineTaken ==
  ASSUME ParserInv, NEW k \in {"USR", "ERR", "SYN", "GTC", "BLP", "PRP", "BPR"}, Handles(k),
         ~Announced, TakeComplete, SendNothing, InParse,
         UNCHANGED signals, toCome' = IF k = "SYN" THEN NumContacts ELSE toCome
  PROVE  Kept
<1>1. /\ Complete /\ gone' = EndOf(gone.nr + 1) /\ handled' = Append(handled, FrontCmd)
      /\ UNCHANGED <<hasCommand, parsing>>
  BY DEF TakeComplete, Take, InParse
<1> QED
  BY <1>1, NextLine

\* The handler of an error answers before and after the connection was announced, that of BPR too.
LEMMA EitherLine ==
  ASSUME ParserInv, NEW k \in {"ERR", "BPR"}, Handles(k), TakeComplete, SendNothing, InParse,
         UNCHANGED <<toCome, signals>>
  PROVE  Kept
<1>1. CASE ~Announced
  BY <1>1, LineTaken
<1>2. CASE Announced
  BY <1>2, LateEmits DEF EmitNothing
<1> QED
  BY <1>1, <1>2

\* The lines between the authentication and the list are told to nobody.
LEMMA ErrorStep == ASSUME ParserInv, ParseError PROVE Kept
<1>1. PICK k \in {"ERR", "BPR"} : k = "ERR"
  OBVIOUS
<1>2. Handles(k) /\ TakeComplete /\ SendNothing /\ InParse /\ UNCHANGED <<toCome, signals>>
  BY <1>1 DEF ParseError, IgnoreLine, EmitNothing
<1> QED
  BY <1>2, EitherLine

\* That of BPR waits for the whole line.
LEMMA BprStep == ASSUME ParserInv, ParseBpr PROVE Kept
<1>1. PICK k \in {"ERR", "BPR"} : k = "BPR"
  OBVIOUS
<1>2. Handles(k) /\ InParse
  BY <1>1 DEF ParseBpr, EmitNothing
<1>3. CASE Wait
  BY <1>2, <1>3, Waits
<1>4. CASE TakeComplete /\ SendNothing /\ UNCHANGED <<toCome, signals>>
  BY <1>2, <1>4, EitherLine
<1> QED
  BY <1>3, <1>4 DEF ParseBpr, EmitNothing

\* That of the end of the authentication, too.
LEMMA UsrStep == ASSUME ParserInv, ParseUsr PROVE Kept
<1>1. PICK k \in {"USR", "ERR", "SYN", "GTC", "BLP", "PRP", "BPR"} : k = "USR"
  OBVIOUS
<1>2. Handles(k) /\ InParse
  BY <1>1 DEF ParseUsr, EmitNothing
<1>3. CASE Wait
  BY <1>2, <1>3, Waits
<1>4. CASE TakeComplete /\ SendNothing /\ UNCHANGED <<toCome, signals>>
  <2>1. ~Announced
    BY <1>1, <1>2, Phase
  <2>2. toCome' = IF k = "SYN" THEN NumContacts ELSE toCome
    BY <1>1, <1>4
  <2> QED
    BY <1>2, <1>4, <2>1, <2>2, LineTaken
<1> QED
  BY <1>3, <1>4 DEF ParseUsr, EmitNothing

\* And that of SYN, which takes the number of contacts to come from it.
LEMMA SynStep == ASSUME ParserInv, ParseSyn PROVE Kept
<1>1. PICK k \in {"USR", "ERR", "SYN", "GTC", "BLP", "PRP", "BPR"} : k = "SYN"
  OBVIOUS
<1>2. Handles(k) /\ InParse
  BY <1>1 DEF ParseSyn, EmitNothing
<1>3. CASE Wait
  BY <1>2, <1>3, Waits
<1>4. CASE TakeComplete /\ SendNothing /\ UNCHANGED signals /\ toCome' = Len(ContactList)
  <2>1. ~Announced
    BY <1>1, <1>2, Phase
  <2>2. toCome' = IF k = "SYN" THEN NumContacts ELSE toCome
    BY <1>1, <1>4 DEF NumContacts
  <2> QED
    BY <1>2, <1>4, <2>1, <2>2, LineTaken
<1> QED
  BY <1>3, <1>4 DEF ParseSyn, EmitNothing

\* Three lines are only taken.
LEMMA SettingsStep ==
  ASSUME ParserInv, NEW k \in {"USR", "ERR", "SYN", "GTC", "BLP", "PRP", "BPR"},
         k \in {"GTC", "BLP", "PRP"}, IgnoreLine(k)
  PROVE  Kept
<1>1. Handles(k) /\ InParse /\ TakeComplete /\ SendNothing /\ UNCHANGED <<toCome, signals>>
  BY DEF IgnoreLine, EmitNothing
<1>2. ~Announced
  BY <1>1, Phase
<1>3. toCome' = IF k = "SYN" THEN NumContacts ELSE toCome
  BY <1>1
<1> QED
  BY <1>1, <1>2, <1>3, LineTaken

\* The profile is answered with SYN; a message that comes once the connection was announced is taken.
LEMMA MsgStep == ASSUME ParserInv, ParseMsg PROVE Kept
<1>1. /\ Handles("MSG") /\ InParse /\ TakeComplete /\ UNCHANGED <<toCome, signals>>
      /\ IF FrontCmd.who = "nobody" THEN Send("SYN") ELSE SendNothing
  BY DEF ParseMsg, EmitNothing
<1>2. CASE FrontCmd.who = "nobody"
  <2>1. ~Announced /\ gone.nr = 4
    BY <1>1, <1>2, FrontPlace, Phase
  <2>2. AskedAfter(gone.nr + 1, "SYN")
    BY <2>1 DEF AskedAfter
  <2>3. /\ Complete /\ gone' = EndOf(gone.nr + 1) /\ handled' = Append(handled, FrontCmd)
        /\ UNCHANGED <<hasCommand, parsing, toCome, signals>>
    BY <1>1 DEF TakeComplete, Take, InParse
  <2> QED
    BY <1>1, <1>2, <2>1, <2>2, <2>3, AskStep
<1>3. CASE FrontCmd.who # "nobody"
  <2>1. Announced
    BY <1>1, <1>3, FrontPlace, Phase
  <2>2. OnlyMore
    BY <1>1, SameSignals DEF ParserInv
  <2>3. SendNothing /\ toCome' = toCome
    BY <1>1, <1>3
  <2> QED
    BY <1>1, <2>1, <2>2, <2>3, LateQuiet
<1> QED
  BY <1>2, <1>3

\* The handler of LSG tells of a group, before the connection is announced with a line of the list
\* and after it with the answer to ADG.
LEMMA LsgStep == ASSUME ParserInv, ParseLsg PROVE Kept
<1>1. /\ Handles("LSG") \/ Handles("ADG")
      /\ InParse /\ TakeComplete /\ SendNothing
      /\ Emit([name |-> "newGroupArrived", group |-> FrontCmd.group])
      /\ UNCHANGED toCome
  BY DEF ParseLsg
<1>2. FrontCmd.group \in Groups \union {NoGroup}
  <2>1. FrontCmd \in Command
    BY <1>1, AtFront
  <2> QED
    BY <2>1 DEF Command
<1>3. CASE Handles("LSG")
  <2>1. PICK k \in {"USR", "ERR", "SYN", "GTC", "BLP", "PRP", "LSG", "BPR"} : k = "LSG"
    OBVIOUS
  <2>2. ~Announced
    BY <1>3, Phase
  <2>3. /\ Complete /\ gone' = EndOf(gone.nr + 1) /\ handled' = Append(handled, FrontCmd)
        /\ UNCHANGED <<hasCommand, parsing>>
        /\ toCome' = IF k = "SYN" THEN NumContacts ELSE toCome
    BY <1>1, <2>1 DEF TakeComplete, Take, InParse
  <2>4. SendNothing /\ Handles(k)
    BY <1>1, <1>3, <2>1
  <2> QED
    BY <1>1, <2>1, <2>2, <2>3, <2>4, NextLine
<1>4. CASE Handles("ADG")
  <2>1. Announced
    BY <1>4, Phase DEF LateKinds
  <2>2. PICK s : s = [name |-> "newGroupArrived", group |-> FrontCmd.group]
    OBVIOUS
  <2>3. s \in Signals /\ s.name # "connected" /\ Emit(s)
    BY <1>1, <1>2, <2>2 DEF Signals
  <2> QED
    BY <1>1, <1>4, <2>1, <2>3, LateEmits
<1> QED
  BY <1>1, <1>3, <1>4

\* The handler of LST waits for the whole line and counts the contact down.
LEMMA LstStep == ASSUME ParserInv, ParseLst PROVE Kept
<1>1. Handles("LST") /\ InParse
  BY DEF ParseLst
<1>2. CASE Wait
  BY <1>1, <1>2, Waits
<1>3. CASE TakeComplete /\ CountDown(NewContact(FrontCmd.who, Captured(FrontCmd.group)))
  BY <1>1, <1>3, Lst
<1> QED
  BY <1>2, <1>3 DEF ParseLst

\* The handlers of commands that the client need not answer only take them.
LEMMA IgnoredStep ==
  ASSUME ParserInv, NEW k \in {"CHG", "QRY", "REM", "RMG"}, IgnoreLine(k)
  PROVE  Kept
<1>1. Handles(k) /\ InParse /\ TakeComplete /\ SendNothing /\ UNCHANGED <<toCome, signals>>
  BY DEF IgnoreLine, EmitNothing
<1>2. Announced
  BY <1>1, Phase DEF LateKinds
<1> QED
  BY <1>1, <1>2, LateEmits DEF EmitNothing

\* A challenge is answered.
LEMMA ChlStep == ASSUME ParserInv, ParseChl PROVE Kept
<1>1. /\ Handles("CHL") /\ InParse /\ TakeComplete /\ Ask("QRY")
      /\ UNCHANGED <<requests, toCome, signals>> /\ loop' \in {loop, "undefined"}
  BY DEF ParseChl, UseSocket, EmitNothing
<1>2. Announced /\ LoggedIn
  BY <1>1, Phase DEF LateKinds
<1>3. Types
  BY DEF ParserInv
<1>4. "QRY" \in LateRequests
  BY DEF LateRequests
<1>5. /\ ServerTypes' /\ got' = got /\ sent' = sent /\ redirects' = redirects
      /\ Len(asked) \in Nat /\ DOMAIN asked = 1 .. Len(asked) /\ DOMAIN asked' = 1 .. Len(asked')
      /\ \/ asked' = asked
         \/ /\ Len(asked') = Len(asked) + 1
            /\ asked'[Len(asked) + 1].cmd = "QRY"
            /\ \A i \in 1 .. Len(asked) : asked'[i] = asked[i]
  BY <1>1, <1>3, <1>4, Asked
<1>6. LateAsked'
  <2>1. LateAsked
    BY <1>2 DEF LoggedIn
  <2>2. CASE asked' = asked
    BY <2>1, <2>2 DEF LateAsked
  <2>3. CASE /\ Len(asked') = Len(asked) + 1
             /\ asked'[Len(asked) + 1].cmd = "QRY"
             /\ \A i \in 1 .. Len(asked) : asked'[i] = asked[i]
    <3>1. ASSUME NEW i \in DOMAIN asked' PROVE asked'[i].cmd \in LateRequests
      <4>1. i \in DOMAIN asked \/ i = Len(asked) + 1
        BY <1>5, <2>3
      <4>2. CASE i \in DOMAIN asked
        BY <1>5, <2>1, <2>3, <4>2 DEF LateAsked
      <4>3. CASE i = Len(asked) + 1
        BY <1>4, <2>3, <4>3
      <4> QED
        BY <4>1, <4>2, <4>3
    <3> QED
      BY <3>1 DEF LateAsked
  <2> QED
    BY <1>5, <2>2, <2>3
<1>7. OnlyMore
  BY <1>1, <1>3, SameSignals
<1> QED
  BY <1>1, <1>2, <1>5, <1>6, <1>7, LateLine

\* What the handlers tell of the command at the front.
LEMMA FrontSignals ==
  ASSUME ParserInv, NEW k, Handles(k), NEW s,
         \/ s = StatusOf(FrontCmd.who, "on") \/ s = StatusOf(FrontCmd.who, "off")
         \/ s = NewContact(FrontCmd.who, NoGroup)
         \/ s = [name |-> "personalMessage", who |-> FrontCmd.who]
  PROVE  s \in Signals /\ s.name # "connected"
<1>1. FrontCmd \in Command
  BY AtFront
<1>2. FrontCmd.who \in Contacts \union {"nobody"} /\ NoGroup \in Groups \union {NoGroup}
  BY <1>1 DEF Command
<1>3. s \in Signals
  BY <1>2, SignalTyped
<1> QED
  BY <1>3 DEF StatusOf, NewContact

\* A presence is told or not.
LEMMA NlnStep == ASSUME ParserInv, ParseNln PROVE Kept
<1>1. PICK k \in {"ILN", "NLN"} : Handles(k)
  BY DEF ParseNln
<1>2. InParse
  BY DEF ParseNln
<1>3. CASE Wait
  BY <1>1, <1>2, <1>3, Waits
<1>4. CASE /\ TakeComplete /\ SendNothing /\ UNCHANGED toCome
           /\ EmitNothing \/ Emit(StatusOf(FrontCmd.who, "on"))
  <2>1. Announced
    BY <1>1, Phase DEF LateKinds
  <2>2. EmitNothing \/ \E s \in Signals : s.name # "connected" /\ Emit(s)
    BY <1>1, <1>4, FrontSignals
  <2> QED
    BY <1>1, <1>2, <1>4, <2>1, <2>2, LateEmits
<1> QED
  BY <1>3, <1>4 DEF ParseNln

\* An absence is told, once a presence was.
LEMMA FlnStep == ASSUME ParserInv, ParseFln PROVE Kept
<1>1. /\ Handles("FLN") /\ InParse /\ TakeComplete /\ SendNothing /\ UNCHANGED toCome
      /\ EmitNothing \/ Emit(StatusOf(FrontCmd.who, "off"))
  BY DEF ParseFln
<1>2. Announced
  BY <1>1, Phase DEF LateKinds
<1>3. EmitNothing \/ \E s \in Signals : s.name # "connected" /\ Emit(s)
  BY <1>1, FrontSignals
<1> QED
  BY <1>1, <1>2, <1>3, LateEmits

\* So is a personal message.
LEMMA UbxStep == ASSUME ParserInv, ParseUbx PROVE Kept
<1>1. Handles("UBX") /\ InParse
  BY DEF ParseUbx
<1>2. CASE Wait
  BY <1>1, <1>2, Waits
<1>3. CASE /\ TakeComplete /\ SendNothing /\ UNCHANGED toCome
           /\ Emit([name |-> "personalMessage", who |-> FrontCmd.who])
  <2>1. Announced
    BY <1>1, Phase DEF LateKinds
  <2>2. \E s \in Signals : s.name # "connected" /\ Emit(s)
    BY <1>1, <1>3, FrontSignals
  <2> QED
    BY <1>1, <1>3, <2>1, <2>2, LateEmits
<1> QED
  BY <1>2, <1>3 DEF ParseUbx

\* The line of an addition makes the contact arrive anew, unless it names a group.
LEMMA AdcStep == ASSUME ParserInv, ParseAdc PROVE Kept
<1>1. Handles("ADC") /\ InParse
  BY DEF ParseAdc
<1>2. CASE Wait
  BY <1>1, <1>2, Waits
<1>3. CASE /\ TakeComplete /\ SendNothing /\ UNCHANGED toCome
           /\ EmitNothing \/ Emit(NewContact(FrontCmd.who, NoGroup))
  <2>1. Announced
    BY <1>1, Phase DEF LateKinds
  <2>2. EmitNothing \/ \E s \in Signals : s.name # "connected" /\ Emit(s)
    BY <1>1, <1>3, FrontSignals
  <2> QED
    BY <1>1, <1>3, <2>1, <2>2, LateEmits
<1> QED
  BY <1>2, <1>3 DEF ParseAdc

\* OUT is told twice.
LEMMA OutStep == ASSUME ParserInv, ParseOut PROVE Kept
<1>1. /\ Handles("OUT") /\ InParse /\ TakeComplete /\ SendNothing /\ toCome' = toCome
      /\ EmitDisconnected("AtOtherPlace")
  BY DEF ParseOut
<1>2. Announced
  BY <1>1, Phase DEF LateKinds
<1>3. PICK s : s = [name |-> "disconnected", reason |-> "AtOtherPlace"]
  OBVIOUS
<1>4. s \in Signals /\ s.name # "connected"
  BY <1>3 DEF Signals
<1>5. OnlyMore
  <2>1. signals' = signals \o <<s, s>>
    BY <1>1, <1>3 DEF EmitDisconnected
  <2> QED
    BY <1>4, <2>1, EmittedTwo DEF ParserInv
<1> QED
  BY <1>1, <1>2, <1>5, LateQuiet

\* The handler of NOT waits for its payload, and leaves the line end behind it.
LEMMA NotStep == ASSUME ParserInv, ParseNot PROVE Kept
<1>1. /\ Handles("NOT") /\ InParse /\ SendNothing /\ UNCHANGED <<toCome, signals>>
      /\ \/ ~Complete /\ got.part < 4 /\ hasCommand' = FALSE /\ UNCHANGED <<gone, handled>>
         \/ /\ Complete \/ got.part = 4
            /\ Take([gone EXCEPT !.part = 4]) /\ UNCHANGED hasCommand
  BY DEF ParseNot, EmitNothing
<1>2. CASE ~Complete /\ got.part < 4 /\ hasCommand' = FALSE /\ UNCHANGED <<gone, handled>>
  BY <1>1, <1>2, WaitKeeps DEF SendNothing, InParse
<1>3. CASE /\ Complete \/ got.part = 4
           /\ Take([gone EXCEPT !.part = 4]) /\ UNCHANGED hasCommand
  <2>1. /\ loop = "running" /\ parsing /\ hasCommand /\ Running /\ FrontCmd.kind = "NOT"
        /\ gone.part = 0 /\ gone.nr \in Nat /\ gone.nr + 1 \in DOMAIN sent /\ gone = EndOf(gone.nr)
        /\ DOMAIN sent = 1 .. Len(sent) /\ Len(sent) \in Nat
        /\ got.nr \in Nat /\ got.nr <= Len(sent) /\ got.nr >= gone.nr
        /\ FrontCmd = sent[gone.nr + 1] /\ FrontCmd \in Command
    BY <1>1, AtFront
  <2>2. Announced /\ LoggedIn
    BY <1>1, Phase DEF LateKinds
  <2>3. Types /\ WholeCommands /\ InPlace /\ InText
    BY <2>1 DEF ParserInv, Running
  <2>4. /\ UNCHANGED <<sent, asked, link, online, redirects, got, requests>>
        /\ UNCHANGED <<parsing, loop, hasCommand, toCome>> /\ handled' = Append(handled, FrontCmd)
    BY <1>1, <1>3 DEF SendNothing, server, InParse, Take
  <2>5. handled \in Seq(Command) /\ sent \in Seq(Command) /\ got \in Positions /\ gone \in Positions
    BY <2>3 DEF Types, ParserTypes, ServerTypes
  <2>6. gone' = [nr |-> gone.nr, part |-> 4] /\ gone' \in Positions
        /\ gone'.nr = gone.nr /\ gone'.part = 4
    BY <1>3, <2>5 DEF Take, Positions
  <2>7. /\ handled' \in Seq(Command) /\ Len(handled) \in Nat /\ DOMAIN handled = 1 .. Len(handled)
        /\ Len(handled') = Len(handled) + 1 /\ DOMAIN handled' = 1 .. Len(handled) + 1
        /\ \A i \in 1 .. Len(handled) : handled'[i] = handled[i]
        /\ handled'[Len(handled) + 1] = FrontCmd
    BY <2>1, <2>4, <2>5, Appended
  <2>8. ASSUME NoDisplayName' PROVE (IsPrefix(handled, sent) /\ gone = HandledEnd)'
    <3>1. NoDisplayName
      BY <2>7, <2>8 DEF NoDisplayName
    <3>2. IsPrefix(handled, sent) /\ gone = HandledEnd
      BY <2>3, <3>1 DEF WholeCommands
    <3>3. gone.nr = Len(handled)
      <4>1. CASE handled # <<>> /\ Last(handled).kind = "NOT"
        <5>1. gone.part = 4
          BY <3>2, <4>1 DEF HandledEnd
        <5> QED
          BY <2>1, <5>1
      <4>2. CASE ~(handled # <<>> /\ Last(handled).kind = "NOT")
        BY <3>2, <4>2 DEF HandledEnd, EndOf
      <4> QED
        BY <4>1, <4>2
    <3>4. IsPrefix(handled, sent)'
      <4>1. Len(handled) < Len(sent) /\ handled' = Append(handled, sent[Len(handled) + 1])
        BY <2>1, <2>4, <3>3
      <4> QED
        BY <2>4, <2>5, <3>2, <4>1, PrefixNext
    <3>5. Last(handled').kind = "NOT" /\ handled' # <<>> /\ Len(handled') - 1 = gone.nr
      BY <2>1, <2>7, <3>3 DEF Last
    <3>6. HandledEnd' = [nr |-> Len(handled') - 1, part |-> 4]
      BY <3>5 DEF HandledEnd
    <3> QED
      BY <2>6, <3>4, <3>5, <3>6
  <2>9. WholeCommands'
    BY <2>8 DEF WholeCommands
  <2>10. (~Before(got, gone))'
    <3>1. got.part \in 0 .. 4
      BY <2>5 DEF Positions
    <3>2. got.nr > gone.nr \/ got.part = 4
      BY <1>3 DEF Complete
    <3> QED
      BY <2>1, <2>4, <2>6, <3>1, <3>2 DEF Before
  <2>11. InPlace' /\ InText' /\ AllTaken'
    <3>1. InPlace'
      BY <2>3, <2>4 DEF InPlace
    <3>2. InText'
      BY <2>1, <2>3, <2>4, <2>6, <2>10 DEF InText, Position
    <3>3. AllTaken'
      BY <2>6 DEF AllTaken
    <3> QED
      BY <3>1, <3>2, <3>3
  <2>12. OnlyMore
    BY <1>1, <2>3, SameSignals
  <2>13. Types'
    <3>1. signals' \in Seq(Signals)
      BY <2>12 DEF OnlyMore, Longer
    <3> QED
      BY <2>3, <2>4, <2>6, <2>7, <3>1 DEF Types, ServerTypes, ParserTypes
  <2>14. LateAsked'
    BY <2>2, <2>4 DEF LoggedIn, LateAsked
  <2>15. gone'.nr >= gone.nr /\ Len(sent') >= Len(sent)
    BY <2>1, <2>4, <2>6
  <2> QED
    BY <2>1, <2>2, <2>4, <2>9, <2>10, <2>11, <2>12, <2>13, <2>14, <2>15, LateStep
<1> QED
  BY <1>1, <1>2, <1>3

\* That of an addition with a display name takes what was received up to the last number at the end
\* of a line.
LEMMA AdcNamedStep == ASSUME ParserInv, ParseAdcNamed PROVE Kept
<1>1. Handles("ADN") /\ InParse
  BY DEF ParseAdcNamed
<1>2. CASE Wait
  BY <1>1, <1>2, Waits
<1>3. CASE /\ Complete /\ UNCHANGED hasCommand
           /\ \E n \in gone.nr + 1 .. Len(sent) :
                /\ EndsInNumber(n) /\ \A i \in n + 1 .. Len(sent) : ~EndsInNumber(i)
                /\ Take(FirstLineEnd(n))
           /\ SendNothing /\ UNCHANGED toCome
           /\ Emit(NewContact(FrontCmd.who, NoGroup))
  <2>1. /\ loop = "running" /\ parsing /\ hasCommand /\ Running /\ FrontCmd.kind = "ADN"
        /\ gone.nr \in Nat /\ Len(sent) \in Nat /\ FrontCmd \in Command
    BY <1>1, AtFront
  <2>2. Announced /\ LoggedIn
    BY <1>1, Phase DEF LateKinds
  <2>3. Types /\ InPlace /\ InText
    BY <2>1 DEF ParserInv, Running
  <2>4. PICK n \in gone.nr + 1 .. Len(sent) : EndsInNumber(n) /\ Take(FirstLineEnd(n))
    BY <1>3
  <2>5. /\ UNCHANGED <<sent, asked, link, online, redirects, got, requests>>
        /\ UNCHANGED <<parsing, loop, hasCommand, toCome>> /\ handled' = Append(handled, FrontCmd)
        /\ gone' = FirstLineEnd(n)
    BY <1>1, <1>3, <2>4 DEF SendNothing, server, InParse, Take
  <2>6. gone' \in Positions /\ gone'.nr \in gone.nr .. Len(sent)
    <3>1. CASE FirstLineEnd(n) = EndOf(n)
      BY <2>1, <2>5, <3>1 DEF EndOf, Positions
    <3>2. CASE FirstLineEnd(n) = [nr |-> n - 1, part |-> 3]
      BY <2>1, <2>5, <3>2 DEF Positions
    <3> QED
      BY <3>1, <3>2 DEF FirstLineEnd
  <2>7. (~Before(got, gone))'
    BY <2>4, <2>5 DEF EndsInNumber, Before
  <2>8. handled \in Seq(Command)
    BY <2>3 DEF Types, ParserTypes
  <2>9. /\ handled' \in Seq(Command) /\ Len(handled) \in Nat
        /\ DOMAIN handled' = 1 .. Len(handled) + 1
        /\ handled'[Len(handled) + 1] = FrontCmd
    BY <2>1, <2>5, <2>8, Appended
  <2>10. WholeCommands'
    <3>1. Len(handled) + 1 \in DOMAIN handled'
      BY <2>9
    <3>2. ~NoDisplayName'
      BY <2>1, <2>9, <3>1 DEF NoDisplayName
    <3> QED
      BY <3>2 DEF WholeCommands
  <2>11. InPlace' /\ InText' /\ AllTaken'
    <3>1. InPlace'
      BY <2>3, <2>5 DEF InPlace
    <3>2. InText'
      <4>1. Position(got)' /\ (got.nr <= Len(sent))'
        BY <2>3, <2>5 DEF InText, Position
      <4>2. gone'.nr <= Len(sent')
        BY <2>1, <2>5, <2>6
      <4> QED
        BY <2>7, <4>1, <4>2 DEF InText
    <3>3. AllTaken'
      BY <2>1, <2>5 DEF AllTaken
    <3> QED
      BY <3>1, <3>2, <3>3
  <2>12. OnlyMore
    <3>1. PICK s : s = NewContact(FrontCmd.who, NoGroup)
      OBVIOUS
    <3>2. s \in Signals /\ s.name # "connected"
      BY <1>1, <3>1, FrontSignals
    <3> QED
      BY <1>3, <2>3, <3>1, <3>2, EmittedOne
  <2>13. Types'
    <3>1. signals' \in Seq(Signals)
      BY <2>12 DEF OnlyMore, Longer
    <3> QED
      BY <2>3, <2>5, <2>6, <2>9, <3>1 DEF Types, ServerTypes, ParserTypes
  <2>14. LateAsked'
    BY <2>2, <2>5 DEF LoggedIn, LateAsked
  <2>15. gone'.nr >= gone.nr /\ Len(sent') >= Len(sent)
    BY <2>1, <2>5, <2>6
  <2> QED
    BY <2>1, <2>2, <2>5, <2>7, <2>10, <2>11, <2>12, <2>13, <2>14, <2>15, LateStep
<1> QED
  BY <1>2, <1>3 DEF ParseAdcNamed

\* When parse returns, the beginning of a command is left at most.
LEMMA ReturnStep == ASSUME ParserInv, ParseReturns PROVE Kept
<1>1. /\ parsing /\ loop = "running" /\ parsing' = FALSE
      /\ ~hasCommand \/ ~Named
      /\ UNCHANGED <<server, got, gone, hasCommand, toCome, handled, requests, signals>>
      /\ loop' \in {loop, "undefined"}
  BY DEF ParseReturns, UseSocket
<1>2. Types /\ Running
  BY <1>1 DEF ParserInv
<1>3. AllTaken'
  <2>1. UNCHANGED <<got, gone>>
    BY <1>1
  <2>2. CASE ~hasCommand
    BY <1>2, <2>1, <2>2 DEF Running, AllTaken
  <2>3. CASE ~Named
    <3>1. got \in Positions /\ gone \in Positions /\ ~Before(got, gone)
      BY <1>2 DEF Types, ParserTypes, Running, InText
    <3>2. gone.part = 0 => got.nr = gone.nr
      BY <2>3, <3>1 DEF Named, Before, Positions
    <3> QED
      BY <2>1, <3>2 DEF AllTaken
  <2> QED
    BY <1>1, <2>2, <2>3
<1>4. hasCommand' \in BOOLEAN /\ parsing' \in BOOLEAN
  BY <1>1, <1>2 DEF Types, ParserTypes
<1> QED
  BY <1>1, <1>3, <1>4, FlagsOnly

-----------------------------------------------------------------------------
(* The server, the network and the loop of init *)

\* What the server writes comes behind what it wrote.
LEMMA Written ==
  ASSUME Types, WholeCommands, NEW cmds \in Seq(Command), Write(cmds),
         UNCHANGED <<got, gone, handled>>
  PROVE  /\ sent' \in Seq(Command) /\ Len(sent) \in Nat /\ Len(cmds) \in Nat
         /\ Len(sent') = Len(sent) + Len(cmds)
         /\ DOMAIN sent = 1 .. Len(sent) /\ DOMAIN sent' = 1 .. Len(sent) + Len(cmds)
         /\ \A i \in 1 .. Len(sent) : sent'[i] = sent[i]
         /\ \A i \in 1 .. Len(cmds) : sent'[Len(sent) + i] = cmds[i]
         /\ WholeCommands'
         /\ InText => InText'
<1>1. sent \in Seq(Command) /\ handled \in Seq(Command) /\ got \in Positions /\ gone \in Positions
  BY DEF Types, ServerTypes, ParserTypes
<1>2. /\ sent' \in Seq(Command) /\ Len(sent) \in Nat /\ Len(cmds) \in Nat
      /\ Len(sent') = Len(sent) + Len(cmds)
      /\ \A i \in 1 .. Len(sent) : sent'[i] = sent[i]
      /\ \A i \in 1 .. Len(cmds) : sent'[Len(sent) + i] = cmds[i]
  BY <1>1, Joined DEF Write
<1>3. DOMAIN sent = 1 .. Len(sent) /\ DOMAIN sent' = 1 .. Len(sent) + Len(cmds)
  BY <1>1, <1>2, LenProperties
<1>4. WholeCommands'
  <2>1. ASSUME NoDisplayName' PROVE IsPrefix(handled, sent)' /\ (gone = HandledEnd)'
    <3>1. NoDisplayName
      BY <2>1 DEF NoDisplayName
    <3>2. IsPrefix(handled, sent) /\ gone = HandledEnd
      BY <3>1 DEF WholeCommands
    <3>3. IsPrefix(handled, sent \o cmds)
      BY <1>1, <3>2, PrefixLonger
    <3>4. (gone = HandledEnd)'
      BY <3>2 DEF HandledEnd
    <3> QED
      BY <3>3, <3>4 DEF Write
  <2> QED
    BY <2>1 DEF WholeCommands
<1>5. ASSUME InText PROVE InText'
  <2>1. /\ got.nr \in Nat /\ got.nr <= Len(sent) /\ gone.nr \in Nat /\ gone.nr <= Len(sent)
        /\ ~Before(got, gone) /\ Position(got)
    BY <1>1, <1>5 DEF InText, Positions
  <2>2. Position(got)'
    <3>1. ASSUME got.part > 0
          PROVE  got.nr < Len(sent') /\ got.part < NumParts(sent'[got.nr + 1].kind)
      <4>1. got.nr < Len(sent) /\ got.part < NumParts(sent[got.nr + 1].kind)
        BY <2>1, <3>1 DEF Position
      <4>2. sent'[got.nr + 1] = sent[got.nr + 1]
        <5>1. got.nr + 1 \in 1 .. Len(sent)
          BY <1>2, <2>1, <4>1
        <5> QED
          BY <1>2, <5>1, Zenon
      <4> QED
        BY <1>2, <2>1, <4>1, <4>2
    <3> QED
      BY <3>1 DEF Position
  <2>3. (~Before(got, gone))'
    BY <2>1 DEF Before
  <2>4. got.nr <= Len(sent') /\ gone.nr <= Len(sent')
    BY <1>2, <2>1
  <2> QED
    BY <2>2, <2>3, <2>4 DEF InText
<1> QED
  BY <1>2, <1>3, <1>4, <1>5

\* After the connection was announced, what the server writes is in its place.
LEMMA WrittenLate ==
  ASSUME ParserInv, loop = "running", Announced, NEW cmds \in Seq(Command), Write(cmds),
         \A i \in DOMAIN cmds : Late(cmds[i]),
         asked' \in Seq(Requests), LateAsked',
         link' \in {"up", "closed"}, online' \in BOOLEAN,
         UNCHANGED <<redirects, got, gone, hasCommand, parsing, toCome, handled, requests, loop,
                     signals>>
  PROVE  Kept
<1>1. Types /\ Running /\ LoggedIn
  BY DEF ParserInv, Running, InTurn
<1>2. /\ sent' \in Seq(Command) /\ Len(sent) \in Nat /\ Len(cmds) \in Nat
      /\ Len(sent') = Len(sent) + Len(cmds)
      /\ DOMAIN sent = 1 .. Len(sent) /\ DOMAIN sent' = 1 .. Len(sent) + Len(cmds)
      /\ \A i \in 1 .. Len(sent) : sent'[i] = sent[i]
      /\ \A i \in 1 .. Len(cmds) : sent'[Len(sent) + i] = cmds[i]
      /\ WholeCommands' /\ InText'
  BY <1>1, Written DEF ParserInv, Running
<1>3. ListEnd \in Nat /\ ListEnd >= 9 /\ Len(sent) >= ListEnd
  BY <1>1, ListSize DEF LoggedIn
<1>4. InPlace'
  <2>1. ASSUME NEW i \in DOMAIN sent' PROVE Expected(i, sent'[i])
    <3>1. CASE i \in 1 .. Len(sent)
      BY <1>1, <1>2, <3>1 DEF Running, InPlace
    <3>2. CASE i > Len(sent)
      <4>1. PICK j \in 1 .. Len(cmds) : i = Len(sent) + j
        <5>1. i - Len(sent) \in 1 .. Len(cmds) /\ i = Len(sent) + (i - Len(sent))
          BY <1>2, <3>2
        <5> QED
          BY <5>1
      <4>2. Late(sent'[i])
        <5>1. DOMAIN cmds = 1 .. Len(cmds)
          BY LenProperties
        <5> QED
          BY <1>2, <4>1, <5>1
      <4>3. i > ListEnd /\ i > 9 /\ i \in Nat
        BY <1>2, <1>3, <3>2
      <4> QED
        BY <1>3, <4>2, <4>3 DEF Expected
    <3> QED
      BY <1>2, <3>1, <3>2
  <2> QED
    BY <2>1 DEF InPlace, Expected, Late
<1>5. OnlyMore
  BY <1>1, SameSignals
<1>6. Types'
  <2>1. ServerTypes' /\ ParserTypes'
    BY <1>1, <1>2 DEF Types, ServerTypes, ParserTypes
  <2> QED
    BY <2>1 DEF Types
<1>7. AllTaken' /\ (~Before(got, gone))'
  BY <1>1 DEF Running, AllTaken, InText, Before
<1>8. gone'.nr >= gone.nr /\ Len(sent') >= Len(sent)
  <2>1. gone.nr \in Nat
    BY <1>1 DEF Types, ParserTypes, Positions
  <2> QED
    BY <1>2, <2>1
<1> QED
  BY <1>2, <1>4, <1>5, <1>6, <1>7, <1>8, LateStep

\* The stored list as it is written: its lines are commands.
LEMMA ListingTyped ==
  /\ Listing \in Seq(Command) /\ Len(Listing) = NumGroups + 2 * NumContacts
  /\ DOMAIN Listing = 1 .. NumGroups + 2 * NumContacts
<1>1. /\ NumGroups \in Nat /\ NumContacts \in Nat /\ ListEnd \in Nat
      /\ ListEnd = 9 + NumGroups + 2 * NumContacts
  BY ListSize
<1>2. PICK n \in Nat : n = NumGroups + 2 * NumContacts
  BY <1>1
<1>3. ASSUME NEW i \in 1 .. n PROVE Listing[i] \in Command
  <2>1. PICK m \in 10 .. ListEnd : i = m - 9
    <3>1. i + 9 \in 10 .. ListEnd /\ i = (i + 9) - 9
      BY <1>1, <1>2
    <3> QED
      BY <3>1
  <2>2. /\ m <= 9 + NumGroups => Listing[m - 9] = OfGroup("LSG", GroupList[m - 9])
                                 /\ m - 9 \in 1 .. NumGroups
        /\ m > 9 + NumGroups =>
             \/ \E j \in 1 .. NumContacts :
                  Listing[m - 9] = [kind |-> "LST", who |-> ContactList[j].who,
                                    group |-> ContactList[j].group]
             \/ Listing[m - 9] = Cmd("BPR")
    BY ListingAt
  <2>3. CASE m <= 9 + NumGroups
    <3>1. Listing[i] = OfGroup("LSG", GroupList[i]) /\ GroupList[i] \in Groups
      BY <2>1, <2>2, <2>3, ListElements
    <3> QED
      BY <3>1 DEF OfGroup, Command, Kinds, LineKinds
  <2>4. CASE m > 9 + NumGroups
    <3>1. CASE \E j \in 1 .. NumContacts :
                 Listing[m - 9] = [kind |-> "LST", who |-> ContactList[j].who,
                                   group |-> ContactList[j].group]
      BY <2>1, <3>1, ListElements DEF Command, Kinds, LineKinds
    <3>2. CASE Listing[m - 9] = Cmd("BPR")
      BY <2>1, <3>2 DEF Cmd, Command, Kinds, LineKinds
    <3> QED
      BY <2>2, <2>4, <3>1, <3>2
  <2> QED
    BY <1>1, <2>3, <2>4
<1>4. Listing = [i \in 1 .. n |-> Listing[i]]
  BY <1>2 DEF Listing, NumGroups, NumContacts
<1>5. Listing \in Seq(Command)
  BY <1>2, <1>3, <1>4, IsASeq
<1>6. DOMAIN Listing = 1 .. n
  BY <1>4
<1> QED
  BY <1>2, <1>5, <1>6, LenProperties

\* Before the connection was announced, an answer is what follows in its place.
LEMMA EarlyAnswer ==
  ASSUME NEW r \in Requests, NEW n \in Nat, AskedAfter(n, r.cmd), NEW a \in Answers(r)
  PROVE  /\ a \in Seq(Command)
         /\ \A j \in 1 .. Len(a) : Expected(n + j, a[j])
         /\ n \in {0, 1, 2, 3, 5} /\ r.cmd # "CHG"
         /\ n < 3 => Len(a) = 1
         /\ n = 3 => Len(a) \in {1, 2}
         /\ n = 5 => Len(a) = ListEnd - 5
<1>1. ListEnd \in Nat /\ ListEnd >= 9 /\ ListEnd = 9 + NumGroups + 2 * NumContacts
      /\ NumGroups \in Nat /\ NumContacts \in Nat
  BY ListSize
<1> DEFINE Lines == {"VER", "CVR", "GCF", "TWN", "XFR", "USR", "MSG", "ERR", "SYN", "GTC", "BLP",
                     "PRP"}
<1>2. \A k \in Lines : Cmd(k) \in Command /\ Cmd(k).kind = k /\ Cmd(k).who = "nobody"
  BY DEF Cmd, Command, Kinds, LineKinds
<1>3. CASE n = 0 /\ r.cmd = "VER"
  <2>1. a = <<Cmd("VER")>>
    BY <1>3 DEF Answers
  <2>2. Expected(1, Cmd("VER"))
    BY <1>1, <1>2 DEF Expected
  <2>3. Len(a) = 1 /\ a[1] = Cmd("VER") /\ a \in Seq(Command)
    BY <1>2, <2>1
  <2> QED
    BY <1>3, <2>2, <2>3
<1>4. CASE n = 1 /\ r.cmd = "CVR"
  <2>1. a = <<Cmd("CVR")>>
    BY <1>4 DEF Answers
  <2>2. Expected(2, Cmd("CVR"))
    BY <1>1, <1>2 DEF Expected
  <2>3. Len(a) = 1 /\ a[1] = Cmd("CVR") /\ a \in Seq(Command)
    BY <1>2, <2>1
  <2> QED
    BY <1>4, <2>2, <2>3
<1>5. CASE n = 2 /\ r.cmd = "USR I"
  <2>1. PICK k \in {"GCF", "TWN", "XFR"} : a = <<Cmd(k)>>
    BY <1>5 DEF Answers
  <2>2. Expected(3, Cmd(k))
    BY <1>1, <1>2 DEF Expected
  <2>3. Len(a) = 1 /\ a[1] = Cmd(k) /\ a \in Seq(Command)
    BY <1>2, <2>1
  <2>4. ASSUME NEW j \in 1 .. Len(a) PROVE n + j = 3 /\ a[j] = Cmd(k)
    <3>1. j = 1
      BY <2>3
    <3>2. n = 2
      BY <1>5, Zenon
    <3> QED
      BY <2>3, <3>1, <3>2
  <2>5. \A j \in 1 .. Len(a) : Expected(n + j, a[j])
    BY <2>2, <2>4, Zenon
  <2>6. r.cmd # "CHG" /\ n = 2
    BY <1>5
  <2> QED
    BY <2>3, <2>5, <2>6
<1>6. CASE n = 3 /\ r.cmd \in {"USR S", "USR S empty"}
  <2>1. a = <<Cmd("USR"), Cmd("MSG")>> \/ a = <<Cmd("ERR")>>
    BY <1>6 DEF Answers, Refusal
  <2>2. Expected(4, Cmd("USR")) /\ Expected(5, Cmd("MSG")) /\ Expected(4, Cmd("ERR"))
    BY <1>1, <1>2 DEF Expected
  <2>3. r.cmd # "CHG" /\ n = 3
    BY <1>6
  <2>4. CASE a = <<Cmd("USR"), Cmd("MSG")>>
    <3>1. Len(a) = 2 /\ a[1] = Cmd("USR") /\ a[2] = Cmd("MSG") /\ a \in Seq(Command)
      BY <1>2, <2>4
    <3>2. ASSUME NEW j \in 1 .. Len(a)
          PROVE  (n + j = 4 /\ a[j] = Cmd("USR")) \/ (n + j = 5 /\ a[j] = Cmd("MSG"))
      <4>1. j = 1 \/ j = 2
        BY <3>1
      <4> QED
        BY <2>3, <3>1, <4>1
    <3>3. \A j \in 1 .. Len(a) : Expected(n + j, a[j])
      BY <2>2, <3>2, Zenon
    <3> QED
      BY <2>3, <3>1, <3>3
  <2>5. CASE a = <<Cmd("ERR")>>
    <3>1. Len(a) = 1 /\ a[1] = Cmd("ERR") /\ a \in Seq(Command)
      BY <1>2, <2>5
    <3>2. ASSUME NEW j \in 1 .. Len(a) PROVE n + j = 4 /\ a[j] = Cmd("ERR")
      <4>1. j = 1
        BY <3>1
      <4> QED
        BY <2>3, <3>1, <4>1
    <3>3. \A j \in 1 .. Len(a) : Expected(n + j, a[j])
      BY <2>2, <3>2, Zenon
    <3> QED
      BY <2>3, <3>1, <3>3
  <2> QED
    BY <2>1, <2>4, <2>5
<1>7. CASE n = 5 /\ r.cmd = "SYN"
  <2>1. PICK p : p = <<Cmd("SYN"), Cmd("GTC"), Cmd("BLP"), Cmd("PRP")>>
    OBVIOUS
  <2>2. /\ p \in Seq(Command) /\ Len(p) = 4 /\ p[1] = Cmd("SYN") /\ p[2] = Cmd("GTC")
        /\ p[3] = Cmd("BLP") /\ p[4] = Cmd("PRP")
    BY <1>2, <2>1
  <2>3. a = p \o Listing
    BY <1>7, <2>1 DEF Answers
  <2>4. /\ a \in Seq(Command) /\ Len(a) = Len(p) + Len(Listing)
        /\ \A i \in 1 .. Len(p) : a[i] = p[i]
        /\ \A i \in 1 .. Len(Listing) : a[Len(p) + i] = Listing[i]
    <3>1. Listing \in Seq(Command) /\ p \in Seq(Command)
      BY <2>2, ListingTyped
    <3> QED
      BY <2>3, <3>1, Joined
  <2>5. Len(a) = ListEnd - 5 /\ Len(Listing) = ListEnd - 9
    BY <1>1, <2>2, <2>4, ListingTyped
  <2>6. ASSUME NEW j \in 1 .. Len(a) PROVE Expected(5 + j, a[j])
    <3>1. CASE j \in {1, 2, 3, 4}
      <4>1. a[j] = p[j]
        BY <2>2, <2>4, <3>1
      <4> QED
        BY <1>1, <1>2, <2>2, <3>1, <4>1 DEF Expected
    <3>2. CASE j > 4
      <4>1. PICK m : m = 5 + j
        OBVIOUS
      <4>2. m \in 10 .. ListEnd /\ ~(m > ListEnd) /\ m - 9 = j - 4 /\ j - 4 \in 1 .. Len(Listing)
        BY <1>1, <2>5, <3>2, <4>1
      <4>3. a[j] = Listing[m - 9]
        <5>1. PICK i \in 1 .. Len(Listing) : i = j - 4
          BY <4>2
        <5>2. a[Len(p) + i] = Listing[i] /\ Len(p) + i = j
          BY <2>2, <2>4, <5>1
        <5> QED
          BY <4>2, <5>1, <5>2, Zenon
      <4>4. \A i \in 1 .. 9 : m # i
        BY <4>2
      <4>5. Expected(m, a[j])
        BY <4>2, <4>3, <4>4 DEF Expected
      <4> QED
        BY <4>1, <4>5, Zenon
    <3>3. j > 4 \/ j \in {1, 2, 3, 4}
      BY <1>1, <2>5
    <3> QED
      BY <3>1, <3>2, <3>3
  <2>7. r.cmd # "CHG" /\ n = 5
    BY <1>7
  <2> QED
    BY <2>4, <2>5, <2>6, <2>7
<1> QED
  BY <1>3, <1>4, <1>5, <1>6, <1>7 DEF AskedAfter

\* Commands that come after the connection was announced.
AllLate(s) == s \in Seq(Command) /\ \A i \in DOMAIN s : Late(s[i])

\* One of them.
LEMMA LateOne ==
  ASSUME NEW c \in Command, Late(c)
  PROVE  AllLate(<<c>>)
BY DEF AllLate

\* And one after the other.
LEMMA LateJoined ==
  ASSUME NEW s, NEW t, AllLate(s), AllLate(t)
  PROVE  AllLate(s \o t)
<1>1. s \in Seq(Command) /\ t \in Seq(Command) /\ DOMAIN s = 1 .. Len(s) /\ DOMAIN t = 1 .. Len(t)
  BY LenProperties DEF AllLate
<1>2. /\ s \o t \in Seq(Command) /\ Len(s) \in Nat /\ Len(t) \in Nat
      /\ DOMAIN (s \o t) = 1 .. Len(s) + Len(t)
      /\ \A i \in 1 .. Len(s) : (s \o t)[i] = s[i]
      /\ \A i \in 1 .. Len(t) : (s \o t)[Len(s) + i] = t[i]
  BY <1>1, Joined
<1>3. ASSUME NEW i \in DOMAIN (s \o t) PROVE Late((s \o t)[i])
  <2>1. CASE i \in 1 .. Len(s)
    BY <1>1, <1>2, <2>1 DEF AllLate
  <2>2. CASE i > Len(s)
    <3>1. PICK j \in 1 .. Len(t) : i = Len(s) + j
      <4>1. i - Len(s) \in 1 .. Len(t) /\ i = Len(s) + (i - Len(s))
        BY <1>2, <2>2
      <4> QED
        BY <4>1
    <3> QED
      BY <1>1, <1>2, <3>1 DEF AllLate
  <2> QED
    BY <1>2, <2>1, <2>2
<1> QED
  BY <1>2, <1>3 DEF AllLate

\* The answers to what is asked after the connection was announced.
LEMMA LateAnswer ==
  ASSUME NEW r \in Requests, r.cmd \in LateRequests, NEW a \in Answers(r)
  PROVE  AllLate(a)
<1>1. r.who \in Contacts \union {"nobody"} /\ r.group \in Groups \union {NoGroup}
  BY DEF Requests
<1>2. \A k \in {"CHG", "CHL", "QRY", "ERR"} : Cmd(k) \in Command /\ Late(Cmd(k))
  BY DEF Cmd, Command, Kinds, LineKinds, Late, LateKinds
<1>3. \A k \in {"CHG", "CHL", "QRY", "ERR"} : AllLate(<<Cmd(k)>>)
  BY <1>2, LateOne
<1>4. CASE r.cmd = "CHG"
  <2>1. PICK on \in { <<>> } \union { <<About("ILN", c)>> : c \in Moving } :
          a = <<Cmd("CHG")>> \o on \o <<Cmd("CHL")>>
    BY <1>4 DEF Answers
  <2>2. AllLate(on)
    <3>1. CASE on = <<>>
      BY <3>1, EmptySeq DEF AllLate
    <3>2. CASE on \in { <<About("ILN", c)>> : c \in Moving }
      <4>1. PICK c \in Moving : on = <<About("ILN", c)>>
        BY <3>2
      <4>2. About("ILN", c) \in Command /\ Late(About("ILN", c))
        BY <4>1, KindsAssumption DEF About, Command, Kinds, LineKinds, Late, LateKinds
      <4> QED
        BY <4>1, <4>2, LateOne
    <3> QED
      BY <2>1, <3>1, <3>2
  <2>3. AllLate(<<Cmd("CHG")>> \o on)
    BY <1>3, <2>2, LateJoined
  <2> QED
    BY <1>3, <2>1, <2>3, LateJoined
<1>5. CASE r.cmd \in {"QRY", "status"}
  <2>1. a = <<Cmd("QRY")>> \/ a = <<Cmd("CHG")>>
    BY <1>5 DEF Answers
  <2> QED
    BY <1>3, <2>1
<1>6. ASSUME NEW c \in Command, c.kind \in {"ADN", "ADC", "REM", "ADG", "RMG"},
             a = <<c>> \/ a = <<Cmd("ERR")>>
      PROVE  AllLate(a)
  <2>1. Late(c)
    BY <1>6 DEF Late, LateKinds
  <2> QED
    BY <1>3, <1>6, <2>1, LateOne
<1>7. CASE r.cmd = "ADC"
  <2>1. PICK c : c = [kind |-> IF r.group = NoGroup THEN "ADN" ELSE "ADC",
                      who |-> r.who, group |-> r.group]
    OBVIOUS
  <2>2. c \in Command /\ c.kind \in {"ADN", "ADC"}
    BY <1>1, <2>1 DEF Command, Kinds, LineKinds
  <2>3. a = <<c>> \/ a = <<Cmd("ERR")>>
    BY <1>7, <2>1 DEF Answers, Refusal
  <2> QED
    BY <1>6, <2>2, <2>3
<1>8. CASE r.cmd \in {"ADC BL", "ADC AL"}
  <2>1. PICK c : c = About("ADC", r.who)
    OBVIOUS
  <2>2. c \in Command /\ c.kind = "ADC"
    BY <1>1, <2>1 DEF About, Command, Kinds, LineKinds
  <2>3. a = <<c>> \/ a = <<Cmd("ERR")>>
    BY <1>8, <2>1 DEF Answers, Refusal
  <2> QED
    BY <1>6, <2>2, <2>3
<1>9. CASE r.cmd = "REM"
  <2>1. PICK c : c = About("REM", r.who)
    OBVIOUS
  <2>2. c \in Command /\ c.kind = "REM"
    BY <1>1, <2>1 DEF About, Command, Kinds, LineKinds
  <2>3. a = <<c>> \/ a = <<Cmd("ERR")>>
    BY <1>9, <2>1 DEF Answers, Refusal
  <2> QED
    BY <1>6, <2>2, <2>3
<1>10. CASE r.cmd \in {"ADG", "RMG"}
  <2>1. PICK c : c = OfGroup(r.cmd, r.group)
    OBVIOUS
  <2>2. c \in Command /\ c.kind \in {"ADG", "RMG"}
    BY <1>1, <1>10, <2>1 DEF OfGroup, Command, Kinds, LineKinds
  <2>3. a = <<c>> \/ a = <<Cmd("ERR")>>
    BY <1>10, <2>1 DEF Answers, Refusal
  <2> QED
    BY <1>6, <2>2, <2>3
<1> QED
  BY <1>4, <1>5, <1>7, <1>8, <1>9, <1>10 DEF LateRequests

\* The server answers in its turn.
LEMMA AnswerStep == ASSUME ParserInv, ServerAnswers PROVE Kept
<1>1. PICK a \in Answers(Head(asked)) :
        /\ Write(a)
        /\ \/ link' = "closed" /\ asked' = <<>>
           \/ link' = link /\ asked' = Tail(asked)
  BY DEF ServerAnswers, parser
<1>2. /\ link = "up" /\ asked # <<>> /\ online' = (online \/ Head(asked).cmd = "CHG")
      /\ UNCHANGED <<redirects, got, gone, hasCommand, parsing, toCome, handled, requests, loop,
                     signals>>
  BY DEF ServerAnswers, parser
<1>3. (Announced' <=> Announced) /\ (Refused' <=> Refused) /\ Longer
  BY <1>2, SameSignals DEF ParserInv, Announced, Refused, OnlyMore
<1>4. Types /\ WholeCommands /\ ~Before(got, gone) /\ Steps /\ Reported
  BY DEF ParserInv
<1>5. asked \in Seq(Requests) /\ online \in BOOLEAN
  BY <1>4 DEF Types, ServerTypes
<1>6. /\ Len(asked) \in Nat /\ Len(asked) >= 1 /\ DOMAIN asked = 1 .. Len(asked)
      /\ Head(asked) \in Requests /\ Head(asked) = asked[1]
      /\ Tail(asked) \in Seq(Requests) /\ Len(Tail(asked)) = Len(asked) - 1
      /\ DOMAIN Tail(asked) = 1 .. Len(asked) - 1
      /\ \A i \in 1 .. Len(asked) - 1 : Tail(asked)[i] = asked[i + 1]
  BY <1>2, <1>5, Taken
<1>7. /\ asked' \in Seq(Requests) /\ link' \in {"up", "closed"} /\ online' \in BOOLEAN
  BY <1>1, <1>2, <1>5, <1>6, EmptySeq DEF Types, ServerTypes
<1>8. a \in Seq(Command)
  <2>1. PICK r \in Requests : r = Head(asked)
    BY <1>6
  <2>2. CASE r.cmd \in LateRequests
    BY <1>1, <2>1, <2>2, LateAnswer DEF AllLate
  <2>3. CASE r.cmd \in RequestNames
    <3>1. PICK n \in Nat : AskedAfter(n, r.cmd)
      <4>1. \/ AskedAfter(0, r.cmd) \/ AskedAfter(1, r.cmd) \/ AskedAfter(2, r.cmd)
            \/ AskedAfter(3, r.cmd) \/ AskedAfter(5, r.cmd)
        BY <2>3 DEF AskedAfter, RequestNames
      <4> QED
        BY <4>1
    <3> QED
      BY <1>1, <2>1, <3>1, EarlyAnswer
  <2> QED
    BY <2>2, <2>3 DEF Requests
<1>9. /\ sent' \in Seq(Command) /\ Len(sent) \in Nat /\ Len(a) \in Nat
      /\ Len(sent') = Len(sent) + Len(a)
      /\ DOMAIN sent = 1 .. Len(sent) /\ DOMAIN sent' = 1 .. Len(sent) + Len(a)
      /\ \A i \in 1 .. Len(sent) : sent'[i] = sent[i]
      /\ \A i \in 1 .. Len(a) : sent'[Len(sent) + i] = a[i]
      /\ WholeCommands' /\ (InText => InText')
  BY <1>1, <1>2, <1>4, <1>8, Written
<1>10. Types'
  <2>1. ServerTypes'
    BY <1>2, <1>4, <1>7, <1>9 DEF Types, ServerTypes
  <2> QED
    BY <1>2, <1>3, <1>4, <2>1 DEF Types, ParserTypes
<1>11. (~Before(got, gone))' /\ Steps' /\ Reported'
  BY <1>2, <1>3, <1>4 DEF Before, Steps, Step, Reported, InReport
<1>12. CASE loop # "running"
  BY <1>2, <1>3, <1>9, <1>10, <1>11, <1>12 DEF ParserInv, Kept
<1>13. CASE loop = "running" /\ ~Announced
  <2>1. Running /\ Early /\ Unanswered /\ ~Refused
    BY <1>2, <1>13 DEF ParserInv, Running, InTurn, Early, Silent
  <2>2. PICK n \in Nat : n = gone.nr
    BY <1>4 DEF Types, ParserTypes, Positions
  <2>3. Len(asked) = 1 /\ Len(sent) = n /\ AskedAfter(n, Head(asked).cmd)
    BY <1>6, <2>1, <2>2, Zenon DEF Unanswered
  <2>4. /\ \A j \in 1 .. Len(a) : Expected(n + j, a[j])
        /\ n \in {0, 1, 2, 3, 5} /\ Head(asked).cmd # "CHG"
        /\ n < 3 => Len(a) = 1
        /\ n = 3 => Len(a) \in {1, 2}
        /\ n = 5 => Len(a) = ListEnd - 5
    <3>1. PICK r \in Requests : r = Head(asked)
      BY <1>6
    <3>2. AskedAfter(n, r.cmd) /\ a \in Answers(r)
      BY <1>1, <2>3, <3>1, Zenon
    <3> QED
      BY <3>1, <3>2, EarlyAnswer
  <2>5. InPlace'
    <3>1. ASSUME NEW i \in DOMAIN sent' PROVE Expected(i, sent'[i])
      <4>1. CASE i \in 1 .. Len(sent)
        BY <1>9, <2>1, <4>1 DEF Running, InPlace
      <4>2. CASE i > Len(sent)
        <5>1. PICK j \in 1 .. Len(a) : i = Len(sent) + j
          <6>1. i - Len(sent) \in 1 .. Len(a) /\ i = Len(sent) + (i - Len(sent))
            BY <1>9, <4>2
          <6> QED
            BY <6>1
        <5>2. sent'[i] = a[j] /\ i = n + j
          BY <1>9, <2>3, <5>1
        <5>3. Expected(n + j, a[j])
          BY <2>4
        <5> QED
          BY <5>2, <5>3, Zenon
      <4> QED
        BY <1>9, <4>1, <4>2
    <3> QED
      BY <3>1 DEF InPlace, Expected, Late
  <2>6. InTurn'
    <3>1. asked' = <<>>
      <4>1. CASE asked' = Tail(asked)
        <5>1. Len(Tail(asked)) = 0
          BY <1>6, <2>3
        <5> QED
          BY <1>6, <4>1, <5>1, EmptySeq
      <4> QED
        BY <1>1, <4>1
    <3>2. ~online'
      BY <1>2, <2>1, <2>4 DEF Early
    <3>3. ListEnd \in Nat /\ Len(sent') = n + Len(a) /\ gone'.nr = n
      BY <1>2, <1>9, <2>2, <2>3, ListSize
    <3>4. /\ n < 3 => Len(sent') <= n + 1
          /\ n \in {3, 4} => Len(sent') <= 5
          /\ n >= 5 => Len(sent') \in {5, ListEnd}
      <4>1. CASE n < 3
        <5>1. Len(sent') = n + 1
          BY <2>4, <3>3, <4>1
        <5> QED
          BY <4>1, <5>1
      <4>2. CASE n = 3
        BY <2>4, <3>3, <4>2
      <4>3. CASE n = 5
        <5>1. Len(sent') = ListEnd
          BY <2>4, <3>3, <4>3
        <5> QED
          BY <4>3, <5>1
      <4>4. n < 3 \/ n = 3 \/ n = 5
        BY <2>4
      <4> QED
        BY <4>1, <4>2, <4>3, <4>4
    <3>5. NumContacts > 0 => n < ListEnd - 1
      BY <2>1, <2>2 DEF Early
    <3>6. Early'
      BY <3>1, <3>2, <3>3, <3>4, <3>5 DEF Early
    <3> QED
      BY <1>3, <1>13, <2>1, <3>6 DEF InTurn
  <2>7. InText' /\ AllTaken' /\ InStep' /\ SignalsSoFar'
    BY <1>2, <1>3, <1>9, <2>1
       DEF Running, AllTaken, InStep, Stage, SignalsSoFar
  <2> QED
    BY <1>3, <1>9, <1>10, <1>11, <2>5, <2>6, <2>7 DEF ParserInv, Running, Kept
<1>14. CASE loop = "running" /\ Announced
  <2>1. LateAsked
    BY <1>14 DEF ParserInv, Running, InTurn, LoggedIn
  <2>2. Head(asked).cmd \in LateRequests
    BY <1>6, <2>1 DEF LateAsked
  <2>3. AllLate(a)
    BY <1>1, <1>6, <2>2, LateAnswer
  <2>4. LateAsked'
    <3>1. CASE asked' = <<>>
      BY <3>1 DEF LateAsked
    <3>2. CASE asked' = Tail(asked)
      <4>1. ASSUME NEW i \in DOMAIN asked' PROVE asked'[i].cmd \in LateRequests
        <5>1. i \in 1 .. Len(asked) - 1 /\ i + 1 \in DOMAIN asked
          BY <1>6, <3>2
        <5>2. asked'[i] = asked[i + 1]
          BY <1>6, <3>2, <5>1
        <5> QED
          BY <2>1, <5>1, <5>2 DEF LateAsked
      <4> QED
        BY <4>1 DEF LateAsked
    <3> QED
      BY <1>1, <3>1, <3>2
  <2>5. \A i \in DOMAIN a : Late(a[i])
    BY <2>3 DEF AllLate
  <2> QED
    BY <1>1, <1>2, <1>7, <1>8, <1>14, <2>4, <2>5, WrittenLate
<1> QED
  BY <1>12, <1>13, <1>14

\* What it pushes it pushes when the client is online.
LEMMA PushStep == ASSUME ParserInv, ServerPushes PROVE Kept
<1>1. PICK k \in Pushes : \E c \in Pushed(k) : Write(<<c>>)
  BY DEF ServerPushes, parser
<1>2. PICK c \in Pushed(k) : Write(<<c>>)
  BY <1>1
<1>3. /\ link = "up" /\ online
      /\ UNCHANGED <<asked, link, online, redirects, got, gone, hasCommand, parsing, toCome,
                     handled, requests, loop, signals>>
  BY DEF ServerPushes, parser
<1>4. k \in {"NLN", "FLN", "UBX", "MSG", "NOT", "OUT", "ADN", "REM"}
  BY KindsAssumption
<1>5. c \in Command /\ Late(c)
  <2>1. CASE k \in {"NOT", "OUT"}
    <3>1. c = Cmd(k)
      BY <1>2, <2>1 DEF Pushed
    <3> QED
      BY <2>1, <3>1 DEF Cmd, Command, Kinds, LineKinds, Late, LateKinds
  <2>2. CASE k \notin {"NOT", "OUT"}
    <3>1. PICK d \in Moving : c = About(k, d)
      BY <1>2, <2>2 DEF Pushed
    <3>2. d \in Contacts /\ d # "nobody"
      BY KindsAssumption, ListAssumption
    <3> QED
      BY <1>4, <3>1, <3>2 DEF About, Command, Kinds, LineKinds, Late, LateKinds
  <2> QED
    BY <2>1, <2>2
<1>6. AllLate(<<c>>)
  BY <1>5, LateOne
<1>7. PICK cmds : cmds = <<c>>
  OBVIOUS
<1>8. cmds \in Seq(Command) /\ (\A i \in DOMAIN cmds : Late(cmds[i])) /\ Write(cmds)
  BY <1>2, <1>6, <1>7 DEF AllLate
<1>9. Types /\ WholeCommands /\ ~Before(got, gone) /\ Steps /\ Reported
  BY DEF ParserInv
<1>10. asked' \in Seq(Requests) /\ link' \in {"up", "closed"} /\ online' \in BOOLEAN
  BY <1>3, <1>9 DEF Types, ServerTypes
<1>11. CASE loop # "running"
  <2>1. sent' \in Seq(Command) /\ WholeCommands'
    BY <1>3, <1>8, <1>9, Written
  <2>2. Longer
    BY <1>3, <1>9, SameSignals DEF OnlyMore
  <2>3. Types'
    BY <1>3, <1>9, <2>1 DEF Types, ServerTypes, ParserTypes
  <2>4. (~Before(got, gone))' /\ Steps' /\ Reported'
    BY <1>3, <1>9 DEF Before, Steps, Step, Reported, Refused, InReport
  <2> QED
    BY <1>3, <1>11, <2>1, <2>2, <2>3, <2>4 DEF ParserInv, Kept
<1>12. CASE loop = "running"
  <2>1. Running
    BY <1>12 DEF ParserInv
  <2>2. Announced
    BY <1>3, <1>9, <2>1 DEF Running, InTurn, Early, Types
  <2>3. LateAsked'
    BY <1>3, <2>1, <2>2 DEF Running, InTurn, LoggedIn, LateAsked
  <2> QED
    BY <1>3, <1>8, <1>10, <1>12, <2>2, <2>3, WrittenLate
<1> QED
  BY <1>11, <1>12

\* When the server closes the connection, it answers nothing more.
LEMMA CloseStep == ASSUME ParserInv, ServerCloses PROVE Kept
<1>1. /\ link' = "closed" /\ asked' = <<>>
      /\ UNCHANGED <<sent, got, online, redirects, gone, hasCommand, parsing, toCome, handled,
                     requests, loop, signals>>
  BY DEF ServerCloses, parser
<1>2. (Announced' <=> Announced) /\ (Refused' <=> Refused) /\ Longer
  BY <1>1, SameSignals DEF ParserInv, Announced, Refused, OnlyMore
<1>3. Types'
  BY <1>1, <1>2, EmptySeq DEF ParserInv, Types, ServerTypes, ParserTypes
<1>4. WholeCommands' /\ (~Before(got, gone))' /\ Steps' /\ Reported'
  BY <1>1, <1>2 DEF ParserInv, WholeCommands, NoDisplayName, HandledEnd, Before, Steps, Step,
                    Reported, InReport
<1>5. ASSUME Running PROVE Running'
  <2>1. InPlace' /\ InText' /\ AllTaken' /\ InStep' /\ SignalsSoFar'
    BY <1>1, <1>2, <1>5 DEF Running, InPlace, InText, Position, Before, AllTaken, InStep, Stage,
                            SignalsSoFar
  <2>2. InTurn'
    <3>1. LateAsked'
      BY <1>1 DEF LateAsked
    <3> QED
      BY <1>1, <1>2, <1>5, <3>1 DEF Running, InTurn, Early, LoggedIn, Silent
  <2> QED
    BY <2>1, <2>2 DEF Running
<1> QED
  BY <1>1, <1>2, <1>3, <1>4, <1>5 DEF ParserInv, Kept

\* The parser reads more of what was sent.
LEMMA ReadStep == ASSUME ParserInv, Read PROVE Kept
<1>1. PICK p \in [nr: got.nr .. Len(sent), part: 0 .. 4] :
        Position(p) /\ Before(got, p) /\ Feed(p)
  BY DEF Read
<1>2. /\ loop = "running" /\ parsing' = TRUE /\ hasCommand' = TRUE /\ got' = p
      /\ UNCHANGED <<server, gone, toCome, handled, requests, loop, signals>>
  BY <1>1 DEF Read, Feed
<1>3. /\ UNCHANGED <<sent, asked, link, online, redirects, gone, toCome, handled, requests, loop>>
      /\ (Announced' <=> Announced) /\ (Refused' <=> Refused) /\ Longer
  BY <1>2, SameSignals DEF server, ParserInv, Announced, Refused, OnlyMore
<1>4. Types /\ Running
  BY <1>2 DEF ParserInv
<1>5. /\ got \in Positions /\ gone \in Positions /\ Len(sent) \in Nat
  BY <1>4, LenProperties DEF Types, ServerTypes, ParserTypes
<1>6. p \in Positions /\ p.nr <= Len(sent)
  BY <1>5 DEF Positions
<1>7. ~Before(p, gone)
  BY <1>1, <1>4, <1>5, <1>6 DEF Running, InText, Before, Positions
<1>8. Types'
  BY <1>2, <1>3, <1>4, <1>6 DEF Types, ServerTypes, ParserTypes
<1>9. WholeCommands' /\ (~Before(got, gone))' /\ Steps' /\ Reported'
  <2>1. WholeCommands' /\ Steps' /\ Reported'
    BY <1>2, <1>3 DEF ParserInv, WholeCommands, NoDisplayName, HandledEnd, Steps, Step, Reported,
                      InReport
  <2> QED
    BY <1>2, <1>3, <1>7, <2>1 DEF Before
<1>10. InPlace' /\ InText' /\ AllTaken'
  <2>1. InPlace'
    BY <1>3, <1>4 DEF Running, InPlace
  <2>2. Position(got)'
    BY <1>1, <1>2, <1>3 DEF Position
  <2>3. InText'
    BY <1>2, <1>3, <1>4, <1>6, <1>9, <2>2 DEF Running, InText
  <2> QED
    BY <1>2, <2>1, <2>3 DEF AllTaken
<1>11. InTurn' /\ InStep' /\ SignalsSoFar'
  BY <1>2, <1>3, <1>4 DEF Running, InTurn, Early, Unanswered, LoggedIn, LateAsked, InStep, Stage,
                          SignalsSoFar, Silent
<1> QED
  BY <1>3, <1>8, <1>9, <1>10, <1>11 DEF ParserInv, Running, Kept

\* When there is nothing more to read, init returns.
LEMMA ReadFailsStep == ASSUME ParserInv, ReadFails PROVE Kept
<1>1. /\ loop' = "returned"
      /\ UNCHANGED <<server, got, gone, hasCommand, parsing, toCome, handled, requests, signals>>
  BY DEF ReadFails, parser
<1>2. /\ UNCHANGED <<sent, asked, link, online, redirects>>
      /\ Longer
  BY <1>1, SameSignals DEF server, ParserInv, OnlyMore
<1> QED
  BY <1>1, <1>2 DEF ParserInv, Types, ServerTypes, ParserTypes, WholeCommands, NoDisplayName,
                    HandledEnd, Before, Steps, Step, Reported, Refused, InReport, Kept


-----------------------------------------------------------------------------
(* The main thread: what it was told, whatever the parser's thread does *)

\* Steps of the main thread leave the parser where it is, unless it uses what they deleted.
LEMMA ParserRests ==
  ASSUME ParserInv, UNCHANGED <<server, got, parser>>, loop' \in {loop, "undefined"}
  PROVE  Kept
<1>1. UNCHANGED <<sent, asked, link, online, redirects, got, gone, hasCommand, parsing, toCome,
                  handled, requests, signals>>
  BY DEF server, parser
<1>2. (Announced' <=> Announced) /\ (Refused' <=> Refused) /\ Longer
  BY <1>1, SameSignals DEF ParserInv, Announced, Refused, OnlyMore
<1>3. Types' /\ WholeCommands' /\ (~Before(got, gone))' /\ Steps' /\ Reported'
  BY <1>1, <1>2 DEF ParserInv, Types, ServerTypes, ParserTypes, WholeCommands, NoDisplayName,
                    HandledEnd, Before, Steps, Step, Reported, InReport
<1>4. ASSUME Running PROVE Running'
  <2>1. InPlace' /\ InText' /\ AllTaken' /\ InStep' /\ SignalsSoFar'
    BY <1>1, <1>2, <1>4 DEF Running, InPlace, InText, Position, Before, AllTaken, InStep, Stage,
                            SignalsSoFar
  <2>2. InTurn'
    BY <1>1, <1>2, <1>4 DEF Running, InTurn, Early, Unanswered, LoggedIn, LateAsked, Silent
  <2> QED
    BY <2>1, <2>2 DEF Running
<1> QED
  BY <1>2, <1>3, <1>4 DEF ParserInv, Kept

\* Signals that the parser adds to the queue change nothing of what was told.
LEMMA MainRests ==
  ASSUME ParserInv, MainInv, UNCHANGED main, Longer
  PROVE  MainInv'
<1>1. UNCHANGED <<taken, groups, contacts, listed, connected, goodbyes>>
  BY DEF main, session
<1>2. /\ Len(signals) \in Nat /\ Len(signals') \in Nat /\ Len(signals') >= Len(signals)
      /\ Ready \in Nat /\ Types
  BY LenProperties, ListSize DEF ParserInv, Types, ParserTypes, Longer
<1>3. taken \in 0 .. Len(signals) /\ taken' \in 0 .. Len(signals')
  BY <1>1, <1>2 DEF MainInv
<1>4. taken > Ready => (Refused' <=> Refused)
  <2>1. taken > Ready => Len(signals) > 0
    BY <1>2, <1>3
  <2> QED
    BY <1>2, <2>1, StillSo
<1>5. ~Refused' => Heard'
  <2>1. ~Refused' => ~Refused
    BY <1>2, StillSo
  <2> QED
    BY <1>1, <2>1 DEF MainInv, Heard, Told
<1>6. ConnectedMeansRoster' /\ SessionTypes'
  BY <1>1 DEF MainInv, ConnectedMeansRoster, SessionTypes
<1>7. connected' = IF taken' > Ready /\ ~Refused' THEN 1 ELSE 0
  BY <1>1, <1>4 DEF MainInv
<1> QED
  BY <1>3, <1>5, <1>6, <1>7 DEF MainInv

\* What was told of the list stays so when more is told.
LEMMA RosterGrows ==
  ASSUME MainInv, groups \subseteq groups', listed' \in Seq(Listed), Len(listed') >= Len(listed),
         \A i \in 1 .. Len(listed) : listed'[i] = listed[i],
         \A c \in Contacts : contacts[c] # "absent" => contacts'[c] # "absent",
         connected' = connected
  PROVE  /\ ConnectedMeansRoster'
         /\ \A n \in Nat : n <= NumContacts /\ Told(n) => Told(n)'
<1>1. Len(listed) \in Nat /\ Len(listed') \in Nat
  BY LenProperties DEF MainInv, SessionTypes
<1>2. NumContacts \in Nat /\ \A i \in 1 .. NumContacts : ContactList[i].who \in Contacts
  BY ListElements, ListSize
<1>3. ASSUME NEW n \in Nat, n <= NumContacts, Told(n) PROVE Told(n)'
  <2>1. \A i \in 1 .. n : listed'[i].who = ContactList[i].who
    BY <1>1, <1>2, <1>3 DEF Told
  <2>2. \A i \in 1 .. n : contacts'[ContactList[i].who] # "absent"
    BY <1>1, <1>2, <1>3 DEF Told
  <2>3. Len(listed') >= n
    BY <1>1, <1>3 DEF Told
  <2> QED
    BY <2>1, <2>2, <2>3 DEF Told
<1>4. ConnectedMeansRoster'
  <2>1. DOMAIN ContactList = 1 .. NumContacts /\ Len(ContactList) = NumContacts
    BY ListAssumption, LenProperties DEF NumContacts
  <2>2. CASE connected = 1
    <3>1. Told(NumContacts) /\ Range(GroupList) \subseteq groups
      BY <2>1, <2>2 DEF MainInv, ConnectedMeansRoster, Told
    <3>2. Told(NumContacts)'
      BY <1>2, <1>3, <3>1
    <3> QED
      BY <2>1, <2>2, <3>1, <3>2 DEF ConnectedMeansRoster, Told
  <2>3. CASE connected # 1
    BY <2>3 DEF MainInv, ConnectedMeansRoster
  <2> QED
    BY <2>2, <2>3
<1> QED
  BY <1>3, <1>4

\* The place of a signal that is taken says what it is.
LEMMA AtQueue ==
  ASSUME ParserInv, MainInv, NEW name, TakeSignal(name)
  PROVE  /\ UNCHANGED <<server, got, parser>> /\ signals' = signals /\ (Refused' <=> Refused)
         /\ taken \in Nat /\ taken' = taken + 1 /\ taken' \in 0 .. Len(signals')
         /\ FrontSignal \in Signals /\ FrontSignal.name = name
         /\ Refused => name = "disconnected"
         /\ ~Refused => InReport(taken + 1, FrontSignal)
         /\ Ready \in Nat /\ NumGroups \in Nat /\ NumContacts \in Nat
         /\ Ready = NumGroups + NumContacts
<1>1. /\ taken < Len(signals) /\ signals[taken + 1].name = name /\ taken' = taken + 1
      /\ UNCHANGED <<server, got, parser>>
  BY DEF TakeSignal
<1>2. signals' = signals
  BY <1>1 DEF parser
<1>3. signals \in Seq(Signals) /\ Reported /\ taken \in 0 .. Len(signals)
  BY DEF ParserInv, Types, ParserTypes, MainInv
<1>4. Len(signals) \in Nat /\ DOMAIN signals = 1 .. Len(signals)
  BY <1>3, LenProperties
<1>5. taken \in Nat /\ taken + 1 \in DOMAIN signals /\ taken' \in 0 .. Len(signals')
  BY <1>1, <1>2, <1>3, <1>4
<1>6. FrontSignal \in Signals /\ FrontSignal = signals[taken + 1]
  BY <1>3, <1>4, <1>5, ElementOfSeq DEF FrontSignal
<1>7. /\ Refused => name = "disconnected"
      /\ ~Refused => InReport(taken + 1, FrontSignal)
  BY <1>1, <1>3, <1>5, <1>6 DEF Reported
<1> QED
  BY <1>1, <1>2, <1>5, <1>6, <1>7, ListSize DEF Refused

\* What is told after the connection, and that of a session that has not begun, tells nothing of
\* the list.
LEMMA ToldLater ==
  ASSUME ParserInv, MainInv, NEW name, TakeSignal(name), name # "connected",
         Refused \/ taken + 1 > Ready + 1, SessionTypes', ConnectedMeansRoster',
         groups \subseteq groups', connected' = connected
  PROVE  MainInv'
<1>1. /\ (Refused' <=> Refused) /\ taken \in Nat /\ taken' = taken + 1 /\ taken' \in 0 .. Len(signals')
      /\ Ready \in Nat /\ NumGroups \in Nat /\ NumContacts \in Nat /\ Ready = NumGroups + NumContacts
  BY AtQueue
<1>2. connected' = IF taken' > Ready /\ ~Refused' THEN 1 ELSE 0
  BY <1>1 DEF MainInv
<1>3. ~Refused' => Heard'
  <2>1. ASSUME ~Refused PROVE Heard'
    <3>1. taken > Ready /\ Heard
      BY <1>1, <2>1 DEF MainInv
    <3>2. ~(taken' <= Ready + 1) /\ ~(taken' <= NumGroups) /\ ~(taken' <= Ready)
      BY <1>1, <3>1
    <3>3. \A i \in 1 .. NumGroups : GroupList[i] \in groups'
      BY <1>1, <3>1 DEF Heard
    <3> QED
      BY <3>2, <3>3 DEF Heard
  <2> QED
    BY <1>1, <2>1
<1> QED
  BY <1>1, <1>2, <1>3 DEF MainInv

\* A group: the next of the list, or a later one.
LEMMA GroupSlot == ASSUME ParserInv, MainInv, newGroupArrived PROVE MainInv'
<1>1. TakeSignal("newGroupArrived")
  BY DEF newGroupArrived
<1>2. /\ groups' = groups \union {FrontSignal.group}
      /\ UNCHANGED <<contacts, listed, connected, goodbyes>>
  BY DEF newGroupArrived
<1>3. /\ (Refused' <=> Refused) /\ taken \in Nat /\ taken' = taken + 1 /\ taken' \in 0 .. Len(signals')
      /\ FrontSignal \in Signals /\ FrontSignal.name = "newGroupArrived"
      /\ ~Refused /\ InReport(taken + 1, FrontSignal)
      /\ Ready \in Nat /\ NumGroups \in Nat /\ NumContacts \in Nat /\ Ready = NumGroups + NumContacts
  BY <1>1, AtQueue
<1>4. SessionTypes /\ Len(listed) \in Nat
  BY LenProperties DEF MainInv, SessionTypes
<1>5. SessionTypes'
  <2>1. FrontSignal.group \in Groups \union {NoGroup}
    BY <1>3, SignalFields
  <2> QED
    BY <1>2, <1>4, <2>1 DEF SessionTypes
<1>6. ConnectedMeansRoster'
  BY <1>2, <1>4, RosterGrows DEF SessionTypes
<1>7. \/ taken + 1 <= NumGroups /\ FrontSignal.group = GroupList[taken + 1]
      \/ taken + 1 > Ready + 1
  BY <1>3 DEF InReport
<1>8. CASE taken + 1 > Ready + 1
  BY <1>1, <1>2, <1>5, <1>6, <1>8, ToldLater
<1>9. CASE taken + 1 <= NumGroups /\ FrontSignal.group = GroupList[taken + 1]
  <2>1. Heard
    BY <1>3 DEF MainInv
  <2>2. connected' = IF taken' > Ready /\ ~Refused' THEN 1 ELSE 0
    BY <1>2, <1>3, <1>9 DEF MainInv
  <2>3. ASSUME NEW i \in 1 .. NumGroups, i <= taken' PROVE GroupList[i] \in groups'
    <3>1. i <= taken \/ i = taken + 1
      BY <1>3, <2>3
    <3>2. CASE i <= taken
      BY <1>2, <2>1, <2>3, <3>2 DEF Heard
    <3>3. CASE i = taken + 1
      BY <1>2, <1>9, <3>3
    <3> QED
      BY <3>1, <3>2, <3>3
  <2>4. goodbyes' = <<>> /\ Len(listed') = 0
    <3>1. taken <= Ready + 1 /\ taken <= NumGroups
      BY <1>3, <1>9
    <3> QED
      BY <1>2, <2>1, <3>1 DEF Heard
  <2>5. taken' >= NumGroups /\ taken' <= Ready =>
          Len(listed') = taken' - NumGroups /\ Told(taken - NumGroups)'
    <3>1. ASSUME taken' >= NumGroups PROVE taken' - NumGroups = 0
      BY <1>3, <1>9, <3>1
    <3>2. taken' - NumGroups = 0 => Told(taken - NumGroups)'
      BY <2>4 DEF Told
    <3> QED
      BY <2>4, <3>1, <3>2
  <2>6. Heard'
    BY <2>3, <2>4, <2>5 DEF Heard
  <2> QED
    BY <1>3, <1>5, <1>6, <2>2, <2>6 DEF MainInv
<1> QED
  BY <1>7, <1>8, <1>9

\* A contact: the next of the list, or a later one.
LEMMA ContactSlot == ASSUME ParserInv, MainInv, newContactArrived PROVE MainInv'
<1>1. TakeSignal("newContactArrived")
  BY DEF newContactArrived
<1>2. /\ listed' = Append(listed, [who |-> FrontSignal.who, group |-> GroupName(FrontSignal.group)])
      /\ contacts' = [contacts EXCEPT ![FrontSignal.who] = "off"]
      /\ UNCHANGED <<groups, connected, goodbyes>>
  BY DEF newContactArrived
<1>3. /\ (Refused' <=> Refused) /\ taken \in Nat /\ taken' = taken + 1 /\ taken' \in 0 .. Len(signals')
      /\ FrontSignal \in Signals /\ FrontSignal.name = "newContactArrived"
      /\ ~Refused /\ InReport(taken + 1, FrontSignal)
      /\ Ready \in Nat /\ NumGroups \in Nat /\ NumContacts \in Nat /\ Ready = NumGroups + NumContacts
  BY <1>1, AtQueue
<1>4. /\ groups \subseteq Groups \union {NoGroup} /\ contacts \in [Contacts -> Statuses]
      /\ listed \in Seq(Listed)
  BY DEF MainInv, SessionTypes
<1>5. PICK e : e = [who |-> FrontSignal.who, group |-> GroupName(FrontSignal.group)]
  OBVIOUS
<1>6. e \in Listed /\ e.who = FrontSignal.who
  <2>1. FrontSignal.who \in Contacts \union {"nobody"}
    BY <1>3, SignalFields
  <2>2. GroupName(FrontSignal.group) \in Groups \union {NoGroup}
    BY <1>4 DEF GroupName
  <2> QED
    BY <1>5, <2>1, <2>2 DEF Listed
<1>7. /\ listed' \in Seq(Listed) /\ Len(listed) \in Nat /\ Len(listed') = Len(listed) + 1
      /\ \A i \in 1 .. Len(listed) : listed'[i] = listed[i]
      /\ listed'[Len(listed) + 1] = e
  <2>1. listed' = Append(listed, e)
    BY <1>2, <1>5
  <2> QED
    BY <1>4, <1>6, <2>1, Appended
<1>8. /\ contacts' \in [Contacts -> Statuses]
      /\ FrontSignal.who \in Contacts => contacts'[FrontSignal.who] = "off"
      /\ \A d \in Contacts : contacts[d] # "absent" => contacts'[d] # "absent"
  BY <1>2, <1>4 DEF Statuses
<1>9. SessionTypes'
  BY <1>2, <1>4, <1>7, <1>8 DEF SessionTypes
<1>10. /\ ConnectedMeansRoster'
       /\ \A n \in Nat : n <= NumContacts /\ Told(n) => Told(n)'
  BY <1>2, <1>7, <1>8, RosterGrows
<1>11. \/ /\ taken + 1 > NumGroups /\ taken + 1 <= Ready
          /\ FrontSignal.who = ContactList[taken + 1 - NumGroups].who
       \/ taken + 1 > Ready + 1
  BY <1>3 DEF InReport
<1>12. CASE taken + 1 > Ready + 1
  BY <1>1, <1>2, <1>9, <1>10, <1>12, ToldLater
<1>13. CASE /\ taken + 1 > NumGroups /\ taken + 1 <= Ready
            /\ FrontSignal.who = ContactList[taken + 1 - NumGroups].who
  <2>1. Heard
    BY <1>3 DEF MainInv
  <2>2. connected' = IF taken' > Ready /\ ~Refused' THEN 1 ELSE 0
    BY <1>2, <1>3, <1>13 DEF MainInv
  <2>3. PICK n \in Nat : n = taken - NumGroups
    BY <1>3, <1>13
  <2>4. /\ n + 1 = taken' - NumGroups /\ n + 1 = taken + 1 - NumGroups
        /\ n + 1 \in 1 .. NumContacts /\ n <= NumContacts
    BY <1>3, <1>13, <2>3
  <2>5. Len(listed) = n /\ Told(n)
    BY <1>3, <1>13, <2>1, <2>3 DEF Heard
  <2>6. Told(n + 1)'
    <3>1. Told(n)'
      BY <1>10, <2>4, <2>5
    <3>2. ContactList[n + 1].who \in Contacts /\ ContactList[n + 1].who = FrontSignal.who
      BY <1>13, <2>4, ListElements
    <3>3. ASSUME NEW i \in 1 .. n + 1
          PROVE  listed'[i].who = ContactList[i].who /\ contacts'[ContactList[i].who] # "absent"
      <4>1. CASE i \in 1 .. n
        BY <3>1, <4>1 DEF Told
      <4>2. CASE i = n + 1
        BY <1>6, <1>7, <1>8, <2>5, <3>2, <4>2
      <4> QED
        BY <4>1, <4>2
    <3>4. Len(listed') >= n + 1
      BY <1>7, <2>5
    <3> QED
      BY <3>3, <3>4 DEF Told
  <2>7. Len(listed') = taken' - NumGroups /\ Told(taken - NumGroups)'
    <3>1. Told(taken - NumGroups)'
      BY <2>4, <2>6 DEF Told
    <3> QED
      BY <1>7, <2>4, <2>5, <3>1
  <2>8. /\ \A i \in 1 .. NumGroups : i <= taken' => GroupList[i] \in groups'
        /\ goodbyes' = <<>> /\ ~(taken' <= NumGroups)
    <3>1. /\ \A i \in 1 .. NumGroups : i <= taken
          /\ taken <= Ready + 1 /\ ~(taken' <= NumGroups)
      BY <1>3, <1>13
    <3> QED
      BY <1>2, <2>1, <3>1 DEF Heard
  <2>9. Heard'
    BY <2>7, <2>8 DEF Heard
  <2> QED
    BY <1>3, <1>9, <1>10, <2>2, <2>9 DEF MainInv
<1> QED
  BY <1>11, <1>12, <1>13

\* What a status or a personal message does to the contacts: one is made for one that is not found.
LEMMA StatusSet ==
  ASSUME MainInv, NEW c, NEW s \in Statuses \ {"absent"},
         contacts' = contacts \/ contacts' = [contacts EXCEPT ![c] = s] \/ GetContact(c),
         UNCHANGED <<groups, listed, connected>>
  PROVE  /\ SessionTypes' /\ ConnectedMeansRoster'
         /\ \A n \in Nat : n <= NumContacts /\ Told(n) => Told(n)'
<1>1. SessionTypes /\ Len(listed) \in Nat
  BY LenProperties DEF MainInv, SessionTypes
<1>2. contacts \in [Contacts -> Statuses]
  BY <1>1 DEF SessionTypes
<1>3. contacts' \in [Contacts -> Statuses]
      /\ \A d \in Contacts : contacts[d] # "absent" => contacts'[d] # "absent"
  <2>1. CASE contacts' = [contacts EXCEPT ![c] = s]
    BY <1>2, <2>1 DEF Statuses
  <2>2. CASE GetContact(c)
    BY <1>2, <2>2 DEF Statuses, GetContact
  <2> QED
    BY <1>2, <2>1, <2>2
<1>4. SessionTypes'
  BY <1>1, <1>3 DEF SessionTypes
<1> QED
  BY <1>1, <1>3, <1>4, RosterGrows DEF SessionTypes

\* A status and a personal message are told after the connection only.
LEMMA PresenceSlot ==
  ASSUME ParserInv, MainInv, statusChanged \/ personalMessage
  PROVE  MainInv'
<1>1. PICK name \in {"statusChanged", "personalMessage"} : TakeSignal(name)
  BY DEF statusChanged, personalMessage
<1>2. UNCHANGED <<groups, listed, connected>>
  BY DEF statusChanged, personalMessage
<1>3. PICK s \in Statuses \ {"absent"} :
        contacts' = [contacts EXCEPT ![FrontSignal.who] = s] \/ GetContact(FrontSignal.who)
  <2>1. CASE statusChanged
    <3>1. TakeSignal("statusChanged")
      BY <2>1 DEF statusChanged
    <3>2. FrontSignal.status \in {"off", "on"}
      BY <3>1, AtQueue, SignalFields
    <3>3. contacts' = [contacts EXCEPT ![FrontSignal.who] = FrontSignal.status]
      BY <2>1 DEF statusChanged
    <3> QED
      BY <3>2, <3>3 DEF Statuses
  <2>2. CASE personalMessage
    <3>1. GetContact(FrontSignal.who)
      BY <2>2 DEF personalMessage
    <3>2. "off" \in Statuses \ {"absent"}
      BY DEF Statuses
    <3> QED
      BY <3>1, <3>2
  <2> QED
    BY <2>1, <2>2
<1>4. SessionTypes' /\ ConnectedMeansRoster'
  BY <1>2, <1>3, StatusSet
<1>5. Refused \/ taken + 1 > Ready + 1
  <2>1. /\ FrontSignal.name = name /\ taken \in Nat /\ Ready \in Nat
        /\ NumGroups \in Nat /\ NumContacts \in Nat /\ Ready = NumGroups + NumContacts
        /\ ~Refused => InReport(taken + 1, FrontSignal)
    BY <1>1, AtQueue
  <2> QED
    BY <2>1 DEF InReport
<1> QED
  BY <1>1, <1>2, <1>4, <1>5, ToldLater

\* Once the listener was told that there is no connection, the slots tell nothing more of the list.
LEMMA SlotWithoutRoster == ASSUME ParserInv, MainInv, slotWithoutRoster PROVE MainInv'
<1>1. PICK name \in {"newGroupArrived", "newContactArrived", "statusChanged", "personalMessage"} :
        TakeSignal(name)
  BY DEF slotWithoutRoster
<1>2. Deleted /\ UNCHANGED <<groups, contacts, listed, connected, goodbyes>>
  BY DEF slotWithoutRoster, session
<1>3. SessionTypes' /\ ConnectedMeansRoster'
  BY <1>2 DEF MainInv, SessionTypes, ConnectedMeansRoster
<1>4. Refused \/ taken + 1 > Ready + 1
  <2>1. taken \in Nat /\ Ready \in Nat
    BY <1>1, AtQueue
  <2>2. ~Refused => ~(taken <= Ready + 1)
    BY <1>2 DEF MainInv, Heard, Deleted
  <2> QED
    BY <2>1, <2>2
<1> QED
  BY <1>1, <1>2, <1>3, <1>4, ToldLater

\* The connection is told when all of the list was.
LEMMA ConnectSlot == ASSUME ParserInv, MainInv, notifyConnect PROVE MainInv'
<1>1. TakeSignal("connected") /\ connected' = connected + 1
      /\ UNCHANGED <<groups, contacts, listed, goodbyes>>
  BY DEF notifyConnect
<1>2. /\ (Refused' <=> Refused) /\ taken \in Nat /\ taken' = taken + 1 /\ taken' \in 0 .. Len(signals')
      /\ FrontSignal.name = "connected" /\ ~Refused /\ InReport(taken + 1, FrontSignal)
      /\ Ready \in Nat /\ NumGroups \in Nat /\ NumContacts \in Nat /\ Ready = NumGroups + NumContacts
  BY <1>1, AtQueue
<1>3. taken = Ready
  BY <1>2 DEF InReport
<1>4. connected' = 1 /\ Heard
  BY <1>1, <1>2, <1>3 DEF MainInv
<1>5. /\ goodbyes' = <<>> /\ Len(listed') = NumContacts /\ Told(NumContacts)
      /\ \A i \in 1 .. NumGroups : GroupList[i] \in groups'
  <2>1. taken <= Ready + 1 /\ taken >= NumGroups /\ taken <= Ready /\ taken - NumGroups = NumContacts
        /\ \A i \in 1 .. NumGroups : i <= taken
    BY <1>2, <1>3
  <2> QED
    BY <1>1, <1>4, <2>1 DEF Heard
<1>6. ConnectedMeansRoster'
  <2>1. DOMAIN ContactList = 1 .. NumContacts /\ Len(ContactList) = NumContacts
    BY ListAssumption, LenProperties DEF NumContacts
  <2>2. Range(GroupList) \subseteq groups'
    <3>1. DOMAIN GroupList = 1 .. NumGroups
      BY ListAssumption, LenProperties DEF NumGroups
    <3> QED
      BY <1>5, <3>1 DEF Range
  <2>3. \A i \in 1 .. NumContacts :
          listed'[i].who = ContactList[i].who /\ contacts'[ContactList[i].who] # "absent"
    BY <1>1, <1>5 DEF Told
  <2>4. Len(listed') >= NumContacts
    BY <1>2, <1>5
  <2> QED
    BY <1>4, <2>1, <2>2, <2>3, <2>4 DEF ConnectedMeansRoster
<1>7. Heard'
  <2>1. ~(taken' <= NumGroups) /\ ~(taken' <= Ready)
    BY <1>2, <1>3
  <2> QED
    BY <1>5, <2>1 DEF Heard
<1>8. SessionTypes'
  BY <1>1 DEF MainInv, SessionTypes
<1>9. taken' > Ready
  BY <1>2, <1>3
<1> QED
  BY <1>2, <1>4, <1>6, <1>7, <1>8, <1>9 DEF MainInv

\* The end is told after the connection, or instead of it.
LEMMA GoodbyeSlot == ASSUME ParserInv, MainInv, disconnected PROVE MainInv'
<1>1. TakeSignal("disconnected") /\ UNCHANGED <<groups, contacts, listed, connected>>
  BY DEF disconnected
<1>2. SessionTypes' /\ ConnectedMeansRoster'
  BY <1>1 DEF MainInv, SessionTypes, ConnectedMeansRoster
<1>3. Refused \/ taken + 1 > Ready + 1
  <2>1. /\ FrontSignal.name = "disconnected" /\ taken \in Nat /\ Ready \in Nat
        /\ NumGroups \in Nat /\ NumContacts \in Nat /\ Ready = NumGroups + NumContacts
        /\ ~Refused => InReport(taken + 1, FrontSignal)
    BY <1>1, AtQueue
  <2> QED
    BY <2>1 DEF InReport
<1> QED
  BY <1>1, <1>2, <1>3, ToldLater

\* Client's slots.
LEMMA SlotsStep == ASSUME NSInv, Slots PROVE NSInv'
<1>1. ParserInv /\ MainInv
  BY DEF NSInv
<1>2. UNCHANGED <<server, got, parser>> /\ loop' \in {loop, "undefined"}
  BY DEF Slots, TakeSignal, newGroupArrived, newContactArrived, statusChanged, personalMessage,
         slotWithoutRoster, notifyConnect, disconnected
<1>3. ParserInv'
  BY <1>1, <1>2, ParserRests DEF Kept
<1>4. MainInv'
  BY <1>1, GroupSlot, ContactSlot, PresenceSlot, SlotWithoutRoster, ConnectSlot, GoodbyeSlot DEF Slots
<1> QED
  BY <1>3, <1>4 DEF NSInv

-----------------------------------------------------------------------------
(* The application *)

\* What the application asks for is asked behind what waits for its answer.
LEMMA CallStep ==
  ASSUME NSInv, NEW name, Call(name), NEW rs \in Seq(Requests), AskFor(rs),
         \A i \in DOMAIN rs : rs[i].cmd \in LateRequests,
         NEW c, contacts' = contacts \/ GetContact(c)
  PROVE  NSInv'
<1>1. /\ connected = 1
      /\ UNCHANGED <<sent, link, online, redirects, got, gone, hasCommand, parsing, toCome, handled,
                     requests, loop, signals, taken, groups, listed, connected, goodbyes>>
  BY DEF Call, parser
<1>2. ParserInv /\ MainInv /\ Types /\ WholeCommands /\ ~Before(got, gone) /\ Steps /\ Reported
  BY DEF NSInv, ParserInv
<1>3. asked \in Seq(Requests)
  BY <1>2 DEF Types, ServerTypes
<1>4. asked' \in Seq(Requests) /\ (LateAsked => LateAsked')
  <2>1. CASE asked' = asked
    BY <1>3, <2>1 DEF LateAsked
  <2>2. CASE asked' = asked \o rs
    <3>1. /\ asked \o rs \in Seq(Requests) /\ Len(asked) \in Nat /\ Len(rs) \in Nat
          /\ DOMAIN (asked \o rs) = 1 .. Len(asked) + Len(rs)
          /\ \A i \in 1 .. Len(asked) : (asked \o rs)[i] = asked[i]
          /\ \A i \in 1 .. Len(rs) : (asked \o rs)[Len(asked) + i] = rs[i]
      BY <1>3, Joined
    <3>2. DOMAIN asked = 1 .. Len(asked) /\ DOMAIN rs = 1 .. Len(rs)
      BY <1>3, LenProperties
    <3>3. ASSUME LateAsked, NEW i \in DOMAIN (asked \o rs) PROVE (asked \o rs)[i].cmd \in LateRequests
      <4>1. CASE i \in 1 .. Len(asked)
        BY <3>1, <3>2, <3>3, <4>1 DEF LateAsked
      <4>2. CASE i > Len(asked)
        <5>1. PICK j \in 1 .. Len(rs) : i = Len(asked) + j
          <6>1. i - Len(asked) \in 1 .. Len(rs) /\ i = Len(asked) + (i - Len(asked))
            BY <3>1, <4>2
          <6> QED
            BY <6>1
        <5> QED
          BY <3>1, <3>2, <5>1
      <4> QED
        BY <3>1, <4>1, <4>2
    <3> QED
      BY <2>2, <3>1, <3>3 DEF LateAsked
  <2> QED
    BY <2>1, <2>2 DEF AskFor
<1>5. Announced
  <2>1. taken > Ready /\ ~Refused /\ taken \in 0 .. Len(signals)
    BY <1>1, <1>2 DEF MainInv
  <2>2. signals \in Seq(Signals)
    BY <1>2 DEF Types, ParserTypes
  <2>3. Len(signals) \in Nat /\ Ready \in Nat /\ DOMAIN signals = 1 .. Len(signals)
        /\ NumGroups \in Nat /\ NumContacts \in Nat /\ Ready = NumGroups + NumContacts
    BY <2>2, LenProperties, ListSize
  <2>4. Len(signals) > Ready /\ Ready + 1 \in DOMAIN signals
    BY <2>1, <2>3
  <2>5. InReport(Ready + 1, signals[Ready + 1])
    BY <1>2, <2>1, <2>4 DEF Reported
  <2>6. signals[Ready + 1].name = "connected"
    BY <2>3, <2>5 DEF InReport
  <2> QED
    BY <2>4, <2>6 DEF Announced
<1>6. Types' /\ OnlyMore
  BY <1>1, <1>2, <1>4, SameSignals DEF Types, ServerTypes, ParserTypes
<1>7. WholeCommands' /\ (~Before(got, gone))'
  BY <1>1, <1>2 DEF WholeCommands, NoDisplayName, HandledEnd, Before
<1>8. ParserInv'
  <2>1. CASE loop = "running"
    <3>1. Running /\ LateAsked
      BY <1>2, <1>5, <2>1 DEF ParserInv, Running, InTurn, LoggedIn
    <3>2. InPlace' /\ InText' /\ AllTaken'
      BY <1>1, <3>1 DEF Running, InPlace, InText, Position, Before, AllTaken
    <3>3. gone'.nr >= gone.nr /\ Len(sent') >= Len(sent)
      <4>1. gone.nr \in Nat /\ Len(sent) \in Nat
        BY <1>2, LenProperties DEF Types, ServerTypes, ParserTypes, Positions
      <4> QED
        BY <1>1, <4>1
    <3> QED
      BY <1>1, <1>2, <1>4, <1>5, <1>6, <1>7, <2>1, <3>1, <3>2, <3>3, LateStep DEF Kept
  <2>2. CASE loop # "running"
    <3>1. Steps' /\ Reported'
      BY <1>1, <1>2 DEF Steps, Step, Reported, Refused, InReport
    <3> QED
      BY <1>1, <1>6, <1>7, <2>2, <3>1 DEF ParserInv
  <2> QED
    BY <2>1, <2>2
<1>9. MainInv'
  <2>1. PICK s \in Statuses \ {"absent"} : s = "off"
    BY DEF Statuses
  <2>2. /\ SessionTypes' /\ ConnectedMeansRoster'
        /\ \A n \in Nat : n <= NumContacts /\ Told(n) => Told(n)'
    BY <1>1, <1>2, <2>1, StatusSet
  <2>3. Refused' <=> Refused
    BY <1>1 DEF Refused
  <2>4. taken > Ready
    BY <1>1, <1>2 DEF MainInv
  <2>5. ~Refused => Heard'
    <3>1. taken \in Nat /\ Ready \in Nat
      BY <1>2, ListSize, LenProperties DEF MainInv
    <3>2. ~(taken' <= Ready)
      BY <1>1, <2>4, <3>1
    <3> QED
      BY <1>1, <1>2, <3>2 DEF MainInv, Heard
  <2>6. taken' \in 0 .. Len(signals') /\ connected' = IF taken' > Ready /\ ~Refused' THEN 1 ELSE 0
    BY <1>1, <1>2, <2>3 DEF MainInv
  <2> QED
    BY <2>2, <2>3, <2>5, <2>6 DEF MainInv
<1> QED
  BY <1>8, <1>9 DEF NSInv

\* The calls of the application.
LEMMA ApplicationStep == ASSUME NSInv, Application PROVE NSInv'
<1>1. \A name \in LateRequests : \A c \in Contacts : Request(name, c) \in Requests
                                                     /\ Request(name, c).cmd = name
  BY DEF Request, Requests
<1>2. groups \subseteq Groups \union {NoGroup}
  BY DEF NSInv, MainInv, SessionTypes
<1>3. Moving \subseteq Contacts
  BY KindsAssumption
<1>4. ASSUME NEW name, Call(name), NEW r \in Requests, r.cmd \in LateRequests, AskFor(<<r>>),
             NEW c, contacts' = contacts \/ GetContact(c)
      PROVE  NSInv'
  <2>1. PICK rs : rs = <<r>>
    OBVIOUS
  <2>2. rs \in Seq(Requests) /\ (\A i \in DOMAIN rs : rs[i].cmd \in LateRequests) /\ AskFor(rs)
    BY <1>4, <2>1
  <2> QED
    BY <1>4, <2>2, CallStep
<1>5. ASSUME NEW name, Call(name), NEW r \in Requests, NEW q \in Requests, r.cmd \in LateRequests,
             q.cmd \in LateRequests, AskFor(<<r, q>>), contacts' = contacts
      PROVE  NSInv'
  <2>1. PICK rs : rs = <<r, q>>
    OBVIOUS
  <2>2. rs \in Seq(Requests) /\ (\A i \in DOMAIN rs : rs[i].cmd \in LateRequests) /\ AskFor(rs)
    BY <1>5, <2>1
  <2> QED
    BY <1>5, <2>2, CallStep
<1>6. ASSUME NEW c \in Moving, NEW g \in Groups \union {NoGroup}, addContact(c, g) PROVE NSInv'
  <2>1. PICK r : r = [Request("ADC", c) EXCEPT !.group = GroupName(g)]
    OBVIOUS
  <2>2. r \in Requests /\ r.cmd \in LateRequests
    BY <1>2, <1>3, <1>6, <2>1 DEF Request, Requests, LateRequests, GroupName
  <2>3. Call("addContact") /\ AskFor(<<r>>) /\ (contacts' = contacts \/ GetContact(c))
    BY <1>6, <2>1 DEF addContact
  <2> QED
    BY <1>4, <2>2, <2>3
<1>7. ASSUME NEW c \in Moving, delContact(c) PROVE NSInv'
  <2>1. Call("delContact") /\ AskFor(<<Request("REM", c)>>) /\ GetContact(c)
    BY <1>7 DEF delContact
  <2>2. Request("REM", c) \in Requests /\ Request("REM", c).cmd \in LateRequests
    BY <1>3, <1>7 DEF Request, Requests, LateRequests
  <2> QED
    BY <1>4, <2>1, <2>2
<1>8. ASSUME NEW c \in Moving, blockContact(c) PROVE NSInv'
  <2>1. /\ Call("blockContact") /\ contacts' = contacts
        /\ AskFor(<<Request("REM", c), Request("ADC BL", c)>>)
    BY <1>8 DEF blockContact
  <2>2. /\ Request("REM", c) \in Requests /\ Request("REM", c).cmd \in LateRequests
        /\ Request("ADC BL", c) \in Requests /\ Request("ADC BL", c).cmd \in LateRequests
    BY <1>3, <1>8 DEF Request, Requests, LateRequests
  <2> QED
    BY <1>5, <2>1, <2>2
<1>9. ASSUME NEW c \in Moving, deblockContact(c) PROVE NSInv'
  <2>1. /\ Call("deblockContact") /\ contacts' = contacts
        /\ AskFor(<<Request("REM", c), Request("ADC AL", c)>>)
    BY <1>9 DEF deblockContact
  <2>2. /\ Request("REM", c) \in Requests /\ Request("REM", c).cmd \in LateRequests
        /\ Request("ADC AL", c) \in Requests /\ Request("ADC AL", c).cmd \in LateRequests
    BY <1>3, <1>9 DEF Request, Requests, LateRequests
  <2> QED
    BY <1>5, <2>1, <2>2
<1>10. ASSUME NEW g \in Groups, addGroup(g) PROVE NSInv'
  <2>1. PICK r : r = [Asks("ADG") EXCEPT !.group = g]
    OBVIOUS
  <2>2. r \in Requests /\ r.cmd \in LateRequests
    BY <2>1 DEF Asks, Requests, LateRequests
  <2>3. Call("addGroup") /\ AskFor(<<r>>) /\ contacts' = contacts
    BY <1>10, <2>1 DEF addGroup
  <2> QED
    BY <1>4, <2>2, <2>3
<1>11. ASSUME NEW g \in Groups, delGroup(g) PROVE NSInv'
  <2>1. PICK r : r = [Asks("RMG") EXCEPT !.group = GroupName(g)]
    OBVIOUS
  <2>2. r \in Requests /\ r.cmd \in LateRequests
    BY <1>2, <2>1 DEF Asks, Requests, LateRequests, GroupName
  <2>3. Call("delGroup") /\ AskFor(<<r>>) /\ contacts' = contacts
    BY <1>11, <2>1 DEF delGroup
  <2> QED
    BY <1>4, <2>2, <2>3
<1>12. ASSUME changeStatus PROVE NSInv'
  <2>1. Call("changeStatus") /\ AskFor(<<Asks("status")>>) /\ contacts' = contacts
    BY <1>12 DEF changeStatus
  <2>2. Asks("status") \in Requests /\ Asks("status").cmd \in LateRequests
    BY DEF Asks, Requests, LateRequests
  <2> QED
    BY <1>4, <2>1, <2>2
<1> QED
  BY <1>6, <1>7, <1>8, <1>9, <1>10, <1>11, <1>12 DEF Application

-----------------------------------------------------------------------------
(* The invariant *)

\* Initially nothing was asked but the first step, and nothing was told.
LEMMA NSInit == Init => NSInv
<1> SUFFICES ASSUME Init PROVE NSInv
  OBVIOUS
<1>1. /\ sent = <<>> /\ got = EndOf(0) /\ gone = EndOf(0) /\ asked = <<Asks("VER")>> /\ link = "up"
      /\ online = FALSE /\ redirects = 0
      /\ hasCommand = FALSE /\ parsing = FALSE /\ toCome = 0
      /\ handled = <<>> /\ requests = <<"VER">> /\ loop = "running"
      /\ groups = {} /\ contacts = [c \in Contacts |-> "absent"]
      /\ listed = <<>> /\ connected = 0 /\ signals = <<>> /\ taken = 0 /\ goodbyes = <<>>
  BY DEF Init
<1>2. EndOf(0) \in Positions /\ EndOf(0).nr = 0 /\ EndOf(0).part = 0
  BY DEF EndOf, Positions
<1>3. Types
  <2>1. Asks("VER") \in Requests
    BY DEF Asks, Requests, RequestNames
  <2>2. ServerTypes
    <3>1. sent \in Seq(Command) /\ asked \in Seq(Requests)
      BY <1>1, <2>1, EmptySeq
    <3>2. link \in {"up", "closed"} /\ online \in BOOLEAN /\ redirects \in Nat
      BY <1>1
    <3> QED
      BY <3>1, <3>2 DEF ServerTypes
  <2>3. ParserTypes
    <3>1. requests \in Seq(StepNames)
      <4>1. "VER" \in StepNames
        BY DEF StepNames, RequestNames
      <4> QED
        BY <1>1, <4>1
    <3>2. handled \in Seq(Command) /\ got \in Positions /\ gone \in Positions
      BY <1>1, <1>2, EmptySeq
    <3>3. hasCommand \in BOOLEAN /\ parsing \in BOOLEAN
      BY <1>1, Zenon
    <3>4. toCome \in Int
      <4>1. toCome = 0
        BY <1>1, Zenon
      <4> QED
        BY <4>1
    <3>5. loop \in {"running", "returned", "undefined"}
      BY <1>1
    <3>6. signals \in Seq(Signals)
      BY <1>1, EmptySeq
    <3> QED
      BY <3>1, <3>2, <3>3, <3>4, <3>5, <3>6 DEF ParserTypes
  <2> QED
    BY <2>2, <2>3 DEF Types
<1>4. WholeCommands /\ ~Before(got, gone)
  <2>1. Len(handled) = 0 /\ ~(handled # <<>>)
    BY <1>1
  <2>2. HandledEnd = EndOf(0)
    BY <2>1 DEF HandledEnd
  <2>3. IsPrefix(handled, sent)
    BY <1>1 DEF IsPrefix
  <2>4. ~Before(got, gone)
    BY <1>1, <1>2 DEF Before
  <2> QED
    BY <1>1, <2>2, <2>3, <2>4 DEF WholeCommands
<1>5. Steps
  <2>1. Len(requests) = 1 /\ requests[1] = "VER" /\ DOMAIN requests = {1}
    BY <1>1
  <2>2. Step(1, "VER")
    <3>1. PICK m : m = ((1 - 1) % 3) + 1
      OBVIOUS
    <3>2. m = 1
      BY <3>1
    <3>3. Prelude[m] = "VER"
      BY <3>2 DEF Prelude
    <3>4. 1 # 3 * redirects + 4 /\ 1 # 3 * redirects + 5 /\ 1 # 3 * redirects + 6
      BY <1>1
    <3> QED
      BY <3>1, <3>3, <3>4, Zenon DEF Step
  <2>3. Len(requests) <= 3 * redirects + 6
    BY <1>1, <2>1
  <2> QED
    BY <2>1, <2>2, <2>3 DEF Steps
<1>6. /\ Len(signals) = 0 /\ DOMAIN signals = {} /\ ~Announced /\ ~Refused /\ Reported
      /\ Ready \in Nat /\ NumGroups \in Nat
  BY <1>1, ListSize DEF Announced, Refused, Reported
<1>7. InPlace /\ InText /\ AllTaken /\ InStep
  <2>1. InPlace
    BY <1>1 DEF InPlace
  <2>2. Len(sent) = 0
    BY <1>1
  <2>3. InText
    BY <1>1, <1>2, <1>4, <2>2 DEF InText, Position
  <2>4. AllTaken
    BY <1>1 DEF AllTaken
  <2>5. InStep
    <3>1. Stage = 1 /\ Len(requests) = 1
      BY <1>1, <1>2, <1>6 DEF Stage
    <3> QED
      BY <1>1, <3>1 DEF InStep
  <2> QED
    BY <2>1, <2>3, <2>4, <2>5
<1>8. InTurn
  <2>1. Unanswered
    <3>1. Len(asked) = 1 /\ asked[1].cmd = "VER" /\ Len(sent) = 0 /\ gone.nr = 0
      BY <1>1, <1>2 DEF Asks
    <3>2. AskedAfter(0, "VER")
      BY DEF AskedAfter
    <3> QED
      BY <3>1, <3>2 DEF Unanswered
  <2>2. NumContacts > 0 => 0 < ListEnd - 1
    BY ListSize
  <2>3. Early
    BY <1>1, <1>2, <2>1, <2>2 DEF Early
  <2> QED
    BY <1>6, <2>3 DEF InTurn
<1>9. SignalsSoFar
  <2>1. ~(gone.nr >= 9 + NumGroups) /\ ~(gone.nr >= 6) /\ ~(gone.nr >= 9)
    BY <1>1, <1>2, <1>6
  <2> QED
    BY <1>6, <2>1 DEF SignalsSoFar
<1>10. ParserInv
  BY <1>3, <1>4, <1>5, <1>6, <1>7, <1>8, <1>9 DEF ParserInv, Running
<1>11. MainInv
  <2>1. SessionTypes
    BY <1>1, EmptySeq DEF SessionTypes, Statuses
  <2>2. Heard
    <3>1. taken <= NumGroups => Len(listed) = 0
      BY <1>1
    <3>2. taken >= NumGroups /\ taken <= Ready =>
            Len(listed) = taken - NumGroups /\ Told(taken - NumGroups)
      <4>1. taken >= NumGroups => taken - NumGroups = 0
        BY <1>1, <1>6
      <4>2. Len(listed) = 0
        BY <1>1
      <4> QED
        BY <4>1, <4>2 DEF Told
    <3> QED
      BY <1>1, <3>1, <3>2 DEF Heard
  <2>3. ConnectedMeansRoster
    BY <1>1 DEF ConnectedMeansRoster
  <2>4. taken \in 0 .. Len(signals) /\ connected = IF taken > Ready /\ ~Refused THEN 1 ELSE 0
    BY <1>1, <1>6
  <2> QED
    BY <2>1, <2>2, <2>3, <2>4 DEF MainInv
<1> QED
  BY <1>10, <1>11 DEF NSInv

\* The handlers of parse.
LEMMA HandlersStep == ASSUME ParserInv, Parse PROVE Kept
<1>1. PICK lines : lines = {"USR", "ERR", "SYN", "GTC", "BLP", "PRP", "BPR"}
  OBVIOUS
<1>2. CASE LogIn
  BY <1>2, VerStep, CvrStep, XfrStep, GcfStep, TicketStep, UsrStep, MsgStep, ErrorStep DEF LogIn
<1>3. CASE RosterArrives
  <2>1. CASE ParseGtc \/ ParseBlp \/ ParsePrp
    <3>1. PICK k \in {"GTC", "BLP", "PRP"} : IgnoreLine(k)
      BY <2>1 DEF ParseGtc, ParseBlp, ParsePrp
    <3> QED
      BY <3>1, SettingsStep
  <2> QED
    BY <1>3, <2>1, SynStep, LsgStep, LstStep, BprStep DEF RosterArrives
<1>4. CASE Online
  <2>1. CASE ParseChg \/ ParseQry \/ ParseRem \/ ParseRmg
    <3>1. PICK k \in {"CHG", "QRY", "REM", "RMG"} : IgnoreLine(k)
      BY <2>1 DEF ParseChg, ParseQry, ParseRem, ParseRmg
    <3> QED
      BY <3>1, IgnoredStep
  <2> QED
    BY <1>4, <2>1, ChlStep, NlnStep, FlnStep, UbxStep, NotStep, OutStep, AdcStep, AdcNamedStep
       DEF Online
<1> QED
  BY <1>2, <1>3, <1>4, ReturnStep DEF Parse

\* Client's slots do not run in this thread.
LEMMA ParseStep == ASSUME NSInv, Parse PROVE NSInv'
<1>1. UNCHANGED main
  <2>1. ASSUME NEW k, IgnoreLine(k) PROVE UNCHANGED main
    BY <2>1 DEF IgnoreLine, InParse
  <2>2. CASE LogIn
    BY <2>1, <2>2 DEF LogIn, ParseVer, ParseCvr, ParseXfr, ParseGcf, ParseUsrTicket, ParseUsr,
                      ParseMsg, ParseError, InParse
  <2>3. CASE RosterArrives
    BY <2>1, <2>3 DEF RosterArrives, ParseSyn, ParseGtc, ParseBlp, ParsePrp, ParseLsg, ParseLst,
                      ParseBpr, InParse
  <2>4. CASE Online
    BY <2>1, <2>4 DEF Online, ParseChg, ParseChl, ParseQry, ParseNln, ParseFln, ParseUbx, ParseNot,
                      ParseOut, ParseAdc, ParseAdcNamed, ParseRem, ParseRmg, InParse
  <2>5. CASE ParseReturns
    BY <2>5 DEF ParseReturns
  <2> QED
    BY <2>2, <2>3, <2>4, <2>5 DEF Parse
<1>2. ParserInv /\ MainInv /\ Kept
  BY HandlersStep DEF NSInv
<1> QED
  BY <1>1, <1>2, MainRests DEF NSInv, Kept

\* Every step keeps the invariant.
LEMMA NSNext == NSInv /\ [Next]_vars => NSInv'
<1> SUFFICES ASSUME NSInv, [Next]_vars PROVE NSInv'
  OBVIOUS
<1>1. ParserInv /\ MainInv
  BY DEF NSInv, MainInv
<1>2. ASSUME Kept, UNCHANGED main PROVE NSInv'
  BY <1>1, <1>2, MainRests DEF NSInv, Kept
<1>3. CASE UNCHANGED vars
  <2>1. UNCHANGED <<server, got, parser, loop, main>>
    BY <1>3 DEF vars
  <2> QED
    BY <1>1, <1>2, <2>1, ParserRests
<1>4. CASE ServerAnswers \/ ServerPushes \/ ServerCloses \/ Read \/ ReadFails
  <2>1. UNCHANGED main
    BY <1>4 DEF ServerAnswers, ServerPushes, ServerCloses, Read, ReadFails
  <2> QED
    BY <1>1, <1>2, <1>4, <2>1, AnswerStep, PushStep, CloseStep, ReadStep, ReadFailsStep
<1> QED
  BY <1>3, <1>4, ParseStep, SlotsStep, ApplicationStep DEF Next, InitLoop

\* What the server sent, what the parser removed of it, asked for and emitted, and what the main thread
\* was told stay in step.
THEOREM NSInvariant == Spec => []NSInv
BY NSInit, NSNext, PTL DEF Spec

-----------------------------------------------------------------------------
(* The properties *)

\* However the stream is split, the handlers of ParserNS::parse take the commands that were sent,
\* each one as a whole and in order, until an ADC with a display name has come.
THEOREM InOrder == Spec => []CommandsInOrder
<1>1. NSInv => CommandsInOrder
  BY DEF NSInv, ParserInv, WholeCommands, NoDisplayName, CommandsInOrder
<1> QED
  BY <1>1, NSInvariant, PTL

\* When ParserNS::parse has returned, no complete command is left in m_buf, until a NOT or an ADC
\* with a display name has come.
THEOREM NothingLeft == Spec => []NothingWaits
<1>1. NSInv => NothingWaits
  <2> SUFFICES ASSUME NSInv, \A i \in DOMAIN handled : handled[i].kind \notin {"NOT", "ADN"},
                      loop = "running", ~parsing, NEW n \in DOMAIN sent, InBuffer(n)
               PROVE  FALSE
    BY DEF NothingWaits
  <2>1. Types /\ WholeCommands /\ AllTaken /\ NoDisplayName
    BY DEF NSInv, ParserInv, Running, NoDisplayName
  <2>2. gone = HandledEnd
    BY <2>1 DEF WholeCommands
  <2>3. ~(handled # <<>> /\ Last(handled).kind = "NOT")
    <3>1. ASSUME handled # <<>> PROVE Len(handled) \in DOMAIN handled
      <4>1. handled \in Seq(Command)
        BY <2>1 DEF Types, ParserTypes
      <4>2. Len(handled) \in Nat /\ Len(handled) # 0 /\ DOMAIN handled = 1 .. Len(handled)
        BY <3>1, <4>1, LenProperties, EmptySeq
      <4> QED
        BY <4>2
    <3> QED
      BY <3>1 DEF Last
  <2>4. gone.part = 0
    BY <2>2, <2>3 DEF HandledEnd, EndOf
  <2>5. got.nr = gone.nr /\ gone.nr \in Nat
    BY <2>1, <2>4 DEF AllTaken, Types, ParserTypes, Positions
  <2>6. n \in Nat /\ n <= got.nr /\ ~Before(EndOf(n - 1), gone)
    <3>1. DOMAIN sent = 1 .. Len(sent) /\ Len(sent) \in Nat
      BY <2>1, LenProperties DEF Types, ServerTypes
    <3> QED
      BY <3>1 DEF InBuffer
  <2>7. EndOf(n - 1).nr = n - 1
    BY DEF EndOf
  <2> QED
    BY <2>5, <2>6, <2>7 DEF Before
<1> QED
  BY <1>1, NSInvariant, PTL

\* ParserNS and Client ask for each step of the log-in once and in order, again from the start after
\* each transfer to another server.
THEOREM Scripted == Spec => []LoginScript
<1>1. NSInv => LoginScript
  <2> SUFFICES ASSUME NSInv PROVE LoginScript
    OBVIOUS
  <2>1. /\ Len(requests) \in Nat /\ DOMAIN requests = 1 .. Len(requests) /\ redirects \in Nat
        /\ requests \in Seq(StepNames)
    BY LenProperties DEF NSInv, ParserInv, Types, ParserTypes, ServerTypes
  <2>2. Steps
    BY DEF NSInv, ParserInv
  <2>3. PICK ticket :
          /\ ticket \in {"USR S", "USR S empty"}
          /\ 3 * redirects + 4 \in DOMAIN requests => requests[3 * redirects + 4] = ticket
    <3>1. CASE 3 * redirects + 4 \in DOMAIN requests
      <4>1. PICK m : m = 3 * redirects + 4
        OBVIOUS
      <4>2. Step(m, requests[m])
        BY <2>2, <3>1, <4>1 DEF Steps
      <4>3. requests[m] \in {"USR S", "USR S empty"}
        BY <4>1, <4>2, Zenon DEF Step
      <4> QED
        BY <4>1, <4>3
    <3>2. CASE 3 * redirects + 4 \notin DOMAIN requests
      BY <3>2
    <3> QED
      BY <3>1, <3>2
  <2>4. PICK n \in Nat : n = 3 * (redirects + 1)
    BY <2>1
  <2>5. PICK script : script = [i \in 1 .. n + 3 |-> IF i <= n THEN Prelude[((i - 1) % 3) + 1]
                                                    ELSE <<ticket, "SYN", "CHG">>[i - n]]
    OBVIOUS
  <2>6. Script(ticket) = script
    BY <2>4, <2>5, Zenon DEF Script
  <2>7. ASSUME NEW i \in 1 .. n + 3 PROVE script[i] \in StepNames
    <3>1. script[i] = IF i <= n THEN Prelude[((i - 1) % 3) + 1]
                      ELSE <<ticket, "SYN", "CHG">>[i - n]
      BY <2>5
    <3>2. CASE i <= n
      <4>1. PICK m : m = ((i - 1) % 3) + 1
        OBVIOUS
      <4>2. m \in {1, 2, 3}
        BY <2>4, <3>2, <4>1
      <4>3. Prelude[m] \in StepNames
        <5>1. Prelude[1] = "VER" /\ Prelude[2] = "CVR" /\ Prelude[3] = "USR I"
          BY DEF Prelude
        <5>2. Prelude[m] \in {"VER", "CVR", "USR I"}
          BY <4>2, <5>1
        <5> QED
          BY <5>2, Zenon DEF StepNames, RequestNames
      <4> QED
        BY <3>1, <3>2, <4>1, <4>3, Zenon
    <3>3. CASE ~(i <= n)
      <4>1. PICK m : m = i - n
        OBVIOUS
      <4>2. m \in {1, 2, 3}
        BY <2>4, <3>3, <4>1
      <4>3. <<ticket, "SYN", "CHG">>[m] \in StepNames
        <5>1. <<ticket, "SYN", "CHG">>[m] \in {ticket, "SYN", "CHG"}
          BY <4>2
        <5>2. {ticket, "SYN", "CHG"} \subseteq StepNames
          BY <2>3, Zenon DEF StepNames, RequestNames
        <5> QED
          BY <5>1, <5>2, Zenon
      <4> QED
        BY <3>1, <3>3, <4>1, <4>3, Zenon
    <3> QED
      BY <3>2, <3>3
  <2>8. script \in Seq(StepNames) /\ Len(script) = n + 3
    <3>1. script = [i \in 1 .. n + 3 |-> script[i]]
      BY <2>5
    <3>2. n + 3 \in Nat
      BY <2>4
    <3>3. script \in Seq(StepNames)
      BY <2>7, <3>1, <3>2, IsASeq
    <3>4. DOMAIN script = 1 .. n + 3
      BY <2>5
    <3> QED
      BY <3>2, <3>3, <3>4, LenProperties
  <2>9. Len(requests) <= n + 3
    BY <2>1, <2>2, <2>4 DEF Steps
  <2>10. ASSUME NEW i \in 1 .. Len(requests) PROVE requests[i] = script[i]
    <3>1. /\ i \in Nat /\ i \in 1 .. n + 3 /\ i \in DOMAIN requests
          /\ i <= n \/ i = n + 1 \/ i = n + 2 \/ i = n + 3
      BY <2>1, <2>4, <2>9
    <3>2. script[i] = IF i <= n THEN Prelude[((i - 1) % 3) + 1]
                      ELSE <<ticket, "SYN", "CHG">>[i - n]
      BY <2>5, <3>1
    <3>3. Step(i, requests[i])
      BY <2>2, <3>1 DEF Steps
    <3>4. CASE i <= n
      BY <2>4, <3>2, <3>3, <3>4, Zenon DEF Step
    <3>5. CASE i = n + 1
      <4>1. i = 3 * redirects + 4 /\ ~(i <= n) /\ i - n = 1
        BY <2>1, <2>4, <3>5
      <4>2. requests[i] = ticket
        BY <2>3, <3>1, <4>1
      <4>3. script[i] = ticket
        BY <3>2, <4>1
      <4> QED
        BY <4>2, <4>3
    <3>6. CASE i = n + 2
      <4>1. i = 3 * redirects + 5 /\ ~(i <= n) /\ i - n = 2
        BY <2>1, <2>4, <3>6
      <4>2. requests[i] = "SYN"
        BY <3>3, <4>1, Zenon DEF Step
      <4>3. script[i] = "SYN"
        BY <3>2, <4>1
      <4> QED
        BY <4>2, <4>3
    <3>7. CASE i = n + 3
      <4>1. i = 3 * redirects + 6 /\ ~(i <= n) /\ i - n = 3
        BY <2>1, <2>4, <3>7
      <4>2. requests[i] = "CHG"
        BY <3>3, <4>1, Zenon DEF Step
      <4>3. script[i] = "CHG"
        BY <3>2, <4>1
      <4> QED
        BY <4>2, <4>3
    <3> QED
      BY <3>1, <3>4, <3>5, <3>6, <3>7
  <2>11. IsPrefix(requests, script)
    BY <2>1, <2>8, <2>9, <2>10, PrefixElements
  <2> QED
    BY <2>3, <2>6, <2>11 DEF LoginScript
<1> QED
  BY <1>1, NSInvariant, PTL

\* Client's slot tells the ConnectionListener once, when the slots before it have told the
\* RosterListener of every contact of the stored list and all groups are known, however far the
\* parser's thread is.
THEOREM RosterFirst == Spec => []ConnectedMeansRoster
<1>1. NSInv => ConnectedMeansRoster
  BY DEF NSInv, MainInv
<1> QED
  BY <1>1, NSInvariant, PTL

====
