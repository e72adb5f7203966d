------------------------ MODULE ClientSession_proofs ------------------------
(***************************************************************************)
(* Proofs about ClientSession: the type invariant and the safety           *)
(* properties, for any number of calls of connect() and any loss of the    *)
(* two connections.  The order of the events in the two queues carries     *)
(* the argument: what an event says of its login service is still true     *)
(* when the event is taken.                                                *)
(***************************************************************************)
EXTENDS ClientSession, QueueLemmas

CqEvents == [login: Attempts, kind: LoginEvents]
MqEvents == [login: Attempts, kind: {"bos"}] \cup [login: Attempts, kind: {"ended"}, err: Errors]

-----------------------------------------------------------------------------
(* Types *)

RestTypes ==
  /\ attempt \in 0 .. MaxAttempts
  /\ client \in {"stopped", "running", "exiting"}
  /\ logged \in BOOLEAN
  /\ conn \in {"none", "connecting", "up", "leaving", "down"}
  /\ stage \in Stages
  /\ replied \subseteq Family
  /\ count \in 0 .. NUM_OF_SERVICES - 1
  /\ setup \in BOOLEAN
  /\ told \in [Attempts -> SUBSET (LoginFailures \cup Losses \cup {"ready"})]
QueueTypes == cq \in Seq(CqEvents) /\ mq \in Seq(MqEvents)
LoginTypes == login \in [Attempts -> LoginService]

LEMMA TypeParts ==
  /\ TypeOK <=> RestTypes /\ QueueTypes /\ LoginTypes
  /\ TypeOK' <=> RestTypes' /\ QueueTypes' /\ LoginTypes'
  BY DEF TypeOK, RestTypes, QueueTypes, LoginTypes, CqEvents, MqEvents

LEMMA InitTypes == Init => TypeOK
<1> SUFFICES ASSUME Init PROVE TypeOK
  OBVIOUS
<1>1. RestTypes
  <2>1. told \in [Attempts -> SUBSET (LoginFailures \cup Losses \cup {"ready"})]
    BY DEF Init
  <2>2. attempt \in 0 .. MaxAttempts /\ count \in 0 .. NUM_OF_SERVICES - 1
    BY AttemptsAssumption DEF Init, NUM_OF_SERVICES
  <2> QED
    BY <2>1, <2>2 DEF Init, RestTypes, Stages
<1>2. QueueTypes
  BY DEF Init, QueueTypes
<1>3. NewLogin \in LoginService
  BY DEF NewLogin, LoginService, Links, Errors
<1>4. LoginTypes
  BY <1>3 DEF Init, LoginTypes
<1> QED
  BY <1>1, <1>2, <1>4, TypeParts

\* The services and the queues after a step of L.
LEMMA LoginThreadTypes ==
  ASSUME TypeOK, NEW a \in Attempts, LoginThread(a)
  PROVE  LoginTypes' /\ QueueTypes'
<1>1. login[a] \in LoginService /\ cq \in Seq(CqEvents) /\ mq \in Seq(MqEvents)
  BY TypeParts DEF QueueTypes, LoginTypes
<1>2. \A k \in LoginEvents : Event(a, k) \in CqEvents
  BY DEF Event, CqEvents
<1>3. Event(a, "bos") \in MqEvents
  BY DEF Event, MqEvents
<1>4. LoginTypes'
  <2>1. \A l \in Links : [login[a] EXCEPT !.link = l] \in LoginService
    BY <1>1 DEF LoginService
  <2>2. CASE \E l \in Links : login' = [login EXCEPT ![a].link = l]
    <3>1. PICK l \in Links : login' = [login EXCEPT ![a].link = l]
      BY <2>2
    <3>2. login' = [login EXCEPT ![a] = [login[a] EXCEPT !.link = l]]
      BY <3>1, TypeParts DEF LoginTypes
    <3> QED
      BY <2>1, <3>2, TypeParts DEF LoginTypes
  <2>3. CASE Refused(a)
    <3>1. [login[a] EXCEPT !.link = "refused", !.kicked = TRUE] \in LoginService
      BY <1>1 DEF LoginService, Links
    <3> QED
      BY <2>3, <3>1, TypeParts DEF Refused, LoginTypes
  <2>4. CASE GetBOSInfo(a)
    <3>1. [login[a] EXCEPT !.link = "leaving", !.bos = TRUE] \in LoginService
      BY <1>1 DEF LoginService, Links
    <3> QED
      BY <2>4, <3>1, TypeParts DEF GetBOSInfo, LoginTypes
  <2>5. CASE LoginLoopEnds(a)
    <3>1. [login[a] EXCEPT !.ended = TRUE] \in LoginService
      BY <1>1 DEF LoginService
    <3> QED
      BY <2>5, <3>1, TypeParts DEF LoginLoopEnds, LoginTypes
  <2> QED
    BY <2>2, <2>3, <2>4, <2>5 DEF LoginThread, LoginConnected, LoginConnectFails, RecvHello,
       LoginClosed, LoginRemoteClosed, Moves, Links
<1>5. QueueTypes'
  <2>1. CASE GetBOSInfo(a)
    BY <1>1, <1>3, <2>1 DEF GetBOSInfo, QueueTypes
  <2>2. CASE LoginRemoteClosed(a)
    <3>1. <<Event(a, "error"), Event(a, "disc")>> \in Seq(CqEvents)
      BY <1>2 DEF LoginEvents
    <3> QED
      BY <1>1, <2>2, <3>1, ConcatProperties DEF LoginRemoteClosed, QueueTypes
  <2>3. CASE \E k \in LoginEvents : cq' = Append(cq, Event(a, k)) /\ mq' = mq
    BY <1>1, <1>2, <2>3 DEF QueueTypes
  <2>4. CASE LoginConnected(a) \/ RecvHello(a)
    BY <1>1, <2>4 DEF LoginConnected, RecvHello, queues, QueueTypes
  <2> QED
    BY <2>1, <2>2, <2>3, <2>4 DEF LoginThread, LoginConnectFails, Refused, LoginClosed,
       LoginLoopEnds, LoginEvents
<1> QED
  BY <1>4, <1>5

\* The services and the queues after a step of C.
LEMMA ClientThreadTypes ==
  ASSUME TypeOK, ClientThread
  PROVE  LoginTypes' /\ QueueTypes'
<1>1. CASE LeaveLoop
  BY <1>1, TypeParts DEF LeaveLoop, queues, LoginTypes, QueueTypes
<1>2. CASE ~LeaveLoop
  <2> DEFINE a == Head(cq).login
  <2>1. cq # <<>> /\ cq' = Tail(cq)
    BY <1>2 DEF ClientThread, UnexpectedDisconnect, HandleConnError, HandleDisconnect,
       FinishedSlot, TakesLoginEvent
  <2>2. cq' \in Seq(CqEvents) /\ a \in Attempts
    <3>1. cq' \in Seq(CqEvents) /\ Head(cq) \in CqEvents
      BY <2>1, TypeParts, Taken DEF QueueTypes
    <3> QED
      BY <3>1 DEF CqEvents
  <2>3. login[a] \in LoginService /\ mq \in Seq(MqEvents)
    BY <2>2, TypeParts DEF LoginTypes, QueueTypes
  <2>4. CASE UnexpectedDisconnect
    <3>1. [login[a] EXCEPT !.reason = TRUE] \in LoginService
      BY <2>3 DEF LoginService
    <3> QED
      BY <2>2, <2>4, <3>1, TypeParts DEF UnexpectedDisconnect, LoginTypes, QueueTypes
  <2>5. CASE HandleConnError
    <3>1. [login[a] EXCEPT !.err = "socket", !.quit = TRUE] \in LoginService
      BY <2>3 DEF LoginService, Errors
    <3> QED
      BY <2>2, <2>5, <3>1, TypeParts DEF HandleConnError, LoginTypes, QueueTypes
  <2>6. CASE HandleDisconnect
    <3>1. \A e \in Errors : [login[a] EXCEPT !.err = e, !.quit = TRUE] \in LoginService
      BY <2>3 DEF LoginService
    <3>2. PICK e \in Errors :
            login' = [login EXCEPT ![a] = [login[a] EXCEPT !.err = e, !.quit = TRUE]]
      BY <2>2, <2>6, TypeParts DEF HandleDisconnect, Errors, LoginTypes
    <3>3. LoginTypes'
      BY <2>2, <3>1, <3>2, TypeParts DEF LoginTypes
    <3> QED
      BY <2>2, <2>6, <3>3, TypeParts DEF HandleDisconnect, QueueTypes
  <2>7. CASE FinishedSlot
    <3>1. [login |-> a, kind |-> "ended", err |-> login[a].err] \in MqEvents
      BY <2>2, <2>3 DEF MqEvents, LoginService
    <3> QED
      BY <2>2, <2>3, <2>7, <3>1, TypeParts DEF FinishedSlot, LoginTypes, QueueTypes
  <2> QED
    BY <1>2, <2>4, <2>5, <2>6, <2>7 DEF ClientThread
<1> QED
  BY <1>1, <1>2

LEMMA TypesKept == TypeOK /\ [Next]_vars => TypeOK'
<1> SUFFICES ASSUME TypeOK, [Next]_vars PROVE TypeOK'
  OBVIOUS
<1> USE DEF RestTypes
<1>0. RestTypes /\ QueueTypes /\ LoginTypes
  BY TypeParts
<1>1. CASE \E a \in Attempts : LoginThread(a)
  <2>1. RestTypes'
    BY <1>0, <1>1 DEF LoginThread, LoginConnected, LoginConnectFails, RecvHello, Refused,
       GetBOSInfo, LoginClosed, LoginRemoteClosed, LoginLoopEnds, InLogin, bosVars
  <2> QED
    BY <1>1, <2>1, LoginThreadTypes, TypeParts
<1>2. CASE ClientThread
  <2>1. RestTypes'
    BY <1>0, <1>2 DEF ClientThread, UnexpectedDisconnect, HandleConnError, HandleDisconnect,
       FinishedSlot, LeaveLoop, TakesLoginEvent, bosVars
  <2> QED
    BY <1>2, <2>1, ClientThreadTypes, TypeParts
<1>3. CASE Start
  <2>1. attempt' \in 0 .. MaxAttempts
    BY <1>0, <1>3, AttemptsAssumption DEF Start
  <2>5. RestTypes' /\ QueueTypes'
    BY <1>0, <1>3, <2>1 DEF Start, queues, QueueTypes
  <2>2. attempt + 1 \in Attempts
    BY <1>0, <1>3, AttemptsAssumption DEF Start, Attempts
  <2>3. [login[attempt + 1] EXCEPT !.link = "connecting"] \in LoginService
    BY <1>0, <2>2 DEF LoginTypes, LoginService, Links
  <2>4. LoginTypes'
    BY <1>0, <1>3, <2>3 DEF Start, LoginTypes
  <2> QED
    BY <2>4, <2>5, TypeParts
<1>4. CASE ClientGetBOSInfo \/ LoginServiceEnded
  <2>1. mq # <<>> /\ mq' = Tail(mq) /\ cq' = cq /\ login' = login
    BY <1>4 DEF ClientGetBOSInfo, LoginServiceEnded
  <2>2. QueueTypes' /\ LoginTypes'
    BY <1>0, <2>1, Taken DEF QueueTypes, LoginTypes
  <2>3. RestTypes'
    BY ZenonT(60), <1>0, <1>4 DEF ClientGetBOSInfo, LoginServiceEnded, bosVars, Tell, ExitClient, Stages,
       LoginFailures
  <2> QED
    BY <2>2, <2>3, TypeParts
<1>5. CASE BOSStep \/ Disconnect
  <2>1. QueueTypes' /\ LoginTypes'
    BY <1>0, <1>5 DEF BOSStep, BOSConnected, BOSConnectFails, BOSDisconnected, BOSRemoteClosed,
       Stage2, Limits, FinishedConnection, Disconnect, InBOS, queues, QueueTypes, LoginTypes
  <2>2. RestTypes'
    <3>1. CASE BOSConnected \/ BOSConnectFails \/ BOSDisconnected \/ BOSRemoteClosed \/ Disconnect
      BY <1>0, <3>1 DEF BOSConnected, BOSConnectFails, BOSDisconnected, BOSRemoteClosed,
         Disconnect, InBOS, Tell, ExitClient, Losses
    <3>2. CASE Stage2 \/ FinishedConnection
      BY <1>0, <3>2 DEF Stage2, FinishedConnection, InBOS, bosVars, Tell, Stages
    <3>3. CASE \E f \in Family : Limits(f)
      <4>1. count' \in 0 .. NUM_OF_SERVICES - 1
        <5>1. count \in 0 .. NUM_OF_SERVICES - 1
          BY <1>0
        <5> QED
          BY <3>3, <5>1 DEF Limits, Done, NUM_OF_SERVICES
      <4>2. setup' \in BOOLEAN
        BY <1>0, <3>3 DEF Limits, Done
      <4> QED
        BY <1>0, <3>3, <4>1, <4>2 DEF Limits, InBOS
    <3> QED
      BY <1>5, <3>1, <3>2, <3>3 DEF BOSStep
  <2> QED
    BY <2>1, <2>2, TypeParts
<1>6. CASE UNCHANGED vars
  BY <1>6 DEF vars, TypeOK
<1> QED
  BY <1>1, <1>2, <1>3, <1>4, <1>5, <1>6 DEF Next

\* Whatever the servers do, the state keeps its types, and the count of the replies about
\* services stays below their number.
THEOREM TypeCorrect == Spec => []TypeOK
  BY InitTypes, TypesKept, PTL DEF Spec

-----------------------------------------------------------------------------
(* The inductive invariant *)

\* The order in which the events of one login service reach C.
Place == [reason |-> 1, error |-> 2, disc |-> 3, finished |-> 4]

InCq(a, kind) == \E i \in DOMAIN cq : cq[i].login = a /\ cq[i].kind = kind
Quiet(a) == \A i \in DOMAIN cq : cq[i].login # a

\* The flags of a login service follow the state of its connection.
LoginFlags ==
  \A a \in Attempts :
    /\ a > attempt => login[a].link = "none" /\ told[a] = {}
    /\ login[a].ended => login[a].quit
    /\ login[a].quit => login[a].link = "closed"
    /\ login[a].bos => login[a].link \in {"leaving", "closed"}
    /\ login[a].kicked => login[a].link \in {"refused", "closed"}
    /\ login[a].reason => login[a].kicked
    /\ login[a].err = "unexpected" => login[a].kicked

\* What an event of C says of its login service.
Says(a, kind) ==
  /\ a <= attempt
  /\ kind = "reason" => login[a].kicked /\ ~login[a].reason
  /\ kind \in {"error", "disc"} => login[a].link = "closed"
  /\ kind = "finished" => login[a].ended

CqMeans == \A i \in DOMAIN cq : Says(cq[i].login, cq[i].kind)

CqOrder ==
  \A i, j \in DOMAIN cq :
    i < j /\ cq[i].login = cq[j].login => Place[cq[i].kind] < Place[cq[j].kind]

\* The reason of a refusal, and after it the disconnection, are on their way or have
\* left their mark.
ReasonIsComing ==
  \A a \in Attempts : login[a].kicked =>
    /\ login[a].reason \/ InCq(a, "reason")
    /\ login[a].link = "closed" =>
         InCq(a, "disc") \/ (login[a].err = "unexpected" /\ ~InCq(a, "error"))

\* What the events of M say; the end of a login service is the last of its events.
MqMeans ==
  \A i \in DOMAIN mq : \A a \in Attempts : mq[i].login = a =>
    /\ mq[i].kind = "bos" => a = attempt /\ client = "running" /\ login[a].bos
    /\ mq[i].kind = "ended" =>
         a <= attempt /\ login[a].ended /\ Quiet(a)
         /\ (mq[i].err = "unexpected" <=> login[a].kicked)

MqOrder ==
  \A i, j \in DOMAIN mq :
    i < j /\ mq[i].login = mq[j].login => mq[i].kind = "bos" /\ mq[j].kind = "ended"

\* A BOS server that was named has been heard of, or its event is on its way.
BOSIsComing ==
  \A a \in Attempts : login[a].bos /\ ~logged =>
    \E i \in DOMAIN mq : mq[i].kind = "bos" /\ mq[i].login = a

\* An attempt that is no longer that of a running client asks for nothing more; as long as
\* no login succeeded it has nothing left to say, either.
Over(a) == login[a].ended /\ Quiet(a) /\ \A i \in DOMAIN mq : mq[i].login # a
Former(a) == a < attempt \/ (a = attempt /\ client # "running")
FormerAreOver ==
  \A a \in Attempts : Former(a) =>
    /\ login[a].link \in {"leaving", "closed"}
    /\ ~logged => Over(a)

\* A BOS connection belongs to the attempt that is under way.
Live == conn \in {"connecting", "up", "leaving"}
ConnectionIsCurrent ==
  Live => /\ client = "running" /\ logged /\ attempt # 0 /\ login[attempt].bos
          /\ \A i \in DOMAIN mq : mq[i].kind # "bos"

IInv ==
  /\ TypeOK /\ LoginFlags /\ CqMeans /\ CqOrder /\ ReasonIsComing /\ MqMeans /\ MqOrder
  /\ BOSIsComing /\ FormerAreOver /\ ConnectionIsCurrent /\ ReasonReported /\ LoginVerdictIsRight

-----------------------------------------------------------------------------
(* What the steps have in common *)

Others(a) == \A b \in Attempts : b # a => login'[b] = login[b]
ExceptLink(a) ==
  /\ login'[a].err = login[a].err /\ login'[a].reason = login[a].reason
  /\ login'[a].quit = login[a].quit /\ login'[a].ended = login[a].ended
ExceptEnd(a) ==
  /\ login'[a].link = login[a].link
  /\ login'[a].bos = login[a].bos /\ login'[a].kicked = login[a].kicked
Still == /\ attempt' = attempt /\ client' = client /\ logged' = logged /\ conn' = conn
         /\ told' = told

\* The facts about types that the steps need.
LEMMA Types ==
  ASSUME IInv
  PROVE  /\ attempt \in Nat /\ Attempts \subseteq Nat
         /\ \A a \in Nat : a \in Attempts <=> 1 <= a /\ a <= MaxAttempts
         /\ MaxAttempts \in Nat /\ attempt <= MaxAttempts
         /\ \A a \in Attempts : login[a] \in LoginService
         /\ cq \in Seq(CqEvents) /\ mq \in Seq(MqEvents)
         /\ Len(cq) \in Nat /\ DOMAIN cq = 1 .. Len(cq)
         /\ Len(mq) \in Nat /\ DOMAIN mq = 1 .. Len(mq)
         /\ \A i \in 1 .. Len(cq) : cq[i].login \in Attempts /\ cq[i].kind \in LoginEvents
         /\ \A i \in 1 .. Len(mq) : mq[i].login \in Attempts /\ mq[i].kind \in {"bos", "ended"}
<1>1. attempt \in 0 .. MaxAttempts /\ MaxAttempts \in Nat
  BY AttemptsAssumption DEF IInv, TypeOK
<1>2. cq \in Seq(CqEvents) /\ mq \in Seq(MqEvents)
  BY DEF IInv, TypeOK, CqEvents, MqEvents
<1>3. /\ Len(cq) \in Nat /\ DOMAIN cq = 1 .. Len(cq) /\ \A i \in 1 .. Len(cq) : cq[i] \in CqEvents
      /\ Len(mq) \in Nat /\ DOMAIN mq = 1 .. Len(mq) /\ \A i \in 1 .. Len(mq) : mq[i] \in MqEvents
  BY <1>2, LenProperties, ElementOfSeq
<1>4. \A i \in 1 .. Len(cq) : cq[i].login \in Attempts /\ cq[i].kind \in LoginEvents
  BY <1>3 DEF CqEvents
<1>5. \A i \in 1 .. Len(mq) : mq[i].login \in Attempts /\ mq[i].kind \in {"bos", "ended"}
  BY <1>3 DEF MqEvents
<1>6. \A a \in Attempts : login[a] \in LoginService
  BY DEF IInv, TypeOK
<1> QED
  BY <1>1, <1>2, <1>3, <1>4, <1>5, <1>6 DEF Attempts

LEMMA Sizes ==
  ASSUME IInv
  PROVE  /\ Len(cq) \in Nat /\ DOMAIN cq = 1 .. Len(cq)
         /\ Len(mq) \in Nat /\ DOMAIN mq = 1 .. Len(mq)
  BY Types

\* Appending an event to the queue of C.
LEMMA CqAppended ==
  ASSUME IInv, NEW a \in Attempts, NEW k \in LoginEvents, cq' = Append(cq, Event(a, k))
  PROVE  /\ DOMAIN cq' = 1 .. Len(cq) + 1
         /\ \A i \in 1 .. Len(cq) : cq'[i] = cq[i]
         /\ cq'[Len(cq) + 1].login = a /\ cq'[Len(cq) + 1].kind = k
         /\ \A b, kind : InCq(b, kind)' <=> (InCq(b, kind) \/ (b = a /\ kind = k))
         /\ \A b : Quiet(b)' <=> (Quiet(b) /\ b # a)
<1>1. Event(a, k) \in CqEvents /\ Event(a, k).login = a /\ Event(a, k).kind = k
  BY DEF Event, CqEvents
<1>2. /\ DOMAIN cq' = 1 .. Len(cq) + 1
      /\ \A i \in 1 .. Len(cq) : cq'[i] = cq[i]
      /\ cq'[Len(cq) + 1] = Event(a, k)
  BY <1>1, Types, Appended
<1>3. DOMAIN cq = 1 .. Len(cq) /\ Len(cq) \in Nat
  BY Types
<1>4. ASSUME NEW b, NEW kind
      PROVE  InCq(b, kind)' <=> (InCq(b, kind) \/ (b = a /\ kind = k))
  BY <1>1, <1>2, <1>3 DEF InCq
<1>5. ASSUME NEW b PROVE Quiet(b)' <=> (Quiet(b) /\ b # a)
  BY <1>1, <1>2, <1>3 DEF Quiet
<1> QED
  BY <1>1, <1>2, <1>4, <1>5

\* Taking the first event of C: no other event of the same service comes before its place.
LEMMA CqTaken ==
  ASSUME IInv, cq # <<>>, cq' = Tail(cq)
  PROVE  /\ Head(cq).login \in Attempts /\ Head(cq) = cq[1] /\ 1 \in DOMAIN cq
         /\ DOMAIN cq' = 1 .. Len(cq) - 1
         /\ \A i \in 1 .. Len(cq) - 1 : cq'[i] = cq[i + 1]
         /\ \A i \in DOMAIN cq' : cq'[i].kind \in LoginEvents
         /\ \A i \in DOMAIN cq' : cq'[i].login = Head(cq).login =>
              Place[Head(cq).kind] < Place[cq'[i].kind]
         /\ \A b, kind : InCq(b, kind)' => InCq(b, kind)
         /\ \A b, kind : InCq(b, kind) =>
              InCq(b, kind)' \/ (b = Head(cq).login /\ kind = Head(cq).kind)
         /\ \A b : Quiet(b) => Quiet(b)'
         /\ ~Quiet(Head(cq).login) /\ InCq(Head(cq).login, Head(cq).kind)
<1>1. /\ Head(cq) \in CqEvents /\ Head(cq) = cq[1] /\ 1 \in DOMAIN cq
      /\ DOMAIN cq = 1 .. Len(cq) /\ Len(cq) \in Nat
      /\ DOMAIN cq' = 1 .. Len(cq) - 1
      /\ \A i \in 1 .. Len(cq) - 1 : cq'[i] = cq[i + 1]
  BY Types, Taken
<1>2. \A i \in DOMAIN cq' : cq'[i].login = Head(cq).login =>
        Place[Head(cq).kind] < Place[cq'[i].kind]
  BY <1>1 DEF IInv, CqOrder
<1>3. ASSUME NEW b, NEW kind PROVE InCq(b, kind)' => InCq(b, kind)
  BY <1>1 DEF InCq
<1>4. ASSUME NEW b, NEW kind, InCq(b, kind)
      PROVE  InCq(b, kind)' \/ (b = Head(cq).login /\ kind = Head(cq).kind)
  <2>1. PICK i \in DOMAIN cq : cq[i].login = b /\ cq[i].kind = kind
    BY <1>4 DEF InCq
  <2>2. CASE i = 1
    BY <1>1, <2>1, <2>2
  <2>3. CASE i # 1
    <3>1. i - 1 \in DOMAIN cq' /\ cq'[i - 1] = cq[i]
      BY <1>1, <2>3
    <3> QED
      BY <2>1, <3>1 DEF InCq
  <2> QED
    BY <2>2, <2>3
<1>5. ASSUME NEW b PROVE Quiet(b) => Quiet(b)'
  BY <1>1 DEF Quiet
<1>6. Head(cq).login \in Attempts
  BY <1>1 DEF CqEvents
<1>7. \A i \in DOMAIN cq' : cq'[i].kind \in LoginEvents
  BY <1>1, Types
<1>8. ~Quiet(Head(cq).login) /\ InCq(Head(cq).login, Head(cq).kind)
  BY <1>1 DEF Quiet, InCq
<1> QED
  BY <1>1, <1>2, <1>3, <1>4, <1>5, <1>6, <1>7, <1>8

\* What is left to show when a step of a login service appends one event.
LEMMA CqGrows ==
  ASSUME IInv, NEW a \in Attempts, NEW k \in LoginEvents, cq' = Append(cq, Event(a, k)),
         attempt' = attempt, Others(a), Says(a, k)',
         \A i \in 1 .. Len(cq) : cq[i].login = a =>
           Says(a, cq[i].kind)' /\ Place[cq[i].kind] < Place[k]
  PROVE  CqMeans' /\ CqOrder'
<1>1. /\ DOMAIN cq = 1 .. Len(cq) /\ Len(cq) \in Nat
      /\ DOMAIN cq' = 1 .. Len(cq) + 1
      /\ \A i \in 1 .. Len(cq) : cq'[i] = cq[i] /\ cq[i].login \in Attempts
      /\ cq'[Len(cq) + 1].login = a /\ cq'[Len(cq) + 1].kind = k
  BY Types, CqAppended
<1>2. ASSUME NEW i \in DOMAIN cq' PROVE Says(cq[i].login, cq[i].kind)'
  <2>1. CASE i = Len(cq) + 1
    BY <1>1, <2>1
  <2>2. CASE i # Len(cq) + 1 /\ cq'[i].login = a
    BY <1>1, <2>2
  <2>3. CASE i # Len(cq) + 1 /\ cq'[i].login # a
    <3>1. i \in 1 .. Len(cq) /\ cq'[i] = cq[i] /\ Says(cq[i].login, cq[i].kind)
      BY <1>1, <2>3 DEF IInv, CqMeans
    <3>2. login'[cq[i].login] = login[cq[i].login]
      BY <1>1, <2>3, <3>1 DEF Others
    <3> QED
      BY <3>1, <3>2 DEF Says
  <2> QED
    BY <2>1, <2>2, <2>3
<1>3. ASSUME NEW i \in DOMAIN cq', NEW j \in DOMAIN cq', i < j, cq'[i].login = cq'[j].login
      PROVE  Place[cq'[i].kind] < Place[cq'[j].kind]
  <2>1. CASE j = Len(cq) + 1
    BY <1>1, <1>3, <2>1
  <2>2. CASE j # Len(cq) + 1
    BY <1>1, <1>3, <2>2 DEF IInv, CqOrder
  <2> QED
    BY <2>1, <2>2
<1> QED
  BY <1>2, <1>3 DEF CqMeans, CqOrder

\* What is left to show when C takes an event.
LEMMA CqShrinks ==
  ASSUME IInv, cq # <<>>, cq' = Tail(cq), attempt' = attempt,
         NEW a \in Attempts, Head(cq).login = a, Others(a),
         \A i \in DOMAIN cq' : cq'[i].login = a => Says(a, cq[i].kind)'
  PROVE  CqMeans' /\ CqOrder'
<1>1. /\ DOMAIN cq = 1 .. Len(cq) /\ Len(cq) \in Nat
      /\ DOMAIN cq' = 1 .. Len(cq) - 1
      /\ \A i \in 1 .. Len(cq) - 1 : cq'[i] = cq[i + 1] /\ cq[i + 1].login \in Attempts
  BY Types, CqTaken
<1>2. ASSUME NEW i \in DOMAIN cq' PROVE Says(cq[i].login, cq[i].kind)'
  <2>1. CASE cq'[i].login = a
    BY <2>1
  <2>2. CASE cq'[i].login # a
    <3>1. Says(cq[i + 1].login, cq[i + 1].kind)
      BY <1>1 DEF IInv, CqMeans
    <3>2. login'[cq[i + 1].login] = login[cq[i + 1].login]
      BY <1>1, <2>2 DEF Others
    <3> QED
      BY <1>1, <3>1, <3>2 DEF Says
  <2> QED
    BY <2>1, <2>2
<1>3. CqOrder'
  BY <1>1 DEF IInv, CqOrder
<1> QED
  BY <1>2, <1>3 DEF CqMeans

\* What is left to show when the queue of C stays as it is.
LEMMA CqStays ==
  ASSUME IInv, cq' = cq, attempt' = attempt, NEW a \in Attempts, Others(a),
         \A kind : Says(a, kind) => Says(a, kind)'
  PROVE  CqMeans' /\ CqOrder'
<1>1. ASSUME NEW i \in DOMAIN cq PROVE Says(cq[i].login, cq[i].kind)'
  <2>1. Says(cq[i].login, cq[i].kind) /\ cq[i].login \in Attempts
    BY Types DEF IInv, CqMeans
  <2>2. CASE cq[i].login = a
    BY <2>1, <2>2
  <2>3. CASE cq[i].login # a
    BY <2>1, <2>3 DEF Says, Others
  <2> QED
    BY <2>2, <2>3
<1>2. CqOrder'
  BY DEF IInv, CqOrder
<1> QED
  BY <1>1, <1>2 DEF CqMeans

\* Appending an event to the queue of M, and taking one.
LEMMA MqAppended ==
  ASSUME IInv, NEW e \in MqEvents, mq' = Append(mq, e)
  PROVE  /\ DOMAIN mq' = 1 .. Len(mq) + 1
         /\ \A i \in 1 .. Len(mq) : mq'[i] = mq[i]
         /\ mq'[Len(mq) + 1] = e
  BY Types, Appended

LEMMA MqTaken ==
  ASSUME IInv, mq # <<>>, mq' = Tail(mq)
  PROVE  /\ Head(mq) \in MqEvents /\ Head(mq) = mq[1] /\ 1 \in DOMAIN mq
         /\ DOMAIN mq' = 1 .. Len(mq) - 1
         /\ \A i \in 1 .. Len(mq) - 1 : mq'[i] = mq[i + 1]
  BY Types, Taken

-----------------------------------------------------------------------------
(* L: the connection to the login server *)

\* The connection to the login server is made.
LEMMA LoginConnectedKeeps ==
  ASSUME IInv, TypeOK', NEW a \in Attempts, LoginConnected(a)
  PROVE  IInv'
<1>1. /\ login[a].link = "connecting"
      /\ login'[a].link = "hello" /\ ExceptLink(a) /\ Others(a) /\ login'[a].bos = login[a].bos
      /\ login'[a].kicked = login[a].kicked
  BY Types DEF IInv, TypeOK, LoginConnected, Moves, LoginService, ExceptLink, Others
<1>2. Still /\ cq' = cq /\ mq' = mq
  BY DEF LoginConnected, Moves, InLogin, bosVars, queues, Still
<1>3. \A b, k : InCq(b, k)' <=> InCq(b, k)
  BY <1>2 DEF InCq
<1>4. \A kind : Says(a, kind) => Says(a, kind)'
  BY <1>1, <1>2 DEF Says, ExceptLink, Still
<1>5. LoginFlags'
  BY <1>1, <1>2 DEF IInv, LoginFlags, Others, ExceptLink, Still
<1>6. CqMeans'
  BY <1>1, <1>2, <1>4, CqStays DEF Still
<1>7. CqOrder'
  BY <1>1, <1>2, <1>4, CqStays DEF Still
<1>8. ReasonIsComing'
  BY <1>1, <1>3 DEF IInv, ReasonIsComing, LoginFlags, Others
<1>9. MqMeans'
  BY <1>1, <1>2 DEF IInv, MqMeans, LoginFlags, Others, Still, Quiet
<1>10. MqOrder'
  BY <1>2 DEF IInv, MqOrder
<1>11. BOSIsComing'
  BY <1>1, <1>2 DEF IInv, BOSIsComing, Others, Still
<1>12. FormerAreOver'
  BY <1>1, <1>2 DEF IInv, FormerAreOver, Former, Over, Others, Still, Quiet
<1>13. ConnectionIsCurrent'
  BY <1>1, <1>2, Types DEF IInv, ConnectionIsCurrent, Live, Others, Still
<1>14. ReasonReported'
  BY <1>1, <1>2 DEF IInv, ReasonReported, Others, Still
<1>15. LoginVerdictIsRight'
  BY <1>1, <1>2 DEF IInv, LoginVerdictIsRight, LoginFlags, Others, Still
<1> QED
  BY <1>5, <1>6, <1>7, <1>8, <1>9, <1>10, <1>11, <1>12, <1>13, <1>14, <1>15 DEF IInv

\* The credentials are sent.
LEMMA RecvHelloKeeps ==
  ASSUME IInv, TypeOK', NEW a \in Attempts, RecvHello(a)
  PROVE  IInv'
<1>1. /\ login[a].link = "hello"
      /\ login'[a].link = "asked" /\ ExceptLink(a) /\ Others(a) /\ login'[a].bos = login[a].bos
      /\ login'[a].kicked = login[a].kicked
  BY Types DEF IInv, TypeOK, RecvHello, Moves, LoginService, ExceptLink, Others
<1>2. Still /\ cq' = cq /\ mq' = mq
  BY DEF RecvHello, Moves, InLogin, bosVars, queues, Still
<1>3. \A b, k : InCq(b, k)' <=> InCq(b, k)
  BY <1>2 DEF InCq
<1>4. \A kind : Says(a, kind) => Says(a, kind)'
  BY <1>1, <1>2 DEF Says, ExceptLink, Still
<1>5. LoginFlags'
  BY <1>1, <1>2 DEF IInv, LoginFlags, Others, ExceptLink, Still
<1>6. CqMeans'
  BY <1>1, <1>2, <1>4, CqStays DEF Still
<1>7. CqOrder'
  BY <1>1, <1>2, <1>4, CqStays DEF Still
<1>8. ReasonIsComing'
  BY <1>1, <1>3 DEF IInv, ReasonIsComing, LoginFlags, Others
<1>9. MqMeans'
  BY <1>1, <1>2 DEF IInv, MqMeans, LoginFlags, Others, Still, Quiet
<1>10. MqOrder'
  BY <1>2 DEF IInv, MqOrder
<1>11. BOSIsComing'
  BY <1>1, <1>2 DEF IInv, BOSIsComing, Others, Still
<1>12. FormerAreOver'
  BY <1>1, <1>2 DEF IInv, FormerAreOver, Former, Over, Others, Still, Quiet
<1>13. ConnectionIsCurrent'
  BY <1>1, <1>2, Types DEF IInv, ConnectionIsCurrent, Live, Others, Still
<1>14. ReasonReported'
  BY <1>1, <1>2 DEF IInv, ReasonReported, Others, Still
<1>15. LoginVerdictIsRight'
  BY <1>1, <1>2 DEF IInv, LoginVerdictIsRight, LoginFlags, Others, Still
<1> QED
  BY <1>5, <1>6, <1>7, <1>8, <1>9, <1>10, <1>11, <1>12, <1>13, <1>14, <1>15 DEF IInv

\* The connection is refused: its error is the first event of the service.
LEMMA LoginConnectFailsKeeps ==
  ASSUME IInv, TypeOK', NEW a \in Attempts, LoginConnectFails(a)
  PROVE  IInv'
<1>1. /\ login[a].link = "connecting"
      /\ login'[a].link = "closed" /\ ExceptLink(a) /\ Others(a) /\ login'[a].bos = login[a].bos
      /\ login'[a].kicked = login[a].kicked
  BY Types DEF IInv, TypeOK, LoginConnectFails, Moves, LoginService, ExceptLink, Others
<1>2. Still /\ mq' = mq
  BY DEF LoginConnectFails, Moves, InLogin, bosVars, queues, Still
<1>3. cq' = Append(cq, Event(a, "error")) /\ "error" \in LoginEvents
  BY DEF LoginConnectFails, LoginEvents
<1>4. /\ DOMAIN cq' = 1 .. Len(cq) + 1
      /\ \A i \in 1 .. Len(cq) : cq'[i] = cq[i]
      /\ cq'[Len(cq) + 1].login = a /\ cq'[Len(cq) + 1].kind = "error"
      /\ \A b, kind : InCq(b, kind)' <=> (InCq(b, kind) \/ (b = a /\ kind = "error"))
      /\ \A b : Quiet(b)' <=> (Quiet(b) /\ b # a)
  BY <1>3, CqAppended
<1>5. \A i \in 1 .. Len(cq) : cq[i].login # a
  BY <1>1, Types DEF IInv, LoginFlags, CqMeans, Says, LoginEvents
<1>6. ~login[a].reason /\ ~login[a].ended /\ a <= attempt
  BY <1>1, Types DEF IInv, LoginFlags
<1>7. Says(a, "error")'
  BY <1>1, <1>2, <1>6 DEF Says, ExceptLink, Still
<1>8. LoginFlags'
  BY <1>1, <1>2 DEF IInv, LoginFlags, Others, ExceptLink, Still
<1>9. CqMeans'
  BY <1>1, <1>2, <1>3, <1>5, <1>7, CqGrows DEF Still
<1>10. CqOrder'
  BY <1>1, <1>2, <1>3, <1>5, <1>7, CqGrows DEF Still
<1>11. ReasonIsComing'
  BY <1>1, <1>4 DEF IInv, ReasonIsComing, LoginFlags, Others
<1>12. MqMeans'
  BY <1>1, <1>2, <1>4, <1>6 DEF IInv, MqMeans, Others, Still
<1>13. MqOrder'
  BY <1>2 DEF IInv, MqOrder
<1>14. BOSIsComing'
  BY <1>1, <1>2 DEF IInv, BOSIsComing, Others, Still
<1>15. FormerAreOver'
  BY <1>1, <1>2, <1>4 DEF IInv, FormerAreOver, Former, Over, Others, Still
<1>16. ConnectionIsCurrent'
  BY SMTT(60), <1>1, <1>2, Types DEF IInv, ConnectionIsCurrent, Live, Others, Still
<1>17. ReasonReported'
  BY <1>1, <1>2 DEF IInv, ReasonReported, Others, Still
<1>18. LoginVerdictIsRight'
  BY <1>1, <1>2, <1>6 DEF IInv, LoginVerdictIsRight, Others, Still
<1> QED
  BY <1>8, <1>9, <1>10, <1>11, <1>12, <1>13, <1>14, <1>15, <1>16, <1>17, <1>18 DEF IInv

\* The login server refuses: the reason is the first event of the service.
LEMMA RefusedKeeps ==
  ASSUME IInv, TypeOK', NEW a \in Attempts, Refused(a)
  PROVE  IInv'
<1>1. /\ login[a].link = "asked"
      /\ login'[a].link = "refused" /\ ExceptLink(a) /\ Others(a) /\ login'[a].bos = login[a].bos
      /\ login'[a].kicked
  BY Types DEF IInv, TypeOK, Refused, Moves, LoginService, ExceptLink, Others
<1>2. Still /\ mq' = mq
  BY DEF Refused, Moves, InLogin, bosVars, queues, Still
<1>3. cq' = Append(cq, Event(a, "reason")) /\ "reason" \in LoginEvents
  BY DEF Refused, LoginEvents
<1>4. /\ DOMAIN cq' = 1 .. Len(cq) + 1
      /\ \A i \in 1 .. Len(cq) : cq'[i] = cq[i]
      /\ cq'[Len(cq) + 1].login = a /\ cq'[Len(cq) + 1].kind = "reason"
      /\ \A b, kind : InCq(b, kind)' <=> (InCq(b, kind) \/ (b = a /\ kind = "reason"))
      /\ \A b : Quiet(b)' <=> (Quiet(b) /\ b # a)
  BY <1>3, CqAppended
<1>5. \A i \in 1 .. Len(cq) : cq[i].login # a
  BY <1>1, Types DEF IInv, LoginFlags, CqMeans, Says, LoginEvents
<1>6. ~login[a].reason /\ ~login[a].ended /\ a <= attempt
  BY <1>1, Types DEF IInv, LoginFlags
<1>7. Says(a, "reason")'
  BY <1>1, <1>2, <1>6 DEF Says, ExceptLink, Still
<1>8. LoginFlags'
  BY <1>1, <1>2 DEF IInv, LoginFlags, Others, ExceptLink, Still
<1>9. CqMeans'
  BY <1>1, <1>2, <1>3, <1>5, <1>7, CqGrows DEF Still
<1>10. CqOrder'
  BY <1>1, <1>2, <1>3, <1>5, <1>7, CqGrows DEF Still
<1>11. ReasonIsComing'
  BY <1>1, <1>4 DEF IInv, ReasonIsComing, Others
<1>12. MqMeans'
  BY <1>1, <1>2, <1>4 DEF IInv, MqMeans, LoginFlags, Others, Still
<1>13. MqOrder'
  BY <1>2 DEF IInv, MqOrder
<1>14. BOSIsComing'
  BY <1>1, <1>2 DEF IInv, BOSIsComing, Others, Still
<1>15. FormerAreOver'
  BY <1>1, <1>2, <1>4 DEF IInv, FormerAreOver, Former, Over, Others, Still
<1>16. ConnectionIsCurrent'
  BY SMTT(60), <1>1, <1>2, Types DEF IInv, ConnectionIsCurrent, Live, Others, Still
<1>17. ReasonReported'
  BY <1>1, <1>2, <1>6 DEF IInv, ReasonReported, LoginVerdictIsRight, LoginFailures, Others, Still
<1>18. LoginVerdictIsRight'
  BY <1>1, <1>2, <1>6 DEF IInv, LoginVerdictIsRight, Others, Still
<1> QED
  BY <1>8, <1>9, <1>10, <1>11, <1>12, <1>13, <1>14, <1>15, <1>16, <1>17, <1>18 DEF IInv

\* The connection that was to be closed is closed.
LEMMA LoginClosedKeeps ==
  ASSUME IInv, TypeOK', NEW a \in Attempts, LoginClosed(a)
  PROVE  IInv'
<1>1. /\ login[a].link = "leaving"
      /\ login'[a].link = "closed" /\ ExceptLink(a) /\ Others(a) /\ login'[a].bos = login[a].bos
      /\ login'[a].kicked = login[a].kicked
  BY Types DEF IInv, TypeOK, LoginClosed, Moves, LoginService, ExceptLink, Others
<1>2. Still /\ mq' = mq
  BY DEF LoginClosed, Moves, InLogin, bosVars, queues, Still
<1>3. cq' = Append(cq, Event(a, "disc")) /\ "disc" \in LoginEvents
  BY DEF LoginClosed, LoginEvents
<1>4. /\ DOMAIN cq' = 1 .. Len(cq) + 1
      /\ \A i \in 1 .. Len(cq) : cq'[i] = cq[i]
      /\ cq'[Len(cq) + 1].login = a /\ cq'[Len(cq) + 1].kind = "disc"
      /\ \A b, kind : InCq(b, kind)' <=> (InCq(b, kind) \/ (b = a /\ kind = "disc"))
      /\ \A b : Quiet(b)' <=> (Quiet(b) /\ b # a)
  BY <1>3, CqAppended
<1>5. \A i \in 1 .. Len(cq) : cq[i].login # a
  BY <1>1, Types DEF IInv, LoginFlags, CqMeans, Says, LoginEvents
<1>6. ~login[a].reason /\ ~login[a].ended /\ a <= attempt
  BY <1>1, Types DEF IInv, LoginFlags
<1>7. Says(a, "disc")'
  BY <1>1, <1>2, <1>6 DEF Says, ExceptLink, Still
<1>8. LoginFlags'
  BY <1>1, <1>2 DEF IInv, LoginFlags, Others, ExceptLink, Still
<1>9. CqMeans'
  BY <1>1, <1>2, <1>3, <1>5, <1>7, CqGrows DEF Still
<1>10. CqOrder'
  BY <1>1, <1>2, <1>3, <1>5, <1>7, CqGrows DEF Still
<1>11. ReasonIsComing'
  BY <1>1, <1>4, <1>6 DEF IInv, ReasonIsComing, Others
<1>12. MqMeans'
  BY <1>1, <1>2, <1>4, <1>6 DEF IInv, MqMeans, Others, ExceptLink, Still
<1>13. MqOrder'
  BY <1>2 DEF IInv, MqOrder
<1>14. BOSIsComing'
  BY <1>1, <1>2 DEF IInv, BOSIsComing, Others, Still
<1>15. FormerAreOver'
  BY <1>1, <1>2, <1>4, <1>6 DEF IInv, FormerAreOver, Former, Over, Others, Still
<1>16. ConnectionIsCurrent'
  BY SMTT(60), <1>1, <1>2, Types DEF IInv, ConnectionIsCurrent, Live, Others, Still
<1>17. ReasonReported'
  BY <1>1, <1>2 DEF IInv, ReasonReported, Others, Still
<1>18. LoginVerdictIsRight'
  BY <1>1, <1>2, <1>6 DEF IInv, LoginVerdictIsRight, Others, Still
<1> QED
  BY <1>8, <1>9, <1>10, <1>11, <1>12, <1>13, <1>14, <1>15, <1>16, <1>17, <1>18 DEF IInv

\* The login server closes: the error and the disconnection follow the reason, if there is one.
LEMMA LoginRemoteClosedKeeps ==
  ASSUME IInv, TypeOK', NEW a \in Attempts, LoginRemoteClosed(a)
  PROVE  IInv'
<1>1. /\ login[a].link \in {"hello", "asked", "refused", "leaving"}
      /\ login'[a].link = "closed" /\ ExceptLink(a) /\ Others(a) /\ login'[a].bos = login[a].bos
      /\ login'[a].kicked = login[a].kicked
  BY Types DEF IInv, TypeOK, LoginRemoteClosed, LoginService, ExceptLink, Others
<1>2. Still /\ mq' = mq
  BY DEF LoginRemoteClosed, Moves, InLogin, bosVars, queues, Still
<1>3. /\ DOMAIN cq' = 1 .. Len(cq) + 2
      /\ \A i \in 1 .. Len(cq) : cq'[i] = cq[i]
      /\ cq'[Len(cq) + 1].login = a /\ cq'[Len(cq) + 1].kind = "error"
      /\ cq'[Len(cq) + 2].login = a /\ cq'[Len(cq) + 2].kind = "disc"
  <2> DEFINE both == <<Event(a, "error"), Event(a, "disc")>>
  <2>1. /\ both \in Seq(CqEvents) /\ Len(both) = 2 /\ cq' = cq \o both
        /\ both[1].login = a /\ both[1].kind = "error"
        /\ both[2].login = a /\ both[2].kind = "disc"
    BY DEF LoginRemoteClosed, Event, CqEvents, LoginEvents
  <2> HIDE DEF both
  <2>2. /\ cq \in Seq(CqEvents) /\ Len(cq) \in Nat
        /\ cq \o both \in Seq(CqEvents) /\ Len(cq \o both) = Len(cq) + 2
        /\ \A i \in 1 .. Len(cq) + 2 :
             (cq \o both)[i] = IF i <= Len(cq) THEN cq[i] ELSE both[i - Len(cq)]
    <3>1. cq \in Seq(CqEvents) /\ Len(cq) \in Nat
      BY Types
    <3> QED
      BY SMTT(60), <2>1, <3>1, ConcatProperties
  <2>3. DOMAIN cq' = 1 .. Len(cq) + 2
    BY <2>1, <2>2, LenProperties
  <2>4. cq'[Len(cq) + 1] = both[1] /\ cq'[Len(cq) + 2] = both[2]
    BY <2>1, <2>2
  <2> QED
    BY <2>1, <2>2, <2>3, <2>4
<1>4. ~login[a].ended /\ a <= attempt
  BY <1>1, Types DEF IInv, LoginFlags
<1>5. \A i \in 1 .. Len(cq) : cq[i].login = a => cq[i].kind = "reason"
  BY <1>1, Types DEF IInv, LoginFlags, CqMeans, Says, LoginEvents
<1>6. \A b : b # a => (\A kind : InCq(b, kind)' <=> InCq(b, kind)) /\ (Quiet(b)' <=> Quiet(b))
  <2> TAKE b
  <2>1. ASSUME b # a, NEW kind PROVE InCq(b, kind)' <=> InCq(b, kind)
    <3>1. ASSUME NEW i \in 1 .. Len(cq) + 2, cq'[i].login = b PROVE i \in 1 .. Len(cq)
      BY <1>3, <2>1, <3>1, Sizes
    <3> QED
      BY <1>3, <3>1, Sizes DEF InCq
  <2>2. ASSUME b # a PROVE Quiet(b)' <=> Quiet(b)
    <3>1. ASSUME NEW i \in 1 .. Len(cq) + 2, cq'[i].login = b PROVE i \in 1 .. Len(cq)
      BY <1>3, <2>2, <3>1, Sizes
    <3> QED
      BY <1>3, <3>1, Sizes DEF Quiet
  <2> QED
    BY <2>1, <2>2
<1>7. InCq(a, "disc")' /\ (InCq(a, "reason") => InCq(a, "reason")')
  BY SMTT(60), <1>3, Types DEF InCq
<1>8. LoginFlags'
  BY <1>1, <1>2 DEF IInv, LoginFlags, Others, ExceptLink, Still
<1>9. CqMeans'
  <2> SUFFICES ASSUME NEW i \in DOMAIN cq' PROVE Says(cq[i].login, cq[i].kind)'
    BY DEF CqMeans
  <2>1. CASE i \in 1 .. Len(cq) /\ cq[i].login # a
    <3>1. cq'[i] = cq[i] /\ login'[cq[i].login] = login[cq[i].login]
      BY <1>1, <1>3, <2>1, Types DEF Others
    <3> QED
      BY <1>2, <2>1, <3>1, Types DEF IInv, CqMeans, Says, Still
  <2>2. CASE i \in 1 .. Len(cq) /\ cq[i].login = a
    BY <1>1, <1>2, <1>3, <1>5, <2>2, Types DEF IInv, CqMeans, Says, Still, ExceptLink
  <2>3. CASE i \notin 1 .. Len(cq)
    <3>1. i = Len(cq) + 1 \/ i = Len(cq) + 2
      BY <1>3, <2>3, Sizes
    <3>2. cq'[i].login = a /\ cq'[i].kind \in {"error", "disc"}
      BY <1>3, <3>1
    <3> QED
      BY <1>1, <1>2, <1>4, <3>2 DEF Says, Still
  <2> QED
    BY <2>1, <2>2, <2>3
<1>10. CqOrder'
  <2> SUFFICES ASSUME NEW i \in DOMAIN cq', NEW j \in DOMAIN cq', i < j, cq'[i].login = cq'[j].login
               PROVE  Place[cq'[i].kind] < Place[cq'[j].kind]
    BY DEF CqOrder
  <2>1. CASE j \in 1 .. Len(cq)
    <3>1. i \in 1 .. Len(cq) /\ DOMAIN cq = 1 .. Len(cq)
      BY <1>3, <2>1, Sizes
    <3>2. cq'[i] = cq[i] /\ cq'[j] = cq[j]
      BY <1>3, <2>1, <3>1
    <3> QED
      BY <2>1, <3>1, <3>2 DEF IInv, CqOrder
  <2>2. CASE j \notin 1 .. Len(cq)
    <3>1. j = Len(cq) + 1 \/ j = Len(cq) + 2
      BY <1>3, <2>2, Sizes
    <3>2. cq'[j].login = a /\ i \in 1 .. Len(cq) + 1
      BY <1>3, <3>1, Sizes
    <3>3. i = Len(cq) + 1 => j = Len(cq) + 2
      BY <3>1, Sizes
    <3>4. i # Len(cq) + 1 => cq'[i].kind = "reason"
      BY <1>3, <1>5, <3>2, Sizes
    <3> QED
      BY <1>3, <3>1, <3>3, <3>4 DEF Place
  <2> QED
    BY <2>1, <2>2
<1>11. ReasonIsComing'
  <2> SUFFICES ASSUME NEW b \in Attempts, login'[b].kicked
               PROVE  /\ login'[b].reason \/ InCq(b, "reason")'
                      /\ login'[b].link = "closed" =>
                           InCq(b, "disc")' \/ (login'[b].err = "unexpected" /\ ~InCq(b, "error")')
    BY DEF ReasonIsComing
  <2>1. CASE b = a
    BY <1>1, <1>7, <2>1 DEF IInv, ReasonIsComing, ExceptLink
  <2>2. CASE b # a
    BY <1>1, <1>6, <2>2 DEF IInv, ReasonIsComing, Others
  <2> QED
    BY <2>1, <2>2
<1>12. MqMeans'
  BY <1>1, <1>2, <1>4, <1>6 DEF IInv, MqMeans, Others, Still
<1>13. MqOrder'
  BY <1>2 DEF IInv, MqOrder
<1>14. BOSIsComing'
  BY <1>1, <1>2 DEF IInv, BOSIsComing, Others, Still
<1>15. FormerAreOver'
  BY <1>1, <1>2, <1>4, <1>6 DEF IInv, FormerAreOver, Former, Over, Others, Still
<1>16. ConnectionIsCurrent'
  BY <1>1, <1>2, Types DEF IInv, ConnectionIsCurrent, Live, LoginFlags, Others, Still
<1>17. ReasonReported'
  BY <1>1, <1>2 DEF IInv, ReasonReported, Others, Still
<1>18. LoginVerdictIsRight'
  BY <1>1, <1>2, <1>4 DEF IInv, LoginVerdictIsRight, Others, Still
<1> QED
  BY <1>8, <1>9, <1>10, <1>11, <1>12, <1>13, <1>14, <1>15, <1>16, <1>17, <1>18 DEF IInv

\* The thread of the service ends: its last event.
LEMMA LoginLoopEndsKeeps ==
  ASSUME IInv, TypeOK', NEW a \in Attempts, LoginLoopEnds(a)
  PROVE  IInv'
<1>1. /\ login[a].quit /\ ~login[a].ended /\ login[a].link = "closed"
      /\ login'[a].ended /\ login'[a].quit = login[a].quit /\ login'[a].err = login[a].err
      /\ login'[a].reason = login[a].reason /\ ExceptEnd(a) /\ Others(a)
  <2>1. login[a].quit /\ ~login[a].ended /\ login' = [login EXCEPT ![a].ended = TRUE]
    BY DEF LoginLoopEnds
  <2>2. login \in [Attempts -> LoginService]
    BY Types DEF IInv, TypeOK
  <2>3. login[a].link = "closed"
    BY <2>1, Types DEF IInv, LoginFlags
  <2>4. /\ login'[a].ended /\ login'[a].quit = login[a].quit /\ login'[a].err = login[a].err
        /\ login'[a].reason = login[a].reason /\ ExceptEnd(a)
    BY <2>1, <2>2 DEF LoginService, ExceptEnd
  <2>5. Others(a)
    BY <2>1, <2>2 DEF Others
  <2> QED
    BY <2>1, <2>3, <2>4, <2>5
<1>2. Still /\ mq' = mq
  BY DEF LoginLoopEnds, Moves, InLogin, bosVars, queues, Still
<1>3. cq' = Append(cq, Event(a, "finished")) /\ "finished" \in LoginEvents
  BY DEF LoginLoopEnds, LoginEvents
<1>4. /\ DOMAIN cq' = 1 .. Len(cq) + 1
      /\ \A i \in 1 .. Len(cq) : cq'[i] = cq[i]
      /\ cq'[Len(cq) + 1].login = a /\ cq'[Len(cq) + 1].kind = "finished"
      /\ \A b, kind : InCq(b, kind)' <=> (InCq(b, kind) \/ (b = a /\ kind = "finished"))
      /\ \A b : Quiet(b)' <=> (Quiet(b) /\ b # a)
  BY <1>3, CqAppended
<1>5. \A i \in 1 .. Len(cq) : cq[i].login = a => cq[i].kind \in {"reason", "error", "disc"}
  BY <1>1, Types DEF IInv, CqMeans, Says, LoginEvents
<1>6. Says(a, "finished")'
  BY <1>1, <1>2, Types DEF IInv, LoginFlags, Says, Still
<1>7. \A i \in 1 .. Len(cq) : cq[i].login = a =>
        Says(a, cq[i].kind)' /\ Place[cq[i].kind] < Place["finished"]
  <2> SUFFICES ASSUME NEW i \in 1 .. Len(cq), cq[i].login = a
               PROVE  Says(a, cq[i].kind)' /\ Place[cq[i].kind] < Place["finished"]
    OBVIOUS
  <2>1. Says(a, cq[i].kind) /\ cq'[i] = cq[i]
    BY <1>4, Sizes DEF IInv, CqMeans
  <2>2. Says(a, cq[i].kind)'
    BY <1>1, <1>2, <2>1 DEF Says, ExceptEnd, Still
  <2> QED
    BY <1>5, <2>2 DEF Place
<1>8. LoginFlags'
  BY ZenonT(60), <1>1, <1>2, Types DEF IInv, LoginFlags, Others, ExceptEnd, Still
<1>9. CqMeans'
  BY <1>1, <1>2, <1>3, <1>6, <1>7, CqGrows DEF Still
<1>10. CqOrder'
  BY <1>1, <1>2, <1>3, <1>6, <1>7, CqGrows DEF Still
<1>11. ReasonIsComing'
  BY <1>1, <1>4 DEF IInv, ReasonIsComing, Others, ExceptEnd
<1>12. MqMeans'
  BY <1>1, <1>2, <1>4 DEF IInv, MqMeans, Others, ExceptEnd, Still
<1>13. MqOrder'
  BY <1>2 DEF IInv, MqOrder
<1>14. BOSIsComing'
  BY <1>1, <1>2 DEF IInv, BOSIsComing, Others, ExceptEnd, Still
<1>15. FormerAreOver'
  BY <1>1, <1>2, <1>4 DEF IInv, FormerAreOver, Former, Over, Others, ExceptEnd, Still
<1>16. ConnectionIsCurrent'
  BY SMTT(60), <1>1, <1>2, Types DEF IInv, ConnectionIsCurrent, Live, Others, ExceptEnd, Still
<1>17. ReasonReported'
  BY <1>1, <1>2 DEF IInv, ReasonReported, LoginVerdictIsRight, LoginFailures, Others, Still
<1>18. LoginVerdictIsRight'
  BY <1>1, <1>2 DEF IInv, LoginVerdictIsRight, Others, Still
<1> QED
  BY <1>8, <1>9, <1>10, <1>11, <1>12, <1>13, <1>14, <1>15, <1>16, <1>17, <1>18 DEF IInv

\* The login server names a BOS server: the first event of the service for M.
LEMMA GetBOSInfoKeeps ==
  ASSUME IInv, TypeOK', NEW a \in Attempts, GetBOSInfo(a)
  PROVE  IInv'
<1>1. /\ login[a].link = "asked"
      /\ login'[a].link = "leaving" /\ ExceptLink(a) /\ Others(a) /\ login'[a].bos
      /\ login'[a].kicked = login[a].kicked
  BY Types DEF IInv, TypeOK, GetBOSInfo, Moves, LoginService, ExceptLink, Others
<1>2. Still /\ cq' = cq
  BY DEF GetBOSInfo, Moves, InLogin, bosVars, queues, Still
<1>3. /\ DOMAIN mq' = 1 .. Len(mq) + 1
      /\ \A i \in 1 .. Len(mq) : mq'[i] = mq[i]
      /\ mq'[Len(mq) + 1] = Event(a, "bos")
      /\ Event(a, "bos").login = a /\ Event(a, "bos").kind = "bos"
  <2>1. Event(a, "bos") \in MqEvents
    BY DEF Event, MqEvents
  <2> QED
    BY <2>1, MqAppended DEF GetBOSInfo, Event
<1>4. /\ ~login[a].bos /\ ~login[a].ended /\ ~login[a].kicked /\ a <= attempt
  BY <1>1, Types DEF IInv, LoginFlags
<1>5. a = attempt /\ client = "running"
  BY <1>1, <1>4, Types DEF IInv, FormerAreOver, Former
<1>6. ~Live
  BY <1>4, <1>5 DEF IInv, ConnectionIsCurrent
<1>7. \A i \in 1 .. Len(mq) : mq[i].login # a
  BY <1>4, Types DEF IInv, MqMeans
<1>8. \A b, k : InCq(b, k)' <=> InCq(b, k)
  BY <1>2 DEF InCq
<1>9. \A b : Quiet(b)' <=> Quiet(b)
  BY <1>2 DEF Quiet
<1>10. \A kind : Says(a, kind) => Says(a, kind)'
  BY <1>1, <1>2 DEF Says, ExceptLink, Still
<1>11. LoginFlags'
  BY <1>1, <1>2 DEF IInv, LoginFlags, Others, ExceptLink, Still
<1>12. CqMeans'
  BY <1>1, <1>2, <1>10, CqStays DEF Still
<1>13. CqOrder'
  BY <1>1, <1>2, <1>10, CqStays DEF Still
<1>14. ReasonIsComing'
  BY <1>1, <1>4, <1>8 DEF IInv, ReasonIsComing, Others
<1>15. MqMeans'
  <2> SUFFICES ASSUME NEW i \in DOMAIN mq', NEW b \in Attempts, mq'[i].login = b
               PROVE  /\ mq'[i].kind = "bos" => b = attempt /\ client = "running" /\ login'[b].bos
                      /\ mq'[i].kind = "ended" =>
                           b <= attempt /\ login'[b].ended /\ Quiet(b)'
                           /\ (mq'[i].err = "unexpected" <=> login'[b].kicked)
    BY <1>2 DEF MqMeans, Still
  <2>1. CASE i \in 1 .. Len(mq)
    BY <1>1, <1>3, <1>7, <1>9, <2>1, Sizes DEF IInv, MqMeans, Others
  <2>2. CASE i \notin 1 .. Len(mq)
    BY <1>1, <1>3, <1>5, <2>2, Sizes
  <2> QED
    BY <2>1, <2>2
<1>16. MqOrder'
  BY <1>3, <1>7 DEF IInv, MqOrder, MqMeans
<1>17. BOSIsComing'
  <2>1. Len(mq) + 1 \in DOMAIN mq' /\ \A i \in DOMAIN mq : i \in DOMAIN mq' /\ mq'[i] = mq[i]
    BY <1>3, Sizes
  <2> QED
    BY <1>1, <1>2, <1>3, <2>1 DEF IInv, BOSIsComing, Others, Still
<1>18. FormerAreOver'
  BY <1>1, <1>2, <1>3, <1>9 DEF IInv, FormerAreOver, Former, Over, Others, ExceptLink, Still
<1>19. ConnectionIsCurrent'
  BY <1>2, <1>4, <1>5 DEF IInv, ConnectionIsCurrent, Live, Still
<1>20. ReasonReported'
  BY <1>1, <1>2 DEF IInv, ReasonReported, Others, Still
<1>21. LoginVerdictIsRight'
  BY <1>1, <1>2, <1>4 DEF IInv, LoginVerdictIsRight, Others, Still
<1> QED
  BY <1>11, <1>12, <1>13, <1>14, <1>15, <1>16, <1>17, <1>18, <1>19, <1>20, <1>21 DEF IInv

-----------------------------------------------------------------------------
(* C: the slots of LoginService *)

\* C takes the reason.
LEMMA UnexpectedDisconnectKeeps ==
  ASSUME IInv, TypeOK', NEW a \in Attempts, a = Head(cq).login, UnexpectedDisconnect
  PROVE  IInv'
<1>1. /\ cq # <<>> /\ cq' = Tail(cq) /\ Still
      /\ Head(cq).kind = "reason"
  BY DEF UnexpectedDisconnect, TakesLoginEvent, bosVars, Still
<1>2. /\ a \in Attempts /\ Says(a, "reason")
      /\ \A i \in DOMAIN cq' : cq'[i].login = a => Place["reason"] < Place[cq'[i].kind]
      /\ \A b, k : InCq(b, k)' => InCq(b, k)
      /\ \A b, k : InCq(b, k) => InCq(b, k)' \/ (b = a /\ k = "reason")
      /\ \A b : Quiet(b) => Quiet(b)'
      /\ ~Quiet(a) /\ InCq(a, "reason")
  BY <1>1, CqTaken DEF IInv, CqMeans
<1>3. \A i \in DOMAIN cq' : cq'[i].login = a => cq'[i].kind \in {"error", "disc", "finished"}
  <2>1. \A i \in DOMAIN cq' : cq'[i].kind \in LoginEvents
    BY <1>1, CqTaken
  <2> QED
    BY <1>2, <2>1 DEF LoginEvents, Place
<1>4. /\ login'[a].reason /\ login'[a].err = login[a].err /\ login'[a].quit = login[a].quit
      /\ login'[a].ended = login[a].ended /\ ExceptEnd(a) /\ Others(a)
  BY <1>2, Types DEF IInv, TypeOK, UnexpectedDisconnect, LoginService, ExceptEnd, Others
<1>5. mq' = mq
  BY DEF UnexpectedDisconnect
<1>6. \A i \in DOMAIN cq' : cq'[i].login = a => Says(a, cq[i].kind)'
  <2> SUFFICES ASSUME NEW i \in DOMAIN cq', cq'[i].login = a PROVE Says(a, cq[i].kind)'
    OBVIOUS
  <2>1. Says(a, cq'[i].kind)
    BY <1>1, CqTaken, Sizes DEF IInv, CqMeans
  <2> QED
    BY <1>1, <1>3, <1>4, <2>1 DEF Says, Still, ExceptEnd
<1>7. LoginFlags'
  BY <1>1, <1>2, <1>4, Types DEF IInv, LoginFlags, Says, Others, ExceptEnd, Still
<1>8. CqMeans'
  BY <1>1, <1>2, <1>4, <1>6, CqShrinks DEF Still
<1>9. CqOrder'
  BY <1>1, <1>2, <1>4, <1>6, CqShrinks DEF Still
<1>10. ReasonIsComing'
  <2> SUFFICES ASSUME NEW b \in Attempts, login'[b].kicked
               PROVE  /\ login'[b].reason \/ InCq(b, "reason")'
                      /\ login'[b].link = "closed" =>
                           InCq(b, "disc")' \/ (login'[b].err = "unexpected" /\ ~InCq(b, "error")')
    BY DEF ReasonIsComing
  <2>1. CASE b = a
    <3>1. \A k : InCq(a, k)' => k \in {"error", "disc", "finished"}
      BY <1>3 DEF InCq
    <3> QED
      BY <1>2, <1>4, <2>1, <3>1 DEF IInv, ReasonIsComing, ExceptEnd
  <2>2. CASE b # a
    BY <1>2, <1>4, <2>2 DEF IInv, ReasonIsComing, Others
  <2> QED
    BY <2>1, <2>2
<1>11. MqMeans'
  BY <1>1, <1>2, <1>4, <1>5 DEF IInv, MqMeans, Others, ExceptEnd, Still
<1>12. MqOrder'
  BY <1>5 DEF IInv, MqOrder
<1>13. BOSIsComing'
  BY <1>1, <1>4, <1>5 DEF IInv, BOSIsComing, Others, ExceptEnd, Still
<1>14. FormerAreOver'
  <2> SUFFICES ASSUME NEW b \in Attempts, Former(b)
               PROVE  login'[b].link \in {"leaving", "closed"} /\ (~logged => Over(b)')
    BY <1>1 DEF FormerAreOver, Former, Still
  <2>1. CASE b = a
    BY <1>2, <2>1, <1>4 DEF IInv, FormerAreOver, Over, ExceptEnd
  <2>2. CASE b # a
    BY <1>2, <1>4, <1>5, <2>2 DEF IInv, FormerAreOver, Over, Others
  <2> QED
    BY <2>1, <2>2
<1>15. ConnectionIsCurrent'
  BY SMTT(60), <1>1, <1>4, <1>5, Types
     DEF IInv, ConnectionIsCurrent, Live, LoginFlags, Others, ExceptEnd, Still
<1>16. ReasonReported'
  BY <1>1, <1>4 DEF IInv, ReasonReported, Others, ExceptEnd, Still
<1>17. LoginVerdictIsRight'
  BY <1>1, <1>4 DEF IInv, LoginVerdictIsRight, Others, ExceptEnd, Still
<1> QED
  BY <1>7, <1>8, <1>9, <1>10, <1>11, <1>12, <1>13, <1>14, <1>15, <1>16, <1>17 DEF IInv

\* C takes the error, before the disconnection.
LEMMA HandleConnErrorKeeps ==
  ASSUME IInv, TypeOK', NEW a \in Attempts, a = Head(cq).login, HandleConnError
  PROVE  IInv'
<1>1. /\ cq # <<>> /\ cq' = Tail(cq) /\ Still
      /\ Head(cq).kind = "error"
  BY DEF HandleConnError, TakesLoginEvent, bosVars, Still
<1>2. /\ a \in Attempts /\ Says(a, "error")
      /\ \A i \in DOMAIN cq' : cq'[i].login = a => Place["error"] < Place[cq'[i].kind]
      /\ \A b, k : InCq(b, k)' => InCq(b, k)
      /\ \A b, k : InCq(b, k) => InCq(b, k)' \/ (b = a /\ k = "error")
      /\ \A b : Quiet(b) => Quiet(b)'
      /\ ~Quiet(a) /\ InCq(a, "error")
  BY <1>1, CqTaken DEF IInv, CqMeans
<1>3. \A i \in DOMAIN cq' : cq'[i].login = a => cq'[i].kind \in {"disc", "finished"}
  <2>1. \A i \in DOMAIN cq' : cq'[i].kind \in LoginEvents
    BY SMTT(60), <1>1, CqTaken
  <2> QED
    BY <1>2, <2>1 DEF LoginEvents, Place
<1>4. /\ login'[a].reason = login[a].reason /\ login'[a].err = "socket" /\ login'[a].quit
      /\ login'[a].ended = login[a].ended /\ ExceptEnd(a) /\ Others(a)
  BY <1>2, Types DEF IInv, TypeOK, HandleConnError, LoginService, ExceptEnd, Others
<1>5. mq' = mq
  BY DEF HandleConnError
<1>6. \A i \in DOMAIN cq' : cq'[i].login = a => Says(a, cq[i].kind)'
  <2> SUFFICES ASSUME NEW i \in DOMAIN cq', cq'[i].login = a PROVE Says(a, cq[i].kind)'
    OBVIOUS
  <2>1. Says(a, cq'[i].kind)
    BY <1>1, CqTaken, Sizes DEF IInv, CqMeans
  <2> QED
    BY <1>1, <1>3, <1>4, <2>1 DEF Says, Still, ExceptEnd
<1>7. LoginFlags'
  BY <1>1, <1>2, <1>4, Types DEF IInv, LoginFlags, Says, Others, ExceptEnd, Still
<1>8. CqMeans'
  BY <1>1, <1>2, <1>4, <1>6, CqShrinks DEF Still
<1>9. CqOrder'
  BY <1>1, <1>2, <1>4, <1>6, CqShrinks DEF Still
<1>10. ReasonIsComing'
  <2> SUFFICES ASSUME NEW b \in Attempts, login'[b].kicked
               PROVE  /\ login'[b].reason \/ InCq(b, "reason")'
                      /\ login'[b].link = "closed" =>
                           InCq(b, "disc")' \/ (login'[b].err = "unexpected" /\ ~InCq(b, "error")')
    BY DEF ReasonIsComing
  <2>1. CASE b = a
    <3>1. \A k : InCq(a, k)' => k \in {"disc", "finished"}
      BY <1>3 DEF InCq
    <3> QED
      BY <1>2, <1>4, <2>1, <3>1 DEF IInv, ReasonIsComing, ExceptEnd
  <2>2. CASE b # a
    BY <1>2, <1>4, <2>2 DEF IInv, ReasonIsComing, Others
  <2> QED
    BY <2>1, <2>2
<1>11. MqMeans'
  BY <1>1, <1>2, <1>4, <1>5 DEF IInv, MqMeans, Others, ExceptEnd, Still
<1>12. MqOrder'
  BY <1>5 DEF IInv, MqOrder
<1>13. BOSIsComing'
  BY <1>1, <1>4, <1>5 DEF IInv, BOSIsComing, Others, ExceptEnd, Still
<1>14. FormerAreOver'
  <2> SUFFICES ASSUME NEW b \in Attempts, Former(b)
               PROVE  login'[b].link \in {"leaving", "closed"} /\ (~logged => Over(b)')
    BY <1>1 DEF FormerAreOver, Former, Still
  <2>1. CASE b = a
    BY <1>2, <2>1, <1>4 DEF IInv, FormerAreOver, Over, ExceptEnd
  <2>2. CASE b # a
    BY <1>2, <1>4, <1>5, <2>2 DEF IInv, FormerAreOver, Over, Others
  <2> QED
    BY <2>1, <2>2
<1>15. ConnectionIsCurrent'
  BY SMTT(60), <1>1, <1>4, <1>5, <1>6, Types
     DEF IInv, ConnectionIsCurrent, Live, LoginFlags, Others, ExceptEnd, Still
<1>16. ReasonReported'
  BY <1>1, <1>4 DEF IInv, ReasonReported, Others, ExceptEnd, Still
<1>17. LoginVerdictIsRight'
  BY <1>1, <1>4 DEF IInv, LoginVerdictIsRight, Others, ExceptEnd, Still
<1> QED
  BY <1>7, <1>8, <1>9, <1>10, <1>11, <1>12, <1>13, <1>14, <1>15, <1>16, <1>17 DEF IInv

\* C takes the disconnection: the reason, if there was one, has come.
LEMMA HandleDisconnectKeeps ==
  ASSUME IInv, TypeOK', NEW a \in Attempts, a = Head(cq).login, HandleDisconnect
  PROVE  IInv'
<1>1. /\ cq # <<>> /\ cq' = Tail(cq) /\ Still
      /\ Head(cq).kind = "disc"
  BY DEF HandleDisconnect, TakesLoginEvent, bosVars, Still
<1>2. /\ a \in Attempts /\ Says(a, "disc")
      /\ \A i \in DOMAIN cq' : cq'[i].login = a => Place["disc"] < Place[cq'[i].kind]
      /\ \A b, k : InCq(b, k)' => InCq(b, k)
      /\ \A b, k : InCq(b, k) => InCq(b, k)' \/ (b = a /\ k = "disc")
      /\ \A b : Quiet(b) => Quiet(b)'
      /\ ~Quiet(a) /\ InCq(a, "disc")
  BY <1>1, CqTaken DEF IInv, CqMeans
<1>3. \A i \in DOMAIN cq' : cq'[i].login = a => cq'[i].kind \in {"finished"}
  <2>1. \A i \in DOMAIN cq' : cq'[i].kind \in LoginEvents
    BY SMTT(60), <1>1, CqTaken
  <2> QED
    BY <1>2, <2>1 DEF LoginEvents, Place
<1>4. /\ login'[a].reason = login[a].reason /\ login'[a].quit
      /\ (login[a].reason => login'[a].err = "unexpected")
      /\ (~login[a].reason => login'[a].err = "none")
      /\ login'[a].ended = login[a].ended /\ ExceptEnd(a) /\ Others(a)
  BY <1>2, Types DEF IInv, TypeOK, HandleDisconnect, LoginService, ExceptEnd, Others
<1>5. mq' = mq
  BY DEF HandleDisconnect
<1>6. \A i \in DOMAIN cq' : cq'[i].login = a => Says(a, cq[i].kind)'
  <2> SUFFICES ASSUME NEW i \in DOMAIN cq', cq'[i].login = a PROVE Says(a, cq[i].kind)'
    OBVIOUS
  <2>1. Says(a, cq'[i].kind)
    BY <1>1, CqTaken, Sizes DEF IInv, CqMeans
  <2> QED
    BY <1>1, <1>3, <1>4, <2>1 DEF Says, Still, ExceptEnd
<1>7. LoginFlags'
  BY SMTT(60), <1>1, <1>2, <1>4, Types DEF IInv, LoginFlags, Says, Others, ExceptEnd, Still
<1>8. CqMeans'
  BY <1>1, <1>2, <1>4, <1>6, CqShrinks DEF Still
<1>9. CqOrder'
  BY <1>1, <1>2, <1>4, <1>6, CqShrinks DEF Still
<1>10. ReasonIsComing'
  <2> SUFFICES ASSUME NEW b \in Attempts, login'[b].kicked
               PROVE  /\ login'[b].reason \/ InCq(b, "reason")'
                      /\ login'[b].link = "closed" =>
                           InCq(b, "disc")' \/ (login'[b].err = "unexpected" /\ ~InCq(b, "error")')
    BY DEF ReasonIsComing
  <2>1. CASE b = a
    <3>1. \A k : InCq(a, k)' => k \in {"finished"}
      BY <1>3 DEF InCq
    <3>2. login[a].kicked => login[a].reason
      BY <1>2, <3>1 DEF IInv, ReasonIsComing
    <3>3. ~InCq(a, "error")'
      BY <3>1
    <3> QED
      BY <1>4, <2>1, <3>2, <3>3 DEF ExceptEnd
  <2>2. CASE b # a
    BY <1>2, <1>4, <2>2 DEF IInv, ReasonIsComing, Others
  <2> QED
    BY <2>1, <2>2
<1>11. MqMeans'
  BY <1>1, <1>2, <1>4, <1>5 DEF IInv, MqMeans, Others, ExceptEnd, Still
<1>12. MqOrder'
  BY <1>5 DEF IInv, MqOrder
<1>13. BOSIsComing'
  BY <1>1, <1>4, <1>5 DEF IInv, BOSIsComing, Others, ExceptEnd, Still
<1>14. FormerAreOver'
  <2> SUFFICES ASSUME NEW b \in Attempts, Former(b)
               PROVE  login'[b].link \in {"leaving", "closed"} /\ (~logged => Over(b)')
    BY <1>1 DEF FormerAreOver, Former, Still
  <2>1. CASE b = a
    BY <1>2, <2>1, <1>4 DEF IInv, FormerAreOver, Over, ExceptEnd
  <2>2. CASE b # a
    BY <1>2, <1>4, <1>5, <2>2 DEF IInv, FormerAreOver, Over, Others
  <2> QED
    BY <2>1, <2>2
<1>15. ConnectionIsCurrent'
  BY SMTT(60), <1>1, <1>4, <1>5, Types
     DEF IInv, ConnectionIsCurrent, Live, LoginFlags, Others, ExceptEnd, Still
<1>16. ReasonReported'
  BY <1>1, <1>4 DEF IInv, ReasonReported, Others, ExceptEnd, Still
<1>17. LoginVerdictIsRight'
  BY <1>1, <1>4 DEF IInv, LoginVerdictIsRight, Others, ExceptEnd, Still
<1> QED
  BY <1>7, <1>8, <1>9, <1>10, <1>11, <1>12, <1>13, <1>14, <1>15, <1>16, <1>17 DEF IInv

\* C takes the last event of a service and reports its end to M.
LEMMA FinishedSlotKeeps ==
  ASSUME IInv, TypeOK', NEW a \in Attempts, a = Head(cq).login, FinishedSlot
  PROVE  IInv'
<1>1. /\ cq # <<>> /\ cq' = Tail(cq) /\ Still
      /\ Head(cq).kind = "finished"
  BY DEF FinishedSlot, TakesLoginEvent, bosVars, Still
<1>2. /\ a \in Attempts /\ Says(a, "finished")
      /\ \A i \in DOMAIN cq' : cq'[i].login = a => Place["finished"] < Place[cq'[i].kind]
      /\ \A b, k : InCq(b, k)' => InCq(b, k)
      /\ \A b, k : InCq(b, k) => InCq(b, k)' \/ (b = a /\ k = "finished")
      /\ \A b : Quiet(b) => Quiet(b)'
      /\ ~Quiet(a) /\ InCq(a, "finished")
  BY <1>1, CqTaken DEF IInv, CqMeans
<1>3. login' = login
  BY DEF FinishedSlot
<1>4. Quiet(a)'
  <2>1. \A i \in DOMAIN cq' : cq'[i].kind \in LoginEvents
    BY <1>1, CqTaken
  <2> QED
    BY <1>2, <2>1 DEF Quiet, LoginEvents, Place
<1>5. login[a].ended /\ login[a].quit /\ login[a].link = "closed" /\ a <= attempt
  BY <1>2 DEF IInv, LoginFlags, Says
<1>6. login[a].err = "unexpected" <=> login[a].kicked
  <2>1. ~InCq(a, "disc")
    BY <1>2, <1>4 DEF Quiet, InCq
  <2> QED
    BY <1>5, <2>1 DEF IInv, LoginFlags, ReasonIsComing
<1>7. /\ DOMAIN mq' = 1 .. Len(mq) + 1
      /\ \A i \in 1 .. Len(mq) : mq'[i] = mq[i]
      /\ mq'[Len(mq) + 1] = [login |-> a, kind |-> "ended", err |-> login[a].err]
  <2>1. [login |-> a, kind |-> "ended", err |-> login[a].err] \in MqEvents
    BY Types DEF MqEvents, LoginService
  <2> QED
    BY <2>1, MqAppended DEF FinishedSlot
<1>8. \A i \in 1 .. Len(mq) : mq[i].login = a => mq[i].kind = "bos"
  BY <1>2, Types DEF IInv, MqMeans
<1>9. \A i \in DOMAIN cq' : cq'[i].login = a => Says(a, cq[i].kind)'
  BY <1>4 DEF Quiet
<1>10. LoginFlags'
  BY <1>1, <1>3 DEF IInv, LoginFlags, Still
<1>11. CqMeans'
  BY <1>1, <1>2, <1>3, <1>9, CqShrinks DEF Still, Others
<1>12. CqOrder'
  BY <1>1, <1>2, <1>3, <1>9, CqShrinks DEF Still, Others
<1>13. ReasonIsComing'
  <2> SUFFICES ASSUME NEW b \in Attempts, login[b].kicked
               PROVE  /\ login[b].reason \/ InCq(b, "reason")'
                      /\ login[b].link = "closed" =>
                           InCq(b, "disc")' \/ (login[b].err = "unexpected" /\ ~InCq(b, "error")')
    BY <1>3 DEF ReasonIsComing
  <2> QED
    BY <1>2 DEF IInv, ReasonIsComing
<1>14. MqMeans'
  <2> SUFFICES ASSUME NEW i \in DOMAIN mq', NEW b \in Attempts, mq'[i].login = b
               PROVE  /\ mq'[i].kind = "bos" => b = attempt /\ client = "running" /\ login[b].bos
                      /\ mq'[i].kind = "ended" =>
                           b <= attempt /\ login[b].ended /\ Quiet(b)'
                           /\ (mq'[i].err = "unexpected" <=> login[b].kicked)
    BY <1>1, <1>3 DEF MqMeans, Still
  <2>1. CASE i \in 1 .. Len(mq)
    BY <1>2, <1>7, <2>1, Sizes DEF IInv, MqMeans
  <2>2. CASE i \notin 1 .. Len(mq)
    BY <1>4, <1>5, <1>6, <1>7, <2>2, Sizes
  <2> QED
    BY <2>1, <2>2
<1>15. MqOrder'
  BY <1>7, <1>8, Sizes DEF IInv, MqOrder
<1>16. BOSIsComing'
  <2>1. \A i \in DOMAIN mq : i \in DOMAIN mq' /\ mq'[i] = mq[i]
    BY <1>7, Sizes
  <2> QED
    BY <1>1, <1>3, <2>1 DEF IInv, BOSIsComing, Still
<1>17. FormerAreOver'
  <2> SUFFICES ASSUME NEW b \in Attempts, Former(b)
               PROVE  login[b].link \in {"leaving", "closed"} /\ (~logged => Over(b)')
    BY <1>1, <1>3 DEF FormerAreOver, Former, Still
  <2>1. CASE b = a
    BY <1>2, <1>5, <2>1 DEF IInv, FormerAreOver, Over
  <2>2. ASSUME b # a, Over(b) PROVE Over(b)'
    BY <1>2, <1>3, <1>7, <2>2, Sizes DEF Over
  <2> QED
    BY <2>1, <2>2 DEF IInv, FormerAreOver
<1>18. ConnectionIsCurrent'
  BY <1>1, <1>3, <1>7, Sizes DEF IInv, ConnectionIsCurrent, Live, Still
<1>19. ReasonReported'
  BY <1>1, <1>3 DEF IInv, ReasonReported, Still
<1>20. LoginVerdictIsRight'
  BY <1>1, <1>3 DEF IInv, LoginVerdictIsRight, Still
<1> QED
  BY <1>10, <1>11, <1>12, <1>13, <1>14, <1>15, <1>16, <1>17, <1>18, <1>19, <1>20 DEF IInv

\* What holds whatever M does, as long as attempts, services and the queue of C stay.
LEMMA SameServices ==
  ASSUME IInv, attempt' = attempt, login' = login, cq' = cq
  PROVE  CqMeans' /\ CqOrder' /\ ReasonIsComing' /\ \A a : Quiet(a)' <=> Quiet(a)
<1>1. CqMeans'
  BY DEF IInv, CqMeans, Says
<1>2. CqOrder'
  BY DEF IInv, CqOrder
<1>3. ReasonIsComing'
  BY DEF IInv, ReasonIsComing, InCq
<1> QED
  BY <1>1, <1>2, <1>3 DEF Quiet

\* C leaves its loop.
LEMMA LeaveLoopKeeps ==
  ASSUME IInv, TypeOK', LeaveLoop
  PROVE  IInv'
<1>1. /\ attempt' = attempt /\ login' = login /\ cq' = cq /\ mq' = mq /\ logged' = logged
      /\ conn' = conn /\ told' = told
  BY DEF LeaveLoop, queues, bosVars
<1>2. client = "exiting" /\ client' = "stopped"
  BY DEF LeaveLoop
<1>3. LoginFlags'
  BY <1>1 DEF IInv, LoginFlags
<1>4. CqMeans'
  BY <1>1, SameServices
<1>5. CqOrder'
  BY <1>1, SameServices
<1>6. ReasonIsComing'
  BY <1>1, SameServices
<1>7. MqMeans'
  BY <1>1, <1>2, SameServices DEF IInv, MqMeans
<1>8. MqOrder'
  BY <1>1 DEF IInv, MqOrder
<1>9. BOSIsComing'
  BY <1>1 DEF IInv, BOSIsComing
<1>10. FormerAreOver'
  BY <1>1, <1>2, SameServices DEF IInv, FormerAreOver, Former, Over
<1>11. ConnectionIsCurrent'
  BY <1>1, <1>2 DEF IInv, ConnectionIsCurrent, Live
<1>12. ReasonReported'
  BY <1>1 DEF IInv, ReasonReported
<1>13. LoginVerdictIsRight'
  BY <1>1 DEF IInv, LoginVerdictIsRight
<1> QED
  BY <1>3, <1>4, <1>5, <1>6, <1>7, <1>8, <1>9, <1>10, <1>11, <1>12, <1>13 DEF IInv

-----------------------------------------------------------------------------
(* M: the slots of Client *)

\* M takes the event of a BOS server: it is that of the running attempt, the only one.
LEMMA ClientGetBOSInfoKeeps ==
  ASSUME IInv, TypeOK', ClientGetBOSInfo, NEW a \in Attempts, a = Head(mq).login
  PROVE  IInv'
<1>1. /\ attempt' = attempt /\ login' = login /\ cq' = cq /\ client' = client /\ told' = told
      /\ logged' /\ mq # <<>> /\ mq' = Tail(mq) /\ Head(mq).kind = "bos"
  BY DEF ClientGetBOSInfo
<1>2. /\ Head(mq) = mq[1] /\ 1 \in DOMAIN mq /\ DOMAIN mq' = 1 .. Len(mq) - 1
      /\ \A i \in 1 .. Len(mq) - 1 : mq'[i] = mq[i + 1] /\ i + 1 \in DOMAIN mq /\ 1 < i + 1
  BY <1>1, MqTaken, Sizes
<1>3. a = attempt /\ client = "running" /\ login[a].bos /\ a # 0
  BY <1>1, <1>2, Types DEF IInv, MqMeans
<1>4. ASSUME NEW i \in DOMAIN mq', mq'[i].kind = "bos" PROVE FALSE
  <2>1. mq[i + 1].login \in Attempts /\ mq[i + 1].kind = "bos" /\ i + 1 \in DOMAIN mq
    BY <1>2, <1>4, Types
  <2>2. mq[i + 1].login = a
    BY <1>3, <2>1 DEF IInv, MqMeans
  <2> QED
    BY <1>1, <1>2, <2>1, <2>2 DEF IInv, MqOrder
<1>5. LoginFlags'
  BY <1>1 DEF IInv, LoginFlags
<1>6. CqMeans' /\ CqOrder' /\ ReasonIsComing' /\ \A b : Quiet(b)' <=> Quiet(b)
  BY <1>1, SameServices
<1>7. MqMeans'
  BY <1>1, <1>2, <1>4, <1>6 DEF IInv, MqMeans
<1>8. MqOrder'
  BY <1>2 DEF IInv, MqOrder
<1>9. BOSIsComing'
  BY <1>1 DEF BOSIsComing
<1>10. FormerAreOver'
  BY <1>1 DEF IInv, FormerAreOver, Former
<1>11. ConnectionIsCurrent'
  BY <1>1, <1>3, <1>4 DEF ConnectionIsCurrent
<1>12. ReasonReported' /\ LoginVerdictIsRight'
  BY <1>1 DEF IInv, ReasonReported, LoginVerdictIsRight
<1> QED
  BY <1>5, <1>6, <1>7, <1>8, <1>9, <1>10, <1>11, <1>12 DEF IInv

\* M takes the end of a service.  If no login has succeeded it is the service of the running
\* client, and it named no BOS server.
LEMMA LoginServiceEndedKeeps ==
  ASSUME IInv, TypeOK', LoginServiceEnded, NEW a \in Attempts, a = Head(mq).login
  PROVE  IInv'
<1>1. /\ attempt' = attempt /\ login' = login /\ cq' = cq /\ logged' = logged /\ conn' = conn
      /\ mq # <<>> /\ mq' = Tail(mq) /\ Head(mq).kind = "ended"
      /\ (client' # client => ~logged) /\ (told' # told => ~logged)
  BY DEF LoginServiceEnded, bosVars
<1>2. /\ Head(mq) = mq[1] /\ 1 \in DOMAIN mq /\ DOMAIN mq' = 1 .. Len(mq) - 1
      /\ \A i \in 1 .. Len(mq) - 1 : mq'[i] = mq[i + 1] /\ i + 1 \in DOMAIN mq /\ 1 < i + 1
  BY <1>1, MqTaken, Sizes
<1>3. /\ a <= attempt /\ login[a].ended /\ Quiet(a)
      /\ (Head(mq).err = "unexpected" <=> login[a].kicked)
  BY <1>1, <1>2 DEF IInv, MqMeans
<1>4. \A i \in DOMAIN mq' : mq'[i].login # a
  BY <1>1, <1>2 DEF IInv, MqOrder
<1>5. ~logged => a = attempt /\ client = "running"
  <2> SUFFICES ASSUME ~logged PROVE ~Former(a)
    BY <1>3, Types DEF Former
  <2> QED
    BY <1>2 DEF IInv, FormerAreOver, Over
<1>6. ~logged => ~login[a].bos
  <2> SUFFICES ASSUME ~logged, login[a].bos PROVE FALSE
    OBVIOUS
  <2>1. PICK i \in DOMAIN mq : mq[i].kind = "bos" /\ mq[i].login = a
    BY DEF IInv, BOSIsComing
  <2>2. i - 1 \in DOMAIN mq' /\ mq'[i - 1] = mq[i]
    BY <1>1, <1>2, <2>1, Sizes
  <2> QED
    BY <1>4, <2>1, <2>2
<1>7. LoginFlags'
  <2>1. ASSUME NEW b \in Attempts, b # attempt PROVE told'[b] = told[b]
    BY <2>1 DEF LoginServiceEnded, Tell, IInv, TypeOK
  <2> QED
    BY <1>1, <2>1, Types DEF IInv, LoginFlags
<1>8. CqMeans' /\ CqOrder' /\ ReasonIsComing' /\ \A b : Quiet(b)' <=> Quiet(b)
  BY <1>1, SameServices
<1>9. MqMeans'
  <2> SUFFICES ASSUME NEW i \in DOMAIN mq', NEW b \in Attempts, mq'[i].login = b
               PROVE  /\ mq'[i].kind = "bos" => b = attempt /\ client' = "running" /\ login[b].bos
                      /\ mq'[i].kind = "ended" =>
                           b <= attempt /\ login[b].ended /\ Quiet(b)'
                           /\ (mq'[i].err = "unexpected" <=> login[b].kicked)
    BY <1>1 DEF MqMeans
  <2>1. mq[i + 1].login = b /\ mq'[i] = mq[i + 1] /\ i + 1 \in DOMAIN mq /\ b # a
    BY <1>2, <1>4
  <2>2. mq'[i].kind = "bos" => client' = "running"
    BY <1>1, <1>5, <2>1 DEF IInv, MqMeans
  <2> QED
    BY <1>8, <2>1, <2>2 DEF IInv, MqMeans
<1>10. MqOrder'
  BY <1>2 DEF IInv, MqOrder
<1>11. BOSIsComing'
  <2> SUFFICES ASSUME NEW b \in Attempts, login[b].bos, ~logged
               PROVE  \E i \in DOMAIN mq' : mq'[i].kind = "bos" /\ mq'[i].login = b
    BY <1>1 DEF BOSIsComing
  <2>1. PICK i \in DOMAIN mq : mq[i].kind = "bos" /\ mq[i].login = b
    BY DEF IInv, BOSIsComing
  <2>2. i # 1
    BY <1>1, <1>2, <2>1
  <2>3. i - 1 \in DOMAIN mq' /\ mq'[i - 1] = mq[i]
    BY <1>2, <2>1, <2>2, Sizes
  <2> QED
    BY <2>1, <2>3
<1>12. FormerAreOver'
  <2> SUFFICES ASSUME NEW b \in Attempts, Former(b)'
               PROVE  login[b].link \in {"leaving", "closed"} /\ (~logged => Over(b)')
    BY <1>1 DEF FormerAreOver
  <2>1. CASE b = a
    BY <1>1, <1>3, <1>4, <1>8, <2>1 DEF Over, IInv, LoginFlags
  <2>2. CASE b # a
    <3>1. Former(b)
      BY <1>1, <1>5, <2>2 DEF Former
    <3>2. Over(b) => Over(b)'
      BY <1>1, <1>2, <1>8 DEF Over
    <3> QED
      BY <3>1, <3>2 DEF IInv, FormerAreOver
  <2> QED
    BY <2>1, <2>2
<1>13. ConnectionIsCurrent'
  BY <1>1, <1>2 DEF IInv, ConnectionIsCurrent, Live
<1>14. ReasonReported' /\ LoginVerdictIsRight'
  <2>1. CASE logged
    BY <1>1, <2>1 DEF IInv, ReasonReported, LoginVerdictIsRight
  <2>2. CASE ~logged
    <3>1. /\ \A b \in Attempts : b # a => told'[b] = told[b]
          /\ told'[a] = told[a] \cup {IF login[a].kicked THEN "refused" ELSE "loginfailed"}
      <4>1. told' = [told EXCEPT ![a] = @ \cup {IF login[a].kicked THEN "refused" ELSE "loginfailed"}]
        BY <1>3, <1>5, <2>2 DEF LoginServiceEnded, Tell
      <4> QED
        BY <4>1 DEF IInv, TypeOK
    <3>2. ASSUME NEW b \in Attempts, b # a
          PROVE  /\ ("loginfailed" \in told'[b] => ~login[b].kicked)
                 /\ ("refused" \in told'[b] => login[b].kicked)
                 /\ (told'[b] \cap LoginFailures # {} => login[b].ended /\ ~login[b].bos)
      BY <3>1, <3>2 DEF IInv, ReasonReported, LoginVerdictIsRight
    <3>3. /\ ("loginfailed" \in told'[a] => ~login[a].kicked)
          /\ ("refused" \in told'[a] => login[a].kicked)
      BY <3>1 DEF IInv, ReasonReported
    <3>4. login[a].ended /\ ~login[a].bos
      BY <1>3, <1>6, <2>2
    <3> QED
      BY <1>1, <3>2, <3>3, <3>4 DEF ReasonReported, LoginVerdictIsRight
  <2> QED
    BY <2>1, <2>2
<1> QED
  BY <1>7, <1>8, <1>9, <1>10, <1>11, <1>12, <1>13, <1>14 DEF IInv

-----------------------------------------------------------------------------
(* M: connect() and the connection to the BOS server *)

\* A new attempt starts when the client has stopped: the last attempt is over by then.
LEMMA StartKeeps ==
  ASSUME IInv, TypeOK', Start
  PROVE  IInv'
<1> DEFINE a == attempt + 1
<1>1. /\ attempt' = a /\ client = "stopped" /\ client' = "running" /\ cq' = cq /\ mq' = mq
      /\ logged' = logged /\ conn' = conn /\ told' = told
  BY DEF Start, queues
<1>2. a \in Attempts
  BY Types DEF Start
<1>3. /\ login'[a].link = "connecting" /\ ExceptLink(a) /\ Others(a)
      /\ login'[a].bos = login[a].bos /\ login'[a].kicked = login[a].kicked
  BY <1>2, Types DEF IInv, TypeOK, Start, LoginService, ExceptLink, Others
<1>4. /\ login[a].link = "none" /\ told[a] = {} /\ ~login[a].bos /\ ~login[a].kicked
      /\ ~login[a].quit /\ ~login[a].ended
  BY <1>2, Types DEF IInv, LoginFlags
<1>5. ~Live
  BY <1>1 DEF IInv, ConnectionIsCurrent
<1>6. \A b \in Attempts : b < a => Former(b)
  BY <1>1, Types DEF Former
<1>7. Quiet(a) /\ \A i \in DOMAIN mq : mq[i].login # a
  BY SMTT(60), <1>2, <1>4, Types DEF IInv, CqMeans, Says, Quiet, MqMeans
<1>8. /\ \A b, k : InCq(b, k)' <=> InCq(b, k)
      /\ \A b : Quiet(b)' <=> Quiet(b)
  BY <1>1 DEF InCq, Quiet
<1> HIDE DEF a
<1>9. attempt < a /\ \A b \in Attempts : b <= attempt => b <= a /\ b # a
  <2>1. a = attempt + 1
    BY DEF a
  <2> QED
    BY <2>1, Types
<1>10. LoginFlags'
  BY <1>1, <1>2, <1>3, <1>4, <1>9, Types DEF IInv, LoginFlags, ExceptLink, Others
<1>11. CqMeans'
  <2> SUFFICES ASSUME NEW i \in DOMAIN cq PROVE Says(cq[i].login, cq[i].kind)'
    BY <1>1 DEF CqMeans
  <2>1. cq[i].login \in Attempts /\ Says(cq[i].login, cq[i].kind)
    BY Types DEF IInv, CqMeans
  <2>2. cq[i].login # a /\ cq[i].login <= a
    BY <1>9, <2>1 DEF Says
  <2> QED
    BY <1>1, <1>3, <2>1, <2>2 DEF Says, Others
<1>12. CqOrder'
  BY <1>1 DEF IInv, CqOrder
<1>13. ReasonIsComing'
  BY <1>2, <1>3, <1>4, <1>8 DEF IInv, ReasonIsComing, Others
<1>14. MqMeans'
  <2>1. \A i \in DOMAIN mq : mq[i].kind # "bos"
    BY <1>1, Types DEF IInv, MqMeans
  <2> QED
    BY <1>1, <1>2, <1>3, <1>7, <1>8, <1>9, <2>1 DEF IInv, MqMeans, Others
<1>15. MqOrder'
  BY <1>1 DEF IInv, MqOrder
<1>16. BOSIsComing'
  BY <1>1, <1>2, <1>3, <1>4 DEF IInv, BOSIsComing, Others
<1>17. FormerAreOver'
  <2> SUFFICES ASSUME NEW b \in Attempts, Former(b)'
               PROVE  login'[b].link \in {"leaving", "closed"} /\ (~logged => Over(b)')
    BY <1>1 DEF FormerAreOver
  <2>1. b < a
    BY <1>1 DEF Former
  <2>2. b # a /\ Former(b)
    BY <1>2, <1>6, <2>1, Types
  <2> QED
    BY <1>1, <1>3, <1>8, <2>2 DEF IInv, FormerAreOver, Over, Others
<1>18. ConnectionIsCurrent'
  BY <1>1, <1>5 DEF ConnectionIsCurrent, Live
<1>19. ReasonReported' /\ LoginVerdictIsRight'
  BY <1>1, <1>2, <1>3, <1>4 DEF IInv, ReasonReported, LoginVerdictIsRight, Others
<1> QED
  BY <1>10, <1>11, <1>12, <1>13, <1>14, <1>15, <1>16, <1>17, <1>18, <1>19 DEF IInv

\* What the BOS connection does leaves the login alone: the client is told to exit only when
\* the connection is gone, and the listener hears nothing of a login.
LEMMA BOSKeeps ==
  ASSUME IInv, TypeOK', attempt' = attempt, login' = login, cq' = cq, mq' = mq, logged' = logged,
         Live' => Live, client' = client \/ (Live /\ ~Live'),
         told' = told \/ (Live /\ \A b \in Attempts : b # attempt => told'[b] = told[b]),
         \A b \in Attempts : told'[b] \cap LoginFailures = told[b] \cap LoginFailures
  PROVE  IInv'
<1>1. LoginFlags'
  BY Types DEF IInv, LoginFlags
<1>2. CqMeans' /\ CqOrder' /\ ReasonIsComing' /\ \A b : Quiet(b)' <=> Quiet(b)
  BY SameServices
<1>3. MqMeans' /\ MqOrder' /\ BOSIsComing'
  BY <1>2 DEF IInv, MqMeans, MqOrder, BOSIsComing, ConnectionIsCurrent
<1>4. FormerAreOver'
  <2> SUFFICES ASSUME NEW b \in Attempts, Former(b)'
               PROVE  login[b].link \in {"leaving", "closed"} /\ (~logged => Over(b)')
    BY DEF FormerAreOver
  <2>1. CASE Former(b)
    BY <1>2, <2>1 DEF IInv, FormerAreOver, Over
  <2>2. CASE ~Former(b)
    <3>1. b = attempt /\ Live
      BY <2>2 DEF Former
    <3> QED
      BY <3>1 DEF IInv, ConnectionIsCurrent, LoginFlags
  <2> QED
    BY <2>1, <2>2
<1>5. ConnectionIsCurrent'
  BY DEF IInv, ConnectionIsCurrent
<1>6. ReasonReported'
  BY DEF IInv, ReasonReported, LoginFailures
<1>7. LoginVerdictIsRight'
  BY DEF IInv, LoginVerdictIsRight
<1> QED
  BY <1>1, <1>2, <1>3, <1>4, <1>5, <1>6, <1>7 DEF IInv

\* What M tells the listener of the attempt under way, other than the failure of a login.
LEMMA Told ==
  ASSUME TypeOK, NEW what, what \cap LoginFailures = {}, Tell(what)
  PROVE  /\ \A b \in Attempts : b # attempt => told'[b] = told[b]
         /\ \A b \in Attempts : told'[b] \cap LoginFailures = told[b] \cap LoginFailures
  BY DEF Tell, TypeOK

LEMMA BOSStepKeeps ==
  ASSUME IInv, TypeOK', BOSStep \/ Disconnect \/ UNCHANGED vars
  PROVE  IInv'
<1> USE DEF InBOS, queues
<1>1. /\ attempt' = attempt /\ login' = login /\ cq' = cq /\ mq' = mq /\ logged' = logged
      /\ TypeOK
  BY DEF BOSStep, BOSConnected, BOSConnectFails, BOSDisconnected, BOSRemoteClosed, Stage2, Limits,
         FinishedConnection, Disconnect, vars, IInv
<1>2. CASE BOSConnected \/ Stage2 \/ (\E f \in Family : Limits(f)) \/ Disconnect \/ UNCHANGED vars
  <2>1. client' = client /\ told' = told /\ (Live' => Live)
    BY <1>2 DEF BOSConnected, Stage2, Limits, Disconnect, vars, Live, bosVars
  <2> QED
    BY <1>1, <2>1, BOSKeeps
<1>3. CASE BOSConnectFails \/ BOSDisconnected \/ BOSRemoteClosed
  <2>1. Live /\ ~Live'
    BY <1>3 DEF BOSConnectFails, BOSDisconnected, BOSRemoteClosed, Live
  <2>2. PICK what \in SUBSET Losses : Tell(what)
    BY <1>3 DEF BOSConnectFails, BOSDisconnected, BOSRemoteClosed, Losses
  <2>3. what \cap LoginFailures = {}
    BY <2>2 DEF Losses, LoginFailures
  <2> QED
    BY <1>1, <2>1, <2>2, <2>3, Told, BOSKeeps
<1>4. CASE FinishedConnection
  <2>1. Live /\ (Live' => Live) /\ client' = client /\ Tell({"ready"})
    BY <1>4 DEF FinishedConnection, Receives, Live, bosVars
  <2>2. {"ready"} \cap LoginFailures = {}
    BY DEF LoginFailures
  <2> QED
    BY <1>1, <2>1, <2>2, Told, BOSKeeps
<1> QED
  BY <1>2, <1>3, <1>4 DEF BOSStep

-----------------------------------------------------------------------------
(* Safety *)

LEMMA InitInvariant == Init => IInv
<1> SUFFICES ASSUME Init PROVE IInv
  OBVIOUS
<1>1. TypeOK
  BY InitTypes
<1>2. /\ \A a \in Attempts : login[a] = NewLogin /\ told[a] = {}
      /\ cq = <<>> /\ mq = <<>> /\ ~logged /\ attempt = 0 /\ ~Live
  BY DEF Init, Live
<1>3. LoginFlags
  BY <1>2 DEF LoginFlags, NewLogin
<1>4. CqMeans /\ CqOrder /\ MqMeans /\ MqOrder
  BY <1>2 DEF CqMeans, CqOrder, MqMeans, MqOrder
<1>5. ReasonIsComing /\ BOSIsComing
  BY <1>2 DEF ReasonIsComing, BOSIsComing, NewLogin
<1>6. FormerAreOver
  BY <1>2 DEF FormerAreOver, Former, Attempts
<1>7. ConnectionIsCurrent
  BY <1>2 DEF ConnectionIsCurrent
<1>8. ReasonReported /\ LoginVerdictIsRight
  BY <1>2 DEF ReasonReported, LoginVerdictIsRight
<1> QED
  BY <1>1, <1>3, <1>4, <1>5, <1>6, <1>7, <1>8 DEF IInv

LEMMA StepInvariant == IInv /\ [Next]_vars => IInv'
<1> SUFFICES ASSUME IInv, [Next]_vars PROVE IInv'
  OBVIOUS
<1>1. TypeOK'
  BY TypesKept DEF IInv
<1>2. ASSUME NEW a \in Attempts, LoginThread(a) PROVE IInv'
  BY <1>1, <1>2, LoginConnectedKeeps, LoginConnectFailsKeeps, RecvHelloKeeps, RefusedKeeps,
     GetBOSInfoKeeps, LoginClosedKeeps, LoginRemoteClosedKeeps, LoginLoopEndsKeeps DEF LoginThread
<1>3. CASE ClientThread
  <2>1. CASE LeaveLoop
    BY <1>1, <2>1, LeaveLoopKeeps
  <2>2. CASE ~LeaveLoop
    <3>1. cq # <<>> /\ cq' = Tail(cq)
      BY <1>3, <2>2 DEF ClientThread, UnexpectedDisconnect, HandleConnError, HandleDisconnect,
         FinishedSlot, TakesLoginEvent
    <3>2. Head(cq).login \in Attempts
      BY <3>1, CqTaken
    <3> QED
      BY <1>1, <1>3, <2>2, <3>2, UnexpectedDisconnectKeeps, HandleConnErrorKeeps,
         HandleDisconnectKeeps, FinishedSlotKeeps DEF ClientThread
  <2> QED
    BY <2>1, <2>2
<1>4. CASE ClientGetBOSInfo \/ LoginServiceEnded
  <2>1. mq # <<>> /\ mq' = Tail(mq)
    BY <1>4 DEF ClientGetBOSInfo, LoginServiceEnded
  <2>2. Head(mq).login \in Attempts
    BY <2>1, MqTaken DEF MqEvents
  <2> QED
    BY <1>1, <1>4, <2>2, ClientGetBOSInfoKeeps, LoginServiceEndedKeeps
<1>5. CASE Start
  BY <1>1, <1>5, StartKeeps
<1>6. CASE BOSStep \/ Disconnect \/ UNCHANGED vars
  BY <1>1, <1>6, BOSStepKeeps
<1> QED
  BY <1>2, <1>3, <1>4, <1>5, <1>6 DEF Next

LEMMA Inductive == Spec => []IInv
  BY InitInvariant, StepInvariant, PTL DEF Spec

\* A refusal is reported as one and a failure as a failure, in whatever order the threads run.
THEOREM ReasonIsReported == Spec => []ReasonReported
<1>1. IInv => ReasonReported
  BY DEF IInv
<1> QED
  BY <1>1, Inductive, PTL

\* The application is told of a failed login only when that attempt ended without a server.
THEOREM VerdictIsRight == Spec => []LoginVerdictIsRight
<1>1. IInv => LoginVerdictIsRight
  BY DEF IInv
<1> QED
  BY <1>1, Inductive, PTL

\* The server to connect to is that of the attempt under way.
THEOREM BOSIsCurrent == Spec => []BOSInfoIsCurrent
<1>1. IInv => BOSInfoIsCurrent
  <2> SUFFICES ASSUME IInv, NEW i \in DOMAIN mq, mq[i].kind = "bos"
               PROVE  mq[i].login = attempt /\ client = "running"
    BY DEF BOSInfoIsCurrent
  <2>1. mq[i].login \in Attempts
    BY Types
  <2> QED
    BY <2>1 DEF IInv, MqMeans
<1> QED
  BY <1>1, Inductive, PTL

\* A connection to the BOS server belongs to a running client that was logged in.
THEOREM OneConnection == Spec => []ConnectionHasClient
<1>1. IInv => ConnectionHasClient
  BY DEF IInv, ConnectionIsCurrent, Live, ConnectionHasClient
<1> QED
  BY <1>1, Inductive, PTL
=============================================================================
