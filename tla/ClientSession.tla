---------------------------- MODULE ClientSession ----------------------------
(***************************************************************************)
(* How liboscar logs in and learns that it lost its connection: classes    *)
(* Client, LoginService, their base Service, LoginSt1Process,              *)
(* LoginSt2Process and ServiceSetupProcess.                                *)
(*                                                                         *)
(* Three threads take part.  M runs the application, the slots of Client   *)
(* and the connection to the BOS server.  C is the thread of Client        *)
(* (Client::run); it runs the slots of the LoginService it created.  L is  *)
(* the thread of that LoginService (Service::run); it owns the connection  *)
(* to the login server.  A signal whose receiver lives in another thread   *)
(* is an event of that thread's queue: mq for M, cq for C.  L keeps        *)
(* running when C has left its event loop, and events of cq then wait for  *)
(* the next connect().                                                     *)
(*                                                                         *)
(* The two servers are external: each may answer in the order the protocol *)
(* asks for or close the connection at any moment.                         *)
(***************************************************************************)
EXTENDS Integers, Sequences

CONSTANTS
  Family,       \* the five families ServiceSetupProcess asks about
  SSI,          \* the one whose reply makes it ask for the roster
  MaxAttempts   \* bound: calls of connect() that start the thread

NUM_OF_SERVICES == 5
Attempts == 1 .. MaxAttempts

ASSUME FamilyAssumption ==
  SSI \in Family /\ \E f \in [1 .. NUM_OF_SERVICES -> Family] :
    \A x \in Family : \E i \in 1 .. NUM_OF_SERVICES : f[i] = x
ASSUME AttemptsAssumption == MaxAttempts \in Nat

VARIABLES
  attempt,  \* connects so far: the LoginService m_ls points to
  client,   \* C: its event loop is running, told to exit, or left
  login,    \* the LoginService objects and the sockets of their connections
  cq, mq,   \* the event queues of C and M
  logged,   \* Client::m_logged
  conn,     \* Client::m_conn and its socket
  stage,    \* what the BOS server says next
  replied,  \* families the BOS server has replied about
  count,    \* ServiceSetupProcess::m_count
  setup,    \* serviceSetupDone was emitted in this attempt
  told      \* what the listener was told during each attempt

queues == <<cq, mq>>
bosVars == <<conn, stage, replied, count, setup>>
vars == <<attempt, client, login, cq, mq, logged, conn, stage, replied,
          count, setup, told>>

Links == {"none", "connecting", "hello", "asked", "refused", "leaving", "closed"}
Errors == {"unknown", "socket", "none", "unexpected"}

\* link: the socket; err, reason: m_err and m_reason # NO_ERROR; quit: exit()
\* was called; ended: run() returned.  bos and kicked remember what the login
\* server said.
LoginService ==
  [link: Links, err: Errors, reason: BOOLEAN, quit: BOOLEAN, ended: BOOLEAN,
   bos: BOOLEAN, kicked: BOOLEAN]

NewLogin ==
  [link |-> "none", err |-> "unknown", reason |-> FALSE, quit |-> FALSE,
   ended |-> FALSE, bos |-> FALSE, kicked |-> FALSE]

LoginEvents == {"reason", "error", "disc", "finished"}
Stages == {"hello", "families", "versions", "rates", "setup"}
LoginFailures == {"loginfailed", "refused"}
Losses == {"bosfailed", "bosclosed"}

Event(a, kind) == [login |-> a, kind |-> kind]

\* emit notifyDisconnect(...) or notifyConnect(): the listener's slot is direct.
Tell(what) == told' = [told EXCEPT ![attempt] = @ \cup what]

\* QThread::exit of C: it leaves its loop later.
ExitClient == client' = IF client = "running" THEN "exiting" ELSE client

-----------------------------------------------------------------------------
(* M: the application starts the client *)

\* Mutant: connect() forgets that an earlier attempt was logged in.
StartForgetting ==
  /\ client = "stopped" /\ attempt < MaxAttempts
  /\ attempt' = attempt + 1
  /\ client' = "running"
  /\ login' = [login EXCEPT ![attempt + 1].link = "connecting"]
  /\ setup' = FALSE
  /\ logged' = FALSE
  /\ UNCHANGED <<queues, conn, stage, replied, count, told>>

\* connect() is QThread::start, which does nothing while C runs.  Client::run
\* makes a LoginService and starts its thread.
Start ==
  /\ client = "stopped" /\ attempt < MaxAttempts
  /\ attempt' = attempt + 1
  /\ client' = "running"
  /\ login' = [login EXCEPT ![attempt + 1].link = "connecting"]
  /\ setup' = FALSE
  /\ UNCHANGED <<queues, logged, conn, stage, replied, count, told>>

-----------------------------------------------------------------------------
(* L: the connection to the login server *)

InLogin(a) == UNCHANGED <<attempt, client, logged, bosVars, told>>

Moves(a, from, to) ==
  login[a].link = from /\ login' = [login EXCEPT ![a].link = to]

LoginConnected(a) ==
  Moves(a, "connecting", "hello") /\ UNCHANGED queues /\ InLogin(a)

LoginConnectFails(a) ==
  /\ Moves(a, "connecting", "closed")
  /\ cq' = Append(cq, Event(a, "error"))
  /\ UNCHANGED mq /\ InLogin(a)

\* LoginSt1Process::recvHello answers with the credentials.
RecvHello(a) ==
  Moves(a, "hello", "asked") /\ UNCHANGED queues /\ InLogin(a)

\* A reply on channel 4 without a server: serverDisconnected, queued to C.
Refused(a) ==
  /\ login[a].link = "asked"
  /\ login' = [login EXCEPT ![a].link = "refused", ![a].kicked = TRUE]
  /\ cq' = Append(cq, Event(a, "reason"))
  /\ UNCHANGED mq /\ InLogin(a)

\* A reply with the BOS server: LoginService::getBOSInfo runs in L
\* (DirectConnection), emits BOSInfo to M and closes the connection.
GetBOSInfo(a) ==
  /\ login[a].link = "asked"
  /\ login' = [login EXCEPT ![a].link = "leaving", ![a].bos = TRUE]
  /\ mq' = Append(mq, Event(a, "bos"))
  /\ UNCHANGED cq /\ InLogin(a)

LoginClosed(a) ==
  /\ Moves(a, "leaving", "closed")
  /\ cq' = Append(cq, Event(a, "disc"))
  /\ UNCHANGED mq /\ InLogin(a)

\* Mutant: the disconnection is signalled before the error.
LoginRemoteClosedSwapped(a) ==
  /\ login[a].link \in {"hello", "asked", "refused", "leaving"}
  /\ login' = [login EXCEPT ![a].link = "closed"]
  /\ cq' = cq \o <<Event(a, "disc"), Event(a, "error")>>
  /\ UNCHANGED mq /\ InLogin(a)

\* The server closes: the socket reports an error, then the disconnection.
LoginRemoteClosed(a) ==
  /\ login[a].link \in {"hello", "asked", "refused", "leaving"}
  /\ login' = [login EXCEPT ![a].link = "closed"]
  /\ cq' = cq \o <<Event(a, "error"), Event(a, "disc")>>
  /\ UNCHANGED mq /\ InLogin(a)

\* L leaves exec(), and QThread emits finished() to the LoginService in C.
LoginLoopEnds(a) ==
  /\ login[a].quit /\ ~login[a].ended
  /\ login' = [login EXCEPT ![a].ended = TRUE]
  /\ cq' = Append(cq, Event(a, "finished"))
  /\ UNCHANGED mq /\ InLogin(a)

LoginThread(a) ==
  \/ LoginConnected(a) \/ LoginConnectFails(a) \/ RecvHello(a)
  \/ Refused(a) \/ GetBOSInfo(a) \/ LoginClosed(a) \/ LoginRemoteClosed(a)
  \/ LoginLoopEnds(a)

-----------------------------------------------------------------------------
(* C: the slots of LoginService *)

TakesLoginEvent(kind) ==
  /\ client \in {"running", "exiting"}
  /\ cq # <<>> /\ Head(cq).kind = kind
  /\ cq' = Tail(cq)
  /\ UNCHANGED <<attempt, client, logged, bosVars, told>>

UnexpectedDisconnect ==
  /\ TakesLoginEvent("reason")
  /\ login' = [login EXCEPT ![Head(cq).login].reason = TRUE]
  /\ UNCHANGED mq

\* Mutant: the thread is not told to exit.
HandleConnErrorStays ==
  /\ TakesLoginEvent("error")
  /\ login' = [login EXCEPT ![Head(cq).login].err = "socket"]
  /\ UNCHANGED mq

HandleConnError ==
  /\ TakesLoginEvent("error")
  /\ login' = [login EXCEPT ![Head(cq).login].err = "socket",
                            ![Head(cq).login].quit = TRUE]
  /\ UNCHANGED mq

HandleDisconnect ==
  /\ TakesLoginEvent("disc")
  /\ LET a == Head(cq).login
     IN login' = [login EXCEPT
                    ![a].err = IF login[a].reason THEN "unexpected" ELSE "none",
                    ![a].quit = TRUE]
  /\ UNCHANGED mq

\* Service::finishedSlot emits serviceEnded to Client, which lives in M.
FinishedSlot ==
  /\ TakesLoginEvent("finished")
  /\ LET a == Head(cq).login
     IN mq' = Append(mq, [login |-> a, kind |-> "ended", err |-> login[a].err])
  /\ UNCHANGED login

LeaveLoop ==
  /\ client = "exiting"
  /\ client' = "stopped"
  /\ UNCHANGED <<attempt, login, queues, logged, bosVars, told>>

ClientThread ==
  \/ UnexpectedDisconnect \/ HandleConnError \/ HandleDisconnect
  \/ FinishedSlot \/ LeaveLoop

-----------------------------------------------------------------------------
(* M: the slots of Client fed by the queue *)

\* Client::getBOSInfo: create() makes the parser once, connBOS replaces the
\* connection and connects it.
ClientGetBOSInfo ==
  /\ mq # <<>> /\ Head(mq).kind = "bos"
  /\ mq' = Tail(mq)
  /\ logged' = TRUE
  /\ conn' = "connecting" /\ stage' = "hello" /\ replied' = {}
  /\ UNCHANGED <<attempt, client, login, cq, count, setup, told>>

\* Mutant: every end of a LoginService is reported.
LoginServiceEndedAlways ==
  /\ mq # <<>> /\ Head(mq).kind = "ended"
  /\ mq' = Tail(mq)
  /\ Tell({IF Head(mq).err = "unexpected" THEN "refused" ELSE "loginfailed"})
  /\ ExitClient
  /\ UNCHANGED <<attempt, login, cq, logged, bosVars>>

LoginServiceEnded ==
  /\ mq # <<>> /\ Head(mq).kind = "ended"
  /\ mq' = Tail(mq)
  /\ \/ /\ ~logged
        /\ Tell({IF Head(mq).err = "unexpected" THEN "refused" ELSE "loginfailed"})
        /\ ExitClient
     \/ logged /\ UNCHANGED <<client, told>>
  /\ UNCHANGED <<attempt, login, cq, logged, bosVars>>

-----------------------------------------------------------------------------
(* M: the connection to the BOS server *)

InBOS == UNCHANGED <<attempt, login, queues, logged>>

BOSConnected ==
  /\ conn = "connecting" /\ conn' = "up"
  /\ UNCHANGED <<client, stage, replied, count, setup, told>> /\ InBOS

BOSConnectFails ==
  /\ conn = "connecting" /\ conn' = "down"
  /\ Tell({"bosfailed"}) /\ ExitClient
  /\ UNCHANGED <<stage, replied, count, setup>> /\ InBOS

\* Client::disconnect: the socket closes later.  Before the connection is up
\* Connection::disconnect does nothing.
Disconnect ==
  /\ conn = "up" /\ conn' = "leaving"
  /\ UNCHANGED <<client, stage, replied, count, setup, told>> /\ InBOS

BOSDisconnected ==
  /\ conn = "leaving" /\ conn' = "down"
  /\ Tell({"bosclosed"}) /\ ExitClient
  /\ UNCHANGED <<stage, replied, count, setup>> /\ InBOS

\* The server closes: BOSError, then BOSDisconnected, in one go.
BOSRemoteClosed ==
  /\ conn \in {"up", "leaving"} /\ conn' = "down"
  /\ Tell({"bosfailed", "bosclosed"}) /\ ExitClient
  /\ UNCHANGED <<stage, replied, count, setup>> /\ InBOS

Receives(s) == conn \in {"up", "leaving"} /\ stage = s

\* LoginSt2Process: hello -> cookie, families -> versions, versions -> rates,
\* rates -> stage2finished -> requestServiceSetup.
Stage2 ==
  /\ \/ Receives("hello") /\ stage' = "families"
     \/ Receives("families") /\ stage' = "versions"
     \/ Receives("versions") /\ stage' = "rates"
     \/ Receives("rates") /\ stage' = "setup"
  /\ UNCHANGED <<client, conn, replied, count, setup, told>> /\ InBOS

\* Mutant: the guard of the counter is one too large.
DoneOneMore ==
  \/ count < NUM_OF_SERVICES /\ count' = count + 1 /\ UNCHANGED setup
  \/ count = NUM_OF_SERVICES /\ setup' = TRUE /\ UNCHANGED count

\* ServiceSetupProcess::done counts replies and never starts anew.
Done ==
  \/ count < NUM_OF_SERVICES - 1 /\ count' = count + 1 /\ UNCHANGED setup
  \/ count >= NUM_OF_SERVICES - 1 /\ setup' = TRUE /\ UNCHANGED count

\* A reply about one family; the reply about SSI makes the client ask for the
\* roster.
Limits(f) ==
  /\ Receives("setup") /\ f \notin replied
  /\ replied' = replied \cup {f}
  /\ Done
  /\ UNCHANGED <<client, conn, stage, told>> /\ InBOS

\* rosterArrived -> rosterAcked -> Client::finishedConnection.
FinishedConnection ==
  /\ Receives("setup") /\ SSI \in replied
  /\ Tell({"ready"})
  /\ UNCHANGED <<client, bosVars>> /\ InBOS

BOSStep ==
  \/ BOSConnected \/ BOSConnectFails \/ BOSDisconnected \/ BOSRemoteClosed
  \/ Stage2 \/ (\E f \in Family : Limits(f)) \/ FinishedConnection

-----------------------------------------------------------------------------

Init ==
  /\ attempt = 0 /\ client = "stopped"
  /\ login = [a \in Attempts |-> NewLogin]
  /\ cq = <<>> /\ mq = <<>>
  /\ logged = FALSE
  /\ conn = "none" /\ stage = "hello" /\ replied = {}
  /\ count = 0 /\ setup = FALSE
  /\ told = [a \in Attempts |-> {}]

Next ==
  \/ Start \/ Disconnect
  \/ \E a \in Attempts : LoginThread(a)
  \/ ClientThread
  \/ ClientGetBOSInfo \/ LoginServiceEnded \/ BOSStep

Spec == Init /\ [][Next]_vars

\* The three event loops run, and a server answers or closes: the code sets
\* no timeout, so a silent server would leave the application waiting.
Fairness ==
  /\ \A a \in Attempts : WF_vars(LoginThread(a))
  /\ WF_vars(ClientThread)
  /\ WF_vars(ClientGetBOSInfo) /\ WF_vars(LoginServiceEnded)
  /\ WF_vars(BOSStep)
FairSpec == Spec /\ Fairness

-----------------------------------------------------------------------------
(* Properties *)

\* Types; m_count stays below the number of services.
TypeOK ==
  /\ attempt \in 0 .. MaxAttempts
  /\ client \in {"stopped", "running", "exiting"}
  /\ login \in [Attempts -> LoginService]
  /\ cq \in Seq([login: Attempts, kind: LoginEvents])
  /\ mq \in Seq([login: Attempts, kind: {"bos"}]
                \cup [login: Attempts, kind: {"ended"}, err: Errors])
  /\ logged \in BOOLEAN
  /\ conn \in {"none", "connecting", "up", "leaving", "down"}
  /\ stage \in Stages
  /\ replied \subseteq Family
  /\ count \in 0 .. NUM_OF_SERVICES - 1
  /\ setup \in BOOLEAN
  /\ told \in [Attempts -> SUBSET (LoginFailures \cup Losses \cup {"ready"})]

\* A refused login is reported with the server's reason and any other failure
\* without one, whatever the order in which L, C and M run: the reason, the
\* error and the disconnection pass through C before the end reaches M.
ReasonReported ==
  \A a \in Attempts :
    /\ "loginfailed" \in told[a] => ~login[a].kicked
    /\ "refused" \in told[a] => login[a].kicked

\* The application is told that an attempt failed to log in only if that very
\* attempt ended without a BOS server: neither the end of a successful login
\* nor the late end of an earlier one counts.
LoginVerdictIsRight ==
  \A a \in Attempts :
    told[a] \cap LoginFailures # {} => login[a].ended /\ ~login[a].bos

\* Where to connect is never learnt from an earlier attempt, nor by a client
\* that stopped meanwhile.
BOSInfoIsCurrent ==
  \A i \in DOMAIN mq :
    mq[i].kind = "bos" => mq[i].login = attempt /\ client = "running"

\* While the client runs there is at most one connection to be lost: a
\* connection that is up belongs to a running client that was logged in.
ConnectionHasClient ==
  conn \in {"connecting", "up", "leaving"} => client = "running" /\ logged

\* The first connect() is answered: the application is told that it is ready,
\* or the client stops, having told it why.
FirstConnectIsAnswered ==
  attempt = 1 ~>
    \/ "ready" \in told[1] \/ attempt > 1
    \/ client = "stopped" /\ told[1] \cap (LoginFailures \cup Losses) # {}

\* client.cpp:376 "Something happened to LoginService": an attempt that ends
\* without a BOS server is reported.
LoginFailureIsReported ==
  [][ \A a \in Attempts :
        mq # <<>> /\ Head(mq).kind = "ended" /\ Head(mq).login = a
        /\ mq' = Tail(mq) /\ ~login[a].bos
          => told'[a] \cap LoginFailures # {} ]_vars
=============================================================================
