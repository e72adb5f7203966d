---------------------------- MODULE ContactList -----------------------------
(***************************************************************************)
(* What the roster code of liboscar promises an application that waits for *)
(* the answer to each edit before it asks for the next: its list follows   *)
(* the list the server stores, one decided edit behind at most.            *)
(***************************************************************************)
EXTENDS Integers

CONSTANTS
  Entry,    \* what can be on a list
  Stores    \* contents the server may hold before the first login

VARIABLES
  mine,     \* the entries the application has been told of
  theirs,   \* the entries the server stores
  request,  \* the edit under way, or Idle
  logins    \* rosters received

lvars == <<mine, theirs, request, logins>>

Idle == [state |-> "idle"]
Requests ==
  {Idle} \cup [state: {"asked", "granted", "refused"},
               op: {"add", "del"}, entry: Entry]

TypeInvariant ==
  /\ mine \subseteq Entry
  /\ theirs \subseteq Entry
  /\ request \in Requests
  /\ logins \in Nat

\* The two lists differ by the granted edit only, until a second login.
InStep ==
  logins = 1 =>
    \/ request.state \in {"idle", "asked", "refused"} /\ mine = theirs
    \/ request.state = "granted" /\ request.op = "add"
       /\ theirs = mine \cup {request.entry}
    \/ request.state = "granted" /\ request.op = "del"
       /\ theirs = mine \ {request.entry}

Apply(kind, entry, list) ==
  IF kind = "add" THEN list \cup {entry} ELSE list \ {entry}

Init ==
  /\ mine = {} /\ theirs \in Stores
  /\ request = Idle /\ logins = 0

Login ==
  /\ mine' = mine \cup theirs
  /\ logins' = logins + 1
  /\ request = Idle
  /\ UNCHANGED <<theirs, request>>

Ask ==
  /\ request = Idle /\ logins > 0
  /\ request' \in Requests
  /\ request'.state = "asked"
  /\ UNCHANGED <<mine, theirs, logins>>

Grant ==
  /\ request.state = "asked"
  /\ request' = [request EXCEPT !.state = "granted"]
  /\ theirs' = Apply(request.op, request.entry, theirs)
  /\ UNCHANGED <<mine, logins>>

Refuse ==
  /\ request.state = "asked"
  /\ request' = [request EXCEPT !.state = "refused"]
  /\ UNCHANGED <<mine, theirs, logins>>

\* Entries a second login listed twice survive one deletion.
Learn ==
  /\ request.state \in {"granted", "refused"}
  /\ request' = Idle
  /\ \/ request.state = "granted"
        /\ mine' = Apply(request.op, request.entry, mine)
     \/ request.state = "granted" /\ logins > 1 /\ UNCHANGED mine
     \/ request.state = "refused" /\ UNCHANGED mine
  /\ UNCHANGED <<theirs, logins>>

\* The connection is lost: the application never hears of the edit.
Drop == request' = Idle /\ UNCHANGED <<mine, theirs, logins>>

Next ==
  \/ Login \/ Ask \/ Grant \/ Refuse \/ Learn \/ Drop

Spec == Init /\ [][Next]_lvars
=============================================================================
