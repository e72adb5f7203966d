----------------------------- MODULE FlapStream -----------------------------
(***************************************************************************)
(* How liboscar cuts the byte stream of a connection into FLAPs: the slot  *)
(* Connection::read hands whatever the socket has to Parser::add, which    *)
(* appends it to the Buffer m_buf, and signals OscarParser::parse, which   *)
(* takes complete FLAPs off the front of m_buf and dispatches each one     *)
(* before it looks for the next.                                           *)
(*                                                                         *)
(* The peer (external) writes FLAPs; TCP delivers their bytes in order, in *)
(* pieces of any size.  Client makes its OscarParser once (Client::create) *)
(* and gives it to the Connection of every session, so what a lost         *)
(* connection left in m_buf is still there in the next one.                *)
(***************************************************************************)
EXTENDS Integers, Sequences

CONSTANTS
  Frames,      \* FLAPs the peer may write: channel and data
  MaxFrames,   \* bound: FLAPs written in a session
  MaxLosses    \* bound: connections lost

Byte == 0 .. 255
Word == {w \in Nat : w < 65536}
Char == -128 .. 127   \* what a QByteArray holds

FLAP == [chan: Byte, body: Seq(Byte)]

ASSUME FramesAssumption ==
  Frames \subseteq FLAP /\ \A f \in Frames : Len(f.body) \in Word
ASSUME BoundsAssumption == MaxFrames \in Nat /\ MaxLosses \in Nat

VARIABLES
  sent,      \* FLAPs written in this session, and where each one ends
  stream,    \* the bytes of those FLAPs
  arrived,   \* how many of them the socket has handed over
  buf,       \* Parser::m_buf
  parsing,   \* parse() is running
  handled,   \* FLAPs dispatched in this session
  losses,    \* connections lost so far
  leftover,  \* some connection was lost while m_buf held bytes
  inStep,    \* m_buf begins where a FLAP of this session does, as far as that shows
  since      \* how many FLAPs were sent and dispatched when that began

progress == <<inStep, since>>
vars == <<sent, stream, arrived, buf, parsing, handled, losses, leftover, progress>>

-----------------------------------------------------------------------------
(* Buffer: big-endian words, removal at both ends *)

HighByte(w) == w \div 256
LowByte(w) == w % 256

\* operator<<(Word) and prepend(Word)
PutWord(w) == <<HighByte(w), LowByte(w)>>

\* getWord with the iterator at position i
GetWord(b, i) == 256 * b[i] + b[i + 1]

\* remove(n) at the front
RemoveFront(b, n) == SubSeq(b, n + 1, Len(b))

\* Mutant: the FLAPs that follow are not cut off.
SetLengthNot(b, n) == b

\* setLength(n)
SetLength(b, n) == SubSeq(b, 1, n)

-----------------------------------------------------------------------------
(* FLAP *)

Magic == 42
HeaderSize == 6
POSITIVE_MASK == 32767

\* Connection::getNextSeqNumber
NextSeqNumber(n) == (n + 1) % (POSITIVE_MASK + 1)

\* FLAP::pack
Pack(f, seq) ==
  <<Magic, f.chan>> \o PutWord(seq) \o PutWord(Len(f.body)) \o f.body

\* toByteArray: bytes become signed characters.
ToChar(b) == IF b > 127 THEN b - 256 ELSE b

\* The cast of Parser::add.
ToByte(c) == c % 256

-----------------------------------------------------------------------------
(* The peer and the network (external) *)

PeerWrites(f) ==
  /\ Len(sent) < MaxFrames
  /\ LET bytes == Pack(f, NextSeqNumber(Len(sent)))
     IN /\ stream' = stream \o bytes
        /\ sent' = Append(sent, [flap |-> f, end |-> Len(stream) + Len(bytes)])
  /\ UNCHANGED <<arrived, buf, parsing, handled, losses, leftover, progress>>

\* m_parser keeps m_buf; the new Connection has a new socket.
ConnectionLost ==
  /\ ~parsing /\ losses < MaxLosses
  /\ losses' = losses + 1
  /\ leftover' = (leftover \/ buf # <<>>)
  /\ inStep' = (buf = <<>>) /\ since' = [sent |-> 0, handled |-> 0]
  /\ sent' = <<>> /\ stream' = <<>> /\ arrived' = 0 /\ handled' = <<>>
  /\ UNCHANGED <<buf, parsing>>

-----------------------------------------------------------------------------
(* The client *)

\* The socket has the bytes up to position n of the stream: add them, parse.
Read(n) ==
  /\ ~parsing
  /\ buf' = buf \o [i \in 1 .. n - arrived |->
                      ToByte(ToChar(stream[arrived + i]))]
  /\ arrived' = n
  /\ parsing' = TRUE
  /\ UNCHANGED <<sent, stream, handled, losses, leftover, progress>>

DataLength == GetWord(buf, 5)

\* Mutant: a FLAP waits for a byte of the next one.
IncompleteOffByOne ==
  Len(buf) >= HeaderSize =>
    buf[1] = Magic /\ Len(buf) <= DataLength + HeaderSize

\* parse() returns with rest in m_buf.  If that is nothing, and the socket has handed
\* over the stream up to the end of a FLAP, m_buf will begin with the next one.
Returns(rest) ==
  LET ends == {k \in DOMAIN sent : sent[k].end = arrived}
  IN /\ parsing' = FALSE
     /\ IF ~inStep /\ rest = <<>> /\ ends # {}
        THEN inStep' = TRUE /\ \E k \in ends : since' = [sent |-> k, handled |-> Len(handled)]
        ELSE UNCHANGED progress

\* parse() leaves m_buf as it is and returns ...
Incomplete ==
  Len(buf) >= HeaderSize =>
    buf[1] = Magic /\ Len(buf) < DataLength + HeaderSize

ParseWaits ==
  /\ parsing /\ Incomplete
  /\ Returns(buf)
  /\ UNCHANGED <<sent, stream, arrived, buf, handled, losses, leftover>>

\* ... or discards it, ...
ParseDiscards ==
  /\ parsing /\ ~Incomplete /\ buf[1] # Magic
  /\ buf' = <<>>
  /\ Returns(<<>>)
  /\ UNCHANGED <<sent, stream, arrived, handled, losses, leftover>>

\* Mutant: what came behind the FLAP is removed with it.
ParseFLAPClears ==
  /\ parsing /\ ~Incomplete /\ buf[1] = Magic
  /\ handled' = Append(handled,
       [chan |-> buf[2], body |-> RemoveFront(SetLength(buf, DataLength + HeaderSize), HeaderSize)])
  /\ buf' = <<>>
  /\ UNCHANGED <<sent, stream, arrived, parsing, losses, leftover, progress>>

\* ... or copies a FLAP out, removes it and dispatches it by its channel; the
\* loop goes on while m_buf holds anything.
ParseFLAP ==
  /\ parsing /\ ~Incomplete /\ buf[1] = Magic
  /\ LET size == DataLength + HeaderSize
     IN /\ handled' = Append(handled,
             [chan |-> buf[2],
              body |-> RemoveFront(SetLength(buf, size), HeaderSize)])
        /\ buf' = RemoveFront(buf, size)
  /\ UNCHANGED <<sent, stream, arrived, parsing, losses, leftover, progress>>

Parse == ParseWaits \/ ParseDiscards \/ ParseFLAP

-----------------------------------------------------------------------------

Init ==
  /\ sent = <<>> /\ stream = <<>> /\ arrived = 0
  /\ buf = <<>> /\ parsing = FALSE /\ handled = <<>>
  /\ losses = 0 /\ leftover = FALSE
  /\ inStep = TRUE /\ since = [sent |-> 0, handled |-> 0]

Next ==
  \/ \E f \in Frames : PeerWrites(f)
  \/ \E n \in arrived + 1 .. Len(stream) : Read(n)
  \/ Parse
  \/ ConnectionLost

Spec == Init /\ [][Next]_vars

-----------------------------------------------------------------------------
(* Properties *)

\* However the stream is cut into pieces, the FLAPs dispatched are the FLAPs
\* the peer wrote, unaltered and in order, as long as no connection was lost
\* in the middle of one.
FLAPsAreInOrder ==
  ~leftover =>
    /\ Len(handled) <= Len(sent)
    /\ \A i \in DOMAIN handled : handled[i] = sent[i].flap

\* A FLAP that arrived completely does not wait in m_buf for the next piece:
\* the answer it asks for might be what the peer waits for.
NoFLAPWaits ==
  ~leftover /\ ~parsing =>
    \A i \in DOMAIN sent : sent[i].end <= arrived => i <= Len(handled)

\* How many FLAPs of the session the parser has behind it when it is in step.
Done == since.sent + (Len(handled) - since.handled)

\* What an earlier connection left makes a FLAP with the first bytes of this one, or is
\* discarded with them.  Once that leaves m_buf empty where a FLAP of this session ends,
\* every FLAP after it is dispatched, unaltered, once and in order, and does not wait.
BackInStep ==
  inStep =>
    /\ Done <= Len(sent)
    /\ \A i \in DOMAIN handled :
         i > since.handled => handled[i] = sent[since.sent + (i - since.handled)].flap
    /\ ~parsing => \A i \in DOMAIN sent : sent[i].end <= arrived => i <= Done
=============================================================================
