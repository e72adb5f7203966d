------------------------- MODULE FlapStream_proofs -------------------------
(***************************************************************************)
(* Theorems about FlapStream, for any FLAPs, any number of them and any    *)
(* cut of the stream into pieces.                                          *)
(*                                                                         *)
(* The stream is the FLAPs written, one behind the other (Layout), and as  *)
(* long as the parser is in step m_buf holds what lies between the last    *)
(* FLAP dispatched and the last byte read (Window).  So parse() always     *)
(* looks at the beginning of a FLAP: the length it reads is the length of  *)
(* that FLAP, what it copies out is that FLAP, and what it leaves begins   *)
(* with the next one.  A parser that is out of step is back in it when     *)
(* m_buf is empty where a FLAP ends.                                       *)
(***************************************************************************)
EXTENDS FlapStream, QueueLemmas

-----------------------------------------------------------------------------
(* The inductive invariant *)

Sent == [flap : FLAP, end : Nat]

Types ==
  /\ sent \in Seq(Sent) /\ stream \in Seq(Byte) /\ arrived \in Nat
  /\ buf \in Seq(Byte) /\ parsing \in BOOLEAN /\ handled \in Seq(FLAP)
  /\ losses \in Nat /\ leftover \in BOOLEAN
  /\ inStep \in BOOLEAN /\ since \in [sent : Nat, handled : Nat]

\* Where the FLAP behind the first k of s begins.
Start(s, k) == IF k = 0 THEN 0 ELSE s[k].end

\* The bytes of str behind place p are f's, its sequence number aside.
LiesAt(f, str, p) ==
  /\ str[p + 1] = Magic /\ str[p + 2] = f.chan
  /\ str[p + 5] = HighByte(Len(f.body)) /\ str[p + 6] = LowByte(Len(f.body))
  /\ \A j \in 1 .. Len(f.body) : str[p + HeaderSize + j] = f.body[j]

Layout ==
  /\ Len(stream) = Start(sent, Len(sent))
  /\ arrived <= Len(stream)
  /\ \A i \in DOMAIN sent :
       /\ Len(sent[i].flap.body) \in Word
       /\ sent[i].end = Start(sent, i - 1) + HeaderSize + Len(sent[i].flap.body)
       /\ sent[i].end <= Len(stream)
       /\ LiesAt(sent[i].flap, stream, Start(sent, i - 1))
  /\ \A i, j \in DOMAIN sent : i < j => sent[i].end <= sent[j].end

Window ==
  /\ ~leftover => inStep /\ since.sent = 0 /\ since.handled = 0
  /\ inStep =>
       /\ since.handled <= Len(handled) /\ Done <= Len(sent)
       /\ \A i \in DOMAIN handled :
            i > since.handled => handled[i] = sent[since.sent + (i - since.handled)].flap
       /\ Start(sent, Done) + Len(buf) = arrived
       /\ \A i \in DOMAIN buf : buf[i] = stream[Start(sent, Done) + i]

\* What parse() leaves is shorter than the FLAP it seems to begin.
KeepsABeginning ==
  ~parsing /\ Len(buf) >= HeaderSize =>
    buf[1] = Magic /\ Len(buf) < HeaderSize + GetWord(buf, 5)

IInv == Types /\ Layout /\ Window /\ KeepsABeginning

-----------------------------------------------------------------------------
(* What the operators on buffers do *)

\* A length written as two bytes is read back.
LEMMA WordIsRead ==
  ASSUME NEW w \in Word
  PROVE  HighByte(w) \in Byte /\ LowByte(w) \in Byte /\ 256 * HighByte(w) + LowByte(w) = w
<1>1. w \in Int /\ 0 <= w /\ w <= 65535
  BY DEF Word
<1>2. PICK n : n = w
  OBVIOUS
<1>3. n \in Nat /\ n < 65536
  BY <1>1, <1>2
<1>4. n % 256 \in 0 .. 255 /\ n \div 256 \in 0 .. 255
  BY <1>3
<1>5. 256 * (n \div 256) + (n % 256) = n
  BY <1>3
<1> QED
  BY SMTT(30), <1>2, <1>4, <1>5 DEF Byte, HighByte, LowByte

\* A byte passed as a signed character is the same byte again.
LEMMA CharIsRead ==
  ASSUME NEW b \in Byte
  PROVE  ToByte(ToChar(b)) = b
  BY DEF Byte, ToByte, ToChar

\* The numbers getNextSeqNumber returns fit in two bytes.
LEMMA SeqNumberFits ==
  ASSUME NEW n \in Nat
  PROVE  HighByte(NextSeqNumber(n)) \in Byte /\ LowByte(NextSeqNumber(n)) \in Byte
<1>1. POSITIVE_MASK + 1 = 32768
  BY DEF POSITIVE_MASK
<1>2. PICK m \in Nat : m = (n + 1) % 32768 /\ m < 32768
  BY SMT
<1>3. NextSeqNumber(n) = m
  BY <1>1, <1>2 DEF NextSeqNumber
<1>4. HighByte(m) \in Byte /\ LowByte(m) \in Byte
  BY SMT, <1>2 DEF HighByte, LowByte, Byte
<1> QED
  BY <1>3, <1>4

\* What is left of a buffer whose first n bytes are removed.
LEMMA RemoveFrontLeaves ==
  ASSUME NEW b \in Seq(Byte), NEW n \in 0 .. Len(b)
  PROVE  /\ RemoveFront(b, n) \in Seq(Byte)
         /\ Len(RemoveFront(b, n)) = Len(b) - n
         /\ \A i \in 1 .. Len(b) - n : RemoveFront(b, n)[i] = b[n + i]
<1>1. Len(b) \in Nat /\ n + 1 \in Nat /\ DOMAIN b = 1 .. Len(b)
  BY LenProperties
<1>2. /\ SubSeq(b, n + 1, Len(b)) \in Seq(Byte)
      /\ Len(SubSeq(b, n + 1, Len(b))) = IF n + 1 <= Len(b) THEN Len(b) - (n + 1) + 1 ELSE 0
      /\ \A i \in 1 .. Len(b) - (n + 1) + 1 : SubSeq(b, n + 1, Len(b))[i] = b[n + 1 + i - 1]
  BY <1>1, SubSeqProperties
<1>3. Len(SubSeq(b, n + 1, Len(b))) = Len(b) - n /\ Len(b) - (n + 1) + 1 = Len(b) - n
  <2>1. CASE n + 1 <= Len(b)
    BY <1>1, <1>2, <2>1
  <2>2. CASE ~(n + 1 <= Len(b))
    <3>1. PICK len : len = Len(b)
      OBVIOUS
    <3>2. len \in Nat /\ n \in 0 .. len /\ ~(n + 1 <= len)
      BY <1>1, <2>2, <3>1
    <3>3. n = len
      BY <3>2
    <3> QED
      BY <1>1, <1>2, <2>2, <3>1, <3>3
  <2> QED
    BY <2>1, <2>2
<1>4. \A i \in 1 .. Len(b) - n : n + 1 + i - 1 = n + i
  BY <1>1
<1> QED
  BY <1>2, <1>3, <1>4 DEF RemoveFront

\* What is kept of a buffer cut to its first n bytes.
LEMMA SetLengthKeeps ==
  ASSUME NEW b \in Seq(Byte), NEW n \in 0 .. Len(b)
  PROVE  /\ SetLength(b, n) \in Seq(Byte)
         /\ Len(SetLength(b, n)) = n
         /\ \A i \in 1 .. n : SetLength(b, n)[i] = b[i]
<1>1. Len(b) \in Nat /\ n \in Nat /\ DOMAIN b = 1 .. Len(b)
  BY LenProperties
<1>2. /\ SubSeq(b, 1, n) \in Seq(Byte)
      /\ Len(SubSeq(b, 1, n)) = IF 1 <= n THEN n - 1 + 1 ELSE 0
      /\ \A i \in 1 .. n - 1 + 1 : SubSeq(b, 1, n)[i] = b[1 + i - 1]
  BY <1>1, SubSeqProperties
<1>3. Len(SubSeq(b, 1, n)) = n /\ n - 1 + 1 = n /\ \A i \in 1 .. n : 1 + i - 1 = i
  BY <1>1, <1>2
<1> QED
  BY <1>2, <1>3 DEF SetLength

\* Words written one behind the other.
LEMMA TwoAndTwo ==
  ASSUME NEW S, NEW a \in S, NEW b \in S, NEW c \in S, NEW d \in S
  PROVE  <<a, b>> \o <<c, d>> = <<a, b, c, d>>
<1>0. PICK p, q, r : p = <<a, b>> /\ q = <<c, d>> /\ r = <<a, b, c, d>>
  OBVIOUS
<1>1. p \in Seq(S) /\ q \in Seq(S) /\ r \in Seq(S) /\ Len(p) = 2 /\ Len(q) = 2 /\ Len(r) = 4
  BY <1>0
<1>2. /\ p[1] = a /\ p[2] = b /\ q[1] = c /\ q[2] = d
      /\ r[1] = a /\ r[2] = b /\ r[3] = c /\ r[4] = d
  BY <1>0
<1>3. /\ p \o q \in Seq(S) /\ Len(p \o q) = 4
      /\ \A i \in 1 .. 2 : (p \o q)[i] = p[i]
      /\ \A i \in 1 .. 2 : (p \o q)[2 + i] = q[i]
  <2>1. /\ p \o q \in Seq(S) /\ Len(p \o q) = Len(p) + Len(q)
        /\ \A i \in 1 .. Len(p) : (p \o q)[i] = p[i]
        /\ \A i \in 1 .. Len(q) : (p \o q)[Len(p) + i] = q[i]
    <3>1. p \in Seq(S) /\ q \in Seq(S)
      BY <1>1
    <3> QED
      BY <3>1, Joined
  <2> QED
    BY <1>1, <2>1
<1>4. (p \o q)[1] = a /\ (p \o q)[2] = b /\ (p \o q)[3] = c /\ (p \o q)[4] = d
  <2>1. 1 \in 1 .. 2 /\ 2 \in 1 .. 2 /\ 2 + 1 = 3 /\ 2 + 2 = 4
    OBVIOUS
  <2> QED
    BY <1>2, <1>3, <2>1
<1>5. ASSUME NEW i \in 1 .. 4 PROVE (p \o q)[i] = r[i]
  <2>1. i = 1 \/ i = 2 \/ i = 3 \/ i = 4
    OBVIOUS
  <2> QED
    BY <1>2, <1>4, <2>1
<1>6. p \o q = r
  BY <1>1, <1>3, <1>5, SeqEqual
<1> QED
  BY <1>0, <1>6

LEMMA FourAndTwo ==
  ASSUME NEW S, NEW a \in S, NEW b \in S, NEW c \in S, NEW d \in S, NEW e \in S, NEW f \in S
  PROVE  <<a, b, c, d>> \o <<e, f>> = <<a, b, c, d, e, f>>
<1>0. PICK p, q, r : p = <<a, b, c, d>> /\ q = <<e, f>> /\ r = <<a, b, c, d, e, f>>
  OBVIOUS
<1>1. p \in Seq(S) /\ q \in Seq(S) /\ r \in Seq(S) /\ Len(p) = 4 /\ Len(q) = 2 /\ Len(r) = 6
  BY <1>0
<1>2. /\ p[1] = a /\ p[2] = b /\ p[3] = c /\ p[4] = d /\ q[1] = e /\ q[2] = f
      /\ r[1] = a /\ r[2] = b /\ r[3] = c /\ r[4] = d /\ r[5] = e /\ r[6] = f
  BY <1>0
<1>3. /\ p \o q \in Seq(S) /\ Len(p \o q) = 6
      /\ \A i \in 1 .. 4 : (p \o q)[i] = p[i]
      /\ \A i \in 1 .. 2 : (p \o q)[4 + i] = q[i]
  <2>1. /\ p \o q \in Seq(S) /\ Len(p \o q) = Len(p) + Len(q)
        /\ \A i \in 1 .. Len(p) : (p \o q)[i] = p[i]
        /\ \A i \in 1 .. Len(q) : (p \o q)[Len(p) + i] = q[i]
    <3>1. p \in Seq(S) /\ q \in Seq(S)
      BY <1>1
    <3> QED
      BY <3>1, Joined
  <2> QED
    BY <1>1, <2>1
<1>4. /\ (p \o q)[1] = a /\ (p \o q)[2] = b /\ (p \o q)[3] = c /\ (p \o q)[4] = d
      /\ (p \o q)[5] = e /\ (p \o q)[6] = f
  <2>1. /\ 1 \in 1 .. 4 /\ 2 \in 1 .. 4 /\ 3 \in 1 .. 4 /\ 4 \in 1 .. 4
        /\ 1 \in 1 .. 2 /\ 2 \in 1 .. 2 /\ 4 + 1 = 5 /\ 4 + 2 = 6
    OBVIOUS
  <2> QED
    BY <1>2, <1>3, <2>1
<1>5. ASSUME NEW i \in 1 .. 6 PROVE (p \o q)[i] = r[i]
  <2>1. i = 1 \/ i = 2 \/ i = 3 \/ i = 4 \/ i = 5 \/ i = 6
    OBVIOUS
  <2> QED
    BY <1>2, <1>4, <2>1
<1>6. p \o q = r
  BY <1>1, <1>3, <1>5, SeqEqual
<1> QED
  BY <1>0, <1>6

\* What pack writes: where the fields of a FLAP lie in its bytes.
LEMMA PackWrites ==
  ASSUME NEW f \in FLAP, Len(f.body) \in Word,
         NEW w, HighByte(w) \in Byte, LowByte(w) \in Byte
  PROVE  /\ Pack(f, w) \in Seq(Byte)
         /\ Len(Pack(f, w)) = HeaderSize + Len(f.body)
         /\ LiesAt(f, Pack(f, w), 0)
<1>0. PICK head : head = <<Magic, f.chan, HighByte(w), LowByte(w),
                           HighByte(Len(f.body)), LowByte(Len(f.body))>>
  OBVIOUS
<1>1. f.chan \in Byte /\ f.body \in Seq(Byte) /\ Magic \in Byte
  BY DEF FLAP, Magic, Byte
<1>2. /\ HighByte(w) \in Byte /\ LowByte(w) \in Byte
      /\ HighByte(Len(f.body)) \in Byte /\ LowByte(Len(f.body)) \in Byte
  BY WordIsRead
<1>3. head \in Seq(Byte) /\ Len(head) = 6
  BY <1>0, <1>1, <1>2
<1>4. /\ head[1] = Magic /\ head[2] = f.chan
      /\ head[5] = HighByte(Len(f.body)) /\ head[6] = LowByte(Len(f.body))
  BY <1>0
<1>5. Pack(f, w) = head \o f.body
  <2>1. <<Magic, f.chan>> \o PutWord(w) = <<Magic, f.chan, HighByte(w), LowByte(w)>>
    BY <1>1, <1>2, TwoAndTwo DEF PutWord
  <2>2. <<Magic, f.chan, HighByte(w), LowByte(w)>> \o PutWord(Len(f.body)) = head
    <3>1. PICK c, wh, wl, bh, bl :
            /\ c = f.chan /\ wh = HighByte(w) /\ wl = LowByte(w)
            /\ bh = HighByte(Len(f.body)) /\ bl = LowByte(Len(f.body))
      OBVIOUS
    <3>2. /\ Magic \in Byte /\ c \in Byte /\ wh \in Byte /\ wl \in Byte
          /\ bh \in Byte /\ bl \in Byte
      BY <1>1, <1>2, <3>1
    <3>3. <<Magic, c, wh, wl>> \o <<bh, bl>> = <<Magic, c, wh, wl, bh, bl>>
      BY <3>2, FourAndTwo
    <3> QED
      BY <1>0, <3>1, <3>3 DEF PutWord
  <2> QED
    BY <1>0, <2>1, <2>2 DEF Pack
<1>6. /\ head \o f.body \in Seq(Byte) /\ Len(head \o f.body) = 6 + Len(f.body)
      /\ \A i \in 1 .. 6 : (head \o f.body)[i] = head[i]
      /\ \A i \in 1 .. Len(f.body) : (head \o f.body)[6 + i] = f.body[i]
  <2>1. PICK body : body = f.body
    OBVIOUS
  <2>2. body \in Seq(Byte)
    BY <1>1, <2>1
  <2>4. /\ head \o body \in Seq(Byte) /\ Len(head \o body) = Len(head) + Len(body)
        /\ \A i \in 1 .. Len(head) : (head \o body)[i] = head[i]
        /\ \A i \in 1 .. Len(body) : (head \o body)[Len(head) + i] = body[i]
    <3>1. head \in Seq(Byte)
      BY <1>3
    <3> QED
      BY <2>2, <3>1, Joined
  <2>3. /\ head \o body \in Seq(Byte) /\ Len(head \o body) = 6 + Len(body)
        /\ \A i \in 1 .. 6 : (head \o body)[i] = head[i]
        /\ \A i \in 1 .. Len(body) : (head \o body)[6 + i] = body[i]
    BY <1>3, <2>4
  <2> QED
    BY <2>1, <2>3
<1> QED
  BY SMTT(30), <1>4, <1>5, <1>6 DEF LiesAt, HeaderSize

\* What lies at a place of the stream lies there when more bytes follow.
LEMMA LiesStill ==
  ASSUME NEW f \in FLAP, NEW s \in Seq(Byte), NEW t \in Seq(Byte), NEW p \in Nat,
         p + HeaderSize + Len(f.body) <= Len(s), LiesAt(f, s, p)
  PROVE  LiesAt(f, s \o t, p)
<1>1. Len(f.body) \in Nat
  BY LenProperties DEF FLAP
<1>2. \A i \in 1 .. Len(s) : (s \o t)[i] = s[i]
  BY Joined
<1>5. Len(s) \in Nat
  BY LenProperties
<1>4. /\ p + 1 \in 1 .. Len(s) /\ p + 2 \in 1 .. Len(s)
      /\ p + 5 \in 1 .. Len(s) /\ p + 6 \in 1 .. Len(s)
      /\ \A j \in 1 .. Len(f.body) : p + HeaderSize + j \in 1 .. Len(s)
  <2>1. PICK n, m : n = Len(f.body) /\ m = Len(s)
    OBVIOUS
  <2>2. n \in Nat /\ m \in Nat /\ p + 6 + n <= m
    BY <1>1, <1>5, <2>1 DEF HeaderSize
  <2>3. /\ p + 1 \in 1 .. m /\ p + 2 \in 1 .. m /\ p + 5 \in 1 .. m /\ p + 6 \in 1 .. m
        /\ \A j \in 1 .. n : p + 6 + j \in 1 .. m
    BY <2>2
  <2> QED
    BY <2>1, <2>3 DEF HeaderSize
<1> QED
  BY <1>2, <1>4 DEF LiesAt

\* A FLAP that lies at the front of t lies in s \o t behind s.
LEMMA LiesBehind ==
  ASSUME NEW f \in FLAP, NEW s \in Seq(Byte), NEW t \in Seq(Byte),
         HeaderSize + Len(f.body) = Len(t), LiesAt(f, t, 0)
  PROVE  LiesAt(f, s \o t, Len(s))
<1>1. Len(f.body) \in Nat
  BY LenProperties DEF FLAP
<1>2. Len(s) \in Nat /\ \A i \in 1 .. Len(t) : (s \o t)[Len(s) + i] = t[i]
  BY Joined
<1>3. /\ 1 \in 1 .. Len(t) /\ 2 \in 1 .. Len(t) /\ 5 \in 1 .. Len(t) /\ 6 \in 1 .. Len(t)
      /\ \A j \in 1 .. Len(f.body) : HeaderSize + j \in 1 .. Len(t)
  BY <1>1 DEF HeaderSize
<1>4. /\ t[1] = Magic /\ t[2] = f.chan
      /\ t[5] = HighByte(Len(f.body)) /\ t[6] = LowByte(Len(f.body))
      /\ \A j \in 1 .. Len(f.body) : t[HeaderSize + j] = f.body[j]
  <2>1. \A j \in 1 .. Len(f.body) : 0 + HeaderSize + j = HeaderSize + j
    BY <1>1 DEF HeaderSize
  <2> QED
    BY <2>1 DEF LiesAt
<1>5. \A j \in 1 .. Len(f.body) : Len(s) + HeaderSize + j = Len(s) + (HeaderSize + j)
  BY <1>1, <1>2 DEF HeaderSize
<1>6. \A j \in 1 .. Len(f.body) : (s \o t)[Len(s) + HeaderSize + j] = f.body[j]
  BY <1>2, <1>3, <1>4, <1>5
<1> QED
  BY <1>2, <1>3, <1>4, <1>6 DEF LiesAt

-----------------------------------------------------------------------------
(* What parse() finds in m_buf *)

LEMMA Sizes ==
  ASSUME Types
  PROVE  /\ Len(sent) \in Nat /\ Len(stream) \in Nat /\ Len(buf) \in Nat /\ Len(handled) \in Nat
         /\ DOMAIN sent = 1 .. Len(sent) /\ DOMAIN buf = 1 .. Len(buf)
         /\ DOMAIN handled = 1 .. Len(handled)
         /\ \A i \in 1 .. Len(sent) : sent[i] \in Sent
         /\ \A i \in 1 .. Len(stream) : stream[i] \in Byte
         /\ \A i \in 1 .. Len(buf) : buf[i] \in Byte
  BY LenProperties, ElementOfSeq DEF Types

LEMMA StartIsNat ==
  ASSUME Types, NEW k \in 0 .. Len(sent)
  PROVE  Start(sent, k) \in Nat
<1>1. CASE k = 0
  BY <1>1 DEF Start
<1>2. CASE k # 0
  <2>1. k \in 1 .. Len(sent)
    BY <1>2, Sizes
  <2>2. sent[k].end \in Nat
    BY <2>1, Sizes DEF Sent
  <2> QED
    BY <1>2, <2>2 DEF Start
<1> QED
  BY <1>1, <1>2

\* The length that parse() reads.
LEMMA LengthIsNat ==
  ASSUME Types, Len(buf) >= HeaderSize
  PROVE  GetWord(buf, 5) \in Nat
<1>1. Len(buf) \in Nat /\ Len(buf) >= 6
  BY Sizes DEF HeaderSize
<1>2. 5 \in 1 .. Len(buf) /\ 6 \in 1 .. Len(buf)
  BY <1>1
<1>3. buf[5] \in Byte /\ buf[6] \in Byte
  BY <1>2, Sizes
<1>4. GetWord(buf, 5) = 256 * buf[5] + buf[6]
  BY DEF GetWord
<1>5. \A h, l \in Byte : 256 * h + l \in Nat
  BY DEF Byte
<1> QED
  BY <1>3, <1>4, <1>5

\* A complete FLAP in m_buf: what parse() copies out and what it leaves.
Body == RemoveFront(SetLength(buf, DataLength + HeaderSize), HeaderSize)

LEMMA FLAPIsCut ==
  ASSUME Types, ~Incomplete, buf[1] = Magic
  PROVE  /\ DataLength \in Nat /\ DataLength + HeaderSize \in HeaderSize .. Len(buf)
         /\ RemoveFront(buf, DataLength + HeaderSize) \in Seq(Byte)
         /\ Len(RemoveFront(buf, DataLength + HeaderSize)) = Len(buf) - (DataLength + HeaderSize)
         /\ \A i \in 1 .. Len(buf) - (DataLength + HeaderSize) :
              RemoveFront(buf, DataLength + HeaderSize)[i] = buf[DataLength + HeaderSize + i]
         /\ Body \in Seq(Byte) /\ Len(Body) = DataLength
         /\ \A j \in 1 .. DataLength : Body[j] = buf[HeaderSize + j]
         /\ buf[2] \in Byte
<1>1. Len(buf) \in Nat /\ Len(buf) >= 6
  BY Sizes DEF Incomplete, HeaderSize
<1>2. buf[2] \in Byte
  <2>1. 2 \in 1 .. Len(buf)
    BY <1>1
  <2> QED
    BY <2>1, Sizes
<1>3. DataLength \in Nat
  BY <1>1, LengthIsNat DEF DataLength, HeaderSize
<1>4. PICK size : size = DataLength + HeaderSize
  OBVIOUS
<1>5. size \in 6 .. Len(buf) /\ size \in 0 .. Len(buf)
  <2>1. PICK len, d : len = Len(buf) /\ d = DataLength
    OBVIOUS
  <2>2. ~(len < d + 6) /\ size = d + 6 /\ len \in Nat /\ d \in Nat
    BY <1>1, <1>3, <1>4, <2>1 DEF Incomplete, HeaderSize
  <2>3. size \in 6 .. len /\ size \in 0 .. len
    BY <2>2
  <2> QED
    BY <2>1, <2>3
<1>6. buf \in Seq(Byte)
  BY DEF Types
<1>7. /\ RemoveFront(buf, size) \in Seq(Byte)
      /\ Len(RemoveFront(buf, size)) = Len(buf) - size
      /\ \A i \in 1 .. Len(buf) - size : RemoveFront(buf, size)[i] = buf[size + i]
  BY <1>5, <1>6, RemoveFrontLeaves
<1>8. PICK cut : cut = SetLength(buf, size)
  OBVIOUS
<1>9. /\ cut \in Seq(Byte) /\ Len(cut) = size
      /\ \A i \in 1 .. size : cut[i] = buf[i]
  BY <1>5, <1>6, <1>8, SetLengthKeeps
<1>10. /\ RemoveFront(cut, 6) \in Seq(Byte)
       /\ Len(RemoveFront(cut, 6)) = size - 6
       /\ \A i \in 1 .. size - 6 : RemoveFront(cut, 6)[i] = cut[6 + i]
  <2>1. 6 \in 0 .. Len(cut)
    BY <1>5, <1>9
  <2>2. /\ RemoveFront(cut, 6) \in Seq(Byte)
        /\ Len(RemoveFront(cut, 6)) = Len(cut) - 6
        /\ \A i \in 1 .. Len(cut) - 6 : RemoveFront(cut, 6)[i] = cut[6 + i]
    BY <1>9, <2>1, RemoveFrontLeaves
  <2> QED
    BY <1>9, <2>2
<1>11. Body = RemoveFront(cut, 6)
  BY <1>4, <1>8 DEF Body, HeaderSize
<1>12. size - 6 = DataLength /\ \A i \in 1 .. DataLength : 6 + i \in 1 .. size
  BY <1>3, <1>4, <1>5 DEF HeaderSize
<1>13. \A j \in 1 .. DataLength : Body[j] = buf[6 + j]
  BY <1>9, <1>10, <1>11, <1>12
<1>14. Body \in Seq(Byte) /\ Len(Body) = DataLength
  BY <1>10, <1>11, <1>12
<1>15. HeaderSize = 6
  BY DEF HeaderSize
<1> QED
  BY <1>2, <1>3, <1>4, <1>5, <1>7, <1>13, <1>14, <1>15

\* How many FLAPs the parser has behind it, and where among them a dispatched one is.
LEMMA DoneIsNat ==
  ASSUME Types, Window, inStep
  PROVE  /\ Done \in Nat /\ Done <= Len(sent)
         /\ \A i \in 1 .. Len(handled) :
              i > since.handled => since.sent + (i - since.handled) \in 1 .. Done
<1>1. PICK s, h, n : s = since.sent /\ h = since.handled /\ n = Len(handled)
  OBVIOUS
<1>2. s \in Nat /\ h \in Nat /\ n \in Nat /\ h <= n /\ Done <= Len(sent)
  BY <1>1, Sizes DEF Types, Window
<1>3. Done = s + (n - h)
  BY <1>1 DEF Done
<1>4. s + (n - h) \in Nat /\ \A i \in 1 .. n : i > h => s + (i - h) \in 1 .. s + (n - h)
  BY <1>2
<1> QED
  BY <1>1, <1>2, <1>3, <1>4

\* What m_buf holds belongs to a FLAP that was written and not dispatched yet.
LEMMA NextIsSent ==
  ASSUME Types, Layout, Window, inStep, Len(buf) > 0
  PROVE  Done + 1 \in 1 .. Len(sent)
<1>1. /\ Done <= Len(sent) /\ Start(sent, Done) + Len(buf) = arrived
      /\ arrived <= Len(stream) /\ Len(stream) = Start(sent, Len(sent)) /\ arrived \in Nat
  BY DEF Window, Layout, Types
<1>2. Done \in Nat /\ Len(sent) \in Nat /\ Len(buf) \in Nat
  BY DoneIsNat, Sizes
<1>3. Start(sent, Done) \in Nat
  BY <1>1, <1>2, StartIsNat
<1>4. Done # Len(sent)
  <2>1. SUFFICES ASSUME Done = Len(sent) PROVE FALSE
    OBVIOUS
  <2>2. Len(stream) = Start(sent, Done)
    BY <1>1, <2>1
  <2> QED
    BY <1>1, <1>2, <1>3, <2>2
<1> QED
  BY <1>1, <1>2, <1>4

\* m_buf begins with that FLAP: its length is the one parse() reads.
LEMMA NextLies ==
  ASSUME Types, Layout, Window, inStep, Len(buf) >= HeaderSize
  PROVE  LET f == sent[Done + 1].flap
         IN /\ f \in FLAP /\ Len(f.body) \in Nat
            /\ sent[Done + 1].end = Start(sent, Done) + HeaderSize + Len(f.body)
            /\ buf[1] = Magic /\ buf[2] = f.chan /\ DataLength = Len(f.body)
            /\ \A j \in 1 .. Len(f.body) : HeaderSize + j <= Len(buf) =>
                                             buf[HeaderSize + j] = f.body[j]
<1>1. Len(buf) \in Nat /\ Len(buf) >= 6 /\ Done \in Nat
  BY DoneIsNat, Sizes DEF HeaderSize
<1>2. PICK k : k = Done + 1
  OBVIOUS
<1>3. k \in 1 .. Len(sent) /\ k - 1 = Done
  BY <1>1, <1>2, NextIsSent
<1>4. PICK f, p : f = sent[k].flap /\ p = Start(sent, Done)
  OBVIOUS
<1>5. f \in FLAP /\ p \in Nat
  <2>1. sent[k] \in Sent
    BY <1>3, Sizes
  <2>2. Done \in 0 .. Len(sent)
    BY <1>1, <1>3, Sizes
  <2> QED
    BY <1>4, <2>1, <2>2, StartIsNat DEF Sent
<1>6. Len(f.body) \in Nat
  BY <1>5, LenProperties DEF FLAP
<1>7. Len(f.body) \in Word /\ LiesAt(f, stream, p) /\ sent[k].end = p + HeaderSize + Len(f.body)
  <2>1. k \in DOMAIN sent
    BY <1>3, Sizes
  <2> QED
    BY <1>3, <1>4, <2>1 DEF Layout
<1>8. \A i \in 1 .. Len(buf) : buf[i] = stream[p + i]
  BY <1>4, Sizes DEF Window
<1>9. 1 \in 1 .. Len(buf) /\ 2 \in 1 .. Len(buf) /\ 5 \in 1 .. Len(buf) /\ 6 \in 1 .. Len(buf)
  BY <1>1
<1>10. /\ buf[1] = Magic /\ buf[2] = f.chan
       /\ buf[5] = HighByte(Len(f.body)) /\ buf[6] = LowByte(Len(f.body))
  BY <1>7, <1>8, <1>9 DEF LiesAt
<1>11. DataLength = Len(f.body)
  <2>1. DataLength = 256 * buf[5] + buf[6]
    BY DEF DataLength, GetWord
  <2> QED
    BY <1>7, <1>10, <2>1, WordIsRead
<1>12. ASSUME NEW j \in 1 .. Len(f.body), HeaderSize + j <= Len(buf)
       PROVE  buf[HeaderSize + j] = f.body[j]
  <2>1. HeaderSize + j \in 1 .. Len(buf) /\ p + (HeaderSize + j) = p + HeaderSize + j
    BY <1>1, <1>5, <1>6, <1>12 DEF HeaderSize
  <2>2. buf[HeaderSize + j] = stream[p + HeaderSize + j]
    BY <1>8, <2>1
  <2> QED
    BY <1>7, <2>2 DEF LiesAt
<1> QED
  BY <1>2, <1>4, <1>5, <1>6, <1>7, <1>10, <1>11, <1>12

-----------------------------------------------------------------------------
(* The steps *)

LEMMA InitHolds == Init => IInv
<1> SUFFICES ASSUME Init PROVE IInv
  OBVIOUS
<1>1. /\ sent = <<>> /\ stream = <<>> /\ arrived = 0
      /\ buf = <<>> /\ parsing = FALSE /\ handled = <<>>
      /\ losses = 0 /\ leftover = FALSE
      /\ inStep = TRUE /\ since = [sent |-> 0, handled |-> 0]
  BY DEF Init
<1>2. Types
  <2>1. <<>> \in Seq(Sent) /\ <<>> \in Seq(Byte) /\ <<>> \in Seq(FLAP)
    BY EmptySeq
  <2> QED
    BY <1>1, <2>1 DEF Types
<1>3. Len(sent) = 0 /\ Len(stream) = 0 /\ Len(buf) = 0 /\ Len(handled) = 0
  BY <1>1
<1>4. DOMAIN sent = {} /\ DOMAIN buf = {} /\ DOMAIN handled = {}
  BY <1>1
<1>5. Layout
  BY <1>1, <1>3, <1>4 DEF Layout, Start
<1>6. Window
  <2>1. since.sent = 0 /\ since.handled = 0
    BY <1>1
  <2>2. Done = 0
    BY <1>3, <2>1 DEF Done
  <2> QED
    BY <1>1, <1>3, <1>4, <2>1, <2>2 DEF Window, Start
<1>7. KeepsABeginning
  BY <1>3 DEF KeepsABeginning, HeaderSize
<1> QED
  BY <1>2, <1>5, <1>6, <1>7 DEF IInv

\* A FLAP is written behind the others.
LEMMA PeerWritesKeeps ==
  ASSUME IInv, NEW f \in Frames, PeerWrites(f)
  PROVE  IInv'
<1>1. f \in FLAP /\ Len(f.body) \in Word
  BY FramesAssumption
<1>2. Types /\ Layout /\ Window /\ KeepsABeginning
  BY DEF IInv
<1>3. PICK bytes : bytes = Pack(f, NextSeqNumber(Len(sent)))
  OBVIOUS
<1>4. bytes \in Seq(Byte) /\ Len(bytes) = HeaderSize + Len(f.body) /\ LiesAt(f, bytes, 0)
  <2>1. PICK w : w = NextSeqNumber(Len(sent))
    OBVIOUS
  <2>2. HighByte(w) \in Byte /\ LowByte(w) \in Byte
    BY <1>2, <2>1, SeqNumberFits, Sizes
  <2> QED
    BY <1>1, <1>3, <2>1, <2>2, PackWrites
<1>5. PICK e : e = [flap |-> f, end |-> Len(stream) + Len(bytes)]
  OBVIOUS
<1>6. /\ stream' = stream \o bytes /\ sent' = Append(sent, e)
      /\ arrived' = arrived /\ buf' = buf /\ parsing' = parsing /\ handled' = handled
      /\ losses' = losses /\ leftover' = leftover /\ inStep' = inStep /\ since' = since
  BY <1>3, <1>5 DEF PeerWrites, progress
<1>7. /\ sent \in Seq(Sent) /\ stream \in Seq(Byte) /\ Len(stream) \in Nat
      /\ Len(sent) \in Nat /\ Len(handled) \in Nat /\ arrived \in Nat
      /\ DOMAIN sent = 1 .. Len(sent) /\ DOMAIN buf = 1 .. Len(buf)
      /\ DOMAIN handled = 1 .. Len(handled)
      /\ \A i \in 1 .. Len(sent) : sent[i] \in Sent
  BY <1>2, Sizes DEF Types
<1>8. Len(bytes) \in Nat /\ Len(f.body) \in Nat
  BY <1>1, <1>4, LenProperties DEF FLAP
<1>9. e \in Sent /\ e.flap = f /\ e.end = Len(stream) + Len(bytes)
  BY <1>1, <1>5, <1>7, <1>8 DEF Sent
<1>10. /\ stream' \in Seq(Byte) /\ Len(stream') = Len(stream) + Len(bytes)
       /\ \A i \in 1 .. Len(stream) : stream'[i] = stream[i]
  BY SMTT(30), <1>4, <1>6, <1>7, Joined
<1>11. /\ sent' \in Seq(Sent) /\ Len(sent') = Len(sent) + 1 /\ DOMAIN sent' = 1 .. Len(sent) + 1
       /\ \A i \in 1 .. Len(sent) : sent'[i] = sent[i]
       /\ sent'[Len(sent) + 1] = e
  BY <1>6, <1>7, <1>9, Appended
<1>12. Types'
  BY <1>2, <1>6, <1>10, <1>11 DEF Types
<1>13. ASSUME NEW k \in 0 .. Len(sent) PROVE Start(sent', k) = Start(sent, k)
  <2>1. CASE k = 0
    BY <2>1 DEF Start
  <2>2. CASE k # 0
    <3>1. k \in 1 .. Len(sent)
      BY <1>7, <2>2
    <3> QED
      BY <1>11, <2>2, <3>1 DEF Start
  <2> QED
    BY <2>1, <2>2
<1>14. Start(sent', Len(sent) + 1) = Len(stream) + Len(bytes)
  BY <1>7, <1>9, <1>11 DEF Start
<1>15. ASSUME NEW i \in 1 .. Len(sent) + 1
       PROVE  /\ Len(sent'[i].flap.body) \in Word
              /\ sent'[i].end = Start(sent', i - 1) + HeaderSize + Len(sent'[i].flap.body)
              /\ sent'[i].end <= Len(stream')
              /\ LiesAt(sent'[i].flap, stream', Start(sent', i - 1))
  <2>1. CASE i \in 1 .. Len(sent)
    <3>1. PICK g, p : g = sent[i].flap /\ p = Start(sent, i - 1)
      OBVIOUS
    <3>2. g \in FLAP /\ i - 1 \in 0 .. Len(sent) /\ sent[i].end \in Nat
      BY <1>7, <2>1, <3>1 DEF Sent
    <3>3. p \in Nat
      BY <1>2, <3>1, <3>2, StartIsNat
    <3>4. /\ Len(g.body) \in Word /\ sent[i].end = p + HeaderSize + Len(g.body)
          /\ sent[i].end <= Len(stream) /\ LiesAt(g, stream, p)
      BY <1>2, <1>7, <2>1, <3>1 DEF Layout
    <3>5. LiesAt(g, stream \o bytes, p)
      BY <1>4, <1>7, <3>2, <3>3, <3>4, LiesStill
    <3>6. sent'[i] = sent[i] /\ Start(sent', i - 1) = p
      BY <1>11, <1>13, <2>1, <3>1, <3>2
    <3>7. sent[i].end <= Len(stream) + Len(bytes)
      BY <1>7, <1>8, <3>2, <3>4
    <3> QED
      BY <1>6, <1>10, <3>1, <3>4, <3>5, <3>6, <3>7
  <2>2. CASE i = Len(sent) + 1
    <3>1. i - 1 = Len(sent) /\ Len(sent) \in 0 .. Len(sent)
      BY <1>7, <2>2
    <3>2. Start(sent', i - 1) = Len(stream)
      BY <1>2, <1>13, <3>1 DEF Layout
    <3>3. LiesAt(f, stream \o bytes, Len(stream))
      BY <1>1, <1>4, <1>7, LiesBehind
    <3>4. sent'[i] = e
      BY <1>11, <2>2
    <3>5. Len(stream) + Len(bytes) = Len(stream) + HeaderSize + Len(f.body)
      <4>1. PICK x, y, z : x = Len(stream) /\ y = Len(bytes) /\ z = Len(f.body)
        OBVIOUS
      <4>2. x \in Nat /\ z \in Nat /\ y = HeaderSize + z
        BY <1>4, <1>7, <1>8, <4>1
      <4>3. x + y = x + HeaderSize + z
        BY <4>2 DEF HeaderSize
      <4> QED
        BY <4>1, <4>3
    <3>6. Len(stream) + Len(bytes) <= Len(stream')
      BY <1>7, <1>8, <1>10
    <3> QED
      BY <1>1, <1>6, <1>9, <3>2, <3>3, <3>4, <3>5, <3>6
  <2> QED
    BY <1>7, <2>1, <2>2
<1>16. ASSUME NEW i \in 1 .. Len(sent) + 1, NEW j \in 1 .. Len(sent) + 1, i < j
       PROVE  sent'[i].end <= sent'[j].end
  <2>1. i \in 1 .. Len(sent)
    BY <1>7, <1>16
  <2>2. CASE j \in 1 .. Len(sent)
    BY <1>2, <1>7, <1>11, <1>16, <2>1, <2>2 DEF Layout
  <2>3. CASE j = Len(sent) + 1
    BY <1>9, <1>10, <1>11, <1>15, <2>3
  <2> QED
    BY <1>7, <2>2, <2>3
<1>17. Layout'
  <2>1. Len(stream') = Start(sent', Len(sent'))
    BY <1>10, <1>11, <1>14
  <2>2. arrived' <= Len(stream')
    <3>1. arrived <= Len(stream)
      BY <1>2 DEF Layout
    <3> QED
      BY <1>6, <1>7, <1>8, <1>10, <3>1
  <2> QED
    BY <1>11, <1>15, <1>16, <2>1, <2>2 DEF Layout
<1>18. Window'
  <2>0. Done' = Done
    BY <1>6 DEF Done
  <2> SUFFICES ASSUME inStep
               PROVE  /\ since.handled <= Len(handled) /\ Done <= Len(sent) + 1
                      /\ \A i \in DOMAIN handled : i > since.handled =>
                           handled[i] = sent'[since.sent + (i - since.handled)].flap
                      /\ Start(sent', Done) + Len(buf) = arrived
                      /\ \A i \in DOMAIN buf : buf[i] = stream'[Start(sent', Done) + i]
    BY <1>2, <1>6, <1>11, <2>0 DEF Window
  <2>1. /\ since.handled <= Len(handled) /\ Done <= Len(sent)
        /\ \A i \in DOMAIN handled : i > since.handled =>
             handled[i] = sent[since.sent + (i - since.handled)].flap
        /\ Start(sent, Done) + Len(buf) = arrived
        /\ \A i \in DOMAIN buf : buf[i] = stream[Start(sent, Done) + i]
    BY <1>2 DEF Window
  <2>2. /\ Done \in Nat
        /\ \A i \in 1 .. Len(handled) :
             i > since.handled => since.sent + (i - since.handled) \in 1 .. Done
    BY <1>2, DoneIsNat
  <2>3. Start(sent', Done) = Start(sent, Done) /\ Start(sent, Done) \in Nat
    BY <1>2, <1>7, <1>13, <2>1, <2>2, StartIsNat
  <2>4. ASSUME NEW i \in DOMAIN handled, i > since.handled
        PROVE  handled[i] = sent'[since.sent + (i - since.handled)].flap
    <3>1. PICK k : k = since.sent + (i - since.handled)
      OBVIOUS
    <3>2. k \in 1 .. Done
      BY <1>7, <2>2, <2>4, <3>1
    <3>3. k \in 1 .. Len(sent)
      BY <1>7, <2>1, <2>2, <3>2
    <3> QED
      BY <1>11, <2>1, <2>4, <3>1, <3>3
  <2>5. ASSUME NEW i \in DOMAIN buf
        PROVE  buf[i] = stream'[Start(sent', Done) + i]
    <3>1. Start(sent, Done) + i \in 1 .. Len(stream)
      <4>1. arrived <= Len(stream) /\ i \in 1 .. Len(buf) /\ Len(buf) \in Nat
        BY <1>2, <1>7, Sizes DEF Layout
      <4> QED
        BY <1>7, <2>1, <2>3, <4>1
    <3> QED
      BY <1>10, <2>1, <2>3, <3>1
  <2> QED
    BY <1>7, <2>1, <2>2, <2>3, <2>4, <2>5
<1>19. KeepsABeginning'
  BY <1>2, <1>6 DEF KeepsABeginning
<1> QED
  BY <1>12, <1>17, <1>18, <1>19 DEF IInv

\* Nothing is left of the stream; what m_buf still holds is left over.
LEMMA ConnectionLostKeeps ==
  ASSUME IInv, ConnectionLost
  PROVE  IInv'
<1>1. Types /\ Layout /\ Window /\ KeepsABeginning
  BY DEF IInv
<1>2. /\ sent' = <<>> /\ stream' = <<>> /\ arrived' = 0 /\ handled' = <<>>
      /\ buf' = buf /\ parsing' = parsing /\ losses' = losses + 1
      /\ leftover' = (leftover \/ buf # <<>>)
      /\ inStep' = (buf = <<>>) /\ since' = [sent |-> 0, handled |-> 0]
  BY DEF ConnectionLost
<1>3. Len(sent') = 0 /\ Len(stream') = 0 /\ Len(handled') = 0
      /\ DOMAIN sent' = {} /\ DOMAIN handled' = {}
  BY <1>2
<1>4. Types'
  BY <1>1, <1>2 DEF Types
<1>5. Layout'
  BY <1>2, <1>3 DEF Layout, Start
<1>6. Window'
  <2>0. ~leftover' => inStep'
    <3>1. ASSUME ~leftover' PROVE buf = <<>>
      BY <1>2, <3>1
    <3> QED
      BY <1>2, <3>1
  <2>1. since'.sent = 0 /\ since'.handled = 0
    <3>1. since' = [sent |-> 0, handled |-> 0]
      BY <1>2
    <3> QED
      BY <3>1
  <2>2. Done' = 0
    BY <1>3, <2>1 DEF Done
  <2>3. inStep' => Len(buf) = 0 /\ DOMAIN buf = {}
    <3>1. ASSUME inStep' PROVE buf = <<>>
      BY Zenon, <1>2, <3>1
    <3>2. buf = <<>> => Len(buf) = 0 /\ DOMAIN buf = {}
      OBVIOUS
    <3> QED
      BY <3>1, <3>2
  <2> QED
    BY <1>2, <1>3, <2>0, <2>1, <2>2, <2>3 DEF Window, Start
<1>7. KeepsABeginning'
  BY <1>1, <1>2 DEF KeepsABeginning
<1> QED
  BY <1>4, <1>5, <1>6, <1>7 DEF IInv

\* The bytes that arrived are appended to m_buf.
LEMMA ReadKeeps ==
  ASSUME IInv, NEW n \in arrived + 1 .. Len(stream), Read(n)
  PROVE  IInv'
<1>1. Types /\ Layout /\ Window
  BY DEF IInv
<1>2. PICK piece : piece = [i \in 1 .. n - arrived |-> ToByte(ToChar(stream[arrived + i]))]
  OBVIOUS
<1>3. /\ buf' = buf \o piece /\ arrived' = n /\ parsing' = TRUE
      /\ sent' = sent /\ stream' = stream /\ handled' = handled
      /\ losses' = losses /\ leftover' = leftover /\ inStep' = inStep /\ since' = since
  BY <1>2 DEF Read, progress
<1>4. /\ arrived \in Nat /\ Len(stream) \in Nat /\ Len(buf) \in Nat /\ buf \in Seq(Byte)
      /\ n \in Nat /\ n <= Len(stream) /\ n > arrived /\ n - arrived \in Nat
      /\ \A i \in 1 .. Len(stream) : stream[i] \in Byte
      /\ Len(handled) \in Nat /\ Len(sent) \in Nat
      /\ DOMAIN buf = 1 .. Len(buf) /\ DOMAIN handled = 1 .. Len(handled)
  <2>1. /\ arrived \in Nat /\ Len(stream) \in Nat /\ Len(buf) \in Nat /\ buf \in Seq(Byte)
        /\ \A i \in 1 .. Len(stream) : stream[i] \in Byte
        /\ Len(handled) \in Nat /\ Len(sent) \in Nat
        /\ DOMAIN buf = 1 .. Len(buf) /\ DOMAIN handled = 1 .. Len(handled)
    BY <1>1, Sizes DEF Types
  <2>2. n \in Nat /\ n <= Len(stream) /\ n > arrived /\ n - arrived \in Nat
    BY <2>1
  <2> QED
    BY <2>1, <2>2
<1>5. ASSUME NEW i \in 1 .. n - arrived
      PROVE  piece[i] = stream[arrived + i] /\ piece[i] \in Byte
  <2>1. arrived + i \in 1 .. Len(stream)
    BY <1>4
  <2>2. stream[arrived + i] \in Byte
    BY <1>4, <2>1
  <2>3. piece[i] = ToByte(ToChar(stream[arrived + i]))
    BY <1>2
  <2> QED
    BY <2>2, <2>3, CharIsRead
<1>6. piece \in Seq(Byte) /\ Len(piece) = n - arrived
  <2>1. piece \in [1 .. n - arrived -> Byte]
    BY <1>2, <1>5
  <2>2. piece \in Seq(Byte)
    BY <1>4, <2>1, SeqDef
  <2> QED
    BY <1>4, <2>1, <2>2, LenProperties
<1>7. /\ buf' \in Seq(Byte) /\ Len(buf') = Len(buf) + (n - arrived)
      /\ DOMAIN buf' = 1 .. Len(buf) + (n - arrived)
      /\ \A i \in 1 .. Len(buf) : buf'[i] = buf[i]
      /\ \A i \in 1 .. n - arrived : buf'[Len(buf) + i] = piece[i]
  <2>1. /\ buf \o piece \in Seq(Byte) /\ Len(buf \o piece) = Len(buf) + Len(piece)
        /\ DOMAIN (buf \o piece) = 1 .. Len(buf) + Len(piece)
        /\ \A i \in 1 .. Len(buf) : (buf \o piece)[i] = buf[i]
        /\ \A i \in 1 .. Len(piece) : (buf \o piece)[Len(buf) + i] = piece[i]
    <3>1. buf \in Seq(Byte) /\ piece \in Seq(Byte)
      BY <1>4, <1>6
    <3> QED
      BY <3>1, Joined
  <2> QED
    BY <1>3, <1>6, <2>1
<1>8. Types'
  BY <1>1, <1>3, <1>4, <1>7 DEF Types
<1>9. Layout'
  BY <1>1, <1>3, <1>4 DEF Layout
<1>10. Window'
  <2>0. Done' = Done
    BY <1>3 DEF Done
  <2> SUFFICES ASSUME inStep
               PROVE  /\ Start(sent, Done) + Len(buf') = n
                      /\ \A i \in DOMAIN buf' : buf'[i] = stream[Start(sent, Done) + i]
    BY <1>1, <1>3, <2>0 DEF Window
  <2>1. PICK p : p = Start(sent, Done)
    OBVIOUS
  <2>2. /\ p + Len(buf) = arrived
        /\ \A i \in DOMAIN buf : buf[i] = stream[p + i]
    BY <1>1, <2>1 DEF Window
  <2>3. p \in Nat
    <3>1. Done \in 0 .. Len(sent)
      BY <1>1, <1>4, DoneIsNat
    <3> QED
      BY <1>1, <2>1, <3>1, StartIsNat
  <2>4. p + (Len(buf) + (n - arrived)) = n
    <3>1. PICK x, a : x = Len(buf) /\ a = arrived
      OBVIOUS
    <3>2. x \in Nat /\ a \in Nat /\ n \in Nat /\ p + x = a
      BY <1>4, <2>2, <3>1
    <3>3. p + (x + (n - a)) = n
      BY <2>3, <3>2
    <3> QED
      BY <3>1, <3>3
  <2>5. ASSUME NEW i \in 1 .. Len(buf) + (n - arrived) PROVE buf'[i] = stream[p + i]
    <3>1. CASE i <= Len(buf)
      <4>1. i \in 1 .. Len(buf)
        BY <1>4, <3>1
      <4> QED
        BY <1>4, <1>7, <2>2, <4>1
    <3>2. CASE ~(i <= Len(buf))
      <4>1. PICK j : j = i - Len(buf)
        OBVIOUS
      <4>2. j \in 1 .. n - arrived /\ i = Len(buf) + j /\ p + i = arrived + j
        <5>1. PICK x, a : x = Len(buf) /\ a = arrived
          OBVIOUS
        <5>2. /\ x \in Nat /\ a \in Nat /\ n \in Nat /\ n > a /\ p \in Nat /\ p + x = a
              /\ i \in 1 .. x + (n - a) /\ ~(i <= x) /\ j = i - x
          BY <1>4, <2>2, <2>3, <3>2, <4>1, <5>1
        <5>3. j \in 1 .. n - a /\ i = x + j /\ p + i = a + j
          BY <5>2
        <5> QED
          BY <5>1, <5>3
      <4> QED
        BY <1>5, <1>7, <4>2
    <3> QED
      BY <3>1, <3>2
  <2> QED
    BY <1>7, <2>1, <2>2, <2>4, <2>5
<1>11. KeepsABeginning'
  BY <1>3 DEF KeepsABeginning
<1> QED
  BY <1>8, <1>9, <1>10, <1>11 DEF IInv

\* parse() returns: it is in step afterwards if it was before, or if nothing is left
\* where a FLAP ends.
LEMMA ReturnsKeeps ==
  ASSUME Types, Layout, Window, NEW rest \in Seq(Byte), Returns(rest), buf' = rest,
         inStep => rest = buf,
         UNCHANGED <<sent, stream, arrived, handled, leftover>>
  PROVE  Window' /\ inStep' \in BOOLEAN /\ since' \in [sent : Nat, handled : Nat]
<1>1. /\ sent' = sent /\ stream' = stream /\ arrived' = arrived /\ handled' = handled
      /\ leftover' = leftover
  OBVIOUS
<1>2. CASE inStep' = inStep /\ since' = since
  <2>1. Done' = Done
    BY <1>1, <1>2 DEF Done
  <2> QED
    BY <1>1, <1>2, <2>1 DEF Types, Window
<1>3. CASE ~(inStep' = inStep /\ since' = since)
  <2>1. /\ ~inStep /\ rest = <<>> /\ inStep'
        /\ \E k \in DOMAIN sent : sent[k].end = arrived
                                 /\ since' = [sent |-> k, handled |-> Len(handled)]
    BY <1>3 DEF Returns, progress
  <2>2. PICK k \in DOMAIN sent : sent[k].end = arrived
                                /\ since' = [sent |-> k, handled |-> Len(handled)]
    BY <2>1
  <2>3. /\ k \in 1 .. Len(sent) /\ k \in Nat /\ k # 0 /\ k <= Len(sent) /\ Len(handled) \in Nat
        /\ DOMAIN handled = 1 .. Len(handled) /\ arrived \in Nat
    BY Sizes DEF Types
  <2>4. since' \in [sent : Nat, handled : Nat] /\ since'.sent = k /\ since'.handled = Len(handled)
    BY <2>2, <2>3
  <2>5. Done' = k
    BY <1>1, <2>3, <2>4 DEF Done
  <2>6. leftover
    BY <2>1 DEF Window
  <2>7. Start(sent, k) = arrived
    BY <2>2, <2>3 DEF Start
  <2>8. Len(rest) = 0 /\ DOMAIN rest = {}
    BY <2>1
  <2>9. \A i \in DOMAIN handled' : ~(i > since'.handled)
    BY <1>1, <2>3, <2>4
  <2> QED
    BY <1>1, <2>1, <2>3, <2>4, <2>5, <2>6, <2>7, <2>8, <2>9 DEF Window
<1> QED
  BY <1>2, <1>3

\* parse() returns: what it leaves is the beginning of a FLAP.
LEMMA ParseWaitsKeeps ==
  ASSUME IInv, ParseWaits
  PROVE  IInv'
<1>1. Types /\ Layout /\ Window
  BY DEF IInv
<1>2. /\ sent' = sent /\ stream' = stream /\ arrived' = arrived /\ buf' = buf
      /\ handled' = handled /\ losses' = losses /\ leftover' = leftover /\ parsing' = FALSE
      /\ Returns(buf)
  BY DEF ParseWaits, Returns
<1>3. Window' /\ inStep' \in BOOLEAN /\ since' \in [sent : Nat, handled : Nat]
  <2>1. buf \in Seq(Byte)
    BY <1>1 DEF Types
  <2> QED
    BY <1>1, <1>2, <2>1, ReturnsKeeps
<1>4. Types' /\ Layout'
  BY <1>1, <1>2, <1>3 DEF Types, Layout
<1>5. KeepsABeginning'
  <2>1. Len(buf) >= HeaderSize => buf[1] = Magic /\ Len(buf) < GetWord(buf, 5) + HeaderSize
    BY DEF ParseWaits, Incomplete, DataLength
  <2>2. Len(buf) >= HeaderSize => Len(buf) < HeaderSize + GetWord(buf, 5)
    <3> SUFFICES ASSUME Len(buf) >= HeaderSize PROVE Len(buf) < HeaderSize + GetWord(buf, 5)
      OBVIOUS
    <3>1. PICK x, w : x = Len(buf) /\ w = GetWord(buf, 5)
      OBVIOUS
    <3>2. x \in Nat /\ w \in Nat /\ x < w + 6
      BY <1>1, <2>1, <3>1, LengthIsNat, Sizes DEF HeaderSize
    <3>3. x < 6 + w
      BY <3>2
    <3> QED
      BY <3>1, <3>3 DEF HeaderSize
  <2> QED
    BY <1>2, <2>1, <2>2 DEF KeepsABeginning
<1> QED
  BY <1>3, <1>4, <1>5 DEF IInv

\* Nothing is discarded while the parser is in step.
LEMMA ParseDiscardsKeeps ==
  ASSUME IInv, ParseDiscards
  PROVE  IInv'
<1>1. Types /\ Layout /\ Window
  BY DEF IInv
<1>2. /\ sent' = sent /\ stream' = stream /\ arrived' = arrived /\ buf' = <<>>
      /\ handled' = handled /\ losses' = losses /\ leftover' = leftover /\ parsing' = FALSE
      /\ buf[1] # Magic /\ Len(buf) >= HeaderSize /\ Returns(<<>>)
  BY DEF ParseDiscards, Incomplete, Returns
<1>3. ~inStep
  BY <1>1, <1>2, NextLies
<1>4. Window' /\ inStep' \in BOOLEAN /\ since' \in [sent : Nat, handled : Nat]
  <2>1. <<>> \in Seq(Byte)
    BY EmptySeq
  <2> QED
    BY <1>1, <1>2, <1>3, <2>1, ReturnsKeeps
<1>5. Layout'
  BY <1>1, <1>2 DEF Layout
<1>6. Types'
  <2>1. buf' \in Seq(Byte)
    BY <1>2, EmptySeq
  <2> QED
    BY <1>1, <1>2, <1>4, <2>1 DEF Types
<1>7. KeepsABeginning'
  <2>1. Len(buf') = 0
    BY <1>2
  <2> QED
    BY <2>1 DEF KeepsABeginning, HeaderSize
<1> QED
  BY <1>4, <1>5, <1>6, <1>7 DEF IInv

\* The FLAP dispatched is the next one written, and m_buf begins with the one after it.
LEMMA ParseFLAPKeeps ==
  ASSUME IInv, ParseFLAP
  PROVE  IInv'
<1>1. Types /\ Layout /\ Window
  BY DEF IInv
<1>2. PICK size, done : /\ size = DataLength + HeaderSize
                        /\ done = [chan |-> buf[2], body |-> Body]
  OBVIOUS
<1>3. /\ sent' = sent /\ stream' = stream /\ arrived' = arrived /\ parsing' = parsing
      /\ losses' = losses /\ leftover' = leftover /\ parsing
      /\ inStep' = inStep /\ since' = since
      /\ handled' = Append(handled, done) /\ buf' = RemoveFront(buf, size)
      /\ ~Incomplete /\ buf[1] = Magic
  BY <1>2 DEF ParseFLAP, Body, progress
<1>4. /\ DataLength \in Nat /\ size \in HeaderSize .. Len(buf) /\ buf' \in Seq(Byte)
      /\ Len(buf') = Len(buf) - size
      /\ \A i \in 1 .. Len(buf) - size : buf'[i] = buf[size + i]
      /\ Body \in Seq(Byte) /\ Len(Body) = DataLength
      /\ \A j \in 1 .. DataLength : Body[j] = buf[HeaderSize + j]
      /\ buf[2] \in Byte
  BY <1>1, <1>2, <1>3, FLAPIsCut
<1>5. done \in FLAP
  BY <1>2, <1>4 DEF FLAP
<1>6. handled \in Seq(FLAP) /\ Len(handled) \in Nat /\ Len(buf) \in Nat /\ DOMAIN buf = 1 .. Len(buf)
      /\ DOMAIN handled = 1 .. Len(handled) /\ arrived \in Nat /\ Len(sent) \in Nat
  BY <1>1, Sizes DEF Types
<1>7. /\ handled' \in Seq(FLAP) /\ Len(handled') = Len(handled) + 1
      /\ DOMAIN handled' = 1 .. Len(handled) + 1
      /\ \A i \in 1 .. Len(handled) : handled'[i] = handled[i]
      /\ handled'[Len(handled) + 1] = done
  BY <1>3, <1>5, <1>6, Appended
<1>8. Types'
  BY <1>1, <1>3, <1>4, <1>7 DEF Types
<1>9. Layout'
  BY <1>1, <1>3 DEF Layout
<1>10. Window'
  <2>0. inStep => Done' = Done + 1
    <3>1. PICK a, h, n : a = since.sent /\ h = since.handled /\ n = Len(handled)
      OBVIOUS
    <3>2. a \in Nat /\ h \in Nat /\ n \in Nat
      BY <1>1, <1>6, <3>1 DEF Types
    <3>3. Done = a + (n - h) /\ Done' = a + ((n + 1) - h)
      BY <1>3, <1>7, <3>1 DEF Done
    <3> QED
      BY <3>2, <3>3
  <2> SUFFICES ASSUME inStep
               PROVE  /\ since.handled <= Len(handled) + 1 /\ Done + 1 <= Len(sent)
                      /\ \A i \in 1 .. Len(handled) + 1 : i > since.handled =>
                           handled'[i] = sent[since.sent + (i - since.handled)].flap
                      /\ Start(sent, Done + 1) + Len(buf') = arrived
                      /\ \A i \in DOMAIN buf' : buf'[i] = stream[Start(sent, Done + 1) + i]
    BY <1>1, <1>3, <1>7, <2>0 DEF Window
  <2>1. PICK k, f, p : /\ k = Done + 1 /\ f = sent[Done + 1].flap
                       /\ p = Start(sent, Done)
    OBVIOUS
  <2>2. Len(buf) >= HeaderSize /\ Len(buf) > 0
    BY <1>4, <1>6 DEF HeaderSize
  <2>3. k \in 1 .. Len(sent)
    BY <1>1, <2>1, <2>2, NextIsSent
  <2>4. /\ f \in FLAP /\ Len(f.body) \in Nat /\ sent[k].end = p + HeaderSize + Len(f.body)
        /\ buf[2] = f.chan /\ DataLength = Len(f.body)
        /\ \A j \in 1 .. Len(f.body) : HeaderSize + j <= Len(buf) =>
                                         buf[HeaderSize + j] = f.body[j]
    BY <1>1, <2>1, <2>2, NextLies
  <2>5. /\ since.handled <= Len(handled) /\ Done <= Len(sent) /\ p + Len(buf) = arrived
        /\ \A i \in DOMAIN handled : i > since.handled =>
             handled[i] = sent[since.sent + (i - since.handled)].flap
        /\ \A i \in 1 .. Len(buf) : buf[i] = stream[p + i]
        /\ Done \in Nat /\ since.sent \in Nat /\ since.handled \in Nat
    BY <1>1, <1>6, <2>1, DoneIsNat DEF Window, Types
  <2>6. p \in Nat
    BY <1>1, <1>6, <2>1, <2>5, StartIsNat
  <2>7. Body = f.body
    <3>1. PICK b : b = f.body
      OBVIOUS
    <3>2. b \in Seq(Byte) /\ Len(b) = Len(Body)
      BY <1>4, <2>4, <3>1 DEF FLAP
    <3>3. ASSUME NEW j \in 1 .. Len(Body) PROVE Body[j] = b[j]
      <4>1. j \in 1 .. DataLength /\ j \in 1 .. Len(f.body)
        BY <1>4, <2>4
      <4>2. HeaderSize + j <= Len(buf)
        <5>1. PICK x, d : x = Len(buf) /\ d = DataLength
          OBVIOUS
        <5>2. x \in Nat /\ d \in Nat /\ d + 6 <= x /\ j \in 1 .. d
          BY <1>2, <1>4, <1>6, <4>1, <5>1 DEF HeaderSize
        <5>3. 6 + j <= x
          BY <5>2
        <5> QED
          BY <5>1, <5>3 DEF HeaderSize
      <4> QED
        BY <1>4, <2>4, <3>1, <4>1, <4>2
    <3>4. Body = b
      <4>1. PICK c : c = Body
        OBVIOUS
      <4>2. c \in Seq(Byte) /\ Len(c) = Len(b) /\ \A j \in 1 .. Len(c) : c[j] = b[j]
        BY <1>4, <3>2, <3>3, <4>1
      <4>3. c = b
        BY <3>2, <4>2, SeqEqual
      <4> QED
        BY <4>1, <4>3
    <3> QED
      BY <3>1, <3>4
  <2>8. done = f
    <3>1. f = [chan |-> f.chan, body |-> f.body]
      BY <2>4 DEF FLAP
    <3> QED
      BY <1>2, <2>4, <2>7, <3>1
  <2>9. Start(sent, k) = p + size
    <3>1. k # 0
      BY <2>3, <1>6
    <3>2. Start(sent, k) = p + HeaderSize + Len(f.body)
      BY <2>4, <3>1 DEF Start
    <3>3. PICK d : d = DataLength
      OBVIOUS
    <3>4. d \in Nat /\ size = d + 6 /\ Start(sent, k) = p + 6 + d
      BY <1>2, <1>4, <2>4, <3>2, <3>3 DEF HeaderSize
    <3> QED
      BY <2>6, <3>4
  <2>10. size \in Nat /\ size <= Len(buf)
    BY <1>4, <1>6 DEF HeaderSize
  <2>11. p + size + Len(buf') = arrived
    <3>1. PICK x, y : x = Len(buf) /\ y = Len(buf')
      OBVIOUS
    <3>2. x \in Nat /\ size \in Nat /\ y = x - size /\ p + x = arrived
      BY <1>4, <1>6, <2>5, <2>10, <3>1
    <3>3. p + size + y = arrived
      BY <2>6, <3>2
    <3> QED
      BY <3>1, <3>3
  <2>12. ASSUME NEW i \in 1 .. Len(handled) + 1, i > since.handled
         PROVE  handled'[i] = sent[since.sent + (i - since.handled)].flap
    <3>1. CASE i \in 1 .. Len(handled)
      BY <1>6, <1>7, <2>5, <2>12, <3>1
    <3>2. CASE i = Len(handled) + 1
      <4>1. since.sent + (i - since.handled) = k
        <5>1. PICK a, h, n : a = since.sent /\ h = since.handled /\ n = Len(handled)
          OBVIOUS
        <5>2. /\ a \in Nat /\ h \in Nat /\ n \in Nat /\ k = a + (n - h) + 1 /\ i = n + 1
          BY <1>6, <2>1, <2>5, <3>2, <5>1 DEF Done
        <5>3. a + (i - h) = k
          BY <5>2
        <5> QED
          BY <5>1, <5>3
      <4> QED
        BY <1>7, <2>1, <2>8, <3>2, <4>1
    <3> QED
      BY <1>6, <3>1, <3>2
  <2>13. ASSUME NEW i \in DOMAIN buf' PROVE buf'[i] = stream[p + size + i]
    <3>1. i \in 1 .. Len(buf) - size
      BY <1>4, LenProperties
    <3>2. size + i \in 1 .. Len(buf) /\ p + (size + i) = p + size + i
      BY <1>6, <2>6, <2>10, <3>1
    <3> QED
      BY <1>4, <2>5, <3>1, <3>2
  <2>14. since.handled <= Len(handled) + 1 /\ Done + 1 <= Len(sent)
    BY <1>6, <2>1, <2>3, <2>5
  <2> QED
    BY <2>1, <2>9, <2>11, <2>12, <2>13, <2>14
<1>11. KeepsABeginning'
  BY <1>3 DEF KeepsABeginning
<1> QED
  BY <1>8, <1>9, <1>10, <1>11 DEF IInv

LEMMA StepKeeps == IInv /\ [Next]_vars => IInv'
<1> SUFFICES ASSUME IInv, [Next]_vars PROVE IInv'
  OBVIOUS
<1>1. CASE \E f \in Frames : PeerWrites(f)
  BY <1>1, PeerWritesKeeps
<1>2. CASE \E n \in arrived + 1 .. Len(stream) : Read(n)
  BY <1>2, ReadKeeps
<1>3. CASE Parse
  BY <1>3, ParseWaitsKeeps, ParseDiscardsKeeps, ParseFLAPKeeps DEF Parse
<1>4. CASE ConnectionLost
  BY <1>4, ConnectionLostKeeps
<1>5. CASE UNCHANGED vars
  <2>1. Done' = Done
    BY <1>5 DEF vars, progress, Done
  <2> QED
    BY <1>5, <2>1 DEF vars, progress, IInv, Types, Layout, Window, KeepsABeginning
<1> QED
  BY <1>1, <1>2, <1>3, <1>4, <1>5 DEF Next

LEMMA Inductive == Spec => []IInv
  BY InitHolds, StepKeeps, PTL DEF Spec

-----------------------------------------------------------------------------
(* The theorems *)

\* In step, nothing is lost and nothing waits: what is left in m_buf is shorter than
\* the next FLAP written.
LEMMA InStepHolds == IInv => BackInStep
<1> SUFFICES ASSUME IInv, inStep PROVE
       /\ Done <= Len(sent)
       /\ \A i \in DOMAIN handled :
            i > since.handled => handled[i] = sent[since.sent + (i - since.handled)].flap
       /\ ~parsing => \A i \in DOMAIN sent : sent[i].end <= arrived => i <= Done
  BY DEF BackInStep
<1>1. ASSUME ~parsing, NEW i \in DOMAIN sent, sent[i].end <= arrived, ~(i <= Done)
      PROVE  FALSE
  <2>1. Types /\ Layout /\ Window /\ KeepsABeginning
    BY DEF IInv
  <2>2. PICK k, p, e, f : /\ k = Done + 1 /\ p = Start(sent, Done)
                          /\ e = sent[k].end /\ f = sent[k].flap
    OBVIOUS
  <2>3. /\ Done \in Nat /\ Len(sent) \in Nat /\ Len(buf) \in Nat /\ arrived \in Nat
        /\ DOMAIN sent = 1 .. Len(sent) /\ \A j \in 1 .. Len(sent) : sent[j] \in Sent
    BY <2>1, Sizes, DoneIsNat DEF Types
  <2>4. k \in 1 .. Len(sent) /\ i \in 1 .. Len(sent) /\ k <= i /\ k - 1 = Done /\ i \in Nat
    BY <1>1, <2>2, <2>3
  <2>5. sent[k] \in Sent /\ sent[i] \in Sent
    BY <2>3, <2>4
  <2>6. e \in Nat /\ f \in FLAP /\ sent[i].end \in Nat
    BY <2>2, <2>5 DEF Sent
  <2>7. e <= sent[i].end
    <3>1. CASE k = i
      BY <2>2, <2>6, <3>1
    <3>2. CASE k < i
      BY <2>1, <2>2, <2>3, <2>4, <3>2 DEF Layout
    <3> QED
      BY <2>4, <3>1, <3>2
  <2>8. e <= arrived
    BY <1>1, <2>3, <2>6, <2>7
  <2>9. Len(f.body) \in Nat
    BY <2>6, LenProperties DEF FLAP
  <2>10. e = p + HeaderSize + Len(f.body)
    <3>1. sent[k].end = Start(sent, k - 1) + HeaderSize + Len(sent[k].flap.body)
      BY <2>1, <2>3, <2>4 DEF Layout
    <3> QED
      BY <2>2, <2>4, <3>1
  <2>11. p \in Nat /\ p + Len(buf) = arrived
    <3>1. Done \in 0 .. Len(sent) /\ p + Len(buf) = arrived
      BY <2>1, <2>2, <2>3 DEF Window
    <3> QED
      BY <2>1, <2>2, <3>1, StartIsNat
  <2>12. Len(buf) >= HeaderSize + Len(f.body) /\ Len(buf) >= HeaderSize
    <3>1. PICK x, d, a : x = Len(buf) /\ d = Len(f.body) /\ a = arrived
      OBVIOUS
    <3>2. /\ x \in Nat /\ d \in Nat /\ a \in Nat /\ p \in Nat /\ p + x = a
          /\ e = p + 6 + d /\ e <= a
      BY <2>3, <2>8, <2>9, <2>10, <2>11, <3>1 DEF HeaderSize
    <3>3. x >= 6 + d /\ x >= 6
      BY <3>2
    <3> QED
      BY <3>1, <3>3 DEF HeaderSize
  <2>13. GetWord(buf, 5) = Len(f.body)
    BY <2>1, <2>2, <2>12, NextLies DEF DataLength
  <2>14. Len(buf) < HeaderSize + GetWord(buf, 5)
    BY <1>1, <2>1, <2>12 DEF KeepsABeginning
  <2> QED
    BY <2>3, <2>9, <2>12, <2>13, <2>14 DEF HeaderSize
<1> QED
  BY <1>1 DEF IInv, Window

\* As long as no connection was lost in the middle of a FLAP the parser is in step
\* from the beginning of the session.
LEMMA FromTheBeginning ==
  ASSUME IInv, ~leftover
  PROVE  /\ inStep /\ Done = Len(handled)
         /\ \A i \in DOMAIN handled :
              i > since.handled /\ since.sent + (i - since.handled) = i
<1>1. /\ Types /\ inStep /\ since.sent = 0 /\ since.handled = 0
  BY DEF IInv, Window
<1>2. Len(handled) \in Nat /\ DOMAIN handled = 1 .. Len(handled)
  BY <1>1, Sizes
<1>3. \A i \in 1 .. Len(handled) : i > 0 /\ 0 + (i - 0) = i
  BY <1>2
<1> QED
  BY <1>1, <1>2, <1>3 DEF Done

\* However the stream of a connection is cut into pieces, parse() dispatches
\* the FLAPs the peer wrote, unaltered and in order, unless an earlier
\* connection was lost in the middle of one.
THEOREM InOrder == Spec => []FLAPsAreInOrder
<1>1. IInv => FLAPsAreInOrder
  BY InStepHolds, FromTheBeginning DEF BackInStep, FLAPsAreInOrder
<1> QED
  BY <1>1, Inductive, PTL

\* When parse() has returned, every FLAP that arrived completely has been
\* dispatched: what is left in m_buf is shorter than the next FLAP written.
THEOREM NothingComplete == Spec => []NoFLAPWaits
<1>1. IInv => NoFLAPWaits
  BY InStepHolds, FromTheBeginning DEF BackInStep, NoFLAPWaits
<1> QED
  BY <1>1, Inductive, PTL

\* Whatever a lost connection left in m_buf, a parser that comes upon the end of a
\* FLAP with nothing left is in step for the rest of the session: every FLAP that
\* follows is dispatched, unaltered, once and in order, and none of them waits.
THEOREM BackInStepAgain == Spec => []BackInStep
  BY InStepHolds, Inductive, PTL
=============================================================================
