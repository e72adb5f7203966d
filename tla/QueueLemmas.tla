---------------------------- MODULE QueueLemmas ----------------------------
(***************************************************************************)
(* What the proofs keep needing to know of the queues and tables of the    *)
(* models, which are sequences: where the elements are after one is        *)
(* appended, taken or changed, and how many have a property.               *)
(***************************************************************************)
EXTENDS Integers, SequenceTheorems, FiniteSetTheorems, TLAPS

\* An element appended to a queue is its last one, and the others stay where they are.
LEMMA Appended ==
  ASSUME NEW S, NEW q \in Seq(S), NEW e \in S
  PROVE  /\ Append(q, e) \in Seq(S) /\ Len(q) \in Nat /\ DOMAIN q = 1 .. Len(q)
         /\ Len(Append(q, e)) = Len(q) + 1
         /\ DOMAIN Append(q, e) = 1 .. Len(q) + 1
         /\ \A i \in 1 .. Len(q) : Append(q, e)[i] = q[i]
         /\ Append(q, e)[Len(q) + 1] = e
  BY AppendProperties, LenProperties

\* Taking the first element of a queue moves the others one place to the front.
LEMMA Taken ==
  ASSUME NEW S, NEW q \in Seq(S), q # <<>>
  PROVE  /\ Tail(q) \in Seq(S) /\ Len(q) \in Nat /\ DOMAIN q = 1 .. Len(q) /\ Len(q) >= 1
         /\ Head(q) \in S /\ Head(q) = q[1]
         /\ Len(Tail(q)) = Len(q) - 1
         /\ DOMAIN Tail(q) = 1 .. Len(q) - 1
         /\ \A i \in 1 .. Len(q) - 1 : Tail(q)[i] = q[i + 1]
<1>1. Len(q) \in Nat /\ DOMAIN q = 1 .. Len(q) /\ Len(q) # 0
  BY LenProperties, EmptySeq
<1>2. Tail(q) \in Seq(S) /\ Len(Tail(q)) = Len(q) - 1 /\ Head(q) \in S
  BY HeadTailProperties
<1>3. \A i \in 1 .. Len(q) - 1 : Tail(q)[i] = q[i + 1]
  BY <1>1
<1>4. Head(q) = q[1]
  OBVIOUS
<1>5. DOMAIN Tail(q) = 1 .. Len(q) - 1
  BY <1>2, LenProperties
<1> QED
  BY <1>1, <1>2, <1>3, <1>4, <1>5

\* Changing one element of a table leaves the others and its length.
LEMMA Updated ==
  ASSUME NEW S, NEW q \in Seq(S), NEW n \in DOMAIN q, NEW e \in S
  PROVE  /\ [q EXCEPT ![n] = e] \in Seq(S)
         /\ Len([q EXCEPT ![n] = e]) = Len(q)
         /\ DOMAIN [q EXCEPT ![n] = e] = DOMAIN q
         /\ [q EXCEPT ![n] = e][n] = e
         /\ \A m \in DOMAIN q : m # n => [q EXCEPT ![n] = e][m] = q[m]
<1>1. DOMAIN q = 1 .. Len(q)
  BY LenProperties
<1> QED
  BY <1>1, ExceptSeq

\* A queue of elements of a set is one of elements of a larger set.
LEMMA SeqOfMore ==
  ASSUME NEW S, NEW T, S \subseteq T, NEW q \in Seq(S)
  PROVE  q \in Seq(T)
<1>1. Len(q) \in Nat /\ \A i \in 1 .. Len(q) : q[i] \in S
  BY LenProperties, ElementOfSeq
<1>2. \A i \in 1 .. Len(q) : q[i] \in T
  BY <1>1
<1>3. q \in [1 .. Len(q) -> T]
  BY <1>2, LenProperties
<1> QED
  BY <1>1, <1>3, SeqDef

\* The elements of two queues, one after the other.
LEMMA Joined ==
  ASSUME NEW S, NEW p \in Seq(S), NEW q \in Seq(S)
  PROVE  /\ p \o q \in Seq(S) /\ Len(p) \in Nat /\ Len(q) \in Nat
         /\ Len(p \o q) = Len(p) + Len(q)
         /\ DOMAIN (p \o q) = 1 .. Len(p) + Len(q)
         /\ \A i \in 1 .. Len(p) : (p \o q)[i] = p[i]
         /\ \A i \in 1 .. Len(q) : (p \o q)[Len(p) + i] = q[i]
<1>1. /\ p \o q \in Seq(S) /\ Len(p) \in Nat /\ Len(q) \in Nat
      /\ Len(p \o q) = Len(p) + Len(q)
      /\ \A i \in 1 .. Len(p) + Len(q) :
           (p \o q)[i] = IF i <= Len(p) THEN p[i] ELSE q[i - Len(p)]
  BY ConcatProperties, LenProperties
<1>2. DOMAIN (p \o q) = 1 .. Len(p) + Len(q)
  BY <1>1, LenProperties
<1>3. \A i \in 1 .. Len(p) : (p \o q)[i] = p[i]
  BY <1>1
<1>4. ASSUME NEW i \in 1 .. Len(q) PROVE (p \o q)[Len(p) + i] = q[i]
  <2>1. Len(p) + i \in 1 .. Len(p) + Len(q) /\ ~(Len(p) + i <= Len(p))
        /\ Len(p) + i - Len(p) = i
    BY <1>1
  <2> QED
    BY <1>1, <2>1
<1> QED
  BY <1>1, <1>2, <1>3, <1>4

\* Taking the first element of the first queue, and appending to the second one.
LEMMA JoinedTail ==
  ASSUME NEW S, NEW p \in Seq(S), NEW q \in Seq(S), p # <<>>
  PROVE  p \o q # <<>> /\ Head(p \o q) = Head(p) /\ Tail(p) \o q = Tail(p \o q)
<1>1. /\ Tail(p) \in Seq(S) /\ Len(p) \in Nat /\ Len(p) >= 1 /\ Head(p) = p[1]
      /\ Len(Tail(p)) = Len(p) - 1 /\ \A i \in 1 .. Len(p) - 1 : Tail(p)[i] = p[i + 1]
  BY Taken
<1>2. /\ p \o q \in Seq(S) /\ Len(q) \in Nat /\ Len(p \o q) = Len(p) + Len(q)
      /\ \A i \in 1 .. Len(p) : (p \o q)[i] = p[i]
      /\ \A i \in 1 .. Len(q) : (p \o q)[Len(p) + i] = q[i]
  BY Joined
<1>3. p \o q # <<>>
  BY <1>1, <1>2, EmptySeq
<1>4. /\ Tail(p \o q) \in Seq(S) /\ Head(p \o q) = (p \o q)[1]
      /\ Len(Tail(p \o q)) = Len(p) + Len(q) - 1
      /\ \A i \in 1 .. Len(p) + Len(q) - 1 : Tail(p \o q)[i] = (p \o q)[i + 1]
  BY <1>2, <1>3, Taken
<1>5. /\ Tail(p) \o q \in Seq(S) /\ Len(Tail(p) \o q) = Len(p) - 1 + Len(q)
      /\ \A i \in 1 .. Len(p) - 1 : (Tail(p) \o q)[i] = Tail(p)[i]
      /\ \A i \in 1 .. Len(q) : (Tail(p) \o q)[Len(p) - 1 + i] = q[i]
  BY <1>1, Joined
<1>6. ASSUME NEW i \in 1 .. Len(p) + Len(q) - 1 PROVE (Tail(p) \o q)[i] = Tail(p \o q)[i]
  <2>1. CASE i <= Len(p) - 1
    BY <1>1, <1>2, <1>4, <1>5, <2>1
  <2>2. CASE ~(i <= Len(p) - 1)
    <3>1. i - (Len(p) - 1) \in 1 .. Len(q) /\ Len(p) - 1 + (i - (Len(p) - 1)) = i
          /\ Len(p) + (i - (Len(p) - 1)) = i + 1
      BY <1>1, <1>2, <2>2
    <3> QED
      BY <1>2, <1>4, <1>5, <3>1
  <2> QED
    BY <2>1, <2>2
<1>7. Tail(p) \o q = Tail(p \o q)
  <2>1. Len(Tail(p) \o q) = Len(Tail(p \o q)) /\ Len(Tail(p) \o q) = Len(p) + Len(q) - 1
    BY <1>1, <1>2, <1>4, <1>5
  <2> QED
    BY <1>4, <1>5, <1>6, <2>1, SeqEqual
<1> QED
  BY <1>1, <1>2, <1>3, <1>4, <1>7

LEMMA JoinedRest ==
  ASSUME NEW S, NEW p \in Seq(S), NEW q \in Seq(S), p # <<>>
  PROVE  /\ Tail(p) \o <<>> = Tail(p)
         /\ \A i \in DOMAIN Tail(p) :
              /\ i \in Nat \ {0} /\ i + 1 \in DOMAIN (p \o q) /\ Tail(p)[i] = (p \o q)[i + 1]
              /\ Len(p \o q) # 1
<1>1. /\ Tail(p) \in Seq(S) /\ Len(p) \in Nat /\ DOMAIN Tail(p) = 1 .. Len(p) - 1
      /\ \A i \in 1 .. Len(p) - 1 : Tail(p)[i] = p[i + 1]
  BY Taken
<1>2. /\ Len(q) \in Nat /\ DOMAIN (p \o q) = 1 .. Len(p) + Len(q) /\ Len(p \o q) = Len(p) + Len(q)
      /\ \A i \in 1 .. Len(p) : (p \o q)[i] = p[i]
  BY Joined
<1>3. Tail(p) \o <<>> = Tail(p)
  BY <1>1, ConcatEmptySeq
<1>4. ASSUME NEW i \in 1 .. Len(p) - 1
      PROVE  /\ i \in Nat \ {0} /\ i + 1 \in DOMAIN (p \o q) /\ Tail(p)[i] = (p \o q)[i + 1]
             /\ Len(p \o q) # 1
  BY <1>1, <1>2
<1> QED
  BY <1>1, <1>3, <1>4

LEMMA JoinedAppend ==
  ASSUME NEW S, NEW p \in Seq(S), NEW q \in Seq(S), NEW e \in S
  PROVE  p \o Append(q, e) = Append(p \o q, e)
<1>1. p \o q \in Seq(S) /\ <<e>> \in Seq(S)
  BY Joined
<1>2. Append(q, e) = q \o <<e>> /\ Append(p \o q, e) = (p \o q) \o <<e>>
  BY <1>1, AppendIsConcat
<1> QED
  BY <1>1, <1>2, ConcatAssociative

\* How many places of a queue hold v, when an element is appended or taken.
Places(q, v) == {i \in DOMAIN q : q[i] = v}

LEMMA PlacesFinite ==
  ASSUME NEW S, NEW q \in Seq(S), NEW v
  PROVE  IsFiniteSet(Places(q, v)) /\ Cardinality(Places(q, v)) \in Nat
<1>1. Places(q, v) \subseteq 1 .. Len(q) /\ Len(q) \in Nat
  BY LenProperties DEF Places
<1>2. IsFiniteSet(1 .. Len(q))
  BY <1>1, FS_Interval
<1>3. IsFiniteSet(Places(q, v))
  BY <1>1, <1>2, FS_Subset
<1> QED
  BY <1>3, FS_CardinalityType

LEMMA PlacesAppended ==
  ASSUME NEW S, NEW q \in Seq(S), NEW e \in S, NEW v
  PROVE  Cardinality(Places(Append(q, e), v))
           = Cardinality(Places(q, v)) + (IF e = v THEN 1 ELSE 0)
<1>1. /\ DOMAIN q = 1 .. Len(q) /\ Len(q) \in Nat
      /\ DOMAIN Append(q, e) = 1 .. Len(q) + 1 /\ Append(q, e)[Len(q) + 1] = e
      /\ \A i \in 1 .. Len(q) : Append(q, e)[i] = q[i]
  BY Appended
<1>2. CASE e = v
  <2>1. Places(Append(q, e), v) = Places(q, v) \cup {Len(q) + 1}
    BY <1>1, <1>2 DEF Places
  <2>2. Len(q) + 1 \notin Places(q, v)
    BY <1>1 DEF Places
  <2> QED
    BY <1>2, <2>1, <2>2, PlacesFinite, FS_AddElement
<1>3. CASE e # v
  <2>1. Places(Append(q, e), v) = Places(q, v)
    BY <1>1, <1>3 DEF Places
  <2> QED
    BY <1>3, <2>1, PlacesFinite
<1> QED
  BY <1>2, <1>3

LEMMA PlacesTaken ==
  ASSUME NEW S, NEW q \in Seq(S), q # <<>>, NEW v
  PROVE  Cardinality(Places(q, v))
           = Cardinality(Places(Tail(q), v)) + (IF Head(q) = v THEN 1 ELSE 0)
<1> DEFINE Rest == Places(q, v) \ {1}
           up == [i \in Places(Tail(q), v) |-> i + 1]
<1>1. /\ Tail(q) \in Seq(S) /\ Len(q) \in Nat /\ DOMAIN q = 1 .. Len(q) /\ Len(q) >= 1
      /\ Head(q) = q[1] /\ DOMAIN Tail(q) = 1 .. Len(q) - 1
      /\ \A i \in 1 .. Len(q) - 1 : Tail(q)[i] = q[i + 1]
  BY Taken
<1>2. up \in Bijection(Places(Tail(q), v), Rest)
  <2>1. up \in [Places(Tail(q), v) -> Rest]
    BY <1>1 DEF Places
  <2>2. \A i, j \in Places(Tail(q), v) : up[i] = up[j] => i = j
    BY <1>1 DEF Places
  <2>3. ASSUME NEW k \in Rest PROVE \E i \in Places(Tail(q), v) : up[i] = k
    <3>1. k - 1 \in Places(Tail(q), v)
      BY <1>1 DEF Places
    <3>2. up[k - 1] = k
      BY <1>1, <3>1 DEF Places
    <3> QED
      BY <3>1, <3>2
  <2> QED
    BY <2>1, <2>2, <2>3 DEF Bijection, Injection, Surjection, IsInjective
<1>3. Cardinality(Rest) = Cardinality(Places(Tail(q), v))
  <2>1. IsFiniteSet(Places(Tail(q), v))
    BY <1>1, PlacesFinite
  <2>2. ExistsBijection(Places(Tail(q), v), Rest)
    BY <1>2 DEF ExistsBijection
  <2> HIDE DEF Rest
  <2> QED
    BY <2>1, <2>2, FS_Bijection
<1>6. IsFiniteSet(Places(q, v)) /\ Cardinality(Places(q, v)) \in Nat
  BY PlacesFinite
<1>4. CASE Head(q) = v
  <2>1. 1 \in Places(q, v)
    BY <1>1, <1>4 DEF Places
  <2>2. Cardinality(Rest) = Cardinality(Places(q, v)) - 1
    BY <1>6, <2>1, FS_RemoveElement
  <2> QED
    BY <1>3, <1>4, <1>6, <2>2
<1>5. CASE Head(q) # v
  <2>1. Rest = Places(q, v)
    BY <1>1, <1>5 DEF Places
  <2>2. Cardinality(Places(q, v)) = Cardinality(Places(Tail(q), v))
    BY <1>3, <2>1
  <2> QED
    BY <1>5, <1>6, <2>2
<1> QED
  BY <1>4, <1>5
=============================================================================
