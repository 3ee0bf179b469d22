-------------------------- MODULE EventQueue_proofs -------------------------
(***************************************************************************)
(* What appending to a queue, taking its first event and rebuilding it do  *)
(* to the events it holds.  That Pick keeps every event it should is an    *)
(* argument by least counterexample: the k-th place is the least up to     *)
(* which k places were counted.                                            *)
(***************************************************************************)
EXTENDS EventQueue, Integers, SequenceTheorems, FiniteSetTheorems,
        WellFoundedInduction, TLAPS

\* No event waits twice
Distinct(s) == \A i, j \in 1 .. Len(s) : s[i] = s[j] => i = j

----------------------------------------------------------------------------
(* Append, Tail and \o *)

\* LDK queues an event behind the others.
LEMMA MembersOfAppend ==
    ASSUME NEW S, NEW s \in Seq(S), NEW e \in S
    PROVE  /\ Append(s, e) \in Seq(S)
           /\ Members(Append(s, e)) = Members(s) \cup {e}
           /\ s # <<>> => Head(Append(s, e)) = Head(s)
           /\ Append(s, e) # <<>>
<1>1. /\ Append(s, e) \in Seq(S)
      /\ Len(Append(s, e)) = Len(s) + 1 /\ Len(s) \in Nat
      /\ \A i \in 1 .. Len(s) : Append(s, e)[i] = s[i]
      /\ Append(s, e)[Len(s) + 1] = e
  OBVIOUS
<1>2. Members(Append(s, e)) = Members(s) \cup {e}
  BY <1>1 DEF Members
<1>3. Append(s, e) # <<>>
  BY <1>1, EmptySeq
<1>4. ASSUME s # <<>> PROVE Head(Append(s, e)) = Head(s)
  <2>1. Len(s) \in Nat \ {0}
    BY <1>4, EmptySeq
  <2>2. Head(s) = s[1] /\ Head(Append(s, e)) = Append(s, e)[1]
    BY <1>3, <1>4
  <2>3. QED BY <1>1, <2>1, <2>2
<1>5. QED BY <1>1, <1>2, <1>3, <1>4

\* LDK drops the first event when its handler returns Ok.
LEMMA MembersOfTail ==
    ASSUME NEW S, NEW s \in Seq(S), s # <<>>
    PROVE  /\ Tail(s) \in Seq(S)
           /\ Members(Tail(s)) \subseteq Members(s)
           /\ Head(s) \in Members(s) /\ Head(s) \in S
<1>1. /\ Tail(s) \in Seq(S) /\ Len(Tail(s)) = Len(s) - 1 /\ Len(s) \in Nat \ {0}
      /\ \A i \in 1 .. Len(Tail(s)) : Tail(s)[i] = s[i + 1]
      /\ Head(s) = s[1] /\ Head(s) \in S
  BY HeadTailProperties, EmptySeq
<1>2. QED BY <1>1 DEF Members

\* What LDK delivers again comes before what still waits.
LEMMA MembersOfConcat ==
    ASSUME NEW S, NEW s \in Seq(S), NEW t \in Seq(S)
    PROVE  s \o t \in Seq(S) /\ Members(s \o t) \subseteq Members(s) \cup Members(t)
<1>1. /\ s \o t \in Seq(S) /\ Len(s) \in Nat /\ Len(t) \in Nat
      /\ Len(s \o t) = Len(s) + Len(t)
      /\ \A i \in 1 .. Len(s) + Len(t) :
            (s \o t)[i] = IF i <= Len(s) THEN s[i] ELSE t[i - Len(s)]
  BY ConcatProperties
<1>2. ASSUME NEW i \in 1 .. Len(s) + Len(t)
      PROVE  (s \o t)[i] \in Members(s) \cup Members(t)
  <2>1. CASE i <= Len(s)
    BY <1>1, <2>1 DEF Members
  <2>2. CASE ~(i <= Len(s))
    <3>1. i - Len(s) \in 1 .. Len(t)
      BY <1>1, <2>2
    <3>2. QED BY <1>1, <2>2, <3>1 DEF Members
  <2>3. QED BY <2>1, <2>2
<1>3. QED BY <1>1, <1>2 DEF Members

\* What LDK makes of a step comes behind what waits, one event after the other.
LEMMA ConcatIsAppend ==
    ASSUME NEW S, NEW s \in Seq(S), NEW a \in S, NEW b \in S
    PROVE  s \o <<a>> = Append(s, a) /\ s \o <<a, b>> = Append(Append(s, a), b)
<1>1. s \o <<a>> = Append(s, a)
  OBVIOUS
<1> DEFINE t == <<a, b>>
           u == Append(s, a)
<1>2. /\ t \in Seq(S) /\ Len(t) = 2 /\ t[1] = a /\ t[2] = b
      /\ u \in Seq(S) /\ Len(u) = Len(s) + 1 /\ Len(s) \in Nat
      /\ \A i \in 1 .. Len(s) : u[i] = s[i]
      /\ u[Len(s) + 1] = a
  OBVIOUS
<1> HIDE DEF t, u
<1>3. /\ Append(u, b) \in Seq(S) /\ Len(Append(u, b)) = Len(s) + 2
      /\ \A i \in 1 .. Len(s) + 1 : Append(u, b)[i] = u[i]
      /\ Append(u, b)[Len(s) + 2] = b
  BY <1>2
<1>4. /\ s \o t \in Seq(S) /\ Len(s \o t) = Len(s) + 2
      /\ \A i \in 1 .. Len(s) + 2 : (s \o t)[i] = IF i <= Len(s) THEN s[i] ELSE t[i - Len(s)]
  <2>1. Len(s) + Len(t) = Len(s) + 2
    BY <1>2
  <2>2. /\ s \o t \in Seq(S) /\ Len(s \o t) = Len(s) + Len(t)
        /\ \A i \in 1 .. Len(s) + Len(t) :
              (s \o t)[i] = IF i <= Len(s) THEN s[i] ELSE t[i - Len(s)]
    <3>1. t \in Seq(S)
      BY <1>2
    <3>2. QED BY <3>1, ConcatProperties
  <2>3. QED BY <2>1, <2>2, Zenon
<1>5. \A i \in 1 .. Len(s) + 2 : (s \o t)[i] = Append(u, b)[i]
  <2>1. ASSUME NEW i \in 1 .. Len(s) PROVE (s \o t)[i] = Append(u, b)[i]
    BY <1>2, <1>3, <1>4
  <2>2. (s \o t)[Len(s) + 1] = Append(u, b)[Len(s) + 1]
    BY <1>2, <1>3, <1>4
  <2>3. (s \o t)[Len(s) + 2] = Append(u, b)[Len(s) + 2]
    BY <1>2, <1>3, <1>4
  <2>4. \A i \in 1 .. Len(s) + 2 : i \in 1 .. Len(s) \/ i = Len(s) + 1 \/ i = Len(s) + 2
    BY <1>2
  <2>5. QED BY <2>1, <2>2, <2>3, <2>4, Zenon
<1>6. s \o t = Append(u, b)
  BY <1>3, <1>4, <1>5, SeqEqual
<1>7. QED BY <1>1, <1>6 DEF t, u

\* An event that is not in the queue is queued once.
LEMMA DistinctAppend ==
    ASSUME NEW S, NEW s \in Seq(S), NEW e \in S, Distinct(s), e \notin Members(s)
    PROVE  Distinct(Append(s, e))
<1>1. /\ Len(Append(s, e)) = Len(s) + 1 /\ Len(s) \in Nat
      /\ \A i \in 1 .. Len(s) : Append(s, e)[i] = s[i]
      /\ Append(s, e)[Len(s) + 1] = e
  OBVIOUS
<1>2. QED BY <1>1 DEF Distinct, Members

\* The event that was handled is in the queue no more.
LEMMA DistinctTail ==
    ASSUME NEW S, NEW s \in Seq(S), s # <<>>, Distinct(s)
    PROVE  Distinct(Tail(s)) /\ Members(Tail(s)) = Members(s) \ {Head(s)}
<1>1. /\ Len(Tail(s)) = Len(s) - 1 /\ Len(s) \in Nat \ {0}
      /\ \A i \in 1 .. Len(Tail(s)) : Tail(s)[i] = s[i + 1]
      /\ Head(s) = s[1]
  BY HeadTailProperties, EmptySeq
<1>2. Distinct(Tail(s))
  BY <1>1 DEF Distinct
<1>3. ASSUME NEW i \in 1 .. Len(s), s[i] # s[1] PROVE s[i] \in Members(Tail(s))
  <2>1. i - 1 \in 1 .. Len(Tail(s)) /\ s[i] = Tail(s)[i - 1]
    BY <1>1, <1>3
  <2>2. QED BY <2>1 DEF Members
<1>4. ASSUME NEW i \in 1 .. Len(Tail(s)) PROVE Tail(s)[i] \in Members(s) /\ Tail(s)[i] # s[1]
  BY <1>1, <1>4 DEF Distinct, Members
<1>5. QED BY <1>1, <1>2, <1>3, <1>4 DEF Members

----------------------------------------------------------------------------
(* Pick *)

\* Every set of numbers has a least one.
LEMMA LeastNat ==
    ASSUME NEW T \in SUBSET Nat, T # {}
    PROVE  \E x \in T : \A y \in T : x <= y
<1>1. IsWellFoundedOn(OpToRel(<, Nat), Nat)
  BY NatLessThanWellFounded
<1>2. PICK x \in T : \A y \in T : ~(<<y, x>> \in OpToRel(<, Nat))
  BY <1>1, WFMin
<1>3. \A y \in T : ~(y < x)
  BY <1>2 DEF OpToRel
<1>4. QED BY <1>3

\* How many of the places come no later than x.
UpTo(P, x) == {j \in P : j <= x}

LEMMA UpToIsFinite ==
    ASSUME NEW n \in Nat, NEW P \in SUBSET (1 .. n), NEW x \in Int
    PROVE  /\ IsFiniteSet(P) /\ Cardinality(P) \in Nat
           /\ IsFiniteSet(UpTo(P, x)) /\ Cardinality(UpTo(P, x)) \in Nat
           /\ Cardinality(UpTo(P, x)) <= Cardinality(P)
           /\ \A i \in P : i \in Nat /\ 0 < i /\ i <= n
<1>1. IsFiniteSet(P)
  <2>1. IsFiniteSet(1 .. n) /\ P \subseteq 1 .. n
    BY FS_Interval
  <2>2. QED BY <2>1, FS_Subset
<1>2. UpTo(P, x) \subseteq P
  BY DEF UpTo
<1>3. \A i \in P : i \in Nat /\ 0 < i /\ i <= n
  OBVIOUS
<1>4. QED BY <1>1, <1>2, <1>3, FS_Subset, FS_CardinalityType

\* Each place counts for one.
LEMMA UpToGrows ==
    ASSUME NEW n \in Nat, NEW P \in SUBSET (1 .. n), NEW x \in Nat \ {0}
    PROVE  Cardinality(UpTo(P, x))
             = Cardinality(UpTo(P, x - 1)) + (IF x \in P THEN 1 ELSE 0)
<1>1. \A j \in P : j \in Nat
  BY UpToIsFinite
<1>2. IsFiniteSet(UpTo(P, x - 1)) /\ Cardinality(UpTo(P, x - 1)) \in Nat
  <2>1. x - 1 \in Int
    OBVIOUS
  <2>2. QED BY <2>1, UpToIsFinite
<1>3. CASE x \in P
  <2>1. ~(x <= x - 1) /\ \A j \in P : j <= x <=> j <= x - 1 \/ j = x
    BY <1>1
  <2>2. UpTo(P, x) = UpTo(P, x - 1) \cup {x} /\ x \notin UpTo(P, x - 1)
    BY <1>3, <2>1, Zenon DEF UpTo
  <2>3. QED BY <1>2, <1>3, <2>2, FS_AddElement
<1>4. CASE x \notin P
  <2>1. \A j \in P : j <= x <=> j <= x - 1
    BY <1>1, <1>4
  <2>2. UpTo(P, x) = UpTo(P, x - 1)
    BY <2>1, Zenon DEF UpTo
  <2>3. QED BY <1>2, <1>4, <2>2
<1>5. QED BY <1>3, <1>4

\* There is a k-th place, for every k.
LEMMA PlaceExists ==
    ASSUME NEW n \in Nat, NEW P \in SUBSET (1 .. n), NEW k \in 1 .. Cardinality(P)
    PROVE  \E i \in P : Cardinality(UpTo(P, i)) = k
<1> DEFINE T == {x \in Nat : k <= Cardinality(UpTo(P, x))}
<1>1. /\ Cardinality(P) \in Nat
      /\ \A x \in Int : Cardinality(UpTo(P, x)) \in Nat
      /\ \A j \in P : j \in Nat /\ 0 < j /\ j <= n
  BY UpToIsFinite
<1>2. n \in T
  <2>1. UpTo(P, n) = P
    BY <1>1 DEF UpTo
  <2>2. QED BY <1>1, <2>1
<1>3. PICK x \in T : \A y \in T : x <= y
  <2> HIDE DEF T
  <2>1. T \in SUBSET Nat
    BY DEF T
  <2>2. QED BY <1>2, <2>1, LeastNat
<1>4. x # 0
  <2>1. UpTo(P, 0) = {}
    <3>1. \A j \in P : ~(j <= 0)
      BY <1>1
    <3>2. QED BY <3>1, Zenon DEF UpTo
  <2>2. Cardinality(UpTo(P, 0)) = 0
    BY <2>1, FS_EmptySet
  <2>3. QED BY <2>2
<1>5. Cardinality(UpTo(P, x - 1)) < k
  <2>1. x - 1 \in Nat /\ x - 1 \notin T
    BY <1>3, <1>4
  <2>2. QED BY <1>1, <2>1
<1>6. k <= Cardinality(UpTo(P, x)) /\ x \in Nat \ {0}
  BY <1>4
<1>7. Cardinality(UpTo(P, x)) = Cardinality(UpTo(P, x - 1)) + (IF x \in P THEN 1 ELSE 0)
  BY <1>6, UpToGrows
<1>8. x - 1 \in Int /\ x \in Int
  BY <1>6
<1> HIDE DEF T
<1>9. QED BY <1>1, <1>5, <1>6, <1>7, <1>8

\* Two places that count the same are the same.
LEMMA PlaceIsUnique ==
    ASSUME NEW n \in Nat, NEW P \in SUBSET (1 .. n), NEW x \in P, NEW y \in P,
           Cardinality(UpTo(P, x)) = Cardinality(UpTo(P, y))
    PROVE  x = y
<1>1. \A a \in P : a \in Nat
  BY UpToIsFinite
<1>2. ASSUME NEW a \in P, NEW b \in P, a < b,
             Cardinality(UpTo(P, a)) = Cardinality(UpTo(P, b))
      PROVE  FALSE
  <2>1. b \in Int /\ b <= b /\ ~(b <= a) /\ \A j \in P : j <= a => j <= b
    BY <1>1, <1>2
  <2>2. UpTo(P, a) \subseteq UpTo(P, b) /\ b \in UpTo(P, b) /\ b \notin UpTo(P, a)
    BY <1>2, <2>1, Zenon DEF UpTo
  <2>3. IsFiniteSet(UpTo(P, b))
    BY <2>1, UpToIsFinite
  <2>4. QED BY <1>2, <2>2, <2>3, FS_Subset
<1>3. QED BY <1>1, <1>2

\* The k-th place is one of them, the k-th of them.
LEMMA PlaceProperties ==
    ASSUME NEW n \in Nat, NEW P \in SUBSET (1 .. n), NEW k \in 1 .. Cardinality(P)
    PROVE  Place(P, k) \in P /\ Cardinality(UpTo(P, Place(P, k))) = k
<1>1. \E i \in P : Cardinality({j \in P : j <= i}) = k
  BY PlaceExists DEF UpTo
<1>2. Place(P, k) \in P /\ Cardinality({j \in P : j <= Place(P, k)}) = k
  BY <1>1 DEF Place
<1>3. QED BY <1>2 DEF UpTo

\* What a restart leaves of a queue are the events at the places that are kept, and
\* a place that comes later than another still does.
LEMMA PickProperties ==
    ASSUME NEW S, NEW s \in Seq(S), NEW P \in SUBSET (1 .. Len(s))
    PROVE  /\ Pick(s, P) \in Seq(S)
           /\ Members(Pick(s, P)) = {s[i] : i \in P}
           /\ \A k, m \in 1 .. Len(Pick(s, P)) : k < m => Place(P, k) < Place(P, m)
<1> DEFINE n == Len(s)
<1>1. n \in Nat /\ (\A i \in 1 .. n : s[i] \in S) /\ P \in SUBSET (1 .. n)
  OBVIOUS
<1> HIDE DEF n
<1>2. Cardinality(P) \in Nat /\ \A i \in P : i \in Nat
  BY <1>1, UpToIsFinite
<1>3. \A k \in 1 .. Cardinality(P) :
        Place(P, k) \in P /\ Cardinality(UpTo(P, Place(P, k))) = k
  BY <1>1, PlaceProperties
<1>4. \A k \in 1 .. Cardinality(P) : Pick(s, P)[k] = s[Place(P, k)]
  BY DEF Pick
<1>5. Pick(s, P) \in Seq(S) /\ Len(Pick(s, P)) = Cardinality(P)
  <2>1. \A k \in 1 .. Cardinality(P) : s[Place(P, k)] \in S
    BY <1>1, <1>3
  <2>2. QED BY <1>2, <2>1 DEF Pick
<1>6. ASSUME NEW i \in P
      PROVE  \E k \in 1 .. Cardinality(P) : Pick(s, P)[k] = s[i]
  <2> DEFINE k == Cardinality(UpTo(P, i))
  <2>1. i \in UpTo(P, i)
    BY <1>2 DEF UpTo
  <2>2. k \in Nat /\ k <= Cardinality(P) /\ IsFiniteSet(UpTo(P, i))
    BY <1>1, <1>2, UpToIsFinite
  <2>3. k # 0
    BY <2>1, <2>2, FS_EmptySet
  <2> HIDE DEF k
  <2>4. k \in 1 .. Cardinality(P)
    BY <1>2, <2>2, <2>3
  <2>5. Place(P, k) = i
    BY <1>1, <1>3, <2>4, PlaceIsUnique DEF k
  <2>6. QED BY <1>4, <2>4, <2>5
<1>7. Members(Pick(s, P)) = {s[i] : i \in P}
  <2>1. Members(Pick(s, P)) = {Pick(s, P)[k] : k \in 1 .. Cardinality(P)}
    BY <1>5 DEF Members
  <2>2. \A k \in 1 .. Cardinality(P) : \E i \in P : Pick(s, P)[k] = s[i]
    BY <1>3, <1>4
  <2>3. \A e \in Members(Pick(s, P)) : \E i \in P : e = s[i]
    BY <2>1, <2>2
  <2>4. \A i \in P : s[i] \in Members(Pick(s, P))
    BY <1>6, <2>1
  <2>5. QED BY <2>3, <2>4
<1>8. ASSUME NEW k \in 1 .. Cardinality(P), NEW m \in 1 .. Cardinality(P), k < m
      PROVE  Place(P, k) < Place(P, m)
  <2>1. Place(P, k) \in Nat /\ Place(P, m) \in Nat
    BY <1>2, <1>3
  <2>2. ASSUME Place(P, m) <= Place(P, k) PROVE FALSE
    <3>1. UpTo(P, Place(P, m)) \subseteq UpTo(P, Place(P, k))
      <4>1. \A j \in P : j <= Place(P, m) => j <= Place(P, k)
        BY <1>2, <2>1, <2>2
      <4>2. QED BY <4>1, Zenon DEF UpTo
    <3>2. IsFiniteSet(UpTo(P, Place(P, k)))
      BY <1>1, <2>1, UpToIsFinite
    <3>3. Cardinality(UpTo(P, Place(P, m))) <= Cardinality(UpTo(P, Place(P, k)))
      BY <3>1, <3>2, FS_Subset
    <3>4. m <= k
      BY <1>3, <3>3
    <3>5. QED BY <1>2, <1>8, <3>4
  <2>3. QED BY <2>1, <2>2
<1>9. QED BY <1>5, <1>7, <1>8
=============================================================================
