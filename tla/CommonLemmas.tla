---------------------------- MODULE CommonLemmas ----------------------------
(***************************************************************************)
(* What several of the proofs need: what the operators on sequences do     *)
(* that the modules are built from, for sequences without repetitions, and *)
(* how to count.                                                           *)
(***************************************************************************)
EXTENDS SequencesExt, Integers, FiniteSetTheorems, TLAPS

\* In a sequence without repetitions RemoveFirst takes out its element's place.
LEMMA PlaceOf ==
    ASSUME NEW S, NEW s \in Seq(S), IsInjective(s), NEW i \in 1 .. Len(s),
           NEW e, s[i] = e
    PROVE  RemoveFirst(s, e) = RemoveAt(s, i)
<1>1. {j \in 1 .. Len(s) : s[j] = e} = {i}
    BY DEF IsInjective
<1>2. Min({i}) = i
    BY DEF Min
<1>. QED
    BY <1>1, <1>2 DEF RemoveFirst, SelectInSeq

\* A part of a sequence, from one of its places to another.
LEMMA PartOf ==
    ASSUME NEW S, NEW s \in Seq(S), NEW m \in 1 .. Len(s) + 1, NEW n \in 0 .. Len(s)
    PROVE  /\ SubSeq(s, m, n) \in Seq(S)
           /\ Len(SubSeq(s, m, n)) = IF m <= n THEN n - m + 1 ELSE 0
           /\ \A i \in 1 .. n - m + 1 : SubSeq(s, m, n)[i] = s[m + i - 1]
<1>1. SubSeq(s, m, n) \in Seq(S)
    OBVIOUS
<1>2. Len(SubSeq(s, m, n)) = IF m <= n THEN n - m + 1 ELSE 0
    OBVIOUS
<1>3. \A i \in 1 .. n - m + 1 : SubSeq(s, m, n)[i] = s[m + i - 1]
    OBVIOUS
<1>. QED
    BY <1>1, <1>2, <1>3

\* Removing the element at a place of a sequence.
LEMMA RemoveAtProperties ==
    ASSUME NEW S, NEW s \in Seq(S), NEW i \in 1 .. Len(s)
    PROVE  /\ RemoveAt(s, i) \in Seq(S)
           /\ Len(RemoveAt(s, i)) = Len(s) - 1
           /\ \A j \in 1 .. Len(s) - 1 :
                RemoveAt(s, i)[j] = IF j < i THEN s[j] ELSE s[j + 1]
<1>. DEFINE front == SubSeq(s, 1, i - 1)
            back == SubSeq(s, i + 1, Len(s))
<1>1. /\ front \in Seq(S)
      /\ Len(front) = i - 1
      /\ \A j \in 1 .. i - 1 : front[j] = s[j]
  <2>1. 1 \in 1 .. Len(s) + 1 /\ i - 1 \in 0 .. Len(s)
    OBVIOUS
  <2>. QED
    BY <2>1, PartOf
<1>2. /\ back \in Seq(S)
      /\ Len(back) = Len(s) - i
      /\ \A j \in 1 .. Len(s) - i : back[j] = s[i + j]
  <2>1. i + 1 \in 1 .. Len(s) + 1 /\ Len(s) \in 0 .. Len(s)
    OBVIOUS
  <2>. QED
    BY <2>1, PartOf
<1>3. RemoveAt(s, i) = front \o back
    BY DEF RemoveAt
<1>. HIDE DEF front, back
<1>4. RemoveAt(s, i) \in Seq(S) /\ Len(RemoveAt(s, i)) = Len(s) - 1
    BY <1>1, <1>2, <1>3
<1>5. ASSUME NEW j \in 1 .. Len(s) - 1
      PROVE  RemoveAt(s, i)[j] = IF j < i THEN s[j] ELSE s[j + 1]
  <2>1. (front \o back)[j] = IF j <= Len(front) THEN front[j] ELSE back[j - Len(front)]
    BY <1>1, <1>2
  <2>2. CASE j < i
    BY <1>1, <1>3, <2>1, <2>2
  <2>3. CASE j >= i
    <3>1. j - Len(front) \in 1 .. Len(s) - i /\ ~ j <= Len(front)
      BY <1>1, <2>3
    <3>. QED
      BY <1>1, <1>2, <1>3, <2>1, <2>3, <3>1
  <2>. QED
    BY <2>2, <2>3
<1>. QED
    BY <1>4, <1>5

\* RemoveFirst takes its element out, and leaves the others in their order.
LEMMA RemoveFirstProperties ==
    ASSUME NEW S, NEW s \in Seq(S), IsInjective(s), NEW e
    PROVE  /\ RemoveFirst(s, e) \in Seq(S)
           /\ IsInjective(RemoveFirst(s, e))
           /\ ToSet(RemoveFirst(s, e)) = ToSet(s) \ {e}
           /\ Len(RemoveFirst(s, e)) <= Len(s)
           /\ e \in ToSet(s) => Len(RemoveFirst(s, e)) = Len(s) - 1
<1>1. CASE e \notin ToSet(s)
  <2>1. RemoveFirst(s, e) = s
    BY <1>1 DEF RemoveFirst, ToSet
  <2>. QED
    BY <1>1, <2>1
<1>2. CASE e \in ToSet(s)
  <2>1. PICK i \in 1 .. Len(s) : s[i] = e
    BY <1>2 DEF ToSet
  <2>2. RemoveFirst(s, e) = RemoveAt(s, i)
    BY <2>1, PlaceOf
  <2>3. /\ RemoveAt(s, i) \in Seq(S)
        /\ Len(RemoveAt(s, i)) = Len(s) - 1
        /\ \A j \in 1 .. Len(s) - 1 :
            RemoveAt(s, i)[j] = IF j < i THEN s[j] ELSE s[j + 1]
    BY RemoveAtProperties
  <2>4. IsInjective(RemoveAt(s, i))
    <3>. DEFINE t == RemoveAt(s, i)
                origin(j) == IF j < i THEN j ELSE j + 1
    <3>. HIDE DEF t
    <3>1. SUFFICES ASSUME NEW j \in 1 .. Len(s) - 1, NEW k \in 1 .. Len(s) - 1, t[j] = t[k]
                   PROVE  j = k
      BY <2>3 DEF IsInjective, t
    <3>2. origin(j) \in DOMAIN s /\ origin(k) \in DOMAIN s
      OBVIOUS
    <3>3. t[j] = s[origin(j)] /\ t[k] = s[origin(k)]
      BY <2>3 DEF t
    <3>4. origin(j) = origin(k)
      BY <3>1, <3>2, <3>3 DEF IsInjective
    <3>. QED
      BY <3>4
  <2>5. ToSet(RemoveAt(s, i)) = ToSet(s) \ {e}
    <3>1. ASSUME NEW x \in ToSet(RemoveAt(s, i))
          PROVE  x \in ToSet(s) \ {e}
      BY <2>1, <2>3 DEF ToSet, IsInjective
    <3>2. ASSUME NEW x \in ToSet(s) \ {e}
          PROVE  x \in ToSet(RemoveAt(s, i))
      <4>1. PICK k \in 1 .. Len(s) : s[k] = x
        BY <3>2 DEF ToSet
      <4>2. k # i
        BY <2>1, <3>2, <4>1
      <4>3. CASE k < i
        BY <2>3, <4>1, <4>3 DEF ToSet
      <4>4. CASE k > i
        <5>1. k - 1 \in 1 .. Len(s) - 1 /\ RemoveAt(s, i)[k - 1] = x
          BY <2>3, <4>1, <4>4
        <5>. QED
          BY <2>3, <5>1 DEF ToSet
      <4>. QED
        BY <4>2, <4>3, <4>4
    <3>. QED
      BY <3>1, <3>2
  <2>. QED
    BY <2>2, <2>3, <2>4, <2>5
<1>. QED
    BY <1>1, <1>2

\* Appending an element that is not there yet.
LEMMA AppendNew ==
    ASSUME NEW S, NEW s \in Seq(S), IsInjective(s), NEW e \in S, e \notin ToSet(s)
    PROVE  /\ Append(s, e) \in Seq(S)
           /\ IsInjective(Append(s, e))
           /\ ToSet(Append(s, e)) = ToSet(s) \cup {e}
           /\ Len(Append(s, e)) = Len(s) + 1
<1>1. /\ Append(s, e) \in Seq(S)
      /\ Len(Append(s, e)) = Len(s) + 1
      /\ \A j \in 1 .. Len(s) : Append(s, e)[j] = s[j]
      /\ Append(s, e)[Len(s) + 1] = e
    OBVIOUS
<1>2. ToSet(Append(s, e)) = ToSet(s) \cup {e}
  <2>1. ASSUME NEW x \in ToSet(Append(s, e)) PROVE x \in ToSet(s) \cup {e}
    <3>1. PICK j \in 1 .. Len(s) + 1 : x = Append(s, e)[j]
      BY <1>1 DEF ToSet
    <3>2. CASE j \in 1 .. Len(s)
      BY <1>1, <3>1, <3>2 DEF ToSet
    <3>3. CASE j = Len(s) + 1
      BY <1>1, <3>1, <3>3
    <3>. QED
      BY <3>2, <3>3
  <2>2. ASSUME NEW x \in ToSet(s) \cup {e} PROVE x \in ToSet(Append(s, e))
    <3>1. CASE x \in ToSet(s)
      BY <1>1, <3>1 DEF ToSet
    <3>2. CASE x = e
      BY <1>1, <3>2 DEF ToSet
    <3>. QED
      BY <3>1, <3>2
  <2>. QED
    BY <2>1, <2>2
<1>3. IsInjective(Append(s, e))
  <2>1. SUFFICES ASSUME NEW j \in 1 .. Len(s) + 1, NEW k \in 1 .. Len(s) + 1,
                        Append(s, e)[j] = Append(s, e)[k]
                 PROVE  j = k
    BY <1>1 DEF IsInjective
  <2>2. \A l \in 1 .. Len(s) : s[l] # e
    BY DEF ToSet
  <2>3. CASE j \in 1 .. Len(s) /\ k \in 1 .. Len(s)
    BY <1>1, <2>1, <2>3 DEF IsInjective
  <2>4. CASE j = Len(s) + 1 \/ k = Len(s) + 1
    BY <1>1, <2>1, <2>2, <2>4
  <2>. QED
    BY <2>3, <2>4
<1>. QED
    BY <1>1, <1>2, <1>3

\* Putting a new element in front.
LEMMA PrependNew ==
    ASSUME NEW S, NEW s \in Seq(S), IsInjective(s), NEW e \in S, e \notin ToSet(s)
    PROVE  /\ <<e>> \o s \in Seq(S)
           /\ IsInjective(<<e>> \o s)
           /\ ToSet(<<e>> \o s) = ToSet(s) \cup {e}
           /\ Len(<<e>> \o s) = Len(s) + 1
<1>. DEFINE t == <<e>> \o s
<1>1. /\ t \in Seq(S)
      /\ Len(t) = Len(s) + 1
      /\ t[1] = e
      /\ \A j \in 2 .. Len(s) + 1 : t[j] = s[j - 1]
    OBVIOUS
<1>. HIDE DEF t
<1>2. \A j \in 1 .. Len(s) : s[j] # e
    BY DEF ToSet
<1>3. ToSet(t) = ToSet(s) \cup {e}
  <2>1. ASSUME NEW x \in ToSet(t) PROVE x \in ToSet(s) \cup {e}
    <3>1. PICK j \in 1 .. Len(s) + 1 : x = t[j]
      BY <1>1 DEF ToSet
    <3>2. CASE j = 1
      BY <1>1, <3>1, <3>2
    <3>3. CASE j \in 2 .. Len(s) + 1
      <4>1. x = s[j - 1] /\ j - 1 \in 1 .. Len(s)
        BY <1>1, <3>1, <3>3
      <4>. QED
        BY <4>1 DEF ToSet
    <3>. QED
      BY <3>2, <3>3
  <2>2. ASSUME NEW x \in ToSet(s) PROVE x \in ToSet(t)
    <3>1. PICK j \in 1 .. Len(s) : x = s[j]
      BY DEF ToSet
    <3>2. j + 1 \in 1 .. Len(t) /\ t[j + 1] = x
      BY <1>1, <3>1
    <3>3. DOMAIN t = 1 .. Len(t)
      BY <1>1
    <3>. QED
      BY <3>2, <3>3 DEF ToSet
  <2>3. e \in ToSet(t)
    BY <1>1 DEF ToSet
  <2>. QED
    BY <2>1, <2>2, <2>3
<1>4. IsInjective(t)
  <2>1. SUFFICES ASSUME NEW j \in 1 .. Len(s) + 1, NEW k \in 1 .. Len(s) + 1, t[j] = t[k]
                 PROVE  j = k
    BY <1>1 DEF IsInjective
  <2>2. CASE j = 1 \/ k = 1
    BY <1>1, <1>2, <2>1, <2>2
  <2>3. CASE j # 1 /\ k # 1
    <3>1. j - 1 \in DOMAIN s /\ k - 1 \in DOMAIN s /\ s[j - 1] = s[k - 1]
      BY <1>1, <2>1, <2>3
    <3>. QED
      BY <3>1 DEF IsInjective
  <2>. QED
    BY <2>2, <2>3
<1>. QED
    BY <1>1, <1>3, <1>4 DEF t

\* The rest of a sequence without repetitions.
LEMMA TailProperties ==
    ASSUME NEW S, NEW s \in Seq(S), s # <<>>
    PROVE  /\ Tail(s) \in Seq(S)
           /\ Len(Tail(s)) = Len(s) - 1
           /\ ToSet(s) = {Head(s)} \cup ToSet(Tail(s))
           /\ IsInjective(s) => IsInjective(Tail(s))
<1>1. /\ Tail(s) \in Seq(S)
      /\ Len(Tail(s)) = Len(s) - 1
      /\ \A j \in 1 .. Len(s) - 1 : Tail(s)[j] = s[j + 1]
      /\ Head(s) = s[1]
      /\ 1 \in 1 .. Len(s)
    OBVIOUS
<1>2. ToSet(s) = {Head(s)} \cup ToSet(Tail(s))
  <2>1. ASSUME NEW x \in ToSet(s) PROVE x \in {Head(s)} \cup ToSet(Tail(s))
    <3>1. PICK j \in 1 .. Len(s) : x = s[j]
      BY DEF ToSet
    <3>2. CASE j = 1
      BY <1>1, <3>1, <3>2
    <3>3. CASE j # 1
      <4>1. j - 1 \in 1 .. Len(s) - 1 /\ Tail(s)[j - 1] = x
        BY <1>1, <3>1, <3>3
      <4>2. DOMAIN Tail(s) = 1 .. Len(s) - 1
        BY <1>1
      <4>3. x \in ToSet(Tail(s))
        BY <4>1, <4>2 DEF ToSet
      <4>. QED
        BY <4>3
    <3>. QED
      BY <3>2, <3>3
  <2>2. ASSUME NEW x \in {Head(s)} \cup ToSet(Tail(s)) PROVE x \in ToSet(s)
    <3>1. CASE x = Head(s)
      BY <1>1, <3>1 DEF ToSet
    <3>2. CASE x \in ToSet(Tail(s))
      <4>1. PICK j \in 1 .. Len(s) - 1 : x = Tail(s)[j]
        BY <1>1, <3>2 DEF ToSet
      <4>2. j + 1 \in 1 .. Len(s) /\ s[j + 1] = x
        BY <1>1, <4>1
      <4>. QED
        BY <4>2 DEF ToSet
    <3>. QED
      BY <3>1, <3>2
  <2>. QED
    BY <2>1, <2>2
<1>3. ASSUME IsInjective(s) PROVE IsInjective(Tail(s))
  <2>1. SUFFICES ASSUME NEW j \in 1 .. Len(s) - 1, NEW k \in 1 .. Len(s) - 1,
                        Tail(s)[j] = Tail(s)[k]
                 PROVE  j = k
    BY <1>1 DEF IsInjective
  <2>2. j + 1 \in DOMAIN s /\ k + 1 \in DOMAIN s /\ s[j + 1] = s[k + 1]
    BY <1>1, <2>1
  <2>. QED
    BY <1>3, <2>2 DEF IsInjective
<1>. QED
    BY <1>1, <1>2, <1>3

\* A sequence without repetitions is no longer than its elements are many.
LEMMA InjectiveLen ==
    ASSUME NEW S, IsFiniteSet(S), NEW s \in Seq(S), IsInjective(s)
    PROVE  Len(s) <= Cardinality(S)
<1>1. IsFiniteSet(1 .. Len(s)) /\ Cardinality(1 .. Len(s)) = Len(s)
  <2>1. 1 \in Int /\ Len(s) \in Int /\ Len(s) \in Nat
    OBVIOUS
  <2>2. /\ IsFiniteSet(1 .. Len(s))
        /\ Cardinality(1 .. Len(s)) = IF 1 > Len(s) THEN 0 ELSE Len(s) - 1 + 1
    BY <2>1, FS_Interval
  <2>. QED
    BY <2>1, <2>2
<1>2. Cardinality(S) \in Nat
    BY FS_CardinalityType
<1>. SUFFICES ASSUME Cardinality(S) < Cardinality(1 .. Len(s)) PROVE FALSE
    BY <1>1, <1>2
<1>3. s \in [1 .. Len(s) -> S]
    OBVIOUS
<1>4. \E j, k \in 1 .. Len(s) : j # k /\ s[j] = s[k]
    BY <1>1, <1>3, FS_PigeonHole
<1>. QED
    BY <1>4 DEF IsInjective

\* Inserting an element at a place of a sequence.
LEMMA InsertAtPlaces ==
    ASSUME NEW S, NEW s \in Seq(S), NEW e \in S, NEW i \in 1 .. Len(s) + 1
    PROVE  /\ InsertAt(s, i, e) \in Seq(S)
           /\ Len(InsertAt(s, i, e)) = Len(s) + 1
           /\ \A j \in 1 .. Len(s) + 1 :
                InsertAt(s, i, e)[j] = IF j < i THEN s[j] ELSE IF j = i THEN e ELSE s[j - 1]
<1>. DEFINE front == SubSeq(s, 1, i - 1)
            back == SubSeq(s, i, Len(s))
<1>1. /\ front \in Seq(S)
      /\ Len(front) = i - 1
      /\ \A j \in 1 .. i - 1 : front[j] = s[j]
  <2>1. 1 \in 1 .. Len(s) + 1 /\ i - 1 \in 0 .. Len(s)
    OBVIOUS
  <2>. QED
    BY <2>1, PartOf
<1>2. /\ back \in Seq(S)
      /\ Len(back) = Len(s) - i + 1
      /\ \A j \in 1 .. Len(s) - i + 1 : back[j] = s[i + j - 1]
  <2>1. Len(s) \in 0 .. Len(s)
    OBVIOUS
  <2>. QED
    BY <2>1, PartOf
<1>. DEFINE head == front \o <<e>>
<1>3. InsertAt(s, i, e) = head \o back
    BY <1>1, <1>2 DEF InsertAt
<1>. HIDE DEF front, back
<1>4. /\ head \in Seq(S)
      /\ Len(head) = i
      /\ \A j \in 1 .. i - 1 : head[j] = s[j]
      /\ head[i] = e
    BY <1>1
<1>. HIDE DEF head
<1>5. InsertAt(s, i, e) \in Seq(S) /\ Len(InsertAt(s, i, e)) = Len(s) + 1
    BY <1>2, <1>3, <1>4
<1>6. ASSUME NEW j \in 1 .. Len(s) + 1
      PROVE  InsertAt(s, i, e)[j] = IF j < i THEN s[j] ELSE IF j = i THEN e ELSE s[j - 1]
  <2>1. (head \o back)[j] = IF j <= Len(head) THEN head[j] ELSE back[j - Len(head)]
    BY <1>2, <1>4
  <2>2. CASE j <= i
    BY <1>3, <1>4, <2>1, <2>2
  <2>3. CASE j > i
    <3>1. j - Len(head) \in 1 .. Len(s) - i + 1 /\ ~ j <= Len(head)
      BY <1>4, <2>3
    <3>. QED
      BY <1>2, <1>3, <1>4, <2>1, <2>3, <3>1
  <2>. QED
    BY <2>2, <2>3
<1>. QED
    BY <1>5, <1>6

\* The sequence has its elements and the new one, which may be anywhere.
LEMMA InsertAtProperties ==
    ASSUME NEW S, NEW s \in Seq(S), IsInjective(s), NEW e \in S, e \notin ToSet(s),
           NEW i \in 1 .. Len(s) + 1
    PROVE  /\ InsertAt(s, i, e) \in Seq(S)
           /\ IsInjective(InsertAt(s, i, e))
           /\ ToSet(InsertAt(s, i, e)) = ToSet(s) \cup {e}
<1>. DEFINE t == InsertAt(s, i, e)
<1>1. /\ t \in Seq(S) /\ Len(t) = Len(s) + 1
      /\ \A j \in 1 .. Len(s) + 1 :
            t[j] = IF j < i THEN s[j] ELSE IF j = i THEN e ELSE s[j - 1]
    BY InsertAtPlaces
<1>. HIDE DEF t
<1>2. \A j \in 1 .. Len(s) : s[j] # e
    BY DEF ToSet
<1>3. IsInjective(t)
  <2>1. SUFFICES ASSUME NEW j \in 1 .. Len(s) + 1, NEW k \in 1 .. Len(s) + 1, t[j] = t[k]
                 PROVE  j = k
    BY <1>1 DEF IsInjective
  <2>. DEFINE origin(l) == IF l < i THEN l ELSE l - 1
  <2>2. CASE j = i \/ k = i
    <3>1. ASSUME j = i, k # i PROVE FALSE
      BY <1>1, <1>2, <2>1, <3>1
    <3>2. ASSUME k = i, j # i PROVE FALSE
      BY <1>1, <1>2, <2>1, <3>2
    <3>. QED
      BY <2>2, <3>1, <3>2
  <2>3. CASE j # i /\ k # i
    <3>1. origin(j) \in DOMAIN s /\ origin(k) \in DOMAIN s
      BY <2>3
    <3>2. t[j] = s[origin(j)] /\ t[k] = s[origin(k)]
      BY <1>1, <2>3
    <3>3. origin(j) = origin(k)
      BY <2>1, <3>1, <3>2 DEF IsInjective
    <3>. QED
      BY <2>3, <3>3
  <2>. QED
    BY <2>2, <2>3
<1>4. ToSet(t) = ToSet(s) \cup {e}
  <2>1. ASSUME NEW x \in ToSet(t) PROVE x \in ToSet(s) \cup {e}
    <3>1. PICK j \in 1 .. Len(s) + 1 : x = t[j]
      BY <1>1 DEF ToSet
    <3>2. x = e \/ \E k \in 1 .. Len(s) : x = s[k]
      BY <1>1, <3>1
    <3>. QED
      BY <3>2 DEF ToSet
  <2>2. ASSUME NEW x \in ToSet(s) PROVE x \in ToSet(t)
    <3>1. PICK k \in 1 .. Len(s) : x = s[k]
      BY DEF ToSet
    <3>2. \E j \in 1 .. Len(t) : t[j] = x
      <4>1. CASE k < i
        BY <1>1, <3>1, <4>1
      <4>2. CASE k >= i
        <5>1. k + 1 \in 1 .. Len(t) /\ t[k + 1] = x
          BY <1>1, <3>1, <4>2
        <5>. QED
          BY <5>1
      <4>. QED
        BY <4>1, <4>2
    <3>3. DOMAIN t = 1 .. Len(t)
      BY <1>1
    <3>. QED
      BY <3>2, <3>3 DEF ToSet
  <2>3. e \in ToSet(t)
    BY <1>1 DEF ToSet
  <2>. QED
    BY <2>1, <2>2, <2>3
<1>. QED
    BY <1>1, <1>3, <1>4 DEF t

-----------------------------------------------------------------------------
(* Counting: sets that share a budget with a number. *)

\* Four elements do not fit into a set of three.
LEMMA FourElements ==
    ASSUME NEW S, IsFiniteSet(S), NEW a \in S, NEW b \in S, NEW c \in S, NEW d \in S,
           a # b, a # c, a # d, b # c, b # d, c # d
    PROVE  Cardinality(S) >= 4
<1>1. IsFiniteSet({a}) /\ Cardinality({a}) = 1
    BY FS_Singleton
<1>a. \A T, x : IsFiniteSet(T) /\ x \notin T =>
        IsFiniteSet(T \cup {x}) /\ Cardinality(T \cup {x}) = Cardinality(T) + 1
    BY FS_AddElement
<1>2. IsFiniteSet({a, b}) /\ Cardinality({a, b}) = 2
  <2>1. {a, b} = {a} \cup {b} /\ b \notin {a}
    OBVIOUS
  <2>2. QED
    BY <1>1, <2>1, <1>a
<1>3. IsFiniteSet({a, b, c}) /\ Cardinality({a, b, c}) = 3
  <2>1. {a, b, c} = {a, b} \cup {c} /\ c \notin {a, b}
    OBVIOUS
  <2>2. QED
    BY <1>2, <2>1, <1>a
<1>4. IsFiniteSet({a, b, c, d}) /\ Cardinality({a, b, c, d}) = 4
  <2>1. {a, b, c, d} = {a, b, c} \cup {d} /\ d \notin {a, b, c}
    OBVIOUS
  <2>2. QED
    BY <1>3, <2>1, <1>a
<1>5. {a, b, c, d} \subseteq S
    OBVIOUS
<1>6. Cardinality({a, b, c, d}) <= Cardinality(S)
    BY <1>5, FS_Subset
<1>7. Cardinality(S) \in Nat
    BY FS_CardinalityType
<1>. QED
    BY <1>4, <1>6, <1>7

\* The set S and the number n together stay within d.
Fits(S, n, d) == IsFiniteSet(S) /\ Cardinality(S) + n <= d

\* They do as long as the set gets no new elements, ...
LEMMA BudgetKept ==
    ASSUME NEW S, NEW n \in Nat, NEW d \in Nat, Fits(S, n, d), NEW T \in SUBSET S
    PROVE  Fits(T, n, d)
<1>1. /\ IsFiniteSet(T) /\ Cardinality(T) <= Cardinality(S)
      /\ Cardinality(T) \in Nat /\ Cardinality(S) \in Nat
    BY FS_Subset, FS_CardinalityType DEF Fits
<1>. QED
    BY <1>1 DEF Fits

\* ... when the number grows by an element that leaves the set, ...
LEMMA BudgetUsed ==
    ASSUME NEW S, NEW n \in Nat, NEW d \in Nat, Fits(S, n, d),
           NEW e \in S, NEW T \in SUBSET (S \ {e})
    PROVE  Fits(T, n + 1, d)
<1>1. /\ IsFiniteSet(S \ {e}) /\ Cardinality(S \ {e}) = Cardinality(S) - 1
      /\ Cardinality(S) \in Nat
    BY FS_RemoveElement, FS_CardinalityType DEF Fits
<1>2. /\ IsFiniteSet(T) /\ Cardinality(T) <= Cardinality(S \ {e}) /\ Cardinality(T) \in Nat
    BY <1>1, FS_Subset, FS_CardinalityType
<1>. QED
    BY <1>1, <1>2 DEF Fits

\* ... and when an element comes with a larger budget.
LEMMA BudgetMade ==
    ASSUME NEW S, NEW n \in Nat, NEW d \in Nat, Fits(S, n, d),
           NEW e, NEW T \in SUBSET (S \cup {e})
    PROVE  Fits(T, n, d + 1)
<1>1. /\ IsFiniteSet(S \cup {e}) /\ Cardinality(S \cup {e}) <= Cardinality(S) + 1
      /\ Cardinality(S) \in Nat
  <2>1. /\ IsFiniteSet(S \cup {e}) /\ Cardinality(S) \in Nat
        /\ Cardinality(S \cup {e}) = IF e \in S THEN Cardinality(S) ELSE Cardinality(S) + 1
    BY FS_AddElement, FS_CardinalityType DEF Fits
  <2>. QED
    BY <2>1
<1>2. /\ IsFiniteSet(T) /\ Cardinality(T) <= Cardinality(S \cup {e})
      /\ Cardinality(T) \in Nat /\ Cardinality(S \cup {e}) \in Nat
    BY <1>1, FS_Subset, FS_CardinalityType
<1>. QED
    BY <1>1, <1>2 DEF Fits
=============================================================================
