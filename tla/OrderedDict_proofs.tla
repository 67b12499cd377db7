------------------------- MODULE OrderedDict_proofs -------------------------
(* What removing and appending does to a sequence that lists a dictionary. *)
EXTENDS OrderedDict, SequenceTheorems, TLAPS

\* Removing one element keeps the others, in their order.
LEMMA RemoveAtPositions ==
  ASSUME NEW T, NEW s \in Seq(T), NEW i \in 1..Len(s)
  PROVE  /\ RemoveAt(s, i) \in Seq(T)
         /\ Len(RemoveAt(s, i)) = Len(s) - 1
         /\ \A j \in 1..(Len(s) - 1) :
              RemoveAt(s, i)[j] = IF j < i THEN s[j] ELSE s[j + 1]
<1> DEFINE a == SubSeq(s, 1, i - 1)
           b == SubSeq(s, i + 1, Len(s))
<1>0. /\ Len(s) \in Nat /\ i \in Nat /\ 1 <= i /\ i <= Len(s)
      /\ \A j \in 1..Len(s) : s[j] \in T
  BY LenProperties, ElementOfSeq
<1>1. /\ a \in Seq(T) /\ Len(a) = i - 1
      /\ \A j \in 1..(i - 1) : a[j] = s[j]
  <2>1. /\ a \in Seq(T) /\ Len(a) = IF 1 <= i - 1 THEN (i - 1) - 1 + 1 ELSE 0
        /\ \A j \in 1..((i - 1) - 1 + 1) : a[j] = s[1 + j - 1]
    <3>1. \A j \in 1..(i - 1) : s[j] \in T
      BY <1>0
    <3> QED BY <3>1, <1>0, SubSeqProperties
  <2> QED BY <2>1, <1>0
<1>2. /\ b \in Seq(T) /\ Len(b) = Len(s) - i
      /\ \A j \in 1..(Len(s) - i) : b[j] = s[i + j]
  <2>1. /\ b \in Seq(T)
        /\ Len(b) = IF i + 1 <= Len(s) THEN Len(s) - (i + 1) + 1 ELSE 0
        /\ \A j \in 1..(Len(s) - (i + 1) + 1) : b[j] = s[(i + 1) + j - 1]
    <3>1. \A j \in (i + 1)..Len(s) : s[j] \in T
      BY <1>0
    <3> QED BY <3>1, <1>0, SubSeqProperties
  <2> QED BY <2>1, <1>0
<1>3. RemoveAt(s, i) = a \o b
  BY DEF RemoveAt
<1> HIDE DEF a, b
<1>4. /\ a \o b \in Seq(T) /\ Len(a \o b) = Len(a) + Len(b)
      /\ \A j \in 1..(Len(a) + Len(b)) :
           (a \o b)[j] = IF j <= Len(a) THEN a[j] ELSE b[j - Len(a)]
  BY <1>1, <1>2, ConcatProperties
<1>5. ASSUME NEW j \in 1..(Len(s) - 1)
      PROVE  (a \o b)[j] = IF j < i THEN s[j] ELSE s[j + 1]
  <2>1. CASE j < i
    BY <2>1, <1>0, <1>1, <1>2, <1>4
  <2>2. CASE ~(j < i)
    <3>1. j - (i - 1) \in 1..(Len(s) - i)
      BY <2>2, <1>0
    <3>2. (a \o b)[j] = b[j - (i - 1)]
      BY <2>2, <1>0, <1>1, <1>2, <1>4
    <3>3. b[j - (i - 1)] = s[i + (j - (i - 1))]
      BY <3>1, <1>2
    <3>4. i + (j - (i - 1)) = j + 1
      BY <1>0
    <3> QED BY <3>2, <3>3, <3>4, <2>2
  <2> QED BY <2>1, <2>2
<1> QED BY <1>0, <1>1, <1>2, <1>3, <1>4, <1>5

\* What is left of a sequence after RemoveOne: a sequence over the same set,
\* with no new elements, the elements at other positions, and no repetition
\* that was not there.
THEOREM RemoveOneProperties ==
  ASSUME NEW T, NEW s \in Seq(T), NEW S \in SUBSET (1..Len(s))
  PROVE  /\ RemoveOne(s, S) \in Seq(T)
         /\ Len(RemoveOne(s, S)) = IF S = {} THEN Len(s) ELSE Len(s) - 1
         /\ ToSet(RemoveOne(s, S)) \subseteq ToSet(s)
         /\ \A j \in 1..Len(s) : j \notin S => s[j] \in ToSet(RemoveOne(s, S))
         /\ Distinct(s) =>
              /\ Distinct(RemoveOne(s, S))
              /\ \A j \in S : S = {j} => s[j] \notin ToSet(RemoveOne(s, S))
<1>0. Len(s) \in Nat /\ DOMAIN s = 1..Len(s)
  BY LenProperties
<1>1. CASE S = {}
  BY <1>0, <1>1 DEF RemoveOne, ToSet
<1>2. CASE S # {}
  <2> DEFINE i == CHOOSE i \in S : TRUE
             r == RemoveAt(s, i)
  <2>1. i \in S /\ i \in 1..Len(s) /\ RemoveOne(s, S) = r
    BY <1>2 DEF RemoveOne
  <2> HIDE DEF i
  <2>2. /\ r \in Seq(T) /\ Len(r) = Len(s) - 1
        /\ \A j \in 1..(Len(s) - 1) : r[j] = IF j < i THEN s[j] ELSE s[j + 1]
    BY <2>1, RemoveAtPositions
  <2>3. DOMAIN r = 1..(Len(s) - 1)
    BY <2>2, LenProperties
  <2> HIDE DEF r
  <2>4. ToSet(r) \subseteq ToSet(s)
    <3> SUFFICES ASSUME NEW j \in 1..(Len(s) - 1) PROVE r[j] \in ToSet(s)
      BY <2>3 DEF ToSet
    <3>1. j \in 1..Len(s) /\ j + 1 \in 1..Len(s)
      BY <1>0
    <3> QED BY <3>1, <2>2, <1>0 DEF ToSet
  <2>5. ASSUME NEW j \in 1..Len(s), j # i PROVE s[j] \in ToSet(r)
    <3>1. CASE j < i
      <4>1. j \in 1..(Len(s) - 1) /\ r[j] = s[j]
        BY <3>1, <2>1, <2>2, <1>0
      <4> QED BY <4>1, <2>3 DEF ToSet
    <3>2. CASE ~(j < i)
      <4>1. j - 1 \in 1..(Len(s) - 1) /\ r[j - 1] = s[j]
        BY <3>2, <2>1, <2>2, <2>5, <1>0
      <4> QED BY <4>1, <2>3 DEF ToSet
    <3> QED BY <3>1, <3>2
  <2>6. ASSUME Distinct(s) PROVE Distinct(r)
    <3> SUFFICES ASSUME NEW j \in 1..(Len(s) - 1), NEW k \in 1..(Len(s) - 1),
                        r[j] = r[k]
                 PROVE  j = k
      BY <2>3 DEF Distinct
    <3> DEFINE p(x) == IF x < i THEN x ELSE x + 1
    <3>1. i \in Nat
      BY <2>1, <1>0
    <3>2. p(j) \in 1..Len(s) /\ p(k) \in 1..Len(s)
      BY <3>1, <1>0
    <3>3. r[j] = s[p(j)] /\ r[k] = s[p(k)]
      BY <2>2
    <3>4. p(j) = p(k) => j = k
      BY <3>1, <1>0
    <3> HIDE DEF p
    <3>5. p(j) = p(k)
      BY <3>2, <3>3, <2>6, <1>0 DEF Distinct
    <3> QED BY <3>4, <3>5
  <2>7. ASSUME Distinct(s), NEW j \in S, S = {j} PROVE s[j] \notin ToSet(r)
    <3>1. j = i
      BY <2>1, <2>7
    <3> SUFFICES ASSUME NEW k \in 1..(Len(s) - 1), r[k] = s[i]
                 PROVE  FALSE
      BY <2>3, <3>1 DEF ToSet
    <3>2. CASE k < i
      <4>1. k \in 1..Len(s) /\ s[k] = s[i] /\ k # i
        BY <3>2, <2>1, <2>2, <1>0
      <4> QED BY <4>1, <2>1, <2>7, <1>0 DEF Distinct
    <3>3. CASE ~(k < i)
      <4>1. k + 1 \in 1..Len(s) /\ s[k + 1] = s[i] /\ k + 1 # i
        BY <3>3, <2>1, <2>2, <1>0
      <4> QED BY <4>1, <2>1, <2>7, <1>0 DEF Distinct
    <3> QED BY <3>2, <3>3, <2>1, <1>0
  <2>8. \A j \in 1..Len(s) : j \notin S => s[j] \in ToSet(r)
    BY <2>1, <2>5
  <2>9. Distinct(s) => Distinct(r)
    BY <2>6
  <2>10. Distinct(s) => \A j \in S : S = {j} => s[j] \notin ToSet(r)
    BY <2>7
  <2> QED BY <1>2, <2>1, <2>2, <2>4, <2>8, <2>9, <2>10
<1> QED BY <1>1, <1>2

\* A key appended: nothing else is new.
LEMMA AppendKey ==
  ASSUME NEW T, NEW s \in Seq(T), NEW x \in T
  PROVE  /\ Append(s, x) \in Seq(T) /\ Len(Append(s, x)) = Len(s) + 1
         /\ ToSet(Append(s, x)) = ToSet(s) \cup {x}
         /\ Distinct(s) /\ x \notin ToSet(s) => Distinct(Append(s, x))
<1> DEFINE a == Append(s, x)
<1>0. a = Append(s, x)
  OBVIOUS
<1>1. /\ Len(s) \in Nat /\ DOMAIN s = 1..Len(s)
      /\ a \in Seq(T) /\ Len(a) = Len(s) + 1 /\ DOMAIN a = 1..(Len(s) + 1)
      /\ \A i \in 1..Len(s) : a[i] = s[i]
      /\ a[Len(s) + 1] = x
  BY LenProperties
<1> HIDE DEF a
<1>2. ToSet(a) = ToSet(s) \cup {x}
  <2>1. ASSUME NEW i \in 1..(Len(s) + 1) PROVE a[i] \in ToSet(s) \cup {x}
    BY <1>1 DEF ToSet
  <2>2. ASSUME NEW i \in 1..Len(s) PROVE s[i] \in ToSet(a)
    BY <1>1 DEF ToSet
  <2>3. x \in ToSet(a)
    BY <1>1 DEF ToSet
  <2> QED BY <2>1, <2>2, <2>3, <1>1 DEF ToSet
<1>3. ASSUME Distinct(s), x \notin ToSet(s) PROVE Distinct(a)
  BY <1>1, <1>3 DEF Distinct, ToSet
<1> QED BY <1>0, <1>1, <1>2, <1>3

\* The first key dropped: the others stay.
LEMMA DropFirst ==
  ASSUME NEW T, NEW s \in Seq(T), s # <<>>
  PROVE  /\ Head(s) \in ToSet(s) /\ Head(s) \in T
         /\ Tail(s) \in Seq(T) /\ Len(Tail(s)) = Len(s) - 1
         /\ ToSet(s) = {Head(s)} \cup ToSet(Tail(s))
         /\ Distinct(s) => Distinct(Tail(s)) /\ Head(s) \notin ToSet(Tail(s))
<1> DEFINE h == Head(s)
           t == Tail(s)
<1>0. h = Head(s) /\ t = Tail(s)
  OBVIOUS
<1>1. /\ Len(s) \in Nat /\ Len(s) > 0 /\ DOMAIN s = 1..Len(s)
      /\ t \in Seq(T) /\ Len(t) = Len(s) - 1 /\ DOMAIN t = 1..(Len(s) - 1)
      /\ \A i \in 1..(Len(s) - 1) : t[i] = s[i + 1]
      /\ h = s[1] /\ h \in T
  BY LenProperties, EmptySeq, HeadTailProperties, ElementOfSeq
<1> HIDE DEF h, t
<1>2. ToSet(s) = {h} \cup ToSet(t)
  <2>1. ASSUME NEW i \in 1..Len(s) PROVE s[i] \in {h} \cup ToSet(t)
    <3>1. CASE i = 1
      BY <3>1, <1>1
    <3>2. CASE i # 1
      <4>1. i - 1 \in 1..(Len(s) - 1) /\ t[i - 1] = s[i]
        BY <3>2, <1>1
      <4> QED BY <4>1, <1>1 DEF ToSet
    <3> QED BY <3>1, <3>2
  <2>2. ASSUME NEW i \in 1..(Len(s) - 1) PROVE t[i] \in ToSet(s)
    <3>1. i + 1 \in 1..Len(s)
      BY <1>1
    <3> QED BY <3>1, <1>1 DEF ToSet
  <2>3. h \in ToSet(s)
    BY <1>1 DEF ToSet
  <2> QED BY <2>1, <2>2, <2>3, <1>1 DEF ToSet
<1>3. ASSUME Distinct(s) PROVE Distinct(t)
  <2> SUFFICES ASSUME NEW i \in 1..(Len(s) - 1), NEW j \in 1..(Len(s) - 1),
                      t[i] = t[j]
               PROVE  i = j
    BY <1>1 DEF Distinct
  <2>1. i + 1 \in 1..Len(s) /\ j + 1 \in 1..Len(s) /\ s[i + 1] = s[j + 1]
    BY <1>1
  <2> QED BY <2>1, <1>1, <1>3 DEF Distinct
<1>4. ASSUME Distinct(s) PROVE h \notin ToSet(t)
  <2> SUFFICES ASSUME NEW i \in 1..(Len(s) - 1), t[i] = h PROVE FALSE
    BY <1>1 DEF ToSet
  <2>1. i + 1 \in 1..Len(s) /\ 1 \in 1..Len(s) /\ s[i + 1] = s[1]
    BY <1>1
  <2> QED BY <2>1, <1>1, <1>4 DEF Distinct
<1> QED BY <1>0, <1>1, <1>2, <1>3, <1>4
============================================================================
