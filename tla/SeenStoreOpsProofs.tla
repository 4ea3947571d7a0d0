------------------------- MODULE SeenStoreOpsProofs -------------------------
(***************************************************************************)
(* Lemmas about the sequence operators the claim stores are built from:    *)
(* dropping a prefix, removing one element, keeping the youngest, and the  *)
(* granting and releasing of claims.                                       *)
(***************************************************************************)
EXTENDS SeenStoreOps, SequenceTheorems, TLAPS

(* Dropping the first m - 1 elements of a sequence. *)
LEMMA SuffixProperties ==
    ASSUME NEW S, NEW s \in Seq(S), NEW m \in 1 .. Len(s) + 1
    PROVE  LET t == SubSeq(s, m, Len(s))
           IN  /\ t \in Seq(S)
               /\ Len(t) = Len(s) - m + 1
               /\ \A i \in 1 .. Len(t) : t[i] = s[m + i - 1]
<1>1. Len(s) \in Nat /\ \A i \in m .. Len(s) : s[i] \in S
  BY LenProperties, ElementOfSeq
<1>2. QED
  BY <1>1, SubSeqProperties

(* Removing the element at position i. *)
LEMMA RemoveAtProperties ==
    ASSUME NEW S, NEW s \in Seq(S), NEW i \in 1 .. Len(s)
    PROVE  LET t == RemoveAt(s, i)
           IN  /\ t \in Seq(S)
               /\ Len(t) = Len(s) - 1
               /\ \A j \in 1 .. Len(t) :
                      t[j] = IF j < i THEN s[j] ELSE s[j + 1]
<1> DEFINE a == SubSeq(s, 1, i - 1)
           b == SubSeq(s, i + 1, Len(s))
<1>1. Len(s) \in Nat /\ \A j \in 1 .. Len(s) : s[j] \in S
  BY LenProperties, ElementOfSeq
<1>2. /\ a \in Seq(S)
      /\ Len(a) = i - 1
      /\ \A j \in 1 .. i - 1 : a[j] = s[j]
  <2>1. \A j \in 1 .. i - 1 : s[j] \in S
    BY <1>1
  <2>2. QED
    BY <1>1, <2>1, SubSeqProperties
<1>3. /\ b \in Seq(S)
      /\ Len(b) = Len(s) - i
      /\ \A j \in 1 .. Len(b) : b[j] = s[i + j]
  BY <1>1, SuffixProperties
<1>4. RemoveAt(s, i) = a \o b
  BY DEF RemoveAt
<1> HIDE DEF a, b
<1>5. /\ a \o b \in Seq(S)
      /\ Len(a \o b) = Len(a) + Len(b)
      /\ \A j \in 1 .. Len(a) + Len(b) :
            (a \o b)[j] = IF j <= Len(a) THEN a[j] ELSE b[j - Len(a)]
  BY <1>2, <1>3, ConcatProperties
<1>6. Len(a) + Len(b) = Len(s) - 1
  BY <1>1, <1>2, <1>3
<1>7. ASSUME NEW j \in 1 .. Len(s) - 1
      PROVE  (a \o b)[j] = IF j < i THEN s[j] ELSE s[j + 1]
  <2>1. CASE j < i
    BY <1>1, <1>2, <1>5, <1>6, <2>1
  <2>2. CASE ~(j < i)
    <3>1. j - Len(a) \in 1 .. Len(b) /\ ~(j <= Len(a))
      BY <1>1, <1>2, <1>3, <2>2
    <3>2. (a \o b)[j] = b[j - Len(a)]
      BY <1>5, <1>6, <3>1
    <3>3. b[j - Len(a)] = s[i + (j - Len(a))]
      BY <1>3, <3>1
    <3>4. i + (j - Len(a)) = j + 1
      BY <1>1, <1>2
    <3>5. QED
      BY <2>2, <3>2, <3>3, <3>4
  <2>3. QED
    BY <2>1, <2>2
<1>8. QED
  BY <1>4, <1>5, <1>6, <1>7

(* t is what is left of s once its first d elements are dropped. *)
DropsFirst(t, s, d) ==
    /\ d \in 0 .. Len(s)
    /\ Len(t) = Len(s) - d
    /\ \A i \in 1 .. Len(t) : t[i] = s[d + i]

(* Keeping the youngest: a suffix within the bound, never empty unless s is. *)
LEMMA YoungestProperties ==
    ASSUME NEW S, NEW s \in Seq(S)
    PROVE  /\ Youngest(s) \in Seq(S)
           /\ Len(Youngest(s)) <= MaxEntries
           /\ s # <<>> => Len(Youngest(s)) >= 1
           /\ \E d : DropsFirst(Youngest(s), s, d)
<1>1. Len(s) \in Nat /\ (s # <<>> => Len(s) >= 1)
  BY LenProperties, EmptySeq
<1>2. CASE Len(s) > MaxEntries
  <2> DEFINE d == Len(s) - MaxEntries
  <2>1. d + 1 \in 1 .. Len(s) + 1 /\ d \in 0 .. Len(s)
    BY <1>1, <1>2, MaxEntriesAssumption
  <2>2. Youngest(s) = SubSeq(s, d + 1, Len(s))
    BY <1>2 DEF Youngest
  <2>3. /\ Youngest(s) \in Seq(S)
        /\ Len(Youngest(s)) = Len(s) - d
        /\ \A i \in 1 .. Len(Youngest(s)) : Youngest(s)[i] = s[d + i]
    BY <1>1, <2>1, <2>2, SuffixProperties
  <2> HIDE DEF d
  <2>4. DropsFirst(Youngest(s), s, d)
    BY <2>1, <2>3 DEF DropsFirst
  <2>5. Len(Youngest(s)) = MaxEntries
    BY <1>1, <2>3, MaxEntriesAssumption DEF d
  <2>6. QED
    BY <2>3, <2>4, <2>5, MaxEntriesAssumption
<1>3. CASE ~(Len(s) > MaxEntries)
  <2>1. Youngest(s) = s
    BY <1>3 DEF Youngest
  <2>2. DropsFirst(s, s, 0)
    BY <1>1 DEF DropsFirst
  <2>3. QED
    BY <1>1, <1>3, <2>1, <2>2, MaxEntriesAssumption
<1>4. QED
  BY <1>2, <1>3

(* What holding, granting and releasing do to the set of ids held. *)
LEMMA GrantedProperties ==
    ASSUME NEW S, NEW held \in Seq(S), NEW e \in S
    PROVE  /\ Granted(held, e) \in Seq(S)
           /\ Len(Granted(held, e)) <= MaxEntries
           /\ e \in ToSet(Granted(held, e))
           /\ ToSet(Granted(held, e)) \subseteq ToSet(held) \cup {e}
           /\ IsInjective(held) /\ e \notin ToSet(held)
                => IsInjective(Granted(held, e))
<1> DEFINE s == Append(held, e)
<1>1. /\ s \in Seq(S) /\ s # <<>>
      /\ Len(s) = Len(held) + 1
      /\ \A i \in 1 .. Len(held) : s[i] = held[i]
      /\ s[Len(s)] = e
  BY AppendProperties
<1>2. Len(held) \in Nat /\ DOMAIN held = 1 .. Len(held) /\ DOMAIN s = 1 .. Len(s)
  BY <1>1, LenProperties
<1> HIDE DEF s
<1>3. /\ Youngest(s) \in Seq(S)
      /\ Len(Youngest(s)) <= MaxEntries
      /\ Len(Youngest(s)) >= 1
      /\ \E d : DropsFirst(Youngest(s), s, d)
  BY <1>1, YoungestProperties
<1> DEFINE y == Youngest(s)
<1>4. PICK d : DropsFirst(y, s, d)
  BY <1>3
<1>5. Granted(held, e) = y
  BY DEF Granted, s
<1>6. Len(y) \in Nat /\ DOMAIN y = 1 .. Len(y)
  BY <1>3, LenProperties
<1> HIDE DEF y
<1>7. Len(y) \in DOMAIN y /\ y[Len(y)] = e
  BY <1>1, <1>2, <1>3, <1>4, <1>6 DEF y, DropsFirst
<1>8. \A i \in DOMAIN y : y[i] \in ToSet(held) \cup {e}
  <2> TAKE i \in DOMAIN y
  <2>1. y[i] = s[d + i] /\ d + i \in 1 .. Len(held) + 1
    BY <1>1, <1>2, <1>3, <1>4, <1>6 DEF y, DropsFirst
  <2>2. CASE d + i = Len(held) + 1
    BY <1>1, <2>1, <2>2
  <2>3. CASE d + i \in 1 .. Len(held)
    <3>1. s[d + i] = held[d + i]
      BY <1>1, <2>3
    <3>2. QED
      BY <1>2, <2>1, <2>3, <3>1 DEF ToSet
  <2>4. QED
    BY <1>2, <2>1, <2>2, <2>3
<1>9. e \in ToSet(y) /\ ToSet(y) \subseteq ToSet(held) \cup {e}
  BY <1>7, <1>8 DEF ToSet
<1>10. ASSUME IsInjective(held), e \notin ToSet(held)
       PROVE  IsInjective(y)
  <2>1. \A i, j \in 1 .. Len(held) : held[i] = held[j] => i = j
    BY <1>2, <1>10 DEF IsInjective
  <2>2. \A i \in 1 .. Len(held) : held[i] # e
    BY <1>2, <1>10 DEF ToSet
  <2>3. \A i, j \in 1 .. Len(s) : s[i] = s[j] => i = j
    BY <1>1, <1>2, <2>1, <2>2
  <2>4. \A i, j \in 1 .. Len(y) : y[i] = y[j] => i = j
    BY <1>1, <1>2, <1>4, <1>6, <2>3 DEF DropsFirst
  <2>5. QED
    BY <1>6, <2>4 DEF IsInjective
<1>11. QED
  BY <1>3, <1>5, <1>9, <1>10 DEF y

LEMMA ReleasedProperties ==
    ASSUME NEW S, NEW held \in Seq(S), IsInjective(held), NEW e
    PROVE  /\ Released(held, e) \in Seq(S)
           /\ Len(Released(held, e)) <= Len(held)
           /\ IsInjective(Released(held, e))
           /\ ToSet(Released(held, e)) = ToSet(held) \ {e}
<1>1. Len(held) \in Nat /\ DOMAIN held = 1 .. Len(held)
  BY LenProperties
<1>2. CASE e \notin ToSet(held)
  BY <1>1, <1>2 DEF Released
<1>3. CASE e \in ToSet(held)
  <2> DEFINE i == CHOOSE k \in DOMAIN held : held[k] = e
             t == RemoveAt(held, i)
  <2>1. i \in DOMAIN held /\ held[i] = e
    BY <1>3 DEF ToSet
  <2>2. Released(held, e) = t
    BY <1>3 DEF Released
  <2> HIDE DEF i
  <2>3. /\ t \in Seq(S)
        /\ Len(t) = Len(held) - 1
        /\ \A j \in 1 .. Len(t) : t[j] = IF j < i THEN held[j] ELSE held[j + 1]
    BY <1>1, <2>1, RemoveAtProperties
  <2>4. DOMAIN t = 1 .. Len(t)
    BY <2>3, LenProperties
  <2> HIDE DEF t
  <2>5. \A k \in DOMAIN held : held[k] = e => k = i
    BY <2>1 DEF IsInjective
  <2>6. IsInjective(t)
    <3>1. \A k, l \in 1 .. Len(held) : held[k] = held[l] => k = l
      BY <1>1 DEF IsInjective
    <3>2. \A k, l \in 1 .. Len(t) : t[k] = t[l] => k = l
      BY <1>1, <2>1, <2>3, <3>1
    <3>3. QED
      BY <2>4, <3>2 DEF IsInjective
  <2>7. ToSet(t) \subseteq ToSet(held) \ {e}
    <3> SUFFICES ASSUME NEW j \in 1 .. Len(t)
                 PROVE  t[j] \in ToSet(held) \ {e}
      BY <2>4 DEF ToSet
    <3>1. \E k \in DOMAIN held : k # i /\ t[j] = held[k]
      BY <1>1, <2>1, <2>3
    <3>2. QED
      BY <2>5, <3>1 DEF ToSet
  <2>8. ToSet(held) \ {e} \subseteq ToSet(t)
    <3> SUFFICES ASSUME NEW k \in DOMAIN held, held[k] # e
                 PROVE  \E j \in DOMAIN t : t[j] = held[k]
      BY DEF ToSet
    <3>1. CASE k < i
      BY <1>1, <2>1, <2>3, <2>4, <3>1
    <3>2. CASE k > i
      <4>1. k - 1 \in 1 .. Len(t) /\ ~(k - 1 < i) /\ (k - 1) + 1 = k
        BY <1>1, <2>1, <2>3, <3>2
      <4>2. t[k - 1] = held[k]
        BY <2>3, <4>1
      <4>3. QED
        BY <2>4, <4>1, <4>2
    <3>3. QED
      BY <1>1, <2>1, <3>1, <3>2
  <2>9. QED
    BY <1>1, <2>2, <2>3, <2>6, <2>7, <2>8
<1>4. QED
  BY <1>2, <1>3
=============================================================================
