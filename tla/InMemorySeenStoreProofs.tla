----------------------- MODULE InMemorySeenStoreProofs -----------------------
(***************************************************************************)
(* The invariants of InMemorySeenStore, for every set of ids, every bound  *)
(* and every TTL, and that it implements SeenStore.  OldestFirst is what   *)
(* makes the two loops of _evict right and is inductive together with the  *)
(* types and the bounds: a new item expires at now + Ttl, and WithinBounds *)
(* says that no item in the store expires later than that.                 *)
(***************************************************************************)
EXTENDS InMemorySeenStore, SeenStoreOpsProofs, FiniteSetTheorems

Ordered(c) == \A i, j \in DOMAIN c :
                  i < j => /\ c[i].id # c[j].id
                           /\ c[i].expires <= c[j].expires

ExpiresWithin(c, t) == \A i \in DOMAIN c : c[i].expires <= t + Ttl

IInv == TypeOK /\ OldestFirst /\ WithinBounds
-----------------------------------------------------------------------------
(* Min of the community modules returns the least of a set of naturals. *)
LEMMA MinProperties ==
    ASSUME NEW T \in SUBSET Nat, T # {}
    PROVE  Min(T) \in T /\ \A y \in T : Min(T) <= y
<1> DEFINE F == {0 .. x : x \in T}
           R == StrictSubsetOrdering(Nat)
<1>1. F \subseteq FiniteSubsetsOf(Nat) /\ F # {}
  <2>1. \A x \in T : 0 .. x \in SUBSET Nat /\ IsFiniteSet(0 .. x)
    BY FS_Interval
  <2>2. QED
    BY <2>1 DEF FiniteSubsetsOf
<1>2. IsWellFoundedOn(R, FiniteSubsetsOf(Nat))
  BY FS_StrictSubsetOrderingWellFounded
<1> HIDE DEF R
<1>3. PICK X \in F : \A Y \in F : ~(<<Y, X>> \in R)
  <2> HIDE DEF F
  <2>1. QED
    BY <1>1, <1>2, WFMin
<1>4. PICK x \in T : X = 0 .. x
  BY <1>3
<1>5. ASSUME NEW y \in T, y < x
      PROVE  FALSE
  <2>1. 0 .. y \in SUBSET Nat /\ 0 .. x \in SUBSET Nat
    OBVIOUS
  <2>2. 0 .. y \subseteq 0 .. x /\ x \in 0 .. x /\ x \notin 0 .. y
    BY <1>5
  <2>3. <<0 .. y, 0 .. x>> \in R
    BY <2>1, <2>2 DEF R, StrictSubsetOrdering
  <2>4. QED
    BY <1>3, <1>4, <2>3
<1>6. \A y \in T : x <= y
  BY <1>5
<1>7. QED
  BY <1>6 DEF Min

(* A prefix dropped leaves order and expiries as they were. *)
LEMMA DropKeepsOrder ==
    ASSUME NEW c \in Seq(Item), NEW t \in Seq(Item), NEW d, NEW n \in Nat,
           DropsFirst(t, c, d), Ordered(c), ExpiresWithin(c, n)
    PROVE  Ordered(t) /\ ExpiresWithin(t, n)
<1>1. /\ Len(c) \in Nat /\ DOMAIN c = 1 .. Len(c)
      /\ Len(t) \in Nat /\ DOMAIN t = 1 .. Len(t)
  BY LenProperties
<1>2. \A i \in DOMAIN t : d + i \in DOMAIN c /\ t[i] = c[d + i]
  BY <1>1 DEF DropsFirst
<1>3. \A i, j \in DOMAIN t : i < j => d + i < d + j
  BY <1>1 DEF DropsFirst
<1>4. QED
  BY <1>2, <1>3 DEF Ordered, ExpiresWithin

(* pop(e) removes the one item of e, if there is one, and nothing else. *)
LEMMA PopProperties ==
    ASSUME NEW c \in Seq(Item), NEW e, NEW n \in Nat,
           Ordered(c), ExpiresWithin(c, n)
    PROVE  /\ Pop(c, e) \in Seq(Item)
           /\ Len(Pop(c, e)) <= Len(c)
           /\ Ordered(Pop(c, e)) /\ ExpiresWithin(Pop(c, e), n)
           /\ \A i \in DOMAIN Pop(c, e) : Pop(c, e)[i].id # e
<1>1. Len(c) \in Nat /\ DOMAIN c = 1 .. Len(c)
  BY LenProperties
<1>2. CASE IndicesOf(c, e) = {}
  BY <1>1, <1>2 DEF Pop, IndicesOf
<1>3. CASE IndicesOf(c, e) # {}
  <2> DEFINE k == CHOOSE i \in IndicesOf(c, e) : TRUE
             t == RemoveAt(c, k)
  <2>1. k \in DOMAIN c /\ c[k].id = e
    BY <1>3 DEF IndicesOf
  <2>2. Pop(c, e) = t
    BY <1>3 DEF Pop
  <2> HIDE DEF k
  <2>3. /\ t \in Seq(Item)
        /\ Len(t) = Len(c) - 1
        /\ \A j \in 1 .. Len(t) : t[j] = IF j < k THEN c[j] ELSE c[j + 1]
    BY <1>1, <2>1, RemoveAtProperties
  <2>4. DOMAIN t = 1 .. Len(t)
    BY <2>3, LenProperties
  <2> HIDE DEF t
  <2> DEFINE from(j) == IF j < k THEN j ELSE j + 1
  <2>5. \A j \in DOMAIN t : from(j) \in DOMAIN c /\ from(j) # k /\ t[j] = c[from(j)]
    BY <1>1, <2>1, <2>3, <2>4
  <2>6. \A i, j \in DOMAIN t : i < j => from(i) < from(j)
    BY <1>1, <2>1, <2>3, <2>4
  <2>7. \A i \in DOMAIN c : i # k => c[i].id # e
    <3>1. \A i \in DOMAIN c : i # k => i < k \/ k < i
      BY <1>1, <2>1
    <3>2. QED
      BY <2>1, <3>1 DEF Ordered
  <2> HIDE DEF from
  <2>8. Ordered(t) /\ ExpiresWithin(t, n)
    BY <2>5, <2>6 DEF Ordered, ExpiresWithin
  <2>9. \A i \in DOMAIN t : t[i].id # e
    BY <2>5, <2>7
  <2>10. QED
    BY <1>1, <2>2, <2>3, <2>8, <2>9
<1>4. QED
  BY <1>2, <1>3

(* A touched id has the last item, with a full lifetime. *)
LEMMA TouchProperties ==
    ASSUME NEW c \in Seq(Item), NEW e \in EventId, NEW n \in Nat,
           Ordered(c), ExpiresWithin(c, n)
    PROVE  LET t == Touch(c, e, n)
           IN  /\ t \in Seq(Item)
               /\ Len(t) <= Len(c) + 1
               /\ Ordered(t) /\ ExpiresWithin(t, n)
<1> DEFINE p == Pop(c, e)
           x == [id |-> e, expires |-> n + Ttl]
           t == Append(p, x)
<1>1. /\ p \in Seq(Item)
      /\ Len(p) <= Len(c)
      /\ Ordered(p) /\ ExpiresWithin(p, n)
      /\ \A i \in DOMAIN p : p[i].id # e
  BY PopProperties
<1>2. x \in Item /\ x.id = e /\ x.expires = n + Ttl /\ n + Ttl \in Nat
  BY TtlAssumption DEF Item
<1> HIDE DEF p, x
<1>3. /\ t \in Seq(Item)
      /\ Len(t) = Len(p) + 1
      /\ \A i \in 1 .. Len(p) : t[i] = p[i]
      /\ t[Len(p) + 1] = x
  BY <1>1, <1>2, AppendProperties
<1>4. /\ Len(p) \in Nat /\ DOMAIN p = 1 .. Len(p)
      /\ Len(c) \in Nat /\ DOMAIN t = 1 .. Len(t)
  BY <1>1, <1>3, LenProperties
<1> HIDE DEF t
<1>5. ExpiresWithin(t, n)
  <2> SUFFICES ASSUME NEW i \in DOMAIN t
               PROVE  t[i].expires <= n + Ttl
    BY DEF ExpiresWithin
  <2>1. CASE i = Len(p) + 1
    BY <1>2, <1>3, <2>1
  <2>2. CASE i \in DOMAIN p
    BY <1>1, <1>3, <1>4, <2>2 DEF ExpiresWithin
  <2>3. QED
    BY <1>3, <1>4, <2>1, <2>2
<1>6. Ordered(t)
  <2> SUFFICES ASSUME NEW i \in DOMAIN t, NEW j \in DOMAIN t, i < j
               PROVE  t[i].id # t[j].id /\ t[i].expires <= t[j].expires
    BY DEF Ordered
  <2>1. i \in DOMAIN p /\ t[i] = p[i]
    BY <1>3, <1>4
  <2>2. CASE j = Len(p) + 1
    <3>1. t[i].id # e /\ t[i].expires <= n + Ttl
      BY <1>1, <2>1 DEF ExpiresWithin
    <3>2. QED
      BY <1>2, <1>3, <2>2, <3>1
  <2>3. CASE j \in DOMAIN p
    BY <1>1, <1>3, <1>4, <2>1, <2>3 DEF Ordered
  <2>4. QED
    BY <1>3, <1>4, <2>2, <2>3
<1>7. QED
  BY <1>1, <1>3, <1>4, <1>5, <1>6 DEF Touch, p, t, x

(* _evict keeps a suffix, all of it alive and within the bound. *)
LEMMA DropExpiredProperties ==
    ASSUME NEW c \in Seq(Item), NEW n \in Nat, Ordered(c)
    PROVE  /\ DropExpired(c, n) \in Seq(Item)
           /\ \E d : DropsFirst(DropExpired(c, n), c, d)
           /\ \A i \in DOMAIN DropExpired(c, n) : Live(DropExpired(c, n)[i], n)
<1> DEFINE L == {i \in DOMAIN c : Live(c[i], n)}
           f == FirstLive(c, n)
           t == DropExpired(c, n)
<1>1. Len(c) \in Nat /\ DOMAIN c = 1 .. Len(c)
  BY LenProperties
<1>2. f \in L \cup {Len(c) + 1} /\ f \in 1 .. Len(c) + 1
  <2>1. L \cup {Len(c) + 1} \in SUBSET Nat /\ L \cup {Len(c) + 1} # {}
    BY <1>1
  <2>2. f \in L \cup {Len(c) + 1}
    BY <2>1, MinProperties DEF FirstLive
  <2>3. QED
    BY <1>1, <2>2
<1>3. t = SubSeq(c, f, Len(c))
  BY DEF DropExpired
<1> HIDE DEF f, t
<1>4. /\ t \in Seq(Item)
      /\ Len(t) = Len(c) - f + 1
      /\ \A i \in 1 .. Len(t) : t[i] = c[f + i - 1]
  BY <1>2, <1>3, SuffixProperties
<1>5. DOMAIN t = 1 .. Len(t)
  BY <1>4, LenProperties
<1>6. DropsFirst(t, c, f - 1)
  <2>1. f - 1 \in 0 .. Len(c) /\ Len(t) = Len(c) - (f - 1)
    BY <1>1, <1>2, <1>4
  <2>2. \A i \in 1 .. Len(t) : f + i - 1 = (f - 1) + i
    BY <1>2, <1>4, <1>5
  <2>3. QED
    BY <1>4, <2>1, <2>2 DEF DropsFirst
<1>7. ASSUME NEW i \in DOMAIN t
      PROVE  Live(t[i], n)
  <2>1. f \in DOMAIN c /\ Live(c[f], n)
    BY <1>1, <1>2, <1>4, <1>5
  <2>2. f + i - 1 \in DOMAIN c /\ t[i] = c[f + i - 1]
    BY <1>1, <1>2, <1>4, <1>5
  <2>3. f = f + i - 1 \/ f < f + i - 1
    BY <1>1, <1>2, <1>4, <1>5
  <2>4. c[f].expires <= c[f + i - 1].expires
    <3>1. c[f] \in Item
      BY <1>1, <2>1, ElementOfSeq
    <3>2. QED
      BY <2>1, <2>2, <2>3, <3>1 DEF Ordered, Item
  <2>5. c[f].expires \in Nat /\ c[f + i - 1].expires \in Nat
    <3>1. \A k \in DOMAIN c : c[k] \in Item
      BY <1>1, ElementOfSeq
    <3>2. QED
      BY <2>1, <2>2, <3>1 DEF Item
  <2>6. QED
    BY <2>1, <2>2, <2>4, <2>5 DEF Live
<1>8. QED
  BY <1>4, <1>6, <1>7 DEF t

LEMMA EvictProperties ==
    ASSUME NEW c \in Seq(Item), NEW n \in Nat,
           Ordered(c), ExpiresWithin(c, n)
    PROVE  LET t == Evict(c, n)
           IN  /\ t \in Seq(Item)
               /\ Len(t) <= MaxEntries
               /\ Ordered(t) /\ ExpiresWithin(t, n)
               /\ \A i \in DOMAIN t : Live(t[i], n)
<1> DEFINE s == DropExpired(c, n)
           t == Youngest(s)
<1>1. /\ s \in Seq(Item)
      /\ Ordered(s) /\ ExpiresWithin(s, n)
      /\ \A i \in DOMAIN s : Live(s[i], n)
  BY DropExpiredProperties, DropKeepsOrder
<1> HIDE DEF s
<1>2. /\ t \in Seq(Item)
      /\ Len(t) <= MaxEntries
      /\ \E d : DropsFirst(t, s, d)
  BY <1>1, YoungestProperties
<1>3. PICK d : DropsFirst(t, s, d)
  BY <1>2
<1> HIDE DEF t
<1>4. Ordered(t) /\ ExpiresWithin(t, n)
  BY <1>1, <1>2, <1>3, DropKeepsOrder
<1>5. /\ Len(s) \in Nat /\ DOMAIN s = 1 .. Len(s)
      /\ Len(t) \in Nat /\ DOMAIN t = 1 .. Len(t)
  BY <1>1, <1>2, LenProperties
<1>6. \A i \in DOMAIN t : d + i \in DOMAIN s /\ t[i] = s[d + i]
  BY <1>3, <1>5 DEF DropsFirst
<1>7. \A i \in DOMAIN t : Live(t[i], n)
  BY <1>1, <1>6
<1>8. QED
  BY <1>2, <1>4, <1>7 DEF Evict, s, t
-----------------------------------------------------------------------------
LEMMA InitEstablishesIInv == Init => IInv
<1> SUFFICES ASSUME Init PROVE IInv
  OBVIOUS
<1>1. claims \in Seq(Item) /\ DOMAIN claims = {} /\ Len(claims) = 0
  BY DEF Init
<1>2. QED
  BY <1>1, MaxEntriesAssumption DEF Init, IInv, TypeOK, OldestFirst, WithinBounds

LEMMA NextPreservesIInv == IInv /\ [Next]_vars => IInv'
<1> SUFFICES ASSUME IInv, [Next]_vars PROVE IInv'
  OBVIOUS
<1> USE DEF IInv
<1>1. /\ claims \in Seq(Item) /\ now \in Nat /\ Len(claims) <= MaxEntries
      /\ Len(claims) \in Nat
      /\ Ordered(claims) /\ ExpiresWithin(claims, now)
  BY LenProperties DEF TypeOK, OldestFirst, WithinBounds, Ordered, ExpiresWithin
<1>2. ASSUME claims' \in Seq(Item), Len(claims') <= MaxEntries,
             Ordered(claims'), ExpiresWithin(claims', now'),
             now' \in Nat, reply' \in Reply \cup {NoReply}
      PROVE  IInv'
  BY <1>2 DEF TypeOK, OldestFirst, WithinBounds, Ordered, ExpiresWithin
<1>3. ASSUME NEW e \in EventId, ClaimRefused(e)
      PROVE  IInv'
  <2>1. reply' \in Reply /\ claims' = claims /\ now' = now
    BY <1>3 DEF ClaimRefused, Reply
  <2>2. QED
    BY <1>1, <1>2, <2>1
<1>4. ASSUME NEW e \in EventId, ClaimGranted(e)
      PROVE  IInv'
  <2>1. reply' \in Reply /\ now' = now
    BY <1>4 DEF ClaimGranted, Reply
  <2> DEFINE t == Touch(claims, e, now)
  <2>2. t \in Seq(Item) /\ Ordered(t) /\ ExpiresWithin(t, now)
    BY <1>1, TouchProperties
  <2>3. claims' = Evict(t, now)
    BY <1>4 DEF ClaimGranted
  <2> HIDE DEF t
  <2>4. /\ claims' \in Seq(Item) /\ Len(claims') <= MaxEntries
        /\ Ordered(claims') /\ ExpiresWithin(claims', now)
    BY <1>1, <2>2, <2>3, EvictProperties
  <2>5. QED
    BY <1>1, <1>2, <2>1, <2>4
<1>5. ASSUME NEW e \in EventId, Release(e)
      PROVE  IInv'
  <2>1. claims' = Pop(claims, e) /\ now' = now /\ reply' = reply
    BY <1>5 DEF Release
  <2>2. /\ claims' \in Seq(Item) /\ Len(claims') <= Len(claims)
        /\ Ordered(claims') /\ ExpiresWithin(claims', now)
    BY <1>1, <2>1, PopProperties
  <2>3. Len(claims') \in Nat
    BY <2>2, LenProperties
  <2>4. Len(claims') <= MaxEntries
    BY <1>1, <2>2, <2>3, MaxEntriesAssumption
  <2>5. QED
    BY <1>1, <1>2, <2>1, <2>2, <2>4 DEF TypeOK
<1>6. ASSUME Tick
      PROVE  IInv'
  <2>1. claims' = claims /\ now' = now + 1 /\ reply' = reply
    BY <1>6 DEF Tick
  <2>2. \A i \in DOMAIN claims : claims[i].expires \in Nat
    <3>1. \A i \in DOMAIN claims : claims[i] \in Item
      BY <1>1, LenProperties, ElementOfSeq
    <3>2. QED
      BY <3>1 DEF Item
  <2>3. ExpiresWithin(claims', now')
    BY <1>1, <2>1, <2>2, TtlAssumption DEF ExpiresWithin
  <2>4. QED
    BY <1>1, <1>2, <2>1, <2>3 DEF TypeOK
<1>7. ASSUME UNCHANGED vars
      PROVE  IInv'
  BY <1>1, <1>2, <1>7 DEF vars, TypeOK
<1>8. QED
  BY <1>3, <1>4, <1>5, <1>6, <1>7 DEF Next

(* The store's variables keep their types, for any number of ids, any size *)
(* of store and any TTL.                                                   *)
THEOREM TypeCorrect == Spec => []TypeOK
<1>1. IInv => TypeOK
  BY DEF IInv
<1>2. QED
  BY InitEstablishesIInv, NextPreservesIInv, <1>1, PTL DEF Spec

(* Every id has one item and items stay in order of expiry, which both     *)
(* loops of _evict rely on.                                                *)
THEOREM StoreInvariant == Spec => []OldestFirst
<1>1. IInv => OldestFirst
  BY DEF IInv
<1>2. QED
  BY InitEstablishesIInv, NextPreservesIInv, <1>1, PTL DEF Spec

(* The store never outgrows DEDUP_MAX_ENTRIES and no claim outlives one    *)
(* TTL from now.                                                           *)
THEOREM BoundsKept == Spec => []WithinBounds
<1>1. IInv => WithinBounds
  BY DEF IInv
<1>2. QED
  BY InitEstablishesIInv, NextPreservesIInv, <1>1, PTL DEF Spec

(* A granted claim leaves only live items in the store. *)
THEOREM GrantsLeaveOnlyLive == Spec => GrantLeavesOnlyLive
<1>1. ASSUME IInv, [Next]_vars, NEW e \in EventId, ClaimGranted(e)
      PROVE  \A i \in DOMAIN claims' : Live(claims'[i], now)
  <2>1. claims \in Seq(Item) /\ now \in Nat /\ Ordered(claims) /\ ExpiresWithin(claims, now)
    BY <1>1 DEF IInv, TypeOK, OldestFirst, WithinBounds, Ordered, ExpiresWithin
  <2> DEFINE t == Touch(claims, e, now)
  <2>2. t \in Seq(Item) /\ Ordered(t) /\ ExpiresWithin(t, now)
    BY <2>1, TouchProperties
  <2>3. claims' = Evict(t, now)
    BY <1>1 DEF ClaimGranted
  <2> HIDE DEF t
  <2>4. QED
    BY <2>1, <2>2, <2>3, EvictProperties
<1>2. IInv /\ [Next]_vars => [ \A e \in EventId : ClaimGranted(e) =>
                                \A i \in DOMAIN claims' : Live(claims'[i], now) ]_vars
  BY <1>1
<1>3. QED
  BY InitEstablishesIInv, NextPreservesIInv, <1>2, PTL DEF Spec, GrantLeavesOnlyLive
-----------------------------------------------------------------------------
(* The class implements the protocol.  Its live claims are the items from  *)
(* the first live one on, because items are in order of expiry.            *)

IdsFrom(c, f) == [i \in 1 .. Len(c) + 1 - f |-> c[i + f - 1].id]

(* The live items of c at n are those from position f on. *)
AliveFrom(c, n, f) ==
    /\ f \in 1 .. Len(c) + 1
    /\ \A i \in DOMAIN c : Live(c[i], n) <=> f <= i

LEMMA ItemFacts ==
    ASSUME NEW c \in Seq(Item)
    PROVE  /\ Len(c) \in Nat /\ DOMAIN c = 1 .. Len(c)
           /\ \A i \in DOMAIN c : /\ c[i] \in Item /\ c[i].id \in EventId
                                  /\ c[i].expires \in Nat
<1>1. Len(c) \in Nat /\ DOMAIN c = 1 .. Len(c) /\ \A i \in 1 .. Len(c) : c[i] \in Item
  BY LenProperties, ElementOfSeq
<1>2. QED
  BY <1>1 DEF Item

LEMMA IdsFromProperties ==
    ASSUME NEW c \in Seq(Item), NEW f \in 1 .. Len(c) + 1
    PROVE  /\ IdsFrom(c, f) \in Seq(EventId)
           /\ Len(IdsFrom(c, f)) = Len(c) + 1 - f
           /\ DOMAIN IdsFrom(c, f) = 1 .. Len(c) + 1 - f
           /\ \A i \in 1 .. Len(c) + 1 - f : IdsFrom(c, f)[i] = c[i + f - 1].id
<1> DEFINE n == Len(c) + 1 - f
           ids == IdsFrom(c, f)
<1>1. n \in Nat /\ \A i \in 1 .. n : i + f - 1 \in DOMAIN c
  BY ItemFacts
<1>2. ids = [i \in 1 .. n |-> c[i + f - 1].id]
  BY DEF IdsFrom
<1>3. \A i \in 1 .. n : c[i + f - 1].id \in EventId
  BY <1>1, ItemFacts
<1> HIDE DEF n, ids
<1>4. ids \in [1 .. n -> EventId]
  BY <1>2, <1>3
<1>5. ids \in Seq(EventId) /\ Len(ids) = n
  BY <1>1, <1>4
<1>6. QED
  BY <1>2, <1>4, <1>5 DEF n, ids

(* Where the live items begin is where the first loop of _evict stops. *)
LEMMA FirstLiveAlive ==
    ASSUME NEW c \in Seq(Item), NEW n \in Nat, Ordered(c)
    PROVE  AliveFrom(c, n, FirstLive(c, n))
<1> DEFINE L == {i \in DOMAIN c : Live(c[i], n)}
           f == FirstLive(c, n)
<1>1. Len(c) \in Nat /\ DOMAIN c = 1 .. Len(c)
  BY ItemFacts
<1>2. L \cup {Len(c) + 1} \in SUBSET Nat /\ L \cup {Len(c) + 1} # {}
  BY <1>1
<1>3. f \in L \cup {Len(c) + 1} /\ \A y \in L \cup {Len(c) + 1} : f <= y
  BY <1>2, MinProperties DEF FirstLive
<1> HIDE DEF f
<1>4. f \in 1 .. Len(c) + 1
  BY <1>1, <1>3
<1>5. ASSUME NEW i \in DOMAIN c, f <= i
      PROVE  Live(c[i], n)
  <2>1. f \in DOMAIN c /\ Live(c[f], n)
    BY <1>1, <1>3, <1>5
  <2>2. f = i \/ f < i
    BY <1>1, <1>5, <2>1
  <2>3. c[f].expires <= c[i].expires
    BY <1>5, <2>1, <2>2, ItemFacts DEF Ordered
  <2>4. QED
    BY <1>5, <2>1, <2>3, ItemFacts DEF Live
<1>6. QED
  BY <1>3, <1>4, <1>5 DEF AliveFrom, f

LEMMA AliveFromUnique ==
    ASSUME NEW c \in Seq(Item), NEW n \in Nat, NEW f, NEW g,
           AliveFrom(c, n, f), AliveFrom(c, n, g)
    PROVE  f = g
<1>1. Len(c) \in Nat /\ DOMAIN c = 1 .. Len(c) /\ f \in 1 .. Len(c) + 1 /\ g \in 1 .. Len(c) + 1
  BY ItemFacts DEF AliveFrom
<1>2. \A i \in 1 .. Len(c) : f <= i <=> g <= i
  BY <1>1 DEF AliveFrom
<1>3. ~(f < g) /\ ~(g < f)
  <2>1. f < g => f \in 1 .. Len(c) /\ ~(g <= f)
    BY <1>1
  <2>2. g < f => g \in 1 .. Len(c) /\ ~(f <= g)
    BY <1>1
  <2>3. QED
    BY <1>1, <1>2, <2>1, <2>2
<1>4. QED
  BY <1>1, <1>3

(* Taking out the item of e, if there is one, leaves the live ids but e. *)
LEMMA PopAlive ==
    ASSUME NEW c \in Seq(Item), NEW n \in Nat, NEW e \in EventId, Ordered(c),
           NEW f, AliveFrom(c, n, f)
    PROVE  \E g : /\ AliveFrom(Pop(c, e), n, g)
                  /\ IdsFrom(Pop(c, e), g) = Released(IdsFrom(c, f), e)
<1> DEFINE ids == IdsFrom(c, f)
<1>1. /\ Len(c) \in Nat /\ DOMAIN c = 1 .. Len(c) /\ f \in 1 .. Len(c) + 1
      /\ f \in Int
  BY ItemFacts DEF AliveFrom
<1>2. /\ ids \in Seq(EventId) /\ Len(ids) = Len(c) + 1 - f
      /\ DOMAIN ids = 1 .. Len(c) + 1 - f
      /\ \A i \in 1 .. Len(c) + 1 - f : ids[i] = c[i + f - 1].id
  BY <1>1, IdsFromProperties
<1> HIDE DEF ids
<1>3. CASE IndicesOf(c, e) = {}
  <2>1. Pop(c, e) = c
    BY <1>3 DEF Pop
  <2>2. e \notin ToSet(ids)
    <3>1. \A i \in DOMAIN ids : i + f - 1 \in DOMAIN c
      BY <1>1, <1>2
    <3>2. QED
      BY <1>2, <1>3, <3>1 DEF ToSet, IndicesOf
  <2>3. Released(ids, e) = ids
    BY <2>2 DEF Released
  <2>4. QED
    BY <2>1, <2>3 DEF ids
<1>4. CASE IndicesOf(c, e) # {}
  <2> DEFINE k == CHOOSE i \in IndicesOf(c, e) : TRUE
             t == RemoveAt(c, k)
  <2>1. k \in DOMAIN c /\ c[k].id = e
    BY <1>4 DEF IndicesOf
  <2>2. Pop(c, e) = t
    BY <1>4 DEF Pop
  <2> HIDE DEF k
  <2>3. /\ t \in Seq(Item)
        /\ Len(t) = Len(c) - 1
        /\ \A j \in 1 .. Len(t) : t[j] = IF j < k THEN c[j] ELSE c[j + 1]
    BY <1>1, <2>1, RemoveAtProperties
  <2>4. DOMAIN t = 1 .. Len(t) /\ Len(t) \in Nat
    BY <2>3, LenProperties
  <2> HIDE DEF t
  <2>5. \A i \in DOMAIN c : i # k => c[i].id # e
    <3>1. \A i \in DOMAIN c : i # k => i < k \/ k < i
      BY <1>1, <2>1
    <3>2. QED
      BY <2>1, <3>1 DEF Ordered
  <2>6. CASE k < f
    <3> DEFINE g == f - 1
    <3>1. g \in 1 .. Len(t) + 1
      BY <1>1, <2>1, <2>3, <2>6
    <3>2. AliveFrom(t, n, g)
      <4>1. ASSUME NEW i \in DOMAIN t
            PROVE  Live(t[i], n) <=> g <= i
        <5>1. CASE i < k
          <6>1. t[i] = c[i] /\ i \in DOMAIN c /\ ~(f <= i) /\ ~(g <= i)
            BY <1>1, <2>1, <2>3, <2>4, <2>6, <4>1, <5>1
          <6>2. QED
            BY <6>1 DEF AliveFrom
        <5>2. CASE ~(i < k)
          <6>1. t[i] = c[i + 1] /\ i + 1 \in DOMAIN c /\ (f <= i + 1 <=> g <= i)
            BY <1>1, <2>1, <2>3, <2>4, <2>6, <4>1, <5>2
          <6>2. QED
            BY <6>1 DEF AliveFrom
        <5>3. QED
          BY <5>1, <5>2
      <4>2. QED
        BY <3>1, <4>1 DEF AliveFrom
    <3>3. e \notin ToSet(ids)
      <4>1. \A i \in DOMAIN ids : i + f - 1 \in DOMAIN c /\ i + f - 1 # k
        BY <1>1, <1>2, <2>1, <2>6
      <4>2. QED
        BY <1>2, <2>5, <4>1 DEF ToSet
    <3>4. Released(ids, e) = ids
      BY <3>3 DEF Released
    <3> DEFINE rest == IdsFrom(t, g)
    <3>5. /\ rest \in Seq(EventId) /\ Len(rest) = Len(t) + 1 - g
          /\ \A i \in 1 .. Len(t) + 1 - g : rest[i] = t[i + g - 1].id
      BY <2>3, <3>1, IdsFromProperties
    <3> HIDE DEF rest
    <3>6. Len(rest) = Len(ids)
      BY <1>1, <1>2, <2>3, <3>5
    <3>7. ASSUME NEW i \in 1 .. Len(rest)
          PROVE  rest[i] = ids[i]
      <4>1. /\ i + g - 1 \in 1 .. Len(t) /\ ~(i + g - 1 < k)
            /\ (i + g - 1) + 1 = i + f - 1 /\ i \in 1 .. Len(c) + 1 - f
            /\ i \in 1 .. Len(t) + 1 - g
        BY <1>1, <1>2, <2>1, <2>3, <2>6, <3>5
      <4>2. t[i + g - 1] = c[i + f - 1]
        BY <2>3, <4>1
      <4>3. QED
        BY <1>2, <3>5, <4>1, <4>2
    <3>8. rest = ids
      BY <1>2, <3>5, <3>6, <3>7, SeqEqual
    <3>9. QED
      BY <2>2, <3>2, <3>4, <3>8 DEF rest, ids
  <2>7. CASE ~(k < f)
    <3> DEFINE p == k - f + 1
               cut == RemoveAt(ids, p)
               rest == IdsFrom(t, f)
    <3>0. /\ k \in Int /\ f \in Int /\ f <= k /\ 1 <= f /\ k <= Len(c) /\ p = k - f + 1
          /\ Len(c) \in Int /\ Len(t) = Len(c) - 1 /\ Len(ids) = Len(c) + 1 - f
      BY <1>1, <1>2, <2>1, <2>3, <2>7
    <3> HIDE DEF p
    <3>1. p \in 1 .. Len(ids) /\ p + f - 1 = k /\ f \in 1 .. Len(t) + 1
      BY <3>0
    <3>2. AliveFrom(t, n, f)
      <4>1. ASSUME NEW i \in DOMAIN t
            PROVE  Live(t[i], n) <=> f <= i
        <5>1. CASE i < k
          <6>1. t[i] = c[i] /\ i \in DOMAIN c
            BY <1>1, <2>1, <2>3, <2>4, <4>1, <5>1
          <6>2. QED
            BY <6>1 DEF AliveFrom
        <5>2. CASE ~(i < k)
          <6>1. t[i] = c[i + 1] /\ i + 1 \in DOMAIN c /\ f <= i + 1 /\ f <= i
            BY <1>1, <2>1, <2>3, <2>4, <2>7, <4>1, <5>2
          <6>2. QED
            BY <6>1 DEF AliveFrom
        <5>3. QED
          BY <5>1, <5>2
      <4>2. QED
        BY <3>1, <4>1 DEF AliveFrom
    <3>3. Released(ids, e) = cut
      <4>1. \A i \in DOMAIN ids : ids[i] = e <=> i = p
        <5>1. \A i \in DOMAIN ids : i + f - 1 \in DOMAIN c /\ (i + f - 1 = k <=> i = p)
          BY <1>1, <1>2, <3>0
        <5>2. QED
          BY <1>2, <2>1, <2>5, <5>1
      <4>2. p \in DOMAIN ids
        BY <1>2, <3>1
      <4>3. e \in ToSet(ids)
        BY <4>1, <4>2 DEF ToSet
      <4>4. (CHOOSE i \in DOMAIN ids : ids[i] = e) = p
        BY <4>1, <4>2
      <4>5. QED
        BY <4>3, <4>4 DEF Released
    <3>4. /\ cut \in Seq(EventId) /\ Len(cut) = Len(ids) - 1
          /\ \A j \in 1 .. Len(cut) : cut[j] = IF j < p THEN ids[j] ELSE ids[j + 1]
      BY <1>2, <3>1, RemoveAtProperties
    <3>5. /\ rest \in Seq(EventId) /\ Len(rest) = Len(t) + 1 - f
          /\ \A i \in 1 .. Len(t) + 1 - f : rest[i] = t[i + f - 1].id
      BY <2>3, <3>1, IdsFromProperties
    <3> HIDE DEF cut, rest
    <3>6. Len(rest) = Len(cut)
      BY <1>1, <1>2, <2>3, <3>4, <3>5
    <3>7. ASSUME NEW i \in 1 .. Len(rest)
          PROVE  rest[i] = cut[i]
      <4>1. /\ i + f - 1 \in 1 .. Len(t) /\ i \in 1 .. Len(t) + 1 - f /\ i \in 1 .. Len(cut)
        BY <1>1, <1>2, <2>3, <3>5, <3>6
      <4>0. i \in Int /\ 1 <= i /\ i + f - 1 <= Len(c) - 1
        BY <3>0, <4>1
      <4>2. CASE i < p
        <5>1. i + f - 1 < k /\ i \in 1 .. Len(c) + 1 - f
          BY <3>0, <4>1, <4>2, <4>0
        <5>2. QED
          BY <1>2, <2>3, <3>4, <3>5, <4>1, <4>2, <5>1
      <4>3. CASE ~(i < p)
        <5>1. /\ ~(i + f - 1 < k) /\ i + 1 \in 1 .. Len(c) + 1 - f
              /\ (i + f - 1) + 1 = (i + 1) + f - 1
          BY <3>0, <4>0, <4>1, <4>3
        <5>2. t[i + f - 1] = c[(i + 1) + f - 1] /\ cut[i] = ids[i + 1]
          BY <2>3, <3>4, <4>1, <4>3, <5>1
        <5>3. QED
          BY <1>2, <3>5, <4>1, <5>1, <5>2
      <4>4. QED
        BY <4>2, <4>3
    <3>8. rest = cut
      BY <3>4, <3>5, <3>6, <3>7, SeqEqual
    <3>9. QED
      BY <2>2, <3>2, <3>3, <3>8 DEF rest, ids
  <2>8. QED
    BY <2>6, <2>7
<1>5. QED
  BY <1>3, <1>4

(* Keeping the youngest items keeps the youngest ids. *)
LEMMA YoungestIds ==
    ASSUME NEW s \in Seq(Item), NEW u \in Seq(EventId), Len(s) = Len(u),
           \A i \in 1 .. Len(u) : s[i].id = u[i]
    PROVE  /\ Len(Youngest(s)) = Len(Youngest(u))
           /\ \A i \in 1 .. Len(Youngest(u)) : Youngest(s)[i].id = Youngest(u)[i]
<1>1. Len(s) \in Nat /\ Len(u) \in Nat
  BY LenProperties
<1>2. CASE Len(u) > MaxEntries
  <2> DEFINE m == Len(u) - MaxEntries + 1
  <2>1. m \in 1 .. Len(u) + 1
    BY <1>1, <1>2, MaxEntriesAssumption
  <2>2. Youngest(s) = SubSeq(s, m, Len(s)) /\ Youngest(u) = SubSeq(u, m, Len(u))
    BY <1>2 DEF Youngest
  <2> HIDE DEF m
  <2>3. /\ Len(Youngest(s)) = Len(u) - m + 1 /\ Len(Youngest(u)) = Len(u) - m + 1
        /\ \A i \in 1 .. Len(u) - m + 1 : /\ Youngest(s)[i] = s[m + i - 1]
                                          /\ Youngest(u)[i] = u[m + i - 1]
    BY <2>1, <2>2, SuffixProperties
  <2>4. \A i \in 1 .. Len(u) - m + 1 : m + i - 1 \in 1 .. Len(u)
    BY <1>1, <2>1
  <2>5. QED
    BY <2>3, <2>4
<1>3. CASE ~(Len(u) > MaxEntries)
  BY <1>3 DEF Youngest
<1>4. QED
  BY <1>2, <1>3

(* Granting an id that has no live item is the abstract grant, and leaves  *)
(* every item alive.                                                       *)
LEMMA GrantAlive ==
    ASSUME NEW c \in Seq(Item), NEW n \in Nat, NEW e \in EventId,
           Ordered(c), ExpiresWithin(c, n), ~Holds(c, e, n),
           NEW f, AliveFrom(c, n, f)
    PROVE  /\ e \notin ToSet(IdsFrom(c, f))
           /\ AliveFrom(Evict(Touch(c, e, n), n), n, 1)
           /\ IdsFrom(Evict(Touch(c, e, n), n), 1) = Granted(IdsFrom(c, f), e)
<1> DEFINE ids == IdsFrom(c, f)
           p == Pop(c, e)
           x == [id |-> e, expires |-> n + Ttl]
           w == Append(p, x)
           s == DropExpired(w, n)
           u == Append(ids, e)
           y == Youngest(s)
           v == IdsFrom(y, 1)
<1>1. /\ f \in 1 .. Len(c) + 1 /\ Len(c) \in Nat /\ DOMAIN c = 1 .. Len(c)
      /\ \A i \in DOMAIN c : Live(c[i], n) <=> f <= i
  BY ItemFacts DEF AliveFrom
<1>2. /\ ids \in Seq(EventId) /\ DOMAIN ids = 1 .. Len(c) + 1 - f
      /\ \A i \in 1 .. Len(c) + 1 - f : ids[i] = c[i + f - 1].id
  BY <1>1, IdsFromProperties
<1>3. e \notin ToSet(ids)
  <2> HIDE DEF ids
  <2>1. \A i \in DOMAIN ids : i + f - 1 \in DOMAIN c /\ f <= i + f - 1
    BY <1>1, <1>2
  <2>2. \A i \in DOMAIN ids : c[i + f - 1].id # e
    BY <1>1, <2>1 DEF Holds, IndicesOf
  <2>3. QED
    BY <1>2, <2>2 DEF ToSet
<1>4. PICK g : AliveFrom(p, n, g) /\ IdsFrom(p, g) = ids
  <2>1. Released(ids, e) = ids
    BY <1>3 DEF Released
  <2>2. QED
    BY <2>1, PopAlive
<1>5. w = Touch(c, e, n)
  BY DEF Touch
<1>6. p \in Seq(Item) /\ w \in Seq(Item) /\ Ordered(w) /\ ExpiresWithin(w, n)
  BY <1>5, PopProperties, TouchProperties
<1>7. y = Evict(Touch(c, e, n), n)
  BY <1>5 DEF Evict
<1>8. y \in Seq(Item) /\ \A i \in DOMAIN y : Live(y[i], n)
  BY <1>6, <1>5, <1>7, EvictProperties
<1>9. x \in Item /\ x.id = e /\ x.expires = n + Ttl /\ Live(x, n)
  BY TtlAssumption DEF Item, Live
<1> HIDE DEF ids, p, x
<1>10. /\ Len(w) = Len(p) + 1 /\ w[Len(p) + 1] = x
       /\ \A i \in 1 .. Len(p) : w[i] = p[i]
  BY <1>6, <1>9, AppendProperties
<1>11. Len(p) \in Nat /\ DOMAIN p = 1 .. Len(p) /\ DOMAIN w = 1 .. Len(w) /\ Len(w) \in Nat
  BY <1>6, LenProperties
<1> HIDE DEF w
<1>12. g \in 1 .. Len(p) + 1 /\ \A i \in DOMAIN p : Live(p[i], n) <=> g <= i
  BY <1>4, <1>11 DEF AliveFrom
<1>13. FirstLive(w, n) = g
  <2>1. ASSUME NEW i \in DOMAIN w
        PROVE  Live(w[i], n) <=> g <= i
    <3>1. CASE i = Len(p) + 1
      BY <1>9, <1>10, <1>11, <1>12, <3>1
    <3>2. CASE i \in DOMAIN p
      BY <1>10, <1>11, <1>12, <3>2
    <3>3. QED
      BY <1>10, <1>11, <2>1, <3>1, <3>2
  <2>2. AliveFrom(w, n, g)
    BY <1>10, <1>11, <1>12, <2>1 DEF AliveFrom
  <2>3. QED
    BY <1>6, <2>2, FirstLiveAlive, AliveFromUnique
<1>14. /\ s \in Seq(Item) /\ Len(s) = Len(p) + 2 - g
       /\ \A i \in 1 .. Len(p) + 2 - g : s[i] = w[g + i - 1]
  <2>1. g \in 1 .. Len(w) + 1 /\ Len(w) - g + 1 = Len(p) + 2 - g
    BY <1>10, <1>11, <1>12
  <2>2. s = SubSeq(w, g, Len(w))
    BY <1>13 DEF DropExpired
  <2>3. QED
    BY <1>6, <2>1, <2>2, SuffixProperties
<1>15. /\ Len(ids) = Len(p) + 1 - g
       /\ \A i \in 1 .. Len(p) + 1 - g : ids[i] = p[i + g - 1].id
  BY <1>4, <1>6, <1>12, IdsFromProperties
<1>16. /\ u \in Seq(EventId) /\ Len(u) = Len(ids) + 1 /\ u[Len(ids) + 1] = e
       /\ \A i \in 1 .. Len(ids) : u[i] = ids[i]
  BY <1>2, AppendProperties
<1> HIDE DEF s, u
<1>17. Len(s) = Len(u)
  BY <1>11, <1>12, <1>14, <1>15, <1>16
<1>18. ASSUME NEW i \in 1 .. Len(u)
       PROVE  s[i].id = u[i]
  <2>1. i \in 1 .. Len(p) + 2 - g /\ s[i] = w[g + i - 1]
    BY <1>14, <1>17
  <2>2. CASE i = Len(ids) + 1
    <3>1. g + i - 1 = Len(p) + 1
      BY <1>11, <1>12, <1>15, <2>2
    <3>2. QED
      BY <1>9, <1>10, <1>16, <2>1, <2>2, <3>1
  <2>3. CASE i # Len(ids) + 1
    <3>1. Len(ids) = Len(p) + 1 - g /\ Len(p) \in Int /\ g \in Int /\ 1 <= g /\ g <= Len(p) + 1
      BY <1>11, <1>12, <1>15
    <3>2. i \in 1 .. Len(p) + 1 - g
      BY <2>1, <2>3, <3>1
    <3>3. i \in 1 .. Len(ids) /\ g + i - 1 \in 1 .. Len(p) /\ g + i - 1 = i + g - 1
      BY <3>1, <3>2
    <3>4. QED
      BY <1>10, <1>15, <1>16, <2>1, <3>2, <3>3
  <2>4. QED
    BY <2>2, <2>3
<1>19. /\ Len(y) = Len(Youngest(u))
       /\ \A i \in 1 .. Len(Youngest(u)) : y[i].id = Youngest(u)[i]
  BY <1>14, <1>16, <1>17, <1>18, YoungestIds
<1>20. Youngest(u) \in Seq(EventId)
  BY <1>16, YoungestProperties
<1> HIDE DEF y
<1>21. Len(y) \in Nat /\ DOMAIN y = 1 .. Len(y)
  BY <1>8, LenProperties
<1>22. /\ v \in Seq(EventId) /\ Len(v) = Len(y) + 1 - 1
       /\ \A i \in 1 .. Len(y) + 1 - 1 : v[i] = y[i + 1 - 1].id
  <2>1. 1 \in 1 .. Len(y) + 1
    BY <1>21
  <2>2. QED
    BY <1>8, <2>1, IdsFromProperties
<1> HIDE DEF v
<1>23. Len(v) = Len(y) /\ \A i \in 1 .. Len(y) : v[i] = y[i].id
  <2>1. Len(y) + 1 - 1 = Len(y) /\ \A i \in 1 .. Len(y) : i + 1 - 1 = i
    BY <1>21
  <2>2. QED
    BY <1>22, <2>1
<1>24. v = Youngest(u)
  BY <1>19, <1>20, <1>22, <1>23, SeqEqual
<1>25. AliveFrom(y, n, 1)
  BY <1>8, <1>21 DEF AliveFrom
<1>26. QED
  BY <1>3, <1>7, <1>24, <1>25 DEF v, u, ids, Granted

(* A tick lets the oldest live claims lapse, if any. *)
LEMMA TickAlive ==
    ASSUME NEW c \in Seq(Item), NEW n \in Nat,
           NEW f, AliveFrom(c, n, f), NEW h, AliveFrom(c, n + 1, h), f # h
    PROVE  LET ids == IdsFrom(c, f)
           IN  /\ h - f \in 1 .. Len(ids)
               /\ IdsFrom(c, h) = SubSeq(ids, h - f + 1, Len(ids))
<1> DEFINE ids == IdsFrom(c, f)
           rest == IdsFrom(c, h)
           k == h - f + 1
           cut == SubSeq(ids, k, Len(ids))
<1>1. /\ f \in 1 .. Len(c) + 1 /\ h \in 1 .. Len(c) + 1
      /\ Len(c) \in Nat /\ DOMAIN c = 1 .. Len(c)
  BY ItemFacts DEF AliveFrom
<1>2. f < h
  <2> SUFFICES ASSUME h < f PROVE FALSE
    BY <1>1
  <2>1. h \in DOMAIN c /\ ~Live(c[h], n) /\ Live(c[h], n + 1)
    BY <1>1 DEF AliveFrom
  <2>2. c[h].expires \in Nat
    BY <2>1, ItemFacts
  <2>3. QED
    BY <2>1, <2>2 DEF Live
<1>3. /\ ids \in Seq(EventId) /\ Len(ids) = Len(c) + 1 - f
      /\ \A i \in 1 .. Len(c) + 1 - f : ids[i] = c[i + f - 1].id
  BY <1>1, IdsFromProperties
<1>4. /\ rest \in Seq(EventId) /\ Len(rest) = Len(c) + 1 - h
      /\ \A i \in 1 .. Len(c) + 1 - h : rest[i] = c[i + h - 1].id
  BY <1>1, IdsFromProperties
<1>5. h - f \in 1 .. Len(c) + 1 - f /\ k \in 1 .. (Len(c) + 1 - f) + 1
  BY <1>1, <1>2
<1> HIDE DEF ids, rest, k
<1>6. /\ cut \in Seq(EventId) /\ Len(cut) = Len(ids) - k + 1
      /\ \A i \in 1 .. Len(cut) : cut[i] = ids[k + i - 1]
  BY <1>3, <1>5, SuffixProperties
<1> HIDE DEF cut
<1>7. Len(cut) = Len(c) + 1 - h
  BY <1>1, <1>3, <1>6 DEF k
<1>8. ASSUME NEW i \in 1 .. Len(c) + 1 - h
      PROVE  rest[i] = cut[i]
  <2>1. k + i - 1 \in 1 .. Len(c) + 1 - f /\ (k + i - 1) + f - 1 = i + h - 1
    BY <1>1, <1>2 DEF k
  <2>2. QED
    BY <1>3, <1>4, <1>6, <1>7, <2>1
<1>9. rest = cut
  BY <1>4, <1>6, <1>7, <1>8, SeqEqual
<1>10. QED
  BY <1>3, <1>5, <1>9 DEF ids, rest, cut, k

(* For every set of ids, every TTL and every bound, the ids with a live    *)
(* item behave as the claims of a SeenStore: refused exactly while they    *)
(* stand, given up oldest first, and only when full or expired.            *)
THEOREM ImplementsTheProtocol == Spec => ImplementsSeenStore
<1> USE DEF IInv
<1> DEFINE f == FirstLive(claims, now)
<1>1. Init => Abstract!Init
  <2> SUFFICES ASSUME Init PROVE LiveIds = <<>>
    BY DEF Init, Abstract!Init
  <2>1. claims = <<>> /\ claims \in Seq(Item) /\ now = 0 /\ Len(claims) = 0
    BY DEF Init
  <2>2. AliveFrom(claims, now, f)
    <3>1. Ordered(claims)
      BY <2>1 DEF Ordered
    <3>2. QED
      BY <2>1, <3>1, FirstLiveAlive
  <2> HIDE DEF f
  <2>3. f = 1
    BY <2>1, <2>2 DEF AliveFrom
  <2>4. LiveIds = IdsFrom(claims, f)
    BY DEF LiveIds, IdsFrom, f
  <2>5. IdsFrom(claims, 1) \in Seq(EventId) /\ Len(IdsFrom(claims, 1)) = 0
    <3>1. 1 \in 1 .. Len(claims) + 1 /\ Len(claims) + 1 - 1 = 0
      BY <2>1
    <3>2. QED
      BY <2>1, <3>1, IdsFromProperties
  <2>6. QED
    BY <2>3, <2>4, <2>5, EmptySeq
<1>2. IInv /\ [Next]_vars => [Abstract!Next]_(Abstract!vars)
  <2> SUFFICES ASSUME IInv, [Next]_vars
               PROVE  [Abstract!Next]_(Abstract!vars)
    OBVIOUS
  <2> DEFINE h == FirstLive(claims', now')
  <2>1. /\ claims \in Seq(Item) /\ now \in Nat /\ Len(claims) <= MaxEntries
        /\ Ordered(claims) /\ ExpiresWithin(claims, now)
    BY DEF TypeOK, OldestFirst, WithinBounds, Ordered, ExpiresWithin
  <2>2. claims' \in Seq(Item) /\ now' \in Nat /\ Ordered(claims')
    BY NextPreservesIInv DEF TypeOK, OldestFirst, Ordered
  <2>3. AliveFrom(claims, now, f) /\ AliveFrom(claims', now', h)
    BY <2>1, <2>2, FirstLiveAlive
  <2>4. LiveIds = IdsFrom(claims, f) /\ LiveIds' = IdsFrom(claims', h)
    BY DEF LiveIds, IdsFrom
  <2> HIDE DEF f, h
  <2>5. /\ LiveIds \in Seq(EventId) /\ DOMAIN LiveIds = 1 .. Len(claims) + 1 - f
        /\ Len(LiveIds) = Len(claims) + 1 - f
        /\ \A i \in 1 .. Len(claims) + 1 - f : LiveIds[i] = claims[i + f - 1].id
    BY <2>1, <2>3, <2>4, IdsFromProperties DEF AliveFrom
  <2>6. ASSUME claims' = claims, now' = now
        PROVE  LiveIds' = LiveIds
    BY <2>6 DEF LiveIds, FirstLive
  <2>7. ASSUME NEW e \in EventId, ClaimRefused(e)
        PROVE  Abstract!Next
    <3>1. Holds(claims, e, now) /\ claims' = claims /\ now' = now
      BY <2>7 DEF ClaimRefused
    <3>2. PICK i \in DOMAIN claims : claims[i].id = e /\ Live(claims[i], now)
      BY <3>1 DEF Holds, IndicesOf
    <3>3. f <= i
      BY <2>3, <3>2 DEF AliveFrom
    <3>4. i - f + 1 \in DOMAIN LiveIds /\ (i - f + 1) + f - 1 = i
      <4>1. Len(claims) \in Int /\ f \in Int /\ i \in Int /\ i <= Len(claims)
        BY <2>1, <2>3, <3>2, ItemFacts DEF AliveFrom
      <4>2. QED
        BY <2>5, <3>3, <4>1
    <3>5. LiveIds[i - f + 1] = e
      BY <2>5, <3>2, <3>4
    <3>6. Abstract!Refuse(e)
      BY <2>6, <2>7, <3>1, <3>4, <3>5 DEF Abstract!Refuse, Abstract!ToSet, ClaimRefused
    <3>7. QED
      BY <3>6 DEF Abstract!Next
  <2>8. ASSUME NEW e \in EventId, ClaimGranted(e)
        PROVE  Abstract!Next
    <3>1. ~Holds(claims, e, now) /\ claims' = Evict(Touch(claims, e, now), now) /\ now' = now
      BY <2>8 DEF ClaimGranted
    <3>2. /\ e \notin ToSet(LiveIds)
          /\ AliveFrom(claims', now', 1)
          /\ IdsFrom(claims', 1) = Granted(LiveIds, e)
      BY <2>1, <2>3, <2>4, <3>1, GrantAlive
    <3>3. h = 1
      BY <2>2, <2>3, <3>2, AliveFromUnique
    <3>4. LiveIds' = Abstract!Granted(LiveIds, e) /\ e \notin Abstract!ToSet(LiveIds)
      BY <2>4, <3>2, <3>3 DEF Granted, Abstract!Granted, Youngest, Abstract!Youngest,
                              ToSet, Abstract!ToSet
    <3>5. Abstract!Grant(e)
      BY <2>8, <3>4 DEF Abstract!Grant, ClaimGranted
    <3>6. QED
      BY <3>5 DEF Abstract!Next
  <2>9. ASSUME NEW e \in EventId, Release(e)
        PROVE  Abstract!Next
    <3>1. claims' = Pop(claims, e) /\ now' = now /\ reply' = reply
      BY <2>9 DEF Release
    <3>2. PICK g : /\ AliveFrom(claims', now', g)
                   /\ IdsFrom(claims', g) = Released(LiveIds, e)
      BY <2>1, <2>3, <2>4, <3>1, PopAlive
    <3>3. h = g
      BY <2>2, <2>3, <3>2, AliveFromUnique
    <3>4. LiveIds' = Abstract!Released(LiveIds, e)
      BY <2>4, <3>2, <3>3 DEF Released, Abstract!Released, ToSet, Abstract!ToSet,
                              RemoveAt, Abstract!RemoveAt
    <3>5. Abstract!Release(e)
      BY <3>1, <3>4 DEF Abstract!Release
    <3>6. QED
      BY <3>5 DEF Abstract!Next
  <2>10. ASSUME Tick
         PROVE  Abstract!Next \/ UNCHANGED Abstract!vars
    <3>1. claims' = claims /\ now' = now + 1 /\ reply' = reply
      BY <2>10 DEF Tick
    <3>2. CASE h = f
      <4>1. LiveIds' = LiveIds
        BY <2>4, <3>1, <3>2
      <4>2. QED
        BY <3>1, <4>1 DEF Abstract!vars
    <3>3. CASE h # f
      <4>1. /\ h - f \in 1 .. Len(LiveIds)
            /\ LiveIds' = SubSeq(LiveIds, h - f + 1, Len(LiveIds))
        BY <2>1, <2>3, <2>4, <3>1, <3>3, TickAlive
      <4>2. h - f \in 1 .. MaxEntries /\ h - f <= Len(LiveIds)
        <5>1. /\ Len(claims) \in Nat /\ f \in Nat /\ f >= 1
              /\ Len(LiveIds) \in Nat /\ Len(LiveIds) <= Len(claims)
          BY <2>1, <2>3, <2>5, ItemFacts DEF AliveFrom
        <5>2. QED
          BY <2>1, <4>1, <5>1, MaxEntriesAssumption
      <4>3. Abstract!Lapse(h - f)
        BY <3>1, <4>1, <4>2 DEF Abstract!Lapse
      <4>4. QED
        BY <4>2, <4>3 DEF Abstract!Next
    <3>4. QED
      BY <3>2, <3>3
  <2>11. ASSUME UNCHANGED vars
         PROVE  UNCHANGED Abstract!vars
    BY <2>6, <2>11 DEF vars, Abstract!vars
  <2>12. QED
    BY <2>7, <2>8, <2>9, <2>10, <2>11 DEF Next
<1>3. QED
  BY InitEstablishesIInv, NextPreservesIInv, <1>1, <1>2, PTL
     DEF Spec, ImplementsSeenStore, Abstract!Spec
=============================================================================
