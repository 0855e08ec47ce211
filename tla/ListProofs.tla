----------------------------- MODULE ListProofs -----------------------------
(***************************************************************************)
(* What holds of the list of profiles, for any endpoints and however many  *)
(* profiles, ticks and measurements there are.                             *)
(*                                                                         *)
(* Rows, ticks and the selection are indexes, so the argument begins with  *)
(* what Pick does to indexes: it keeps the order and loses nothing.  The   *)
(* rest is that an id names one object (OneObject), in one row (OneRow),   *)
(* and that no object is queued or measured twice (Once).                  *)
(***************************************************************************)
EXTENDS ProfileList, FiniteSetTheorems, SequenceTheorems, TLAPS

-----------------------------------------------------------------------------
(* Lists and their indexes                                                 *)

\* Every set of numbers that is not empty has a least one.
LEMMA LeastNumber ==
  ASSUME NEW T \in SUBSET Nat, T # {}
  PROVE  \E n \in T : \A m \in T : n <= m
<1> DEFINE F == {1..n : n \in T}
<1>1. F \subseteq FiniteSubsetsOf(Nat) /\ F # {}
  <2>1. \A n \in T : 1..n \in SUBSET Nat /\ IsFiniteSet(1..n)
    BY FS_Interval
  <2>2. QED
    BY <2>1 DEF FiniteSubsetsOf
<1>2. PICK X \in F : \A Y \in F : <<Y, X>> \notin StrictSubsetOrdering(Nat)
  BY <1>1, WFMin, FS_StrictSubsetOrderingWellFounded
<1>3. PICK n \in T : X = 1..n
  OBVIOUS
<1>4. ASSUME NEW m \in T, m < n PROVE FALSE
  <2>1. 1..m \subseteq 1..n /\ n \in 1..n /\ n \notin 1..m
    BY <1>4
  <2>2. 1..m \in SUBSET Nat /\ 1..n \in SUBSET Nat /\ 1..m # 1..n
    BY <2>1
  <2>3. <<1..m, 1..n>> \in StrictSubsetOrdering(Nat)
    BY <2>1, <2>2, Zenon DEF StrictSubsetOrdering
  <2>4. QED
    BY <1>2, <1>3, <2>3
<1>5. QED
  BY <1>4

Increasing(f, n) == \A j, k \in 1..n : j < k => f[j] < f[k]

\* The indexes of a set can be put in order ...
LEMMA OrderExists ==
  ASSUME NEW n \in Nat, NEW I \in SUBSET (1..n)
  PROVE  \E f \in [1..Cardinality(I) -> I] : Increasing(f, Cardinality(I))
<1> DEFINE Fits(J) == \E f \in [1..Cardinality(J) -> J] : Increasing(f, Cardinality(J))
           Bad == {J \in SUBSET (1..n) : ~Fits(J)}
<1>1. ASSUME NEW J \in SUBSET (1..n) PROVE IsFiniteSet(J) /\ Cardinality(J) \in Nat
  <2>1. IsFiniteSet(1..n)
    BY FS_Interval
  <2>2. QED
    BY <2>1, FS_Subset, FS_CardinalityType
<1>2. SUFFICES ASSUME Bad # {} PROVE FALSE
  OBVIOUS
<1>3. Bad \subseteq FiniteSubsetsOf(1..n)
  BY <1>1 DEF FiniteSubsetsOf
<1> HIDE DEF Fits
<1>4. PICK J \in Bad : \A K \in Bad : <<K, J>> \notin StrictSubsetOrdering(1..n)
  BY <1>2, <1>3, WFMin, FS_StrictSubsetOrderingWellFounded
<1>5. J # {}
  <2>1. ASSUME J = {} PROVE Fits(J)
    <3>1. Cardinality(J) = 0 /\ 1..0 = {}
      BY <2>1, FS_EmptySet
    <3>2. [k \in 1..0 |-> 0] \in [1..0 -> J] /\ Increasing([k \in 1..0 |-> 0], 0)
      BY <2>1, <3>1 DEF Increasing
    <3>3. QED
      BY <3>1, <3>2 DEF Fits
  <2>2. QED
    BY <2>1
<1>6. J \in SUBSET (1..n) /\ \A j \in J : j \in Nat
  OBVIOUS
<1>7. PICK m \in J : \A j \in J : j <= m
  <2> DEFINE T == {k \in Nat : \A j \in J : j <= k}
  <2>1. n \in T
    OBVIOUS
  <2>2. PICK k \in T : \A l \in T : k <= l
    BY <2>1, LeastNumber
  <2>3. k \in J
    <3>1. ASSUME k \notin J PROVE FALSE
      <4>1. \A j \in J : j <= k - 1 /\ k - 1 \in Nat
        BY <2>2, <3>1
      <4>2. k - 1 \in T
        BY <4>1, <1>5
      <4>3. QED
        BY <2>2, <4>2
    <3>2. QED
      BY <3>1
  <2>4. QED
    BY <2>2, <2>3
<1>8. Fits(J \ {m})
  <2>1. J \ {m} \subseteq J /\ J \ {m} # J /\ J \in SUBSET (1..n)
    OBVIOUS
  <2>2. <<J \ {m}, J>> \in StrictSubsetOrdering(1..n)
    BY <2>1, Zenon DEF StrictSubsetOrdering
  <2>3. QED
    BY <1>4, <2>1, <2>2
<1>9. PICK c \in Nat : Cardinality(J \ {m}) = c /\ Cardinality(J) = c + 1
  BY <1>1, FS_RemoveElement
<1>10. PICK g \in [1..c -> J \ {m}] : Increasing(g, c)
  BY <1>8, <1>9 DEF Fits
<1> DEFINE f == [k \in 1..(c + 1) |-> IF k = c + 1 THEN m ELSE g[k]]
<1>11. f \in [1..(c + 1) -> J]
  BY <1>10
<1>12. Increasing(f, c + 1)
  <2> SUFFICES ASSUME NEW j \in 1..(c + 1), NEW k \in 1..(c + 1), j < k PROVE f[j] < f[k]
    BY DEF Increasing
  <2>1. CASE k = c + 1
    <3>1. j \in 1..c /\ f[j] = g[j] /\ f[k] = m
      BY <2>1
    <3>2. g[j] \in J \ {m} /\ g[j] \in Nat /\ m \in Nat
      BY <1>6, <1>10, <3>1
    <3>3. QED
      BY <1>7, <3>1, <3>2
  <2>2. CASE k # c + 1
    BY <1>10, <2>2 DEF Increasing
  <2>3. QED
    BY <2>1, <2>2
<1>13. Fits(J)
  BY <1>9, <1>11, <1>12 DEF Fits
<1>14. QED
  BY <1>13

\* ... and InOrder does, leaving none out.
LEMMA OrderOf ==
  ASSUME NEW n \in Nat, NEW I \in SUBSET (1..n)
  PROVE  LET c == Cardinality(I) IN
         /\ c \in Nat /\ c <= n
         /\ InOrder(I) \in [1..c -> I]
         /\ Increasing(InOrder(I), c)
         /\ \A i \in I : \E k \in 1..c : InOrder(I)[k] = i
<1> DEFINE c == Cardinality(I)
<1>1. IsFiniteSet(I) /\ c \in Nat /\ c <= n
  <2>1. IsFiniteSet(1..n) /\ Cardinality(1..n) = n
    BY FS_Interval
  <2>2. QED
    BY <2>1, FS_Subset, FS_CardinalityType
<1>2. InOrder(I) \in [1..c -> I] /\ Increasing(InOrder(I), c)
  BY OrderExists DEF InOrder, Increasing
<1>3. InOrder(I) \in Injection(1..c, I)
  <2>1. \A j, k \in 1..c : InOrder(I)[j] \in Nat /\ InOrder(I)[k] \in Nat
    <3>1. \A k \in 1..c : InOrder(I)[k] \in I
      BY <1>2
    <3>2. \A i \in I : i \in Nat
      OBVIOUS
    <3>3. QED
      BY <3>1, <3>2
  <2>2. \A j, k \in 1..c : InOrder(I)[j] = InOrder(I)[k] => j = k
    BY <1>1, <1>2, <2>1 DEF Increasing
  <2>3. QED
    BY <1>2, <2>2 DEF Injection, IsInjective
<1>4. Cardinality(1..c) = c
  BY <1>1, FS_Interval
<1>5. InOrder(I) \in Surjection(1..c, I)
  BY <1>1, <1>3, <1>4, FS_Injection
<1>6. QED
  BY <1>1, <1>2, <1>5 DEF Surjection

\* There is one way to put them in order.
LEMMA OrderUnique ==
  ASSUME NEW n \in Nat, NEW I \in SUBSET (1..n), NEW c \in Nat, c = Cardinality(I),
         NEW g \in [1..c -> I], Increasing(g, c), \A i \in I : \E k \in 1..c : g[k] = i
  PROVE  InOrder(I) = g
<1> DEFINE f == InOrder(I)
<1>1. /\ f \in [1..c -> I] /\ Increasing(f, c)
      /\ \A i \in I : \E k \in 1..c : f[k] = i
  BY OrderOf
<1> HIDE DEF f
<1>2. \A k \in 1..c : f[k] \in I /\ g[k] \in I /\ f[k] \in Nat /\ g[k] \in Nat
  <2>1. \A k \in 1..c : f[k] \in I /\ g[k] \in I
    BY <1>1
  <2>2. \A i \in I : i \in Nat
    OBVIOUS
  <2>3. QED
    BY <2>1, <2>2
<1> DEFINE Differ == {k \in 1..c : f[k] # g[k]}
<1>3. ASSUME Differ # {} PROVE FALSE
  <2> Differ \in SUBSET Nat
    OBVIOUS
  <2> HIDE DEF Differ
  <2>1. PICK k \in Differ : \A j \in Differ : k <= j
    BY <1>3, LeastNumber
  <2> USE DEF Differ
  <2>2. \A j \in 1..c : j < k => f[j] = g[j]
    BY <2>1
  <2>3. CASE f[k] < g[k]
    <3>1. PICK j \in 1..c : g[j] = f[k]
      BY <1>2
    <3>2. ~(j < k)
      BY <1>1, <1>2, <2>2, <3>1 DEF Increasing
    <3>3. ~(k < j)
      BY <1>2, <2>3, <3>1 DEF Increasing
    <3>4. QED
      BY <2>1, <3>1, <3>2, <3>3
  <2>4. CASE g[k] < f[k]
    <3>1. PICK j \in 1..c : f[j] = g[k]
      BY <1>1, <1>2
    <3>2. ~(j < k)
      BY <1>2, <2>2, <3>1 DEF Increasing
    <3>3. ~(k < j)
      BY <1>1, <1>2, <2>4, <3>1 DEF Increasing
    <3>4. QED
      BY <2>1, <3>1, <3>2, <3>3
  <2>5. QED
    BY <1>2, <2>1, <2>3, <2>4
<1>4. \A k \in 1..c : f[k] = g[k]
  BY <1>3
<1>5. f = g
  BY <1>1, <1>4
<1>6. QED
  BY <1>5 DEF f

\* What Pick returns: the elements at those indexes, each once, in order.
LEMMA PickOf ==
  ASSUME NEW S, NEW s \in Seq(S), NEW I \in SUBSET (1..Len(s))
  PROVE  /\ Pick(s, I) \in Seq(S)
         /\ Len(Pick(s, I)) = Cardinality(I) /\ Len(Pick(s, I)) <= Len(s)
         /\ InOrder(I) \in [1..Len(Pick(s, I)) -> I]
         /\ Increasing(InOrder(I), Len(Pick(s, I)))
         /\ \A k \in 1..Len(Pick(s, I)) : Pick(s, I)[k] = s[InOrder(I)[k]]
         /\ \A i \in I : \E k \in 1..Len(Pick(s, I)) : InOrder(I)[k] = i
<1>1. PICK n \in Nat : n = Len(s)
  OBVIOUS
<1>2. PICK c \in Nat : c = Cardinality(I)
  BY <1>1, OrderOf
<1>3. /\ c <= n /\ InOrder(I) \in [1..c -> I] /\ Increasing(InOrder(I), c)
      /\ \A i \in I : \E k \in 1..c : InOrder(I)[k] = i
  BY <1>1, <1>2, OrderOf
<1>4. Pick(s, I) = [k \in 1..c |-> s[InOrder(I)[k]]]
  BY <1>2 DEF Pick
<1>5. \A k \in 1..c : s[InOrder(I)[k]] \in S
  <2>1. \A k \in 1..c : InOrder(I)[k] \in I
    BY <1>3
  <2>2. \A i \in I : s[i] \in S
    OBVIOUS
  <2>3. QED
    BY <2>1, <2>2
<1>6. Pick(s, I) \in Seq(S) /\ Len(Pick(s, I)) = c
  BY <1>4, <1>5
<1>7. QED
  BY <1>1, <1>2, <1>3, <1>4, <1>6
-----------------------------------------------------------------------------
(* The invariant                                                           *)

\* The elements of a list have ids of their own.
OwnIds(q) == \A j, k \in 1..Len(q) : q[j].id = q[k].id => j = k

\* The objects the program still holds.
Alive == ToSet(profiles) \cup ToSet(queue) \cup running

\* Until a write is cut short the file is what the store holds.
FileCurrent == file = [profiles |-> profiles, selected |-> selected]

OneObject ==
  /\ \A o \in Alive : o.id <= minted
  /\ \A o, p \in Alive : o.id = p.id => o = p
OneRow == OwnIds(profiles)

Once ==
  /\ IsFiniteSet(running)
  /\ OwnIds(queue)
  /\ \A k \in 1..Len(queue) : queue[k] \notin running

ListInv ==
  /\ ProfileTypeOK /\ FileCurrent /\ OneObject /\ OneRow /\ Once
  /\ TicksFollowObjects /\ TunnelFollows /\ RowsTell
-----------------------------------------------------------------------------
(* Smaller facts                                                           *)

LEMMA LeastOf ==
  ASSUME NEW T \in SUBSET Nat, T # {}
  PROVE  Min(T) \in T /\ \A n \in T : Min(T) <= n
BY LeastNumber DEF Min

LEMMA LessOf ==
  ASSUME NEW a \in Int, NEW b \in Int
  PROVE  Min({a, b}) = IF a <= b THEN a ELSE b
<1>1. ASSUME NEW m \in {a, b}, \A n \in {a, b} : m <= n
      PROVE  m = IF a <= b THEN a ELSE b
  BY <1>1
<1>2. \E m \in {a, b} : \A n \in {a, b} : m <= n
  <2>1. CASE a <= b
    BY <2>1
  <2>2. CASE b <= a
    BY <2>2
  <2>3. QED
    BY <2>1, <2>2
<1>3. QED
  BY <1>1, <1>2 DEF Min

LEMMA MoreOf ==
  ASSUME NEW a \in Int, NEW b \in Int
  PROVE  Max({a, b}) = IF a >= b THEN a ELSE b
<1>1. ASSUME NEW m \in {a, b}, \A n \in {a, b} : m >= n
      PROVE  m = IF a >= b THEN a ELSE b
  BY <1>1
<1>2. \E m \in {a, b} : \A n \in {a, b} : m >= n
  <2>1. CASE a >= b
    BY <2>1
  <2>2. CASE b >= a
    BY <2>2
  <2>3. QED
    BY <2>1, <2>2
<1>3. QED
  BY <1>1, <1>2 DEF Max

LEMMA PendingAre == PendingIds = {o.id : o \in ToSet(queue) \cup running}
BY DEF PendingIds, Ids, ToSet

LEMMA ElementsOf ==
  ASSUME NEW S, NEW s \in Seq(S)
  PROVE  ToSet(s) = {s[i] : i \in 1..Len(s)} /\ ToSet(s) \subseteq S
BY DEF ToSet

\* Two lists after one another.
LEMMA JoinedLists ==
  ASSUME NEW S, NEW s \in Seq(S), NEW t \in Seq(S)
  PROVE  ToSet(s \o t) = ToSet(s) \cup ToSet(t)
<1>1. PICK l \in Nat, m \in Nat : l = Len(s) /\ m = Len(t)
  OBVIOUS
<1> DEFINE q == s \o t
<1>2. /\ q \in Seq(S) /\ Len(q) = l + m
      /\ \A k \in 1..l : q[k] = s[k]
      /\ \A k \in (l + 1)..(l + m) : q[k] = t[k - l]
  BY <1>1
<1> HIDE DEF q
<1>3. /\ ToSet(q) = {q[k] : k \in 1..(l + m)}
      /\ ToSet(s) = {s[k] : k \in 1..l} /\ ToSet(t) = {t[k] : k \in 1..m}
  BY <1>1, <1>2, ElementsOf
<1>4. /\ \A k \in 1..(l + m) : k \in 1..l \/ (k \in (l + 1)..(l + m) /\ k - l \in 1..m)
      /\ \A k \in 1..m : l + k \in (l + 1)..(l + m) /\ l + k \in 1..(l + m) /\ (l + k) - l = k
      /\ \A k \in 1..l : k \in 1..(l + m)
  OBVIOUS
<1>5. \A k \in 1..m : q[l + k] = t[k]
  BY <1>2, <1>4
<1>6. \A k \in 1..(l + m) : q[k] \in ToSet(s) \cup ToSet(t)
  <2>1. \A k \in 1..l : q[k] \in ToSet(s)
    BY <1>2, <1>3
  <2>2. \A k \in (l + 1)..(l + m) : k - l \in 1..m => q[k] \in ToSet(t)
    BY <1>2, <1>3
  <2>3. QED
    BY <1>4, <2>1, <2>2
<1>7. \A k \in 1..l : s[k] \in ToSet(q)
  BY <1>2, <1>3, <1>4
<1>8. \A k \in 1..m : t[k] \in ToSet(q)
  <2>1. \A k \in 1..m : q[l + k] \in ToSet(q)
    BY <1>3, <1>4
  <2>2. QED
    BY <1>5, <2>1
<1>9. QED
  BY <1>3, <1>6, <1>7, <1>8 DEF q

\* A list is its first n elements and the rest.
LEMMA DropFirst ==
  ASSUME NEW S, NEW q \in Seq(S), NEW l \in Nat, l = Len(q), NEW n \in 0..l
  PROVE  LET rest == SubSeq(q, n + 1, l) IN
         /\ rest \in Seq(S) /\ Len(rest) = l - n
         /\ \A k \in 1..(l - n) : n + k \in 1..l /\ rest[k] = q[n + k]
         /\ ToSet(q) = {q[k] : k \in 1..n} \cup ToSet(rest)
<1> DEFINE rest == SubSeq(q, n + 1, l)
<1>1. /\ rest \in Seq(S) /\ Len(rest) = l - n
      /\ \A k \in 1..(l - n) : rest[k] = q[n + k]
  <2>1. \A k \in (n + 1)..l : q[k] \in S
    OBVIOUS
  <2>2. n + 1 \in Int /\ l \in Int
    OBVIOUS
  <2>3. /\ rest \in Seq(S)
        /\ Len(rest) = IF n + 1 <= l THEN l - (n + 1) + 1 ELSE 0
        /\ \A k \in 1..(l - (n + 1) + 1) : rest[k] = q[(n + 1) + k - 1]
    BY <2>1, <2>2, SubSeqProperties
  <2>4. l - (n + 1) + 1 = l - n /\ \A k \in 1..(l - n) : (n + 1) + k - 1 = n + k
    OBVIOUS
  <2>5. QED
    BY <2>3, <2>4
<1> HIDE DEF rest
<1>2. ToSet(rest) = {q[n + k] : k \in 1..(l - n)}
  <2>1. DOMAIN rest = 1..(l - n)
    BY <1>1
  <2>2. QED
    BY <1>1, <2>1 DEF ToSet
<1>3. ToSet(q) = {q[k] : k \in 1..n} \cup {q[n + k] : k \in 1..(l - n)}
  <2>1. ToSet(q) = {q[k] : k \in 1..l}
    BY DEF ToSet
  <2>2. \A k \in 1..l : k \in 1..n \/ (k - n \in 1..(l - n) /\ n + (k - n) = k)
    OBVIOUS
  <2>3. (\A k \in 1..(l - n) : n + k \in 1..l) /\ \A k \in 1..n : k \in 1..l
    OBVIOUS
  <2>4. QED
    BY <2>1, <2>2, <2>3
<1>4. \A k \in 1..(l - n) : n + k \in 1..l
  OBVIOUS
<1>5. QED
  BY <1>1, <1>2, <1>3, <1>4 DEF rest

\* The first n elements are at most n.
LEMMA AtMost ==
  ASSUME NEW q, NEW n \in Nat
  PROVE  /\ IsFiniteSet({q[k] : k \in 1..n})
         /\ Cardinality({q[k] : k \in 1..n}) <= n
<1>1. IsFiniteSet(1..n) /\ Cardinality(1..n) = n
  BY FS_Interval
<1>2. [k \in 1..n |-> q[k]] \in Surjection(1..n, {q[k] : k \in 1..n})
  BY DEF Surjection
<1>3. QED
  BY <1>1, <1>2, FS_Surjection

\* Pumping moves objects from the queue to the threads: none is lost or doubled, and
\* the threads stay within their cap.
LEMMA PumpKeeps ==
  ASSUME NEW q \in Seq(Objects), NEW r \in SUBSET Objects,
         IsFiniteSet(r), Cardinality(r) <= MaxConcurrent,
         OwnIds(q), ToSet(q) \cap r = {}, Pump(q, r)
  PROVE  /\ queue' \in Seq(Objects) /\ running' \in SUBSET Objects
         /\ Cardinality(running') <= MaxConcurrent
         /\ ToSet(queue') \cup running' = ToSet(q) \cup r
         /\ Once'
<1>1. PICK l \in Nat : l = Len(q)
  OBVIOUS
<1>2. PICK c \in Nat : c = Cardinality(r)
  BY FS_CardinalityType
<1>3. MaxConcurrent \in Nat
  BY ProfileAssumption
<1>4. PICK n \in 0..l : n = Min({l, MaxConcurrent - c}) /\ n <= MaxConcurrent - c
  BY <1>1, <1>2, <1>3, LessOf
<1> DEFINE started == {q[k] : k \in 1..n}
           rest == SubSeq(q, n + 1, l)
<1>5. running' = r \cup started /\ queue' = rest
  BY <1>1, <1>2, <1>4 DEF Pump
<1>6. /\ rest \in Seq(Objects) /\ Len(rest) = l - n
      /\ \A k \in 1..(l - n) : n + k \in 1..l /\ rest[k] = q[n + k]
      /\ ToSet(q) = started \cup ToSet(rest)
  BY <1>1, DropFirst
<1>7. IsFiniteSet(started) /\ Cardinality(started) <= n
  BY AtMost
<1>8. started \subseteq Objects
  BY <1>6, ElementsOf
<1> HIDE DEF rest
<1>9. IsFiniteSet(running') /\ Cardinality(running') <= MaxConcurrent
  <2>1. /\ IsFiniteSet(r \cup started)
        /\ Cardinality(r \cup started) = c + Cardinality(started) - Cardinality(r \cap started)
    BY <1>2, <1>7, FS_Union
  <2>2. Cardinality(started) \in Nat /\ Cardinality(r \cap started) \in Nat
    BY <1>7, FS_Intersection, FS_CardinalityType
  <2>3. Cardinality(r \cup started) <= MaxConcurrent
    BY <1>3, <1>4, <1>7, <2>1, <2>2
  <2>4. QED
    BY <1>5, <2>1, <2>3
<1>10. OwnIds(rest)
  <2>1. \A j, k \in 1..(l - n) : n + j = n + k => j = k
    BY <1>4
  <2>2. QED
    BY <1>1, <1>6, <2>1 DEF OwnIds
<1>11. ASSUME NEW k \in 1..Len(rest), rest[k] \in r \cup started PROVE FALSE
  <2>1. n + k \in 1..l /\ rest[k] = q[n + k]
    BY <1>6
  <2>2. rest[k] \notin r
    <3>1. rest[k] \in ToSet(rest)
      BY <1>6 DEF ToSet
    <3>2. QED
      BY <1>6, <3>1
  <2>3. PICK j \in 1..n : q[n + k] = q[j]
    BY <1>11, <2>1, <2>2
  <2>4. j \in 1..l /\ j # n + k
    BY <1>4, <1>6
  <2>5. QED
    BY <1>1, <2>1, <2>3, <2>4 DEF OwnIds
<1>12. Once'
  BY <1>5, <1>9, <1>10, <1>11 DEF Once, OwnIds
<1>13. QED
  BY <1>5, <1>6, <1>8, <1>9, <1>12
-----------------------------------------------------------------------------
(* The list changes                                                        *)

\* A store that is saved and shown keeps the invariant, if what is new in it is new
\* altogether, ticks follow, and the engine hears of what is selected.
LEMMA ListChange ==
  ASSUME ListInv, NEW ps \in Seq(Objects), NEW sel \in 0..Len(ps), NEW marked,
         Save(ps, sel), Refresh(ps, marked),
         minted' \in 0..MaxObjects, minted' >= minted,
         \A o \in ToSet(ps) :
           o \in ToSet(profiles) \/ (o.id > minted /\ o.id <= minted'),
         OwnIds(ps),
         {ps[i].id : i \in marked \cap 1..Len(ps)} = ticked',
         tunnel' \in {NoProfile, EndpointAt(ps, sel)}
  PROVE  ListInv'
<1> USE DEF ListInv
<1>1. profiles' = ps /\ selected' = sel /\ file' = [profiles |-> ps, selected |-> sel]
  BY DEF Save
<1>2. /\ checked' = marked \cap 1..Len(ps) /\ UNCHANGED <<queue, running>>
      /\ rows' = [i \in 1..Len(ps) |-> IF ps[i].id \in PendingIds THEN "busy" ELSE "plain"]
  BY DEF Refresh
<1>3. \A i \in 1..Len(ps) : ps[i] \in Objects
  OBVIOUS
<1>4. ticked' \subseteq 1..MaxObjects
  BY <1>3 DEF Objects
<1>5. EndpointAt(ps, sel) \in Endpoints \cup {NoProfile}
  BY <1>3 DEF EndpointAt, Objects
<1>6. ProfileTypeOK'
  BY <1>1, <1>2, <1>4, <1>5 DEF ProfileTypeOK
<1>7. FileCurrent' /\ OneRow' /\ TunnelFollows' /\ TicksFollowObjects'
  BY <1>1, <1>2 DEF FileCurrent, OneRow, OwnIds, TunnelFollows, TicksFollowObjects
<1>8. RowsTell'
  BY <1>1, <1>2 DEF RowsTell, PendingIds
<1>9. Once'
  BY <1>2 DEF Once, OwnIds
<1>10. OneObject'
  <2>1. \A o \in Alive' : o \in Alive \/ (o \in ToSet(ps) /\ o.id > minted /\ o.id <= minted')
    BY <1>1, <1>2 DEF Alive
  <2>2. \A o \in Alive : o.id <= minted /\ o.id \in Nat
    <3>1. Alive \subseteq Objects
      BY ElementsOf DEF Alive, ProfileTypeOK
    <3>2. QED
      BY <3>1 DEF OneObject, Objects
  <2>3. \A o, p \in ToSet(ps) : o.id = p.id => o = p
    BY DEF OwnIds, ToSet
  <2>4. \A o \in ToSet(ps) : o.id \in Nat
    BY <1>3 DEF ToSet, Objects
  <2>5. minted \in Nat /\ minted' \in Nat
    BY DEF ProfileTypeOK
  <2>6. QED
    BY <2>1, <2>2, <2>3, <2>4, <2>5 DEF OneObject
<1>11. QED
  BY <1>6, <1>7, <1>8, <1>9, <1>10

\* A new profile at the end.
LEMMA AddStep ==
  ASSUME ListInv, NEW e \in Endpoints, AddProfiles(e) \/ ScannerAdds(e)
  PROVE  ListInv'
<1> DEFINE new == [id |-> minted + 1, endpoint |-> e]
           ps == Append(profiles, new)
           n == Len(profiles)
           sel == IF selected = 0 THEN Len(ps) ELSE selected
<1> USE DEF ListInv
<1>1. /\ minted < MaxObjects /\ minted' = minted + 1 /\ minted \in Nat
      /\ minted' \in 0..MaxObjects /\ Save(ps, sel) /\ ticked' = ticked
      /\ Refresh(ps, checked) /\ n \in Nat
  <2>1. Added(e) /\ Refresh(profiles', checked) /\ ticked' = ticked
    BY DEF AddProfiles, ScannerAdds
  <2>2. minted \in 0..MaxObjects /\ MaxObjects \in Nat /\ n \in Nat
    BY ProfileAssumption DEF ProfileTypeOK
  <2>3. profiles' = ps
    BY <2>1 DEF Added, Save
  <2>4. QED
    BY <2>1, <2>2, <2>3 DEF Added, Refresh
<1>2. new \in Objects /\ new.id = minted + 1
  BY <1>1, ProfileAssumption DEF Objects
<1>3. /\ ps \in Seq(Objects) /\ Len(ps) = n + 1
      /\ \A i \in 1..n : ps[i] = profiles[i] /\ profiles[i] \in ToSet(profiles)
      /\ ps[n + 1] = new
  BY <1>2 DEF ProfileTypeOK, ToSet
<1>4. sel \in 0..Len(ps)
  BY <1>1, <1>3 DEF ProfileTypeOK
<1> HIDE DEF ps, new, sel
<1>5. \A o \in ToSet(ps) : o \in ToSet(profiles) \/ (o.id > minted /\ o.id <= minted')
  BY <1>1, <1>2, <1>3 DEF ToSet
<1>6. OwnIds(ps)
  <2>1. \A i \in 1..n : ps[i].id <= minted /\ ps[i].id \in Nat
    <3>1. \A i \in 1..n : profiles[i] \in Objects
      BY DEF ProfileTypeOK
    <3>2. QED
      BY <1>3, <3>1 DEF OneObject, Alive, Objects
  <2>2. QED
    BY <1>1, <1>2, <1>3, <2>1 DEF OneRow, OwnIds
<1>7. {ps[i].id : i \in checked \cap 1..Len(ps)} = ticked'
  <2>1. checked \cap 1..Len(ps) = checked /\ \A i \in checked : ps[i] = profiles[i]
    <3>1. checked \subseteq 1..n /\ 1..n \subseteq 1..(n + 1)
      BY <1>1 DEF ProfileTypeOK
    <3>2. QED
      BY <1>3, <3>1
  <2>2. QED
    BY <1>1, <2>1 DEF TicksFollowObjects
<1>8. tunnel' \in {NoProfile, EndpointAt(ps, sel)}
  <2>1. CASE AddProfiles(e)
    BY <1>1, <2>1 DEF AddProfiles, EmitSelection, Save
  <2>2. CASE ScannerAdds(e)
    <3>1. tunnel' = tunnel
      BY <2>2 DEF ScannerAdds
    <3>2. selected # 0 => EndpointAt(ps, sel) = EndpointAt(profiles, selected)
      BY <1>3 DEF EndpointAt, sel, ProfileTypeOK
    <3>3. selected = 0 => tunnel = NoProfile
      BY DEF TunnelFollows, EndpointAt
    <3>4. QED
      BY <3>1, <3>2, <3>3 DEF TunnelFollows
  <2>3. QED
    BY <2>1, <2>2
<1>9. QED
  BY <1>1, <1>3, <1>4, <1>5, <1>6, <1>7, <1>8, ListChange

\* What is picked from a list of different objects.
LEMMA PickOwn ==
  ASSUME NEW q \in Seq(Objects), OwnIds(q), NEW I \in SUBSET (1..Len(q))
  PROVE  /\ Pick(q, I) \in Seq(Objects) /\ OwnIds(Pick(q, I))
         /\ ToSet(Pick(q, I)) = {q[i] : i \in I}
<1> DEFINE w == Pick(q, I)
           f == InOrder(I)
<1>1. /\ w \in Seq(Objects) /\ f \in [1..Len(w) -> I] /\ Increasing(f, Len(w))
      /\ \A k \in 1..Len(w) : w[k] = q[f[k]]
      /\ \A i \in I : \E k \in 1..Len(w) : f[k] = i
  BY PickOf
<1> HIDE DEF w, f
<1>2. \A k \in 1..Len(w) : f[k] \in I
  BY <1>1
<1>3. \A k \in 1..Len(w) : f[k] \in 1..Len(q)
  BY <1>2
<1>4. \A j, k \in 1..Len(w) : f[j] = f[k] => j = k
  <2>1. \A k \in 1..Len(w) : f[k] \in Nat
    BY <1>3
  <2>2. QED
    BY <1>1, <2>1 DEF Increasing
<1>5. OwnIds(w)
  BY <1>1, <1>3, <1>4 DEF OwnIds
<1>6. ToSet(w) = {q[i] : i \in I}
  <2>1. ToSet(w) = {w[k] : k \in 1..Len(w)}
    BY <1>1, ElementsOf
  <2>2. QED
    <3>1. \A k \in 1..Len(w) : w[k] \in {q[i] : i \in I}
      BY <1>1, <1>2
    <3>2. ASSUME NEW i \in I PROVE q[i] \in {w[k] : k \in 1..Len(w)}
      BY <1>1
    <3>3. QED
      BY <2>1, <3>1, <3>2
<1>7. QED
  BY <1>1, <1>5, <1>6 DEF w

\* The selection after a deletion is a row, and the server's if it stays.
LEMMA SelectionOf ==
  ASSUME ProfileTypeOK, OneRow,
         NEW gone \in SUBSET (1..Len(profiles)), gone # {}
  PROVE  /\ SelectionAfter(gone) \in 0..Len(Without(gone))
         /\ selected # 0 /\ selected \notin gone =>
              /\ SelectionAfter(gone) # 0
              /\ Without(gone)[SelectionAfter(gone)].endpoint = profiles[selected].endpoint
<1> DEFINE w == Without(gone)
           n == Len(w)
           same == {k \in 1..n : w[k].endpoint = profiles[selected].endpoint}
<1>1. DOMAIN profiles = 1..Len(profiles)
  BY DEF ProfileTypeOK
<1>2. w \in Seq(Objects) /\ ToSet(w) = {profiles[i] : i \in 1..Len(profiles) \ gone}
  BY <1>1, PickOwn DEF Without, ProfileTypeOK, OneRow
<1> HIDE DEF w
<1>3. n \in Nat
  BY <1>2
<1>4. CASE selected = 0 \/ selected \in gone
  <2> DEFINE low == Min(gone) - 1
             near == Max({low, 1})
  <2>1. gone \in SUBSET Nat /\ \A g \in gone : g >= 1
    OBVIOUS
  <2>2. Min(gone) \in Nat /\ Min(gone) >= 1
    BY <2>1, LeastOf
  <2>3. near \in Nat
    BY <2>2, MoreOf
  <2> HIDE DEF near
  <2>4. Min({near, n}) \in 0..n
    BY <1>3, <2>3, LessOf
  <2>5. SelectionAfter(gone) = Min({near, n})
    BY <1>4 DEF SelectionAfter, w, near
  <2>6. QED
    BY <1>4, <2>4, <2>5 DEF w
<1>5. CASE selected # 0 /\ selected \notin gone
  <2>1. selected \in 1..Len(profiles) \ gone
    BY <1>5 DEF ProfileTypeOK
  <2>2. profiles[selected] \in ToSet(w)
    BY <1>2, <2>1
  <2>3. same # {}
    <3>1. PICK k \in 1..n : w[k] = profiles[selected]
      BY <1>2, <2>2 DEF ToSet
    <3>2. k \in same
      BY <3>1
    <3>3. QED
      BY <3>2
  <2>4. same \in SUBSET Nat
    BY <1>3
  <2>5. Min(same) \in same
    BY <2>3, <2>4, LeastOf
  <2>6. SelectionAfter(gone) = Min(same)
    BY <1>5, <2>3 DEF SelectionAfter, SelectInSeq, w
  <2>7. QED
    BY <2>5, <2>6 DEF w
<1>6. QED
  BY <1>4, <1>5

\* A deletion keeps the invariant if the marks that stay are the ticks that stay.
LEMMA DeleteStep ==
  ASSUME ListInv, NEW gone \in SUBSET (1..Len(profiles)), gone # {}, NEW marked,
         Delete(gone, marked),
         {Without(gone)[k].id : k \in marked \cap 1..Len(Without(gone))}
           = ticked \ {profiles[i].id : i \in gone}
  PROVE  ListInv'
<1> DEFINE w == Without(gone)
<1>1. DOMAIN profiles = 1..Len(profiles) /\ minted \in Nat /\ minted \in 0..MaxObjects
  BY ProfileAssumption DEF ListInv, ProfileTypeOK
<1>2. /\ w \in Seq(Objects) /\ OwnIds(w)
      /\ ToSet(w) = {profiles[i] : i \in 1..Len(profiles) \ gone}
  BY <1>1, PickOwn DEF Without, ListInv, ProfileTypeOK, OneRow
<1>3. SelectionAfter(gone) \in 0..Len(w)
  BY SelectionOf DEF ListInv
<1>4. ToSet(w) \subseteq ToSet(profiles)
  BY <1>1, <1>2 DEF ToSet
<1>5. /\ Save(w, SelectionAfter(gone)) /\ Refresh(w, marked) /\ minted' = minted
      /\ {w[k].id : k \in marked \cap 1..Len(w)} = ticked'
  BY DEF Delete
<1>6. tunnel' = EndpointAt(w, SelectionAfter(gone))
  BY DEF Delete, Save, EmitSelection
<1> HIDE DEF w
<1>7. QED
  BY <1>1, <1>2, <1>3, <1>4, <1>5, <1>6, ListChange

\* The order of all indexes but one.
LEMMA AllButOne ==
  ASSUME NEW n \in Nat, NEW i \in 1..n
  PROVE  LET I == 1..n \ {i} IN
         /\ Cardinality(I) = n - 1
         /\ InOrder(I) = [k \in 1..(n - 1) |-> IF k < i THEN k ELSE k + 1]
<1> DEFINE I == 1..n \ {i}
           g == [k \in 1..(n - 1) |-> IF k < i THEN k ELSE k + 1]
<1>1. Cardinality(I) = n - 1
  <2>1. IsFiniteSet(1..n) /\ Cardinality(1..n) = n
    BY FS_Interval
  <2>2. QED
    BY <2>1, FS_RemoveElement
<1>2. g \in [1..(n - 1) -> I] /\ n - 1 \in Nat
  OBVIOUS
<1>3. Increasing(g, n - 1)
  BY DEF Increasing
<1>4. \A j \in I : \E k \in 1..(n - 1) : g[k] = j
  <2>1. ASSUME NEW j \in I PROVE \E k \in 1..(n - 1) : g[k] = j
    <3>1. CASE j < i
      <4>1. j \in 1..(n - 1) /\ g[j] = j
        BY <3>1
      <4>2. QED
        BY <4>1
    <3>2. CASE j > i
      <4>1. j - 1 \in 1..(n - 1) /\ g[j - 1] = j
        BY <3>2
      <4>2. QED
        BY <4>1
    <3>3. QED
      BY <3>1, <3>2
  <2>2. QED
    BY <2>1
<1>5. I \in SUBSET (1..n)
  OBVIOUS
<1> HIDE DEF g, I
<1>6. InOrder(I) = g
  BY <1>1, <1>2, <1>3, <1>4, <1>5, OrderUnique
<1>7. QED
  BY <1>1, <1>6 DEF g, I

\* Without one row the rows behind it move up.
LEMMA WithoutOne ==
  ASSUME ProfileTypeOK, NEW n \in Nat, n = Len(profiles), NEW i \in 1..n
  PROVE  /\ Len(Without({i})) = n - 1
         /\ \A k \in 1..(n - 1) :
              Without({i})[k] = profiles[IF k < i THEN k ELSE k + 1]
<1> DEFINE I == 1..n \ {i}
           g == [k \in 1..(n - 1) |-> IF k < i THEN k ELSE k + 1]
<1>1. Cardinality(I) = n - 1 /\ InOrder(I) = g
  BY AllButOne
<1>2. DOMAIN profiles = 1..n
  BY DEF ProfileTypeOK
<1> HIDE DEF g
<1>3. Without({i}) = [k \in 1..(n - 1) |-> profiles[g[k]]]
  BY <1>1, <1>2 DEF Without, Pick
<1>4. \A k \in 1..(n - 1) : Without({i})[k] = profiles[g[k]]
  BY <1>3
<1>5. Without({i}) \in Seq(Objects) /\ DOMAIN Without({i}) = 1..(n - 1)
  <2>1. Without({i}) \in Seq(Objects)
    BY <1>2, PickOf DEF Without, ProfileTypeOK
  <2>2. QED
    BY <1>3, <2>1
<1>6. Len(Without({i})) = n - 1
  BY <1>5
<1>7. QED
  BY <1>4, <1>6 DEF g

LEMMA DeleteOneStep ==
  ASSUME ListInv, NEW i \in 1..Len(profiles), DeleteOne(i)
  PROVE  ListInv'
<1> DEFINE w == Without({i})
<1>1. PICK n \in Nat : n = Len(profiles)
  BY DEF ListInv, ProfileTypeOK
<1>2. /\ Len(w) = n - 1
      /\ \A k \in 1..(n - 1) : w[k] = profiles[IF k < i THEN k ELSE k + 1]
  BY <1>1, WithoutOne DEF ListInv
<1>3. checked \subseteq 1..n /\ i \in 1..n
  BY <1>1 DEF ListInv, ProfileTypeOK
<1>4. \A j, k \in 1..n : profiles[j].id = profiles[k].id => j = k
  BY <1>1 DEF ListInv, OneRow, OwnIds
<1>5. ticked = {profiles[j].id : j \in checked}
  BY DEF ListInv, TicksFollowObjects
<1> DEFINE at(j) == IF j < i THEN j ELSE j - 1
<1>6. \A j \in checked \ {i} : at(j) \in 1..(n - 1) /\ w[at(j)] = profiles[j]
  <2>1. ASSUME NEW j \in checked \ {i}
        PROVE  /\ at(j) \in 1..(n - 1)
               /\ (IF at(j) < i THEN at(j) ELSE at(j) + 1) = j
    BY <1>3
  <2>2. QED
    BY <1>2, <2>1
<1>7. Shifted(i) = {at(j) : j \in checked \ {i}}
  BY DEF Shifted
<1> HIDE DEF w, at
<1>8. Shifted(i) \cap 1..Len(w) = {at(j) : j \in checked \ {i}}
  BY <1>2, <1>6, <1>7
<1>9. {w[k].id : k \in Shifted(i) \cap 1..Len(w)} = {profiles[j].id : j \in checked \ {i}}
  BY <1>6, <1>8
<1>10. {profiles[j].id : j \in checked \ {i}} = ticked \ {profiles[j].id : j \in {i}}
  BY <1>3, <1>4, <1>5
<1>11. {i} \in SUBSET (1..Len(profiles)) /\ {i} # {} /\ Delete({i}, Shifted(i))
  BY DEF DeleteOne
<1>12. {w[k].id : k \in Shifted(i) \cap 1..Len(w)} = ticked \ {profiles[j].id : j \in {i}}
  BY <1>9, <1>10
<1>13. QED
  BY <1>11, <1>12, DeleteStep DEF w

LEMMA DeleteCheckedStep == ASSUME ListInv, DeleteChecked PROVE ListInv'
<1>1. checked \in SUBSET (1..Len(profiles)) /\ checked # {} /\ Delete(checked, {})
  BY DEF ListInv, ProfileTypeOK, DeleteChecked
<1>2. {Without(checked)[k].id : k \in {} \cap 1..Len(Without(checked))}
        = ticked \ {profiles[i].id : i \in checked}
  BY DEF ListInv, TicksFollowObjects
<1>3. QED
  BY <1>1, <1>2, DeleteStep

\* The edited profile is a new object in the old one's row.
LEMMA EditStep ==
  ASSUME ListInv, NEW i \in 1..Len(profiles), NEW e \in Endpoints, Edit(i, e)
  PROVE  ListInv'
<1> DEFINE new == [id |-> minted + 1, endpoint |-> e]
           ps == [profiles EXCEPT ![i] = new]
<1>1. /\ minted < MaxObjects /\ minted' = minted + 1 /\ minted \in Nat
      /\ minted' \in 0..MaxObjects /\ Save(ps, selected) /\ Refresh(ps, checked)
  BY ProfileAssumption DEF Edit, ListInv, ProfileTypeOK
<1>2. new \in Objects /\ new.id = minted + 1 /\ new.endpoint = e
  BY <1>1, ProfileAssumption DEF Objects
<1>3. /\ ps \in Seq(Objects) /\ Len(ps) = Len(profiles)
      /\ \A j \in 1..Len(profiles) : ps[j] = IF j = i THEN new ELSE profiles[j]
  BY <1>2 DEF ListInv, ProfileTypeOK
<1>4. \A j \in 1..Len(profiles) : profiles[j].id <= minted /\ profiles[j].id \in Nat
  <2>1. \A j \in 1..Len(profiles) : profiles[j] \in Objects /\ profiles[j] \in Alive
    BY DEF ListInv, ProfileTypeOK, Alive, ToSet
  <2>2. QED
    BY <2>1 DEF ListInv, OneObject, Objects
<1>5. selected \in 0..Len(ps) /\ checked \subseteq 1..Len(profiles)
  BY <1>3 DEF ListInv, ProfileTypeOK
<1> HIDE DEF ps, new
<1>6. \A o \in ToSet(ps) : o \in ToSet(profiles) \/ (o.id > minted /\ o.id <= minted')
  <2>1. \A j \in 1..Len(profiles) : profiles[j] \in ToSet(profiles)
    BY DEF ListInv, ProfileTypeOK, ToSet
  <2>2. ToSet(ps) = {ps[j] : j \in 1..Len(profiles)}
    BY <1>3, ElementsOf
  <2>3. QED
    BY <1>1, <1>2, <1>3, <2>1, <2>2
<1>7. OwnIds(ps)
  BY <1>1, <1>2, <1>3, <1>4 DEF OwnIds, ListInv, OneRow
<1>8. {ps[j].id : j \in checked \cap 1..Len(ps)} = ticked'
  <2>1. ticked' = IF i \in checked THEN (ticked \ {profiles[i].id}) \cup {minted + 1} ELSE ticked
    BY DEF Edit
  <2>2. ticked = {profiles[j].id : j \in checked}
    BY DEF ListInv, TicksFollowObjects
  <2>3. checked \cap 1..Len(ps) = checked
    BY <1>3, <1>5
  <2>4. CASE i \notin checked
    <3>1. \A j \in checked : ps[j].id = profiles[j].id
      BY <1>3, <1>5, <2>4
    <3>2. QED
      BY <2>1, <2>2, <2>3, <2>4, <3>1
  <2>5. CASE i \in checked
    <3>1. /\ ps[i].id = minted + 1
          /\ \A j \in checked \ {i} : ps[j].id = profiles[j].id /\ profiles[j].id # profiles[i].id
      BY <1>2, <1>3, <1>5 DEF ListInv, OneRow, OwnIds
    <3>2. {ps[j].id : j \in checked} = {profiles[j].id : j \in checked \ {i}} \cup {minted + 1}
      BY <2>5, <3>1
    <3>3. ticked \ {profiles[i].id} = {profiles[j].id : j \in checked \ {i}}
      BY <2>2, <3>1
    <3>4. QED
      BY <2>1, <2>3, <2>5, <3>2, <3>3
  <2>6. QED
    BY <2>4, <2>5
<1>9. tunnel' \in {NoProfile, EndpointAt(ps, selected)}
  <2>1. CASE i = selected
    BY <1>1, <2>1 DEF Edit, EmitSelection, Save
  <2>2. CASE i # selected
    <3>1. tunnel' = tunnel
      BY <2>2 DEF Edit
    <3>2. EndpointAt(ps, selected) = EndpointAt(profiles, selected)
      BY <1>3, <1>5, <2>2 DEF EndpointAt
    <3>3. QED
      BY <3>1, <3>2 DEF ListInv, TunnelFollows
  <2>3. QED
    BY <2>1, <2>2
<1>10. QED
  BY <1>1, <1>3, <1>5, <1>6, <1>7, <1>8, <1>9, ListChange

\* A change of the marks or the selection alone.
LEMMA SameListStep ==
  ASSUME ListInv, NEW sel \in 0..Len(profiles), NEW marked,
         Save(profiles, sel), Refresh(profiles, marked), minted' = minted,
         {profiles[i].id : i \in marked \cap 1..Len(profiles)} = ticked',
         tunnel' \in {NoProfile, EndpointAt(profiles, sel)}
  PROVE  ListInv'
<1>1. /\ profiles \in Seq(Objects) /\ OwnIds(profiles)
      /\ minted' \in 0..MaxObjects /\ minted' >= minted
  BY DEF ListInv, ProfileTypeOK, OneRow
<1>2. QED
  BY <1>1, ListChange

LEMMA MarkStep ==
  ASSUME ListInv,
         \/ \E i \in 1..Len(profiles) : Activate(i) \/ Tick(i)
         \/ \E all \in BOOLEAN : TickAll(all)
  PROVE  ListInv'
<1>1. ASSUME NEW i \in 1..Len(profiles), Activate(i) PROVE ListInv'
  <2>1. i \in 0..Len(profiles) /\ Save(profiles, i) /\ Refresh(profiles, checked) /\ minted' = minted
    BY <1>1 DEF Activate
  <2>2. {profiles[j].id : j \in checked \cap 1..Len(profiles)} = ticked'
    <3>1. checked \cap 1..Len(profiles) = checked
      BY DEF ListInv, ProfileTypeOK
    <3>2. QED
      BY <1>1, <3>1 DEF Activate, ListInv, TicksFollowObjects
  <2>3. tunnel' \in {NoProfile, EndpointAt(profiles, i)}
    BY <1>1 DEF Activate, EmitSelection, Save
  <2>4. QED
    BY <2>1, <2>2, <2>3, SameListStep
<1>2. ASSUME NEW all \in BOOLEAN, TickAll(all) PROVE ListInv'
  <2> DEFINE marked == IF all THEN DOMAIN profiles ELSE {}
  <2>1. /\ selected \in 0..Len(profiles) /\ Refresh(profiles, marked) /\ minted' = minted
        /\ Save(profiles, selected)
    BY <1>2 DEF TickAll, ListInv, ProfileTypeOK, FileCurrent, Save, store
  <2>2. {profiles[j].id : j \in marked \cap 1..Len(profiles)} = ticked'
    BY <1>2 DEF TickAll, Refresh
  <2>3. tunnel' \in {NoProfile, EndpointAt(profiles, selected)}
    BY <1>2 DEF TickAll, ListInv, TunnelFollows
  <2> HIDE DEF marked
  <2>4. QED
    BY <2>1, <2>2, <2>3, SameListStep
<1>3. ASSUME NEW i \in 1..Len(profiles), Tick(i) PROVE ListInv'
  <2>1. checked' \subseteq 1..Len(profiles) /\ ticked' = {profiles[j].id : j \in checked'}
    BY <1>3 DEF Tick, ListInv, ProfileTypeOK
  <2>2. UNCHANGED <<profiles, selected, minted, file, rows, queue, running, tunnel>>
    BY <1>3 DEF Tick, store, pings
  <2>3. ticked' \subseteq 1..MaxObjects
    <3>1. \A j \in 1..Len(profiles) : profiles[j] \in Objects
      BY DEF ListInv, ProfileTypeOK
    <3>2. QED
      BY <2>1, <3>1 DEF Objects
  <2>4. ProfileTypeOK' /\ TicksFollowObjects'
    BY <2>1, <2>2, <2>3 DEF ListInv, ProfileTypeOK, TicksFollowObjects
  <2>5. QED
    BY <2>2, <2>4 DEF ListInv, FileCurrent, OneObject, Alive, OneRow, OwnIds, Once,
       TunnelFollows, RowsTell, PendingIds
<1>4. QED
  BY <1>1, <1>2, <1>3
-----------------------------------------------------------------------------
(* Measuring                                                               *)

\* What is asked for and not measured yet joins the queue; its rows spin.
LEMMA MeasureStep ==
  ASSUME ListInv, NEW asked \in Seq(Objects), OwnIds(asked),
         ToSet(asked) \subseteq ToSet(profiles), Measure(asked)
  PROVE  ListInv'
<1> DEFINE I == {i \in 1..Len(asked) : asked[i].id \notin PendingIds}
           new == Fresh(asked)
           q == queue \o new
<1>1. /\ new \in Seq(Objects) /\ OwnIds(new)
      /\ ToSet(new) = {asked[i] : i \in I}
  <2>1. DOMAIN asked = 1..Len(asked)
    OBVIOUS
  <2>2. new = Pick(asked, I)
    BY <2>1 DEF Fresh
  <2>3. QED
    BY <2>2, PickOwn
<1>2. /\ \A o \in ToSet(new) : o \in ToSet(profiles) /\ o.id \notin PendingIds
      /\ ToSet(asked) = {asked[i] : i \in 1..Len(asked)}
  BY <1>1, ElementsOf
<1>3. /\ queue \in Seq(Objects) /\ running \in SUBSET Objects /\ IsFiniteSet(running)
      /\ Cardinality(running) <= MaxConcurrent /\ OwnIds(queue)
      /\ ToSet(queue) \cap running = {}
  BY DEF ListInv, ProfileTypeOK, Once, ToSet
<1>4. /\ UNCHANGED <<profiles, selected, minted, file, checked, ticked, tunnel>>
      /\ Pump(q, running)
      /\ rows' = [i \in 1..Len(profiles) |->
                    IF profiles[i].id \in Ids(new) THEN "busy" ELSE rows[i]]
  BY DEF Measure, store, marks
<1> HIDE DEF new
<1>5. /\ q \in Seq(Objects) /\ OwnIds(q) /\ ToSet(q) = ToSet(queue) \cup ToSet(new)
  <2>1. PICK l \in Nat, m \in Nat : l = Len(queue) /\ m = Len(new)
    BY <1>1, <1>3
  <2>2. /\ q \in Seq(Objects) /\ Len(q) = l + m
        /\ \A k \in 1..l : q[k] = queue[k]
        /\ \A k \in (l + 1)..(l + m) : q[k] = new[k - l] /\ k - l \in 1..m
    BY <1>1, <1>3, <2>1
  <2>3. \A k \in 1..l : queue[k].id \in PendingIds
    BY <2>1 DEF PendingIds, Ids
  <2>4. \A k \in 1..m : new[k].id \notin PendingIds
    BY <1>1, <1>2, <2>1 DEF ToSet
  <2>5. OwnIds(q)
    <3>1. \A k \in 1..(l + m) : k \in 1..l \/ k \in (l + 1)..(l + m)
      OBVIOUS
    <3>2. QED
      BY <1>1, <1>3, <2>1, <2>2, <2>3, <2>4, <3>1 DEF OwnIds
  <2>6. ToSet(q) = ToSet(queue) \cup ToSet(new)
    BY <1>1, <1>3, JoinedLists
  <2>7. QED
    BY <2>2, <2>5, <2>6
<1>6. ToSet(q) \cap running = {}
  <2>1. \A o \in running : o.id \in PendingIds
    BY DEF PendingIds
  <2>2. QED
    BY <1>2, <1>3, <1>5, <2>1
<1> HIDE DEF q
<1>7. /\ queue' \in Seq(Objects) /\ running' \in SUBSET Objects
      /\ Cardinality(running') <= MaxConcurrent /\ Once'
      /\ ToSet(queue') \cup running' = ToSet(queue) \cup running \cup ToSet(new)
  BY <1>3, <1>4, <1>5, <1>6, PumpKeeps
<1>8. PendingIds' = PendingIds \cup Ids(new)
  <2>1. PendingIds' = {o.id : o \in ToSet(queue') \cup running'}
    BY PendingAre DEF PendingIds, Ids, ToSet
  <2>2. Ids(new) = {o.id : o \in ToSet(new)}
    BY <1>1 DEF Ids, ToSet
  <2>3. QED
    BY <1>7, <2>1, <2>2, PendingAre
<1>9. RowsTell'
  BY <1>4, <1>8 DEF ListInv, RowsTell
<1>10. ProfileTypeOK'
  BY <1>4, <1>7 DEF ListInv, ProfileTypeOK
<1>11. OneObject'
  <2>1. Alive' = Alive
    BY <1>2, <1>4, <1>7 DEF Alive
  <2>2. QED
    BY <1>4, <2>1 DEF ListInv, OneObject
<1>12. FileCurrent' /\ OneRow' /\ TicksFollowObjects' /\ TunnelFollows'
  BY <1>4 DEF ListInv, FileCurrent, OneRow, OwnIds, TicksFollowObjects, TunnelFollows
<1>13. QED
  BY <1>7, <1>9, <1>10, <1>11, <1>12 DEF ListInv

\* One row, the ticked rows or all of them.
LEMMA AskStep ==
  ASSUME ListInv,
         \/ \E i \in 1..Len(profiles) : MeasureRow(i)
         \/ MeasureAll \/ MeasureChecked
  PROVE  ListInv'
<1>1. profiles \in Seq(Objects) /\ OwnIds(profiles) /\ DOMAIN profiles = 1..Len(profiles)
  BY DEF ListInv, ProfileTypeOK, OneRow
<1>2. ToSet(profiles) = {profiles[i] : i \in 1..Len(profiles)}
  BY <1>1, ElementsOf
<1>3. ASSUME NEW i \in 1..Len(profiles), MeasureRow(i) PROVE ListInv'
  <2>1. <<profiles[i]>> \in Seq(Objects) /\ OwnIds(<<profiles[i]>>)
    BY <1>1 DEF OwnIds
  <2>2. ToSet(<<profiles[i]>>) \subseteq ToSet(profiles)
    BY <1>2 DEF ToSet
  <2>3. QED
    BY <1>3, <2>1, <2>2, MeasureStep DEF MeasureRow
<1>4. ASSUME MeasureAll PROVE ListInv'
  BY <1>1, <1>4, MeasureStep DEF MeasureAll
<1>5. ASSUME MeasureChecked PROVE ListInv'
  <2> DEFINE asked == Pick(profiles, checked)
  <2>1. checked \in SUBSET (1..Len(profiles))
    BY DEF ListInv, ProfileTypeOK
  <2>2. /\ asked \in Seq(Objects) /\ OwnIds(asked)
        /\ ToSet(asked) = {profiles[i] : i \in checked}
    BY <1>1, <2>1, PickOwn
  <2>3. ToSet(asked) \subseteq ToSet(profiles)
    BY <1>2, <2>1, <2>2
  <2>4. Measure(asked)
    BY <1>5 DEF MeasureChecked
  <2> HIDE DEF asked
  <2>5. QED
    BY <2>2, <2>3, <2>4, MeasureStep
<1>6. QED
  BY <1>3, <1>4, <1>5

\* The object's own row stops, wherever it is now.
LEMMA RowOfOwn ==
  ASSUME ListInv, NEW o \in running
  PROVE  \A i \in 1..Len(profiles) : i = RowOf(o) <=> profiles[i].id = o.id
<1> DEFINE same == {i \in 1..Len(profiles) : profiles[i] = o}
<1>1. RowOf(o) = IF same # {} THEN Min(same) ELSE 0
  BY DEF RowOf, SelectInSeq
<1>2. \A i \in 1..Len(profiles) : profiles[i].id = o.id => profiles[i] = o
  <2>1. \A i \in 1..Len(profiles) : profiles[i] \in Alive /\ o \in Alive
    BY DEF ListInv, ProfileTypeOK, Alive, ToSet
  <2>2. QED
    BY <2>1 DEF ListInv, OneObject
<1>3. \A i, j \in same : i = j
  BY DEF ListInv, OneRow, OwnIds
<1>4. Len(profiles) \in Nat
  BY DEF ListInv, ProfileTypeOK
<1>5. CASE same = {}
  BY <1>1, <1>2, <1>4, <1>5
<1>6. CASE same # {}
  <2>1. same \in SUBSET Nat
    BY <1>4
  <2>2. Min(same) \in same
    BY <1>6, <2>1, LeastOf
  <2>3. QED
    BY <1>1, <1>2, <1>3, <1>6, <2>2
<1>7. QED
  BY <1>5, <1>6

LEMMA MeasureDoneStep ==
  ASSUME ListInv, NEW o \in running, MeasureDone(o)
  PROVE  ListInv'
<1> DEFINE r == running \ {o}
<1>1. /\ queue \in Seq(Objects) /\ running \in SUBSET Objects /\ IsFiniteSet(running)
      /\ Cardinality(running) <= MaxConcurrent /\ OwnIds(queue)
      /\ ToSet(queue) \cap running = {} /\ MaxConcurrent \in Nat
  BY ProfileAssumption DEF ListInv, ProfileTypeOK, Once, ToSet
<1>2. /\ r \in SUBSET Objects /\ IsFiniteSet(r) /\ Cardinality(r) <= MaxConcurrent
      /\ ToSet(queue) \cap r = {}
  <2>1. IsFiniteSet(r) /\ Cardinality(r) = Cardinality(running) - 1
    BY <1>1, FS_RemoveElement
  <2>2. Cardinality(running) \in Nat
    BY <1>1, FS_CardinalityType
  <2>3. QED
    BY <1>1, <2>1, <2>2
<1>3. /\ UNCHANGED <<profiles, selected, minted, file, checked, ticked, tunnel>>
      /\ Pump(queue, r)
      /\ rows' = [i \in 1..Len(profiles) |-> IF i = RowOf(o) THEN "plain" ELSE rows[i]]
  BY DEF MeasureDone, store, marks
<1> HIDE DEF r
<1>4. /\ queue' \in Seq(Objects) /\ running' \in SUBSET Objects
      /\ Cardinality(running') <= MaxConcurrent /\ Once'
      /\ ToSet(queue') \cup running' = ToSet(queue) \cup r
  BY <1>1, <1>2, <1>3, PumpKeeps
<1>5. PendingIds' = {p.id : p \in ToSet(queue) \cup r}
  <2>1. PendingIds' = {p.id : p \in ToSet(queue') \cup running'}
    BY PendingAre DEF PendingIds, Ids, ToSet
  <2>2. QED
    BY <1>4, <2>1
<1>6. ToSet(queue) \cup r = (ToSet(queue) \cup running) \ {o}
  BY <1>1 DEF r
<1>7. \A p \in ToSet(queue) \cup running : p.id = o.id => p = o
  BY DEF ListInv, OneObject, Alive
<1>8. PendingIds' = PendingIds \ {o.id}
  BY <1>5, <1>6, <1>7, PendingAre
<1>9. RowsTell'
  <2>1. \A i \in 1..Len(profiles) : i = RowOf(o) <=> profiles[i].id = o.id
    BY RowOfOwn
  <2>2. \A i \in 1..Len(profiles) :
          rows'[i] = "busy" <=> (rows[i] = "busy" /\ profiles[i].id # o.id)
    BY <1>3, <2>1
  <2>3. QED
    BY <1>3, <1>8, <2>2 DEF ListInv, RowsTell
<1>10. ProfileTypeOK'
  BY <1>3, <1>4 DEF ListInv, ProfileTypeOK
<1>11. OneObject'
  <2>1. Alive' \subseteq Alive
    BY <1>3, <1>4, <1>6 DEF Alive
  <2>2. QED
    BY <1>3, <2>1 DEF ListInv, OneObject
<1>12. FileCurrent' /\ OneRow' /\ TicksFollowObjects' /\ TunnelFollows'
  BY <1>3 DEF ListInv, FileCurrent, OneRow, OwnIds, TicksFollowObjects, TunnelFollows
<1>13. QED
  BY <1>4, <1>9, <1>10, <1>11, <1>12 DEF ListInv
-----------------------------------------------------------------------------
(* The specification                                                       *)

LEMMA NothingHeld ==
  ASSUME queue = <<>>, running = {}
  PROVE  PendingIds = {} /\ Once /\ ToSet(queue) = {}
<1>1. IsFiniteSet({})
  BY FS_EmptySet
<1>2. QED
  BY <1>1 DEF PendingIds, Ids, Once, OwnIds, ToSet

LEMMA ListStarts == ProfileInit => ListInv
<1> SUFFICES ASSUME ProfileInit PROVE ListInv
  OBVIOUS
<1> USE DEF ProfileInit
<1>1. PendingIds = {} /\ Once /\ ToSet(queue) = {}
  BY NothingHeld
<1>2. Cardinality({}) = 0 /\ MaxConcurrent \in Nat /\ MaxObjects \in Nat
  BY FS_EmptySet, ProfileAssumption
<1>3. ProfileTypeOK
  BY <1>2 DEF ProfileTypeOK
<1>4. OneObject
  BY <1>1 DEF OneObject, Alive, ToSet
<1>5. FileCurrent /\ OneRow /\ TicksFollowObjects /\ TunnelFollows /\ RowsTell
  BY DEF FileCurrent, OneRow, OwnIds, TicksFollowObjects, TunnelFollows, RowsTell
<1>6. QED
  BY <1>1, <1>3, <1>4, <1>5 DEF ListInv

LEMMA ListRestartStep == ASSUME ListInv, Restart PROVE ListInv'
<1>1. /\ queue' = <<>> /\ running' = {} /\ checked' = {} /\ ticked' = {}
      /\ tunnel' = EndpointAt(profiles', selected') /\ minted' = minted
      /\ profiles' = file'.profiles /\ selected' = file'.selected
      /\ rows' = [i \in 1..Len(profiles') |-> "plain"]
      /\ file' \in {file, Torn}
  BY DEF Restart, EmitSelection
<1>2. PendingIds' = {} /\ Once' /\ ToSet(queue') = {}
  <2>1. IsFiniteSet({})
    BY FS_EmptySet
  <2>2. QED
    BY <1>1, <2>1 DEF PendingIds, Ids, Once, OwnIds, ToSet
<1>3. /\ profiles' \in Seq(Objects) /\ selected' \in 0..Len(profiles') /\ FileCurrent'
      /\ OwnIds(profiles') /\ ToSet(profiles') \subseteq ToSet(profiles)
  <2>1. CASE file' = file
    BY <1>1, <2>1 DEF ListInv, ProfileTypeOK, FileCurrent, OneRow, OwnIds, ToSet
  <2>2. CASE file' = Torn
    BY <1>1, <2>2 DEF Torn, FileCurrent, OwnIds, ToSet
  <2>3. QED
    BY <1>1, <2>1, <2>2
<1>4. Cardinality({}) = 0 /\ MaxConcurrent \in Nat
  BY FS_EmptySet, ProfileAssumption
<1>5. ProfileTypeOK'
  <2>1. tunnel' \in Endpoints \cup {NoProfile}
    <3>1. CASE selected' = 0
      BY <1>1, <3>1 DEF EndpointAt
    <3>2. CASE selected' # 0
      <4>1. selected' \in 1..Len(profiles')
        BY <1>3, <3>2
      <4>2. profiles'[selected'] \in Objects
        BY <1>3, <4>1
      <4>3. tunnel' = profiles'[selected'].endpoint
        BY <1>1, <3>2 DEF EndpointAt
      <4>4. QED
        BY <4>2, <4>3 DEF Objects
    <3>3. QED
      BY <3>1, <3>2
  <2>2. QED
    BY <1>1, <1>3, <1>4, <2>1 DEF ListInv, ProfileTypeOK, FileCurrent
<1>6. OneObject'
  <2>1. Alive' \subseteq Alive
    BY <1>1, <1>2, <1>3 DEF Alive
  <2>2. QED
    BY <1>1, <2>1 DEF ListInv, OneObject
<1>7. RowsTell'
  BY <1>1, <1>2 DEF RowsTell
<1>8. OneRow' /\ TicksFollowObjects' /\ TunnelFollows'
  BY <1>1, <1>3 DEF OneRow, OwnIds, TicksFollowObjects, TunnelFollows
<1>9. QED
  BY <1>2, <1>3, <1>5, <1>6, <1>7, <1>8 DEF ListInv

LEMMA ListStutter == ASSUME ListInv, UNCHANGED profileVars PROVE ListInv'
BY DEF profileVars, store, marks, pings, ListInv, ProfileTypeOK, FileCurrent, OneObject,
   Alive, OneRow, OwnIds, Once, TicksFollowObjects, TunnelFollows, RowsTell, PendingIds

LEMMA ListStep == ASSUME ListInv, [ProfileNext]_profileVars PROVE ListInv'
<1>1. CASE Restart
  BY <1>1, ListRestartStep
<1>2. ASSUME NEW e \in Endpoints, AddProfiles(e) \/ ScannerAdds(e) PROVE ListInv'
  BY <1>2, AddStep
<1>3. CASE DeleteChecked
  BY <1>3, DeleteCheckedStep
<1>4. ASSUME NEW i \in 1..Len(profiles), DeleteOne(i) PROVE ListInv'
  BY <1>4, DeleteOneStep
<1>5. ASSUME NEW i \in 1..Len(profiles), NEW e \in Endpoints, Edit(i, e) PROVE ListInv'
  BY <1>5, EditStep
<1>6. CASE \/ \E i \in 1..Len(profiles) : Activate(i) \/ Tick(i)
           \/ \E all \in BOOLEAN : TickAll(all)
  BY <1>6, MarkStep
<1>7. CASE \/ \E i \in 1..Len(profiles) : MeasureRow(i)
           \/ MeasureAll \/ MeasureChecked
  BY <1>7, AskStep
<1>8. ASSUME NEW o \in running, MeasureDone(o) PROVE ListInv'
  BY <1>8, MeasureDoneStep
<1>9. CASE UNCHANGED profileVars
  BY <1>9, ListStutter
<1>10. QED
  BY <1>1, <1>2, <1>3, <1>4, <1>5, <1>6, <1>7, <1>8, <1>9 DEF ProfileNext

\* The list of profiles keeps its invariant, however it is edited and measured: what
\* is saved is what is shown, an id is one object in one row, and no object is queued
\* or measured twice.
THEOREM ListInvariant == ProfileSpec => []ListInv
<1>1. QED
  BY ListStarts, ListStep, PTL DEF ProfileSpec

\* The ticks are the objects the user ticked, for any number of profiles and changes
\* of the list (window.py, _checked renumbered by every delete).
THEOREM TicksAreTheUsers == ProfileSpec => []TicksFollowObjects
<1>1. ListInv => TicksFollowObjects
  BY DEF ListInv
<1>2. QED
  BY <1>1, ListInvariant, PTL

\* The engine holds the selected profile or none: no change of the list leaves it on a
\* profile that is not the selected one.
THEOREM TunnelIsTheSelected == ProfileSpec => []TunnelFollows
<1>1. ListInv => TunnelFollows
  BY DEF ListInv
<1>2. QED
  BY <1>1, ListInvariant, PTL

\* A row spins exactly while its own object is queued or measured, wherever the list
\* has moved it since.
THEOREM RowsAreTrue == ProfileSpec => []RowsTell
<1>1. ListInv => RowsTell
  BY DEF ListInv
<1>2. QED
  BY <1>1, ListInvariant, PTL

\* A step that changes the list and keeps the selected object keeps its server
\* selected.
LEMMA SelectionStep ==
  ASSUME ListInv, ProfileNext, selected # 0,
         profiles[selected].id \in Ids(profiles'), profiles' # profiles
  PROVE  EndpointAt(profiles', selected') = EndpointAt(profiles, selected)
<1>1. /\ selected \in 1..Len(profiles) /\ Len(profiles) \in Nat
      /\ profiles \in Seq(Objects)
  BY DEF ListInv, ProfileTypeOK
<1>2. CASE Restart
  BY <1>2 DEF Restart, Torn, Ids, ListInv, FileCurrent
<1>3. ASSUME NEW e \in Endpoints, AddProfiles(e) \/ ScannerAdds(e)
      PROVE  EndpointAt(profiles', selected') = EndpointAt(profiles, selected)
  <2>1. Added(e)
    BY <1>3 DEF AddProfiles, ScannerAdds
  <2>2. /\ profiles' = Append(profiles, [id |-> minted + 1, endpoint |-> e])
        /\ selected' = selected
    BY <2>1 DEF Added, Save
  <2>3. profiles'[selected] = profiles[selected]
    BY <1>1, <2>2
  <2>4. QED
    BY <2>2, <2>3 DEF EndpointAt
<1>4. ASSUME NEW gone \in SUBSET (1..Len(profiles)), gone # {}, NEW marked, Delete(gone, marked)
      PROVE  EndpointAt(profiles', selected') = EndpointAt(profiles, selected)
  <2>1. profiles' = Without(gone) /\ selected' = SelectionAfter(gone)
    BY <1>4 DEF Delete, Save
  <2>2. selected \notin gone
    <3>1. DOMAIN profiles = 1..Len(profiles) /\ OwnIds(profiles)
      BY <1>1 DEF ListInv, OneRow
    <3>2. ToSet(Without(gone)) = {profiles[i] : i \in 1..Len(profiles) \ gone}
      BY <1>1, <3>1, PickOwn DEF Without
    <3>3. PICK k \in 1..Len(Without(gone)) : Without(gone)[k].id = profiles[selected].id
      BY <2>1 DEF Ids
    <3>4. Without(gone) \in Seq(Objects)
      BY <1>1, <3>1, PickOf DEF Without
    <3>5. Without(gone)[k] \in ToSet(Without(gone))
      BY <3>4, ElementsOf
    <3>6. PICK i \in 1..Len(profiles) \ gone : profiles[i].id = profiles[selected].id
      BY <3>2, <3>3, <3>5
    <3>7. QED
      BY <1>1, <3>1, <3>6 DEF OwnIds
  <2>3. /\ SelectionAfter(gone) # 0
        /\ Without(gone)[SelectionAfter(gone)].endpoint = profiles[selected].endpoint
    BY <1>4, <2>2, SelectionOf DEF ListInv
  <2>4. QED
    BY <2>1, <2>3 DEF EndpointAt
<1>5. CASE DeleteChecked
  <2>1. checked \in SUBSET (1..Len(profiles)) /\ checked # {} /\ Delete(checked, {})
    BY <1>5 DEF DeleteChecked, ListInv, ProfileTypeOK
  <2>2. QED
    BY <1>4, <2>1
<1>6. ASSUME NEW i \in 1..Len(profiles), DeleteOne(i)
      PROVE  EndpointAt(profiles', selected') = EndpointAt(profiles, selected)
  <2>1. {i} \in SUBSET (1..Len(profiles)) /\ {i} # {} /\ Delete({i}, Shifted(i))
    BY <1>6 DEF DeleteOne
  <2>2. QED
    BY <1>4, <2>1
<1>7. ASSUME NEW i \in 1..Len(profiles), NEW e \in Endpoints, Edit(i, e)
      PROVE  EndpointAt(profiles', selected') = EndpointAt(profiles, selected)
  <2> DEFINE new == [id |-> minted + 1, endpoint |-> e]
  <2>1. profiles' = [profiles EXCEPT ![i] = new] /\ selected' = selected
    BY <1>7 DEF Edit, Save
  <2>2. CASE i # selected
    <3>1. profiles'[selected] = profiles[selected]
      BY <1>1, <2>1, <2>2
    <3>2. QED
      BY <2>1, <3>1 DEF EndpointAt
  <2>3. CASE i = selected
    <3>1. Len(profiles') = Len(profiles) /\ new.id = minted + 1
      BY <1>1, <2>1
    <3>2. \A j \in 1..Len(profiles) :
            profiles'[j] = IF j = selected THEN new ELSE profiles[j]
      BY <1>1, <2>1, <2>3
    <3>3. PICK j \in 1..Len(profiles) : profiles'[j].id = profiles[selected].id
      BY <3>1 DEF Ids
    <3>4. j = selected
      BY <1>1, <3>2, <3>3 DEF ListInv, OneRow, OwnIds
    <3>5. profiles[selected].id = minted + 1
      BY <3>1, <3>2, <3>3, <3>4
    <3>6. profiles[selected].id <= minted /\ minted \in Nat
      <4>1. profiles[selected] \in Alive
        BY <1>1 DEF Alive, ToSet
      <4>2. QED
        BY <4>1 DEF ListInv, OneObject, ProfileTypeOK
    <3>7. QED
      BY <3>5, <3>6
  <2>4. QED
    BY <2>2, <2>3
<1>8. ASSUME \/ \E i \in 1..Len(profiles) : Activate(i) \/ Tick(i) \/ MeasureRow(i)
             \/ \E all \in BOOLEAN : TickAll(all)
             \/ MeasureAll \/ MeasureChecked
             \/ \E o \in running : MeasureDone(o)
      PROVE  profiles' = profiles
  BY <1>8 DEF Activate, Save, Tick, MeasureRow, TickAll, MeasureAll, MeasureChecked,
     Measure, MeasureDone, store
<1>9. QED
  BY <1>2, <1>3, <1>5, <1>6, <1>7, <1>8 DEF ProfileNext

\* Deleting, adding and editing other profiles never moves the selection to another
\* server (config_store.py, remove_profiles).
THEOREM SelectionKept == ProfileSpec => SelectionFollows
<1>1. ASSUME ListInv, [ProfileNext]_profileVars
      PROVE  [selected # 0 /\ profiles[selected].id \in Ids(profiles') /\ profiles' # profiles
                => EndpointAt(profiles', selected')
                     = EndpointAt(profiles, selected)]_profileVars
  BY <1>1, SelectionStep
<1>2. QED
  BY <1>1, ListInvariant, PTL DEF ProfileSpec, SelectionFollows
=============================================================================
