----------------------- MODULE MemoryHierarchyProofs -----------------------
(***************************************************************************)
(* Proofs about the cache simulator, for every geometry, every latency and *)
(* every trace.                                                            *)
(***************************************************************************)
EXTENDS MemoryHierarchy, FiniteSetTheorems, SequenceTheorems, WellFoundedInduction, TLAPS

Kinds   == Types \cup {"wb"}
Request == [line : Nat, type : Kinds, dirty : BOOLEAN, left : Int]
QueuesType == [Components -> [Queues -> Seq(Request)]]
Ways(c) == 0..Assoc[c] - 1
Entry   == [valid : BOOLEAN, dirty : BOOLEAN, line : Nat]
TagSet(c) == [entry : [Ways(c) -> Entry], lru : Seq(Ways(c))]

\* The requests of a queue
In(q, c, k) == {q[c][k][n] : n \in DOMAIN q[c][k]}

\* What a queue may hold
Allowed(c, k) ==
  CASE c = "l1i" /\ k = "wb"                -> {}
    [] c = "l1i" /\ k # "wb"                -> {"ifetch"}
    [] c # "l1i" /\ k = "wb"                -> {"wb"}
    [] c = "dram" /\ k = "in"               -> Kinds
    [] c = "dram" /\ k \in {"out", "fill"}  -> Types
    [] c \notin {"l1i", "dram"} /\ k = "in"    -> Types
    [] c \notin {"l1i", "dram"} /\ k = "out"   -> Kinds
    [] c = "l2" /\ k = "fill"               -> Kinds
    [] c \in {"l1u", "l1d"} /\ k = "fill"   -> Types

KindsOK(q) == \A c \in Components : \A k \in Queues : \A r \in In(q, c, k) :
                /\ r.type \in Allowed(c, k)
                /\ r.type = "ifetch" => r.dirty = FALSE

\* All requests can be counted.
Places == Components \X Queues
Bounded(q) == IsFiniteSet(Spots(q, Places, Kinds))

QueuesOK(q) == q \in QueuesType /\ KindsOK(q) /\ Bounded(q)

\* The ways of a set that are in use are in its LRU list; an entry is in the
\* set of its line, and l1i is never dirty.
Valid(set) == DOMAIN set.entry \ Invalid(set)
LruOK(c, set) ==
  /\ Valid(set) \subseteq ToSet(set.lru)
  /\ c \in {"l2", "l1u"} => /\ ToSet(set.lru) = Valid(set)
                            /\ Len(set.lru) = Cardinality(Valid(set))
SetOK(c, i, set) ==
  /\ set \in TagSet(c)
  /\ LruOK(c, set)
  /\ \A w \in Ways(c) :
       /\ set.entry[w].valid => set.entry[w].line % Sets[c] = i
       /\ c = "l1i" => set.entry[w].dirty = FALSE
TagsOK(c, s) ==
  /\ s \in [0..Sets[c] - 1 -> TagSet(c)]
  /\ \A i \in 0..Sets[c] - 1 : SetOK(c, i, s[i])

StoreOK(s) == DOMAIN s = Caches /\ \A c \in Caches : TagsOK(c, s[c])

\* In the place of the schedule at hand, a request is ready.
Due(q, i) ==
  i \in 1..Final - 1 => LET c == Order[mode][i][1]
                            k == Order[mode][i][2]
                        IN  \E n \in DOMAIN q[c][k] : Ready(k, q[c][k][n])

TypeInv ==
  /\ mode \in Modes /\ single \in Singles /\ ended \in BOOLEAN
  /\ at \in 0..Final
  /\ StoreOK(store)
  /\ QueuesOK(queue)
  /\ inFlight \in Int /\ done \in Nat
  /\ wbInFlight \in [{"l2", "dram"} -> Int]
  /\ unsaved \subseteq Nat
  /\ Due(queue, at)

-----------------------------------------------------------------------------
(* Sequences *)

\* Some set of numbers that is not empty has a least one, ...
LEMMA LeastIndex ==
  ASSUME NEW A \in SUBSET Nat, A # {}
  PROVE  \E m \in A : \A j \in A : m <= j
<1>1. IsWellFoundedOn(OpToRel(<, Nat), Nat)
  BY NatLessThanWellFounded
<1>2. PICK m \in A : \A j \in A : <<j, m>> \notin OpToRel(<, Nat)
  BY <1>1, WFMin
<1>3. \A j \in A : m <= j
  <2>1. \A x, y \in Nat : <<x, y>> \in OpToRel(<, Nat) <=> x < y
    BY DEF OpToRel
  <2>2. \A j \in A : ~(j < m)
    BY <1>2, <2>1, Zenon
  <2>. QED
    BY <2>2
<1>. QED
  BY <1>3

LEMMA MinOf ==
  ASSUME NEW A \in SUBSET Nat, A # {}
  PROVE  Min(A) \in A /\ \A j \in A : Min(A) <= j
  BY LeastIndex DEF Min

\* ... and one that is bounded a greatest one.
LEMMA MaxOf ==
  ASSUME NEW b \in Nat, NEW A \in SUBSET (0..b), A # {}
  PROVE  Max(A) \in A
<1> DEFINE B == {b - j : j \in A}
<1>0. B # {} /\ B \in SUBSET Nat
  <2>1. \A j \in A : b - j \in Nat
    <3>1. \A j \in A : j \in 0..b
      OBVIOUS
    <3>. QED
      BY <3>1
  <2>. QED
    BY <2>1
<1>1. PICK m \in B : \A j \in B : m <= j
  <2> HIDE DEF B
  <2>. QED
    BY <1>0, LeastIndex, Zenon
<1>2. PICK x \in A : m = b - x
  BY <1>1
<1>3. \A y \in A : x >= y
  BY <1>1, <1>2
<1>. QED
  BY <1>3 DEF Max

LEMMA RemoveAtShifts ==
  ASSUME NEW S, NEW q \in Seq(S), NEW k \in 1..Len(q)
  PROVE  /\ RemoveAt(q, k) \in Seq(S)
         /\ Len(RemoveAt(q, k)) = Len(q) - 1
         /\ \A i \in 1..(Len(q) - 1) : RemoveAt(q, k)[i] = IF i < k THEN q[i] ELSE q[i + 1]
<1> DEFINE front == SubSeq(q, 1, k - 1)
           back == SubSeq(q, k + 1, Len(q))
<1>1. Len(q) \in Nat /\ k \in Nat /\ k >= 1 /\ k <= Len(q) /\ \A i \in 1..Len(q) : q[i] \in S
  BY LenProperties, ElementOfSeq
<1>2. /\ front \in Seq(S) /\ Len(front) = k - 1
      /\ \A i \in 1..(k - 1) : front[i] = q[i]
  BY <1>1, SubSeqProperties
<1>3. /\ back \in Seq(S) /\ Len(back) = Len(q) - k
      /\ \A i \in 1..(Len(q) - k) : back[i] = q[k + i]
  BY <1>1, SubSeqProperties
<1> HIDE DEF front, back
<1>4. /\ front \o back \in Seq(S) /\ Len(front \o back) = Len(front) + Len(back)
      /\ \A i \in 1..(Len(front) + Len(back)) :
           (front \o back)[i] = IF i <= Len(front) THEN front[i] ELSE back[i - Len(front)]
  BY <1>2, <1>3, ConcatProperties
<1>5. RemoveAt(q, k) = front \o back
  BY DEF RemoveAt, front, back
<1>6. ASSUME NEW i \in 1..(Len(q) - 1)
      PROVE  (front \o back)[i] = IF i < k THEN q[i] ELSE q[i + 1]
  <2>1. CASE i < k
    <3>1. i \in 1..(k - 1) /\ i \in 1..(Len(front) + Len(back)) /\ i <= Len(front)
      BY <1>1, <1>2, <1>3, <2>1
    <3>. QED
      BY <1>2, <1>4, <2>1, <3>1
  <2>2. CASE i >= k
    <3>1. i - (k - 1) \in 1..(Len(q) - k)
      BY <1>1, <2>2
    <3>2. i \in 1..(Len(front) + Len(back)) /\ ~(i <= Len(front)) /\ Len(front) = k - 1
      BY <1>1, <1>2, <1>3, <2>2
    <3>3. (front \o back)[i] = back[i - (k - 1)]
      BY <1>4, <3>2
    <3>4. back[i - (k - 1)] = q[k + (i - (k - 1))]
      BY <1>3, <3>1
    <3>5. k + (i - (k - 1)) = i + 1 /\ ~(i < k)
      BY <1>1, <2>2
    <3>. QED
      BY <3>3, <3>4, <3>5
  <2>3. i < k \/ i >= k
    BY <1>1
  <2>. QED
    BY <2>1, <2>2, <2>3, Zenon
<1>7. Len(q) - 1 = Len(front) + Len(back)
  BY <1>1, <1>2, <1>3
<1>. QED
  BY <1>4, <1>5, <1>6, <1>7


LEMMA ToSetOf ==
  ASSUME NEW S, NEW s \in Seq(S), NEW e
  PROVE  (e \in ToSet(s)) <=> (\E i \in 1..Len(s) : s[i] = e)
  BY LenProperties DEF ToSet

LEMMA RemoveAtMembers ==
  ASSUME NEW S, NEW s \in Seq(S), NEW k \in 1..Len(s)
  PROVE  ToSet(s) = {s[k]} \cup ToSet(RemoveAt(s, k))
<1> DEFINE r == RemoveAt(s, k)
<1>0. /\ r \in Seq(S) /\ Len(s) \in Nat /\ Len(r) = Len(s) - 1
      /\ \A i \in 1..(Len(s) - 1) : r[i] = IF i < k THEN s[i] ELSE s[i + 1]
  BY RemoveAtShifts, LenProperties
<1> HIDE DEF r
<1>1. ASSUME NEW e, e \in ToSet(s), e # s[k]
      PROVE  e \in ToSet(r)
  <2>1. PICK i \in 1..Len(s) : s[i] = e
    BY <1>1, ToSetOf
  <2>2. CASE i < k
    <3>1. i \in 1..(Len(s) - 1) /\ r[i] = e
      BY <1>0, <2>1, <2>2
    <3>. QED
      BY <1>0, <3>1, ToSetOf
  <2>3. CASE i > k
    <3>1. i - 1 \in 1..(Len(s) - 1) /\ ~(i - 1 < k) /\ (i - 1) + 1 = i
      BY <1>0, <2>3
    <3>2. r[i - 1] = e
      BY <1>0, <2>1, <3>1
    <3>. QED
      BY <1>0, <3>1, <3>2, ToSetOf
  <2>4. i < k \/ i > k
    BY <1>1, <2>1, <1>0
  <2>. QED
    BY <2>2, <2>3, <2>4
<1>2. ASSUME NEW e, e \in ToSet(r)
      PROVE  e \in ToSet(s)
  <2>1. PICK i \in 1..(Len(s) - 1) : r[i] = e
    BY <1>0, <1>2, ToSetOf
  <2>2. i \in 1..Len(s) /\ i + 1 \in 1..Len(s) /\ (e = s[i] \/ e = s[i + 1])
    BY <1>0, <2>1
  <2>. QED
    BY <2>2, ToSetOf
<1>3. s[k] \in ToSet(s)
  BY ToSetOf
<1>. QED
  BY <1>1, <1>2, <1>3 DEF r

LEMMA PushFront ==
  ASSUME NEW S, NEW s \in Seq(S), NEW e \in S
  PROVE  /\ <<e>> \o s \in Seq(S)
         /\ Len(<<e>> \o s) = Len(s) + 1
         /\ ToSet(<<e>> \o s) = {e} \cup ToSet(s)
<1> DEFINE one == <<e>>
           r == one \o s
<1>1. one \in Seq(S) /\ Len(one) = 1 /\ one[1] = e /\ Len(s) \in Nat
  BY LenProperties
<1> HIDE DEF one
<1>2. /\ r \in Seq(S) /\ Len(r) = 1 + Len(s)
      /\ \A i \in 1..(1 + Len(s)) : r[i] = IF i <= 1 THEN one[i] ELSE s[i - 1]
  <2>1. /\ one \o s \in Seq(S) /\ Len(one \o s) = Len(one) + Len(s)
        /\ \A i \in 1..(Len(one) + Len(s)) :
             (one \o s)[i] = IF i <= Len(one) THEN one[i] ELSE s[i - Len(one)]
    BY <1>1, ConcatProperties, Zenon
  <2>. QED
    BY <1>1, <2>1
<1>3. /\ r \in Seq(S) /\ Len(r) = Len(s) + 1
      /\ \A i \in 1..(Len(s) + 1) : r[i] = IF i <= 1 THEN one[i] ELSE s[i - 1]
  BY <1>1, <1>2
<1> HIDE DEF r
<1>5. ASSUME NEW x, x \in ToSet(s)
      PROVE  x \in ToSet(r)
  <2>1. PICK i \in 1..Len(s) : s[i] = x
    BY <1>5, ToSetOf
  <2>2. i + 1 \in 1..(Len(s) + 1) /\ ~(i + 1 <= 1) /\ (i + 1) - 1 = i
    BY <1>1, <2>1
  <2>3. r[i + 1] = x
    BY <1>3, <2>1, <2>2
  <2>. QED
    BY <1>3, <2>2, <2>3, ToSetOf
<1>6. ASSUME NEW x, x \in ToSet(r), x # e
      PROVE  x \in ToSet(s)
  <2>1. PICK i \in 1..(Len(s) + 1) : r[i] = x
    BY <1>3, <1>6, ToSetOf
  <2>2. i # 1
    BY <1>1, <1>3, <1>6, <2>1
  <2>3. i - 1 \in 1..Len(s) /\ ~(i <= 1)
    BY <1>1, <2>1, <2>2
  <2>4. s[i - 1] = x
    BY <1>3, <2>1, <2>3
  <2>. QED
    BY <2>3, <2>4, ToSetOf
<1>7. r[1] = e /\ 1 \in 1..Len(r)
  BY <1>1, <1>3
<1>8. e \in ToSet(r)
  BY <1>3, <1>7, ToSetOf
<1>9. ToSet(r) = {e} \cup ToSet(s)
  BY <1>5, <1>6, <1>8
<1>. QED
  BY <1>3, <1>9 DEF r, one

\* A hit's way that moves to the front of the list
LEMMA MoveToFront ==
  ASSUME NEW S, NEW s \in Seq(S), NEW e \in S
  PROVE  LET r == <<e>> \o RemoveFirst(s, e)
         IN  /\ r \in Seq(S)
             /\ ToSet(r) = {e} \cup ToSet(s)
             /\ e \in ToSet(s) => Len(r) = Len(s)
<1>0. Len(s) \in Nat
  BY LenProperties
<1>1. CASE e \in ToSet(s)
  <2> DEFINE A == {i \in 1..Len(s) : s[i] = e}
             k == SelectInSeq(s, LAMBDA v : v = e)
  <2>1. A # {} /\ A \in SUBSET Nat
    BY <1>1, ToSetOf
  <2>2. k = Min(A)
    BY <2>1 DEF SelectInSeq
  <2>3. Min(A) \in A
    BY <2>1, MinOf
  <2>4. k \in 1..Len(s) /\ s[k] = e
    BY <2>2, <2>3
  <2>5. RemoveFirst(s, e) = RemoveAt(s, k)
    BY <2>4 DEF RemoveFirst
  <2> HIDE DEF k
  <2>6. /\ RemoveAt(s, k) \in Seq(S) /\ Len(RemoveAt(s, k)) = Len(s) - 1
        /\ ToSet(s) = {e} \cup ToSet(RemoveAt(s, k))
    BY <2>4, RemoveAtShifts, RemoveAtMembers
  <2>. QED
    BY <1>0, <2>5, <2>6, PushFront
<1>2. CASE e \notin ToSet(s)
  <2>1. RemoveFirst(s, e) = s
    BY <1>2, ToSetOf DEF RemoveFirst
  <2>. QED
    BY <1>2, <2>1, PushFront
<1>. QED
  BY <1>1, <1>2

\* The last way of the list, evicted and moved to the front
LEMMA LastToFront ==
  ASSUME NEW S, NEW s \in Seq(S), ToSet(s) # {}
  PROVE  LET r == <<Last(s)>> \o Front(s)
         IN  /\ Last(s) \in ToSet(s) /\ Last(s) \in S
             /\ r \in Seq(S) /\ ToSet(r) = ToSet(s) /\ Len(r) = Len(s)
<1>1. Len(s) \in Nat /\ \E i \in 1..Len(s) : TRUE
  BY LenProperties, ToSetOf DEF ToSet
<1>2. Len(s) \in 1..Len(s) /\ Len(s) >= 1
  BY <1>1
<1>3. Last(s) = s[Len(s)] /\ Last(s) \in S /\ Last(s) \in ToSet(s)
  BY <1>2, ElementOfSeq, ToSetOf DEF Last
<1> DEFINE n == Len(s)
           f == RemoveAt(s, n)
<1>4. f = Front(s) \o SubSeq(s, n + 1, n)
  BY DEF RemoveAt, Front
<1>5. SubSeq(s, n + 1, n) = <<>>
  BY <1>1, SubSeqEmpty
<1>6. Front(s) \in Seq(S)
  BY <1>1, ElementOfSeq, SubSeqProperties DEF Front
<1>7. f = Front(s)
  BY <1>4, <1>5, <1>6, ConcatEmptySeq
<1>8. f \in Seq(S) /\ Len(f) = Len(s) - 1 /\ ToSet(s) = {Last(s)} \cup ToSet(f)
  BY <1>2, <1>3, RemoveAtShifts, RemoveAtMembers
<1> HIDE DEF f
<1>. QED
  BY <1>1, <1>3, <1>7, <1>8, PushFront

-----------------------------------------------------------------------------
(* The tag store *)

LEMMA Geometry ==
  ASSUME NEW c \in Caches
  PROVE  /\ Sets[c] \in Nat /\ Sets[c] >= 1 /\ Assoc[c] \in Nat /\ Assoc[c] >= 1
         /\ \A l \in Nat : l % Sets[c] \in 0..Sets[c] - 1
         /\ Cardinality(0..Sets[c] - 1) = Sets[c]
<1>1. Sets[c] \in Nat /\ Sets[c] >= 1 /\ Assoc[c] \in Nat /\ Assoc[c] >= 1
  BY GeometryAssumption
<1>2. Cardinality(0..Sets[c] - 1) = Sets[c]
  <2>1. Sets[c] - 1 \in Int /\ ~(0 > Sets[c] - 1) /\ (Sets[c] - 1) - 0 + 1 = Sets[c] /\ 0 \in Int
    BY <1>1
  <2>. QED
    BY <2>1, FS_Interval
<1>3. \A l \in Nat : l % Sets[c] \in 0..Sets[c] - 1
  <2>1. ASSUME NEW n \in Nat, n >= 1, NEW l \in Nat
        PROVE  l % n \in 0..n - 1
    BY <2>1
  <2>. QED
    BY <1>1, <2>1
<1>. QED
  BY <1>1, <1>2, <1>3

LEMMA WaysOf ==
  ASSUME NEW c \in Caches
  PROVE  Assoc[c] \in Nat /\ Assoc[c] >= 1
  BY GeometryAssumption

\* Some entry of the line's set has the line, and is dirty.
HasEntry(c, s, l, w) ==
  s[l % Sets[c]].entry[w].valid /\ s[l % Sets[c]].entry[w].line = l

LEMMA Lookup ==
  ASSUME NEW c \in Caches, NEW s, DOMAIN s = 0..Sets[c] - 1,
         \A i \in 0..Sets[c] - 1 : DOMAIN s[i].entry = Ways(c),
         NEW l \in Nat
  PROVE  /\ Cardinality(DOMAIN s) = Sets[c] /\ SetOf(s, l) = s[l % Sets[c]]
         /\ l % Sets[c] \in 0..Sets[c] - 1
         /\ Holders(SetOf(s, l), l) = {w \in Ways(c) : HasEntry(c, s, l, w)}
         /\ Holds(s, l) <=> (\E w \in Ways(c) : HasEntry(c, s, l, w))
         /\ Dirty(s, l) <=> (\E w \in Ways(c) : HasEntry(c, s, l, w)
                                              /\ s[l % Sets[c]].entry[w].dirty)
<1>1. l % Sets[c] \in 0..Sets[c] - 1 /\ Cardinality(0..Sets[c] - 1) = Sets[c]
  BY Geometry
<1>2. Cardinality(DOMAIN s) = Sets[c]
  BY <1>1
<1>3. SetOf(s, l) = s[l % Sets[c]]
  BY <1>2 DEF SetOf
<1>4. Holders(SetOf(s, l), l) = {w \in Ways(c) : HasEntry(c, s, l, w)}
  BY <1>1, <1>3 DEF Holders, HasEntry
<1>. QED
  BY <1>1, <1>2, <1>3, <1>4 DEF Holds, Dirty

LEMMA TagsLookup ==
  ASSUME NEW c \in Caches, NEW s, TagsOK(c, s)
  PROVE  /\ DOMAIN s = 0..Sets[c] - 1
         /\ \A i \in 0..Sets[c] - 1 : DOMAIN s[i].entry = Ways(c)
  BY DEF TagsOK, TagSet

\* One entry of a store is replaced.
Replaced(c, s, t, i, w, e) ==
  /\ DOMAIN t = 0..Sets[c] - 1
  /\ \A j \in 0..Sets[c] - 1 : DOMAIN t[j].entry = Ways(c)
  /\ \A j \in 0..Sets[c] - 1 : j # i => t[j] = s[j]
  /\ \A v \in Ways(c) : v # w => t[i].entry[v] = s[i].entry[v]
  /\ t[i].entry[w] = e

\* Then the lines held change by the line that was there and the new one.
LinesOfReplaced(s, t, line, old, e) ==
  /\ Holds(t, line) /\ (e.dirty => Dirty(t, line))
  /\ \A l \in Nat : Holds(t, l) => Holds(s, l) \/ l = line
  /\ \A l \in Nat : Holds(s, l) => Holds(t, l) \/ (old.valid /\ l = old.line)
  /\ \A l \in Nat : Dirty(s, l) => Dirty(t, l) \/ (old.valid /\ l = old.line /\ old.dirty)

LEMMA ReplacedLines ==
  ASSUME NEW c \in Caches, NEW s, TagsOK(c, s), NEW t, NEW line \in Nat, NEW w \in Ways(c),
         NEW e, Replaced(c, s, t, line % Sets[c], w, e), e.valid = TRUE, e.line = line
  PROVE  LinesOfReplaced(s, t, line, s[line % Sets[c]].entry[w], e)
<1> DEFINE i == line % Sets[c]
           old == s[i].entry[w]
<1>0. i \in 0..Sets[c] - 1
  BY Geometry
<1>1. /\ DOMAIN s = 0..Sets[c] - 1
      /\ \A j \in 0..Sets[c] - 1 : DOMAIN s[j].entry = Ways(c)
  BY TagsLookup
<1>2. /\ DOMAIN t = 0..Sets[c] - 1
      /\ \A j \in 0..Sets[c] - 1 : DOMAIN t[j].entry = Ways(c)
      /\ \A j \in 0..Sets[c] - 1 : j # i => t[j] = s[j]
      /\ \A v \in Ways(c) : v # w => t[i].entry[v] = s[i].entry[v]
      /\ t[i].entry[w] = e
  BY DEF Replaced
<1>3. HasEntry(c, t, line, w)
  BY <1>2 DEF HasEntry
<1>4. Holds(t, line) /\ (e.dirty => Dirty(t, line))
  <2>1. /\ Holds(t, line) <=> (\E v \in Ways(c) : HasEntry(c, t, line, v))
        /\ Dirty(t, line) <=> (\E v \in Ways(c) : HasEntry(c, t, line, v)
                                             /\ t[line % Sets[c]].entry[v].dirty)
    BY <1>2, Lookup
  <2>2. t[line % Sets[c]].entry[w] = e
    BY <1>2 DEF i
  <2>. QED
    BY <1>3, <2>1, <2>2, Zenon
<1>5. ASSUME NEW l \in Nat, NEW v \in Ways(c), l % Sets[c] # i \/ v # w
      PROVE  s[l % Sets[c]].entry[v] = t[l % Sets[c]].entry[v]
  <2>1. l % Sets[c] \in 0..Sets[c] - 1
    BY Geometry
  <2>. QED
    BY <1>2, <1>5, <2>1
<1> HIDE DEF i
<1>6. ASSUME NEW l \in Nat, Holds(t, l)
      PROVE  Holds(s, l) \/ l = line
  <2>1. PICK v \in Ways(c) : HasEntry(c, t, l, v)
    BY <1>2, <1>6, Lookup
  <2>2. CASE l % Sets[c] = i /\ v = w
    BY <1>2, <2>1, <2>2 DEF HasEntry
  <2>3. CASE l % Sets[c] # i \/ v # w
    <3>1. HasEntry(c, s, l, v)
      BY <1>5, <2>1, <2>3 DEF HasEntry
    <3>. QED
      BY <1>1, <3>1, Lookup
  <2>. QED
    BY <2>2, <2>3
<1>7. ASSUME NEW l \in Nat, Holds(s, l)
      PROVE  Holds(t, l) \/ (old.valid /\ l = old.line)
  <2>1. PICK v \in Ways(c) : HasEntry(c, s, l, v)
    BY <1>1, <1>7, Lookup
  <2>2. CASE l % Sets[c] = i /\ v = w
    BY <2>1, <2>2 DEF HasEntry
  <2>3. CASE l % Sets[c] # i \/ v # w
    <3>1. HasEntry(c, t, l, v)
      BY <1>5, <2>1, <2>3 DEF HasEntry
    <3>. QED
      BY <1>2, <3>1, Lookup
  <2>. QED
    BY <2>2, <2>3
<1>8. ASSUME NEW l \in Nat, Dirty(s, l)
      PROVE  Dirty(t, l) \/ (old.valid /\ l = old.line /\ old.dirty)
  <2>1. PICK v \in Ways(c) : HasEntry(c, s, l, v) /\ s[l % Sets[c]].entry[v].dirty
    BY <1>1, <1>8, Lookup
  <2>2. CASE l % Sets[c] = i /\ v = w
    BY <2>1, <2>2 DEF HasEntry
  <2>3. CASE l % Sets[c] # i \/ v # w
    <3>1. HasEntry(c, t, l, v) /\ t[l % Sets[c]].entry[v].dirty
      BY <1>5, <2>1, <2>3 DEF HasEntry
    <3>. QED
      BY <1>2, <3>1, Lookup
  <2>. QED
    BY <2>2, <2>3
<1>. QED
  BY <1>4, <1>6, <1>7, <1>8, Zenon DEF i, LinesOfReplaced

LEMMA SetParts ==
  ASSUME NEW c \in Caches, NEW i, NEW set, SetOK(c, i, set)
  PROVE  /\ set.entry \in [Ways(c) -> Entry] /\ set.lru \in Seq(Ways(c))
         /\ set = [entry |-> set.entry, lru |-> set.lru]
         /\ Invalid(set) = {w \in Ways(c) : ~set.entry[w].valid}
         /\ Valid(set) = {w \in Ways(c) : set.entry[w].valid}
<1>1. set \in TagSet(c)
  BY DEF SetOK
<1>2. /\ set.entry \in [Ways(c) -> Entry] /\ set.lru \in Seq(Ways(c))
      /\ set = [entry |-> set.entry, lru |-> set.lru]
  BY <1>1 DEF TagSet
<1>3. DOMAIN set.entry = Ways(c)
  BY <1>2
<1>. QED
  BY <1>2, <1>3, Zenon DEF Invalid, Valid

LEMMA HitInKeeps ==
  ASSUME NEW c \in Caches, NEW i, NEW set, SetOK(c, i, set), NEW type,
         NEW w \in Ways(c), set.entry[w].valid, c = "l1i" => type \notin {"store", "wb"}
  PROVE  LET new == HitIn(set, w, type)
         IN  /\ SetOK(c, i, new)
             /\ \A v \in Ways(c) : v # w => new.entry[v] = set.entry[v]
             /\ new.entry[w] = [set.entry[w] EXCEPT
                                 !.dirty = @ \/ type \in {"store", "wb"}]
<1> DEFINE new == HitIn(set, w, type)
           e == [set.entry[w] EXCEPT !.dirty = @ \/ type \in {"store", "wb"}]
           list == IF type = "wb" THEN set.lru ELSE <<w>> \o RemoveFirst(set.lru, w)
<1>0. /\ set.entry \in [Ways(c) -> Entry] /\ set.lru \in Seq(Ways(c))
      /\ set = [entry |-> set.entry, lru |-> set.lru]
      /\ Valid(set) = {v \in Ways(c) : set.entry[v].valid}
  BY SetParts
<1>1. new = [entry |-> [set.entry EXCEPT ![w] = e], lru |-> list]
  <2>1. [set.entry EXCEPT ![w].dirty = @ \/ type \in {"store", "wb"}]
          = [set.entry EXCEPT ![w] = e]
    OBVIOUS
  <2> HIDE DEF e
  <2>. QED
    BY <2>1 DEF HitIn
<1>2. e \in Entry /\ e.valid = set.entry[w].valid /\ e.line = set.entry[w].line
      /\ (type \notin {"store", "wb"} => e.dirty = set.entry[w].dirty)
  BY <1>0 DEF Entry
<1>3. LruOK(c, set) /\ w \in ToSet(set.lru)
  BY <1>0 DEF SetOK, LruOK
<1>4. list \in Seq(Ways(c)) /\ ToSet(list) = ToSet(set.lru) /\ Len(list) = Len(set.lru)
  <2> DEFINE moved == <<w>> \o RemoveFirst(set.lru, w)
  <2>1. /\ moved \in Seq(Ways(c)) /\ ToSet(moved) = {w} \cup ToSet(set.lru)
        /\ Len(moved) = Len(set.lru)
    BY <1>0, <1>3, MoveToFront
  <2>2. list = IF type = "wb" THEN set.lru ELSE moved
    OBVIOUS
  <2> HIDE DEF moved, list
  <2>3. ToSet(moved) = ToSet(set.lru)
    BY <1>3, <2>1
  <2>. QED
    BY <1>0, <2>1, <2>2, <2>3
<1> HIDE DEF list, e
<1>5. new \in TagSet(c)
  BY <1>0, <1>1, <1>2, <1>4 DEF TagSet
<1>6. /\ new.lru = list /\ DOMAIN new.entry = Ways(c) /\ new.entry[w] = e
      /\ \A v \in Ways(c) : v # w => new.entry[v] = set.entry[v]
  BY <1>0, <1>1
<1> HIDE DEF new
<1>7. \A v \in Ways(c) : new.entry[v].valid = set.entry[v].valid
                         /\ new.entry[v].line = set.entry[v].line
  BY <1>2, <1>6
<1>8. Valid(new) = Valid(set)
  BY <1>0, <1>6, <1>7, Zenon DEF Valid, Invalid
<1>9. LruOK(c, new)
  BY <1>3, <1>4, <1>6, <1>8 DEF LruOK
<1>10. \A v \in Ways(c) : c = "l1i" => new.entry[v].dirty = FALSE
  BY <1>2, <1>6 DEF SetOK
<1>11. \A v \in Ways(c) : new.entry[v].valid => new.entry[v].line % Sets[c] = i
  BY <1>7 DEF SetOK
<1>12. SetOK(c, i, new)
  BY <1>5, <1>9, <1>10, <1>11 DEF SetOK
<1>. QED
  BY <1>6, <1>12 DEF new, e

\* A fill replaces an entry that is not in use, or that of the victim.
Filled(c, i, set, line, type, w, new) ==
  /\ SetOK(c, i, new.set)
  /\ \A v \in Ways(c) : v # w => new.set.entry[v] = set.entry[v]
  /\ new.set.entry[w] = [valid |-> TRUE, dirty |-> type = "store", line |-> line]
  /\ \/ /\ ~set.entry[w].valid
        /\ new.victim = NoVictim /\ new.dvictim = NoVictim
     \/ /\ set.entry[w].valid
        /\ new.victim = set.entry[w].line
        /\ new.dvictim = IF set.entry[w].dirty THEN new.victim ELSE NoVictim

LEMMA FillInKeeps ==
  ASSUME NEW c \in Caches, NEW i, NEW set, SetOK(c, i, set), NEW type,
         NEW line \in Nat, line % Sets[c] = i, c = "l1i" => type # "store"
  PROVE  \E w \in Ways(c) : Filled(c, i, set, line, type, w, FillIn(set, line, type))
<1> DEFINE new == FillIn(set, line, type)
           e == [valid |-> TRUE, dirty |-> type = "store", line |-> line]
           free == Invalid(set)
<1>0. /\ set.entry \in [Ways(c) -> Entry] /\ set.lru \in Seq(Ways(c))
      /\ set = [entry |-> set.entry, lru |-> set.lru]
      /\ Valid(set) = {v \in Ways(c) : set.entry[v].valid}
      /\ free = {v \in Ways(c) : ~set.entry[v].valid}
  BY SetParts
<1>1. LruOK(c, set) /\ e \in Entry
  BY DEF SetOK, Entry
<1>2. IsFiniteSet(Valid(set)) /\ Cardinality(Valid(set)) \in Nat
  <2>1. IsFiniteSet(Ways(c))
    <3>1. 0 \in Int /\ Assoc[c] - 1 \in Int
      BY WaysOf
    <3>. QED
      BY <3>1, FS_Interval DEF Ways
  <2>2. Valid(set) \in SUBSET Ways(c)
    BY <1>0
  <2>. QED
    BY <2>1, <2>2, FS_Subset, FS_CardinalityType
<1>3. Assoc[c] - 1 \in Nat /\ Ways(c) = 0..(Assoc[c] - 1) /\ 0 \in Ways(c)
  BY WaysOf DEF Ways
<1>4. ASSUME NEW w \in Ways(c), NEW list \in Seq(Ways(c)),
             new.set = [entry |-> [set.entry EXCEPT ![w] = e], lru |-> list],
             ToSet(list) = ToSet(set.lru) \cup {w},
             c \in {"l2", "l1u"} => Len(list) = Cardinality(Valid(set) \cup {w})
      PROVE  /\ SetOK(c, i, new.set) /\ new.set.entry[w] = e
             /\ \A v \in Ways(c) : v # w => new.set.entry[v] = set.entry[v]
  <2> DEFINE t == new.set
  <2> HIDE DEF new, e
  <2>1. t \in TagSet(c)
    BY <1>0, <1>1, <1>4 DEF TagSet
  <2>2. /\ t.lru = list /\ DOMAIN t.entry = Ways(c) /\ t.entry[w] = e
        /\ \A v \in Ways(c) : v # w => t.entry[v] = set.entry[v]
    BY <1>0, <1>4
  <2> HIDE DEF t
  <2>3. e.valid = TRUE /\ e.line = line /\ (c = "l1i" => e.dirty = FALSE)
    BY DEF e
  <2>4. Valid(t) = Valid(set) \cup {w}
    <3>1. Valid(t) = {v \in Ways(c) : t.entry[v].valid}
      BY <2>2, Zenon DEF Valid, Invalid
    <3>2. \A v \in Ways(c) : t.entry[v].valid <=> set.entry[v].valid \/ v = w
      BY <2>2, <2>3, Zenon
    <3>. QED
      BY <1>0, <3>1, <3>2, Zenon
  <2>5. LruOK(c, t)
    BY <1>1, <1>4, <2>2, <2>4 DEF LruOK
  <2>6. \A v \in Ways(c) : c = "l1i" => t.entry[v].dirty = FALSE
    BY <2>2, <2>3 DEF SetOK
  <2>7. \A v \in Ways(c) : t.entry[v].valid => t.entry[v].line % Sets[c] = i
    BY <2>2, <2>3 DEF SetOK
  <2>8. SetOK(c, i, t)
    BY <2>1, <2>5, <2>6, <2>7 DEF SetOK
  <2>. QED
    BY <2>2, <2>8 DEF t
<1>5. CASE free # {}
  <2> DEFINE w == Max(free)
             list == <<w>> \o set.lru
  <2>1. w \in free
    BY <1>0, <1>3, <1>5, MaxOf
  <2>2. w \in Ways(c) /\ ~set.entry[w].valid /\ w \notin Valid(set)
    BY <1>0, <2>1
  <2>3. /\ new.set = [entry |-> [set.entry EXCEPT ![w] = e], lru |-> list]
        /\ new.victim = NoVictim /\ new.dvictim = NoVictim
    BY <1>5 DEF FillIn
  <2> HIDE DEF w, new, e
  <2>4. list \in Seq(Ways(c)) /\ ToSet(list) = {w} \cup ToSet(set.lru)
        /\ Len(list) = Len(set.lru) + 1
    BY <1>0, <2>2, PushFront
  <2>5. Cardinality(Valid(set) \cup {w}) = Cardinality(Valid(set)) + 1
    BY <1>2, <2>2, FS_AddElement
  <2>6. c \in {"l2", "l1u"} => Len(list) = Cardinality(Valid(set) \cup {w})
    BY <1>1, <2>4, <2>5 DEF LruOK
  <2> HIDE DEF list
  <2>7. /\ SetOK(c, i, new.set) /\ new.set.entry[w] = e
        /\ \A v \in Ways(c) : v # w => new.set.entry[v] = set.entry[v]
    BY <1>4, <2>2, <2>3, <2>4, <2>6
  <2>. QED
    BY <2>2, <2>3, <2>7, Zenon DEF new, e, Filled
<1>6. CASE free = {}
  <2> DEFINE w == Last(set.lru)
             list == <<w>> \o Front(set.lru)
  <2>1. Valid(set) = Ways(c)
    BY <1>0, <1>6
  <2>2. ToSet(set.lru) # {}
    BY <1>1, <1>3, <2>1 DEF LruOK
  <2>3. /\ w \in ToSet(set.lru) /\ w \in Ways(c)
        /\ list \in Seq(Ways(c)) /\ ToSet(list) = ToSet(set.lru) /\ Len(list) = Len(set.lru)
    BY <1>0, <2>2, LastToFront
  <2>4. /\ new.set = [entry |-> [set.entry EXCEPT ![w] = e], lru |-> list]
        /\ new.victim = set.entry[w].line
        /\ new.dvictim = IF set.entry[w].dirty THEN new.victim ELSE NoVictim
    BY <1>6 DEF FillIn
  <2> HIDE DEF w, new, e, list
  <2>5. set.entry[w].valid
    BY <1>0, <2>1, <2>3
  <2>6. Valid(set) \cup {w} = Valid(set) /\ ToSet(list) = ToSet(set.lru) \cup {w}
    BY <2>1, <2>3
  <2>7. c \in {"l2", "l1u"} => Len(list) = Cardinality(Valid(set) \cup {w})
    BY <1>1, <2>3, <2>6 DEF LruOK
  <2>8. /\ SetOK(c, i, new.set) /\ new.set.entry[w] = e
        /\ \A v \in Ways(c) : v # w => new.set.entry[v] = set.entry[v]
    BY <1>4, <2>3, <2>4, <2>6, <2>7
  <2>. QED
    BY <2>3, <2>4, <2>5, <2>8, Zenon DEF new, e, Filled
<1>. QED
  BY <1>5, <1>6

\* What cache_base_c::access does to the lines held, and to the dirty ones
AccessOK(c, s, line, type, isFill, a) ==
  /\ TagsOK(c, a.store)
  /\ a.hit = Holds(s, line)
  /\ a.victim \in Nat /\ a.dvictim \in Nat
  /\ \A l \in Nat : Holds(a.store, l) => Holds(s, l) \/ (isFill /\ l = line)
  /\ \A l \in Nat : Holds(s, l) => Holds(a.store, l) \/ l = a.victim
  /\ \A l \in Nat : Dirty(s, l) => Dirty(a.store, l) \/ l = a.dvictim
  /\ isFill => Holds(a.store, line)
  /\ (~isFill \/ Holds(s, line)) => /\ a.dvictim = NoVictim /\ a.victim = NoVictim
                                    /\ \A l \in Nat : Holds(s, l) => Holds(a.store, l)
                                    /\ \A l \in Nat : Dirty(s, l) => Dirty(a.store, l)
  /\ type = "store" /\ (isFill \/ Holds(s, line)) => Dirty(a.store, line)
  /\ type = "wb" /\ Holds(s, line) => Dirty(a.store, line)
  /\ a.dvictim # NoVictim => a.dvictim = a.victim /\ c # "l1i"
  /\ a.victim # NoVictim => Holds(s, a.victim)

LEMMA AccessHit ==
  ASSUME NEW c \in Caches, NEW s, TagsOK(c, s), NEW line \in Nat, NEW type, NEW isFill,
         c = "l1i" => type \notin {"store", "wb"}, Holds(s, line)
  PROVE  AccessOK(c, s, line, type, isFill, AccessStore(s, line, type, isFill))
<1> DEFINE i == line % Sets[c]
           a == AccessStore(s, line, type, isFill)
           hit == Holders(s[i], line)
           w == Min(hit)
           new == HitIn(s[i], w, type)
           t == [s EXCEPT ![i] = new]
           e == [s[i].entry[w] EXCEPT !.dirty = @ \/ type \in {"store", "wb"}]
<1>1. /\ DOMAIN s = 0..Sets[c] - 1
      /\ \A j \in 0..Sets[c] - 1 : DOMAIN s[j].entry = Ways(c)
  BY TagsLookup
<1>2. /\ Cardinality(DOMAIN s) = Sets[c] /\ i \in 0..Sets[c] - 1
      /\ hit = {v \in Ways(c) : HasEntry(c, s, line, v)} /\ hit # {}
  <2>1. /\ Cardinality(DOMAIN s) = Sets[c] /\ i \in 0..Sets[c] - 1
        /\ SetOf(s, line) = s[i]
        /\ Holders(SetOf(s, line), line) = {v \in Ways(c) : HasEntry(c, s, line, v)}
    BY <1>1, Lookup, ZenonT(40)
  <2>2. hit # {}
    BY <2>1 DEF Holds
  <2>. QED
    BY <2>1, <2>2
<1>3. w \in Ways(c) /\ HasEntry(c, s, line, w)
  <2>1. hit \in SUBSET Nat
    BY <1>2 DEF Ways
  <2>2. w \in hit
    BY <1>2, <2>1, MinOf
  <2>. QED
    BY <1>2, <2>2
<1>4. a = [hit |-> TRUE, victim |-> NoVictim, dvictim |-> NoVictim, store |-> t]
  BY <1>2, Zenon DEF AccessStore
<1>5. SetOK(c, i, s[i]) /\ s[i].entry[w].valid
  BY <1>2, <1>3 DEF TagsOK, HasEntry
<1> HIDE DEF w, a
<1>6. /\ SetOK(c, i, new) /\ new.entry[w] = e
      /\ \A v \in Ways(c) : v # w => new.entry[v] = s[i].entry[v]
  BY <1>3, <1>5, HitInKeeps, SMTT(30)
<1>7. new \in TagSet(c) /\ DOMAIN new.entry = Ways(c)
  BY <1>6 DEF SetOK, TagSet
<1> HIDE DEF new
<1>8. TagsOK(c, t)
  BY <1>2, <1>6, <1>7 DEF TagsOK
<1>9. s[i].entry[w] \in Entry /\ s[i].entry[w].line = line
  BY <1>3, <1>5, SetParts DEF HasEntry
<1>10. e.valid = TRUE /\ e.line = line /\ (type \in {"store", "wb"} => e.dirty)
       /\ (s[i].entry[w].dirty => e.dirty)
  BY <1>5, <1>9 DEF Entry
<1> HIDE DEF e
<1>11. Replaced(c, s, t, i, w, e)
  BY <1>1, <1>2, <1>6, <1>7 DEF Replaced
<1> HIDE DEF t
<1>12. LinesOfReplaced(s, t, line, s[i].entry[w], e)
  BY <1>3, <1>10, <1>11, ReplacedLines
<1>13. \A l \in Nat : (Holds(t, l) => Holds(s, l)) /\ (Holds(s, l) => Holds(t, l))
  BY <1>9, <1>12 DEF LinesOfReplaced
<1>14. \A l \in Nat : Dirty(s, l) => Dirty(t, l)
  BY <1>9, <1>10, <1>12 DEF LinesOfReplaced
<1>15. Holds(t, line) /\ (type = "store" => Dirty(t, line)) /\ (type = "wb" => Dirty(t, line))
  BY <1>10, <1>12 DEF LinesOfReplaced
<1>16. /\ a.store = t /\ a.hit = TRUE /\ a.victim = NoVictim /\ a.dvictim = NoVictim
       /\ NoVictim \in Nat
  BY <1>4 DEF NoVictim
<1>17. Holds(s, line) = TRUE
  BY DEF Holds
<1>. QED
  BY <1>8, <1>13, <1>14, <1>15, <1>16, <1>17, Zenon DEF AccessOK, a

LEMMA AccessMiss ==
  ASSUME NEW c \in Caches, NEW s, TagsOK(c, s), NEW line \in Nat, NEW type, NEW isFill \in BOOLEAN,
         c = "l1i" => type # "store", ~Holds(s, line)
  PROVE  AccessOK(c, s, line, type, isFill, AccessStore(s, line, type, isFill))
<1> DEFINE i == line % Sets[c]
           a == AccessStore(s, line, type, isFill)
           new == FillIn(s[i], line, type)
           t == [s EXCEPT ![i] = new.set]
           e == [valid |-> TRUE, dirty |-> type = "store", line |-> line]
<1>1. /\ DOMAIN s = 0..Sets[c] - 1
      /\ \A j \in 0..Sets[c] - 1 : DOMAIN s[j].entry = Ways(c)
  BY TagsLookup
<1>2. /\ Cardinality(DOMAIN s) = Sets[c] /\ i \in 0..Sets[c] - 1
      /\ SetOf(s, line) = s[i]
  BY <1>1, Lookup
<1>3. Holders(s[i], line) = {}
  BY <1>2 DEF Holds
<1>4. Holds(s, line) = FALSE /\ NoVictim \in Nat
  BY <1>2, <1>3 DEF Holds, NoVictim
<1>5. CASE ~isFill
  <2>1. a = [hit |-> FALSE, victim |-> NoVictim, dvictim |-> NoVictim, store |-> s]
    BY <1>2, <1>3, <1>5, Zenon DEF AccessStore
  <2>2. a.store = s /\ a.hit = FALSE /\ a.victim = NoVictim /\ a.dvictim = NoVictim
    BY <2>1
  <2>. QED
    BY <1>4, <1>5, <2>2, Zenon DEF AccessOK, a
<1>6. CASE isFill
  <2>1. a = [hit |-> FALSE, victim |-> new.victim, dvictim |-> new.dvictim, store |-> t]
    BY <1>2, <1>3, <1>6, Zenon DEF AccessStore
  <2>2. SetOK(c, i, s[i])
    BY <1>2 DEF TagsOK
  <2>3. PICK w \in Ways(c) : Filled(c, i, s[i], line, type, w, new)
    BY <2>2, FillInKeeps
  <2>3a. /\ SetOK(c, i, new.set)
         /\ \A v \in Ways(c) : v # w => new.set.entry[v] = s[i].entry[v]
         /\ new.set.entry[w] = e
         /\ \/ /\ ~s[i].entry[w].valid
               /\ new.victim = NoVictim /\ new.dvictim = NoVictim
            \/ /\ s[i].entry[w].valid
               /\ new.victim = s[i].entry[w].line
               /\ new.dvictim = IF s[i].entry[w].dirty THEN new.victim ELSE NoVictim
    BY <2>3 DEF Filled
  <2>4. new.set \in TagSet(c) /\ DOMAIN new.set.entry = Ways(c)
    BY <2>3a DEF SetOK, TagSet
  <2> HIDE DEF new, a
  <2>5. TagsOK(c, t)
    BY <1>2, <2>3a, <2>4 DEF TagsOK
  <2>6. e.valid = TRUE /\ e.line = line /\ (type = "store" => e.dirty)
    OBVIOUS
  <2> HIDE DEF e
  <2>7. Replaced(c, s, t, i, w, e)
    BY <1>1, <1>2, <2>3a, <2>4 DEF Replaced
  <2> HIDE DEF t
  <2>8. LinesOfReplaced(s, t, line, s[i].entry[w], e)
    BY <2>6, <2>7, ReplacedLines
  <2>9. /\ a.store = t /\ a.hit = FALSE
        /\ a.victim = new.victim /\ a.dvictim = new.dvictim
    BY <2>1
  <2>10. s[i].entry[w] \in Entry /\ s[i].entry[w].line \in Nat
    BY <2>2, SetParts DEF Entry
  <2>11. a.victim \in Nat /\ a.dvictim \in Nat
    BY <1>4, <2>3a, <2>9, <2>10
  <2>12. a.dvictim # NoVictim => a.dvictim = a.victim /\ c # "l1i"
    BY <2>2, <2>3a, <2>9 DEF SetOK
  <2>13. a.victim # NoVictim => Holds(s, a.victim)
    <3>1. ASSUME a.victim # NoVictim
          PROVE  a.victim = s[i].entry[w].line /\ s[i].entry[w].valid
      BY <2>3a, <2>9, <3>1
    <3>2. ASSUME a.victim # NoVictim
          PROVE  HasEntry(c, s, a.victim, w)
      <4>1. a.victim % Sets[c] = i
        BY <2>2, <3>1, <3>2 DEF SetOK
      <4>. QED
        BY <3>1, <3>2, <4>1 DEF HasEntry
    <3>. QED
      BY <1>1, <2>11, <3>2, Lookup
  <2>14. \A l \in Nat : Holds(s, l) => Holds(a.store, l) \/ l = a.victim
    BY <2>3a, <2>8, <2>9 DEF LinesOfReplaced
  <2>15. \A l \in Nat : Dirty(s, l) => Dirty(a.store, l) \/ l = a.dvictim
    BY <2>3a, <2>8, <2>9 DEF LinesOfReplaced
  <2>16. /\ Holds(t, line) /\ (type = "store" => Dirty(t, line))
         /\ \A l \in Nat : Holds(t, l) => Holds(s, l) \/ l = line
    BY <2>6, <2>8 DEF LinesOfReplaced
  <2>. QED
    BY <1>4, <1>6, <2>5, <2>16, <2>9, <2>11, <2>12, <2>13, <2>14, <2>15, Zenon DEF AccessOK, a
<1>. QED
  BY <1>5, <1>6

LEMMA AccessFacts ==
  ASSUME NEW c \in Caches, NEW s, TagsOK(c, s), NEW line \in Nat, NEW type, NEW isFill \in BOOLEAN,
         c = "l1i" => type \notin {"store", "wb"}
  PROVE  AccessOK(c, s, line, type, isFill, AccessStore(s, line, type, isFill))
  BY AccessHit, AccessMiss

\* cache_base_c::back_invalidation takes out the line, and nothing else.
LEMMA BackInvalidateFacts ==
  ASSUME NEW c \in {"l1i", "l1d"}, NEW s, TagsOK(c, s), NEW line \in Nat
  PROVE  LET t == BackInvalidate(s, line)
         IN  /\ TagsOK(c, t)
             /\ \A l \in Nat : Holds(t, l) => Holds(s, l) /\ l # line
             /\ \A l \in Nat : Dirty(s, l) => Dirty(t, l) \/ l = line
<1> DEFINE i == line % Sets[c]
           Gone(w) == s[i].entry[w].valid /\ s[i].entry[w].line = line
           e(w) == IF Gone(w) THEN [s[i].entry[w] EXCEPT !.valid = FALSE, !.dirty = FALSE]
                   ELSE s[i].entry[w]
           en == [w \in Ways(c) |-> e(w)]
           new == [entry |-> en, lru |-> s[i].lru]
           t == BackInvalidate(s, line)
<1>0. c \in Caches
  BY DEF Caches
<1>1. /\ DOMAIN s = 0..Sets[c] - 1
      /\ \A j \in 0..Sets[c] - 1 : DOMAIN s[j].entry = Ways(c)
  BY <1>0, TagsLookup
<1>2. /\ Cardinality(DOMAIN s) = Sets[c] /\ i \in 0..Sets[c] - 1
  BY <1>0, <1>1, Lookup
<1>3. SetOK(c, i, s[i])
  BY <1>2 DEF TagsOK
<1>4. /\ s[i].entry \in [Ways(c) -> Entry] /\ s[i].lru \in Seq(Ways(c))
      /\ s[i] = [entry |-> s[i].entry, lru |-> s[i].lru]
      /\ Valid(s[i]) = {v \in Ways(c) : s[i].entry[v].valid}
  BY <1>0, <1>3, SetParts
<1>5. t = [s EXCEPT ![i] = new]
  <2>1. t = [s EXCEPT ![i].entry = en]
    <3>1. DOMAIN s[i].entry = Ways(c)
      BY <1>1, <1>2
    <3>2. t = [s EXCEPT ![line % Cardinality(DOMAIN s)].entry =
                 [w \in DOMAIN s[line % Cardinality(DOMAIN s)].entry |->
                    IF /\ s[line % Cardinality(DOMAIN s)].entry[w].valid
                       /\ s[line % Cardinality(DOMAIN s)].entry[w].line = line
                    THEN [s[line % Cardinality(DOMAIN s)].entry[w] EXCEPT !.valid = FALSE, !.dirty = FALSE]
                    ELSE s[line % Cardinality(DOMAIN s)].entry[w]]]
      BY DEF BackInvalidate
    <3>. QED
      BY <1>2, <3>1, <3>2
  <2>2. [s[i] EXCEPT !.entry = en] = new
    <3>1. PICK f, lr : s[i].entry = f /\ s[i].lru = lr
      OBVIOUS
    <3>2. s[i] = [entry |-> f, lru |-> lr]
      BY <1>4, <3>1, Zenon
    <3> HIDE DEF en, i
    <3>3. [s[i] EXCEPT !.entry = en] = [entry |-> en, lru |-> lr]
      BY <3>2
    <3>. QED
      BY <3>1, <3>3
  <2>. QED
    BY <1>2, <2>1, <2>2
<1>6. ASSUME NEW w \in Ways(c)
      PROVE  /\ e(w) \in Entry
             /\ e(w).valid => s[i].entry[w].valid /\ s[i].entry[w].line # line
             /\ e(w).valid => e(w) = s[i].entry[w]
             /\ ~Gone(w) => e(w) = s[i].entry[w]
             /\ c = "l1i" => e(w).dirty = FALSE
  <2>1. s[i].entry[w] \in Entry /\ (c = "l1i" => s[i].entry[w].dirty = FALSE)
    BY <1>3, <1>4 DEF SetOK
  <2>2. CASE Gone(w)
    BY <2>1, <2>2 DEF Entry
  <2>3. CASE ~Gone(w)
    BY <2>1, <2>3
  <2>. QED
    BY <2>2, <2>3
<1> HIDE DEF e
<1>7. new \in TagSet(c)
  BY <1>4, <1>6 DEF TagSet
<1>8. DOMAIN new.entry = Ways(c) /\ new.lru = s[i].lru /\ \A w \in Ways(c) : new.entry[w] = e(w)
  OBVIOUS
<1> HIDE DEF new, en
<1>9. Valid(new) \subseteq Valid(s[i])
  BY <1>4, <1>6, <1>8 DEF Valid, Invalid
<1>10. SetOK(c, i, new)
  <2>1. LruOK(c, new)
    BY <1>3, <1>8, <1>9 DEF SetOK, LruOK
  <2>2. \A w \in Ways(c) : new.entry[w].valid => new.entry[w].line % Sets[c] = i
    <3>1. \A w \in Ways(c) : s[i].entry[w].valid => s[i].entry[w].line % Sets[c] = i
      BY <1>3, Zenon DEF SetOK
    <3>2. \A w \in Ways(c) : new.entry[w].valid => /\ new.entry[w] = s[i].entry[w]
                                                 /\ s[i].entry[w].valid
      BY <1>6, <1>8, Zenon
    <3>3. ASSUME NEW w \in Ways(c), new.entry[w].valid
          PROVE  new.entry[w].line % Sets[c] = i
      <4>1. new.entry[w] = s[i].entry[w] /\ s[i].entry[w].line % Sets[c] = i
        BY <3>1, <3>2, <3>3, Zenon
      <4>. QED
        BY <4>1, Zenon
    <3>. QED
      BY <3>3, Zenon
  <2>3. \A w \in Ways(c) : c = "l1i" => new.entry[w].dirty = FALSE
    BY <1>6, <1>8
  <2>. QED
    BY <1>7, <2>1, <2>2, <2>3 DEF SetOK
<1>11. TagsOK(c, t)
  BY <1>2, <1>5, <1>7, <1>10 DEF TagsOK
<1>12. /\ DOMAIN t = 0..Sets[c] - 1 /\ t[i] = new
       /\ \A j \in 0..Sets[c] - 1 : j # i => t[j] = s[j]
  BY <1>1, <1>2, <1>5
<1>13. \A j \in 0..Sets[c] - 1 : DOMAIN t[j].entry = Ways(c)
  BY <1>0, <1>11, TagsLookup
<1> HIDE DEF t
<1>14. ASSUME NEW l \in Nat
       PROVE  l % Sets[c] \in 0..Sets[c] - 1
  BY <1>0, <1>1, Lookup
<1>15. ASSUME NEW l \in Nat, NEW w \in Ways(c)
       PROVE  /\ HasEntry(c, t, l, w) => HasEntry(c, s, l, w) /\ l # line
              /\ HasEntry(c, s, l, w) /\ l # line =>
                   HasEntry(c, t, l, w) /\ t[l % Sets[c]].entry[w] = s[l % Sets[c]].entry[w]
  <2>1. CASE l % Sets[c] = i
    <3> HIDE DEF i
    <3>1. t[l % Sets[c]].entry[w] = e(w) /\ s[l % Sets[c]].entry[w] = s[i].entry[w]
      BY <1>8, <1>12, <2>1
    <3>2. HasEntry(c, s, l, w) /\ l # line => e(w) = s[i].entry[w]
      BY <1>6, <3>1, Zenon DEF HasEntry
    <3>. QED
      BY <1>6, <3>1, <3>2, Zenon DEF HasEntry
  <2>2. CASE l % Sets[c] # i
    <3>1. t[l % Sets[c]] = s[l % Sets[c]]
      BY <1>12, <1>14, <2>2
    <3>2. l # line
      BY <2>2
    <3>. QED
      BY <3>1, <3>2, Zenon DEF HasEntry
  <2>. QED
    BY <2>1, <2>2
<1>16. ASSUME NEW l \in Nat, Holds(t, l)
       PROVE  Holds(s, l) /\ l # line
  BY <1>0, <1>1, <1>12, <1>13, <1>15, <1>16, Lookup
<1>17. ASSUME NEW l \in Nat, Dirty(s, l), l # line
       PROVE  Dirty(t, l)
  <2>1. PICK w \in Ways(c) : HasEntry(c, s, l, w) /\ s[l % Sets[c]].entry[w].dirty
    BY <1>0, <1>1, <1>17, Lookup
  <2>2. HasEntry(c, t, l, w) /\ t[l % Sets[c]].entry[w].dirty
    BY <1>15, <1>17, <2>1
  <2>. QED
    BY <1>0, <1>12, <1>13, <2>2, Lookup
<1>. QED
  BY <1>11, <1>16, <1>17 DEF t

-----------------------------------------------------------------------------
(* The queues *)


\* The requests of the second collection of queues are those of the first and
\* one more.
Adds(q1, q2, c, k, req) ==
  /\ In(q2, c, k) = {req} \cup In(q1, c, k)
  /\ \A d \in Components : \A j \in Queues :
       ~(d = c /\ j = k) => In(q2, d, j) = In(q1, d, j)

LEMMA InOf ==
  ASSUME NEW q \in QueuesType, NEW c \in Components, NEW k \in Queues
  PROVE  /\ q[c][k] \in Seq(Request) /\ Len(q[c][k]) \in Nat
         /\ DOMAIN q[c][k] = 1..Len(q[c][k])
         /\ In(q, c, k) = ToSet(q[c][k])
         /\ In(q, c, k) \subseteq Request
<1>1. q[c][k] \in Seq(Request)
  BY DEF QueuesType
<1>2. Len(q[c][k]) \in Nat /\ DOMAIN q[c][k] = 1..Len(q[c][k])
  BY <1>1, LenProperties
<1>3. \A n \in 1..Len(q[c][k]) : q[c][k][n] \in Request
  BY <1>1, ElementOfSeq
<1>4. In(q, c, k) \subseteq Request
  BY <1>2, <1>3 DEF In
<1>. QED
  BY <1>1, <1>2, <1>4 DEF In, ToSet

\* One queue is replaced by another.
SameBut(q, r, c, k, new) ==
  /\ r \in QueuesType /\ r[c][k] = new
  /\ \A d \in Components : \A j \in Queues : ~(d = c /\ j = k) => r[d][j] = q[d][j]

LEMMA ReplaceQueue ==
  ASSUME NEW q \in QueuesType, NEW c \in Components, NEW k \in Queues,
         NEW new \in Seq(Request), NEW r, r = [q EXCEPT ![c][k] = new]
  PROVE  SameBut(q, r, c, k, new)
  BY DEF QueuesType, SameBut

LEMMA TakeOut ==
  ASSUME NEW q \in QueuesType, NEW c \in Components, NEW k \in Queues,
         NEW n \in DOMAIN q[c][k], NEW rest, rest = [q EXCEPT ![c][k] = RemoveAt(@, n)]
  PROVE  rest \in QueuesType /\ Adds(rest, q, c, k, q[c][k][n])
<1>1. /\ q[c][k] \in Seq(Request) /\ n \in 1..Len(q[c][k]) /\ In(q, c, k) = ToSet(q[c][k])
  BY InOf
<1>2. PICK new : new = RemoveAt(q[c][k], n)
  OBVIOUS
<1>3. new \in Seq(Request) /\ ToSet(q[c][k]) = {q[c][k][n]} \cup ToSet(new)
  BY <1>1, <1>2, RemoveAtShifts, RemoveAtMembers
<1>4. rest = [q EXCEPT ![c][k] = new]
  BY <1>2
<1>5. SameBut(q, rest, c, k, new)
  BY <1>3, <1>4, ReplaceQueue, Zenon
<1>6. /\ rest \in QueuesType /\ rest[c][k] = new
      /\ \A d \in Components : \A j \in Queues :
           ~(d = c /\ j = k) => rest[d][j] = q[d][j]
  BY <1>5, Zenon DEF SameBut
<1>7. In(rest, c, k) = ToSet(new)
  BY <1>6, InOf, ZenonT(40)
<1>8. ASSUME NEW d \in Components, NEW j \in Queues, ~(d = c /\ j = k)
      PROVE  In(q, d, j) = In(rest, d, j)
  BY <1>6, <1>8 DEF In
<1>9. Adds(rest, q, c, k, q[c][k][n])
  BY <1>1, <1>3, <1>7, <1>8, Zenon DEF Adds
<1>. QED
  BY <1>6, <1>9

LEMMA AppendMembers ==
  ASSUME NEW S, NEW s \in Seq(S), NEW e \in S
  PROVE  Append(s, e) \in Seq(S) /\ ToSet(Append(s, e)) = {e} \cup ToSet(s)
<1>1. PICK t : t = Append(s, e)
  OBVIOUS
<1>2. /\ t \in Seq(S) /\ Len(t) = Len(s) + 1
      /\ \A i \in 1..Len(s) : t[i] = s[i]
      /\ t[Len(s) + 1] = e
      /\ Len(s) \in Nat
  BY <1>1, AppendProperties, LenProperties
<1>3. ASSUME NEW x, x \in ToSet(t), x # e
      PROVE  x \in ToSet(s)
  <2>1. PICK i \in 1..Len(t) : t[i] = x
    BY <1>2, <1>3, ToSetOf
  <2>2. i \in 1..Len(s) /\ s[i] = x
    BY <1>2, <1>3, <2>1
  <2>. QED
    BY <2>2, ToSetOf
<1>4. ASSUME NEW x, x \in ToSet(s)
      PROVE  x \in ToSet(t)
  <2>1. PICK i \in 1..Len(s) : s[i] = x
    BY <1>4, ToSetOf
  <2>2. i \in 1..Len(t) /\ t[i] = x
    BY <1>2, <2>1
  <2>. QED
    BY <1>2, <2>2, ToSetOf
<1>5. Len(s) + 1 \in 1..Len(t) /\ t[Len(s) + 1] = e
  BY <1>2
<1>6. e \in ToSet(t)
  BY <1>2, <1>5, ToSetOf
<1>. QED
  BY <1>1, <1>2, <1>3, <1>4, <1>6

LEMMA PutIn ==
  ASSUME NEW q \in QueuesType, NEW c \in Components, NEW k \in Queues,
         NEW req \in Request
  PROVE  Push(q, c, k, req) \in QueuesType /\ Adds(q, Push(q, c, k, req), c, k, req)
<1>1. q[c][k] \in Seq(Request) /\ In(q, c, k) = ToSet(q[c][k])
  BY InOf
<1>2. PICK new : new = Append(q[c][k], req)
  OBVIOUS
<1>3. new \in Seq(Request) /\ ToSet(new) = {req} \cup ToSet(q[c][k])
  BY <1>1, <1>2, AppendMembers
<1>4. Push(q, c, k, req) = [q EXCEPT ![c][k] = new]
  BY <1>2 DEF Push
<1>5. PICK r : r = [q EXCEPT ![c][k] = new]
  OBVIOUS
<1>6. /\ r \in QueuesType /\ r[c][k] = new
      /\ \A d \in Components : \A j \in Queues :
           ~(d = c /\ j = k) => r[d][j] = q[d][j]
  <2>1. SameBut(q, r, c, k, new)
    BY <1>3, <1>5, ReplaceQueue, Zenon
  <2>. QED
    BY <2>1, Zenon DEF SameBut
<1>7. In(r, c, k) = ToSet(new)
  BY <1>6, InOf
<1>8. ASSUME NEW d \in Components, NEW j \in Queues, ~(d = c /\ j = k)
      PROVE  In(r, d, j) = In(q, d, j)
  BY <1>6, <1>8 DEF In
<1>9. Adds(q, r, c, k, req)
  BY <1>1, <1>3, <1>7, <1>8, Zenon DEF Adds
<1>. QED
  BY <1>4, <1>5, <1>6, <1>9

-----------------------------------------------------------------------------
(* Counting requests *)

Count(q, ps, ts) == Cardinality(Spots(q, ps, ts))
One(c, k, ps, req, ts) == IF <<c, k>> \in ps /\ req.type \in ts THEN 1 ELSE 0

\* As Adds, with the number of requests
More(q1, q2, c, k, req) ==
  /\ Adds(q1, q2, c, k, req)
  /\ Bounded(q1) /\ Bounded(q2)
  /\ \A ps \in SUBSET Places : \A ts \in SUBSET Kinds :
       Count(q2, ps, ts) = Count(q1, ps, ts) + One(c, k, ps, req, ts)

LEMMA SpotsOf ==
  ASSUME NEW q \in QueuesType, NEW ps \in SUBSET Places, NEW ts
  PROVE  /\ Spots(q, ps, ts) \subseteq ps \X Nat
         /\ \A c \in Components : \A k \in Queues : \A i \in Nat :
              <<<<c, k>>, i>> \in Spots(q, ps, ts) <=>
                /\ <<c, k>> \in ps
                /\ i \in 1..Len(q[c][k])
                /\ q[c][k][i].type \in ts
<1>1. ASSUME NEW c \in Components, NEW k \in Queues
      PROVE  DOMAIN q[c][k] = 1..Len(q[c][k]) /\ Len(q[c][k]) \in Nat
  BY InOf
<1>2. ASSUME NEW p \in ps
      PROVE  p = <<p[1], p[2]>> /\ p[1] \in Components /\ p[2] \in Queues
  BY DEF Places
<1> DEFINE At(p) == {<<p, n>> : n \in {i \in DOMAIN q[p[1]][p[2]] : q[p[1]][p[2]][i].type \in ts}}
<1>3. Spots(q, ps, ts) = UNION {At(p) : p \in ps}
  BY DEF Spots
<1>4. ASSUME NEW p \in ps, NEW s
      PROVE  s \in At(p) <=> \E i \in DOMAIN q[p[1]][p[2]] : q[p[1]][p[2]][i].type \in ts /\ s = <<p, i>>
  OBVIOUS
<1> HIDE DEF At
<1>5. ASSUME NEW s, s \in Spots(q, ps, ts)
      PROVE  s \in ps \X Nat
  <2>1. PICK p \in ps : s \in At(p)
    BY <1>3, <1>5
  <2>2. PICK i \in DOMAIN q[p[1]][p[2]] : s = <<p, i>>
    BY <1>4, <2>1
  <2>3. i \in Nat
    BY <1>1, <1>2, <2>2
  <2>. QED
    BY <2>2, <2>3
<1>6. ASSUME NEW c \in Components, NEW k \in Queues, NEW i \in Nat,
             <<<<c, k>>, i>> \in Spots(q, ps, ts)
      PROVE  /\ <<c, k>> \in ps /\ i \in 1..Len(q[c][k]) /\ q[c][k][i].type \in ts
  <2>1. PICK p \in ps : <<<<c, k>>, i>> \in At(p)
    BY <1>3, <1>6
  <2>2. PICK j \in DOMAIN q[p[1]][p[2]] : q[p[1]][p[2]][j].type \in ts /\ <<<<c, k>>, i>> = <<p, j>>
    BY <1>4, <2>1
  <2>3. p = <<c, k>> /\ j = i
    BY <2>2
  <2>4. p[1] = c /\ p[2] = k
    BY <2>3
  <2>. QED
    BY <1>1, <2>2, <2>3, <2>4
<1>7. ASSUME NEW c \in Components, NEW k \in Queues, NEW i \in Nat,
             <<c, k>> \in ps, i \in 1..Len(q[c][k]), q[c][k][i].type \in ts
      PROVE  <<<<c, k>>, i>> \in Spots(q, ps, ts)
  <2>1. PICK p \in ps : p = <<c, k>>
    BY <1>7
  <2>2. p[1] = c /\ p[2] = k
    BY <2>1
  <2>3. i \in DOMAIN q[p[1]][p[2]] /\ q[p[1]][p[2]][i].type \in ts
    BY <1>1, <1>7, <2>2
  <2>4. <<p, i>> \in At(p)
    BY <1>4, <2>3
  <2>. QED
    BY <1>3, <2>1, <2>4
<1>. QED
  BY <1>5, <1>6, <1>7

IsSpot(q, c, k, i, ps, ts) ==
  <<c, k>> \in ps /\ i \in 1..Len(q[c][k]) /\ q[c][k][i].type \in ts

LEMMA SpotIs ==
  ASSUME NEW q \in QueuesType, NEW ps \in SUBSET Places, NEW ts,
         NEW c \in Components, NEW k \in Queues, NEW i \in Nat
  PROVE  (<<<<c, k>>, i>> \in Spots(q, ps, ts)) <=> IsSpot(q, c, k, i, ps, ts)
  BY SpotsOf DEF IsSpot

\* Of a finite collection of spots, every part is finite.
LEMMA SpotsBounded ==
  ASSUME NEW q \in QueuesType, Bounded(q), NEW ps \in SUBSET Places, NEW ts \in SUBSET Kinds
  PROVE  IsFiniteSet(Spots(q, ps, ts)) /\ Count(q, ps, ts) \in Nat
<1>1. ASSUME NEW s, s \in Spots(q, ps, ts)
      PROVE  s \in Spots(q, Places, Kinds)
  <2>1. s \in ps \X Nat
    BY <1>1, SpotsOf
  <2>2. PICK c \in Components, k \in Queues, i \in Nat : s = <<<<c, k>>, i>>
    BY <2>1 DEF Places
  <2>3. /\ <<c, k>> \in ps /\ i \in 1..Len(q[c][k]) /\ q[c][k][i].type \in ts
    BY <1>1, <2>2, SpotsOf
  <2>4. <<c, k>> \in Places /\ q[c][k][i].type \in Kinds
    BY <2>3
  <2>5. Places \in SUBSET Places
    OBVIOUS
  <2>. QED
    BY <2>2, <2>3, <2>4, <2>5, SpotsOf
<1>2. Spots(q, ps, ts) \in SUBSET Spots(q, Places, Kinds)
  BY <1>1
<1>3. IsFiniteSet(Spots(q, ps, ts))
  BY <1>2, FS_Subset DEF Bounded
<1>. QED
  BY <1>3, FS_CardinalityType DEF Count

LEMMA PushCounts ==
  ASSUME NEW q \in QueuesType, Bounded(q), NEW c \in Components, NEW k \in Queues,
         NEW req \in Request
  PROVE  Push(q, c, k, req) \in QueuesType /\ More(q, Push(q, c, k, req), c, k, req)
<1>1. PICK r : r = Push(q, c, k, req)
  OBVIOUS
<1>2. r \in QueuesType /\ Adds(q, r, c, k, req)
  BY <1>1, PutIn
<1>3. q[c][k] \in Seq(Request) /\ Len(q[c][k]) \in Nat
  BY InOf
<1>4. /\ r[c][k] = Append(q[c][k], req)
      /\ \A d \in Components : \A j \in Queues : ~(d = c /\ j = k) => r[d][j] = q[d][j]
  BY <1>1 DEF Push, QueuesType
<1>5. PICK m \in Nat : m = Len(q[c][k]) + 1
  BY <1>3
<1>6. /\ Len(r[c][k]) = m /\ r[c][k][m] = req
      /\ \A i \in 1..m - 1 : r[c][k][i] = q[c][k][i]
  BY <1>3, <1>4, <1>5, AppendProperties
<1>7. ASSUME NEW ps \in SUBSET Places, NEW ts
      PROVE  /\ <<<<c, k>>, m>> \notin Spots(q, ps, ts)
             /\ Spots(r, ps, ts) \ {<<<<c, k>>, m>>} = Spots(q, ps, ts)
             /\ <<<<c, k>>, m>> \in Spots(r, ps, ts) <=> <<c, k>> \in ps /\ req.type \in ts
  <2>1. Spots(r, ps, ts) \subseteq ps \X Nat /\ Spots(q, ps, ts) \subseteq ps \X Nat
    BY <1>2, SpotsOf
  <2>2. m \in 1..m /\ m \notin 1..Len(q[c][k])
    BY <1>3, <1>5
  <2>3. <<<<c, k>>, m>> \notin Spots(q, ps, ts)
    BY <2>2, SpotsOf
  <2>4. <<<<c, k>>, m>> \in Spots(r, ps, ts) <=> <<c, k>> \in ps /\ req.type \in ts
    BY <1>2, <1>6, <2>2, SpotsOf, ZenonT(40)
  <2>5. ASSUME NEW s \in ps \X Nat, s # <<<<c, k>>, m>>
        PROVE  s \in Spots(r, ps, ts) <=> s \in Spots(q, ps, ts)
    <3>1. PICK d \in Components, j \in Queues, i \in Nat : s = <<<<d, j>>, i>>
      BY <2>5 DEF Places
    <3>2. CASE d = c /\ j = k
      <4>1. i # m
        BY <2>5, <3>1, <3>2
      <4>2. (i \in 1..Len(r[c][k])) <=> (i \in 1..Len(q[c][k]))
        BY <1>3, <1>5, <1>6, <4>1
      <4>3. i \in 1..Len(q[c][k]) => r[c][k][i] = q[c][k][i]
        BY <1>3, <1>5, <1>6
      <4>. QED
        <5>1. IsSpot(r, c, k, i, ps, ts) <=> IsSpot(q, c, k, i, ps, ts)
          BY <4>2, <4>3, Zenon DEF IsSpot
        <5>. QED
          BY <1>2, <3>1, <3>2, <5>1, SpotIs, Zenon
    <3>3. CASE ~(d = c /\ j = k)
      <4>1. IsSpot(r, d, j, i, ps, ts) <=> IsSpot(q, d, j, i, ps, ts)
        BY <1>4, <3>3, Zenon DEF IsSpot
      <4>. QED
        BY <1>2, <3>1, <4>1, SpotIs, Zenon
    <3>. QED
      BY <3>2, <3>3
  <2>. QED
    BY <2>1, <2>3, <2>4, <2>5
<1>8. Bounded(r)
  <2> DEFINE R == Spots(r, Places, Kinds)
             Q == Spots(q, Places, Kinds)
             x == <<<<c, k>>, m>>
  <2>1. R \ {x} = Q
    BY <1>7
  <2>2. IsFiniteSet(Q \cup {x})
    BY FS_AddElement DEF Bounded
  <2> HIDE DEF R, Q, x
  <2>3. R \in SUBSET (Q \cup {x})
    BY <2>1
  <2>. QED
    BY <2>2, <2>3, FS_Subset DEF Bounded, R
<1>9. ASSUME NEW ps \in SUBSET Places, NEW ts \in SUBSET Kinds
      PROVE  Count(r, ps, ts) = Count(q, ps, ts) + One(c, k, ps, req, ts)
  <2>1. PICK R, Q, x : R = Spots(r, ps, ts) /\ Q = Spots(q, ps, ts) /\ x = <<<<c, k>>, m>>
    OBVIOUS
  <2>2. /\ IsFiniteSet(Q) /\ R \ {x} = Q /\ x \notin Q
        /\ Cardinality(Q) \in Nat
        /\ (x \in R <=> <<c, k>> \in ps /\ req.type \in ts)
    BY <1>7, <2>1, SpotsBounded DEF Count
  <2>3. CASE x \in R
    <3>1. R = Q \cup {x}
      BY <2>2, <2>3
    <3>2. Cardinality(R) = Cardinality(Q) + 1
      BY <2>2, <3>1, FS_AddElement
    <3>3. One(c, k, ps, req, ts) = 1
      BY <2>2, <2>3 DEF One
    <3>. QED
      BY <2>1, <3>2, <3>3 DEF Count
  <2>4. CASE x \notin R
    <3>1. R = Q
      BY <2>2, <2>4
    <3>2. One(c, k, ps, req, ts) = 0
      BY <2>2, <2>4 DEF One
    <3>. QED
      BY <2>1, <2>2, <3>1, <3>2 DEF Count
  <2>. QED
    BY <2>3, <2>4
<1>10. More(q, r, c, k, req)
  BY <1>2, <1>8, <1>9, Zenon DEF More
<1>. QED
  BY <1>1, <1>2, <1>10

LEMMA TakeCounts ==
  ASSUME NEW q \in QueuesType, Bounded(q), NEW c \in Components, NEW k \in Queues,
         NEW n \in DOMAIN q[c][k], NEW r, r = [q EXCEPT ![c][k] = RemoveAt(@, n)]
  PROVE  r \in QueuesType /\ More(r, q, c, k, q[c][k][n])
<1>1. r \in QueuesType /\ Adds(r, q, c, k, q[c][k][n])
  BY TakeOut
<1>2. /\ q[c][k] \in Seq(Request) /\ Len(q[c][k]) \in Nat /\ n \in 1..Len(q[c][k])
  BY InOf
<1>3. /\ r[c][k] = RemoveAt(q[c][k], n)
      /\ \A d \in Components : \A j \in Queues : ~(d = c /\ j = k) => r[d][j] = q[d][j]
  BY DEF QueuesType
<1>4. /\ Len(r[c][k]) = Len(q[c][k]) - 1
      /\ \A i \in 1..Len(q[c][k]) - 1 :
            r[c][k][i] = IF i < n THEN q[c][k][i] ELSE q[c][k][i + 1]
  BY <1>2, <1>3, RemoveAtShifts
<1>5. ASSUME NEW ps \in SUBSET Places, NEW ts \in SUBSET Kinds
      PROVE  /\ IsFiniteSet(Spots(r, ps, ts))
             /\ Count(q, ps, ts) = Count(r, ps, ts) + One(c, k, ps, q[c][k][n], ts)
  <2>1. PICK p, x : p = <<c, k>> /\ x = <<p, n>>
    OBVIOUS
  <2> DEFINE Q == Spots(q, ps, ts)
             R == Spots(r, ps, ts)
             f == [s \in Q \ {x} |-> IF s[1] = p /\ s[2] > n THEN <<p, s[2] - 1>> ELSE s]
  <2>2. Q \subseteq ps \X Nat /\ R \subseteq ps \X Nat
    BY <1>1, SpotsOf
  <2>3. ASSUME NEW i \in Nat
        PROVE  /\ i < n => (<<p, i>> \in R <=> <<p, i>> \in Q)
               /\ i > n => (<<p, i - 1>> \in R <=> <<p, i>> \in Q)
    <3>1. CASE i < n
      <4>1. (i \in 1..Len(r[c][k])) <=> (i \in 1..Len(q[c][k]))
        BY <1>2, <1>4, <3>1
      <4>2. i \in 1..Len(q[c][k]) => r[c][k][i] = q[c][k][i]
        BY <1>2, <1>4, <3>1
      <4>3. IsSpot(r, c, k, i, ps, ts) <=> IsSpot(q, c, k, i, ps, ts)
        BY <4>1, <4>2, Zenon DEF IsSpot
      <4>4. <<p, i>> \in R <=> <<p, i>> \in Q
        BY <1>1, <2>1, <4>3, SpotIs, Zenon
      <4>5. ~(i > n)
        BY <1>2, <3>1
      <4>. QED
        BY <4>4, <4>5, Zenon
    <3>2. CASE i > n
      <4>1. i - 1 \in Nat /\ ~(i < n)
        BY <1>2, <3>2
      <4>2. (i - 1 \in 1..Len(r[c][k])) <=> (i \in 1..Len(q[c][k]))
        BY <1>2, <1>4, <3>2
      <4>3. i \in 1..Len(q[c][k]) => r[c][k][i - 1] = q[c][k][i]
        <5>1. SUFFICES ASSUME i \in 1..Len(q[c][k])
                       PROVE  r[c][k][i - 1] = q[c][k][i]
          OBVIOUS
        <5>2. i - 1 \in 1..Len(q[c][k]) - 1 /\ ~(i - 1 < n) /\ (i - 1) + 1 = i
          BY <1>2, <3>2, <5>1
        <5>. QED
          BY <1>4, <5>2
      <4>4. IsSpot(r, c, k, i - 1, ps, ts) <=> IsSpot(q, c, k, i, ps, ts)
        BY <4>2, <4>3, Zenon DEF IsSpot
      <4>5. <<p, i - 1>> \in R <=> <<p, i>> \in Q
        BY <1>1, <2>1, <4>1, <4>4, SpotIs, Zenon
      <4>. QED
        BY <4>1, <4>5, Zenon
    <3>3. CASE i = n
      <4>1. ~(i < n) /\ ~(i > n)
        BY <1>2, <3>3
      <4>. QED
        BY <4>1, Zenon
    <3>4. i < n \/ i > n \/ i = n
      BY <1>2
    <3>. QED
      BY <3>1, <3>2, <3>3, <3>4, Zenon
  <2>4. ASSUME NEW s \in ps \X Nat, s[1] # p
        PROVE  s \in R <=> s \in Q
    <3>1. PICK d \in Components, j \in Queues, i \in Nat : s = <<<<d, j>>, i>>
      BY DEF Places
    <3>2. ~(d = c /\ j = k)
      BY <2>1, <2>4, <3>1
    <3>3. IsSpot(r, d, j, i, ps, ts) <=> IsSpot(q, d, j, i, ps, ts)
      BY <1>3, <3>2, Zenon DEF IsSpot
    <3>. QED
      BY <1>1, <3>1, <3>3, SpotIs, Zenon
  <2>5. IsFiniteSet(Q) /\ Cardinality(Q) \in Nat
    BY SpotsBounded DEF Count
  <2> HIDE DEF Q, R
  <2>6. \A s \in Q \ {x} : s \in ps \X Nat /\ s = <<s[1], s[2]>> /\ s[2] \in Nat
                          /\ (s[1] = p => s[2] # n)
    BY <2>1, <2>2
  <2>7. \A s \in Q \ {x} : f[s] \in R
    <3>1. SUFFICES ASSUME NEW s \in Q \ {x}
                   PROVE  f[s] \in R
      OBVIOUS
    <3>2. s \in ps \X Nat /\ s = <<s[1], s[2]>> /\ s[2] \in Nat /\ (s[1] = p => s[2] # n)
      BY <2>6, <3>1
    <3>3. CASE s[1] = p /\ s[2] > n
      <4>1. f[s] = <<p, s[2] - 1>>
        BY <3>1, <3>3
      <4>2. <<p, s[2]>> \in Q
        BY <3>1, <3>2, <3>3
      <4>. QED
        BY <2>3, <3>2, <3>3, <4>1, <4>2
    <3>4. CASE s[1] = p /\ ~(s[2] > n)
      <4>1. f[s] = <<p, s[2]>> /\ s[2] < n
        BY <1>2, <3>1, <3>2, <3>4
      <4>2. <<p, s[2]>> \in Q
        BY <3>1, <3>2, <3>4
      <4>. QED
        BY <2>3, <3>2, <4>1, <4>2
    <3>5. CASE s[1] # p
      BY <2>4, <3>1, <3>2, <3>5
    <3>. QED
      BY <3>3, <3>4, <3>5
  <2>8. \A s \in R : \E o \in Q \ {x} : f[o] = s
    <3>1. SUFFICES ASSUME NEW s \in R
                   PROVE  \E o \in Q \ {x} : f[o] = s
      OBVIOUS
    <3>2. s \in ps \X Nat /\ s = <<s[1], s[2]>> /\ s[2] \in Nat
      BY <2>2, <3>1
    <3>3. CASE s[1] = p /\ s[2] >= n
      <4>1. s[2] + 1 \in Nat /\ s[2] + 1 > n /\ (s[2] + 1) - 1 = s[2] /\ s = <<p, s[2]>>
        BY <1>2, <3>2, <3>3
      <4>2. <<p, (s[2] + 1) - 1>> \in R
        BY <3>1, <4>1
      <4>3. <<p, s[2] + 1>> \in Q
        BY <2>3, <4>1, <4>2
      <4>4. PICK o : o = <<p, s[2] + 1>>
        OBVIOUS
      <4>5. o \in Q \ {x} /\ o[1] = p /\ o[2] = s[2] + 1
        BY <1>2, <2>1, <4>1, <4>3, <4>4
      <4>6. f[o] = s
        BY <4>1, <4>5
      <4>. QED
        BY <4>5, <4>6
    <3>4. CASE s[1] = p /\ s[2] < n
      <4>0. s = <<p, s[2]>> /\ s[2] # n /\ ~(s[2] > n) /\ x[2] = n
        BY <1>2, <2>1, <3>2, <3>4
      <4>1. s \in Q /\ s # x /\ ~(s[2] > n)
        BY <2>3, <3>1, <3>2, <3>4, <4>0
      <4>2. f[s] = s
        BY <4>1
      <4>. QED
        BY <4>1, <4>2
    <3>5. CASE s[1] # p
      <4>1. s \in Q /\ s # x
        BY <2>1, <2>4, <3>1, <3>2, <3>5
      <4>2. f[s] = s
        BY <3>5, <4>1
      <4>. QED
        BY <4>1, <4>2
    <3>. QED
      BY <1>2, <3>2, <3>3, <3>4, <3>5
  <2>9. \A s, o \in Q \ {x} : f[s] = f[o] => s = o
    <3>1. SUFFICES ASSUME NEW s \in Q \ {x}, NEW o \in Q \ {x}, f[s] = f[o]
                   PROVE  s = o
      OBVIOUS
    <3>2. /\ s = <<s[1], s[2]>> /\ s[2] \in Nat /\ (s[1] = p => s[2] # n)
          /\ o = <<o[1], o[2]>> /\ o[2] \in Nat /\ (o[1] = p => o[2] # n)
      BY <2>6
    <3>3. /\ f[s] = IF s[1] = p /\ s[2] > n THEN <<p, s[2] - 1>> ELSE s
          /\ f[o] = IF o[1] = p /\ o[2] > n THEN <<p, o[2] - 1>> ELSE o
      OBVIOUS
    <3> HIDE DEF f
    <3>4. CASE (s[1] = p /\ s[2] > n) /\ (o[1] = p /\ o[2] > n)
      <4>1. <<p, s[2] - 1>> = <<p, o[2] - 1>>
        BY <3>1, <3>3, <3>4
      <4>2. s[2] - 1 = o[2] - 1
        BY <4>1
      <4>3. s[2] = o[2] /\ s[1] = o[1]
        BY <3>2, <3>4, <4>2
      <4>. QED
        BY <3>2, <4>3
    <3>5. CASE (s[1] = p /\ s[2] > n) /\ ~(o[1] = p /\ o[2] > n)
      <4>1. o = <<p, s[2] - 1>>
        BY <3>1, <3>3, <3>5
      <4>2. o[1] = p /\ o[2] = s[2] - 1
        BY <4>1
      <4>. QED
        BY <1>2, <3>2, <3>5, <4>2
    <3>6. CASE ~(s[1] = p /\ s[2] > n) /\ (o[1] = p /\ o[2] > n)
      <4>1. s = <<p, o[2] - 1>>
        BY <3>1, <3>3, <3>6
      <4>2. s[1] = p /\ s[2] = o[2] - 1
        BY <4>1
      <4>. QED
        BY <1>2, <3>2, <3>6, <4>2
    <3>7. CASE ~(s[1] = p /\ s[2] > n) /\ ~(o[1] = p /\ o[2] > n)
      BY <3>1, <3>3, <3>7
    <3>. QED
      BY <3>4, <3>5, <3>6, <3>7
  <2>10. f \in Bijection(Q \ {x}, R)
    <3>1. f \in [Q \ {x} -> R]
      BY <2>7
    <3> HIDE DEF f
    <3>2. IsInjective(f)
      BY <2>9, <3>1 DEF IsInjective
    <3>. QED
      BY <2>8, <3>1, <3>2 DEF Bijection, Injection, Surjection
  <2> HIDE DEF f
  <2>11. ExistsBijection(Q \ {x}, R)
    BY <2>10 DEF ExistsBijection
  <2>12. /\ IsFiniteSet(Q \ {x})
         /\ Cardinality(Q \ {x}) = IF x \in Q THEN Cardinality(Q) - 1 ELSE Cardinality(Q)
    BY <2>5, FS_RemoveElement
  <2>13. IsFiniteSet(R) /\ Cardinality(R) = Cardinality(Q \ {x})
    BY <2>11, <2>12, FS_Bijection
  <2>14. x \in Q <=> <<c, k>> \in ps /\ q[c][k][n].type \in ts
    <3>1. n \in Nat
      BY <1>2
    <3>2. x \in Q <=> IsSpot(q, c, k, n, ps, ts)
      BY <2>1, <3>1, SpotIs, Zenon DEF Q
    <3>. QED
      BY <1>2, <3>2, Zenon DEF IsSpot
  <2>15. One(c, k, ps, q[c][k][n], ts) = IF x \in Q THEN 1 ELSE 0
    BY <2>14 DEF One
  <2>16. Cardinality(Q) = Cardinality(R) + One(c, k, ps, q[c][k][n], ts)
    BY <2>5, <2>12, <2>13, <2>15
  <2>. QED
    BY <2>13, <2>16 DEF Count, Q, R
<1>6. Bounded(r)
  BY <1>5 DEF Bounded
<1>7. More(r, q, c, k, q[c][k][n])
  BY <1>1, <1>5, <1>6, Zenon DEF More
<1>. QED
  BY <1>1, <1>7

-----------------------------------------------------------------------------
(* The schedule *)

LEMMA DramSchedule ==
  ASSUME mode = "dram"
  PROVE  Final = 3 /\ Order[mode][1] = <<"dram", "out">> /\ Order[mode][2] = <<"dram", "in">>
  BY DEF Final, Order, MemoryOrder, CacheOrder

LEMMA SingleSchedule ==
  ASSUME mode = "single"
  PROVE  /\ Final = 7 /\ Order[mode][1] = <<"dram", "out">> /\ Order[mode][2] = <<"dram", "in">>
         /\ Order[mode][3] = <<"l1u", "wb">> /\ Order[mode][4] = <<"l1u", "fill">>
         /\ Order[mode][5] = <<"l1u", "out">> /\ Order[mode][6] = <<"l1u", "in">>
  BY DEF Final, Order, MemoryOrder, CacheOrder

LEMMA MultiSchedule ==
  ASSUME mode = "multi"
  PROVE  /\ Final = 15 /\ Order[mode][1] = <<"dram", "out">> /\ Order[mode][2] = <<"dram", "in">>
         /\ Order[mode][3] = <<"l2", "wb">> /\ Order[mode][4] = <<"l2", "fill">>
         /\ Order[mode][5] = <<"l2", "out">> /\ Order[mode][6] = <<"l2", "in">>
         /\ Order[mode][7] = <<"l1i", "wb">> /\ Order[mode][8] = <<"l1i", "fill">>
         /\ Order[mode][9] = <<"l1i", "out">> /\ Order[mode][10] = <<"l1i", "in">>
         /\ Order[mode][11] = <<"l1d", "wb">> /\ Order[mode][12] = <<"l1d", "fill">>
         /\ Order[mode][13] = <<"l1d", "out">> /\ Order[mode][14] = <<"l1d", "in">>
<1>1. /\ Final = 15 /\ Order[mode][1] = <<"dram", "out">> /\ Order[mode][2] = <<"dram", "in">>
  BY DEF Final, Order, MemoryOrder, CacheOrder
<1>2. /\ Order[mode][3] = <<"l2", "wb">> /\ Order[mode][4] = <<"l2", "fill">>
      /\ Order[mode][5] = <<"l2", "out">> /\ Order[mode][6] = <<"l2", "in">>
  BY DEF Order, MemoryOrder, CacheOrder
<1>3. /\ Order[mode][7] = <<"l1i", "wb">> /\ Order[mode][8] = <<"l1i", "fill">>
      /\ Order[mode][9] = <<"l1i", "out">> /\ Order[mode][10] = <<"l1i", "in">>
  BY DEF Order, MemoryOrder, CacheOrder
<1>4. /\ Order[mode][11] = <<"l1d", "wb">> /\ Order[mode][12] = <<"l1d", "fill">>
      /\ Order[mode][13] = <<"l1d", "out">> /\ Order[mode][14] = <<"l1d", "in">>
  BY DEF Order, MemoryOrder, CacheOrder
<1>. QED
  BY <1>1, <1>2, <1>3, <1>4

\* Who is at place i: the queue k of c
Scheduled(i, c, k) ==
  /\ i \in 1..Final - 1 /\ c = Order[mode][i][1] /\ k = Order[mode][i][2]
  /\ c \in Components /\ k \in Queues /\ (c = "dram" => k \in {"in", "out"})
  /\ mode = "dram" => c = "dram"
  /\ mode = "single" => c \in {"dram", "l1u"}
  /\ mode = "multi" => c # "l1u"

LEMMA PlaceSchedule ==
  ASSUME mode \in Modes, NEW i \in 1..Final - 1
  PROVE  Final \in Nat /\ Scheduled(i, Order[mode][i][1], Order[mode][i][2])
<1>0. mode \in {"dram", "single", "multi"}
  BY GeometryAssumption
<1>1. CASE mode = "dram"
  <2>1. Final = 3 /\ (i = 1 \/ i = 2)
    BY <1>1, DramSchedule
  <2>. QED
    BY <1>1, <2>1, DramSchedule DEF Scheduled, Components, Caches, Queues
<1>2. CASE mode = "single"
  <2>1. Final = 7 /\ (i = 1 \/ i = 2 \/ i = 3 \/ i = 4 \/ i = 5 \/ i = 6)
    BY <1>2, SingleSchedule
  <2>. QED
    BY <1>2, <2>1, SingleSchedule DEF Scheduled, Components, Caches, Queues
<1>3. CASE mode = "multi"
  <2>1. /\ Final = 15
        /\ \/ i = 1 \/ i = 2 \/ i = 3 \/ i = 4 \/ i = 5 \/ i = 6 \/ i = 7 \/ i = 8
           \/ i = 9 \/ i = 10 \/ i = 11 \/ i = 12 \/ i = 13 \/ i = 14
    BY <1>3, MultiSchedule
  <2>. QED
    BY <1>3, <2>1, MultiSchedule DEF Scheduled, Components, Caches, Queues
<1>. QED
  BY <1>0, <1>1, <1>2, <1>3

LEMMA FinalType ==
  ASSUME mode \in Modes
  PROVE  Final \in Nat /\ Final >= 3
<1>0. mode \in {"dram", "single", "multi"}
  BY GeometryAssumption
<1>. QED
  BY <1>0, DramSchedule, SingleSchedule, MultiSchedule

\* Where a walk comes to: the queues passed have nothing to process.
Idle(q, i) == LET c == Order[mode][i][1]
                  k == Order[mode][i][2]
              IN  \A r \in In(q, c, k) : ~Ready(k, r)

LEMMA NextPlaceFacts ==
  ASSUME mode \in Modes, NEW q \in QueuesType, NEW i \in 1..Final, NEW p, p = NextPlace(q, i)
  PROVE  p \in i..Final /\ Due(q, p) /\ \A j \in i..p - 1 : Idle(q, j)
<1> DEFINE Stop(j) == LET c == Order[mode][j][1]
                          k == Order[mode][j][2]
                      IN  \E n \in DOMAIN q[c][k] : Ready(k, q[c][k][n])
           A == {Final} \cup {j \in i..Final - 1 : Stop(j)}
<1>0. Final \in Nat
  BY FinalType
<1>1. p = Min(A)
  BY DEF NextPlace
<1>2. A # {} /\ A \in SUBSET Nat
  BY <1>0
<1>3. p \in A /\ \A j \in A : p <= j
  BY <1>1, <1>2, MinOf, ZenonT(40)
<1>4. \A j \in 1..Final - 1 : ~Stop(j) <=> Idle(q, j)
  BY Zenon DEF Idle, In
<1> HIDE DEF Stop
<1>5. p \in i..Final /\ (p \in 1..Final - 1 => Stop(p))
  BY <1>0, <1>3
<1>6. ASSUME NEW j \in i..p - 1
      PROVE  Idle(q, j)
  <2>1. j \in i..Final - 1 /\ j \in 1..Final - 1 /\ ~(p <= j)
    BY <1>0, <1>5
  <2>2. ~Stop(j)
    BY <1>3, <2>1
  <2>. QED
    BY <1>4, <2>1, <2>2
<1>7. Due(q, p)
  BY <1>5, Zenon DEF Due, Stop
<1>. QED
  BY <1>5, <1>6, <1>7

-----------------------------------------------------------------------------
(* Steps *)

\* The queues at the end of a cycle
Sooner(req) == [req EXCEPT !.left = @ - 1]
Ticked(q, r) ==
  /\ r \in QueuesType
  /\ \A c \in Components : \A k \in Queues : In(r, c, k) = {Sooner(x) : x \in In(q, c, k)}
  /\ \A ps \in SUBSET Places : \A ts : Spots(r, ps, ts) = Spots(q, ps, ts)

LEMMA SoonerOf ==
  ASSUME NEW req \in Request
  PROVE  /\ Sooner(req) \in Request /\ Sooner(req).line = req.line
         /\ Sooner(req).type = req.type /\ Sooner(req).dirty = req.dirty
         /\ Sooner(req).left = req.left - 1
  BY DEF Sooner, Request

TickedQueues(q) ==
  [c \in Components |-> [k \in Queues |->
     [n \in DOMAIN q[c][k] |-> [q[c][k][n] EXCEPT !.left = @ - 1]]]]

LEMMA TickFacts ==
  ASSUME NEW q \in QueuesType, NEW r, r = TickedQueues(q)
  PROVE  Ticked(q, r)
<1>1. ASSUME NEW c \in Components, NEW k \in Queues
      PROVE  /\ r[c][k] = [n \in DOMAIN q[c][k] |-> Sooner(q[c][k][n])]
             /\ r[c][k] \in Seq(Request)
             /\ DOMAIN r[c][k] = DOMAIN q[c][k] /\ Len(r[c][k]) = Len(q[c][k])
             /\ \A n \in DOMAIN q[c][k] : r[c][k][n] = Sooner(q[c][k][n])
             /\ \A n \in DOMAIN q[c][k] : r[c][k][n].type = q[c][k][n].type
  <2>1. r[c][k] = [n \in DOMAIN q[c][k] |-> Sooner(q[c][k][n])]
    BY DEF Sooner, TickedQueues
  <2>2. /\ q[c][k] \in Seq(Request) /\ DOMAIN q[c][k] = 1..Len(q[c][k]) /\ Len(q[c][k]) \in Nat
    BY InOf
  <2>3. \A n \in 1..Len(q[c][k]) : q[c][k][n] \in Request
    BY <2>2, ElementOfSeq
  <2>4. \A n \in 1..Len(q[c][k]) : /\ Sooner(q[c][k][n]) \in Request
                                    /\ Sooner(q[c][k][n]).type = q[c][k][n].type
    BY <2>3, SoonerOf
  <2>5. PICK s : s = r[c][k]
    OBVIOUS
  <2>6. s \in [1..Len(q[c][k]) -> Request] /\ \A n \in 1..Len(q[c][k]) : s[n] = Sooner(q[c][k][n])
    BY <2>1, <2>2, <2>4, <2>5, Zenon
  <2>7. s \in Seq(Request) /\ DOMAIN s = 1..Len(q[c][k]) /\ Len(s) = Len(q[c][k])
    BY <2>2, <2>6, SeqDef, LenProperties
  <2>. QED
    BY <2>1, <2>2, <2>4, <2>5, <2>6, <2>7, Zenon
<1>2. r \in QueuesType
  <2>1. r \in [Components -> [Queues -> Seq(Request)]]
    <3>1. \A c \in Components : r[c] \in [Queues -> Seq(Request)]
      <4>1. \A c \in Components : DOMAIN r[c] = Queues /\ r[c] = [k \in Queues |-> r[c][k]]
        BY DEF TickedQueues
      <4>2. \A c \in Components : \A k \in Queues : r[c][k] \in Seq(Request)
        BY <1>1, Zenon
      <4>. QED
        BY <4>1, <4>2
    <3>2. DOMAIN r = Components /\ r = [c \in Components |-> r[c]]
      BY DEF TickedQueues
    <3>. QED
      BY <3>1, <3>2, Zenon
  <2>. QED
    BY <2>1 DEF QueuesType
<1>3. ASSUME NEW c \in Components, NEW k \in Queues
      PROVE  In(r, c, k) = {Sooner(x) : x \in In(q, c, k)}
  <2>1. /\ DOMAIN r[c][k] = DOMAIN q[c][k]
        /\ \A n \in DOMAIN q[c][k] : r[c][k][n] = Sooner(q[c][k][n])
    BY <1>1, Zenon
  <2>2. PICK s, o : s = r[c][k] /\ o = q[c][k]
    OBVIOUS
  <2>3. \A x : x \in In(r, c, k) <=> \E n \in DOMAIN s : x = s[n]
    BY <2>2, Zenon DEF In
  <2>4. \A x : x \in In(q, c, k) <=> \E n \in DOMAIN o : x = o[n]
    BY <2>2, Zenon DEF In
  <2>5. DOMAIN s = DOMAIN o /\ \A n \in DOMAIN o : s[n] = Sooner(o[n])
    BY <2>1, <2>2, Zenon
  <2>6. PICK A, B : A = In(r, c, k) /\ B = In(q, c, k)
    OBVIOUS
  <2>7. A = {Sooner(x) : x \in B}
    <3>0. /\ \A x : x \in A <=> \E n \in DOMAIN o : x = s[n]
          /\ \A x : x \in B <=> \E n \in DOMAIN o : x = o[n]
      BY <2>3, <2>4, <2>5, <2>6, Zenon
    <3>1. \A y \in A : \E x \in B : y = Sooner(x)
      BY <2>5, <3>0
    <3>2. \A x \in B : Sooner(x) \in A
      BY <2>5, <3>0
    <3>. QED
      BY <3>1, <3>2
  <2>. QED
    BY <2>6, <2>7, Zenon
<1>4. ASSUME NEW ps \in SUBSET Places, NEW ts
      PROVE  Spots(r, ps, ts) = Spots(q, ps, ts)
  <2>1. \A p \in ps : p[1] \in Components /\ p[2] \in Queues
    BY DEF Places
  <2>2. \A p \in ps : /\ DOMAIN r[p[1]][p[2]] = DOMAIN q[p[1]][p[2]]
                       /\ \A i \in DOMAIN q[p[1]][p[2]] :
                            r[p[1]][p[2]][i].type = q[p[1]][p[2]][i].type
    BY <1>1, <2>1, Zenon
  <2>3. ASSUME NEW p \in ps
        PROVE  {<<p, n>> : n \in {i \in DOMAIN r[p[1]][p[2]] : r[p[1]][p[2]][i].type \in ts}}
             = {<<p, n>> : n \in {i \in DOMAIN q[p[1]][p[2]] : q[p[1]][p[2]][i].type \in ts}}
    <3>1. {i \in DOMAIN r[p[1]][p[2]] : r[p[1]][p[2]][i].type \in ts}
          = {i \in DOMAIN q[p[1]][p[2]] : q[p[1]][p[2]][i].type \in ts}
      BY <2>2
    <3>. QED
      BY <3>1, Zenon
  <2> DEFINE R(p) == {<<p, n>> : n \in {i \in DOMAIN r[p[1]][p[2]] : r[p[1]][p[2]][i].type \in ts}}
             Q(p) == {<<p, n>> : n \in {i \in DOMAIN q[p[1]][p[2]] : q[p[1]][p[2]][i].type \in ts}}
  <2>4. Spots(r, ps, ts) = UNION {R(p) : p \in ps} /\ Spots(q, ps, ts) = UNION {Q(p) : p \in ps}
    BY DEF Spots
  <2>5. \A p \in ps : R(p) = Q(p)
    BY <2>3
  <2> HIDE DEF R, Q
  <2>6. {R(p) : p \in ps} = {Q(p) : p \in ps}
    BY <2>5
  <2>. QED
    BY <2>4, <2>6
<1>. QED
  BY <1>2, <1>3, <1>4, Zenon DEF Ticked

\* What a step leaves to be shown of the queues
Fit(c, k, req) ==
  req \in Request /\ req.type \in Allowed(c, k) /\ (req.type = "ifetch" => req.dirty = FALSE)

LEMMA Feeds ==
  ASSUME NEW q, QueuesOK(q), NEW c \in Components, NEW k \in Queues, NEW req, Fit(c, k, req),
         NEW r, r = Push(q, c, k, req)
  PROVE  QueuesOK(r) /\ More(q, r, c, k, req)
<1>1. /\ q \in QueuesType /\ KindsOK(q) /\ Bounded(q)
      /\ req \in Request /\ req.type \in Allowed(c, k) /\ (req.type = "ifetch" => req.dirty = FALSE)
  BY Zenon DEF QueuesOK, Fit
<1>2. r \in QueuesType /\ More(q, r, c, k, req)
  BY <1>1, PushCounts
<1>3. Adds(q, r, c, k, req) /\ Bounded(r)
  BY <1>2, Zenon DEF More
<1>4. ASSUME NEW d \in Components, NEW j \in Queues, NEW x \in In(r, d, j)
      PROVE  x.type \in Allowed(d, j) /\ (x.type = "ifetch" => x.dirty = FALSE)
  <2>1. CASE d = c /\ j = k
    <3>1. x = req \/ x \in In(q, c, k)
      BY <1>3, <1>4, <2>1, Zenon DEF Adds
    <3>. QED
      BY <1>1, <2>1, <3>1, Zenon DEF KindsOK
  <2>2. CASE ~(d = c /\ j = k)
    <3>1. x \in In(q, d, j)
      BY <1>3, <1>4, <2>2, Zenon DEF Adds
    <3>. QED
      BY <1>1, <3>1, Zenon DEF KindsOK
  <2>. QED
    BY <2>1, <2>2, Zenon
<1>5. KindsOK(r)
  BY <1>4, Zenon DEF KindsOK
<1>. QED
  BY <1>2, <1>3, <1>5, Zenon DEF QueuesOK

LEMMA Takes ==
  ASSUME NEW q, QueuesOK(q), NEW c \in Components, NEW k \in Queues, NEW n \in DOMAIN q[c][k],
         NEW r, r = [q EXCEPT ![c][k] = RemoveAt(@, n)]
  PROVE  QueuesOK(r) /\ More(r, q, c, k, q[c][k][n]) /\ Fit(c, k, q[c][k][n])
<1>1. q \in QueuesType /\ KindsOK(q) /\ Bounded(q)
  BY Zenon DEF QueuesOK
<1>2. r \in QueuesType /\ More(r, q, c, k, q[c][k][n])
  BY <1>1, TakeCounts
<1>3. Adds(r, q, c, k, q[c][k][n]) /\ Bounded(r)
  BY <1>2, Zenon DEF More
<1>4. \A d \in Components : \A j \in Queues : In(r, d, j) \subseteq In(q, d, j)
  <2>1. ASSUME NEW d \in Components, NEW j \in Queues, NEW x \in In(r, d, j)
        PROVE  x \in In(q, d, j)
    BY <1>3, <2>1, Zenon DEF Adds
  <2>. QED
    BY <2>1, Zenon
<1>5. KindsOK(r)
  BY <1>1, <1>4 DEF KindsOK
<1>6. q[c][k][n] \in In(q, c, k) /\ In(q, c, k) \subseteq Request
  <2>1. In(q, c, k) \subseteq Request
    BY <1>1, InOf
  <2>. QED
    BY <2>1 DEF In
<1>7. Fit(c, k, q[c][k][n])
  BY <1>1, <1>6 DEF Fit, KindsOK
<1>. QED
  BY <1>2, <1>3, <1>5, <1>7, Zenon DEF QueuesOK

\* The numbers of requests that the lists of the simulator follow
Demands(q)    == Count(q, Places, Types)
AtMemory(q)   == Count(q, {"dram"} \X Queues, {"wb"})
TowardsL2(q)  == Count(q, FromL1, {"wb"})
BelowL1(c, k) == c \in {"l1d", "l1i"} \/ (c = "l2" /\ k = "fill")
Numbers(q1, q2, c, k, req) ==
  /\ Demands(q1) \in Nat /\ AtMemory(q1) \in Nat /\ TowardsL2(q1) \in Nat
  /\ Demands(q2) = Demands(q1) + IF req.type = "wb" THEN 0 ELSE 1
  /\ AtMemory(q2) = AtMemory(q1) + IF req.type = "wb" /\ c = "dram" THEN 1 ELSE 0
  /\ TowardsL2(q2) = TowardsL2(q1)
       + IF req.type = "wb" /\ BelowL1(c, k) THEN 1 ELSE 0

LEMMA NumbersOf ==
  ASSUME NEW q1 \in QueuesType, NEW q2, NEW c \in Components, NEW k \in Queues,
         NEW req \in Request, More(q1, q2, c, k, req)
  PROVE  Numbers(q1, q2, c, k, req)
<1>1. PICK memory, upper, wbs : /\ memory = {"dram"} \X Queues /\ upper = FromL1
                                /\ wbs = {"wb"}
  OBVIOUS
<1>2. /\ Places \in SUBSET Places /\ memory \in SUBSET Places /\ upper \in SUBSET Places
      /\ Types \in SUBSET Kinds /\ wbs \in SUBSET Kinds
  BY <1>1 DEF Places, FromL1, Components, Caches, Queues, Types, Kinds
<1>3. Bounded(q1) /\ \A ps \in SUBSET Places : \A ts \in SUBSET Kinds :
        Count(q2, ps, ts) = Count(q1, ps, ts) + One(c, k, ps, req, ts)
  BY Zenon DEF More
<1>4. /\ Demands(q2) = Demands(q1) + One(c, k, Places, req, Types)
      /\ AtMemory(q2) = AtMemory(q1) + One(c, k, memory, req, wbs)
      /\ TowardsL2(q2) = TowardsL2(q1) + One(c, k, upper, req, wbs)
  BY <1>1, <1>2, <1>3, Zenon DEF Demands, AtMemory, TowardsL2
<1>5. Demands(q1) \in Nat /\ AtMemory(q1) \in Nat /\ TowardsL2(q1) \in Nat
  BY <1>1, <1>2, <1>3, SpotsBounded, Zenon DEF Demands, AtMemory, TowardsL2
<1>6. req.type \in Kinds /\ (req.type \in Types <=> req.type # "wb")
  BY DEF Request, Kinds, Types
<1>7. <<c, k>> \in Places
  BY DEF Places
<1>8. (<<c, k>> \in memory <=> c = "dram")
  BY <1>1
<1>9. (<<c, k>> \in upper <=> BelowL1(c, k))
  BY <1>1 DEF FromL1, BelowL1
<1>10. One(c, k, Places, req, Types) = IF req.type = "wb" THEN 0 ELSE 1
  BY <1>6, <1>7 DEF One
<1>11. One(c, k, memory, req, wbs) = IF req.type = "wb" /\ c = "dram" THEN 1 ELSE 0
  BY <1>1, <1>8 DEF One
<1>12. One(c, k, upper, req, wbs) =
         IF req.type = "wb" /\ BelowL1(c, k) THEN 1 ELSE 0
  BY <1>1, <1>9 DEF One
<1>. QED
  BY <1>4, <1>5, <1>10, <1>11, <1>12 DEF Numbers

\* A request at hand is taken from the queue of the place in the schedule.
Taken(c, k, req, rest) ==
  /\ Scheduled(at, c, k)
  /\ Fit(c, k, req) /\ Ready(k, req) /\ req \in In(queue, c, k)
  /\ QueuesOK(rest) /\ More(rest, queue, c, k, req)

LEMMA ProcessTakes ==
  ASSUME TypeInv, Process
  PROVE  /\ \E c, k, req, rest : Taken(c, k, req, rest) /\ Handle(c, k, req, rest)
         /\ at' = NextPlace(queue', at) /\ UNCHANGED <<mode, single, ended, inFlight>>
<1>1. PICK c, k, q : c = Order[mode][at][1] /\ k = Order[mode][at][2] /\ q = queue[c][k]
  OBVIOUS
<1>2. PICK A : A = {i \in DOMAIN q : Ready(k, q[i])}
  OBVIOUS
<1>3. PICK n, rest : n = Min(A) /\ rest = [queue EXCEPT ![c][k] = RemoveAt(@, n)]
  OBVIOUS
<1>4. /\ at \in 1..Final - 1 /\ Handle(c, k, q[n], rest)
      /\ at' = NextPlace(queue', at) /\ UNCHANGED <<mode, single, ended, inFlight>>
  BY <1>1, <1>2, <1>3, Zenon DEF Process
<1>5. /\ mode \in Modes /\ QueuesOK(queue) /\ queue \in QueuesType
      /\ \E j \in DOMAIN q : Ready(k, q[j])
  BY <1>1, <1>4, Zenon DEF TypeInv, Due, QueuesOK
<1>6. Scheduled(at, c, k) /\ c \in Components /\ k \in Queues
  <2>1. Scheduled(at, c, k)
    BY <1>1, <1>4, <1>5, PlaceSchedule
  <2>. QED
    BY <2>1 DEF Scheduled
<1>7. DOMAIN q \subseteq Nat
  <2>1. DOMAIN queue[c][k] = 1..Len(queue[c][k]) /\ Len(queue[c][k]) \in Nat
    BY <1>5, <1>6, InOf
  <2>. QED
    BY <1>1, <2>1
<1>8. n \in DOMAIN q /\ Ready(k, q[n])
  <2>1. A # {} /\ A \in SUBSET Nat
    BY <1>2, <1>5, <1>7
  <2>2. n \in A
    BY <1>3, <2>1, MinOf
  <2>. QED
    BY <1>2, <2>2
<1>9. QueuesOK(rest) /\ More(rest, queue, c, k, q[n]) /\ Fit(c, k, q[n])
  <2>1. n \in DOMAIN queue[c][k]
    BY <1>1, <1>8
  <2>. QED
    BY <1>1, <1>3, <1>5, <1>6, <2>1, Takes
<1>10. q[n] \in In(queue, c, k)
  BY <1>1, <1>8 DEF In
<1>11. Taken(c, k, q[n], rest)
  BY <1>6, <1>8, <1>9, <1>10, Zenon DEF Taken
<1>. QED
  BY <1>4, <1>11, Zenon

-----------------------------------------------------------------------------
(* What the handlers do to the queues *)

\* A request that fits its queue has been added.
Fed(q, r, c, k, req) == Fit(c, k, req) /\ QueuesOK(r) /\ More(q, r, c, k, req)

LEMMA Pushed ==
  ASSUME NEW q, QueuesOK(q), NEW c \in Components, NEW k \in Queues, NEW req, Fit(c, k, req)
  PROVE  Fed(q, Push(q, c, k, req), c, k, req)
  BY Feeds, Zenon DEF Fed

LEMMA DelayedOf ==
  ASSUME NEW req \in Request, NEW c \in Components
  PROVE  /\ Delayed(req, c) \in Request /\ Latency[c] \in Nat
         /\ Delayed(req, c).line = req.line /\ Delayed(req, c).type = req.type
         /\ Delayed(req, c).dirty = req.dirty
         /\ Delayed(req, c).left = req.left + Latency[c]
<1>1. Latency[c] \in Nat
  BY GeometryAssumption
<1>. QED
  BY <1>1 DEF Delayed, Request

LEMMA DelayedPushed ==
  ASSUME NEW q, QueuesOK(q), NEW c \in Components, NEW k \in Queues,
         NEW req \in Request, req.type \in Allowed(c, k), req.type = "ifetch" => req.dirty = FALSE
  PROVE  Fed(q, Push(q, c, k, Delayed(req, c)), c, k, Delayed(req, c))
<1>1. Fit(c, k, Delayed(req, c))
  BY DelayedOf, Zenon DEF Fit
<1>. QED
  BY <1>1, Pushed

LEMMA WriteBackOf ==
  ASSUME NEW l \in Nat
  PROVE  /\ WriteBack(l) \in Request /\ WriteBack(l).line = l /\ WriteBack(l).type = "wb"
         /\ WriteBack(l).left = 0
  BY DEF WriteBack, Request, Kinds

\* The write-back of a fill, if any
Evicts(q, r, c, a, copyDirty) ==
  /\ a.dvictim # NoVictim => Fed(q, r, c, "wb", WriteBack(a.dvictim))
  /\ a.dvictim = NoVictim /\ copyDirty => Fed(q, r, c, "wb", WriteBack(a.victim))
  /\ a.dvictim = NoVictim /\ ~copyDirty => r = q

LEMMA EvictedPushed ==
  ASSUME NEW q, QueuesOK(q), NEW c \in Caches, NEW a, NEW copyDirty,
         a.victim \in Nat, a.dvictim \in Nat,
         c = "l1i" => a.dvictim = NoVictim /\ ~copyDirty,
         NEW r, r = [q EXCEPT ![c]["wb"] = @ \o Evicted(a, copyDirty)]
  PROVE  Evicts(q, r, c, a, copyDirty)
<1>0. c \in Components /\ "wb" \in Queues /\ q \in QueuesType
  BY DEF Components, Queues, QueuesOK
<1>1. ASSUME NEW l \in Nat, Evicted(a, copyDirty) = <<WriteBack(l)>>, c # "l1i"
      PROVE  Fed(q, r, c, "wb", WriteBack(l))
  <2>0. Allowed(c, "wb") = {"wb"}
    BY <1>1 DEF Allowed
  <2>1. Fit(c, "wb", WriteBack(l))
    <3>1. WriteBack(l) \in Request /\ WriteBack(l).type = "wb"
      BY WriteBackOf
    <3>. QED
      BY <2>0, <3>1 DEF Fit
  <2>2. PICK e : e = WriteBack(l)
    OBVIOUS
  <2>3. q[c]["wb"] \in Seq(Request) /\ e \in Request
    BY <1>0, <2>1, <2>2, InOf DEF Fit
  <2>4. q[c]["wb"] \o <<e>> = Append(q[c]["wb"], e)
    BY <2>3
  <2>5. r = Push(q, c, "wb", e)
    BY <1>1, <2>2, <2>4 DEF Push
  <2>6. Fed(q, Push(q, c, "wb", e), c, "wb", e)
    BY <1>0, <2>1, <2>2, Pushed
  <2>. QED
    BY <2>2, <2>5, <2>6
<1>2. ASSUME Evicted(a, copyDirty) = <<>>
      PROVE  r = q
  <2>1. q[c]["wb"] \in Seq(Request)
    BY <1>0, InOf
  <2>2. q[c]["wb"] \o <<>> = q[c]["wb"]
    BY <2>1
  <2>3. r = [q EXCEPT ![c]["wb"] = q[c]["wb"]]
    BY <1>2, <2>2
  <2>. QED
    BY <1>0, <2>3 DEF QueuesType
<1>3. CASE a.dvictim # NoVictim
  BY <1>1, <1>3 DEF Evicted, Evicts
<1>4. CASE a.dvictim = NoVictim /\ copyDirty
  BY <1>1, <1>4 DEF Evicted, Evicts
<1>5. CASE a.dvictim = NoVictim /\ ~copyDirty
  BY <1>2, <1>5 DEF Evicted, Evicts
<1>. QED
  BY <1>3, <1>4, <1>5

LEMMA TakenParts ==
  ASSUME NEW c, NEW k, NEW req, NEW rest, Taken(c, k, req, rest)
  PROVE  /\ c \in Components /\ k \in Queues /\ (c # "dram" => c \in Caches)
         /\ req \in Request /\ req.line \in Nat /\ req.type \in Kinds /\ req.left \in Int
         /\ req.type \in Allowed(c, k) /\ (req.type = "ifetch" => req.dirty = FALSE)
         /\ QueuesOK(rest) /\ rest \in QueuesType
<1>1. /\ c \in Components /\ k \in Queues /\ req \in Request /\ QueuesOK(rest)
      /\ req.type \in Allowed(c, k) /\ (req.type = "ifetch" => req.dirty = FALSE)
  BY Zenon DEF Taken, Fit, Scheduled
<1>2. req.line \in Nat /\ req.type \in Kinds /\ req.left \in Int
  BY <1>1 DEF Request
<1>. QED
  BY <1>1, <1>2, Zenon DEF QueuesOK, Components

LEMMA WbMoves ==
  ASSUME NEW c, NEW req, NEW rest, Taken(c, "wb", req, rest), c # "dram", ProcessWb(c, req, rest)
  PROVE  Fed(rest, queue', c, "out", req) /\ req.type = "wb" /\ c # "l1i"
<1>1. /\ c \in Caches /\ c \in Components /\ req \in Request /\ QueuesOK(rest)
      /\ req.type \in Allowed(c, "wb") /\ (req.type = "ifetch" => req.dirty = FALSE)
  BY TakenParts
<1>2. req.type = "wb" /\ c # "l1i" /\ req.type \in Allowed(c, "out") /\ "out" \in Queues
  BY <1>1 DEF Allowed, Caches, Kinds, Queues
<1>3. Fit(c, "out", req)
  BY <1>1, <1>2 DEF Fit
<1>. QED
  BY <1>1, <1>2, <1>3, Pushed, Zenon DEF ProcessWb

OutMoves(c, req, rest, q) ==
  /\ ~HasNext(c) => Fed(rest, q, "dram", "in", Delayed(req, "dram"))
  /\ HasNext(c) /\ req.type # "wb" => Fed(rest, q, "l2", "in", Delayed(req, "l2"))
  /\ HasNext(c) /\ req.type = "wb" => Fed(rest, q, "l2", "fill", Delayed(req, "l2"))

LEMMA OutMovesOn ==
  ASSUME NEW c, NEW req, NEW rest, Taken(c, "out", req, rest), c # "dram", ProcessOut(c, req, rest)
  PROVE  OutMoves(c, req, rest, queue')
<1>1. /\ req \in Request /\ QueuesOK(rest) /\ req.type \in Kinds
      /\ (req.type = "ifetch" => req.dirty = FALSE)
  BY TakenParts
<1>2. /\ "in" \in Queues /\ "fill" \in Queues /\ "dram" \in Components /\ "l2" \in Components
      /\ Allowed("dram", "in") = Kinds /\ Allowed("l2", "fill") = Kinds /\ Allowed("l2", "in") = Types
      /\ (req.type # "wb" => req.type \in Types)
  BY <1>1 DEF Allowed, Components, Caches, Queues, Kinds
<1>3. CASE ~HasNext(c)
  <2>1. queue' = Push(rest, "dram", "in", Delayed(req, "dram"))
    BY <1>3, Zenon DEF ProcessOut, Access
  <2>. QED
    BY <1>1, <1>2, <1>3, <2>1, DelayedPushed, Zenon DEF OutMoves
<1>4. CASE HasNext(c) /\ req.type # "wb"
  <2>1. queue' = Push(rest, "l2", "in", Delayed(req, "l2"))
    BY <1>4, Zenon DEF ProcessOut, Access
  <2>. QED
    BY <1>1, <1>2, <1>4, <2>1, DelayedPushed, Zenon DEF OutMoves
<1>5. CASE HasNext(c) /\ req.type = "wb"
  <2>1. queue' = Push(rest, "l2", "fill", Delayed(req, "l2"))
    BY <1>5, Zenon DEF ProcessOut, Fill
  <2>. QED
    BY <1>1, <1>2, <1>5, <2>1, DelayedPushed, Zenon DEF OutMoves
<1>. QED
  BY <1>3, <1>4, <1>5, Zenon


\* What ProcessIn looks up, and what a miss sends on
LookedUp(c, req) == AccessStore(store[c], req.line, req.type, FALSE)
MissOf(c, req) == IF c \in L1s /\ req.type = "store"
                  THEN [req EXCEPT !.dirty = TRUE, !.type = "fetch"] ELSE req
InMoves(c, req, rest, q) ==
  /\ ~Holds(store[c], req.line) => Fed(rest, q, c, "out", MissOf(c, req))
  /\ Holds(store[c], req.line) /\ c \in L1s => q = rest
  /\ Holds(store[c], req.line) /\ c = "l2" =>
       Fed(rest, q, Above(req.type), "fill", Delayed(req, Above(req.type)))
InStore(c, req, s) ==
  /\ AccessOK(c, store[c], req.line, req.type, FALSE, LookedUp(c, req))
  /\ s = [store EXCEPT ![c] = LookedUp(c, req).store]

LEMMA AboveOf ==
  ASSUME NEW req \in Request, req.type \in Types, req.type = "ifetch" => req.dirty = FALSE,
         NEW q, QueuesOK(q)
  PROVE  /\ Above(req.type) \in {"l1i", "l1d"}
         /\ Fed(q, Fill(q, Above(req.type), req), Above(req.type), "fill", Delayed(req, Above(req.type)))
<1>1. PICK c : c = Above(req.type)
  OBVIOUS
<1>2. c \in {"l1i", "l1d"} /\ c \in Components /\ "fill" \in Queues /\ req.type \in Allowed(c, "fill")
  BY <1>1 DEF Above, Components, Caches, Queues, Allowed, Types
<1>3. Fill(q, c, req) = Push(q, c, "fill", Delayed(req, c))
  BY DEF Fill
<1>. QED
  BY <1>1, <1>2, <1>3, DelayedPushed, Zenon

LEMMA MissFits ==
  ASSUME NEW c \in Caches, NEW req \in Request, req.type \in Allowed(c, "in"),
         req.type = "ifetch" => req.dirty = FALSE
  PROVE  /\ Fit(c, "out", MissOf(c, req)) /\ MissOf(c, req).line = req.line
         /\ MissOf(c, req).left = req.left /\ MissOf(c, req).type # "wb"
         /\ req.type # "wb" /\ (c = "l1i" => req.type = "ifetch")
<1>1. req.type \in Types /\ (c = "l1i" => req.type = "ifetch") /\ req.type # "wb"
  BY DEF Allowed, Caches, Types
<1>2. CASE c \in L1s /\ req.type = "store"
  <2>1. PICK e : e = [req EXCEPT !.dirty = TRUE, !.type = "fetch"]
    OBVIOUS
  <2>2. /\ e \in Request /\ e.type = "fetch" /\ e.line = req.line /\ e.left = req.left
    BY <2>1 DEF Request, Kinds, Types
  <2>3. "fetch" \in Allowed(c, "out")
    BY <1>1, <1>2 DEF Allowed, Caches, Kinds, Types
  <2>. QED
    BY <1>1, <1>2, <2>1, <2>2, <2>3 DEF MissOf, Fit
<1>3. CASE ~(c \in L1s /\ req.type = "store")
  <2>1. MissOf(c, req) = req
    BY <1>3, Zenon DEF MissOf
  <2>2. req.type \in Allowed(c, "out")
    BY <1>1 DEF Allowed, Caches, Kinds, Types
  <2>. QED
    BY <1>1, <2>1, <2>2 DEF Fit
<1>. QED
  BY <1>2, <1>3

LEMMA InMovesOn ==
  ASSUME TypeInv, NEW c, NEW req, NEW rest, Taken(c, "in", req, rest), c # "dram",
         ProcessIn(c, req, rest)
  PROVE  /\ InMoves(c, req, rest, queue') /\ InStore(c, req, store')
         /\ req.type \in Types /\ (c = "l1i" => req.type = "ifetch")
         /\ MissOf(c, req).line = req.line /\ MissOf(c, req).left = req.left
         /\ MissOf(c, req).type # "wb"
         /\ done' = IF Holds(store[c], req.line) /\ c \in L1s THEN done + 1 ELSE done
         /\ unsaved' = IF Holds(store[c], req.line) /\ req.type = "store"
                       THEN unsaved \cup {req.line} ELSE unsaved
         /\ UNCHANGED wbInFlight
<1>1. /\ c \in Caches /\ c \in Components /\ req \in Request /\ req.line \in Nat /\ QueuesOK(rest)
      /\ req.type \in Allowed(c, "in") /\ (req.type = "ifetch" => req.dirty = FALSE) /\ req.type \in Kinds
  BY TakenParts
<1>2. /\ Fit(c, "out", MissOf(c, req)) /\ MissOf(c, req).line = req.line
      /\ MissOf(c, req).left = req.left /\ MissOf(c, req).type # "wb"
      /\ req.type # "wb" /\ (c = "l1i" => req.type = "ifetch")
  BY <1>1, MissFits
<1>3. req.type \in Types /\ "out" \in Queues
  BY <1>1, <1>2 DEF Kinds, Queues
<1>4. PICK a : a = LookedUp(c, req)
  OBVIOUS
<1>5. AccessOK(c, store[c], req.line, req.type, FALSE, a)
  <2>1. TagsOK(c, store[c])
    BY <1>1 DEF TypeInv, StoreOK
  <2>2. c = "l1i" => req.type \notin {"store", "wb"}
    BY <1>2
  <2>. QED
    BY <1>1, <1>4, <2>1, <2>2, AccessFacts DEF LookedUp
<1>6. a.hit = Holds(store[c], req.line)
  BY <1>5, Zenon DEF AccessOK
<1>7. /\ store' = [store EXCEPT ![c] = a.store]
      /\ queue' = CASE ~a.hit               -> Push(rest, c, "out", MissOf(c, req))
                    [] a.hit /\ c \in L1s   -> rest
                    [] a.hit /\ c = "l2"    -> Fill(rest, Above(req.type), req)
      /\ done' = IF a.hit /\ c \in L1s THEN done + 1 ELSE done
      /\ unsaved' = IF a.hit /\ req.type = "store" THEN unsaved \cup {req.line} ELSE unsaved
      /\ UNCHANGED wbInFlight
  BY <1>4, Zenon DEF ProcessIn, LookedUp, MissOf
<1>8. InMoves(c, req, rest, queue')
  <2>1. CASE ~a.hit
    <3>1. queue' = Push(rest, c, "out", MissOf(c, req))
      BY <1>7, <2>1, Zenon
    <3>2. Fed(rest, queue', c, "out", MissOf(c, req))
      BY <1>1, <1>2, <1>3, <3>1, Pushed, Zenon
    <3>. QED
      BY <1>6, <2>1, <3>2, Zenon DEF InMoves
  <2>2. CASE a.hit /\ c \in L1s
    <3>1. queue' = rest /\ c # "l2"
      BY <1>7, <2>2 DEF L1s
    <3>. QED
      BY <1>6, <2>2, <3>1, Zenon DEF InMoves
  <2>3. CASE a.hit /\ c = "l2"
    <3>1. queue' = Fill(rest, Above(req.type), req) /\ c \notin L1s
      BY <1>7, <2>3 DEF L1s
    <3>2. Fed(rest, queue', Above(req.type), "fill", Delayed(req, Above(req.type)))
      BY <1>1, <1>3, <3>1, AboveOf, Zenon
    <3>. QED
      BY <1>6, <2>3, <3>1, <3>2, Zenon DEF InMoves
  <2>4. c \in L1s \/ c = "l2"
    BY <1>1 DEF L1s
  <2>. QED
    BY <2>1, <2>2, <2>3, <2>4, Zenon
<1>. QED
  BY <1>2, <1>3, <1>4, <1>5, <1>6, <1>7, <1>8, Zenon DEF InStore


FillType(req) == IF req.dirty THEN "store" ELSE req.type
Inserted(c, req, type) == AccessStore(store[c], req.line, type, TRUE)

\* A write-back that l2 is filled with
LEMMA FillWriteBackMoves ==
  ASSUME TypeInv, NEW c, NEW req, NEW rest, Taken(c, "fill", req, rest), req.type = "wb",
         FillWriteBack(c, req, rest)
  PROVE  /\ c = "l2" /\ queue' = rest /\ UNCHANGED <<done, unsaved>>
         /\ store' = [store EXCEPT !["l2"] = Inserted("l2", req, "wb").store]
         /\ AccessOK("l2", store["l2"], req.line, "wb", TRUE, Inserted("l2", req, "wb"))
         /\ wbInFlight' = [wbInFlight EXCEPT !["l2"] = @ - 1]
<1>1. /\ c \in Components /\ req.type \in Allowed(c, "fill") /\ req.line \in Nat
  BY TakenParts
<1>2. c = "l2" /\ "l2" \in Caches
  BY <1>1 DEF Allowed, Components, Caches, Types
<1>3. AccessOK("l2", store["l2"], req.line, "wb", TRUE, Inserted("l2", req, "wb"))
  BY <1>1, <1>2, AccessFacts DEF Inserted, TypeInv, StoreOK
<1>. QED
  BY <1>2, <1>3, Zenon DEF FillWriteBack, Inserted

LEMMA FillL1Moves ==
  ASSUME TypeInv, NEW c, NEW req, NEW rest, Taken(c, "fill", req, rest), req.type # "wb",
         c \in L1s, FillL1(c, req, rest), NEW a, a = Inserted(c, req, FillType(req))
  PROVE  /\ Evicts(rest, queue', c, a, FALSE)
         /\ AccessOK(c, store[c], req.line, FillType(req), TRUE, a)
         /\ store' = [store EXCEPT ![c] = a.store]
         /\ wbInFlight' = IF HasNext(c) /\ a.dvictim # NoVictim
                          THEN [wbInFlight EXCEPT !["l2"] = @ + 1] ELSE wbInFlight
         /\ unsaved' = IF FillType(req) = "store" THEN unsaved \cup {req.line} ELSE unsaved
         /\ done' = done + 1
<1>1. /\ c \in Caches /\ c \in Components /\ req \in Request /\ req.line \in Nat /\ QueuesOK(rest)
      /\ req.type \in Allowed(c, "fill") /\ (req.type = "ifetch" => req.dirty = FALSE)
  BY TakenParts DEF L1s
<1>2. c = "l1i" => FillType(req) \notin {"store", "wb"}
  BY <1>1 DEF Allowed, FillType
<1>3. AccessOK(c, store[c], req.line, FillType(req), TRUE, a)
  BY <1>1, <1>2, AccessFacts DEF Inserted, TypeInv, StoreOK
<1>4. /\ a.victim \in Nat /\ a.dvictim \in Nat /\ (c = "l1i" => a.dvictim = NoVictim)
  BY <1>3, Zenon DEF AccessOK
<1>5. PICK copyDirty : copyDirty = FALSE
  OBVIOUS
<1>6. /\ store' = [store EXCEPT ![c] = a.store]
      /\ queue' = [rest EXCEPT ![c]["wb"] = @ \o Evicted(a, FALSE)]
      /\ wbInFlight' = IF HasNext(c) /\ a.dvictim # NoVictim
                       THEN [wbInFlight EXCEPT !["l2"] = @ + 1] ELSE wbInFlight
      /\ unsaved' = IF FillType(req) = "store" THEN unsaved \cup {req.line} ELSE unsaved
      /\ done' = done + 1
  BY Zenon DEF FillL1, Inserted, FillType
<1>7. Evicts(rest, queue', c, a, FALSE)
  BY <1>1, <1>4, <1>6, EvictedPushed
<1>. QED
  BY <1>3, <1>6, <1>7, Zenon

\* The store after a fill of l2: its victim is invalidated at level 1.
FillL2Store(a, s) ==
  s = [c \in Caches |-> CASE c = "l2" -> a.store
                          [] c \in {"l1d", "l1i"} /\ a.victim # NoVictim ->
                               BackInvalidate(store[c], a.victim)
                          [] OTHER -> store[c]]
CopyDirty(a) == a.victim # NoVictim /\ Dirty(store["l1d"], a.victim)

LEMMA FillL2Moves ==
  ASSUME TypeInv, NEW req, NEW rest, Taken("l2", "fill", req, rest), req.type # "wb",
         FillL2(req, rest), NEW a, a = Inserted("l2", req, req.type)
  PROVE  /\ \E mid : /\ QueuesOK(mid) /\ Evicts(rest, mid, "l2", a, CopyDirty(a))
                     /\ Fed(mid, queue', Above(req.type), "fill", Delayed(req, Above(req.type)))
         /\ Above(req.type) \in {"l1i", "l1d"}
         /\ AccessOK("l2", store["l2"], req.line, req.type, TRUE, a)
         /\ FillL2Store(a, store') /\ UNCHANGED <<wbInFlight, done, unsaved>>
<1>1. /\ req \in Request /\ req.line \in Nat /\ QueuesOK(rest) /\ req.type \in Types
      /\ (req.type = "ifetch" => req.dirty = FALSE) /\ "l2" \in Caches
  BY TakenParts DEF Kinds, Caches
<1>2. AccessOK("l2", store["l2"], req.line, req.type, TRUE, a)
  BY <1>1, AccessFacts DEF Inserted, TypeInv, StoreOK
<1>3. a.victim \in Nat /\ a.dvictim \in Nat
  BY <1>2, Zenon DEF AccessOK
<1>4. PICK copy : copy = CopyDirty(a)
  OBVIOUS
<1>5. PICK mid : mid = [rest EXCEPT !["l2"]["wb"] = @ \o Evicted(a, copy)]
  OBVIOUS
<1>6. /\ FillL2Store(a, store')
      /\ queue' = Fill(mid, Above(req.type), req)
      /\ UNCHANGED <<wbInFlight, done, unsaved>>
  BY <1>4, <1>5, Zenon DEF FillL2, FillL2Store, Inserted, CopyDirty
<1>7. Evicts(rest, mid, "l2", a, copy)
  BY <1>1, <1>3, <1>5, EvictedPushed
<1>8. QueuesOK(mid)
  BY <1>1, <1>7, Zenon DEF Evicts, Fed
<1>9. /\ Above(req.type) \in {"l1i", "l1d"}
      /\ Fed(mid, queue', Above(req.type), "fill", Delayed(req, Above(req.type)))
  BY <1>1, <1>6, <1>8, AboveOf, Zenon
<1>. QED
  BY <1>2, <1>4, <1>6, <1>7, <1>8, <1>9, Zenon

LEMMA MemoryInMoves ==
  ASSUME NEW req, NEW rest, Taken("dram", "in", req, rest), MemoryIn(req, rest)
  PROVE  IF req.type = "wb" THEN queue' = rest ELSE Fed(rest, queue', "dram", "out", req)
<1>1. /\ req \in Request /\ QueuesOK(rest) /\ req.type \in Kinds
      /\ (req.type = "ifetch" => req.dirty = FALSE)
  BY TakenParts
<1>2. "dram" \in Components /\ "out" \in Queues /\ Allowed("dram", "out") = Types
  BY DEF Components, Queues, Allowed
<1>3. CASE req.type = "wb"
  BY <1>3 DEF MemoryIn
<1>4. CASE req.type # "wb"
  <2>1. Fit("dram", "out", req)
    BY <1>1, <1>2, <1>4 DEF Fit, Kinds
  <2>2. queue' = Push(rest, "dram", "out", req)
    BY <1>4 DEF MemoryIn
  <2>3. Fed(rest, queue', "dram", "out", req)
    BY <1>1, <1>2, <2>1, <2>2, Pushed, Zenon
  <2>. QED
    BY <1>4, <2>3
<1>. QED
  BY <1>3, <1>4

LEMMA MemoryOutMoves ==
  ASSUME mode \in Modes, NEW req, NEW rest, Taken("dram", "out", req, rest), MemoryOut(req, rest)
  PROVE  /\ mode \in {"dram", "single", "multi"} /\ req.type # "wb"
         /\ mode = "dram" => queue' = rest
         /\ mode = "single" => Fed(rest, queue', "l1u", "fill", Delayed(req, "l1u"))
         /\ mode = "multi" => Fed(rest, queue', "l2", "fill", Delayed(req, "l2"))
<1>0. mode \in {"dram", "single", "multi"}
  BY GeometryAssumption
<1>1. /\ req \in Request /\ QueuesOK(rest) /\ req.type \in Allowed("dram", "out")
      /\ (req.type = "ifetch" => req.dirty = FALSE)
  BY TakenParts
<1>2. /\ "l1u" \in Components /\ "l2" \in Components /\ "fill" \in Queues
      /\ req.type \in Allowed("l1u", "fill") /\ req.type \in Allowed("l2", "fill") /\ req.type # "wb"
  BY <1>1 DEF Components, Caches, Queues, Allowed, Types, Kinds
<1>3. CASE mode = "dram"
  BY <1>2, <1>3 DEF MemoryOut
<1>4. CASE mode = "single"
  <2>1. queue' = Push(rest, "l1u", "fill", Delayed(req, "l1u"))
    BY <1>4 DEF MemoryOut, Fill
  <2>2. Fed(rest, queue', "l1u", "fill", Delayed(req, "l1u"))
    BY <1>1, <1>2, <2>1, DelayedPushed, Zenon
  <2>. QED
    BY <1>2, <1>4, <2>2
<1>5. CASE mode = "multi"
  <2>1. queue' = Push(rest, "l2", "fill", Delayed(req, "l2"))
    BY <1>5 DEF MemoryOut, Fill
  <2>2. Fed(rest, queue', "l2", "fill", Delayed(req, "l2"))
    BY <1>1, <1>2, <2>1, DelayedPushed, Zenon
  <2>. QED
    BY <1>2, <1>5, <2>2
<1>. QED
  BY <1>0, <1>3, <1>4, <1>5


-----------------------------------------------------------------------------
(* Types *)

\* What a handler changes has its type again.
Kept == /\ QueuesOK(queue') /\ StoreOK(store')
        /\ done' \in Nat /\ wbInFlight' \in [{"l2", "dram"} -> Int] /\ unsaved' \subseteq Nat

LEMMA StoreKept ==
  ASSUME NEW s, StoreOK(s), NEW c \in Caches, NEW new, TagsOK(c, new)
  PROVE  StoreOK([s EXCEPT ![c] = new])
  BY DEF StoreOK

LEMMA HandleKeeps ==
  ASSUME TypeInv, NEW c, NEW k, NEW req, NEW rest, Taken(c, k, req, rest), Handle(c, k, req, rest)
  PROVE  Kept
<1>1. /\ c \in Components /\ (c # "dram" => c \in Caches) /\ req.line \in Nat /\ QueuesOK(rest)
  BY TakenParts
<1>2. /\ StoreOK(store) /\ done \in Nat /\ wbInFlight \in [{"l2", "dram"} -> Int]
      /\ unsaved \subseteq Nat /\ mode \in Modes
  BY Zenon DEF TypeInv
<1>3. \A q, r, d, j, x : Fed(q, r, d, j, x) => QueuesOK(r)
  BY Zenon DEF Fed
<1>4. CASE c = "dram" /\ k = "in" /\ MemoryIn(req, rest)
  <2>1. QueuesOK(queue')
    <3>1. IF req.type = "wb" THEN queue' = rest ELSE Fed(rest, queue', "dram", "out", req)
      BY <1>4, MemoryInMoves
    <3>. QED
      BY <1>1, <1>3, <3>1, Zenon
  <2>2. UNCHANGED <<store, done>> /\ unsaved' \subseteq Nat
    BY <1>2, <1>4, Zenon DEF MemoryIn
  <2>3. wbInFlight' = wbInFlight \/ wbInFlight' = [wbInFlight EXCEPT !["dram"] = @ - 1]
    BY <1>4, Zenon DEF MemoryIn
  <2>4. wbInFlight' \in [{"l2", "dram"} -> Int]
    BY <1>2, <2>3
  <2>. QED
    BY <1>2, <2>1, <2>2, <2>4 DEF Kept
<1>5. CASE c = "dram" /\ k = "out" /\ MemoryOut(req, rest)
  <2>1. QueuesOK(queue')
    BY <1>1, <1>2, <1>3, <1>5, MemoryOutMoves
  <2>2. /\ UNCHANGED <<store, wbInFlight, unsaved>> /\ done' \in Nat
    BY <1>2, <1>5 DEF MemoryOut
  <2>. QED
    BY <1>2, <2>1, <2>2 DEF Kept
<1>6. CASE c # "dram" /\ k = "wb" /\ ProcessWb(c, req, rest)
  <2>1. QueuesOK(queue')
    BY <1>3, <1>6, WbMoves, SMTT(30)
  <2>. QED
    BY <1>2, <1>6, <2>1 DEF Kept, ProcessWb
<1>7. CASE c # "dram" /\ k = "out" /\ ProcessOut(c, req, rest)
  <2>1. QueuesOK(queue')
    BY <1>3, <1>7, OutMovesOn, Zenon DEF OutMoves
  <2>2. UNCHANGED <<store, done, unsaved>> /\ wbInFlight' \in [{"l2", "dram"} -> Int]
    BY <1>2, <1>7 DEF ProcessOut
  <2>. QED
    BY <1>2, <2>1, <2>2 DEF Kept
<1>8. CASE c # "dram" /\ k = "in" /\ ProcessIn(c, req, rest)
  <2>1. InMoves(c, req, rest, queue') /\ InStore(c, req, store')
    BY <1>8, InMovesOn
  <2>2. /\ done' = IF Holds(store[c], req.line) /\ c \in L1s THEN done + 1 ELSE done
        /\ unsaved' = IF Holds(store[c], req.line) /\ req.type = "store"
                      THEN unsaved \cup {req.line} ELSE unsaved
        /\ UNCHANGED wbInFlight
    BY <1>8, InMovesOn
  <2>3. c \in L1s \/ c = "l2"
    BY <1>1, <1>8 DEF L1s
  <2>4. QueuesOK(queue')
    BY <1>1, <1>3, <2>1, <2>3, Zenon DEF InMoves
  <2>5. StoreOK(store')
    <3>1. TagsOK(c, LookedUp(c, req).store)
      BY <2>1, Zenon DEF InStore, AccessOK
    <3>. QED
      BY <1>1, <1>2, <1>8, <2>1, <3>1, StoreKept, Zenon DEF InStore
  <2>6. done' \in Nat
    BY <1>2, <2>2
  <2>7. unsaved' \subseteq Nat
    BY <1>1, <1>2, <2>2
  <2>. QED
    BY <1>2, <2>2, <2>4, <2>5, <2>6, <2>7 DEF Kept
<1>9. CASE k = "fill" /\ req.type = "wb" /\ FillWriteBack(c, req, rest)
  <2>1. /\ queue' = rest /\ UNCHANGED <<done, unsaved>>
        /\ store' = [store EXCEPT !["l2"] = Inserted("l2", req, "wb").store]
        /\ AccessOK("l2", store["l2"], req.line, "wb", TRUE, Inserted("l2", req, "wb"))
        /\ wbInFlight' = [wbInFlight EXCEPT !["l2"] = @ - 1]
    BY <1>9, FillWriteBackMoves
  <2>2. StoreOK(store')
    <3>1. TagsOK("l2", Inserted("l2", req, "wb").store) /\ "l2" \in Caches
      BY <2>1 DEF AccessOK, Caches
    <3>. QED
      BY <1>2, <2>1, <3>1, StoreKept, Zenon
  <2>3. wbInFlight' \in [{"l2", "dram"} -> Int]
    BY <1>2, <2>1
  <2>. QED
    BY <1>1, <1>2, <2>1, <2>2, <2>3 DEF Kept
<1>10. CASE k = "fill" /\ req.type # "wb" /\ c \in L1s /\ FillL1(c, req, rest)
  <2>1. PICK a : a = Inserted(c, req, FillType(req))
    OBVIOUS
  <2>2. /\ Evicts(rest, queue', c, a, FALSE)
        /\ AccessOK(c, store[c], req.line, FillType(req), TRUE, a)
        /\ store' = [store EXCEPT ![c] = a.store]
        /\ wbInFlight' = IF HasNext(c) /\ a.dvictim # NoVictim
                         THEN [wbInFlight EXCEPT !["l2"] = @ + 1] ELSE wbInFlight
        /\ unsaved' = IF FillType(req) = "store" THEN unsaved \cup {req.line} ELSE unsaved
        /\ done' = done + 1
    BY <1>10, <2>1, FillL1Moves, ZenonT(40)
  <2>3. QueuesOK(queue')
    BY <1>1, <1>3, <2>2, Zenon DEF Evicts
  <2>4. StoreOK(store')
    <3>1. TagsOK(c, a.store) /\ c \in Caches
      BY <1>10, <2>2 DEF AccessOK, L1s
    <3>. QED
      BY <1>2, <2>2, <3>1, StoreKept, Zenon
  <2>5. done' \in Nat /\ unsaved' \subseteq Nat
    <3>1. unsaved' = unsaved \/ unsaved' = unsaved \cup {req.line}
      BY <2>2, Zenon
    <3>2. done' = done + 1
      BY <2>2, Zenon
    <3>3. req.line \in Nat /\ done \in Nat /\ unsaved \subseteq Nat
      BY <1>1, <1>2, Zenon
    <3>4. unsaved' \subseteq Nat
      BY <3>1, <3>3, Zenon
    <3>. QED
      BY <3>2, <3>3, <3>4
  <2>6. wbInFlight' = wbInFlight \/ wbInFlight' = [wbInFlight EXCEPT !["l2"] = @ + 1]
    BY <2>2, Zenon
  <2>7. wbInFlight' \in [{"l2", "dram"} -> Int]
    BY <1>2, <2>6
  <2>. QED
    BY <2>3, <2>4, <2>5, <2>7 DEF Kept
<1>11. CASE k = "fill" /\ req.type # "wb" /\ c = "l2" /\ FillL2(req, rest)
  <2>1. PICK a : a = Inserted("l2", req, req.type)
    OBVIOUS
  <2>2. /\ \E mid : Fed(mid, queue', Above(req.type), "fill", Delayed(req, Above(req.type)))
        /\ AccessOK("l2", store["l2"], req.line, req.type, TRUE, a)
        /\ FillL2Store(a, store') /\ UNCHANGED <<wbInFlight, done, unsaved>>
    BY <1>11, <2>1, FillL2Moves, Zenon
  <2>3. QueuesOK(queue')
    BY <1>3, <2>2, Zenon
  <2>4. StoreOK(store')
    <3>1. TagsOK("l2", a.store) /\ a.victim \in Nat
      BY <2>2, Zenon DEF AccessOK
    <3>2. \A d \in {"l1i", "l1d"} : TagsOK(d, BackInvalidate(store[d], a.victim))
      <4>1. \A d \in {"l1i", "l1d"} : TagsOK(d, store[d])
        BY <1>2 DEF StoreOK, Caches
      <4>. QED
        BY <3>1, <4>1, BackInvalidateFacts
    <3>3. ASSUME NEW d \in Caches
          PROVE  TagsOK(d, store'[d])
      <4>1. CASE d = "l2"
        BY <2>2, <3>1, <4>1 DEF FillL2Store
      <4>2. CASE d \in {"l1i", "l1d"} /\ a.victim # NoVictim
        <5>1. store'[d] = BackInvalidate(store[d], a.victim)
          BY <2>2, <4>2 DEF FillL2Store
        <5>. QED
          BY <3>2, <4>2, <5>1
      <4>3. CASE ~(d = "l2") /\ ~(d \in {"l1i", "l1d"} /\ a.victim # NoVictim)
        <5>1. store'[d] = store[d]
          BY <2>2, <4>3 DEF FillL2Store
        <5>. QED
          BY <1>2, <5>1 DEF StoreOK
      <4>. QED
        BY <4>1, <4>2, <4>3
    <3>4. DOMAIN store' = Caches
      BY <2>2 DEF FillL2Store
    <3>. QED
      BY <3>3, <3>4 DEF StoreOK
  <2>. QED
    BY <1>2, <2>2, <2>3, <2>4 DEF Kept
<1>. QED
  BY <1>4, <1>5, <1>6, <1>7, <1>8, <1>9, <1>10, <1>11, Zenon DEF Handle


LEMMA EmptyTags ==
  ASSUME NEW c \in Caches
  PROVE  TagsOK(c, EmptyStore(Sets[c], Assoc[c])) /\ \A l \in Nat : ~Holds(EmptyStore(Sets[c], Assoc[c]), l)
<1>1. PICK empty : empty = [valid |-> FALSE, dirty |-> FALSE, line |-> 0]
  OBVIOUS
<1>2. PICK set : set = [entry |-> [w \in Ways(c) |-> empty], lru |-> <<>>]
  OBVIOUS
<1>3. PICK s : s = [i \in 0..Sets[c] - 1 |-> set]
  OBVIOUS
<1>4. EmptyStore(Sets[c], Assoc[c]) = s
  BY <1>1, <1>2, <1>3 DEF EmptyStore, Ways
<1>5. empty \in Entry /\ empty.valid = FALSE /\ empty.dirty = FALSE
  BY <1>1 DEF Entry
<1>6. /\ set \in TagSet(c) /\ set.lru = <<>> /\ DOMAIN set.entry = Ways(c)
      /\ \A w \in Ways(c) : set.entry[w] = empty
  <2>1. /\ set.lru = <<>> /\ set.entry = [w \in Ways(c) |-> empty]
        /\ set = [entry |-> set.entry, lru |-> set.lru]
    BY <1>2
  <2>2. <<>> \in Seq(Ways(c))
    OBVIOUS
  <2>3. set.entry \in [Ways(c) -> Entry]
    BY <1>5, <2>1
  <2>. QED
    BY <2>1, <2>2, <2>3 DEF TagSet
<1>7. Valid(set) = {}
  BY <1>5, <1>6 DEF Valid, Invalid
<1>8. LruOK(c, set)
  <2>1. ToSet(set.lru) = {} /\ Len(set.lru) = 0
    BY <1>6 DEF ToSet
  <2>2. Cardinality(Valid(set)) = 0
    BY <1>7, FS_EmptySet
  <2>. QED
    BY <1>7, <2>1, <2>2 DEF LruOK
<1>9. TagsOK(c, s)
  <2>1. \A i \in 0..Sets[c] - 1 : SetOK(c, i, set)
    BY <1>5, <1>6, <1>8 DEF SetOK
  <2>. QED
    BY <1>3, <1>6, <2>1 DEF TagsOK
<1>10. ASSUME NEW l \in Nat
       PROVE  ~Holds(s, l)
  <2>1. /\ l % Sets[c] \in 0..Sets[c] - 1
        /\ Holds(s, l) <=> (\E w \in Ways(c) : HasEntry(c, s, l, w))
    BY <1>9, TagsLookup, Lookup
  <2>2. \A w \in Ways(c) : ~HasEntry(c, s, l, w)
    BY <1>3, <1>5, <1>6, <2>1 DEF HasEntry
  <2>. QED
    BY <2>1, <2>2
<1>. QED
  BY <1>4, <1>9, <1>10

NoRequests == [c \in Components |-> [k \in Queues |-> <<>>]]

LEMMA EmptyQueues ==
  ASSUME NEW q, q = NoRequests
  PROVE  /\ QueuesOK(q) /\ \A c \in Components : \A k \in Queues : In(q, c, k) = {}
         /\ \A ps \in SUBSET Places : \A ts : Spots(q, ps, ts) = {}
<1>1. \A c \in Components : \A k \in Queues : q[c][k] = <<>>
  BY DEF NoRequests
<1>2. q \in QueuesType
  BY DEF QueuesType, NoRequests
<1>3. \A c \in Components : \A k \in Queues : In(q, c, k) = {}
  BY <1>1 DEF In
<1>4. ASSUME NEW ps \in SUBSET Places, NEW ts, NEW s \in Spots(q, ps, ts)
      PROVE  FALSE
  <2>1. s \in ps \X Nat
    BY <1>2, <1>4, SpotsOf
  <2>2. PICK c \in Components, k \in Queues, i \in Nat : s = <<<<c, k>>, i>>
    BY <2>1 DEF Places
  <2>3. i \in 1..Len(q[c][k])
    BY <1>2, <1>4, <2>2, SpotsOf
  <2>. QED
    BY <1>1, <2>3
<1>5. \A ps \in SUBSET Places : \A ts : Spots(q, ps, ts) = {}
  BY <1>4
<1>6. Bounded(q)
  <2>1. Spots(q, Places, Kinds) = {}
    BY <1>5
  <2>. QED
    BY <2>1, FS_EmptySet DEF Bounded
<1>7. KindsOK(q)
  BY <1>3 DEF KindsOK
<1>. QED
  BY <1>2, <1>3, <1>5, <1>6, <1>7 DEF QueuesOK

LEMMA InitTypes == Init => TypeInv
<1>. SUFFICES ASSUME Init PROVE TypeInv
  OBVIOUS
<1>1. /\ mode \in Modes /\ single \in Singles /\ ended = FALSE /\ at = 0
      /\ store = [c \in Caches |-> EmptyStore(Sets[c], Assoc[c])]
      /\ queue = NoRequests
      /\ inFlight = 0 /\ done = 0
      /\ wbInFlight = [c \in {"l2", "dram"} |-> 0]
      /\ unsaved = {}
  BY DEF Init, NoRequests
<1>2. QueuesOK(queue)
  BY <1>1, EmptyQueues
<1>3. StoreOK(store)
  BY <1>1, EmptyTags DEF StoreOK
<1>4. Final \in Nat /\ at \in 0..Final /\ Due(queue, at)
  <2>1. Final \in Nat
    BY <1>1, FinalType
  <2>. QED
    BY <1>1, <2>1 DEF Due
<1>5. inFlight \in Int /\ done \in Nat /\ wbInFlight \in [{"l2", "dram"} -> Int]
  <2>1. inFlight = 0 /\ done = 0 /\ wbInFlight = [c \in {"l2", "dram"} |-> 0]
    BY <1>1, Zenon
  <2>. QED
    BY <2>1
<1>6. ended \in BOOLEAN /\ unsaved \subseteq Nat
  <2>1. ended = FALSE /\ unsaved = {}
    BY <1>1, Zenon
  <2>. QED
    BY <2>1
<1>. QED
  BY <1>1, <1>2, <1>3, <1>4, <1>5, <1>6, Zenon DEF TypeInv

\* A request that is issued
LEMMA IssueMoves ==
  ASSUME TypeInv, NEW a \in Accesses[single], Issue(a[1], a[2])
  PROVE  /\ a[1] \in Nat /\ a[2] \in Types /\ Top(a[2]) \in Components
         /\ NewRequest(a[1], a[2]).line = a[1] /\ NewRequest(a[1], a[2]).type = a[2]
         /\ NewRequest(a[1], a[2]).left = 0 /\ NewRequest(a[1], a[2]) \in Request
         /\ Fed(queue, queue', Top(a[2]), "in", Delayed(NewRequest(a[1], a[2]), Top(a[2])))
         /\ mode = "multi" => Top(a[2]) \in {"l1i", "l1d"}
<1>1. a \in Nat \X Types /\ mode \in Modes /\ mode \in {"dram", "single", "multi"} /\ QueuesOK(queue)
  BY GeometryAssumption DEF TypeInv
<1>2. a[1] \in Nat /\ a[2] \in Types
  BY <1>1
<1>3. PICK req, c : req = NewRequest(a[1], a[2]) /\ c = Top(a[2])
  OBVIOUS
<1>4. /\ req \in Request /\ req.line = a[1] /\ req.type = a[2] /\ req.dirty = FALSE /\ req.left = 0
  BY <1>2, <1>3 DEF NewRequest, Request, Kinds
<1>5. /\ c \in Components /\ (mode = "multi" => c \in {"l1i", "l1d"}) /\ "in" \in Queues
      /\ a[2] \in Allowed(c, "in")
  <2>1. \/ mode = "dram" /\ c = "dram"
        \/ mode = "single" /\ c = "l1u"
        \/ mode = "multi" /\ c = (IF a[2] = "ifetch" THEN "l1i" ELSE "l1d")
    BY <1>1, <1>3 DEF Top, Above
  <2>. QED
    BY <1>2, <2>1 DEF Components, Caches, Queues, Allowed, Types, Kinds
<1>6. queue' = Push(queue, c, "in", Delayed(req, c))
  BY <1>3, Zenon DEF Issue, Access
<1>7. Fed(queue, queue', c, "in", Delayed(req, c))
  BY <1>1, <1>4, <1>5, <1>6, DelayedPushed
<1>. QED
  BY <1>2, <1>3, <1>4, <1>5, <1>7, Zenon


LEMMA DueLater ==
  ASSUME UNCHANGED mode, mode \in Modes, queue' \in QueuesType, NEW i \in 1..Final,
         at' = NextPlace(queue', i)
  PROVE  /\ at' \in i..Final /\ at' \in 0..Final' /\ Due(queue, at)'
         /\ \A j \in i..at' - 1 : Idle(queue', j)
<1>1. PICK q, p : q = queue' /\ p = at'
  OBVIOUS
<1>2. p \in i..Final /\ Due(q, p) /\ \A j \in i..p - 1 : Idle(q, j)
  BY <1>1, NextPlaceFacts
<1>3. Final' = Final /\ Final \in Nat
  BY FinalType DEF Final
<1>4. Due(queue, at)'
  BY <1>1, <1>2 DEF Due, Final
<1>. QED
  BY <1>1, <1>2, <1>3, <1>4

\* The steps that start a cycle without a request
Idling == /\ at = 0 /\ at' = NextPlace(queue, 1)
          /\ UNCHANGED <<mode, single, ended, store, queue, inFlight, wbInFlight, done, unsaved>>

LEMMA NextCases ==
  ASSUME Next
  PROVE  \/ \E a \in Accesses[single] : Issue(a[1], a[2])
         \/ Idling
         \/ EndTrace
         \/ Process
         \/ EndCycle
         \/ UNCHANGED vars
  BY Zenon DEF Next, Cycle, Skip, Wait, Drain, Idling, MayRead

LEMMA NextTypes == TypeInv /\ [Next]_vars => TypeInv'
<1>. SUFFICES ASSUME TypeInv, [Next]_vars PROVE TypeInv'
  OBVIOUS
<1>0. /\ mode \in Modes /\ single \in Singles /\ ended \in BOOLEAN
      /\ at \in 0..Final /\ StoreOK(store) /\ QueuesOK(queue) /\ queue \in QueuesType
      /\ inFlight \in Int /\ done \in Nat /\ wbInFlight \in [{"l2", "dram"} -> Int]
      /\ unsaved \subseteq Nat /\ Final \in Nat /\ 1 \in 1..Final
  BY FinalType DEF TypeInv, QueuesOK
<1>1. ASSUME NEW a \in Accesses[single], Issue(a[1], a[2])
      PROVE  TypeInv'
  <2>1. QueuesOK(queue') /\ queue' \in QueuesType
    BY <1>1, IssueMoves, Zenon DEF Fed, QueuesOK
  <2>2. /\ at' = NextPlace(queue', 1) /\ inFlight' = inFlight + 1
        /\ UNCHANGED <<mode, single, ended, store, wbInFlight, done, unsaved>>
    BY <1>1, Zenon DEF Issue
  <2>3. at' \in 0..Final' /\ Due(queue, at)'
    BY <1>0, <2>1, <2>2, DueLater
  <2>4. inFlight' \in Int
    BY <1>0, <2>2
  <2>. QED
    BY <1>0, <2>1, <2>2, <2>3, <2>4, Zenon DEF TypeInv
<1>2. CASE Idling
  <2>1. at' \in 0..Final' /\ Due(queue, at)'
    BY <1>0, <1>2, DueLater, Zenon DEF Idling
  <2>. QED
    BY <1>0, <1>2, <2>1, Zenon DEF TypeInv, Idling
<1>3. CASE EndTrace
  <2>1. /\ ended' = TRUE /\ ended' \in BOOLEAN
        /\ UNCHANGED <<mode, single, at, store, queue, inFlight, wbInFlight, done, unsaved>>
    BY <1>3 DEF EndTrace
  <2>2. Final' = Final /\ Due(queue, at)'
    BY <2>1 DEF Final, Due, TypeInv
  <2>. QED
    BY <1>0, <2>1, <2>2, Zenon DEF TypeInv
<1>4. CASE Process
  <2>1. /\ \E c, k, req, rest : Taken(c, k, req, rest) /\ Handle(c, k, req, rest)
        /\ at' = NextPlace(queue', at) /\ UNCHANGED <<mode, single, ended, inFlight>>
    BY <1>4, ProcessTakes
  <2>2. Kept /\ queue' \in QueuesType
    <3>1. Kept
      BY <2>1, HandleKeeps, Zenon
    <3>. QED
      BY <3>1, Zenon DEF Kept, QueuesOK
  <2>3. at \in 1..Final
    <3>1. at \in 1..Final - 1
      BY <1>4, Zenon DEF Process
    <3>. QED
      BY <1>0, <3>1
  <2>4. at' \in 0..Final' /\ Due(queue, at)'
    BY <1>0, <2>1, <2>2, <2>3, DueLater
  <2>. QED
    BY <1>0, <2>1, <2>2, <2>4, Zenon DEF TypeInv, Kept
<1>5. CASE EndCycle
  <2>1. /\ at' = 0 /\ inFlight' = inFlight - done /\ done' = 0 /\ queue' = TickedQueues(queue)
        /\ UNCHANGED <<mode, single, ended, store, wbInFlight, unsaved>>
    BY <1>5, Zenon DEF EndCycle, TickedQueues
  <2>2. Ticked(queue, queue')
    BY <1>0, <2>1, TickFacts
  <2>3. QueuesOK(queue')
    <3>1. queue' \in QueuesType /\ Bounded(queue')
      BY <1>0, <2>2 DEF Ticked, Bounded, QueuesOK
    <3>2. ASSUME NEW c \in Components, NEW k \in Queues, NEW r \in In(queue', c, k)
          PROVE  r.type \in Allowed(c, k) /\ (r.type = "ifetch" => r.dirty = FALSE)
      <4>1. PICK x \in In(queue, c, k) : r = Sooner(x)
        BY <2>2, <3>2 DEF Ticked
      <4>2. x \in Request
        BY <1>0, InOf
      <4>3. r.type = x.type /\ r.dirty = x.dirty
        BY <4>1, <4>2, SoonerOf
      <4>. QED
        BY <1>0, <4>3, Zenon DEF QueuesOK, KindsOK
    <3>. QED
      BY <3>1, <3>2, Zenon DEF QueuesOK, KindsOK
  <2>4. Final' = Final /\ Due(queue, at)' /\ at' \in 0..Final'
    BY <1>0, <2>1 DEF Final, Due
  <2>5. inFlight' \in Int /\ done' \in Nat
    BY <1>0, <2>1
  <2>. QED
    BY <1>0, <2>1, <2>3, <2>4, <2>5, Zenon DEF TypeInv
<1>6. CASE UNCHANGED vars
  <2>1. UNCHANGED <<mode, single, ended, at, store, queue, inFlight, wbInFlight, done, unsaved>>
    BY <1>6 DEF vars
  <2>2. Final' = Final /\ Due(queue, at)'
    BY <2>1 DEF Final, Due, TypeInv
  <2>. QED
    BY <1>0, <2>1, <2>2, Zenon DEF TypeInv
<1>. QED
  BY <1>1, <1>2, <1>3, <1>4, <1>5, <1>6, NextCases

LEMMA Typed == Spec => []TypeInv
  BY InitTypes, NextTypes, PTL DEF Spec

\* Every valid way is in its set's LRU list and, where nothing is invalidated
\* from below, the list holds the valid ways and no other: cache_base_c finds
\* the way of a hit and the way to evict there without checking.
THEOREM ListsWays == Spec => []LruListsWays
<1>1. TypeInv => LruListsWays
  <2>. SUFFICES ASSUME TypeInv, NEW c \in Caches, NEW s \in DOMAIN store[c]
                PROVE  LET valid == DOMAIN store[c][s].entry \ Invalid(store[c][s])
                           lru   == store[c][s].lru
                       IN  /\ valid \subseteq ToSet(lru)
                           /\ c \in {"l2", "l1u"} => ToSet(lru) = valid /\ Len(lru) = Cardinality(valid)
    BY Zenon DEF LruListsWays
  <2>1. TagsOK(c, store[c])
    BY DEF TypeInv, StoreOK
  <2>2. s \in 0..Sets[c] - 1
    BY <2>1, TagsLookup
  <2>3. LruOK(c, store[c][s])
    BY <2>1, <2>2 DEF TagsOK, SetOK
  <2>. QED
    BY <2>3, Zenon DEF LruOK, Valid
<1>. QED
  BY <1>1, Typed, PTL


-----------------------------------------------------------------------------
(* The lists of what is in flight *)

\* A handler moves the lists along with the requests.
Balanced ==
  /\ done' + Demands(queue') = done + Demands(queue)
  /\ wbInFlight'["dram"] - AtMemory(queue') = wbInFlight["dram"] - AtMemory(queue)
  /\ mode = "multi" =>
       wbInFlight'["l2"] - TowardsL2(queue') = wbInFlight["l2"] - TowardsL2(queue)

LEMMA FedNumbers ==
  ASSUME NEW q, QueuesOK(q), NEW r, NEW c \in Components, NEW k \in Queues, NEW req,
         Fed(q, r, c, k, req)
  PROVE  Numbers(q, r, c, k, req)
<1>1. q \in QueuesType /\ req \in Request /\ More(q, r, c, k, req)
  BY Zenon DEF QueuesOK, Fed, Fit
<1>. QED
  BY <1>1, NumbersOf

LEMMA HandleBalances ==
  ASSUME TypeInv, NEW c, NEW k, NEW req, NEW rest, Taken(c, k, req, rest), Handle(c, k, req, rest)
  PROVE  Balanced
<1>1. /\ c \in Components /\ k \in Queues /\ (c # "dram" => c \in Caches) /\ req.line \in Nat
      /\ QueuesOK(rest) /\ req \in Request /\ req.type \in Allowed(c, k)
  BY TakenParts
<1>2. /\ done \in Nat /\ wbInFlight \in [{"l2", "dram"} -> Int] /\ mode \in Modes
      /\ wbInFlight["dram"] \in Int /\ wbInFlight["l2"] \in Int
  BY DEF TypeInv
<1>3. Numbers(rest, queue, c, k, req)
  <2>1. rest \in QueuesType /\ More(rest, queue, c, k, req)
    BY Zenon DEF QueuesOK, Taken
  <2>. QED
    BY <1>1, <2>1, NumbersOf
<1>4. (mode = "multi" => c # "l1u") /\ (k = "fill" => c # "dram")
  BY Zenon DEF Taken, Scheduled
<1>5. /\ "in" \in Queues /\ "out" \in Queues /\ "wb" \in Queues /\ "fill" \in Queues
      /\ \A x \in {"dram", "l2", "l1u", "l1i", "l1d"} : x \in Components
  BY DEF Queues, Components, Caches
<1>6. CASE c = "dram" /\ k = "in" /\ MemoryIn(req, rest)
  <2>0. UNCHANGED done
    BY <1>6, Zenon DEF MemoryIn
  <2>1. CASE req.type = "wb"
    <3>1. queue' = rest /\ wbInFlight' = [wbInFlight EXCEPT !["dram"] = @ - 1]
      BY <1>6, <2>1 DEF MemoryIn
    <3>. QED
      BY <1>2, <1>3, <1>6, <2>0, <2>1, <3>1 DEF Numbers, Balanced, BelowL1
  <2>2. CASE req.type # "wb"
    <3>1. Fed(rest, queue', "dram", "out", req)
      BY <1>6, <2>2, MemoryInMoves
    <3>2. Numbers(rest, queue', "dram", "out", req)
      BY <1>1, <1>5, <3>1, FedNumbers
    <3>3. UNCHANGED wbInFlight
      BY <1>6, <2>2, Zenon DEF MemoryIn
    <3>. QED
      BY <1>2, <1>3, <1>6, <2>0, <2>2, <3>2, <3>3 DEF Numbers, Balanced, BelowL1
  <2>. QED
    BY <2>1, <2>2
<1>7. CASE c = "dram" /\ k = "out" /\ MemoryOut(req, rest)
  <2>1. /\ mode \in {"dram", "single", "multi"} /\ req.type # "wb"
        /\ mode = "dram" => queue' = rest
        /\ mode = "single" => Fed(rest, queue', "l1u", "fill", Delayed(req, "l1u"))
        /\ mode = "multi" => Fed(rest, queue', "l2", "fill", Delayed(req, "l2"))
    BY <1>2, <1>7, MemoryOutMoves
  <2>2. UNCHANGED wbInFlight /\ done' = IF mode = "dram" THEN done + 1 ELSE done
    BY <1>7, Zenon DEF MemoryOut
  <2>3. CASE mode = "dram"
    BY <1>2, <1>3, <1>7, <2>1, <2>2, <2>3 DEF Numbers, Balanced
  <2>4. ASSUME NEW d \in {"l1u", "l2"}, Fed(rest, queue', d, "fill", Delayed(req, d)), mode # "dram"
        PROVE  Balanced
    <3>1. Numbers(rest, queue', d, "fill", Delayed(req, d))
      BY <1>1, <1>5, <2>4, FedNumbers
    <3>2. Delayed(req, d).type = req.type
      BY <1>1, <1>5, DelayedOf
    <3>. QED
      BY <1>2, <1>3, <1>7, <2>1, <2>2, <2>4, <3>1, <3>2 DEF Numbers, Balanced
  <2>. QED
    BY <2>1, <2>3, <2>4
<1>8. CASE c # "dram" /\ k = "wb" /\ ProcessWb(c, req, rest)
  <2>1. Fed(rest, queue', c, "out", req)
    BY <1>8, WbMoves
  <2>2. Numbers(rest, queue', c, "out", req)
    BY <1>1, <1>5, <2>1, FedNumbers
  <2>3. UNCHANGED <<wbInFlight, done>>
    BY <1>8, Zenon DEF ProcessWb
  <2>. QED
    BY <1>2, <1>3, <1>8, <2>2, <2>3 DEF Numbers, Balanced, BelowL1
<1>9. CASE c # "dram" /\ k = "out" /\ ProcessOut(c, req, rest)
  <2>1. OutMoves(c, req, rest, queue')
    BY <1>9, OutMovesOn
  <2>2. /\ UNCHANGED done
        /\ wbInFlight' = IF ~HasNext(c) /\ req.type = "wb"
                         THEN [wbInFlight EXCEPT !["dram"] = @ + 1] ELSE wbInFlight
    BY <1>9, Zenon DEF ProcessOut
  <2>3. \A d \in {"dram", "l2"} : Delayed(req, d).type = req.type
    BY <1>1, <1>5, DelayedOf
  <2>4. CASE ~HasNext(c)
    <3>1. Numbers(rest, queue', "dram", "in", Delayed(req, "dram"))
      BY <1>1, <1>5, <2>1, <2>4, FedNumbers DEF OutMoves
    <3>2. mode = "multi" => c = "l2"
      BY <1>1, <1>9, <2>4 DEF HasNext, L1s
    <3>3. CASE req.type = "wb"
      <4>1. wbInFlight' = [wbInFlight EXCEPT !["dram"] = @ + 1]
        BY <2>2, <2>4, <3>3, Zenon
      <4>. QED
        BY <1>2, <1>3, <1>9, <2>2, <2>3, <3>1, <3>2, <3>3, <4>1 DEF Numbers, Balanced, BelowL1
    <3>4. CASE req.type # "wb"
      <4>1. wbInFlight' = wbInFlight
        BY <2>2, <2>4, <3>4, Zenon
      <4>. QED
        BY <1>2, <1>3, <1>9, <2>2, <2>3, <3>1, <3>2, <3>4, <4>1 DEF Numbers, Balanced, BelowL1
    <3>. QED
      BY <3>3, <3>4
  <2>5. CASE HasNext(c)
    <3>1. \E j \in {"in", "fill"} : /\ Fed(rest, queue', "l2", j, Delayed(req, "l2"))
                                    /\ (req.type = "wb" => j = "fill")
      BY <2>1, <2>5, Zenon DEF OutMoves
    <3>2. PICK j \in {"in", "fill"} : /\ Fed(rest, queue', "l2", j, Delayed(req, "l2"))
                                      /\ (req.type = "wb" => j = "fill")
      BY <3>1
    <3>3. Numbers(rest, queue', "l2", j, Delayed(req, "l2"))
      BY <1>1, <1>5, <3>2, FedNumbers
    <3>4. c \in {"l1d", "l1i"}
      BY <1>1, <1>4, <2>5 DEF HasNext, L1s, Caches
    <3>5. wbInFlight' = wbInFlight
      BY <2>2, <2>5, Zenon
    <3>. QED
      BY <1>2, <1>3, <1>9, <2>2, <2>3, <3>2, <3>3, <3>4, <3>5 DEF Numbers, Balanced, BelowL1
  <2>. QED
    BY <2>4, <2>5

<1>10. CASE c # "dram" /\ k = "in" /\ ProcessIn(c, req, rest)
  <2>1. /\ InMoves(c, req, rest, queue') /\ req.type \in Types /\ MissOf(c, req).type # "wb"
        /\ done' = IF Holds(store[c], req.line) /\ c \in L1s THEN done + 1 ELSE done
        /\ UNCHANGED wbInFlight
    BY <1>10, InMovesOn
  <2>2. req.type # "wb" /\ (c \in L1s \/ c = "l2") /\ (c \in L1s => c # "l2")
    BY <1>1, <1>10, <2>1 DEF L1s, Types
  <2>3. CASE ~Holds(store[c], req.line)
    <3>1. Numbers(rest, queue', c, "out", MissOf(c, req))
      BY <1>1, <1>5, <2>1, <2>3, FedNumbers DEF InMoves
    <3>2. done' = done
      BY <2>1, <2>3, Zenon
    <3>. QED
      BY <1>2, <1>3, <1>10, <2>1, <2>2, <3>1, <3>2 DEF Numbers, Balanced
  <2>4. CASE Holds(store[c], req.line) /\ c \in L1s
    <3>1. queue' = rest /\ done' = done + 1
      BY <2>1, <2>4, Zenon DEF InMoves
    <3>. QED
      BY <1>2, <1>3, <1>10, <2>1, <2>2, <3>1 DEF Numbers, Balanced
  <2>5. CASE Holds(store[c], req.line) /\ c = "l2"
    <3>1. PICK d : d = Above(req.type)
      OBVIOUS
    <3>2. Fed(rest, queue', d, "fill", Delayed(req, d)) /\ done' = done
      BY <2>1, <2>2, <2>5, <3>1, Zenon DEF InMoves
    <3>3. d \in Components /\ d \in {"l1i", "l1d"}
      BY <1>5, <3>1 DEF Above
    <3>4. Numbers(rest, queue', d, "fill", Delayed(req, d)) /\ Delayed(req, d).type = req.type
      BY <1>1, <1>5, <3>2, <3>3, FedNumbers, DelayedOf
    <3>. QED
      BY <1>2, <1>3, <1>10, <2>1, <2>2, <3>2, <3>4 DEF Numbers, Balanced
  <2>. QED
    BY <2>2, <2>3, <2>4, <2>5
<1>11. CASE k = "fill" /\ req.type = "wb" /\ FillWriteBack(c, req, rest)
  <2>1. /\ c = "l2" /\ queue' = rest /\ UNCHANGED done
        /\ wbInFlight' = [wbInFlight EXCEPT !["l2"] = @ - 1]
    BY <1>11, FillWriteBackMoves
  <2>. QED
    BY <1>2, <1>3, <1>11, <2>1 DEF Numbers, Balanced, BelowL1
<1>12. CASE k = "fill" /\ req.type # "wb" /\ c \in L1s /\ FillL1(c, req, rest)
  <2>1. PICK a : a = Inserted(c, req, FillType(req))
    OBVIOUS
  <2>2. /\ Evicts(rest, queue', c, a, FALSE)
        /\ AccessOK(c, store[c], req.line, FillType(req), TRUE, a)
        /\ wbInFlight' = IF HasNext(c) /\ a.dvictim # NoVictim
                         THEN [wbInFlight EXCEPT !["l2"] = @ + 1] ELSE wbInFlight
        /\ done' = done + 1
    BY <1>12, <2>1, FillL1Moves, ZenonT(40)
  <2>3. c \in {"l1u", "l1i", "l1d"}
    BY <1>12 DEF L1s, Caches
  <2>4. CASE a.dvictim # NoVictim
    <3>1. Fed(rest, queue', c, "wb", WriteBack(a.dvictim)) /\ a.dvictim \in Nat
      BY <2>2, <2>4, Zenon DEF Evicts, AccessOK
    <3>2. Numbers(rest, queue', c, "wb", WriteBack(a.dvictim)) /\ WriteBack(a.dvictim).type = "wb"
      BY <1>1, <1>5, <3>1, FedNumbers, WriteBackOf
    <3>3. CASE mode = "multi"
      <4>1. HasNext(c)
        BY <1>12, <3>3 DEF HasNext
      <4>2. wbInFlight' = [wbInFlight EXCEPT !["l2"] = @ + 1]
        BY <2>2, <2>4, <4>1, Zenon
      <4>3. BelowL1(c, "wb")
        BY <1>4, <2>3, <3>3 DEF BelowL1
      <4>. QED
        BY <1>2, <1>3, <1>12, <2>2, <2>3, <3>2, <4>2, <4>3 DEF Numbers, Balanced
    <3>4. CASE mode # "multi"
      <4>1. ~HasNext(c)
        BY <3>4 DEF HasNext
      <4>2. wbInFlight' = wbInFlight
        BY <2>2, <4>1, Zenon
      <4>. QED
        BY <1>2, <1>3, <1>12, <2>2, <2>3, <3>2, <3>4, <4>2 DEF Numbers, Balanced
    <3>. QED
      BY <3>3, <3>4
  <2>5. CASE a.dvictim = NoVictim
    <3>1. queue' = rest /\ wbInFlight' = wbInFlight
      BY <2>2, <2>5, Zenon DEF Evicts
    <3>. QED
      BY <1>2, <1>3, <1>12, <2>2, <3>1 DEF Numbers, Balanced
  <2>. QED
    BY <2>4, <2>5
<1>13. CASE k = "fill" /\ req.type # "wb" /\ c = "l2" /\ FillL2(req, rest)
  <2>1. PICK a : a = Inserted("l2", req, req.type)
    OBVIOUS
  <2>2. /\ \E mid : /\ QueuesOK(mid) /\ Evicts(rest, mid, "l2", a, CopyDirty(a))
                    /\ Fed(mid, queue', Above(req.type), "fill", Delayed(req, Above(req.type)))
        /\ Above(req.type) \in {"l1i", "l1d"}
        /\ AccessOK("l2", store["l2"], req.line, req.type, TRUE, a)
        /\ UNCHANGED <<wbInFlight, done>>
    BY <1>13, <2>1, FillL2Moves, Zenon
  <2>3. PICK mid, d : /\ QueuesOK(mid) /\ Evicts(rest, mid, "l2", a, CopyDirty(a))
                      /\ d = Above(req.type) /\ Fed(mid, queue', d, "fill", Delayed(req, d))
    BY <2>2, Zenon
  <2>4. Numbers(mid, queue', d, "fill", Delayed(req, d)) /\ Delayed(req, d).type = req.type
    BY <1>1, <1>5, <2>2, <2>3, FedNumbers, DelayedOf
  <2>5. mid = rest \/ \E l \in Nat : Fed(rest, mid, "l2", "wb", WriteBack(l))
    <3>1. a.victim \in Nat /\ a.dvictim \in Nat
      BY <2>2, Zenon DEF AccessOK
    <3>. QED
      BY <2>3, <3>1, Zenon DEF Evicts
  <2>6. CASE mid = rest
    BY <1>2, <1>3, <1>13, <2>2, <2>4, <2>6 DEF Numbers, Balanced, BelowL1
  <2>7. ASSUME NEW l \in Nat, Fed(rest, mid, "l2", "wb", WriteBack(l))
        PROVE  Balanced
    <3>1. Numbers(rest, mid, "l2", "wb", WriteBack(l)) /\ WriteBack(l).type = "wb"
      BY <1>1, <1>5, <2>7, FedNumbers, WriteBackOf
    <3>. QED
      BY <1>2, <1>3, <1>13, <2>2, <2>4, <3>1 DEF Numbers, Balanced, BelowL1
  <2>. QED
    BY <2>5, <2>6, <2>7
<1>. QED
  BY <1>6, <1>7, <1>8, <1>9, <1>10, <1>11, <1>12, <1>13, Zenon DEF Handle


Tallied ==
  /\ inFlight = done + Demands(queue)
  /\ wbInFlight["dram"] = AtMemory(queue)
  /\ mode = "multi" => wbInFlight["l2"] = TowardsL2(queue)

\* With single_request, the next request waits for the one in flight.
OneAtATime == single => inFlight <= 1

LEMMA AccountedIsTallied == RequestsAccounted <=> Tallied
  BY Zenon DEF RequestsAccounted, Tallied, Demands, AtMemory, TowardsL2, Count, Places

LEMMA InitTallies == Init => Tallied /\ OneAtATime
<1>. SUFFICES ASSUME Init PROVE Tallied /\ OneAtATime
  OBVIOUS
<1>1. queue = NoRequests
  BY DEF Init, NoRequests
<1>2. inFlight = 0 /\ done = 0 /\ wbInFlight = [c \in {"l2", "dram"} |-> 0]
  BY DEF Init
<1>3. /\ Places \in SUBSET Places /\ {"dram"} \X Queues \in SUBSET Places /\ FromL1 \in SUBSET Places
  BY DEF Places, FromL1, Components, Caches, Queues
<1>4. Demands(queue) = 0 /\ AtMemory(queue) = 0 /\ TowardsL2(queue) = 0
  BY <1>1, <1>3, EmptyQueues, FS_EmptySet DEF Demands, AtMemory, TowardsL2, Count
<1>. QED
  BY <1>2, <1>4 DEF Tallied, OneAtATime

LEMMA NextTallies ==
  TypeInv /\ Tallied /\ OneAtATime /\ [Next]_vars => Tallied' /\ OneAtATime'
<1>. SUFFICES ASSUME TypeInv, Tallied, OneAtATime, [Next]_vars PROVE Tallied' /\ OneAtATime'
  OBVIOUS
<1>0. /\ QueuesOK(queue) /\ inFlight \in Int /\ done \in Nat
      /\ wbInFlight["dram"] \in Int /\ wbInFlight["l2"] \in Int /\ single \in BOOLEAN
  BY GeometryAssumption DEF TypeInv
<1>8. ASSUME NEW q, QueuesOK(q)
      PROVE  Demands(q) \in Nat /\ AtMemory(q) \in Nat /\ TowardsL2(q) \in Nat
  <2>1. /\ Places \in SUBSET Places /\ {"dram"} \X Queues \in SUBSET Places /\ FromL1 \in SUBSET Places
        /\ Types \in SUBSET Kinds /\ {"wb"} \in SUBSET Kinds
    BY DEF Places, FromL1, Components, Caches, Queues, Kinds
  <2>. QED
    BY <1>8, <2>1, SpotsBounded, Zenon DEF QueuesOK, Demands, AtMemory, TowardsL2
<1>9. ASSUME /\ inFlight' = done' + Demands(queue')
             /\ wbInFlight'["dram"] = AtMemory(queue')
             /\ mode' = "multi" => wbInFlight'["l2"] = TowardsL2(queue')
             /\ single' => inFlight' <= 1
      PROVE  Tallied' /\ OneAtATime'
  BY <1>9, Zenon DEF Tallied, OneAtATime
<1>1. ASSUME NEW a \in Accesses[single], Issue(a[1], a[2])
      PROVE  Tallied' /\ OneAtATime'
  <2>1. PICK c, req : c = Top(a[2]) /\ req = Delayed(NewRequest(a[1], a[2]), Top(a[2]))
    OBVIOUS
  <2>2. Fed(queue, queue', c, "in", req) /\ c \in Components /\ req.type \in Types /\ "in" \in Queues
    BY <1>1, <2>1, IssueMoves, DelayedOf DEF Queues
  <2>3. Numbers(queue, queue', c, "in", req) /\ req.type # "wb"
    BY <1>0, <2>2, FedNumbers DEF Types
  <2>4. inFlight' = inFlight + 1 /\ UNCHANGED <<mode, single, wbInFlight, done>>
        /\ (single => inFlight = 0)
    BY <1>1, Zenon DEF Issue, MayRead
  <2>. QED
    BY <1>0, <1>9, <2>3, <2>4 DEF Tallied, OneAtATime, Numbers
<1>2. CASE UNCHANGED <<mode, single, queue, inFlight, wbInFlight, done>>
  BY <1>2, <1>9 DEF Tallied, OneAtATime
<1>3. CASE Process
  <2>1. /\ \E c, k, req, rest : Taken(c, k, req, rest) /\ Handle(c, k, req, rest)
        /\ UNCHANGED <<mode, single, inFlight>>
    BY <1>3, ProcessTakes, Zenon
  <2>2. Balanced
    BY <2>1, HandleBalances, Zenon
  <2>3. Kept
    BY <2>1, HandleKeeps, Zenon
  <2>4. /\ done' \in Nat /\ wbInFlight'["dram"] \in Int /\ wbInFlight'["l2"] \in Int
        /\ Demands(queue') \in Nat /\ AtMemory(queue') \in Nat /\ TowardsL2(queue') \in Nat
        /\ Demands(queue) \in Nat /\ AtMemory(queue) \in Nat /\ TowardsL2(queue) \in Nat
    <3>2. QueuesOK(queue') /\ done' \in Nat /\ wbInFlight' \in [{"l2", "dram"} -> Int]
      BY <2>3 DEF Kept
    <3>. QED
      BY <1>0, <1>8, <3>2
  <2>5. inFlight' = done' + Demands(queue')
    <3>1. inFlight' = inFlight /\ inFlight = done + Demands(queue)
      BY <2>1, Zenon DEF Tallied
    <3>. QED
      BY <1>0, <2>2, <2>4, <3>1 DEF Balanced
  <2>6. wbInFlight'["dram"] = AtMemory(queue')
    <3>1. /\ wbInFlight["dram"] = AtMemory(queue)
          /\ wbInFlight'["dram"] - AtMemory(queue') = wbInFlight["dram"] - AtMemory(queue)
      BY <2>2, Zenon DEF Tallied, Balanced
    <3>. QED
      BY <1>0, <2>4, <3>1
  <2>7. ASSUME mode = "multi"
        PROVE  wbInFlight'["l2"] = TowardsL2(queue')
    <3>1. /\ wbInFlight["l2"] = TowardsL2(queue)
          /\ wbInFlight'["l2"] - TowardsL2(queue') = wbInFlight["l2"] - TowardsL2(queue)
      BY <2>2, <2>7, Zenon DEF Tallied, Balanced
    <3>. QED
      BY <1>0, <2>4, <3>1
  <2>8. mode' = mode /\ (single' => inFlight' <= 1)
    BY <2>1, Zenon DEF OneAtATime
  <2>. QED
    BY <1>9, <2>5, <2>6, <2>7, <2>8, Zenon
<1>4. CASE EndCycle
  <2>1. /\ inFlight' = inFlight - done /\ done' = 0 /\ queue' = TickedQueues(queue)
        /\ UNCHANGED <<mode, single, wbInFlight>>
    BY <1>4, Zenon DEF EndCycle, TickedQueues
  <2>2. Ticked(queue, queue')
    BY <1>0, <2>1, TickFacts, Zenon DEF QueuesOK
  <2>3. /\ Places \in SUBSET Places /\ {"dram"} \X Queues \in SUBSET Places /\ FromL1 \in SUBSET Places
    BY DEF Places, FromL1, Components, Caches, Queues
  <2>4. /\ Demands(queue') = Demands(queue) /\ AtMemory(queue') = AtMemory(queue)
        /\ TowardsL2(queue') = TowardsL2(queue)
    BY <2>2, <2>3, Zenon DEF Ticked, Demands, AtMemory, TowardsL2, Count
  <2>5. inFlight' = done' + Demands(queue')
    <3>1. inFlight = done + Demands(queue) /\ Demands(queue) \in Nat
      BY <1>0, <1>8, Zenon DEF Tallied
    <3>. QED
      BY <1>0, <2>1, <2>4, <3>1
  <2>6. single' => inFlight' <= 1
    <3>1. inFlight <= 1 => inFlight' <= 1
      BY <1>0, <2>1
    <3>. QED
      BY <2>1, <3>1, Zenon DEF OneAtATime
  <2>. QED
    BY <1>9, <2>1, <2>4, <2>5, <2>6, Zenon DEF Tallied
<1>5. Idling \/ EndTrace \/ UNCHANGED vars => UNCHANGED <<mode, single, queue, inFlight, wbInFlight, done>>
  BY Zenon DEF Idling, EndTrace, vars
<1>. QED
  BY <1>1, <1>2, <1>3, <1>4, <1>5, NextCases, Zenon

\* Every request is in one queue or done, and the two lists of write-backs in
\* flight are what is in the queues: the simulator ends when they are empty.
THEOREM AllAccountedFor == Spec => []RequestsAccounted
<1>1. Init => TypeInv /\ Tallied /\ OneAtATime
  BY InitTypes, InitTallies
<1>2. TypeInv /\ Tallied /\ OneAtATime /\ [Next]_vars => (TypeInv /\ Tallied /\ OneAtATime)'
  BY NextTypes, NextTallies
<1>3. Spec => [](TypeInv /\ Tallied /\ OneAtATime)
  BY <1>1, <1>2, PTL DEF Spec
<1>. QED
  BY <1>3, AccountedIsTallied, PTL

-----------------------------------------------------------------------------
(* Two levels of caches with one request in flight at a time: L2 holds what  *)
(* level 1 holds, and no store is lost.  For every geometry, every latency   *)
(* and every trace without line 0, which the code takes for "no victim" when *)
(* it evicts.                                                                *)

\* Only the lines that the code can evict: not the one at address 0.
NoLineZero == \A s \in Singles : \A a \in Accesses[s] : a[1] # NoVictim

-----------------------------------------------------------------------------
(* What travels where *)

OnlyWbs(rs) == \A r \in rs : r.type = "wb"
NoWb(rs)    == \A r \in rs : r.type # "wb"
NoDemand(q) == \A c \in Components : \A k \in Queues : OnlyWbs(In(q, c, k))

\* A write-back leaves l1d and arrives at l2; a request comes from above l2,
\* and is late when l2 has looked its line up.
Leaving(q)  == In(q, "l1d", "wb") \cup In(q, "l1d", "out")
Arriving(q) == In(q, "l2", "fill")
AboveL2(q)  == UNION {In(q, "l1i", "in"), In(q, "l1i", "out"),
                      In(q, "l1d", "in"), In(q, "l1d", "out")}
Upwards(q)  == In(q, "l1i", "fill") \cup In(q, "l1d", "fill")
Late(q)     == UNION {In(q, "l2", "out"), In(q, "dram", "in"), In(q, "dram", "out"),
                      In(q, "l2", "fill"), Upwards(q)}

Included(s) == \A c \in {"l1i", "l1d"} : \A l \in Nat : Holds(s[c], l) => Holds(s["l2"], l)

\* What goes down to l2, or up to level 1, l2 holds.
Covered(s, q) ==
  /\ \A w \in Leaving(q) \cup Arriving(q) : w.type = "wb" => Holds(s["l2"], w.line)
  /\ \A d \in Upwards(q) : Holds(s["l2"], d.line)

\* Before a request that is late, there are no write-backs.
Clear(q) == OnlyWbs(Late(q)) \/ NoWb(Leaving(q) \cup Arriving(q))

\* The write-backs are ready at l2 before the request is.
InTime(q) ==
  /\ \A w \in Leaving(q) : w.type = "wb" =>
       /\ w.left <= 0
       /\ \A d \in AboveL2(q) : d.type # "wb" => w.left <= d.left
       /\ \A d \in In(q, "l2", "in") : d.type # "wb" => w.left + Latency["l2"] <= d.left
  /\ \A w \in Arriving(q) : w.type = "wb" =>
       /\ w.left <= Latency["l2"]
       /\ \A d \in AboveL2(q) : d.type # "wb" => w.left <= d.left + Latency["l2"]
       /\ \A d \in In(q, "l2", "in") : d.type # "wb" => w.left <= d.left

\* Once their queue has been processed, they have moved on.
Passed(q, i) ==
  /\ i \in {5, 6} => \A r \in Arriving(q) : ~(r.left <= 0)
  /\ i \in {12, 13, 14, 15} => NoDemand(q) \/ NoWb(In(q, "l1d", "wb"))
  /\ i \in {14, 15} => NoDemand(q) \/ NoWb(In(q, "l1d", "out"))
  /\ OnlyWbs(In(q, "l1d", "out") \cup In(q, "l2", "in")) \/ NoWb(Leaving(q))
  /\ i \in {10, 11, 12, 13} \/ OnlyWbs(In(q, "l1i", "out")) \/ NoWb(Leaving(q))

Flows(q, i) == Clear(q) /\ InTime(q) /\ Passed(q, i)

\* What makes L2 include level 1
Inclusion ==
  mode = "multi" /\ single => Included(store) /\ Covered(store, queue) /\ Flows(queue, at)

\* No line is 0.
LinesOK(q) == \A c \in Components : \A k \in Queues : \A r \in In(q, c, k) : r.line # NoVictim
NonZero ==
  /\ LinesOK(queue)
  /\ \A c \in Caches : ~Holds(store[c], NoVictim)
  /\ NoVictim \notin unsaved


LEMMA FedLines ==
  ASSUME NEW q, LinesOK(q), NEW r, NEW c \in Components, NEW k \in Queues, NEW req,
         Fed(q, r, c, k, req), req.line # NoVictim
  PROVE  LinesOK(r)
<1>1. Adds(q, r, c, k, req)
  BY Zenon DEF Fed, More
<1>2. ASSUME NEW d \in Components, NEW j \in Queues, NEW x \in In(r, d, j)
      PROVE  x.line # NoVictim
  <2>1. x = req \/ x \in In(q, d, j)
    BY <1>1, <1>2, Zenon DEF Adds
  <2>. QED
    BY <2>1, Zenon DEF LinesOK
<1>. QED
  BY <1>2, Zenon DEF LinesOK

\* The requests that are left are among those there were.
LEMMA RestLess ==
  ASSUME NEW c, NEW k, NEW req, NEW rest, Taken(c, k, req, rest)
  PROVE  /\ \A d \in Components : \A j \in Queues : In(rest, d, j) \subseteq In(queue, d, j)
         /\ Adds(rest, queue, c, k, req)
<1>1. Adds(rest, queue, c, k, req)
  BY Zenon DEF Taken, More
<1>2. ASSUME NEW d \in Components, NEW j \in Queues, NEW x \in In(rest, d, j)
      PROVE  x \in In(queue, d, j)
  BY <1>1, <1>2, Zenon DEF Adds
<1>. QED
  BY <1>1, <1>2, Zenon

\* A cache that looks a line up, or takes it in
LEMMA NoZeroTag ==
  ASSUME NEW c, NEW s, ~Holds(s, NoVictim), NEW line, NEW type, NEW isFill, NEW a,
         AccessOK(c, s, line, type, isFill, a), line # NoVictim
  PROVE  ~Holds(a.store, NoVictim)
  BY Zenon DEF AccessOK, NoVictim

LEMMA HandleNonZero ==
  ASSUME TypeInv, NonZero,
         NEW c, NEW k, NEW req, NEW rest, Taken(c, k, req, rest), Handle(c, k, req, rest)
  PROVE  NonZero'
<1>1. /\ c \in Components /\ k \in Queues /\ (c # "dram" => c \in Caches) /\ req \in Request
      /\ req.line \in Nat /\ QueuesOK(rest)
  BY TakenParts
<1>2. LinesOK(rest) /\ req.line # NoVictim
  <2>1. LinesOK(queue) /\ req \in In(queue, c, k)
    BY Zenon DEF NonZero, Taken
  <2>. QED
    BY <1>1, <2>1, RestLess, Zenon DEF LinesOK
<1>3. /\ DOMAIN store = Caches /\ (\A d \in Caches : ~Holds(store[d], NoVictim))
      /\ NoVictim \notin unsaved /\ mode \in Modes
  BY Zenon DEF TypeInv, NonZero, StoreOK
<1>4. /\ "in" \in Queues /\ "out" \in Queues /\ "wb" \in Queues /\ "fill" \in Queues
      /\ \A x \in {"dram", "l2", "l1u", "l1i", "l1d"} : x \in Components
      /\ \A x \in {"l2", "l1u", "l1i", "l1d"} : x \in Caches
  BY DEF Queues, Components, Caches
<1>5. \A d \in Components : Delayed(req, d).line = req.line
  BY <1>1, DelayedOf
<1>6. ASSUME LinesOK(queue'), \A d \in Caches : ~Holds(store'[d], NoVictim),
             unsaved' \subseteq unsaved \cup {req.line}
      PROVE  NonZero'
  BY <1>2, <1>3, <1>6, Zenon DEF NonZero
<1>7. ASSUME NEW d \in Caches, NEW s, s = store', NEW new, s = [store EXCEPT ![d] = new],
             ~Holds(new, NoVictim)
      PROVE  \A e \in Caches : ~Holds(s[e], NoVictim)
  <2>1. \A e \in Caches : s[e] = IF e = d THEN new ELSE store[e]
    BY <1>3, <1>7
  <2>. QED
    BY <1>3, <1>7, <2>1
<1>10. CASE c = "dram" /\ k = "in" /\ MemoryIn(req, rest)
  <2>1. UNCHANGED store /\ unsaved' \subseteq unsaved
    BY <1>10, Zenon DEF MemoryIn
  <2>2. IF req.type = "wb" THEN queue' = rest ELSE Fed(rest, queue', "dram", "out", req)
    BY <1>10, MemoryInMoves
  <2>3. LinesOK(queue')
    BY <1>2, <1>4, <2>2, FedLines, Zenon
  <2>. QED
    BY <1>3, <1>6, <2>1, <2>3, Zenon
<1>11. CASE c = "dram" /\ k = "out" /\ MemoryOut(req, rest)
  <2>1. UNCHANGED <<store, unsaved>>
    BY <1>11, Zenon DEF MemoryOut
  <2>2. queue' = rest \/ \E d \in {"l1u", "l2"} : Fed(rest, queue', d, "fill", Delayed(req, d))
    BY <1>3, <1>11, MemoryOutMoves
  <2>3. LinesOK(queue')
    BY <1>2, <1>4, <1>5, <2>2, FedLines
  <2>. QED
    BY <1>3, <1>6, <2>1, <2>3, Zenon
<1>12. CASE c # "dram" /\ k = "wb" /\ ProcessWb(c, req, rest)
  <2>1. UNCHANGED <<store, unsaved>>
    BY <1>12, Zenon DEF ProcessWb
  <2>2. Fed(rest, queue', c, "out", req)
    BY <1>12, WbMoves
  <2>3. LinesOK(queue')
    BY <1>1, <1>2, <1>4, <2>2, FedLines, Zenon
  <2>. QED
    BY <1>3, <1>6, <2>1, <2>3, Zenon
<1>13. CASE c # "dram" /\ k = "out" /\ ProcessOut(c, req, rest)
  <2>1. UNCHANGED <<store, unsaved>>
    BY <1>13, Zenon DEF ProcessOut
  <2>2. \E d \in {"dram", "l2"}, j \in Queues : Fed(rest, queue', d, j, Delayed(req, d))
    <3>1. OutMoves(c, req, rest, queue')
      BY <1>13, OutMovesOn
    <3>. QED
      BY <1>4, <3>1 DEF OutMoves
  <2>3. LinesOK(queue')
    BY <1>2, <1>4, <1>5, <2>2, FedLines
  <2>. QED
    BY <1>3, <1>6, <2>1, <2>3, Zenon
<1>14. CASE c # "dram" /\ k = "in" /\ ProcessIn(c, req, rest)
  <2>1. /\ InMoves(c, req, rest, queue') /\ InStore(c, req, store') /\ MissOf(c, req).line = req.line
        /\ unsaved' = IF Holds(store[c], req.line) /\ req.type = "store"
                      THEN unsaved \cup {req.line} ELSE unsaved
    BY <1>14, InMovesOn
  <2>2. Above(req.type) \in Components
    BY <1>4 DEF Above
  <2>3. \/ queue' = rest
        \/ Fed(rest, queue', c, "out", MissOf(c, req))
        \/ Fed(rest, queue', Above(req.type), "fill", Delayed(req, Above(req.type)))
    <3>1. c \in L1s \/ c = "l2"
      BY <1>1, <1>14 DEF L1s
    <3>. QED
      BY <2>1, <3>1, Zenon DEF InMoves
  <2>4. LinesOK(queue')
    BY <1>1, <1>2, <1>4, <1>5, <2>1, <2>2, <2>3, FedLines, Zenon
  <2>5. ~Holds(LookedUp(c, req).store, NoVictim) /\ store' = [store EXCEPT ![c] = LookedUp(c, req).store]
    BY <1>1, <1>2, <1>3, <1>14, <2>1, NoZeroTag, Zenon DEF InStore
  <2>6. \A e \in Caches : ~Holds(store'[e], NoVictim)
    BY <1>1, <1>7, <1>14, <2>5
  <2>7. unsaved' \subseteq unsaved \cup {req.line}
    <3>1. unsaved' = unsaved \/ unsaved' = unsaved \cup {req.line}
      BY <2>1, Zenon
    <3>. QED
      BY <3>1
  <2>. QED
    BY <1>6, <2>4, <2>6, <2>7
<1>15. CASE k = "fill" /\ req.type = "wb" /\ FillWriteBack(c, req, rest)
  <2>1. /\ queue' = rest /\ UNCHANGED <<done, unsaved>>
        /\ store' = [store EXCEPT !["l2"] = Inserted("l2", req, "wb").store]
        /\ AccessOK("l2", store["l2"], req.line, "wb", TRUE, Inserted("l2", req, "wb"))
    BY <1>15, FillWriteBackMoves
  <2>2. ~Holds(Inserted("l2", req, "wb").store, NoVictim)
    BY <1>2, <1>3, <1>4, <2>1, NoZeroTag, Zenon
  <2>3. \A e \in Caches : ~Holds(store'[e], NoVictim)
    BY <1>4, <1>7, <2>1, <2>2
  <2>. QED
    BY <1>2, <1>6, <2>1, <2>3
<1>16. CASE k = "fill" /\ req.type # "wb" /\ c \in L1s /\ FillL1(c, req, rest)
  <2>1. PICK a : a = Inserted(c, req, FillType(req))
    OBVIOUS
  <2>2. /\ Evicts(rest, queue', c, a, FALSE)
        /\ AccessOK(c, store[c], req.line, FillType(req), TRUE, a)
        /\ store' = [store EXCEPT ![c] = a.store]
        /\ unsaved' = IF FillType(req) = "store" THEN unsaved \cup {req.line} ELSE unsaved
    BY <1>16, <2>1, FillL1Moves
  <2>3. c \in Caches
    BY <1>16 DEF L1s
  <2>4. LinesOK(queue')
    <3>1. a.dvictim \in Nat
      BY <2>2, Zenon DEF AccessOK
    <3>2. WriteBack(a.dvictim).line = a.dvictim
      BY <3>1, WriteBackOf
    <3>. QED
      BY <1>1, <1>2, <1>4, <2>2, <3>2, FedLines, Zenon DEF Evicts
  <2>5. ~Holds(a.store, NoVictim)
    BY <1>2, <1>3, <2>2, <2>3, NoZeroTag, Zenon
  <2>6. \A e \in Caches : ~Holds(store'[e], NoVictim)
    BY <1>7, <2>2, <2>3, <2>5
  <2>7. unsaved' \subseteq unsaved \cup {req.line}
    <3>1. unsaved' = unsaved \/ unsaved' = unsaved \cup {req.line}
      BY <2>2, Zenon
    <3>. QED
      BY <3>1
  <2>. QED
    BY <1>6, <2>4, <2>6, <2>7
<1>17. CASE k = "fill" /\ req.type # "wb" /\ c = "l2" /\ FillL2(req, rest)
  <2>1. PICK a : a = Inserted("l2", req, req.type)
    OBVIOUS
  <2>2. /\ \E mid : /\ QueuesOK(mid) /\ Evicts(rest, mid, "l2", a, CopyDirty(a))
                    /\ Fed(mid, queue', Above(req.type), "fill", Delayed(req, Above(req.type)))
        /\ AccessOK("l2", store["l2"], req.line, req.type, TRUE, a)
        /\ FillL2Store(a, store') /\ UNCHANGED unsaved
    BY <1>17, <2>1, FillL2Moves, Zenon
  <2>3. PICK mid, d : /\ QueuesOK(mid) /\ Evicts(rest, mid, "l2", a, CopyDirty(a))
                      /\ d = Above(req.type) /\ Fed(mid, queue', d, "fill", Delayed(req, d))
    BY <2>2, Zenon
  <2>4. d \in Components
    BY <1>4, <2>3 DEF Above
  <2>5. a.dvictim \in Nat /\ a.victim \in Nat
    BY <2>2, Zenon DEF AccessOK
  <2>6. WriteBack(a.dvictim).line = a.dvictim /\ WriteBack(a.victim).line = a.victim
    BY <2>5, WriteBackOf
  <2>7. LinesOK(mid)
    BY <1>2, <1>4, <2>3, <2>6, FedLines, Zenon DEF Evicts, CopyDirty
  <2>8. LinesOK(queue')
    <3>1. Delayed(req, d).line # NoVictim
      BY <1>2, <1>5, <2>4, Zenon
    <3>. QED
      BY <1>4, <2>3, <2>4, <2>7, <3>1, FedLines, Zenon
  <2>9. ~Holds(a.store, NoVictim)
    BY <1>2, <1>3, <1>4, <2>2, NoZeroTag, Zenon
  <2>10. ASSUME NEW e \in Caches
         PROVE  ~Holds(store'[e], NoVictim)
    <3>1. CASE e = "l2"
      BY <2>2, <2>9, <3>1 DEF FillL2Store
    <3>2. CASE e \in {"l1d", "l1i"} /\ a.victim # NoVictim
      <4>1. store'[e] = BackInvalidate(store[e], a.victim)
        BY <2>2, <3>2 DEF FillL2Store
      <4>2. TagsOK(e, store[e]) /\ NoVictim \in Nat
        BY DEF TypeInv, StoreOK, NoVictim
      <4>3. Holds(BackInvalidate(store[e], a.victim), NoVictim) => Holds(store[e], NoVictim)
        BY <2>5, <3>2, <4>2, BackInvalidateFacts
      <4>. QED
        BY <1>3, <4>1, <4>3
    <3>3. CASE e # "l2" /\ ~(e \in {"l1d", "l1i"} /\ a.victim # NoVictim)
      <4>1. store'[e] = store[e]
        BY <2>2, <3>3 DEF FillL2Store
      <4>. QED
        BY <1>3, <4>1
    <3>. QED
      BY <3>1, <3>2, <3>3
  <2>. QED
    BY <1>6, <2>2, <2>8, <2>10
<1>. QED
  BY <1>10, <1>11, <1>12, <1>13, <1>14, <1>15, <1>16, <1>17, Zenon DEF Handle

LEMMA InitNonZero == Init => NonZero
<1>. SUFFICES ASSUME Init PROVE NonZero
  OBVIOUS
<1>1. /\ store = [c \in Caches |-> EmptyStore(Sets[c], Assoc[c])]
      /\ queue = NoRequests /\ unsaved = {}
  BY Zenon DEF Init, NoRequests
<1>2. LinesOK(queue)
  BY <1>1, EmptyQueues, Zenon DEF LinesOK
<1>3. \A c \in Caches : ~Holds(store[c], NoVictim)
  <2>1. NoVictim \in Nat
    BY DEF NoVictim
  <2>2. \A c \in Caches : store[c] = EmptyStore(Sets[c], Assoc[c])
    BY <1>1, Zenon
  <2>. QED
    BY <2>1, <2>2, EmptyTags, Zenon
<1>4. NoVictim \notin unsaved
  BY <1>1
<1>. QED
  BY <1>2, <1>3, <1>4, Zenon DEF NonZero

LEMMA NextNonZero ==
  ASSUME NoLineZero
  PROVE  TypeInv /\ NonZero /\ [Next]_vars => NonZero'
<1>. SUFFICES ASSUME TypeInv, NonZero, [Next]_vars PROVE NonZero'
  OBVIOUS
<1>0. QueuesOK(queue) /\ queue \in QueuesType /\ single \in Singles
  BY Zenon DEF TypeInv, QueuesOK
<1>1. ASSUME NEW a \in Accesses[single], Issue(a[1], a[2])
      PROVE  NonZero'
  <2>1. PICK c, req : c = Top(a[2]) /\ req = Delayed(NewRequest(a[1], a[2]), Top(a[2]))
    OBVIOUS
  <2>2. /\ Fed(queue, queue', c, "in", req) /\ c \in Components /\ "in" \in Queues
        /\ req.line = a[1]
    BY <1>1, <2>1, IssueMoves, DelayedOf DEF Queues
  <2>3. req.line # NoVictim
    BY <1>0, <2>2, Zenon DEF NoLineZero
  <2>4. LinesOK(queue')
    BY <2>2, <2>3, FedLines, Zenon DEF NonZero
  <2>5. UNCHANGED <<store, unsaved>>
    BY <1>1, Zenon DEF Issue
  <2>. QED
    BY <2>4, <2>5, Zenon DEF NonZero
<1>2. CASE UNCHANGED <<store, queue, unsaved>>
  BY <1>2, Zenon DEF NonZero, LinesOK, In
<1>3. CASE Process
  BY <1>3, ProcessTakes, HandleNonZero, Zenon
<1>4. CASE EndCycle
  <2>1. queue' = TickedQueues(queue) /\ UNCHANGED <<store, unsaved>>
    BY <1>4, Zenon DEF EndCycle, TickedQueues
  <2>2. Ticked(queue, queue')
    BY <1>0, <2>1, TickFacts
  <2>3. ASSUME NEW c \in Components, NEW k \in Queues, NEW r \in In(queue', c, k)
        PROVE  r.line # NoVictim
    <3>1. PICK x \in In(queue, c, k) : r = Sooner(x)
      BY <2>2, <2>3 DEF Ticked
    <3>2. x \in Request
      BY <1>0, InOf
    <3>3. r.line = x.line
      BY <3>1, <3>2, SoonerOf
    <3>. QED
      BY <3>3, Zenon DEF NonZero, LinesOK
  <2>. QED
    BY <2>1, <2>3, Zenon DEF NonZero, LinesOK
<1>5. Idling \/ EndTrace \/ UNCHANGED vars => UNCHANGED <<store, queue, unsaved>>
  BY Zenon DEF Idling, EndTrace, vars
<1>. QED
  BY <1>1, <1>2, <1>3, <1>4, <1>5, NextCases, Zenon

-----------------------------------------------------------------------------
(* How the requests flow *)

\* Where a request that joins the queues is seen, and what was there before
Joins(q, r, c, k, req) ==
  /\ \A x \in Leaving(r) : x \in Leaving(q) \/ (x = req /\ c = "l1d" /\ k \in {"wb", "out"})
  /\ \A x \in Arriving(r) : x \in Arriving(q) \/ (x = req /\ c = "l2" /\ k = "fill")
  /\ \A x \in AboveL2(r) :
       x \in AboveL2(q) \/ (x = req /\ c \in {"l1i", "l1d"} /\ k \in {"in", "out"})
  /\ \A x \in Upwards(r) : x \in Upwards(q) \/ (x = req /\ c \in {"l1i", "l1d"} /\ k = "fill")
  /\ \A x \in Late(r) :
       \/ x \in Late(q)
       \/ /\ x = req
          /\ \/ c = "l2" /\ k \in {"out", "fill"}
             \/ c = "dram" /\ k \in {"in", "out"}
             \/ c \in {"l1i", "l1d"} /\ k = "fill"
  /\ \A x \in In(r, "l2", "in") : x \in In(q, "l2", "in") \/ (x = req /\ c = "l2" /\ k = "in")
  /\ \A x \in In(r, "l1d", "wb") : x \in In(q, "l1d", "wb") \/ (x = req /\ c = "l1d" /\ k = "wb")
  /\ \A x \in In(r, "l1d", "out") :
       x \in In(q, "l1d", "out") \/ (x = req /\ c = "l1d" /\ k = "out")
  /\ \A x \in In(r, "l1i", "out") :
       x \in In(q, "l1i", "out") \/ (x = req /\ c = "l1i" /\ k = "out")
  /\ NoDemand(q) /\ req.type = "wb" => NoDemand(r)

LEMMA AddsJoins ==
  ASSUME NEW q, NEW r, NEW c \in Components, NEW k \in Queues, NEW req, Adds(q, r, c, k, req)
  PROVE  Joins(q, r, c, k, req)
<1>1. \A d \in Components : \A j \in Queues : \A x \in In(r, d, j) :
        x \in In(q, d, j) \/ (x = req /\ c = d /\ k = j)
  BY Zenon DEF Adds
<1>2. /\ "in" \in Queues /\ "out" \in Queues /\ "wb" \in Queues /\ "fill" \in Queues
      /\ "dram" \in Components /\ "l2" \in Components /\ "l1i" \in Components
      /\ "l1d" \in Components
  BY DEF Queues, Components, Caches
<1>3. \A x \in Leaving(r) : x \in Leaving(q) \/ (x = req /\ c = "l1d" /\ k \in {"wb", "out"})
  BY <1>1, <1>2 DEF Leaving
<1>4. \A x \in Arriving(r) : x \in Arriving(q) \/ (x = req /\ c = "l2" /\ k = "fill")
  BY <1>1, <1>2 DEF Arriving
<1>5. \A x \in AboveL2(r) :
        x \in AboveL2(q) \/ (x = req /\ c \in {"l1i", "l1d"} /\ k \in {"in", "out"})
  BY <1>1, <1>2 DEF AboveL2
<1>6. \A x \in Upwards(r) : x \in Upwards(q) \/ (x = req /\ c \in {"l1i", "l1d"} /\ k = "fill")
  BY <1>1, <1>2 DEF Upwards
<1>7. \A x \in Late(r) :
        \/ x \in Late(q)
        \/ /\ x = req
           /\ \/ c = "l2" /\ k \in {"out", "fill"}
              \/ c = "dram" /\ k \in {"in", "out"}
              \/ c \in {"l1i", "l1d"} /\ k = "fill"
  BY <1>1, <1>2, <1>6 DEF Late
<1>8. NoDemand(q) /\ req.type = "wb" => NoDemand(r)
  BY <1>1, Zenon DEF NoDemand, OnlyWbs
<1>. QED
  BY <1>1, <1>2, <1>3, <1>4, <1>5, <1>6, <1>7, <1>8 DEF Joins

\* The requests of some queues are among those of others.
Fewer(r, q) == \A d \in Components : \A j \in Queues : In(r, d, j) \subseteq In(q, d, j)

LEMMA FewerFlow ==
  ASSUME NEW q, NEW r, Fewer(r, q), NEW i, Flows(q, i)
  PROVE  Flows(r, i)
<1>1. /\ "in" \in Queues /\ "out" \in Queues /\ "wb" \in Queues /\ "fill" \in Queues
      /\ "dram" \in Components /\ "l2" \in Components /\ "l1i" \in Components
      /\ "l1d" \in Components
  BY DEF Queues, Components, Caches
<1>2. /\ Leaving(r) \subseteq Leaving(q) /\ Arriving(r) \subseteq Arriving(q)
      /\ AboveL2(r) \subseteq AboveL2(q) /\ Late(r) \subseteq Late(q)
      /\ In(r, "l2", "in") \subseteq In(q, "l2", "in")
      /\ In(r, "l1d", "wb") \subseteq In(q, "l1d", "wb")
      /\ In(r, "l1d", "out") \subseteq In(q, "l1d", "out")
      /\ In(r, "l1i", "out") \subseteq In(q, "l1i", "out")
  BY <1>1 DEF Fewer, Leaving, Arriving, AboveL2, Late, Upwards
<1>3. NoDemand(q) => NoDemand(r)
  BY Zenon DEF NoDemand, OnlyWbs, Fewer
<1>4. Clear(r)
  BY <1>2 DEF Flows, Clear, OnlyWbs, NoWb
<1>5. InTime(r)
  BY <1>2 DEF Flows, InTime
<1>6. Passed(r, i)
  BY <1>2, <1>3 DEF Flows, Passed, OnlyWbs, NoWb
<1>. QED
  BY <1>4, <1>5, <1>6 DEF Flows

\* Walking on over queues with nothing ready
LEMMA PassedOn ==
  ASSUME mode = "multi", NEW q, NEW i \in 1..15, NEW p \in i..15,
         \A j \in i..p - 1 : Idle(q, j), Passed(q, i)
  PROVE  Passed(q, p)
<1>1. /\ i <= 4 /\ p >= 5 => \A r \in Arriving(q) : ~(r.left <= 0)
      /\ i <= 11 /\ p >= 12 => In(q, "l1d", "wb") = {}
      /\ i <= 13 /\ p >= 14 => In(q, "l1d", "out") = {}
  <2>1. /\ i <= 4 /\ p >= 5 => Idle(q, 4)
        /\ i <= 11 /\ p >= 12 => Idle(q, 11)
        /\ i <= 13 /\ p >= 14 => Idle(q, 13)
    OBVIOUS
  <2>2. /\ Idle(q, 4) => \A r \in In(q, "l2", "fill") : ~Ready("fill", r)
        /\ Idle(q, 11) => \A r \in In(q, "l1d", "wb") : ~Ready("wb", r)
        /\ Idle(q, 13) => \A r \in In(q, "l1d", "out") : ~Ready("out", r)
    BY MultiSchedule DEF Idle
  <2>. QED
    BY <2>1, <2>2 DEF Ready, Arriving
<1>2. p \in {5, 6} => \A r \in Arriving(q) : ~(r.left <= 0)
  BY <1>1 DEF Passed
<1>3. p \in {12, 13, 14, 15} => NoDemand(q) \/ NoWb(In(q, "l1d", "wb"))
  BY <1>1 DEF Passed, NoWb
<1>4. p \in {14, 15} => NoDemand(q) \/ NoWb(In(q, "l1d", "out"))
  BY <1>1 DEF Passed, NoWb
<1>5. p \in {10, 11, 12, 13} \/ OnlyWbs(In(q, "l1i", "out")) \/ NoWb(Leaving(q))
  <2>1. NoDemand(q) => OnlyWbs(In(q, "l1i", "out"))
    BY DEF NoDemand, Components, Caches, Queues
  <2>2. NoWb(In(q, "l1d", "wb")) /\ NoWb(In(q, "l1d", "out")) => NoWb(Leaving(q))
    BY DEF NoWb, Leaving
  <2>3. CASE p <= 9
    BY <2>3 DEF Passed
  <2>4. CASE p \in {14, 15}
    BY <1>3, <1>4, <2>1, <2>2, <2>4
  <2>. QED
    BY <2>3, <2>4
<1>. QED
  BY <1>2, <1>3, <1>4, <1>5 DEF Passed

-----------------------------------------------------------------------------
(* One lemma for each way in which a request joins a queue *)

\* A write-back on its way from l2 to memory
LEMMA OutsideFlow ==
  ASSUME NEW q, NEW r, NEW c \in Components, NEW k \in Queues, NEW req, Adds(q, r, c, k, req),
         req.type = "wb", c \in {"l2", "dram"}, c = "l2" => k # "fill", NEW i, Flows(q, i)
  PROVE  Flows(r, i)
<1>1. Joins(q, r, c, k, req)
  BY AddsJoins
<1>2. /\ Leaving(r) \subseteq Leaving(q) /\ Arriving(r) \subseteq Arriving(q)
      /\ AboveL2(r) \subseteq AboveL2(q)
      /\ In(r, "l1d", "wb") \subseteq In(q, "l1d", "wb")
      /\ In(r, "l1d", "out") \subseteq In(q, "l1d", "out")
      /\ In(r, "l1i", "out") \subseteq In(q, "l1i", "out")
      /\ \A x \in In(r, "l2", "in") : x \in In(q, "l2", "in") \/ x.type = "wb"
      /\ \A x \in Late(r) : x \in Late(q) \/ x.type = "wb"
      /\ NoDemand(q) => NoDemand(r)
  BY <1>1 DEF Joins
<1>3. Clear(r)
  BY <1>2 DEF Flows, Clear, OnlyWbs, NoWb
<1>4. InTime(r)
  BY <1>2 DEF Flows, InTime
<1>5. Passed(r, i)
  BY <1>2 DEF Flows, Passed, OnlyWbs, NoWb
<1>. QED
  BY <1>3, <1>4, <1>5 DEF Flows

\* A request where no write-back leaves l1d or arrives at l2
LEMMA AloneFlow ==
  ASSUME NEW q, NEW r, NEW c \in Components, NEW k \in Queues, NEW req, Adds(q, r, c, k, req),
         req.type # "wb", NoWb(Leaving(q) \cup Arriving(q)),
         NEW i, Flows(q, i), c = "l2" /\ k = "fill" => i \notin {5, 6}
  PROVE  Flows(r, i)
<1>1. Joins(q, r, c, k, req)
  BY AddsJoins
<1>2. NoWb(Leaving(r)) /\ NoWb(Arriving(r))
  BY <1>1 DEF Joins, NoWb
<1>3. NoWb(In(r, "l1d", "wb")) /\ NoWb(In(r, "l1d", "out"))
  BY <1>2 DEF NoWb, Leaving
<1>4. i \in {5, 6} => \A x \in Arriving(r) : ~(x.left <= 0)
  BY <1>1 DEF Flows, Passed, Joins
<1>5. Clear(r) /\ InTime(r)
  BY <1>2 DEF Clear, InTime, NoWb
<1>6. Passed(r, i)
  BY <1>2, <1>3, <1>4 DEF Passed
<1>. QED
  BY <1>5, <1>6 DEF Flows

\* A request that misses at level 1 waits in an out queue.
LEMMA MissedFlow ==
  ASSUME NEW q, NEW r, NEW c \in {"l1i", "l1d"}, NEW req, Adds(q, r, c, "out", req),
         req.type # "wb", NEW i, Flows(q, i),
         \A w \in Arriving(q) : w.type = "wb" => w.left <= req.left + Latency["l2"],
         (c = "l1i" /\ i = 10) \/ NoWb(Leaving(q)),
         \A w \in Leaving(q) : w.type = "wb" => w.left <= req.left
  PROVE  Flows(r, i)
<1>1. Joins(q, r, c, "out", req)
  BY AddsJoins DEF Components, Caches, Queues
<1>2. /\ \A x \in Leaving(r) : x \in Leaving(q) \/ x = req
      /\ Arriving(r) \subseteq Arriving(q)
      /\ \A x \in AboveL2(r) : x \in AboveL2(q) \/ x = req
      /\ Late(r) \subseteq Late(q)
      /\ In(r, "l2", "in") \subseteq In(q, "l2", "in")
      /\ In(r, "l1d", "wb") \subseteq In(q, "l1d", "wb")
      /\ \A x \in In(r, "l1d", "out") : x \in In(q, "l1d", "out") \/ (x = req /\ c = "l1d")
      /\ \A x \in In(r, "l1i", "out") : x \in In(q, "l1i", "out") \/ x = req
  BY <1>1 DEF Joins
<1>3. Clear(r)
  BY <1>2 DEF Flows, Clear, OnlyWbs, NoWb
<1>4. InTime(r)
  BY <1>2 DEF Flows, InTime
<1>5. CASE c = "l1i" /\ i = 10
  <2>1. OnlyWbs(In(r, "l1d", "out") \cup In(r, "l2", "in")) \/ NoWb(Leaving(r))
    BY <1>2, <1>5 DEF Flows, Passed, OnlyWbs, NoWb
  <2>. QED
    BY <1>3, <1>4, <1>5, <2>1 DEF Flows, Passed
<1>6. CASE NoWb(Leaving(q))
  <2>1. NoWb(Leaving(r))
    BY <1>2, <1>6 DEF NoWb
  <2>2. NoWb(In(r, "l1d", "wb")) /\ NoWb(In(r, "l1d", "out"))
    BY <2>1 DEF NoWb, Leaving
  <2>3. Passed(r, i)
    BY <1>2, <2>1, <2>2 DEF Flows, Passed
  <2>. QED
    BY <1>3, <1>4, <2>3 DEF Flows
<1>. QED
  BY <1>5, <1>6

\* A request from level 1 arrives at l2, no write-back being on its way there.
LEMMA DownFlow ==
  ASSUME NEW q, NEW r, NEW req, Adds(q, r, "l2", "in", req), req.type # "wb",
         NEW i, Flows(q, i), NoWb(Leaving(q)),
         \A w \in Arriving(q) : w.type = "wb" => w.left <= req.left
  PROVE  Flows(r, i)
<1>1. Joins(q, r, "l2", "in", req)
  BY AddsJoins DEF Components, Caches, Queues
<1>2. /\ Leaving(r) \subseteq Leaving(q) /\ Arriving(r) \subseteq Arriving(q)
      /\ AboveL2(r) \subseteq AboveL2(q) /\ Late(r) \subseteq Late(q)
      /\ \A x \in In(r, "l2", "in") : x \in In(q, "l2", "in") \/ x = req
      /\ In(r, "l1d", "wb") \subseteq In(q, "l1d", "wb")
      /\ In(r, "l1d", "out") \subseteq In(q, "l1d", "out")
      /\ In(r, "l1i", "out") \subseteq In(q, "l1i", "out")
  BY <1>1 DEF Joins
<1>3. Clear(r)
  BY <1>2 DEF Flows, Clear, OnlyWbs, NoWb
<1>4. NoWb(Leaving(r))
  BY <1>2 DEF NoWb
<1>5. InTime(r)
  BY <1>2, <1>4 DEF Flows, InTime, NoWb
<1>6. NoWb(In(r, "l1d", "wb")) /\ NoWb(In(r, "l1d", "out"))
  BY <1>4 DEF NoWb, Leaving
<1>7. Passed(r, i)
  BY <1>2, <1>4, <1>6 DEF Flows, Passed
<1>. QED
  BY <1>3, <1>5, <1>7 DEF Flows

\* A write-back goes from the wb queue of l1d to the out queue.
LEMMA LeavingFlow ==
  ASSUME NEW p, NEW q, NEW r, NEW req, Fewer(q, p), req \in In(p, "l1d", "wb"),
         Adds(q, r, "l1d", "out", req), req.type = "wb", Flows(p, 11)
  PROVE  Flows(r, 11)
<1>1. Joins(q, r, "l1d", "out", req) /\ req \in Leaving(p)
  BY AddsJoins DEF Components, Caches, Queues, Leaving
<1>2. Flows(q, 11)
  BY FewerFlow
<1>3. /\ \A x \in Leaving(r) : x \in Leaving(q) \/ x = req
      /\ Arriving(r) \subseteq Arriving(q)
      /\ \A x \in AboveL2(r) : x \in AboveL2(q) \/ x = req
      /\ Late(r) \subseteq Late(q)
      /\ In(r, "l2", "in") \subseteq In(q, "l2", "in")
      /\ \A x \in In(r, "l1d", "out") : x \in In(q, "l1d", "out") \/ x = req
  BY <1>1 DEF Joins
<1>4. OnlyWbs(Late(p)) /\ OnlyWbs(In(p, "l1d", "out") \cup In(p, "l2", "in"))
  BY <1>1 DEF Flows, Clear, Passed, NoWb
<1>5. /\ Late(q) \subseteq Late(p) /\ AboveL2(q) \subseteq AboveL2(p)
      /\ In(q, "l1d", "out") \subseteq In(p, "l1d", "out")
      /\ In(q, "l2", "in") \subseteq In(p, "l2", "in")
  BY DEF Fewer, Late, AboveL2, Upwards, Components, Caches, Queues
<1>6. Clear(r)
  BY <1>3, <1>4, <1>5 DEF Clear, OnlyWbs
<1>7. InTime(r)
  <2>1. /\ req.left <= 0
        /\ \A d \in AboveL2(q) : d.type # "wb" => req.left <= d.left
        /\ \A d \in In(q, "l2", "in") : d.type # "wb" => req.left + Latency["l2"] <= d.left
    BY <1>1, <1>5 DEF Flows, InTime
  <2>. QED
    BY <1>2, <1>3, <2>1 DEF Flows, InTime
<1>8. Passed(r, 11)
  <2>1. OnlyWbs(In(r, "l1d", "out") \cup In(r, "l2", "in"))
    BY <1>3, <1>4, <1>5 DEF OnlyWbs
  <2>. QED
    BY <2>1 DEF Passed
<1>. QED
  BY <1>6, <1>7, <1>8 DEF Flows

\* A write-back goes from l1d to l2.
LEMMA ArrivingFlow ==
  ASSUME NEW p, NEW q, NEW r, NEW req, NEW new, Fewer(q, p), req \in In(p, "l1d", "out"),
         Adds(q, r, "l2", "fill", new), req.type = "wb", new.type = "wb",
         req.left \in Int, new.left = req.left + Latency["l2"],
         \A d \in AboveL2(q) \cup In(q, "l2", "in") : d.left \in Int,
         Flows(p, 13)
  PROVE  Flows(r, 13)
<1>1. Joins(q, r, "l2", "fill", new) /\ req \in Leaving(p)
  BY AddsJoins DEF Components, Caches, Queues, Leaving
<1>2. Flows(q, 13)
  BY FewerFlow
<1>3. /\ Leaving(r) \subseteq Leaving(q)
      /\ \A x \in Arriving(r) : x \in Arriving(q) \/ x = new
      /\ AboveL2(r) \subseteq AboveL2(q)
      /\ \A x \in Late(r) : x \in Late(q) \/ x = new
      /\ In(r, "l2", "in") \subseteq In(q, "l2", "in")
      /\ In(r, "l1d", "wb") \subseteq In(q, "l1d", "wb")
      /\ In(r, "l1d", "out") \subseteq In(q, "l1d", "out")
      /\ NoDemand(q) => NoDemand(r)
  BY <1>1 DEF Joins
<1>4. OnlyWbs(Late(p)) /\ OnlyWbs(In(p, "l1d", "out") \cup In(p, "l2", "in"))
  BY <1>1 DEF Flows, Clear, Passed, NoWb
<1>5. /\ Late(q) \subseteq Late(p) /\ AboveL2(q) \subseteq AboveL2(p)
      /\ In(q, "l1d", "out") \subseteq In(p, "l1d", "out")
      /\ In(q, "l2", "in") \subseteq In(p, "l2", "in")
  BY DEF Fewer, Late, AboveL2, Upwards, Components, Caches, Queues
<1>6. Clear(r)
  BY <1>3, <1>4, <1>5 DEF Clear, OnlyWbs
<1>7. InTime(r)
  <2>1. /\ req.left <= 0
        /\ \A d \in AboveL2(q) : d.type # "wb" => req.left <= d.left
        /\ \A d \in In(q, "l2", "in") : d.type # "wb" => req.left + Latency["l2"] <= d.left
    BY <1>1, <1>5 DEF Flows, InTime
  <2>2. Latency["l2"] \in Int
    BY GeometryAssumption DEF Components, Caches
  <2>3. /\ new.left <= Latency["l2"]
        /\ \A d \in AboveL2(q) : d.type # "wb" => new.left <= d.left + Latency["l2"]
        /\ \A d \in In(q, "l2", "in") : d.type # "wb" => new.left <= d.left
    BY <2>1, <2>2
  <2>. QED
    BY <1>2, <1>3, <2>3 DEF Flows, InTime
<1>8. Passed(r, 13)
  <2>1. OnlyWbs(In(r, "l1d", "out") \cup In(r, "l2", "in"))
    BY <1>3, <1>4, <1>5 DEF OnlyWbs
  <2>2. NoDemand(r) \/ NoWb(In(r, "l1d", "wb"))
    BY <1>2, <1>3 DEF Flows, Passed, NoWb
  <2>. QED
    BY <2>1, <2>2 DEF Passed
<1>. QED
  BY <1>6, <1>7, <1>8 DEF Flows

\* A dirty line is evicted from l1d when there is no request.
LEMMA EvictedFlow ==
  ASSUME NEW q, NEW r, NEW req, Adds(q, r, "l1d", "wb", req), req.type = "wb", req.left = 0,
         NoDemand(q), Flows(q, 12)
  PROVE  Flows(r, 12)
<1>1. Joins(q, r, "l1d", "wb", req)
  BY AddsJoins DEF Components, Caches, Queues
<1>2. /\ NoDemand(r)
      /\ \A x \in Leaving(r) : x \in Leaving(q) \/ x = req
      /\ Arriving(r) \subseteq Arriving(q)
  BY <1>1 DEF Joins
<1>3. /\ "in" \in Queues /\ "out" \in Queues /\ "fill" \in Queues
      /\ "dram" \in Components /\ "l2" \in Components /\ "l1i" \in Components
      /\ "l1d" \in Components
  BY DEF Queues, Components, Caches
<1>4. /\ \A d \in Late(r) \cup AboveL2(r) \cup In(r, "l2", "in") : d.type = "wb"
      /\ OnlyWbs(In(r, "l1d", "out") \cup In(r, "l2", "in"))
  BY <1>2, <1>3 DEF NoDemand, OnlyWbs, Late, AboveL2, Upwards
<1>5. Clear(r)
  BY <1>4 DEF Clear, OnlyWbs
<1>6. InTime(r)
  BY <1>2, <1>4 DEF Flows, InTime
<1>7. Passed(r, 12)
  BY <1>2, <1>4 DEF Passed
<1>. QED
  BY <1>5, <1>6, <1>7 DEF Flows

\* A request is issued between two cycles.
LEMMA IssuedFlow ==
  ASSUME NEW q, NEW r, NEW c \in {"l1i", "l1d"}, NEW req, Adds(q, r, c, "in", req),
         req.left \in Nat, \A w \in Leaving(q) \cup Arriving(q) : w.left \in Int, Flows(q, 0)
  PROVE  Flows(r, 1)
<1>1. Joins(q, r, c, "in", req)
  BY AddsJoins DEF Components, Caches, Queues
<1>2. /\ Leaving(r) \subseteq Leaving(q) /\ Arriving(r) \subseteq Arriving(q)
      /\ \A x \in AboveL2(r) : x \in AboveL2(q) \/ x = req
      /\ Late(r) \subseteq Late(q)
      /\ In(r, "l2", "in") \subseteq In(q, "l2", "in")
      /\ In(r, "l1d", "wb") \subseteq In(q, "l1d", "wb")
      /\ In(r, "l1d", "out") \subseteq In(q, "l1d", "out")
      /\ In(r, "l1i", "out") \subseteq In(q, "l1i", "out")
  BY <1>1 DEF Joins
<1>3. Clear(r)
  BY <1>2 DEF Flows, Clear, OnlyWbs, NoWb
<1>4. InTime(r)
  <2>1. Latency["l2"] \in Nat
    BY GeometryAssumption DEF Components, Caches
  <2>2. /\ \A w \in Leaving(q) : w.left <= 0 => w.left <= req.left
        /\ \A w \in Arriving(q) : w.left <= Latency["l2"] => w.left <= req.left + Latency["l2"]
    BY <2>1
  <2>. QED
    BY <1>2, <2>2 DEF Flows, InTime
<1>5. Passed(r, 1)
  BY <1>2 DEF Flows, Passed, OnlyWbs, NoWb
<1>. QED
  BY <1>3, <1>4, <1>5 DEF Flows

\* At the end of a cycle, everything is a cycle nearer.
LEMMA TickedFlow ==
  ASSUME NEW q \in QueuesType, NEW r, Ticked(q, r), Flows(q, 15)
  PROVE  Flows(r, 0)
<1>1. \A c \in Components : \A k \in Queues : \A x \in In(r, c, k) : \E y \in In(q, c, k) :
        x.type = y.type /\ x.left = y.left - 1 /\ y.left \in Int
  <2>1. ASSUME NEW c \in Components, NEW k \in Queues, NEW x \in In(r, c, k)
        PROVE  \E y \in In(q, c, k) : x.type = y.type /\ x.left = y.left - 1 /\ y.left \in Int
    <3>1. PICK y \in In(q, c, k) : x = Sooner(y)
      BY <2>1 DEF Ticked
    <3>2. y \in Request
      BY InOf
    <3>3. y.left \in Int
      BY <3>2 DEF Request
    <3>. QED
      BY <3>1, <3>2, <3>3, SoonerOf
  <2>. QED
    BY <2>1
<1>2. /\ "in" \in Queues /\ "out" \in Queues /\ "wb" \in Queues /\ "fill" \in Queues
      /\ "dram" \in Components /\ "l2" \in Components /\ "l1i" \in Components
      /\ "l1d" \in Components
  BY DEF Queues, Components, Caches
<1>. DEFINE Before(x, y) == x.type = y.type /\ x.left = y.left - 1 /\ y.left \in Int
<1>3. /\ \A x \in Leaving(r) : \E y \in Leaving(q) : Before(x, y)
      /\ \A x \in Arriving(r) : \E y \in Arriving(q) : Before(x, y)
      /\ \A x \in AboveL2(r) : \E y \in AboveL2(q) : Before(x, y)
      /\ \A x \in In(r, "l2", "in") : \E y \in In(q, "l2", "in") : Before(x, y)
      /\ \A x \in In(r, "l1d", "out") : \E y \in In(q, "l1d", "out") : Before(x, y)
      /\ \A x \in In(r, "l1i", "out") : \E y \in In(q, "l1i", "out") : Before(x, y)
  BY <1>1, <1>2 DEF Leaving, Arriving, AboveL2
<1>4. \A x \in Late(r) : \E y \in Late(q) : Before(x, y)
  BY <1>1, <1>2 DEF Late, Upwards
<1>5. Clear(r)
  BY <1>3, <1>4 DEF Flows, Clear, OnlyWbs, NoWb
<1>6. InTime(r)
  <2>1. Latency["l2"] \in Int
    BY GeometryAssumption DEF Components, Caches
  <2>2. ASSUME NEW w \in Leaving(r), w.type = "wb"
        PROVE  /\ w.left <= 0
               /\ \A d \in AboveL2(r) : d.type # "wb" => w.left <= d.left
               /\ \A d \in In(r, "l2", "in") : d.type # "wb" => w.left + Latency["l2"] <= d.left
    <3>1. PICK v \in Leaving(q) : Before(w, v)
      BY <1>3
    <3>2. /\ v.left <= 0
          /\ \A d \in AboveL2(q) : d.type # "wb" => v.left <= d.left
          /\ \A d \in In(q, "l2", "in") : d.type # "wb" => v.left + Latency["l2"] <= d.left
      BY <2>2, <3>1 DEF Flows, InTime
    <3>. QED
      BY <1>3, <2>1, <3>1, <3>2
  <2>3. ASSUME NEW w \in Arriving(r), w.type = "wb"
        PROVE  /\ w.left <= Latency["l2"]
               /\ \A d \in AboveL2(r) : d.type # "wb" => w.left <= d.left + Latency["l2"]
               /\ \A d \in In(r, "l2", "in") : d.type # "wb" => w.left <= d.left
    <3>1. PICK v \in Arriving(q) : Before(w, v)
      BY <1>3
    <3>2. /\ v.left <= Latency["l2"]
          /\ \A d \in AboveL2(q) : d.type # "wb" => v.left <= d.left + Latency["l2"]
          /\ \A d \in In(q, "l2", "in") : d.type # "wb" => v.left <= d.left
      BY <2>3, <3>1 DEF Flows, InTime
    <3>. QED
      BY <1>3, <2>1, <3>1, <3>2
  <2>. QED
    BY <2>2, <2>3 DEF InTime
<1>7. Passed(r, 0)
  BY <1>3 DEF Flows, Passed, OnlyWbs, NoWb
<1>. QED
  BY <1>5, <1>6, <1>7 DEF Flows

-----------------------------------------------------------------------------
(* Inclusion *)

LEMMA PlaceOf ==
  ASSUME mode = "multi", NEW i, NEW c, NEW k, Scheduled(i, c, k)
  PROVE  /\ i \in 1..14
         /\ (c = "dram" /\ k = "out" => i = 1) /\ (c = "dram" /\ k = "in" => i = 2)
         /\ (c = "l2" /\ k = "wb" => i = 3) /\ (c = "l2" /\ k = "fill" => i = 4)
         /\ (c = "l2" /\ k = "out" => i = 5) /\ (c = "l2" /\ k = "in" => i = 6)
         /\ (c = "l1i" /\ k = "out" => i = 9) /\ (c = "l1i" /\ k = "in" => i = 10)
         /\ (c = "l1d" /\ k = "wb" => i = 11) /\ (c = "l1d" /\ k = "fill" => i = 12)
         /\ (c = "l1d" /\ k = "out" => i = 13) /\ (c = "l1d" /\ k = "in" => i = 14)
         /\ c \in {"dram", "l2", "l1i", "l1d"}
<1>1. /\ i \in 1..Final - 1 /\ c = Order[mode][i][1] /\ k = Order[mode][i][2]
      /\ c \in Components /\ c # "l1u"
  BY Zenon DEF Scheduled
<1>2. Final = 15
  BY MultiSchedule
<1>3. i \in 1..14
  BY <1>1, <1>2
<1>4. c \in {"dram", "l2", "l1i", "l1d"}
  BY <1>1 DEF Components, Caches
<1>5. PICK o : o = Order[mode]
  OBVIOUS
<1>6. /\ o[1] = <<"dram", "out">> /\ o[2] = <<"dram", "in">>
      /\ o[3] = <<"l2", "wb">> /\ o[4] = <<"l2", "fill">>
      /\ o[5] = <<"l2", "out">> /\ o[6] = <<"l2", "in">>
      /\ o[7] = <<"l1i", "wb">> /\ o[8] = <<"l1i", "fill">>
      /\ o[9] = <<"l1i", "out">> /\ o[10] = <<"l1i", "in">>
      /\ o[11] = <<"l1d", "wb">> /\ o[12] = <<"l1d", "fill">>
      /\ o[13] = <<"l1d", "out">> /\ o[14] = <<"l1d", "in">>
  BY <1>5, MultiSchedule
<1>7. c = o[i][1] /\ k = o[i][2]
  BY <1>1, <1>5
<1>8. i \in {1, 2, 3, 4, 5, 6, 7, 8, 9, 10, 11, 12, 13, 14}
  BY <1>3
<1>. QED
  BY <1>3, <1>4, <1>6, <1>7, <1>8

\* Where there are no requests to count, there are none.
LEMMA NoneToCount ==
  ASSUME NEW q, QueuesOK(q), Demands(q) = 0
  PROVE  NoDemand(q)
<1>1. q \in QueuesType /\ Bounded(q)
  BY DEF QueuesOK
<1>2. Places \in SUBSET Places /\ Types \in SUBSET Kinds
  BY DEF Kinds
<1>3. IsFiniteSet(Spots(q, Places, Types))
  BY <1>1, <1>2, SpotsBounded
<1>4. Spots(q, Places, Types) = {}
  BY <1>3, FS_EmptySet DEF Demands, Count
<1>5. ASSUME NEW c \in Components, NEW k \in Queues, NEW x \in In(q, c, k), x.type # "wb"
      PROVE  FALSE
  <2>1. PICK n \in DOMAIN q[c][k] : x = q[c][k][n]
    BY <1>5 DEF In
  <2>2. x \in Request /\ n \in 1..Len(q[c][k]) /\ n \in Nat
    BY <1>1, <2>1, InOf
  <2>3. x.type \in Types
    BY <1>5, <2>2 DEF Request, Kinds
  <2>4. <<c, k>> \in Places
    BY DEF Places
  <2>5. <<<<c, k>>, n>> \in Spots(q, Places, Types)
    BY <1>1, <1>2, <2>1, <2>2, <2>3, <2>4, SpotsOf
  <2>. QED
    BY <1>4, <2>5
<1>. QED
  BY <1>5, Zenon DEF NoDemand, OnlyWbs

\* When the one request is taken, no other is left.
LEMMA TheOne ==
  ASSUME TypeInv, Tallied, OneAtATime, single,
         NEW c, NEW k, NEW req, NEW rest, Taken(c, k, req, rest), req.type # "wb"
  PROVE  NoDemand(rest)
<1>1. c \in Components /\ k \in Queues /\ req \in Request /\ QueuesOK(rest) /\ rest \in QueuesType
  BY TakenParts
<1>2. Numbers(rest, queue, c, k, req)
  BY <1>1, NumbersOf, Zenon DEF Taken
<1>3. Demands(queue) = Demands(rest) + 1 /\ Demands(rest) \in Nat
  BY <1>2, Zenon DEF Numbers
<1>4. inFlight <= 1 /\ inFlight = done + Demands(queue) /\ done \in Nat
  BY Zenon DEF OneAtATime, Tallied, TypeInv
<1>5. Demands(rest) = 0
  BY <1>3, <1>4
<1>. QED
  BY <1>1, <1>5, NoneToCount

\* What the stores hold and the queues carry, when l2 gives up no line
LEMMA CoveredOn ==
  ASSUME NEW s, NEW t, NEW p, NEW q, NEW r, Covered(s, p), Fewer(q, p),
         NEW c \in Components, NEW k \in Queues, NEW req, Adds(q, r, c, k, req) \/ r = q,
         \A x \in Nat : Holds(s["l2"], x) => Holds(t["l2"], x),
         \A d \in Components : \A j \in Queues : \A x \in In(p, d, j) : x.line \in Nat,
         r = q \/ \/ c \notin {"l1i", "l1d", "l2"}
                  \/ c = "l2" /\ (k # "fill" \/ req.type # "wb")
                  \/ c \in {"l1i", "l1d"} /\ (k = "in" \/ (k = "out" /\ req.type # "wb"))
                  \/ Holds(t["l2"], req.line)
  PROVE  Covered(t, r)
<1>1. /\ "in" \in Queues /\ "out" \in Queues /\ "wb" \in Queues /\ "fill" \in Queues
      /\ "dram" \in Components /\ "l2" \in Components /\ "l1i" \in Components
      /\ "l1d" \in Components
  BY DEF Queues, Components, Caches
<1>2. /\ Leaving(q) \subseteq Leaving(p) /\ Arriving(q) \subseteq Arriving(p)
      /\ Upwards(q) \subseteq Upwards(p)
  BY <1>1 DEF Fewer, Leaving, Arriving, Upwards
<1>3. \A x \in Leaving(p) \cup Arriving(p) \cup Upwards(p) : x.line \in Nat
  BY <1>1 DEF Leaving, Arriving, Upwards
<1>4. /\ \A w \in Leaving(q) \cup Arriving(q) : w.type = "wb" => Holds(t["l2"], w.line)
      /\ \A d \in Upwards(q) : Holds(t["l2"], d.line)
  BY <1>2, <1>3 DEF Covered
<1>5. CASE r = q
  BY <1>4, <1>5, Zenon DEF Covered
<1>6. CASE Adds(q, r, c, k, req) /\ r # q
  <2>1. Joins(q, r, c, k, req)
    BY <1>6, AddsJoins
  <2>2. /\ \A x \in Leaving(r) : x \in Leaving(q) \/ (x = req /\ c = "l1d" /\ k \in {"wb", "out"})
        /\ \A x \in Arriving(r) : x \in Arriving(q) \/ (x = req /\ c = "l2" /\ k = "fill")
        /\ \A x \in Upwards(r) : x \in Upwards(q) \/ (x = req /\ c \in {"l1i", "l1d"} /\ k = "fill")
    BY <2>1, Zenon DEF Joins
  <2>. QED
    BY <1>4, <1>6, <2>2 DEF Covered
<1>. QED
  BY <1>5, <1>6

\* Everything that inclusion needs of a step of a queue's handler
LEMMA HandleFlows ==
  ASSUME TypeInv, Tallied, OneAtATime, NonZero, mode = "multi", single,
         Included(store), Covered(store, queue), Flows(queue, at),
         NEW c, NEW k, NEW req, NEW rest, Taken(c, k, req, rest), Handle(c, k, req, rest)
  PROVE  Included(store') /\ Covered(store', queue') /\ Flows(queue', at)
<1>1. /\ c \in Components /\ k \in Queues /\ (c # "dram" => c \in Caches) /\ req \in Request
      /\ req.line \in Nat /\ req.left \in Int /\ QueuesOK(rest) /\ rest \in QueuesType
      /\ req.type \in Kinds /\ req.type \in Allowed(c, k)
  BY TakenParts
<1>2. Fewer(rest, queue) /\ Flows(rest, at) /\ req \in In(queue, c, k) /\ Ready(k, req)
  <2>1. Fewer(rest, queue)
    BY RestLess, Zenon DEF Fewer
  <2>. QED
    BY <2>1, FewerFlow, Zenon DEF Taken
<1>3. /\ at \in 1..14
      /\ (c = "dram" /\ k = "out" => at = 1) /\ (c = "dram" /\ k = "in" => at = 2)
      /\ (c = "l2" /\ k = "wb" => at = 3) /\ (c = "l2" /\ k = "fill" => at = 4)
      /\ (c = "l2" /\ k = "out" => at = 5) /\ (c = "l2" /\ k = "in" => at = 6)
      /\ (c = "l1i" /\ k = "out" => at = 9) /\ (c = "l1i" /\ k = "in" => at = 10)
      /\ (c = "l1d" /\ k = "wb" => at = 11) /\ (c = "l1d" /\ k = "fill" => at = 12)
      /\ (c = "l1d" /\ k = "out" => at = 13) /\ (c = "l1d" /\ k = "in" => at = 14)
      /\ c \in {"dram", "l2", "l1i", "l1d"}
  BY PlaceOf, Zenon DEF Taken
<1>4. /\ "in" \in Queues /\ "out" \in Queues /\ "wb" \in Queues /\ "fill" \in Queues
      /\ \A x \in {"dram", "l2", "l1i", "l1d"} : x \in Components
      /\ \A x \in {"l2", "l1i", "l1d"} : x \in Caches
  BY DEF Queues, Components, Caches
<1>5. /\ DOMAIN store = Caches /\ QueuesOK(queue) /\ queue \in QueuesType
      /\ \A d \in Caches : ~Holds(store[d], NoVictim)
  BY Zenon DEF TypeInv, StoreOK, QueuesOK, NonZero
<1>6. \A d \in Components : \A j \in Queues : \A x \in In(queue, d, j) :
        x \in Request /\ x.line \in Nat /\ x.left \in Int
  BY <1>5, InOf DEF Request
<1>7. \A d \in Components : /\ Delayed(req, d).line = req.line
                            /\ Delayed(req, d).type = req.type
                            /\ Delayed(req, d).left = req.left + Latency[d]
                            /\ Latency[d] \in Nat
  BY <1>1, DelayedOf
<1>8. req.type # "wb" => NoDemand(rest)
  BY TheOne
\* No write-back leaves l1d or arrives at l2, if not before the request.
<1>9. ASSUME req \in Late(queue), req.type # "wb"
      PROVE  NoWb(Leaving(rest) \cup Arriving(rest))
  <2>1. NoWb(Leaving(queue) \cup Arriving(queue))
    BY <1>9 DEF Flows, Clear, OnlyWbs
  <2>. QED
    BY <1>2, <1>4, <2>1 DEF NoWb, Leaving, Arriving, Fewer
\* Steps that leave the stores alone, and hand on one request
<1>10. ASSUME UNCHANGED store PROVE Included(store')
  BY <1>10, Zenon DEF Included
<1>11. \A q : \A d \in Components : \A j \in Queues : \A x :
         Fed(rest, q, d, j, x) => Adds(rest, q, d, j, x)
  BY Zenon DEF Fed, More
<1>12. ASSUME UNCHANGED store,
              NEW d \in Components, NEW j \in Queues, NEW x, Fed(rest, queue', d, j, x),
              \/ d \notin {"l1i", "l1d", "l2"}
              \/ d = "l2" /\ (j # "fill" \/ x.type # "wb")
              \/ d \in {"l1i", "l1d"} /\ (j = "in" \/ (j = "out" /\ x.type # "wb"))
              \/ Holds(store["l2"], x.line)
       PROVE  Included(store') /\ Covered(store', queue')
  <2>1. Covered(store, queue')
    BY <1>2, <1>6, <1>11, <1>12, CoveredOn
  <2>. QED
    BY <1>10, <1>12, <2>1, Zenon DEF Covered
<1>20. CASE c = "dram" /\ k = "in" /\ MemoryIn(req, rest)
  <2>1. UNCHANGED store
    BY <1>20, Zenon DEF MemoryIn
  <2>2. IF req.type = "wb" THEN queue' = rest ELSE Fed(rest, queue', "dram", "out", req)
    BY <1>20, MemoryInMoves
  <2>3. CASE req.type = "wb"
    <3>1. queue' = rest
      BY <2>2, <2>3
    <3>2. Covered(store, queue')
      BY <1>2, <1>4, <1>6, <3>1, CoveredOn
    <3>. QED
      BY <1>2, <1>10, <2>1, <3>1, <3>2, Zenon DEF Covered
  <2>4. CASE req.type # "wb"
    <3>1. Fed(rest, queue', "dram", "out", req)
      BY <2>2, <2>4
    <3>2. req \in Late(queue)
      BY <1>2, <1>20 DEF Late
    <3>3. Flows(queue', at)
      BY <1>2, <1>4, <1>9, <1>11, <2>4, <3>1, <3>2, AloneFlow
    <3>4. Included(store') /\ Covered(store', queue')
      BY <1>4, <1>12, <2>1, <3>1
    <3>. QED
      BY <3>3, <3>4
  <2>. QED
    BY <2>3, <2>4
<1>21. CASE c = "dram" /\ k = "out" /\ MemoryOut(req, rest)
  <2>1. UNCHANGED store
    BY <1>21, Zenon DEF MemoryOut
  <2>2. PICK new : new = Delayed(req, "l2")
    OBVIOUS
  <2>3. Fed(rest, queue', "l2", "fill", new) /\ req.type # "wb" /\ new.type = req.type
    BY <1>4, <1>7, <1>21, <2>2, MemoryOutMoves DEF TypeInv
  <2>4. req \in Late(queue)
    BY <1>2, <1>21 DEF Late
  <2>5. Flows(queue', at)
    BY <1>2, <1>3, <1>4, <1>9, <1>11, <1>21, <2>3, <2>4, AloneFlow
  <2>6. Included(store') /\ Covered(store', queue')
    BY <1>4, <1>12, <2>1, <2>3
  <2>. QED
    BY <2>5, <2>6
<1>22. CASE c # "dram" /\ k = "wb" /\ ProcessWb(c, req, rest)
  <2>1. UNCHANGED store
    BY <1>22, Zenon DEF ProcessWb
  <2>2. Fed(rest, queue', c, "out", req) /\ req.type = "wb" /\ c # "l1i"
    BY <1>22, WbMoves
  <2>3. CASE c = "l2"
    <3>1. Flows(queue', at)
      BY <1>2, <1>4, <1>11, <2>2, <2>3, OutsideFlow
    <3>2. Included(store') /\ Covered(store', queue')
      BY <1>4, <1>12, <2>1, <2>2, <2>3
    <3>. QED
      BY <3>1, <3>2
  <2>4. CASE c = "l1d"
    <3>1. Adds(rest, queue', "l1d", "out", req) /\ at = 11 /\ req \in In(queue, "l1d", "wb")
      BY <1>2, <1>3, <1>4, <1>11, <1>22, <2>2, <2>4
    <3>2. Flows(queue', at)
      BY <1>2, <2>2, <3>1, LeavingFlow
    <3>3. Holds(store["l2"], req.line)
      BY <2>2, <3>1 DEF Covered, Leaving
    <3>4. Included(store') /\ Covered(store', queue')
      BY <1>4, <1>12, <2>1, <2>2, <2>4, <3>3
    <3>. QED
      BY <3>2, <3>4
  <2>. QED
    BY <1>3, <1>22, <2>2, <2>3, <2>4
<1>23. CASE c # "dram" /\ k = "out" /\ ProcessOut(c, req, rest)
  <2>1. UNCHANGED store
    BY <1>23, Zenon DEF ProcessOut
  <2>2. OutMoves(c, req, rest, queue')
    BY <1>23, OutMovesOn
  <2>3. HasNext(c) <=> c \in {"l1i", "l1d"}
    BY <1>3, <1>23 DEF HasNext, L1s, Caches
  <2>4. CASE c = "l2"
    <3>1. PICK new : new = Delayed(req, "dram")
      OBVIOUS
    <3>2. Fed(rest, queue', "dram", "in", new) /\ new.type = req.type
      BY <1>4, <1>7, <2>2, <2>3, <2>4, <3>1 DEF OutMoves
    <3>3. Included(store') /\ Covered(store', queue')
      BY <1>4, <1>12, <2>1, <3>2
    <3>4. Flows(queue', at)
      <4>1. CASE req.type = "wb"
        BY <1>2, <1>4, <1>11, <3>2, <4>1, OutsideFlow
      <4>2. CASE req.type # "wb"
        <5>1. req \in Late(queue)
          BY <1>2, <1>23, <2>4 DEF Late
        <5>. QED
          BY <1>2, <1>4, <1>9, <1>11, <3>2, <4>2, <5>1, AloneFlow
      <4>. QED
        BY <4>1, <4>2
    <3>. QED
      BY <3>3, <3>4
  <2>5. CASE c \in {"l1i", "l1d"} /\ req.type # "wb"
    <3>1. PICK new : new = Delayed(req, "l2")
      OBVIOUS
    <3>2. /\ Fed(rest, queue', "l2", "in", new) /\ new.type = req.type
          /\ new.left = req.left + Latency["l2"]
      BY <1>4, <1>7, <2>2, <2>3, <2>5, <3>1 DEF OutMoves
    <3>3. Included(store') /\ Covered(store', queue')
      BY <1>4, <1>12, <2>1, <3>2
    <3>4. NoWb(Leaving(queue))
      <4>1. req \in In(queue, c, "out") /\ (c = "l1i" => at = 9)
        BY <1>2, <1>3, <1>23
      <4>. QED
        BY <2>5, <4>1 DEF Flows, Passed, OnlyWbs
    <3>5. NoWb(Leaving(rest))
      BY <1>2, <1>4, <3>4 DEF NoWb, Leaving, Fewer
    <3>6. \A w \in Arriving(rest) : w.type = "wb" => w.left <= new.left
      <4>1. req \in AboveL2(queue) /\ Arriving(rest) \subseteq Arriving(queue)
        BY <1>2, <1>4, <1>23, <2>5 DEF AboveL2, Arriving, Fewer
      <4>. QED
        BY <2>5, <3>2, <4>1 DEF Flows, InTime
    <3>7. Flows(queue', at)
      BY <1>2, <1>4, <1>11, <2>5, <3>2, <3>5, <3>6, DownFlow
    <3>. QED
      BY <3>3, <3>7
  <2>6. CASE c \in {"l1i", "l1d"} /\ req.type = "wb"
    <3>1. PICK new : new = Delayed(req, "l2")
      OBVIOUS
    <3>2. /\ Fed(rest, queue', "l2", "fill", new) /\ new.type = req.type /\ new.line = req.line
          /\ new.left = req.left + Latency["l2"]
      BY <1>4, <1>7, <2>2, <2>3, <2>6, <3>1 DEF OutMoves
    <3>3. c = "l1d" /\ at = 13
      BY <1>1, <1>3, <1>23, <2>6 DEF Allowed
    <3>4. Adds(rest, queue', "l2", "fill", new) /\ req \in In(queue, "l1d", "out")
      BY <1>2, <1>4, <1>11, <1>23, <3>2, <3>3
    <3>5. Holds(store["l2"], new.line)
      BY <2>6, <3>2, <3>4 DEF Covered, Leaving
    <3>6. Included(store') /\ Covered(store', queue')
      BY <1>4, <1>12, <2>1, <3>2, <3>5
    <3>7. \A d \in AboveL2(rest) \cup In(rest, "l2", "in") : d.left \in Int
      BY <1>2, <1>4, <1>6 DEF AboveL2, Fewer
    <3>8. Flows(queue', at)
      BY <1>1, <1>2, <2>6, <3>2, <3>3, <3>4, <3>7, ArrivingFlow
    <3>. QED
      BY <3>6, <3>8
  <2>. QED
    BY <1>3, <1>23, <2>4, <2>5, <2>6
<1>24. CASE c \in {"l1i", "l1d"} /\ k = "in" /\ ProcessIn(c, req, rest)
  <2>1. /\ InMoves(c, req, rest, queue') /\ InStore(c, req, store')
        /\ MissOf(c, req).left = req.left /\ MissOf(c, req).type # "wb" /\ req.type \in Types
    BY <1>24, InMovesOn
  <2>2. PICK t, new : t = LookedUp(c, req).store /\ new = MissOf(c, req)
    OBVIOUS
  <2>3. /\ store' = [store EXCEPT ![c] = t] /\ new.left = req.left /\ new.type # "wb"
        /\ queue' = rest \/ Fed(rest, queue', c, "out", new)
        /\ \A l \in Nat : Holds(t, l) => Holds(store[c], l)
    <3>1. /\ store' = [store EXCEPT ![c] = t] /\ new.left = req.left /\ new.type # "wb"
          /\ \A l \in Nat : Holds(t, l) => Holds(store[c], l)
      BY <2>1, <2>2, Zenon DEF InStore, AccessOK
    <3>2. c \in L1s
      BY <1>24 DEF L1s, Caches
    <3>. QED
      BY <2>1, <2>2, <3>1, <3>2, Zenon DEF InMoves
  <2>4. store'["l2"] = store["l2"] /\ store'[c] = t /\ \A e \in Caches \ {c} : store'[e] = store[e]
    BY <1>4, <1>5, <1>24, <2>3
  <2>5. Included(store')
    BY <1>4, <1>24, <2>3, <2>4 DEF Included
  <2>6. Covered(store', queue')
    <3>1. queue' = rest \/ Adds(rest, queue', c, "out", new)
      BY <1>1, <1>4, <1>11, <2>3
    <3>2. \A x \in Nat : Holds(store["l2"], x) => Holds(store'["l2"], x)
      BY <2>4
    <3>3. CASE queue' = rest
      BY <1>2, <1>4, <1>6, <3>2, <3>3, CoveredOn
    <3>4. CASE Adds(rest, queue', c, "out", new)
      BY <1>1, <1>2, <1>4, <1>6, <1>24, <2>3, <3>2, <3>4, CoveredOn
    <3>. QED
      BY <3>1, <3>3, <3>4
  <2>7. ASSUME Fed(rest, queue', c, "out", new)
        PROVE  Flows(queue', at)
    <3>1. Adds(rest, queue', c, "out", new)
      BY <1>1, <1>4, <1>11, <2>7
    <3>2. req \in AboveL2(queue) /\ Leaving(rest) \subseteq Leaving(queue)
          /\ Arriving(rest) \subseteq Arriving(queue)
      BY <1>2, <1>4, <1>24 DEF AboveL2, Leaving, Arriving, Fewer
    <3>3. req.type # "wb"
      BY <2>1 DEF Types
    <3>4. \A w \in Arriving(rest) : w.type = "wb" => w.left <= new.left + Latency["l2"]
      BY <2>3, <3>2, <3>3 DEF Flows, InTime
    <3>5. \A w \in Leaving(rest) : w.type = "wb" => w.left <= new.left
      BY <2>3, <3>2, <3>3 DEF Flows, InTime
    <3>6. (c = "l1i" /\ at = 10) \/ NoWb(Leaving(rest))
      <4>1. CASE c = "l1i"
        BY <1>3, <1>24, <4>1
      <4>2. CASE c = "l1d"
        <5>1. ~NoDemand(queue)
          BY <1>1, <1>2, <3>3, Zenon DEF NoDemand, OnlyWbs
        <5>2. at = 14
          BY <1>3, <1>24, <4>2
        <5>3. NoWb(In(queue, "l1d", "wb")) /\ NoWb(In(queue, "l1d", "out"))
          BY <5>1, <5>2 DEF Flows, Passed
        <5>. QED
          BY <3>2, <5>3 DEF NoWb, Leaving
      <4>. QED
        BY <1>24, <4>1, <4>2
    <3>. QED
      BY <1>2, <1>24, <2>3, <3>1, <3>4, <3>5, <3>6, MissedFlow
  <2>. QED
    BY <1>2, <2>3, <2>5, <2>6, <2>7
<1>25. CASE c = "l2" /\ k = "in" /\ ProcessIn(c, req, rest)
  <2>1. /\ InMoves("l2", req, rest, queue') /\ InStore("l2", req, store') /\ req.type \in Types
    BY <1>25, InMovesOn
  <2>2. PICK t, d, new : t = LookedUp("l2", req).store /\ d = Above(req.type) /\ new = Delayed(req, d)
    OBVIOUS
  <2>3. /\ store' = [store EXCEPT !["l2"] = t]
        /\ \A l \in Nat : Holds(store["l2"], l) => Holds(t, l)
    BY <2>1, <2>2, Zenon DEF InStore, AccessOK
  <2>4. /\ store'["l2"] = t /\ \A e \in {"l1i", "l1d"} : store'[e] = store[e]
        /\ d \in {"l1i", "l1d"} /\ req.type # "wb" /\ MissOf("l2", req) = req
    BY <1>4, <1>5, <2>1, <2>2, <2>3 DEF Above, Types, MissOf, L1s
  <2>5. Included(store')
    BY <2>3, <2>4 DEF Included
  <2>6. new.line = req.line /\ new.type = req.type
    BY <1>4, <1>7, <2>2, <2>4
  <2>7. \/ Fed(rest, queue', "l2", "out", req)
        \/ Fed(rest, queue', d, "fill", new) /\ Holds(store["l2"], req.line)
    BY <2>1, <2>2, <2>4, Zenon DEF InMoves
  <2>8. \/ Adds(rest, queue', "l2", "out", req)
        \/ Adds(rest, queue', d, "fill", new) /\ Holds(store["l2"], req.line)
    BY <1>4, <1>11, <2>4, <2>7
  <2>9. Covered(store', queue')
    <3>1. \A x \in Nat : Holds(store["l2"], x) => Holds(store'["l2"], x)
      BY <2>3, <2>4
    <3>2. CASE Adds(rest, queue', "l2", "out", req)
      BY <1>2, <1>4, <1>6, <3>1, <3>2, CoveredOn
    <3>3. CASE Adds(rest, queue', d, "fill", new) /\ Holds(store["l2"], req.line)
      <4>1. Holds(store'["l2"], new.line) /\ d \in Components
        BY <1>1, <1>4, <2>4, <2>6, <3>1, <3>3
      <4>. QED
        BY <1>2, <1>4, <1>6, <3>1, <3>3, <4>1, CoveredOn
    <3>. QED
      BY <2>8, <3>2, <3>3
  <2>10. NoWb(Leaving(rest) \cup Arriving(rest))
    <3>1. NoWb(Leaving(queue))
      BY <1>2, <1>25, <2>4 DEF Flows, Passed, OnlyWbs
    <3>2. NoWb(Arriving(queue))
      <4>1. req.left <= 0 /\ at = 6
        BY <1>2, <1>3, <1>25 DEF Ready
      <4>2. \A w \in Arriving(queue) : w.type = "wb" => w.left <= req.left
        BY <1>2, <1>25, <2>4 DEF Flows, InTime
      <4>3. \A w \in Arriving(queue) : w.left \in Int /\ ~(w.left <= 0)
        BY <1>4, <1>6, <4>1 DEF Flows, Passed, Arriving
      <4>. QED
        BY <1>1, <4>1, <4>2, <4>3 DEF NoWb
    <3>. QED
      BY <1>2, <1>4, <3>1, <3>2 DEF NoWb, Leaving, Arriving, Fewer
  <2>11. Flows(queue', at)
    BY <1>2, <1>4, <2>4, <2>6, <2>8, <2>10, AloneFlow
  <2>. QED
    BY <2>5, <2>9, <2>11
<1>26. CASE k = "fill" /\ req.type = "wb" /\ FillWriteBack(c, req, rest)
  <2>1. PICK a : a = Inserted("l2", req, "wb")
    OBVIOUS
  <2>2. /\ c = "l2" /\ queue' = rest
        /\ store' = [store EXCEPT !["l2"] = a.store]
        /\ AccessOK("l2", store["l2"], req.line, "wb", TRUE, a)
    BY <1>26, <2>1, FillWriteBackMoves
  <2>3. Holds(store["l2"], req.line)
    BY <1>2, <1>26, <2>2 DEF Covered, Arriving
  <2>4. \A l \in Nat : Holds(store["l2"], l) => Holds(a.store, l)
    BY <2>2, <2>3, Zenon DEF AccessOK
  <2>5. store'["l2"] = a.store /\ \A e \in {"l1i", "l1d"} : store'[e] = store[e]
    BY <1>4, <1>5, <2>2
  <2>6. Included(store')
    BY <2>4, <2>5 DEF Included
  <2>7. Covered(store', queue')
    <3>1. \A x \in Nat : Holds(store["l2"], x) => Holds(store'["l2"], x)
      BY <2>4, <2>5
    <3>. QED
      BY <1>2, <1>4, <1>6, <2>2, <3>1, CoveredOn
  <2>. QED
    BY <1>2, <2>2, <2>6, <2>7
<1>27. CASE k = "fill" /\ req.type # "wb" /\ c \in L1s /\ FillL1(c, req, rest)
  <2>1. PICK a : a = Inserted(c, req, FillType(req))
    OBVIOUS
  <2>2. /\ Evicts(rest, queue', c, a, FALSE)
        /\ AccessOK(c, store[c], req.line, FillType(req), TRUE, a)
        /\ store' = [store EXCEPT ![c] = a.store]
    BY <1>27, <2>1, FillL1Moves
  <2>3. c \in {"l1i", "l1d"}
    BY <1>3, <1>27 DEF L1s, Caches
  <2>4. /\ store'["l2"] = store["l2"] /\ store'[c] = a.store
        /\ \A e \in {"l1i", "l1d"} : e # c => store'[e] = store[e]
    BY <1>4, <1>5, <2>2, <2>3
  <2>5. /\ \A l \in Nat : Holds(a.store, l) => Holds(store[c], l) \/ l = req.line
        /\ a.dvictim \in Nat
        /\ a.dvictim # NoVictim => Holds(store[c], a.dvictim) /\ c # "l1i"
    BY <2>2, Zenon DEF AccessOK
  <2>6. Holds(store["l2"], req.line)
    BY <1>2, <1>27, <2>3 DEF Covered, Upwards
  <2>7. Included(store')
    BY <2>3, <2>4, <2>5, <2>6 DEF Included
  <2>8. CASE a.dvictim = NoVictim
    <3>1. queue' = rest
      BY <2>2, <2>8, Zenon DEF Evicts
    <3>2. Covered(store', queue')
      <4>1. \A x \in Nat : Holds(store["l2"], x) => Holds(store'["l2"], x)
        BY <2>4
      <4>. QED
        BY <1>2, <1>4, <1>6, <3>1, <4>1, CoveredOn
    <3>. QED
      BY <1>2, <2>7, <3>1, <3>2
  <2>9. CASE a.dvictim # NoVictim
    <3>1. PICK new : new = WriteBack(a.dvictim)
      OBVIOUS
    <3>2. /\ Fed(rest, queue', c, "wb", new) /\ new.type = "wb" /\ new.left = 0
          /\ new.line = a.dvictim /\ c = "l1d"
      BY <2>2, <2>3, <2>5, <2>9, <3>1, WriteBackOf DEF Evicts
    <3>3. Adds(rest, queue', "l1d", "wb", new) /\ at = 12
      BY <1>3, <1>4, <1>11, <1>27, <3>2
    <3>4. Holds(store["l2"], new.line)
      BY <2>3, <2>5, <2>9, <3>2 DEF Included
    <3>5. Covered(store', queue')
      <4>1. \A x \in Nat : Holds(store["l2"], x) => Holds(store'["l2"], x)
        BY <2>4
      <4>2. Holds(store'["l2"], new.line)
        BY <2>4, <3>4
      <4>. QED
        BY <1>2, <1>4, <1>6, <3>3, <4>1, <4>2, CoveredOn
    <3>6. Flows(queue', at)
      BY <1>2, <1>8, <1>27, <3>2, <3>3, EvictedFlow
    <3>. QED
      BY <2>7, <3>5, <3>6
  <2>. QED
    BY <2>8, <2>9
<1>28. CASE k = "fill" /\ req.type # "wb" /\ c = "l2" /\ FillL2(req, rest)
  <2>1. PICK a : a = Inserted("l2", req, req.type)
    OBVIOUS
  <2>2. /\ \E mid : /\ QueuesOK(mid) /\ Evicts(rest, mid, "l2", a, CopyDirty(a))
                    /\ Fed(mid, queue', Above(req.type), "fill", Delayed(req, Above(req.type)))
        /\ Above(req.type) \in {"l1i", "l1d"}
        /\ AccessOK("l2", store["l2"], req.line, req.type, TRUE, a)
        /\ FillL2Store(a, store')
    BY <1>28, <2>1, FillL2Moves, Zenon
  <2>3. PICK mid, d, new : /\ QueuesOK(mid) /\ Evicts(rest, mid, "l2", a, CopyDirty(a))
                           /\ d = Above(req.type) /\ new = Delayed(req, d)
                           /\ Fed(mid, queue', d, "fill", new)
    BY <2>2, Zenon
  <2>4. /\ d \in {"l1i", "l1d"} /\ d \in Components /\ new.line = req.line /\ new.type # "wb"
        /\ Adds(mid, queue', d, "fill", new)
    <3>1. d \in {"l1i", "l1d"} /\ Adds(mid, queue', d, "fill", new)
      BY <2>2, <2>3, Zenon DEF Fed, More
    <3>. QED
      BY <1>4, <1>7, <1>28, <2>3, <3>1
  <2>5. /\ Holds(a.store, req.line) /\ a.victim \in Nat /\ a.dvictim \in Nat
        /\ \A l \in Nat : Holds(store["l2"], l) => Holds(a.store, l) \/ l = a.victim
    BY <2>2, Zenon DEF AccessOK
  <2>6. store'["l2"] = a.store
    BY <1>4, <2>2 DEF FillL2Store
  <2>7. ASSUME NEW e \in {"l1i", "l1d"}, NEW l \in Nat, Holds(store'[e], l)
        PROVE  Holds(store["l2"], l) /\ l # a.victim
    <3>1. CASE a.victim # NoVictim
      <4>1. store'[e] = BackInvalidate(store[e], a.victim)
        BY <1>4, <2>2, <3>1 DEF FillL2Store
      <4>2. TagsOK(e, store[e])
        BY <1>4 DEF TypeInv, StoreOK
      <4>3. Holds(store[e], l) /\ l # a.victim
        BY <2>5, <2>7, <4>1, <4>2, BackInvalidateFacts
      <4>. QED
        BY <4>3 DEF Included
    <3>2. CASE a.victim = NoVictim
      <4>1. store'[e] = store[e]
        BY <1>4, <2>2, <3>2 DEF FillL2Store
      <4>. QED
        BY <1>4, <1>5, <2>7, <3>2, <4>1 DEF Included
    <3>. QED
      BY <3>1, <3>2
  <2>8. Included(store')
    BY <2>5, <2>6, <2>7 DEF Included
  <2>9. NoWb(Leaving(rest) \cup Arriving(rest))
    <3>1. req \in Late(queue)
      BY <1>2, <1>28 DEF Late
    <3>. QED
      BY <1>9, <1>28, <3>1
  <2>10. \/ mid = rest
         \/ \E w : Adds(rest, mid, "l2", "wb", w) /\ w.type = "wb"
    <3>1. WriteBack(a.dvictim).type = "wb" /\ WriteBack(a.victim).type = "wb"
      BY <2>5, WriteBackOf
    <3>. QED
      BY <2>3, <3>1, Zenon DEF Evicts, Fed, More
  <2>11. /\ Flows(mid, at) /\ NoWb(Leaving(mid) \cup Arriving(mid)) /\ Upwards(mid) \subseteq Upwards(rest)
    <3>1. CASE mid = rest
      BY <1>2, <2>9, <3>1
    <3>2. ASSUME NEW w, Adds(rest, mid, "l2", "wb", w), w.type = "wb"
          PROVE  /\ Flows(mid, at) /\ NoWb(Leaving(mid) \cup Arriving(mid))
                 /\ Upwards(mid) \subseteq Upwards(rest)
      <4>1. Flows(mid, at)
        BY <1>2, <1>4, <3>2, OutsideFlow
      <4>2. Joins(rest, mid, "l2", "wb", w)
        BY <1>4, <3>2, AddsJoins
      <4>. QED
        BY <2>9, <4>1, <4>2 DEF Joins, NoWb
    <3>. QED
      BY <2>10, <3>1, <3>2
  <2>12. Flows(queue', at)
    BY <1>4, <2>4, <2>11, AloneFlow
  <2>13. Covered(store', queue')
    <3>1. Joins(mid, queue', d, "fill", new)
      BY <1>4, <2>4, AddsJoins
    <3>2. NoWb(Leaving(queue') \cup Arriving(queue'))
      BY <2>4, <2>11, <3>1 DEF Joins, NoWb
    <3>3. ASSUME NEW x \in Upwards(rest) PROVE FALSE
      <4>1. x.type = "wb"
        BY <1>4, <1>8, <1>28, <3>3 DEF NoDemand, OnlyWbs, Upwards
      <4>2. x.type \in Allowed("l1i", "fill") \/ x.type \in Allowed("l1d", "fill")
        BY <1>1, <1>4, <3>3, Zenon DEF QueuesOK, KindsOK, Upwards
      <4>. QED
        BY <4>1, <4>2 DEF Allowed, Types
    <3>4. \A x \in Upwards(queue') : x = new
      BY <2>11, <3>1, <3>3 DEF Joins
    <3>. QED
      BY <2>4, <2>5, <2>6, <3>2, <3>4 DEF Covered, NoWb
  <2>. QED
    BY <2>8, <2>12, <2>13
<1>29. c # "dram" /\ k = "in" => c = "l2" \/ c \in {"l1i", "l1d"}
  BY <1>3
<1>. QED
  BY <1>20, <1>21, <1>22, <1>23, <1>24, <1>25, <1>26, <1>27, <1>28, <1>29, Zenon DEF Handle

LEMMA InitIncludes == Init => Inclusion
<1>. SUFFICES ASSUME Init PROVE Inclusion
  OBVIOUS
<1>1. /\ store = [c \in Caches |-> EmptyStore(Sets[c], Assoc[c])]
      /\ queue = NoRequests /\ at = 0
  BY Zenon DEF Init, NoRequests
<1>2. \A c \in Components : \A k \in Queues : In(queue, c, k) = {}
  BY <1>1, EmptyQueues, Zenon
<1>3. \A l \in Nat : ~Holds(store["l1i"], l) /\ ~Holds(store["l1d"], l)
  BY <1>1, EmptyTags DEF Caches
<1>4. Leaving(queue) = {} /\ Arriving(queue) = {} /\ Upwards(queue) = {}
  BY <1>2 DEF Leaving, Arriving, Upwards, Components, Caches, Queues
<1>5. Included(store) /\ Covered(store, queue)
  BY <1>3, <1>4 DEF Included, Covered
<1>6. Flows(queue, at)
  BY <1>1, <1>4 DEF Flows, Clear, InTime, Passed, NoWb
<1>. QED
  BY <1>5, <1>6, Zenon DEF Inclusion

LEMMA NextIncludes ==
  TypeInv /\ Tallied /\ OneAtATime /\ NonZero /\ Inclusion /\ [Next]_vars => Inclusion'
<1>. SUFFICES ASSUME TypeInv, Tallied, OneAtATime, NonZero, Inclusion, [Next]_vars,
                     mode' = "multi", single'
              PROVE  Included(store') /\ Covered(store', queue') /\ Flows(queue', at')
  BY Zenon DEF Inclusion
<1>0. mode' = mode /\ single' = single
  BY Zenon DEF Next, vars, Issue, Skip, EndTrace, Cycle, Wait, Drain, Process, EndCycle
<1>1. /\ mode = "multi" /\ single /\ Included(store) /\ Covered(store, queue) /\ Flows(queue, at)
      /\ QueuesOK(queue) /\ queue \in QueuesType /\ mode \in Modes
  BY <1>0, Zenon DEF Inclusion, TypeInv, QueuesOK
<1>2. Final = 15 /\ 1 \in 1..Final
  BY <1>1, MultiSchedule
<1>3. \A w \in Leaving(queue) \cup Arriving(queue) \cup Upwards(queue) :
        w.left \in Int /\ w.line \in Nat
  <2>1. \A d \in Components : \A j \in Queues : \A x \in In(queue, d, j) :
          x.left \in Int /\ x.line \in Nat
    BY <1>1, InOf DEF Request
  <2>. QED
    BY <2>1 DEF Leaving, Arriving, Upwards, Components, Caches, Queues
\* The walk of a cycle goes on from place i.
<1>4. ASSUME NEW i \in 1..15, at' = NextPlace(queue', i), queue' \in QueuesType, Flows(queue', i)
      PROVE  Flows(queue', at')
  <2>1. at' \in i..15 /\ \A j \in i..at' - 1 : Idle(queue', j)
    BY <1>0, <1>1, <1>2, <1>4, DueLater
  <2>2. PICK p : p = at'
    OBVIOUS
  <2>3. PICK q : q = queue'
    OBVIOUS
  <2>4. Passed(q, p)
    BY <1>1, <1>4, <2>1, <2>2, <2>3, PassedOn DEF Flows
  <2>. QED
    BY <1>4, <2>2, <2>3, <2>4 DEF Flows
<1>5. Flows(queue, 0) => Flows(queue, 1)
  BY DEF Flows, Passed
<1>11. ASSUME NEW a \in Accesses[single], Issue(a[1], a[2])
       PROVE  Included(store') /\ Covered(store', queue') /\ Flows(queue', at')
  <2>1. PICK c, req : c = Top(a[2]) /\ req = Delayed(NewRequest(a[1], a[2]), Top(a[2]))
    OBVIOUS
  <2>2. /\ Fed(queue, queue', c, "in", req) /\ c \in {"l1i", "l1d"} /\ req.left \in Nat
    <3>1. PICK n : n = NewRequest(a[1], a[2])
      OBVIOUS
    <3>2. /\ Fed(queue, queue', c, "in", req) /\ c \in {"l1i", "l1d"} /\ c \in Components
          /\ n \in Request /\ n.left = 0 /\ req = Delayed(n, c)
      BY <1>1, <1>11, <2>1, <3>1, IssueMoves, Zenon
    <3>3. Latency[c] \in Nat /\ req.left = n.left + Latency[c]
      BY <3>2, DelayedOf, Zenon
    <3>. QED
      BY <3>2, <3>3
  <2>3. at = 0 /\ at' = NextPlace(queue', 1) /\ UNCHANGED store
    BY <1>11, Zenon DEF Issue, MayRead
  <2>4. Adds(queue, queue', c, "in", req) /\ queue' \in QueuesType
    BY <2>2, Zenon DEF Fed, More, QueuesOK
  <2>5. Flows(queue', 1)
    BY <1>1, <1>3, <2>2, <2>3, <2>4, IssuedFlow
  <2>6. Flows(queue', at')
    BY <1>4, <2>3, <2>4, <2>5
  <2>7. Covered(store, queue')
    <3>1. Joins(queue, queue', c, "in", req)
      BY <2>2, <2>4, AddsJoins DEF Components, Caches, Queues
    <3>. QED
      BY <1>1, <3>1 DEF Covered, Joins
  <2>. QED
    BY <1>1, <2>3, <2>6, <2>7, Zenon DEF Included, Covered
<1>12. CASE Idling
  <2>1. at = 0 /\ at' = NextPlace(queue', 1) /\ UNCHANGED <<store, queue>>
    BY <1>12, Zenon DEF Idling
  <2>2. Flows(queue', 1) /\ queue' \in QueuesType
    BY <1>1, <1>5, <2>1
  <2>3. Flows(queue', at')
    BY <1>4, <2>1, <2>2
  <2>. QED
    BY <1>1, <2>1, <2>3
<1>13. CASE UNCHANGED <<store, queue, at>>
  BY <1>1, <1>13
<1>14. CASE Process
  <2>1. PICK c, k, req, rest : Taken(c, k, req, rest) /\ Handle(c, k, req, rest)
    BY <1>14, ProcessTakes, Zenon
  <2>2. at' = NextPlace(queue', at)
    BY <1>14, Zenon DEF Process
  <2>3. Included(store') /\ Covered(store', queue') /\ Flows(queue', at)
    BY <1>1, <2>1, HandleFlows
  <2>4. queue' \in QueuesType
    <3>1. Kept
      BY <2>1, HandleKeeps, Zenon
    <3>. QED
      BY <3>1, Zenon DEF Kept, QueuesOK
  <2>5. at \in 1..15
    BY <1>1, <1>2, <2>1 DEF Taken, Scheduled
  <2>6. Flows(queue', at')
    BY <1>4, <2>2, <2>3, <2>4, <2>5
  <2>. QED
    BY <2>3, <2>6
<1>15. CASE EndCycle
  <2>1. /\ at = 15 /\ at' = 0 /\ queue' = TickedQueues(queue) /\ UNCHANGED store
    BY <1>2, <1>15, Zenon DEF EndCycle, TickedQueues
  <2>2. Ticked(queue, queue')
    BY <1>1, <2>1, TickFacts
  <2>3. Flows(queue', at')
    BY <1>1, <2>1, <2>2, TickedFlow
  <2>4. Covered(store, queue')
    <3>1. \A c \in Components : \A k \in Queues : \A x \in In(queue', c, k) : \E y \in In(queue, c, k) :
            x.type = y.type /\ x.line = y.line
      <4>1. ASSUME NEW c \in Components, NEW k \in Queues, NEW x \in In(queue', c, k)
            PROVE  \E y \in In(queue, c, k) : x.type = y.type /\ x.line = y.line
        <5>1. PICK y \in In(queue, c, k) : x = Sooner(y)
          BY <2>2, <4>1 DEF Ticked
        <5>2. y \in Request
          BY <1>1, InOf
        <5>. QED
          BY <5>1, <5>2, SoonerOf
      <4>. QED
        BY <4>1
    <3>2. /\ \A x \in Leaving(queue') : \E y \in Leaving(queue) : x.type = y.type /\ x.line = y.line
          /\ \A x \in Arriving(queue') : \E y \in Arriving(queue) : x.type = y.type /\ x.line = y.line
          /\ \A x \in Upwards(queue') : \E y \in Upwards(queue) : x.type = y.type /\ x.line = y.line
      BY <3>1 DEF Leaving, Arriving, Upwards, Components, Caches, Queues
    <3>. QED
      BY <1>1, <3>2 DEF Covered
  <2>. QED
    BY <1>1, <2>1, <2>3, <2>4, Zenon DEF Included, Covered
<1>16. EndTrace \/ UNCHANGED vars => UNCHANGED <<store, queue, at>>
  BY Zenon DEF EndTrace, vars
<1>. QED
  BY <1>11, <1>12, <1>13, <1>14, <1>15, <1>16, NextCases, Zenon

\* What TypeInv, the lists and the flow say together
IncludeInv == TypeInv /\ Tallied /\ OneAtATime /\ NonZero /\ Inclusion

LEMMA Includes ==
  ASSUME NoLineZero
  PROVE  Spec => []IncludeInv
<1>1. Init => IncludeInv
  BY InitTypes, InitTallies, InitNonZero, InitIncludes, Zenon DEF IncludeInv
<1>2. IncludeInv /\ [Next]_vars => IncludeInv'
  BY NextTypes, NextTallies, NextNonZero, NextIncludes, Zenon DEF IncludeInv
<1>. QED
  BY <1>1, <1>2, PTL DEF Spec

\* While one request at a time is in flight, L2 holds every line that a level
\* 1 cache holds, in every step of a cycle: the victim of a fill of L2 is
\* invalidated above in the same step, and a write-back is at L2 before the
\* request that can evict its line.
THEOREM L2AlwaysIncludesL1 ==
  ASSUME NoLineZero
  PROVE  Spec => []L2IncludesL1
<1>1. IncludeInv => L2IncludesL1
  <2>1. Lines \subseteq Nat
    BY GeometryAssumption DEF Lines
  <2>. QED
    BY <2>1 DEF IncludeInv, Inclusion, Included, L2IncludesL1
<1>. QED
  BY <1>1, Includes, PTL

-----------------------------------------------------------------------------
(* The data of stores *)

DirtyIn(l, s) == \E c \in Caches : Dirty(s[c], l)
Travels(l, q) == \E c \in Components : \E k \in Queues : \E x \in In(q, c, k) :
                   x.type = "wb" /\ x.line = l
Saved(l, s, q) == DirtyIn(l, s) \/ Travels(l, q)

\* With one request at a time where there are two levels
DataCarried == (mode = "multi" => single) => \A l \in unsaved : Saved(l, store, queue)

LEMMA CarriedIsSaved ==
  ASSUME NEW l, NEW s, NEW q
  PROVE  Carried(l, s, q) <=> Saved(l, s, q)
  BY Zenon DEF Carried, Saved, DirtyIn, Travels, In

\* A request that is taken and one that joins
LEMMA TravelsOn ==
  ASSUME NEW c, NEW k, NEW req, NEW rest, Taken(c, k, req, rest), NEW l, Travels(l, queue)
  PROVE  Travels(l, rest) \/ (req.type = "wb" /\ req.line = l)
<1>1. Adds(rest, queue, c, k, req)
  BY RestLess
<1>2. PICK d \in Components, j \in Queues : \E x \in In(queue, d, j) : x.type = "wb" /\ x.line = l
  BY Zenon DEF Travels
<1>3. PICK x \in In(queue, d, j) : x.type = "wb" /\ x.line = l
  BY <1>2
<1>4. x = req \/ x \in In(rest, d, j)
  BY <1>1, <1>3, Zenon DEF Adds
<1>. QED
  BY <1>3, <1>4, Zenon DEF Travels

LEMMA TravelsFed ==
  ASSUME NEW q, NEW r, NEW c \in Components, NEW k \in Queues, NEW req, Fed(q, r, c, k, req)
  PROVE  /\ \A l : Travels(l, q) => Travels(l, r)
         /\ req.type = "wb" => Travels(req.line, r)
<1>1. /\ In(r, c, k) = {req} \cup In(q, c, k)
      /\ \A d \in Components : \A j \in Queues : In(q, d, j) \subseteq In(r, d, j)
  <2>1. Adds(q, r, c, k, req)
    BY Zenon DEF Fed, More
  <2>. QED
    BY <2>1 DEF Adds
<1>2. ASSUME NEW l, Travels(l, q)
      PROVE  Travels(l, r)
  <2>1. PICK d \in Components, j \in Queues : \E x \in In(q, d, j) : x.type = "wb" /\ x.line = l
    BY <1>2, Zenon DEF Travels
  <2>2. \E x \in In(r, d, j) : x.type = "wb" /\ x.line = l
    BY <1>1, <2>1
  <2>. QED
    BY <2>2, Zenon DEF Travels
<1>3. req.type = "wb" => Travels(req.line, r)
  <2>1. req \in In(r, c, k)
    BY <1>1
  <2>. QED
    BY <2>1, Zenon DEF Travels
<1>. QED
  BY <1>2, <1>3, Zenon

\* No line of l1i is dirty.
LEMMA CleanL1i ==
  ASSUME NEW s, TagsOK("l1i", s), NEW l \in Nat
  PROVE  ~Dirty(s, l)
<1>1. "l1i" \in Caches
  BY DEF Caches
<1>2. /\ l % Sets["l1i"] \in 0..Sets["l1i"] - 1
      /\ Dirty(s, l) <=> (\E w \in Ways("l1i") : HasEntry("l1i", s, l, w)
                                               /\ s[l % Sets["l1i"]].entry[w].dirty)
  BY <1>1, TagsLookup, Lookup
<1>3. \A w \in Ways("l1i") : s[l % Sets["l1i"]].entry[w].dirty = FALSE
  BY <1>2 DEF TagsOK, SetOK
<1>. QED
  BY <1>2, <1>3

\* A step that only moves requests
LEMMA MovedSaved ==
  ASSUME NEW c, NEW k, NEW req, NEW rest, Taken(c, k, req, rest), NEW l, NEW s, NEW t, NEW q,
         Saved(l, s, queue), DirtyIn(l, s) => DirtyIn(l, t),
         \/ q = rest /\ (req.type = "wb" => req.line # l)
         \/ \E d \in Components : \E j \in Queues : \E x :
              Fed(rest, q, d, j, x) /\ (req.type = "wb" => x.type = "wb" /\ x.line = req.line)
  PROVE  Saved(l, t, q)
<1>1. CASE DirtyIn(l, s)
  BY <1>1 DEF Saved
<1>2. CASE Travels(l, queue)
  <2>1. Travels(l, rest) \/ (req.type = "wb" /\ req.line = l)
    BY <1>2, TravelsOn
  <2>2. CASE q = rest /\ (req.type = "wb" => req.line # l)
    BY <2>1, <2>2, Zenon DEF Saved
  <2>3. ASSUME NEW d \in Components, NEW j \in Queues, NEW x, Fed(rest, q, d, j, x),
               req.type = "wb" => x.type = "wb" /\ x.line = req.line
        PROVE  Travels(l, q)
    <3>1. /\ Travels(l, rest) => Travels(l, q)
          /\ x.type = "wb" => Travels(x.line, q)
      BY <2>3, TravelsFed, Zenon
    <3>. QED
      BY <2>1, <2>3, <3>1
  <2>. QED
    BY <2>2, <2>3, Zenon DEF Saved
<1>. QED
  BY <1>1, <1>2 DEF Saved

LEMMA HandleCarries ==
  ASSUME TypeInv, NonZero, mode = "multi" => Covered(store, queue),
         \A l \in unsaved : Saved(l, store, queue),
         NEW c, NEW k, NEW req, NEW rest, Taken(c, k, req, rest), Handle(c, k, req, rest)
  PROVE  \A l \in unsaved' : Saved(l, store', queue')
<1>1. /\ c \in Components /\ k \in Queues /\ (c # "dram" => c \in Caches) /\ req \in Request
      /\ req.line \in Nat
  BY TakenParts
<1>2. /\ DOMAIN store = Caches /\ unsaved \subseteq Nat /\ NoVictim \notin unsaved /\ mode \in Modes
  BY Zenon DEF TypeInv, StoreOK, NonZero
<1>3. /\ "in" \in Queues /\ "out" \in Queues /\ "wb" \in Queues /\ "fill" \in Queues
      /\ \A x \in {"dram", "l2", "l1u", "l1i", "l1d"} : x \in Components
      /\ \A x \in {"l2", "l1u", "l1i", "l1d"} : x \in Caches
  BY DEF Queues, Components, Caches
<1>4. \A d \in Components : /\ Delayed(req, d).line = req.line
                            /\ Delayed(req, d).type = req.type
  BY <1>1, DelayedOf
<1>10. CASE c = "dram" /\ k = "in" /\ MemoryIn(req, rest)
  <2>1. UNCHANGED store
    BY <1>10, Zenon DEF MemoryIn
  <2>2. CASE req.type = "wb"
    <3>1. /\ queue' = rest
          /\ unsaved' = {l \in unsaved : l # req.line \/ Carried(l, store, rest)}
      BY <1>10, <2>2, Zenon DEF MemoryIn
    <3>2. ASSUME NEW l \in unsaved'
          PROVE  Saved(l, store', queue')
      <4>1. l \in unsaved /\ (l # req.line \/ Carried(l, store, rest))
        BY <3>1, <3>2
      <4>2. CASE l # req.line
        <5>1. Saved(l, store, queue')
          BY <3>1, <4>1, <4>2, MovedSaved
        <5>. QED
          BY <2>1, <5>1, Zenon DEF Saved, DirtyIn
      <4>3. CASE Carried(l, store, rest)
        BY <2>1, <3>1, <4>3, CarriedIsSaved, Zenon DEF Saved, DirtyIn
      <4>. QED
        BY <4>1, <4>2, <4>3
    <3>. QED
      BY <3>2
  <2>3. CASE req.type # "wb"
    <3>1. Fed(rest, queue', "dram", "out", req)
      BY <1>10, <2>3, MemoryInMoves, Zenon
    <3>2. UNCHANGED unsaved
      BY <1>10, <2>3, Zenon DEF MemoryIn
    <3>3. \A l \in unsaved : Saved(l, store, queue')
      BY <1>3, <2>3, <3>1, MovedSaved
    <3>. QED
      BY <2>1, <3>2, <3>3, Zenon DEF Saved, DirtyIn
  <2>. QED
    BY <2>2, <2>3
\* Requests that are handed on
<1>5. ASSUME UNCHANGED <<store, unsaved>>,
             \/ queue' = rest /\ req.type # "wb"
             \/ \E d \in Components : \E j \in Queues : \E x :
                  Fed(rest, queue', d, j, x) /\ (req.type = "wb" => x.type = "wb" /\ x.line = req.line)
      PROVE  \A l \in unsaved' : Saved(l, store', queue')
  <2>1. \A l \in unsaved : Saved(l, store, queue')
    BY <1>5, MovedSaved, Zenon
  <2>. QED
    BY <1>5, <2>1, Zenon DEF Saved, DirtyIn
<1>11. CASE c = "dram" /\ k = "out" /\ MemoryOut(req, rest)
  <2>1. UNCHANGED <<store, unsaved>>
    BY <1>11, Zenon DEF MemoryOut
  <2>2. /\ req.type # "wb"
        /\ \/ queue' = rest
           \/ Fed(rest, queue', "l1u", "fill", Delayed(req, "l1u"))
           \/ Fed(rest, queue', "l2", "fill", Delayed(req, "l2"))
    BY <1>2, <1>11, MemoryOutMoves
  <2>. QED
    BY <1>3, <1>5, <2>1, <2>2, Zenon
<1>12. CASE c # "dram" /\ k = "wb" /\ ProcessWb(c, req, rest)
  <2>1. UNCHANGED <<store, unsaved>>
    BY <1>12, Zenon DEF ProcessWb
  <2>2. Fed(rest, queue', c, "out", req)
    BY <1>12, WbMoves
  <2>. QED
    BY <1>1, <1>3, <1>5, <2>1, <2>2, Zenon
<1>13. CASE c # "dram" /\ k = "out" /\ ProcessOut(c, req, rest)
  <2>1. UNCHANGED <<store, unsaved>>
    BY <1>13, Zenon DEF ProcessOut
  <2>2. OutMoves(c, req, rest, queue')
    BY <1>13, OutMovesOn
  <2>3. \E d \in Components : \E j \in Queues : Fed(rest, queue', d, j, Delayed(req, d))
    BY <1>3, <2>2 DEF OutMoves
  <2>. QED
    BY <1>4, <1>5, <2>1, <2>3, Zenon
\* The store of one cache changes, and its dirty lines stay dirty.
<1>6. ASSUME NEW d \in Caches, NEW new, store' = [store EXCEPT ![d] = new],
             NEW l, Dirty(store[d], l) => Dirty(new, l)
      PROVE  DirtyIn(l, store) => DirtyIn(l, store')
  <2>1. \A e \in Caches : store'[e] = IF e = d THEN new ELSE store[e]
    BY <1>2, <1>6
  <2>2. ASSUME NEW e \in Caches, Dirty(store[e], l)
        PROVE  Dirty(store'[e], l)
    BY <1>6, <2>1, <2>2
  <2>. QED
    BY <2>2, Zenon DEF DirtyIn
<1>7. ASSUME NEW d \in Caches, NEW new, store' = [store EXCEPT ![d] = new], NEW l, Dirty(new, l)
      PROVE  Saved(l, store', queue')
  <2>1. store'[d] = new
    BY <1>2, <1>7
  <2>. QED
    BY <1>7, <2>1, Zenon DEF Saved, DirtyIn
<1>14. CASE c # "dram" /\ k = "in" /\ ProcessIn(c, req, rest)
  <2>1. /\ InMoves(c, req, rest, queue') /\ InStore(c, req, store') /\ req.type \in Types
        /\ unsaved' = IF Holds(store[c], req.line) /\ req.type = "store"
                      THEN unsaved \cup {req.line} ELSE unsaved
    BY <1>14, InMovesOn
  <2>2. PICK t : t = LookedUp(c, req).store
    OBVIOUS
  <2>3. /\ store' = [store EXCEPT ![c] = t]
        /\ \A l \in Nat : Dirty(store[c], l) => Dirty(t, l)
        /\ req.type = "store" /\ Holds(store[c], req.line) => Dirty(t, req.line)
    BY <2>1, <2>2, Zenon DEF InStore, AccessOK
  <2>4. \/ queue' = rest
        \/ Fed(rest, queue', c, "out", MissOf(c, req))
        \/ Fed(rest, queue', Above(req.type), "fill", Delayed(req, Above(req.type)))
    <3>1. c \in L1s \/ c = "l2"
      BY <1>1, <1>14 DEF L1s
    <3>. QED
      BY <2>1, <3>1, Zenon DEF InMoves
  <2>5. req.type # "wb" /\ Above(req.type) \in Components
    BY <1>3, <2>1 DEF Types, Above
  <2>6. ASSUME NEW l \in unsaved
        PROVE  Saved(l, store', queue')
    <3>1. DirtyIn(l, store) => DirtyIn(l, store')
      BY <1>1, <1>2, <1>6, <1>14, <2>3
    <3>2. \/ queue' = rest
          \/ \E d \in Components : \E j \in Queues : \E x : Fed(rest, queue', d, j, x)
      BY <1>1, <1>3, <2>4, <2>5, Zenon
    <3>. QED
      BY <2>5, <2>6, <3>1, <3>2, MovedSaved
  <2>7. ASSUME Holds(store[c], req.line), req.type = "store"
        PROVE  Saved(req.line, store', queue')
    BY <1>1, <1>7, <1>14, <2>3, <2>7
  <2>. QED
    BY <2>1, <2>6, <2>7
<1>15. CASE k = "fill" /\ req.type = "wb" /\ FillWriteBack(c, req, rest)
  <2>1. PICK a : a = Inserted("l2", req, "wb")
    OBVIOUS
  <2>2. /\ c = "l2" /\ queue' = rest /\ UNCHANGED unsaved
        /\ store' = [store EXCEPT !["l2"] = a.store]
        /\ AccessOK("l2", store["l2"], req.line, "wb", TRUE, a)
    BY <1>15, <2>1, FillWriteBackMoves
  <2>3. mode = "multi"
    <3>1. mode \in {"dram", "single", "multi"}
      BY <1>2, GeometryAssumption
    <3>2. /\ mode = "dram" => c = "dram"
          /\ mode = "single" => c \in {"dram", "l1u"}
      BY Zenon DEF Taken, Scheduled
    <3>. QED
      BY <2>2, <3>1, <3>2
  <2>4. Holds(store["l2"], req.line)
    <3>1. req \in Arriving(queue)
      BY <1>15, <2>2, Zenon DEF Taken, Arriving
    <3>. QED
      BY <1>15, <2>3, <3>1 DEF Covered
  <2>5. /\ Dirty(a.store, req.line)
        /\ \A l \in Nat : Dirty(store["l2"], l) => Dirty(a.store, l)
    BY <2>2, <2>4, Zenon DEF AccessOK
  <2>6. ASSUME NEW l \in unsaved
        PROVE  Saved(l, store', queue')
    <3>1. CASE l = req.line
      BY <1>3, <1>7, <2>2, <2>5, <3>1
    <3>2. CASE l # req.line
      <4>1. DirtyIn(l, store) => DirtyIn(l, store')
        BY <1>2, <1>3, <1>6, <2>2, <2>5
      <4>. QED
        BY <2>2, <2>6, <3>2, <4>1, MovedSaved
    <3>. QED
      BY <3>1, <3>2
  <2>. QED
    BY <2>2, <2>6
<1>16. CASE k = "fill" /\ req.type # "wb" /\ c \in L1s /\ FillL1(c, req, rest)
  <2>1. PICK a : a = Inserted(c, req, FillType(req))
    OBVIOUS
  <2>2. /\ Evicts(rest, queue', c, a, FALSE)
        /\ AccessOK(c, store[c], req.line, FillType(req), TRUE, a)
        /\ store' = [store EXCEPT ![c] = a.store]
        /\ unsaved' = IF FillType(req) = "store" THEN unsaved \cup {req.line} ELSE unsaved
    BY <1>16, <2>1, FillL1Moves
  <2>3. c \in Caches
    BY <1>16 DEF L1s
  <2>4. /\ \A l \in Nat : Dirty(store[c], l) => Dirty(a.store, l) \/ l = a.dvictim
        /\ FillType(req) = "store" => Dirty(a.store, req.line)
        /\ a.dvictim \in Nat
    BY <2>2, Zenon DEF AccessOK
  <2>5. WriteBack(a.dvictim).type = "wb" /\ WriteBack(a.dvictim).line = a.dvictim
    BY <2>4, WriteBackOf
  <2>6. queue' = rest \/ Fed(rest, queue', c, "wb", WriteBack(a.dvictim))
    BY <2>2, Zenon DEF Evicts
  <2>7. ASSUME NEW l \in unsaved
        PROVE  Saved(l, store', queue')
    <3>1. CASE Dirty(store[c], l) => Dirty(a.store, l)
      <4>1. DirtyIn(l, store) => DirtyIn(l, store')
        BY <1>6, <2>2, <2>3, <3>1
      <4>. QED
        BY <1>1, <1>3, <1>16, <2>6, <4>1, MovedSaved, Zenon
    <3>2. CASE l = a.dvictim
      <4>1. a.dvictim # NoVictim
        BY <1>2, <3>2
      <4>2. Fed(rest, queue', c, "wb", WriteBack(a.dvictim))
        BY <2>2, <4>1, Zenon DEF Evicts
      <4>3. Travels(l, queue')
        BY <1>1, <1>3, <2>5, <3>2, <4>2, TravelsFed, Zenon
      <4>. QED
        BY <4>3, Zenon DEF Saved
    <3>. QED
      BY <1>2, <2>4, <3>1, <3>2
  <2>8. ASSUME FillType(req) = "store"
        PROVE  Saved(req.line, store', queue')
    BY <1>7, <2>2, <2>3, <2>4, <2>8
  <2>. QED
    BY <2>2, <2>7, <2>8
<1>17. CASE k = "fill" /\ req.type # "wb" /\ c = "l2" /\ FillL2(req, rest)
  <2>1. PICK a : a = Inserted("l2", req, req.type)
    OBVIOUS
  <2>2. /\ \E mid : /\ QueuesOK(mid) /\ Evicts(rest, mid, "l2", a, CopyDirty(a))
                    /\ Fed(mid, queue', Above(req.type), "fill", Delayed(req, Above(req.type)))
        /\ Above(req.type) \in {"l1i", "l1d"}
        /\ AccessOK("l2", store["l2"], req.line, req.type, TRUE, a)
        /\ FillL2Store(a, store') /\ UNCHANGED unsaved
    BY <1>17, <2>1, FillL2Moves, Zenon
  <2>3. PICK mid, d, new : /\ Evicts(rest, mid, "l2", a, CopyDirty(a)) /\ d \in {"l1i", "l1d"}
                           /\ Fed(mid, queue', d, "fill", new)
    BY <2>2, Zenon
  <2>4. /\ \A l \in Nat : Dirty(store["l2"], l) => Dirty(a.store, l) \/ l = a.dvictim
        /\ a.dvictim \in Nat /\ a.victim \in Nat
        /\ a.dvictim # NoVictim => a.dvictim = a.victim
    BY <2>2, Zenon DEF AccessOK
  <2>5. /\ WriteBack(a.dvictim).type = "wb" /\ WriteBack(a.dvictim).line = a.dvictim
        /\ WriteBack(a.victim).type = "wb" /\ WriteBack(a.victim).line = a.victim
    BY <2>4, WriteBackOf
  <2>6. \A l : Travels(l, mid) => Travels(l, queue')
    BY <1>3, <2>3, TravelsFed
  <2>7. \A l : Travels(l, rest) => Travels(l, mid)
    BY <1>3, <2>3, TravelsFed, Zenon DEF Evicts
  <2>8. ASSUME NEW l \in unsaved
        PROVE  Saved(l, store', queue')
    <3>1. l \in Nat /\ l # NoVictim
      BY <1>2
    <3>2. ASSUME l = a.dvictim \/ (l = a.victim /\ Dirty(store["l1d"], l))
          PROVE  Saved(l, store', queue')
      <4>1. Travels(l, mid)
        <5>1. CASE a.dvictim # NoVictim
          <6>1. Fed(rest, mid, "l2", "wb", WriteBack(a.dvictim)) /\ l = a.dvictim
            BY <2>3, <2>4, <3>2, <5>1, Zenon DEF Evicts
          <6>. QED
            BY <1>3, <2>5, <6>1, TravelsFed, Zenon
        <5>2. CASE a.dvictim = NoVictim
          <6>1. l = a.victim /\ CopyDirty(a)
            BY <3>1, <3>2, <5>2, Zenon DEF CopyDirty
          <6>2. Fed(rest, mid, "l2", "wb", WriteBack(a.victim))
            BY <2>3, <5>2, <6>1, Zenon DEF Evicts
          <6>. QED
            BY <1>3, <2>5, <6>1, <6>2, TravelsFed, Zenon
        <5>. QED
          BY <5>1, <5>2
      <4>. QED
        BY <2>6, <4>1, Zenon DEF Saved
    <3>3. ASSUME NEW e \in Caches, Dirty(store[e], l)
          PROVE  Saved(l, store', queue')
      <4>1. CASE e = "l2"
        <5>1. store'[e] = a.store
          BY <2>2, <4>1 DEF FillL2Store
        <5>. QED
          BY <2>4, <3>1, <3>2, <3>3, <4>1, <5>1, Zenon DEF Saved, DirtyIn
      <4>2. CASE e \in {"l1d", "l1i"} /\ a.victim # NoVictim
        <5>1. store'[e] = BackInvalidate(store[e], a.victim)
          BY <2>2, <4>2 DEF FillL2Store
        <5>2. TagsOK(e, store[e])
          BY DEF TypeInv, StoreOK
        <5>3. Dirty(store'[e], l) \/ l = a.victim
          BY <2>4, <3>1, <3>3, <4>2, <5>1, <5>2, BackInvalidateFacts
        <5>4. e = "l1d"
          BY <3>1, <3>3, <4>2, <5>2, CleanL1i
        <5>. QED
          BY <3>2, <3>3, <5>3, <5>4, Zenon DEF Saved, DirtyIn
      <4>3. CASE e # "l2" /\ ~(e \in {"l1d", "l1i"} /\ a.victim # NoVictim)
        <5>1. store'[e] = store[e]
          BY <2>2, <4>3 DEF FillL2Store
        <5>. QED
          BY <3>3, <5>1, Zenon DEF Saved, DirtyIn
      <4>. QED
        BY <4>1, <4>2, <4>3
    <3>4. ASSUME Travels(l, queue)
          PROVE  Saved(l, store', queue')
      <4>1. Travels(l, rest)
        BY <1>17, <3>4, TravelsOn, Zenon
      <4>. QED
        BY <2>6, <2>7, <4>1, Zenon DEF Saved
    <3>. QED
      BY <3>3, <3>4, Zenon DEF Saved, DirtyIn
  <2>. QED
    BY <2>2, <2>8
<1>. QED
  BY <1>10, <1>11, <1>12, <1>13, <1>14, <1>15, <1>16, <1>17, Zenon DEF Handle

LEMMA NextCarries ==
  TypeInv /\ NonZero /\ Inclusion /\ DataCarried /\ [Next]_vars => DataCarried'
<1>. SUFFICES ASSUME TypeInv, NonZero, Inclusion, DataCarried, [Next]_vars,
                     mode' = "multi" => single'
              PROVE  \A l \in unsaved' : Saved(l, store', queue')
  BY Zenon DEF DataCarried
<1>0. mode' = mode /\ single' = single
  BY Zenon DEF Next, vars, Issue, Skip, EndTrace, Cycle, Wait, Drain, Process, EndCycle
<1>1. /\ mode = "multi" => Covered(store, queue)
      /\ \A l \in unsaved : Saved(l, store, queue)
      /\ queue \in QueuesType
  BY <1>0, Zenon DEF Inclusion, DataCarried, TypeInv, QueuesOK
<1>2. ASSUME NEW a \in Accesses[single], Issue(a[1], a[2])
      PROVE  \A l \in unsaved' : Saved(l, store', queue')
  <2>1. PICK c, req : c = Top(a[2]) /\ req = Delayed(NewRequest(a[1], a[2]), Top(a[2]))
    OBVIOUS
  <2>2. Fed(queue, queue', c, "in", req) /\ c \in Components /\ "in" \in Queues
    BY <1>2, <2>1, IssueMoves DEF Queues
  <2>3. UNCHANGED <<store, unsaved>>
    BY <1>2, Zenon DEF Issue
  <2>4. \A l : Travels(l, queue) => Travels(l, queue')
    BY <2>2, TravelsFed, Zenon
  <2>. QED
    BY <1>1, <2>3, <2>4, Zenon DEF Saved, DirtyIn
<1>3. CASE UNCHANGED <<store, queue, unsaved>>
  BY <1>1, <1>3
<1>4. CASE Process
  BY <1>1, <1>4, ProcessTakes, HandleCarries, Zenon
<1>5. CASE EndCycle
  <2>1. queue' = TickedQueues(queue) /\ UNCHANGED <<store, unsaved>>
    BY <1>5, Zenon DEF EndCycle, TickedQueues
  <2>2. Ticked(queue, queue')
    BY <1>1, <2>1, TickFacts
  <2>3. ASSUME NEW l, Travels(l, queue)
        PROVE  Travels(l, queue')
    <3>1. PICK c \in Components, k \in Queues : \E x \in In(queue, c, k) : x.type = "wb" /\ x.line = l
      BY <2>3, Zenon DEF Travels
    <3>2. PICK x \in In(queue, c, k) : x.type = "wb" /\ x.line = l
      BY <3>1
    <3>3. Sooner(x) \in In(queue', c, k)
      BY <2>2 DEF Ticked
    <3>4. Sooner(x).type = "wb" /\ Sooner(x).line = l
      <4>1. x \in Request
        BY <1>1, InOf
      <4>. QED
        BY <3>2, <4>1, SoonerOf
    <3>. QED
      BY <3>3, <3>4, Zenon DEF Travels
  <2>. QED
    BY <1>1, <2>1, <2>3, Zenon DEF Saved, DirtyIn
<1>6. Idling \/ EndTrace \/ UNCHANGED vars => UNCHANGED <<store, queue, unsaved>>
  BY Zenon DEF Idling, EndTrace, vars
<1>. QED
  BY <1>2, <1>3, <1>4, <1>5, <1>6, NextCases, Zenon

\* No store is lost while one request at a time is in flight: until memory has
\* the data of a store, a cache holds its line dirty or a write-back of it is
\* in a queue.
THEOREM NoStoreLost ==
  ASSUME NoLineZero
  PROVE  Spec => []StoresAreCarried
<1>1. Init => DataCarried
  BY DEF Init, DataCarried
<1>2. IncludeInv /\ DataCarried /\ [Next]_vars => DataCarried'
  BY NextCarries, Zenon DEF IncludeInv
<1>3. DataCarried => StoresAreCarried
  BY CarriedIsSaved, Zenon DEF DataCarried, StoresAreCarried
<1>4. Spec => []DataCarried
  BY <1>1, <1>2, Includes, PTL DEF Spec
<1>. QED
  BY <1>3, <1>4, PTL
=============================================================================
