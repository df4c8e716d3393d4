---------------------------- MODULE MallocProofs ----------------------------
(***************************************************************************)
(* The allocator, for every heap limit, chunk, number of lists, request    *)
(* and set of users.                                                       *)
(***************************************************************************)
EXTENDS Malloc, FiniteSetTheorems, WellFoundedInduction, TLAPS

Words == 0..2 * Limit
Heaps == [mem : [Words -> Int], list : [Lists -> Nat], brk : 2..Limit]

-----------------------------------------------------------------------------
(* Words and tags *)

\* What a heap is made of
LEMMA HeapType ==
  ASSUME NEW h \in Heaps
  PROVE  /\ h.mem \in [Words -> Int] /\ h.list \in [Lists -> Nat] /\ h.brk \in 2..Limit
         /\ Limit \in Nat
  BY SizeAssumption DEF Heaps

Wrote(h, g, w, x) == /\ g \in Heaps /\ g.list = h.list /\ g.brk = h.brk /\ g.mem[w] = x
                     /\ \A v \in Words : v # w => g.mem[v] = h.mem[v]

\* Put changes one word.
LEMMA PutFacts ==
  ASSUME NEW h \in Heaps, NEW w \in Words, NEW x \in Int
  PROVE  Wrote(h, Put(h, w, x), w, x)
  BY DEF Heaps, Put, Wrote

\* A tag gives back the size and the mark it was packed from.
LEMMA TagValue ==
  ASSUME NEW size \in Nat, NEW a \in {0, 1}
  PROVE  /\ PACK(size, a) \in Int /\ GET_SIZE(PACK(size, a)) = size
         /\ GET_ALLOC(PACK(size, a)) <=> a = 1
  BY DEF PACK, GET_SIZE, GET_ALLOC

\* The words of a block's tags lead from its first unit to the one behind it.
Tagged(h, g, b, e, a) ==
  /\ g \in Heaps /\ g.list = h.list /\ g.brk = h.brk
  /\ g.mem[2 * b - 1] = PACK(e - b, a) /\ g.mem[2 * e - 2] = PACK(e - b, a)
  /\ \A v \in Words : v # 2 * b - 1 /\ v # 2 * e - 2 => g.mem[v] = h.mem[v]

\* Tag writes the header, and the footer where the new size puts it.
LEMMA TagFacts ==
  ASSUME NEW h \in Heaps, NEW b \in 2..Limit, NEW e \in 2..Limit, b < e, NEW a \in {0, 1},
         NEW size, size = e - b
  PROVE  Tagged(h, Tag(h, b, size, a), b, e, a)
<1>1. Limit \in Nat /\ size \in Nat
  BY HeapType
<1>2. PACK(size, a) \in Int /\ GET_SIZE(PACK(size, a)) = size
  BY <1>1, TagValue
<1>3. PICK x : x = Put(h, Header(b), PACK(size, a))
  OBVIOUS
<1>4. 2 * b - 1 \in Words /\ 2 * e - 2 \in Words /\ 2 * b - 1 # 2 * e - 2
  BY <1>1 DEF Words
<1>5. Wrote(h, x, 2 * b - 1, PACK(size, a))
  BY <1>2, <1>3, <1>4, PutFacts DEF Header
<1>6. Footer(x, b) = 2 * e - 2
  BY <1>1, <1>2, <1>5 DEF Wrote, Footer, SizeOf, Header
<1>7. PICK g : g = Put(x, Footer(x, b), PACK(size, a))
  OBVIOUS
<1>8. Wrote(x, g, 2 * e - 2, PACK(size, a))
  <2>1. x \in Heaps
    BY <1>5 DEF Wrote
  <2>. QED BY <1>2, <1>4, <1>6, <1>7, <2>1, PutFacts
<1>9. g = Tag(h, b, size, a)
  BY <1>3, <1>7 DEF Tag
<1>10. Tagged(h, g, b, e, a)
  BY <1>4, <1>5, <1>8 DEF Wrote, Tagged
<1>. QED
  BY <1>9, <1>10

-----------------------------------------------------------------------------
(* Tilings *)

BlockOK(h, B, b) ==
  /\ SizeOf(h, b) \in Nat /\ SizeOf(h, b) >= 2
  /\ NEXT_BLKP(h, b) \in B \cup {h.brk}
  /\ h.mem[Footer(h, b)] = h.mem[Header(b)]

\* B is the set of blocks of h: they follow each other from the prologue, unit 1,
\* to the epilogue at the break.
Tiled(h, B) ==
  /\ h \in Heaps
  /\ \A b \in B : b \in Nat /\ b >= 2 /\ b < h.brk
  /\ h.mem[2 * h.brk - 1] = PACK(0, 1) /\ h.mem[1] = PACK(1, 1) /\ h.mem[2] = PACK(1, 1)
  /\ 2 \in B \cup {h.brk}
  /\ \A b \in B : BlockOK(h, B, b)
  /\ \A b, c \in B : b < c => NEXT_BLKP(h, b) <= c
  /\ \A b \in B \cup {h.brk} : b = 2 \/ \E p \in B : NEXT_BLKP(h, p) = b

\* A block's header says all that the neighbours need to know of it.
LEMMA SameBlock ==
  ASSUME NEW h, NEW g, NEW b, g.mem[2 * b - 1] = h.mem[2 * b - 1]
  PROVE  /\ SizeOf(g, b) = SizeOf(h, b) /\ IsAllocated(g, b) = IsAllocated(h, b)
         /\ NEXT_BLKP(g, b) = NEXT_BLKP(h, b) /\ Footer(g, b) = Footer(h, b)
  BY DEF SizeOf, IsAllocated, NEXT_BLKP, Footer, Header

\* Where a block's words are
LEMMA BlockWords ==
  ASSUME NEW h, NEW B, Tiled(h, B), NEW b \in B
  PROVE  /\ b \in Nat /\ b >= 2 /\ b + 2 <= NEXT_BLKP(h, b)
         /\ NEXT_BLKP(h, b) \in Nat /\ NEXT_BLKP(h, b) <= h.brk /\ h.brk <= Limit /\ h.brk \in Nat
         /\ SizeOf(h, b) = NEXT_BLKP(h, b) - b /\ SizeOf(h, b) \in Nat
         /\ Footer(h, b) = 2 * NEXT_BLKP(h, b) - 2
         /\ Limit \in Nat
         /\ \A v \in Int : 2 * b - 1 <= v /\ v <= 2 * NEXT_BLKP(h, b) - 1 => v \in Words
<1>1. /\ b \in Nat /\ b >= 2 /\ SizeOf(h, b) \in Nat /\ SizeOf(h, b) >= 2
      /\ NEXT_BLKP(h, b) \in B \cup {h.brk} /\ \A c \in B : c \in Nat /\ c < h.brk
      /\ h \in Heaps
  BY DEF Tiled, BlockOK
<1>2. h.brk \in 2..Limit /\ Limit \in Nat
  BY <1>1, HeapType
<1>3. NEXT_BLKP(h, b) = b + SizeOf(h, b) /\ Footer(h, b) = 2 * (b + SizeOf(h, b)) - 2
  BY DEF NEXT_BLKP, Footer
<1>4. NEXT_BLKP(h, b) <= h.brk
  BY <1>1, <1>2, <1>3
<1>. QED
  BY <1>1, <1>2, <1>3, <1>4 DEF Words

\* The blocks when those from s up to e have become one
Joint(B, s, e) == {c \in B : c <= s \/ c >= e}

\* Blocks that keep their tags
SameTags(h, g, S) == \A c \in S : g.mem[2 * c - 1] = h.mem[2 * c - 1]

\* A tag over several whole blocks makes one block of them.
LEMMA TagTiles ==
  ASSUME NEW h, NEW B, Tiled(h, B), NEW s \in B, NEW e \in B \cup {h.brk}, s < e,
         NEW a \in {0, 1}, NEW g, Tagged(h, g, s, e, a)
  PROVE  /\ Tiled(g, Joint(B, s, e)) /\ s \in Joint(B, s, e)
         /\ SizeOf(g, s) = e - s /\ NEXT_BLKP(g, s) = e /\ (IsAllocated(g, s) <=> a = 1)
         /\ SameTags(h, g, Joint(B, s, e) \ {s})
<1> DEFINE C == Joint(B, s, e)
<1>1. /\ h.brk \in Nat /\ h.brk <= Limit /\ Limit \in Nat /\ g.brk = h.brk /\ g \in Heaps
      /\ \A b \in B : b \in Nat /\ b >= 2 /\ b < h.brk
  BY HeapType DEF Tiled, Tagged
<1>2. /\ s \in Nat /\ e \in Nat /\ s >= 2 /\ e <= h.brk /\ s + 2 <= e
  <2>1. s \in Nat /\ s >= 2 /\ e \in Nat /\ e <= h.brk
    BY <1>1
  <2>2. NEXT_BLKP(h, s) <= e
    BY <2>1, BlockWords DEF Tiled
  <2>3. s + 2 <= NEXT_BLKP(h, s) /\ NEXT_BLKP(h, s) \in Nat
    BY BlockWords
  <2>. QED BY <2>1, <2>2, <2>3
<1>3. C \subseteq B /\ s \in C /\ \A c \in C : c \in Nat /\ (c <= s \/ c >= e)
  BY <1>1, <1>2 DEF Joint
<1>4. SameTags(h, g, C \ {s})
  <2>1. SUFFICES ASSUME NEW c \in C \ {s} PROVE g.mem[2 * c - 1] = h.mem[2 * c - 1]
    BY DEF SameTags
  <2>2. c \in Nat /\ c >= 2 /\ c < h.brk /\ c # s
    BY <1>1, <1>3
  <2>3. 2 * c - 1 \in Words /\ 2 * c - 1 # 2 * s - 1 /\ 2 * c - 1 # 2 * e - 2
    BY <1>1, <1>2, <2>2 DEF Words
  <2>. QED BY <2>3 DEF Tagged
<1>5. SizeOf(g, s) = e - s /\ (IsAllocated(g, s) <=> a = 1) /\ NEXT_BLKP(g, s) = e
  <2>1. e - s \in Nat
    BY <1>2
  <2>2. SizeOf(g, s) = e - s /\ (IsAllocated(g, s) <=> a = 1)
    BY <2>1, TagValue DEF SizeOf, IsAllocated, Header, Tagged
  <2>. QED BY <1>2, <2>2 DEF NEXT_BLKP
<1>6. BlockOK(g, C, s)
  <2>1. e \in C \cup {g.brk}
    BY <1>1, <1>2 DEF Joint
  <2>2. Footer(g, s) = 2 * e - 2 /\ Header(s) = 2 * s - 1
    BY <1>2, <1>5 DEF Footer, Header
  <2>. QED BY <1>2, <1>5, <2>1, <2>2 DEF BlockOK, Tagged
<1>7. \A c \in C \ {s} : /\ NEXT_BLKP(g, c) = NEXT_BLKP(h, c)
                         /\ SizeOf(g, c) = SizeOf(h, c) /\ Footer(g, c) = Footer(h, c)
  BY <1>4, SameBlock DEF SameTags
<1>8. \A c \in C \ {s} : IF c < s THEN NEXT_BLKP(h, c) <= s ELSE c >= e /\ NEXT_BLKP(h, c) > e
  <2>1. SUFFICES ASSUME NEW c \in C \ {s}
        PROVE IF c < s THEN NEXT_BLKP(h, c) <= s ELSE c >= e /\ NEXT_BLKP(h, c) > e
    OBVIOUS
  <2>2. c \in B /\ c \in Nat /\ c # s /\ (c <= s \/ c >= e)
    BY <1>3
  <2>3. c + 2 <= NEXT_BLKP(h, c) /\ NEXT_BLKP(h, c) \in Nat
    BY <2>2, BlockWords
  <2>4. c < s => NEXT_BLKP(h, c) <= s
    BY <2>2 DEF Tiled
  <2>. QED BY <1>2, <2>2, <2>3, <2>4
<1>9. \A c \in C \ {s} : BlockOK(g, C, c)
  <2>1. SUFFICES ASSUME NEW c \in C \ {s} PROVE BlockOK(g, C, c)
    OBVIOUS
  <2>2. c \in B /\ c \in Nat /\ c >= 2 /\ BlockOK(h, B, c)
    BY <1>1, <1>3 DEF Tiled
  <2>3. NEXT_BLKP(h, c) \in Nat /\ NEXT_BLKP(h, c) <= h.brk /\ Footer(h, c) = 2 * NEXT_BLKP(h, c) - 2
        /\ c + 2 <= NEXT_BLKP(h, c)
    BY <2>2, BlockWords
  <2>4. NEXT_BLKP(h, c) # e
    BY <1>2, <1>8, <2>2, <2>3
  <2>5. Footer(h, c) \in Words /\ Footer(h, c) # 2 * e - 2 /\ Footer(h, c) # 2 * s - 1
    BY <1>1, <1>2, <2>2, <2>3, <2>4 DEF Words
  <2>6. g.mem[Footer(g, c)] = h.mem[Footer(h, c)]
    BY <1>7, <2>5 DEF Tagged
  <2>7. g.mem[Header(c)] = h.mem[Header(c)]
    BY <1>4 DEF SameTags, Header
  <2>8. NEXT_BLKP(h, c) \in C \cup {h.brk}
    BY <1>8, <2>2, <2>3 DEF BlockOK, Joint
  <2>. QED BY <1>1, <1>7, <2>2, <2>6, <2>7, <2>8 DEF BlockOK
<1>10. \A b, c \in C : b < c => NEXT_BLKP(g, b) <= c
  <2>1. SUFFICES ASSUME NEW b \in C, NEW c \in C, b < c PROVE NEXT_BLKP(g, b) <= c
    OBVIOUS
  <2>2. CASE b = s
    BY <1>2, <1>3, <1>5, <2>1, <2>2
  <2>3. CASE b # s
    BY <1>3, <1>7, <2>1, <2>3 DEF Tiled
  <2>. QED BY <2>2, <2>3
<1>11. \A b \in C \cup {g.brk} : b = 2 \/ \E p \in C : NEXT_BLKP(g, p) = b
  <2>1. SUFFICES ASSUME NEW b \in C \cup {g.brk}, b # 2 PROVE \E p \in C : NEXT_BLKP(g, p) = b
    OBVIOUS
  <2>2. CASE b = e
    BY <1>3, <1>5, <2>2
  <2>3. CASE b # e
    <3>1. PICK p \in B : NEXT_BLKP(h, p) = b
      BY <1>1, <1>3, <2>1 DEF Tiled
    <3>2. p \in Nat /\ p + 2 <= b /\ b \in Nat /\ (b <= s \/ b > e)
      <4>1. p \in Nat /\ p + 2 <= b /\ b \in Nat
        BY <3>1, BlockWords
      <4>. QED BY <1>1, <1>2, <1>3, <2>3, <4>1
    <3>3. CASE b <= s
      <4>1. p \in C \ {s}
        BY <1>2, <3>2, <3>3 DEF Joint
      <4>. QED BY <1>7, <3>1, <4>1
    <3>4. CASE b > e
      <4>1. p >= e
        <5>1. CASE e \in B
          <6>1. p < e => NEXT_BLKP(h, p) <= e
            BY <5>1 DEF Tiled
          <6>. QED BY <1>2, <3>1, <3>2, <3>4, <6>1
        <5>2. CASE e = h.brk
          <6>1. b <= h.brk
            BY <3>1, BlockWords
          <6>. QED BY <1>2, <3>2, <3>4, <5>2, <6>1
        <5>. QED BY <5>1, <5>2
      <4>2. p \in C \ {s}
        BY <1>2, <3>2, <4>1 DEF Joint
      <4>. QED BY <1>7, <3>1, <4>2
    <3>. QED BY <3>2, <3>3, <3>4
  <2>. QED BY <2>2, <2>3
<1>12. g.mem[2 * g.brk - 1] = PACK(0, 1) /\ g.mem[1] = PACK(1, 1) /\ g.mem[2] = PACK(1, 1)
  <2>1. 2 * g.brk - 1 \in Words /\ 1 \in Words /\ 2 \in Words /\ 2 * g.brk - 1 # 2 * s - 1
        /\ 2 * g.brk - 1 # 2 * e - 2 /\ 2 # 2 * s - 1 /\ 2 # 2 * e - 2
        /\ 1 # 2 * s - 1 /\ 1 # 2 * e - 2
    BY <1>1, <1>2 DEF Words
  <2>2. h.mem[2 * h.brk - 1] = PACK(0, 1) /\ h.mem[1] = PACK(1, 1) /\ h.mem[2] = PACK(1, 1)
    BY DEF Tiled
  <2>. QED BY <1>1, <2>1, <2>2 DEF Tagged
<1>13. 2 \in C \cup {g.brk}
  BY <1>1, <1>2 DEF Tiled, Joint
<1>14. \A b \in C : BlockOK(g, C, b)
  BY <1>6, <1>9
<1>15. \A b \in C : b \in Nat /\ b >= 2 /\ b < g.brk
  BY <1>1, <1>3
<1>16. Tiled(g, C)
  BY <1>1, <1>10, <1>11, <1>12, <1>13, <1>14, <1>15 DEF Tiled
<1>. QED
  BY <1>3, <1>4, <1>5, <1>16

\* A block becomes two: b up to m, and m up to e.
InTwo(h, g, B, b, m, e, a1, a2) ==
  /\ Tiled(g, B \cup {m}) /\ m \notin B
  /\ SizeOf(g, b) = m - b /\ NEXT_BLKP(g, b) = m /\ (IsAllocated(g, b) <=> a1 = 1)
  /\ SizeOf(g, m) = e - m /\ NEXT_BLKP(g, m) = e /\ (IsAllocated(g, m) <=> a2 = 1)
  /\ SameTags(h, g, B \ {b})

\* Two tags in a block make two blocks of it.
LEMMA SplitTiles ==
  ASSUME NEW h, NEW B, Tiled(h, B), NEW b \in B, NEW e, e = NEXT_BLKP(h, b),
         NEW m \in Nat, b + 2 <= m, m + 2 <= e, NEW a1 \in {0, 1}, NEW a2 \in {0, 1},
         NEW x, Tagged(h, x, b, m, a1), NEW g, Tagged(x, g, m, e, a2)
  PROVE  InTwo(h, g, B, b, m, e, a1, a2)
<1> DEFINE C == B \cup {m}
<1>1. /\ h.brk \in Nat /\ h.brk <= Limit /\ Limit \in Nat /\ g.brk = h.brk /\ g \in Heaps
      /\ \A c \in B : c \in Nat /\ c >= 2 /\ c < h.brk
  BY HeapType DEF Tiled, Tagged
<1>2. /\ b \in Nat /\ b >= 2 /\ e \in Nat /\ e <= h.brk /\ e \in B \cup {h.brk}
  <2>1. b \in Nat /\ b >= 2 /\ e \in Nat /\ e <= h.brk
    BY BlockWords
  <2>. QED BY <2>1 DEF Tiled, BlockOK
<1>3. /\ g.mem[2 * b - 1] = PACK(m - b, a1) /\ g.mem[2 * m - 2] = PACK(m - b, a1)
      /\ g.mem[2 * m - 1] = PACK(e - m, a2) /\ g.mem[2 * e - 2] = PACK(e - m, a2)
      /\ \A v \in Words : v # 2 * b - 1 /\ v # 2 * m - 2 /\ v # 2 * m - 1 /\ v # 2 * e - 2
           => g.mem[v] = h.mem[v]
  <2>1. 2 * b - 1 \in Words /\ 2 * m - 2 \in Words
    BY <1>1, <1>2 DEF Words
  <2>2. 2 * b - 1 # 2 * m - 1 /\ 2 * b - 1 # 2 * e - 2 /\ 2 * m - 2 # 2 * m - 1 /\ 2 * m - 2 # 2 * e - 2
    BY <1>1, <1>2
  <2>. QED BY <2>1, <2>2 DEF Tagged
<1>4. \A c \in B \ {b} : c + 2 <= NEXT_BLKP(h, c) /\ NEXT_BLKP(h, c) \in Nat
                         /\ (IF c < b THEN NEXT_BLKP(h, c) <= b ELSE c >= e)
  <2>1. SUFFICES ASSUME NEW c \in B \ {b}
        PROVE c + 2 <= NEXT_BLKP(h, c) /\ NEXT_BLKP(h, c) \in Nat
                         /\ (IF c < b THEN NEXT_BLKP(h, c) <= b ELSE c >= e)
    OBVIOUS
  <2>2. c + 2 <= NEXT_BLKP(h, c) /\ NEXT_BLKP(h, c) \in Nat
    BY BlockWords
  <2>3. c < b => NEXT_BLKP(h, c) <= b
    BY DEF Tiled
  <2>4. b < c => e <= c
    BY DEF Tiled
  <2>. QED BY <1>1, <1>2, <2>2, <2>3, <2>4
<1>5. m \notin B
  BY <1>1, <1>2, <1>4
<1>6. SameTags(h, g, B \ {b})
  <2>1. SUFFICES ASSUME NEW c \in B \ {b} PROVE g.mem[2 * c - 1] = h.mem[2 * c - 1]
    BY DEF SameTags
  <2>2. c \in Nat /\ c >= 2 /\ c < h.brk /\ c # b /\ c # m
    BY <1>1, <1>5
  <2>3. 2 * c - 1 \in Words /\ 2 * c - 1 # 2 * b - 1 /\ 2 * c - 1 # 2 * m - 2
        /\ 2 * c - 1 # 2 * m - 1 /\ 2 * c - 1 # 2 * e - 2
    BY <1>1, <1>2, <2>2 DEF Words
  <2>. QED BY <1>3, <2>3
<1>7. SizeOf(g, b) = m - b /\ (IsAllocated(g, b) <=> a1 = 1) /\ NEXT_BLKP(g, b) = m
  <2>1. m - b \in Nat
    BY <1>2
  <2>2. SizeOf(g, b) = m - b /\ (IsAllocated(g, b) <=> a1 = 1)
    BY <1>3, <2>1, TagValue DEF SizeOf, IsAllocated, Header
  <2>. QED BY <1>2, <2>2 DEF NEXT_BLKP
<1>8. SizeOf(g, m) = e - m /\ (IsAllocated(g, m) <=> a2 = 1) /\ NEXT_BLKP(g, m) = e
  <2>1. e - m \in Nat
    BY <1>2
  <2>2. SizeOf(g, m) = e - m /\ (IsAllocated(g, m) <=> a2 = 1)
    BY <1>3, <2>1, TagValue DEF SizeOf, IsAllocated, Header
  <2>. QED BY <1>2, <2>2 DEF NEXT_BLKP
<1>9. BlockOK(g, C, b)
  <2>1. Footer(g, b) = 2 * m - 2 /\ Header(b) = 2 * b - 1
    BY <1>2, <1>7 DEF Footer, Header
  <2>. QED BY <1>2, <1>3, <1>7, <2>1 DEF BlockOK
<1>10. BlockOK(g, C, m)
  <2>1. Footer(g, m) = 2 * e - 2 /\ Header(m) = 2 * m - 1
    BY <1>2, <1>8 DEF Footer, Header
  <2>. QED BY <1>1, <1>2, <1>3, <1>8, <2>1 DEF BlockOK
<1>11. \A c \in B \ {b} : /\ NEXT_BLKP(g, c) = NEXT_BLKP(h, c)
                          /\ SizeOf(g, c) = SizeOf(h, c) /\ Footer(g, c) = Footer(h, c)
  BY <1>6, SameBlock DEF SameTags
<1>12. \A c \in B \ {b} : BlockOK(g, C, c)
  <2>1. SUFFICES ASSUME NEW c \in B \ {b} PROVE BlockOK(g, C, c)
    OBVIOUS
  <2>2. c \in Nat /\ c >= 2 /\ BlockOK(h, B, c)
    BY <1>1 DEF Tiled
  <2>3. NEXT_BLKP(h, c) \in Nat /\ NEXT_BLKP(h, c) <= h.brk /\ Footer(h, c) = 2 * NEXT_BLKP(h, c) - 2
        /\ c + 2 <= NEXT_BLKP(h, c)
    BY BlockWords
  <2>4. NEXT_BLKP(h, c) # e /\ NEXT_BLKP(h, c) # m
    BY <1>1, <1>2, <1>4, <2>2, <2>3
  <2>5. Footer(h, c) \in Words /\ Footer(h, c) # 2 * e - 2 /\ Footer(h, c) # 2 * b - 1
        /\ Footer(h, c) # 2 * m - 2 /\ Footer(h, c) # 2 * m - 1
    BY <1>1, <1>2, <2>2, <2>3, <2>4 DEF Words
  <2>6. g.mem[Footer(g, c)] = h.mem[Footer(h, c)]
    BY <1>3, <1>11, <2>5
  <2>7. g.mem[Header(c)] = h.mem[Header(c)]
    BY <1>6 DEF SameTags, Header
  <2>. QED BY <1>1, <1>11, <2>2, <2>6, <2>7 DEF BlockOK
<1>13. \A c, d \in C : c < d => NEXT_BLKP(g, c) <= d
  <2>1. SUFFICES ASSUME NEW c \in C, NEW d \in C, c < d PROVE NEXT_BLKP(g, c) <= d
    OBVIOUS
  <2>2. CASE c = b
    BY <1>1, <1>2, <1>4, <1>7, <2>1, <2>2
  <2>3. CASE c = m
    BY <1>1, <1>2, <1>4, <1>8, <2>1, <2>3
  <2>4. CASE c # b /\ c # m /\ d # m
    BY <1>11, <2>1, <2>4 DEF Tiled
  <2>5. CASE c # b /\ c # m /\ d = m
    BY <1>1, <1>2, <1>4, <1>11, <2>1, <2>5
  <2>. QED BY <2>2, <2>3, <2>4, <2>5
<1>14. \A d \in C \cup {g.brk} : d = 2 \/ \E p \in C : NEXT_BLKP(g, p) = d
  <2>1. SUFFICES ASSUME NEW d \in C \cup {g.brk}, d # 2 PROVE \E p \in C : NEXT_BLKP(g, p) = d
    OBVIOUS
  <2>2. CASE d = m
    BY <1>7, <2>2
  <2>3. CASE d # m
    <3>1. PICK p \in B : NEXT_BLKP(h, p) = d
      BY <1>1, <2>1, <2>3 DEF Tiled
    <3>2. CASE p = b
      BY <1>8, <3>1, <3>2
    <3>3. CASE p # b
      BY <1>11, <3>1, <3>3
    <3>. QED BY <3>2, <3>3
  <2>. QED BY <2>2, <2>3
<1>15. g.mem[2 * g.brk - 1] = PACK(0, 1) /\ g.mem[1] = PACK(1, 1) /\ g.mem[2] = PACK(1, 1)
  <2>1. 2 * g.brk - 1 \in Words /\ 1 \in Words /\ 2 \in Words
        /\ 2 * g.brk - 1 # 2 * b - 1 /\ 2 * g.brk - 1 # 2 * m - 1 /\ 2 * g.brk - 1 # 2 * m - 2
        /\ 2 * g.brk - 1 # 2 * e - 2 /\ 2 # 2 * b - 1 /\ 2 # 2 * e - 2 /\ 2 # 2 * m - 1 /\ 2 # 2 * m - 2
        /\ 1 # 2 * b - 1 /\ 1 # 2 * e - 2 /\ 1 # 2 * m - 1 /\ 1 # 2 * m - 2
    BY <1>1, <1>2 DEF Words
  <2>2. h.mem[2 * h.brk - 1] = PACK(0, 1) /\ h.mem[1] = PACK(1, 1) /\ h.mem[2] = PACK(1, 1)
    BY DEF Tiled
  <2>. QED BY <1>1, <1>3, <2>1, <2>2
<1>16. 2 \in C \cup {g.brk}
  BY <1>1 DEF Tiled
<1>17. \A c \in C : c \in Nat /\ c >= 2 /\ c < g.brk
  BY <1>1, <1>2
<1>18. \A c \in C : BlockOK(g, C, c)
  BY <1>9, <1>10, <1>12
<1>19. Tiled(g, C)
  BY <1>1, <1>13, <1>14, <1>15, <1>16, <1>17, <1>18 DEF Tiled
<1>. QED
  BY <1>5, <1>6, <1>7, <1>8, <1>19 DEF InTwo

\* The epilogue moves from b up to e, and a free block is in its place.
Grown(h, g, b, e) ==
  /\ g \in Heaps /\ g.list = h.list /\ g.brk = e
  /\ g.mem[2 * b - 1] = PACK(e - b, 0) /\ g.mem[2 * e - 2] = PACK(e - b, 0)
  /\ g.mem[2 * e - 1] = PACK(0, 1)
  /\ \A v \in Words : v # 2 * b - 1 /\ v # 2 * e - 2 /\ v # 2 * e - 1 => g.mem[v] = h.mem[v]

\* What extend_heap adds is a free block between the old break and the new.
LEMMA GrownTiles ==
  ASSUME NEW h, NEW B, Tiled(h, B), NEW b, b = h.brk, NEW e \in 2..Limit, b + 2 <= e,
         NEW g, Grown(h, g, b, e)
  PROVE  /\ Tiled(g, B \cup {b}) /\ b \notin B
         /\ SizeOf(g, b) = e - b /\ NEXT_BLKP(g, b) = e /\ ~IsAllocated(g, b)
         /\ SameTags(h, g, B)
<1> DEFINE C == B \cup {b}
<1>1. /\ b \in Nat /\ b >= 2 /\ Limit \in Nat /\ g.brk = e /\ g \in Heaps /\ e \in Nat /\ e <= Limit
      /\ \A c \in B : c \in Nat /\ c >= 2 /\ c < b
  BY HeapType DEF Tiled, Grown
<1>2. SameTags(h, g, B)
  <2>1. SUFFICES ASSUME NEW c \in B PROVE g.mem[2 * c - 1] = h.mem[2 * c - 1]
    BY DEF SameTags
  <2>2. c \in Nat /\ c >= 2 /\ c < b
    BY <1>1
  <2>3. 2 * c - 1 \in Words /\ 2 * c - 1 # 2 * b - 1 /\ 2 * c - 1 # 2 * e - 2 /\ 2 * c - 1 # 2 * e - 1
    BY <1>1, <2>2 DEF Words
  <2>. QED BY <2>3 DEF Grown
<1>3. \A c \in B : /\ NEXT_BLKP(g, c) = NEXT_BLKP(h, c)
                   /\ SizeOf(g, c) = SizeOf(h, c) /\ Footer(g, c) = Footer(h, c)
  BY <1>2, SameBlock DEF SameTags
<1>4. SizeOf(g, b) = e - b /\ ~IsAllocated(g, b) /\ NEXT_BLKP(g, b) = e
  <2>1. e - b \in Nat
    BY <1>1
  <2>2. SizeOf(g, b) = e - b /\ ~IsAllocated(g, b)
    BY <2>1, TagValue DEF SizeOf, IsAllocated, Header, Grown
  <2>. QED BY <1>1, <2>2 DEF NEXT_BLKP
<1>5. BlockOK(g, C, b)
  <2>1. Footer(g, b) = 2 * e - 2 /\ Header(b) = 2 * b - 1
    BY <1>1, <1>4 DEF Footer, Header
  <2>. QED BY <1>1, <1>4, <2>1 DEF BlockOK, Grown
<1>6. \A c \in B : BlockOK(g, C, c)
  <2>1. SUFFICES ASSUME NEW c \in B PROVE BlockOK(g, C, c)
    OBVIOUS
  <2>2. BlockOK(h, B, c)
    BY DEF Tiled
  <2>3. NEXT_BLKP(h, c) \in Nat /\ NEXT_BLKP(h, c) <= b /\ Footer(h, c) = 2 * NEXT_BLKP(h, c) - 2
        /\ c + 2 <= NEXT_BLKP(h, c) /\ c \in Nat
    BY BlockWords
  <2>5. Footer(h, c) \in Words /\ Footer(h, c) # 2 * e - 2 /\ Footer(h, c) # 2 * b - 1
        /\ Footer(h, c) # 2 * e - 1
    BY <1>1, <2>3 DEF Words
  <2>6. g.mem[Footer(g, c)] = h.mem[Footer(h, c)]
    BY <1>3, <2>5 DEF Grown
  <2>7. g.mem[Header(c)] = h.mem[Header(c)]
    BY <1>2 DEF SameTags, Header
  <2>. QED BY <1>3, <2>2, <2>6, <2>7 DEF BlockOK
<1>7. \A c, d \in C : c < d => NEXT_BLKP(g, c) <= d
  <2>1. SUFFICES ASSUME NEW c \in C, NEW d \in C, c < d PROVE NEXT_BLKP(g, c) <= d
    OBVIOUS
  <2>2. c \in B
    BY <1>1, <2>1
  <2>3. CASE d = b
    BY <1>3, <2>2, <2>3, BlockWords
  <2>4. CASE d \in B
    BY <1>3, <2>1, <2>2, <2>4 DEF Tiled
  <2>. QED BY <2>3, <2>4
<1>8. \A d \in C \cup {g.brk} : d = 2 \/ \E p \in C : NEXT_BLKP(g, p) = d
  <2>1. SUFFICES ASSUME NEW d \in C \cup {g.brk}, d # 2 PROVE \E p \in C : NEXT_BLKP(g, p) = d
    OBVIOUS
  <2>2. CASE d = e
    BY <1>4, <2>2
  <2>3. CASE d # e
    <3>1. PICK p \in B : NEXT_BLKP(h, p) = d
      BY <1>1, <2>1, <2>3 DEF Tiled
    <3>. QED BY <1>3, <3>1
  <2>. QED BY <2>2, <2>3
<1>9. g.mem[2 * g.brk - 1] = PACK(0, 1) /\ g.mem[1] = PACK(1, 1) /\ g.mem[2] = PACK(1, 1)
  <2>1. /\ 2 \in Words /\ 2 # 2 * b - 1 /\ 2 # 2 * e - 2 /\ 2 # 2 * e - 1
        /\ 1 \in Words /\ 1 # 2 * b - 1 /\ 1 # 2 * e - 2 /\ 1 # 2 * e - 1
    BY <1>1 DEF Words
  <2>. QED BY <1>1, <2>1 DEF Tiled, Grown
<1>10. \A c \in C : c \in Nat /\ c >= 2 /\ c < g.brk
  BY <1>1
<1>11. \A c \in C : BlockOK(g, C, c)
  BY <1>5, <1>6
<1>12. 2 \in C \cup {g.brk}
  BY DEF Tiled
<1>13. Tiled(g, C)
  BY <1>1, <1>7, <1>8, <1>9, <1>10, <1>11, <1>12 DEF Tiled
<1>. QED
  BY <1>1, <1>2, <1>4, <1>13

\* All that changes is in the payloads of the blocks of S.
PayloadsOnly(h, g, S) ==
  /\ g \in Heaps /\ g.brk = h.brk
  /\ \A v \in Words : \/ g.mem[v] = h.mem[v]
                      \/ \E b \in S : 2 * b <= v /\ v <= 2 * NEXT_BLKP(h, b) - 3

\* No payload reaches a tag: not the word in front of a block or of the epilogue,
\* and not the last but one before it.
LEMMA Apart ==
  ASSUME NEW h, NEW B, Tiled(h, B), NEW b \in B, NEW c \in B \cup {h.brk},
         NEW v \in Int, 2 * b <= v, v <= 2 * NEXT_BLKP(h, b) - 3
  PROVE  v # 2 * c - 1 /\ v # 2 * c - 2 /\ v # 2
<1>1. b \in Nat /\ b >= 2 /\ NEXT_BLKP(h, b) \in Nat /\ NEXT_BLKP(h, b) <= h.brk /\ h.brk \in Nat
  BY BlockWords
<1>2. c \in Nat
  BY <1>1 DEF Tiled
<1>3. b < c => NEXT_BLKP(h, b) <= c
  BY <1>1 DEF Tiled
<1>. QED
  BY <1>1, <1>2, <1>3

\* Payloads do not reach the tags, so the blocks stay.
LEMMA PayloadsTile ==
  ASSUME NEW h, NEW B, Tiled(h, B), NEW S \in SUBSET B, NEW g, PayloadsOnly(h, g, S)
  PROVE  Tiled(g, B) /\ SameTags(h, g, B)
<1>1. /\ h.brk \in Nat /\ h.brk <= Limit /\ h.brk >= 2 /\ Limit \in Nat /\ g.brk = h.brk /\ g \in Heaps
      /\ \A c \in B : c \in Nat /\ c >= 2 /\ c < h.brk
  BY HeapType DEF Tiled, PayloadsOnly
<1>2. ASSUME NEW c \in B \cup {h.brk}
      PROVE  g.mem[2 * c - 1] = h.mem[2 * c - 1] /\ g.mem[2 * c - 2] = h.mem[2 * c - 2]
  <2>1. c \in Nat /\ c >= 2 /\ c <= h.brk
    BY <1>1
  <2>2. 2 * c - 1 \in Words /\ 2 * c - 2 \in Words
    BY <1>1, <2>1 DEF Words
  <2>3. 2 * c - 1 \in Int /\ 2 * c - 2 \in Int
    BY <2>1
  <2>4. \A b \in S : /\ ~(2 * b <= 2 * c - 1 /\ 2 * c - 1 <= 2 * NEXT_BLKP(h, b) - 3)
                     /\ ~(2 * b <= 2 * c - 2 /\ 2 * c - 2 <= 2 * NEXT_BLKP(h, b) - 3)
    BY <2>3, Apart
  <2>. QED BY <2>2, <2>4 DEF PayloadsOnly
<1>3. g.mem[1] = h.mem[1] /\ g.mem[2] = h.mem[2]
  <2>1. 1 \in Words /\ 1 \in Int /\ 2 \in Words /\ 2 \in Int
    BY <1>1 DEF Words
  <2>2. \A b \in S : /\ ~(2 * b <= 2 /\ 2 <= 2 * NEXT_BLKP(h, b) - 3)
                     /\ ~(2 * b <= 1 /\ 1 <= 2 * NEXT_BLKP(h, b) - 3)
    BY <1>1
  <2>. QED BY <2>1, <2>2 DEF PayloadsOnly
<1>4. SameTags(h, g, B)
  BY <1>2 DEF SameTags
<1>5. \A c \in B : /\ NEXT_BLKP(g, c) = NEXT_BLKP(h, c)
                   /\ SizeOf(g, c) = SizeOf(h, c) /\ Footer(g, c) = Footer(h, c)
  BY <1>4, SameBlock DEF SameTags
<1>6. \A c \in B : BlockOK(g, B, c)
  <2>1. SUFFICES ASSUME NEW c \in B PROVE BlockOK(g, B, c)
    OBVIOUS
  <2>2. BlockOK(h, B, c)
    BY DEF Tiled
  <2>3. Footer(h, c) = 2 * NEXT_BLKP(h, c) - 2 /\ Header(c) = 2 * c - 1
    BY BlockWords DEF Header
  <2>4. NEXT_BLKP(h, c) \in B \cup {h.brk}
    BY <2>2 DEF BlockOK
  <2>5. g.mem[Footer(g, c)] = h.mem[Footer(h, c)] /\ g.mem[Header(c)] = h.mem[Header(c)]
    BY <1>2, <1>5, <2>3, <2>4
  <2>. QED BY <1>1, <1>5, <2>2, <2>5 DEF BlockOK
<1>7. g.mem[2 * g.brk - 1] = PACK(0, 1) /\ g.mem[1] = PACK(1, 1) /\ g.mem[2] = PACK(1, 1)
  BY <1>1, <1>2, <1>3 DEF Tiled
<1>8. \A b, c \in B : b < c => NEXT_BLKP(g, b) <= c
  BY <1>5 DEF Tiled
<1>9. \A b \in B \cup {g.brk} : b = 2 \/ \E p \in B : NEXT_BLKP(g, p) = b
  BY <1>1, <1>5 DEF Tiled
<1>10. Tiled(g, B)
  <2>1. 2 \in B \cup {g.brk}
    BY <1>1 DEF Tiled
  <2>2. \A c \in B : c \in Nat /\ c >= 2 /\ c < g.brk
    BY <1>1
  <2>. QED BY <1>1, <1>6, <1>7, <1>8, <1>9, <2>1, <2>2 DEF Tiled
<1>. QED
  BY <1>4, <1>10

-----------------------------------------------------------------------------
(* Blocks in use keep their tags and their payloads. *)

Kept(h, g, U) ==
  \A c \in U : \A v \in Int : 2 * c - 1 <= v /\ v <= 2 * NEXT_BLKP(h, c) - 3 => g.mem[v] = h.mem[v]

\* Blocks that are kept keep their headers.
LEMMA KeptTags ==
  ASSUME NEW h, NEW B, Tiled(h, B), NEW g, NEW U \in SUBSET B, Kept(h, g, U)
  PROVE  SameTags(h, g, U)
<1>1. SUFFICES ASSUME NEW c \in U PROVE g.mem[2 * c - 1] = h.mem[2 * c - 1]
  BY DEF SameTags
<1>2. c \in Nat /\ NEXT_BLKP(h, c) \in Nat /\ c + 2 <= NEXT_BLKP(h, c)
  BY BlockWords
<1>3. 2 * c - 1 \in Int /\ 2 * c - 1 <= 2 * NEXT_BLKP(h, c) - 3
  BY <1>2
<1>. QED BY <1>2, <1>3 DEF Kept

\* What two steps keep is kept by both in a row.
LEMMA KeptTwice ==
  ASSUME NEW h, NEW B, Tiled(h, B), NEW g, NEW x, NEW U \in SUBSET B, Kept(h, g, U), Kept(g, x, U)
  PROVE  Kept(h, x, U)
<1>1. \A c \in U : NEXT_BLKP(g, c) = NEXT_BLKP(h, c)
  BY KeptTags, SameBlock DEF SameTags
<1>. QED BY <1>1 DEF Kept

\* What is kept of many blocks is kept of some.
LEMMA KeptLess ==
  ASSUME NEW h, NEW g, NEW U, NEW V \in SUBSET U, Kept(h, g, U)
  PROVE  Kept(h, g, V)
  BY DEF Kept

\* A payload does not reach into another block.
LEMMA PayloadsKeep ==
  ASSUME NEW h, NEW B, Tiled(h, B), NEW S \in SUBSET B, NEW g, PayloadsOnly(h, g, S)
  PROVE  Kept(h, g, B \ S)
<1>1. SUFFICES ASSUME NEW c \in B \ S, NEW v \in Int, 2 * c - 1 <= v, v <= 2 * NEXT_BLKP(h, c) - 3
      PROVE  g.mem[v] = h.mem[v]
  BY DEF Kept
<1>2. v \in Words /\ c \in Nat /\ NEXT_BLKP(h, c) \in Nat
  BY <1>1, BlockWords
<1>3. ASSUME NEW b \in S, 2 * b <= v, v <= 2 * NEXT_BLKP(h, b) - 3 PROVE FALSE
  <2>1. b \in Nat /\ NEXT_BLKP(h, b) \in Nat /\ b # c
    BY BlockWords
  <2>2. b < c => NEXT_BLKP(h, b) <= c
    BY DEF Tiled
  <2>3. c < b => NEXT_BLKP(h, c) <= b
    BY DEF Tiled
  <2>. QED BY <1>1, <1>2, <1>3, <2>1, <2>2, <2>3
<1>. QED BY <1>2, <1>3 DEF PayloadsOnly

\* Tags of other blocks are no words of this one.
LEMMA TaggedKeeps ==
  ASSUME NEW h, NEW B, Tiled(h, B), NEW s \in B, NEW e \in B \cup {h.brk}, s < e,
         NEW a, NEW g, Tagged(h, g, s, e, a)
  PROVE  Kept(h, g, {c \in B : c < s \/ c >= e})
<1>1. SUFFICES ASSUME NEW c \in B, c < s \/ c >= e,
                      NEW v \in Int, 2 * c - 1 <= v, v <= 2 * NEXT_BLKP(h, c) - 3
      PROVE  g.mem[v] = h.mem[v]
  BY DEF Kept
<1>2. /\ v \in Words /\ c \in Nat /\ NEXT_BLKP(h, c) \in Nat /\ s \in Nat /\ h.brk \in Nat /\ c >= 2
      /\ s >= 2
  BY <1>1, BlockWords
<1>3. e \in Nat
  BY <1>2 DEF Tiled
<1>4. c < s => NEXT_BLKP(h, c) <= s
  BY DEF Tiled
<1>5. v # 2 * s - 1 /\ v # 2 * e - 2
  BY <1>1, <1>2, <1>3, <1>4
<1>. QED BY <1>2, <1>5 DEF Tagged

\* A set of numbers that is not empty has a least one.
LEMMA LeastIndex ==
  ASSUME NEW A \in SUBSET Nat, A # {}
  PROVE  \E m \in A : \A j \in A : m <= j
<1>1. IsWellFoundedOn(OpToRel(<, Nat), Nat)
  BY NatLessThanWellFounded
<1>2. PICK m \in A : \A j \in A : <<j, m>> \notin OpToRel(<, Nat)
  BY <1>1, WFMin
<1>3. \A j \in A : m <= j
  <2>1. \A x, y \in Nat : <<x, y>> \in OpToRel(<, Nat) <=> x < y
    BY DEF OpToRel
  <2>2. \A j \in A : ~(j < m)
    BY <1>2, <2>1, Zenon
  <2>. QED
    BY <2>2
<1>. QED
  BY <1>3

\* A bounded set of numbers that is not empty has a greatest one.
LEMMA GreatestIndex ==
  ASSUME NEW b \in Nat, NEW A \in SUBSET (0..b), A # {}
  PROVE  \E m \in A : \A j \in A : j <= m
<1> DEFINE B == {b - j : j \in A}
<1>1. B # {} /\ B \in SUBSET Nat
  <2>1. \A j \in A : j \in 0..b /\ b - j \in Nat
    BY SMT
  <2>. QED BY <2>1
<1>2. PICK m \in B : \A j \in B : m <= j
  <2> HIDE DEF B
  <2>. QED BY <1>1, LeastIndex, Zenon
<1>3. PICK x \in A : m = b - x
  BY <1>2
<1>4. \A y \in A : y <= x
  BY <1>2, <1>3
<1>. QED
  BY <1>4

\* Every size has a list.
LEMMA ListOfType ==
  ASSUME NEW size \in Nat
  PROVE  ListOf(size) \in Lists
<1> DEFINE S == {i \in Lists : i = 0 \/ 2^i <= size}
<1>1. NumLists \in Nat /\ NumLists >= 1 /\ NumLists - 1 \in Nat /\ 0 \in S /\ S \in SUBSET (0..(NumLists - 1))
  BY SizeAssumption DEF Lists
<1>2. PICK i \in S : \A j \in S : j <= i
  <2> HIDE DEF S
  <2>1. S # {}
    BY <1>1
  <2>. QED BY <1>1, <2>1, GreatestIndex, Zenon
<1>3. i \in Lists /\ (i = 0 \/ 2^i <= size) /\ i \in Nat /\ i <= NumLists - 1
  BY <1>1, <1>2
<1>4. i = NumLists - 1 \/ size < 2^(i + 1)
  <2>1. SUFFICES ASSUME i # NumLists - 1 PROVE size < 2^(i + 1)
    OBVIOUS
  <2>2. i + 1 \in Lists /\ i + 1 \notin S
    BY <1>1, <1>2, <1>3, <2>1 DEF Lists
  <2>3. ~(2^(i + 1) <= size)
    BY <2>2
  <2>4. i + 1 \in Nat /\ size \in Int
    BY <1>3
  <2>5. 2^(i + 1) \in Int
    BY <2>4
  <2>. QED BY <2>3, <2>4, <2>5
<1>. QED
  BY <1>3, <1>4 DEF ListOf

-----------------------------------------------------------------------------
(* The free lists *)

\* The blocks of L are in list i of h, c[1] first and c[n] last.
Linked(h, i, L, n, c) ==
  /\ n \in Nat /\ c \in [0..(n + 1) -> Nat] /\ c[0] = Null /\ c[n + 1] = Null
  /\ h.list[i] = c[1]
  /\ \A k \in 1..n : c[k] \in L /\ h.mem[2 * c[k]] = c[k + 1] /\ h.mem[2 * c[k] + 1] = c[k - 1]
  /\ \A j, k \in 1..n : c[j] = c[k] => j = k
  /\ \A b \in L : \E k \in 1..n : b = c[k]

InList(h, F, i) == {b \in F : ListOf(SizeOf(h, b)) = i}
Listed(h, F) == \A i \in Lists : \E n, c : Linked(h, i, InList(h, F, i), n, c)

\* A list whose words are the same
LEMMA SameLinks ==
  ASSUME NEW h, NEW g, NEW i, NEW L, NEW n, NEW c, Linked(h, i, L, n, c),
         g.list[i] = h.list[i],
         \A b \in L : g.mem[2 * b] = h.mem[2 * b] /\ g.mem[2 * b + 1] = h.mem[2 * b + 1]
  PROVE  Linked(g, i, L, n, c)
  BY DEF Linked

\* A block is in the list it was in while its size is the same.
LEMMA SameInList ==
  ASSUME NEW h, NEW g, NEW F, SameTags(h, g, F), NEW i
  PROVE  InList(g, F, i) = InList(h, F, i)
  BY SameBlock DEF SameTags, InList

\* ... as those of blocks that keep tags and payloads are
LEMMA KeptLists ==
  ASSUME NEW h, NEW B, Tiled(h, B), NEW F \in SUBSET B, Listed(h, F), NEW g, Kept(h, g, F), g.list = h.list
  PROVE  Listed(g, F)
<1>1. \A b \in F : g.mem[2 * b] = h.mem[2 * b] /\ g.mem[2 * b + 1] = h.mem[2 * b + 1]
  <2>1. SUFFICES ASSUME NEW b \in F PROVE g.mem[2 * b] = h.mem[2 * b] /\ g.mem[2 * b + 1] = h.mem[2 * b + 1]
    OBVIOUS
  <2>2. b \in Nat /\ NEXT_BLKP(h, b) \in Nat /\ b + 2 <= NEXT_BLKP(h, b)
    BY BlockWords
  <2>3. /\ 2 * b \in Int /\ 2 * b - 1 <= 2 * b /\ 2 * b <= 2 * NEXT_BLKP(h, b) - 3
        /\ 2 * b + 1 \in Int /\ 2 * b - 1 <= 2 * b + 1 /\ 2 * b + 1 <= 2 * NEXT_BLKP(h, b) - 3
    BY <2>2
  <2>. QED BY <2>3 DEF Kept
<1>2. SUFFICES ASSUME NEW i \in Lists PROVE \E n, c : Linked(g, i, InList(g, F, i), n, c)
  BY DEF Listed
<1>3. PICK n, c : Linked(h, i, InList(h, F, i), n, c)
  BY DEF Listed
<1>4. InList(g, F, i) = InList(h, F, i)
  BY KeptTags, SameInList
<1>5. InList(h, F, i) \subseteq F
  BY DEF InList
<1>6. Linked(g, i, InList(h, F, i), n, c)
  BY <1>1, <1>3, <1>5, SameLinks
<1>. QED
  BY <1>4, <1>6

-----------------------------------------------------------------------------
(* insert *)

Inserted(h, g, b, i) ==
  /\ g \in Heaps /\ g.brk = h.brk /\ g.list[i] = b /\ \A j \in Lists : j # i => g.list[j] = h.list[j]
  /\ g.mem[2 * b] = h.list[i] /\ g.mem[2 * b + 1] = Null
  /\ h.list[i] # Null => g.mem[2 * h.list[i] + 1] = b
  /\ \A v \in Words : v # 2 * b /\ v # 2 * b + 1 /\ (h.list[i] # Null => v # 2 * h.list[i] + 1)
       => g.mem[v] = h.mem[v]

HeadFacts(h, g, i, b) == /\ g \in Heaps /\ g.brk = h.brk /\ g.list[i] = b /\ g.mem = h.mem
                         /\ \A j \in Lists : j # i => g.list[j] = h.list[j]

\* The head of a list is a word of its own.
LEMMA HeadSet ==
  ASSUME NEW h \in Heaps, NEW i \in Lists, NEW b \in Nat
  PROVE  HeadFacts(h, [h EXCEPT !.list[i] = b], i, b)
  BY DEF Heaps, HeadFacts

\* What insert writes
LEMMA InsertWords ==
  ASSUME NEW h \in Heaps, NEW b \in Nat, 2 * b + 1 \in Words, NEW i \in Lists, i = ListOf(SizeOf(h, b)),
         h.list[i] # b, h.list[i] # Null => 2 * h.list[i] + 1 \in Words
  PROVE  Inserted(h, insert(h, b), b, i)
<1> DEFINE first == h.list[i]
<1>1. first \in Nat /\ 2 * b \in Words /\ 2 * b # 2 * b + 1 /\ Limit \in Nat /\ first \in Int /\ b \in Int
      /\ Null \in Int
  BY HeapType DEF Words, Null
<1>2. PICK x : x = Put(h, NextLink(b), Null)
  OBVIOUS
<1>3. Wrote(h, x, 2 * b + 1, Null)
  BY <1>1, <1>2, PutFacts DEF NextLink
<1>4. PICK y : y = Put(x, PrevLink(b), first)
  OBVIOUS
<1>5. x \in Heaps
  BY <1>3 DEF Wrote
<1>6. Wrote(x, y, 2 * b, first)
  BY <1>1, <1>4, <1>5, PutFacts DEF PrevLink
<1>7. PICK z : z = IF first = Null THEN y ELSE Put(y, NextLink(first), b)
  OBVIOUS
<1>8. y \in Heaps
  BY <1>6 DEF Wrote
<1>9. z \in Heaps /\ z.list = h.list /\ z.brk = h.brk
      /\ z.mem[2 * b] = first /\ z.mem[2 * b + 1] = Null
      /\ (first # Null => z.mem[2 * first + 1] = b)
      /\ \A v \in Words : v # 2 * b /\ v # 2 * b + 1 /\ (first # Null => v # 2 * first + 1)
           => z.mem[v] = h.mem[v]
  <2>1. CASE first = Null
    <3>1. z = y
      BY <1>7, <2>1
    <3>. QED BY <1>1, <1>3, <1>6, <2>1, <3>1 DEF Wrote
  <2>2. CASE first # Null
    <3>1. z = Put(y, 2 * first + 1, b)
      BY <1>7, <2>2 DEF NextLink
    <3>2. Wrote(y, z, 2 * first + 1, b)
      BY <1>1, <1>8, <2>2, <3>1, PutFacts
    <3>3. 2 * first + 1 # 2 * b /\ 2 * first + 1 # 2 * b + 1
      BY <1>1
    <3>. QED BY <1>1, <1>3, <1>6, <2>2, <3>2, <3>3 DEF Wrote
  <2>. QED BY <2>1, <2>2
<1>10. PICK g : g = [z EXCEPT !.list[i] = b]
  OBVIOUS
<1>11. g = insert(h, b)
  BY <1>2, <1>4, <1>7, <1>10 DEF insert
<1>12. HeadFacts(z, g, i, b)
  BY <1>9, <1>10, HeadSet
<1>13. Inserted(h, g, b, i)
  BY <1>9, <1>12 DEF HeadFacts, Inserted
<1>. QED
  BY <1>11, <1>13

\* What a list leads to is blocks of F, or nothing.
Leads(h, i, F, n, c) ==
  /\ n \in Nat /\ c[0] = Null /\ c[n + 1] = Null
  /\ \A k \in 1..n : c[k] \in F /\ c[k] \in Nat /\ c[k] >= 2 /\ ListOf(SizeOf(h, c[k])) = i
  /\ \A k \in 0..(n + 1) : c[k] \in Nat /\ (c[k] # Null => k \in 1..n)

\* The links of a list lead through its blocks, and to null at both ends.
LEMMA LinkedTypes ==
  ASSUME NEW h, NEW B, Tiled(h, B), NEW F \in SUBSET B, NEW i \in Lists,
         NEW n, NEW c, Linked(h, i, InList(h, F, i), n, c)
  PROVE  Leads(h, i, F, n, c)
<1>1. /\ n \in Nat /\ c \in [0..(n + 1) -> Nat] /\ c[0] = Null /\ c[n + 1] = Null
      /\ \A k \in 1..n : c[k] \in InList(h, F, i)
  BY DEF Linked
<1>2. \A k \in 1..n : c[k] \in F /\ ListOf(SizeOf(h, c[k])) = i
  BY <1>1 DEF InList
<1>3. \A k \in 1..n : c[k] \in Nat /\ c[k] >= 2
  BY <1>2 DEF Tiled
<1>4. \A k \in 0..(n + 1) : c[k] # Null => k \in 1..n
  <2>1. \A k \in 0..(n + 1) : k = 0 \/ k = n + 1 \/ k \in 1..n
    BY <1>1
  <2>. QED BY <1>1, <2>1
<1>. QED
  BY <1>1, <1>2, <1>3, <1>4 DEF Leads

\* The new order has b in front.
LEMMA LinkedInsert ==
  ASSUME NEW h, NEW g, NEW i, NEW L, NEW b, b \in Nat, b \notin L, NEW n, NEW c, Linked(h, i, L, n, c),
         0 \notin L, b # 0, L \in SUBSET Nat,
         g.list[i] = b, g.mem[2 * b] = h.list[i], g.mem[2 * b + 1] = Null,
         \A x \in L : g.mem[2 * x] = h.mem[2 * x],
         \A x \in L : g.mem[2 * x + 1] = IF x = h.list[i] THEN b ELSE h.mem[2 * x + 1]
  PROVE  \E d : Linked(g, i, L \cup {b}, n + 1, d)
<1> DEFINE d == [k \in 0..(n + 2) |-> IF k = 0 THEN Null ELSE IF k = 1 THEN b ELSE c[k - 1]]
<1>1. /\ n \in Nat /\ c \in [0..(n + 1) -> Nat] /\ c[0] = Null /\ c[n + 1] = Null
      /\ h.list[i] = c[1]
      /\ \A k \in 1..n : c[k] \in L /\ h.mem[2 * c[k]] = c[k + 1] /\ h.mem[2 * c[k] + 1] = c[k - 1]
      /\ \A j, k \in 1..n : c[j] = c[k] => j = k
      /\ \A x \in L : \E k \in 1..n : x = c[k]
  BY DEF Linked
<1>2. n + 1 \in Nat /\ (n + 1) + 1 = n + 2 /\ Null \in Nat /\ Null = 0
  BY <1>1 DEF Null
<1>3. /\ d \in [0..(n + 2) -> Nat] /\ d[0] = Null /\ d[1] = b
      /\ \A k \in 1..(n + 1) : k \in 0..(n + 1) /\ d[k + 1] = c[k]
  <2>1. \A k \in 0..(n + 2) : k = 0 \/ k = 1 \/ k - 1 \in 0..(n + 1)
    BY <1>1
  <2>2. \A k \in 1..(n + 1) : k + 1 \in 0..(n + 2) /\ k + 1 # 0 /\ k + 1 # 1 /\ (k + 1) - 1 = k
    BY <1>1
  <2>3. 0 \in 0..(n + 2) /\ 1 \in 0..(n + 2)
    BY <1>1
  <2>4. \A k \in 1..(n + 1) : k \in 0..(n + 1)
    BY <1>1
  <2>. QED BY <1>1, <1>2, <2>1, <2>2, <2>3, <2>4
<1> HIDE DEF d
<1>4. d[n + 2] = Null
  <2>1. n + 1 \in 1..(n + 1) /\ (n + 1) + 1 = n + 2
    BY <1>1
  <2>. QED BY <1>1, <1>3, <2>1
<1>5. \A k \in 1..(n + 1) : k = 1 \/ (k - 1 \in 1..n /\ (k - 1) + 1 = k /\ d[k] = c[k - 1])
  <2>1. \A k \in 1..(n + 1) : k = 1 \/ (k - 1 \in 1..n /\ (k - 1) + 1 = k /\ k - 1 \in 1..(n + 1))
    BY <1>1
  <2>. QED BY <1>3, <2>1
<1>6. \A k \in 1..(n + 1) : d[k] \in L \cup {b} /\ g.mem[2 * d[k]] = d[k + 1] /\ g.mem[2 * d[k] + 1] = d[k - 1]
  <2>1. SUFFICES ASSUME NEW k \in 1..(n + 1)
        PROVE  d[k] \in L \cup {b} /\ g.mem[2 * d[k]] = d[k + 1] /\ g.mem[2 * d[k] + 1] = d[k - 1]
    OBVIOUS
  <2>2. CASE k = 1
    <3>1. d[k] = b /\ d[k + 1] = c[1] /\ d[k - 1] = Null
      BY <1>3, <2>2
    <3>. QED BY <1>1, <3>1
  <2>3. CASE k # 1
    <3>1. k - 1 \in 1..n /\ (k - 1) + 1 = k /\ d[k] = c[k - 1] /\ d[k + 1] = c[k]
      BY <1>3, <1>5, <2>3
    <3>2. PICK j \in 1..n : j = k - 1
      BY <3>1
    <3>3. d[k] = c[j] /\ d[k + 1] = c[j + 1] /\ j \in Nat /\ j >= 1 /\ k = j + 1
      BY <3>1, <3>2
    <3>4. c[j] \in L /\ h.mem[2 * c[j]] = c[j + 1] /\ h.mem[2 * c[j] + 1] = c[j - 1]
      BY <1>1
    <3>5. g.mem[2 * c[j]] = c[j + 1]
      BY <3>4
    <3>6. g.mem[2 * c[j] + 1] = d[j]
      <4>1. CASE j = 1
        BY <1>1, <1>3, <3>4, <4>1
      <4>2. CASE j # 1
        <5>1. c[j] # c[1]
          BY <1>1, <3>3, <4>2
        <5>2. d[j] = c[j - 1]
          <6>1. j \in 1..(n + 1)
            BY <1>1
          <6>. QED BY <1>5, <4>2, <6>1
        <5>. QED BY <1>1, <3>4, <5>1, <5>2
      <4>. QED BY <4>1, <4>2
    <3>7. j = k - 1
      BY <3>2
    <3>. QED BY <3>3, <3>4, <3>5, <3>6, <3>7
  <2>. QED BY <2>2, <2>3
<1>7. \A j, k \in 1..(n + 1) : d[j] = d[k] => j = k
  <2>1. SUFFICES ASSUME NEW j \in 1..(n + 1), NEW k \in 1..(n + 1), d[j] = d[k] PROVE j = k
    OBVIOUS
  <2>2. CASE j = 1 \/ k = 1
    BY <1>1, <1>3, <1>5, <2>1, <2>2, SMTT(30)
  <2>3. CASE j # 1 /\ k # 1
    <3>1. j - 1 \in 1..n /\ k - 1 \in 1..n /\ c[j - 1] = c[k - 1]
      BY <1>5, <2>1, <2>3
    <3>2. j - 1 = k - 1
      BY <1>1, <3>1
    <3>. QED BY <3>2
  <2>. QED BY <2>2, <2>3
<1>8. \A x \in L \cup {b} : \E k \in 1..(n + 1) : x = d[k]
  <2>1. SUFFICES ASSUME NEW x \in L \cup {b} PROVE \E k \in 1..(n + 1) : x = d[k]
    OBVIOUS
  <2>2. CASE x = b
    <3>1. 1 \in 1..(n + 1)
      BY <1>1
    <3>. QED BY <1>3, <2>2, <3>1
  <2>3. CASE x \in L
    <3>1. PICK k \in 1..n : x = c[k]
      BY <1>1, <2>3
    <3>2. k \in 1..(n + 1) /\ k + 1 \in 1..(n + 1)
      BY <1>1
    <3>. QED BY <1>3, <3>1, <3>2
  <2>. QED BY <2>2, <2>3
<1>9. d \in [0..((n + 1) + 1) -> Nat] /\ d[(n + 1) + 1] = Null
  BY <1>2, <1>3, <1>4
<1>10. Linked(g, i, L \cup {b}, n + 1, d)
  BY <1>2, <1>3, <1>6, <1>7, <1>8, <1>9 DEF Linked
<1>. QED
  BY <1>10

\* insert touches the list of the block's size only.
LEMMA InsertKeeps ==
  ASSUME NEW h, NEW B, Tiled(h, B), NEW F \in SUBSET B, Listed(h, F), NEW b \in B \ F
  PROVE  PayloadsOnly(h, insert(h, b), F \cup {b}) /\ Listed(insert(h, b), F \cup {b})
<1>1. PICK g : g = insert(h, b)
  OBVIOUS
<1>2. PICK i : i = ListOf(SizeOf(h, b))
  OBVIOUS
<1>3. i \in Lists
  BY <1>2, BlockWords, ListOfType
<1>4. PICK n, c : Linked(h, i, InList(h, F, i), n, c)
  BY <1>3 DEF Listed
<1>5. PICK first : first = h.list[i]
  OBVIOUS
<1>6. first \in Nat /\ (first # Null => first \in F /\ ListOf(SizeOf(h, first)) = i)
  <2>1. first = c[1] /\ n \in Nat
    BY <1>4, <1>5 DEF Linked
  <2>2. 1 \in 0..(n + 1)
    BY <2>1
  <2>3. Leads(h, i, F, n, c)
    BY <1>3, <1>4, LinkedTypes
  <2>. QED BY <2>1, <2>2, <2>3 DEF Leads
<1>7. \A x \in B : /\ x \in Nat /\ x >= 2 /\ 2 * x + 1 \in Words /\ 2 * x \in Words
                   /\ 2 * x + 1 <= 2 * NEXT_BLKP(h, x) - 3
  <2>1. SUFFICES ASSUME NEW x \in B
        PROVE /\ x \in Nat /\ x >= 2 /\ 2 * x + 1 \in Words /\ 2 * x \in Words
              /\ 2 * x + 1 <= 2 * NEXT_BLKP(h, x) - 3
    OBVIOUS
  <2>2. x \in Nat /\ x >= 2 /\ x + 2 <= NEXT_BLKP(h, x) /\ NEXT_BLKP(h, x) \in Nat
        /\ NEXT_BLKP(h, x) <= h.brk /\ h.brk <= Limit /\ h.brk \in Nat /\ Limit \in Nat
    BY BlockWords
  <2>. QED BY <2>2 DEF Words
<1>8. b \in B /\ b \notin F /\ b \in Nat /\ b >= 2 /\ b # Null
  BY <1>7 DEF Null
<1>9. Inserted(h, g, b, i)
  <2>1. h \in Heaps
    BY DEF Tiled
  <2>2. h.list[i] # b
    BY <1>5, <1>6, <1>8
  <2>3. h.list[i] # Null => 2 * h.list[i] + 1 \in Words
    BY <1>5, <1>6, <1>7
  <2>. QED BY <1>1, <1>2, <1>3, <1>7, <1>8, <2>1, <2>2, <2>3, InsertWords
<1>10. PayloadsOnly(h, g, F \cup {b})
  <2>1. SUFFICES ASSUME NEW v \in Words, g.mem[v] # h.mem[v]
        PROVE  \E x \in F \cup {b} : 2 * x <= v /\ v <= 2 * NEXT_BLKP(h, x) - 3
    BY <1>9 DEF PayloadsOnly, Inserted
  <2>2. v = 2 * b \/ v = 2 * b + 1 \/ (first # Null /\ v = 2 * first + 1)
    BY <1>5, <1>9, <2>1 DEF Inserted
  <2>3. NEXT_BLKP(h, b) \in Nat
    BY <1>8, BlockWords
  <2>4. CASE v = 2 * b \/ v = 2 * b + 1
    BY <1>7, <1>8, <2>3, <2>4
  <2>5. CASE first # Null /\ v = 2 * first + 1
    <3>1. first \in F /\ first \in B
      BY <1>6, <2>5
    <3>. QED BY <1>7, <2>5, <3>1
  <2>. QED BY <2>2, <2>4, <2>5
<1>11. F \cup {b} \in SUBSET B
  BY <1>8
<1>12. SameTags(h, g, F \cup {b})
  <2>1. SameTags(h, g, B)
    BY <1>10, <1>11, PayloadsTile
  <2>. QED BY <1>11, <2>1 DEF SameTags
<1>13. Listed(g, F \cup {b})
  <2>1. SUFFICES ASSUME NEW j \in Lists PROVE \E m, d : Linked(g, j, InList(g, F \cup {b}, j), m, d)
    BY DEF Listed
  <2>2. InList(g, F \cup {b}, j) = InList(h, F \cup {b}, j)
    BY <1>12, SameInList
  <2>3. CASE j = i
    <3>1. InList(h, F \cup {b}, j) = InList(h, F, i) \cup {b}
      BY <1>2, <2>3 DEF InList
    <3>2. PICK L : L = InList(h, F, i)
      OBVIOUS
    <3>3. L \subseteq F
      BY <3>2 DEF InList
    <3>4. \A x \in L : x \in Nat /\ x >= 2 /\ x # b /\ 2 * x \in Words /\ 2 * x + 1 \in Words
      BY <1>7, <1>8, <3>3
    <3>5. b \notin L /\ 0 \notin L /\ b # 0 /\ L \in SUBSET Nat
      BY <1>8, <3>3, <3>4
    <3>6. \A x \in L : g.mem[2 * x] = h.mem[2 * x]
      <4>1. SUFFICES ASSUME NEW x \in L PROVE g.mem[2 * x] = h.mem[2 * x]
        OBVIOUS
      <4>2. x \in Nat /\ 2 * x \in Words /\ 2 * x # 2 * b /\ 2 * x # 2 * b + 1 /\ 2 * x # 2 * first + 1
        BY <1>6, <1>8, <3>4
      <4>. QED BY <1>5, <1>9, <4>2 DEF Inserted
    <3>7. \A x \in L : g.mem[2 * x + 1] = IF x = h.list[i] THEN b ELSE h.mem[2 * x + 1]
      <4>1. SUFFICES ASSUME NEW x \in L PROVE g.mem[2 * x + 1] = IF x = h.list[i] THEN b ELSE h.mem[2 * x + 1]
        OBVIOUS
      <4>2. x \in Nat /\ 2 * x + 1 \in Words /\ 2 * x + 1 # 2 * b /\ 2 * x + 1 # 2 * b + 1 /\ x # Null
            /\ (x # first => 2 * x + 1 # 2 * first + 1)
        BY <1>6, <1>8, <3>4 DEF Null
      <4>3. CASE x = first
        BY <1>5, <1>9, <4>2, <4>3 DEF Inserted
      <4>4. CASE x # first
        BY <1>5, <1>9, <4>2, <4>4 DEF Inserted
      <4>. QED BY <4>3, <4>4
    <3>8. Linked(h, i, L, n, c)
      BY <1>4, <3>2
    <3>9. g.list[i] = b /\ g.mem[2 * b] = h.list[i] /\ g.mem[2 * b + 1] = Null
      BY <1>9 DEF Inserted
    <3>10. \E d : Linked(g, i, L \cup {b}, n + 1, d)
      BY <1>8, <3>5, <3>6, <3>7, <3>8, <3>9, LinkedInsert
    <3>. QED BY <2>2, <2>3, <3>1, <3>2, <3>10
  <2>4. CASE j # i
    <3>1. InList(h, F \cup {b}, j) = InList(h, F, j)
      BY <1>2, <2>4 DEF InList
    <3>2. PICK m, d : Linked(h, j, InList(h, F, j), m, d)
      BY DEF Listed
    <3>3. \A x \in InList(h, F, j) : g.mem[2 * x] = h.mem[2 * x] /\ g.mem[2 * x + 1] = h.mem[2 * x + 1]
      <4>1. SUFFICES ASSUME NEW x \in InList(h, F, j)
            PROVE g.mem[2 * x] = h.mem[2 * x] /\ g.mem[2 * x + 1] = h.mem[2 * x + 1]
        OBVIOUS
      <4>2. x \in F /\ ListOf(SizeOf(h, x)) = j
        BY DEF InList
      <4>3. x # b /\ (first # Null => x # first)
        BY <1>6, <1>8, <2>4, <4>2
      <4>4. x \in Nat /\ 2 * x \in Words /\ 2 * x + 1 \in Words
        BY <1>7, <4>2
      <4>5. /\ 2 * x # 2 * b /\ 2 * x # 2 * b + 1 /\ 2 * x + 1 # 2 * b + 1 /\ 2 * x + 1 # 2 * b
            /\ 2 * x # 2 * first + 1 /\ (first # Null => 2 * x + 1 # 2 * first + 1)
        BY <1>6, <1>8, <4>3, <4>4
      <4>. QED BY <1>5, <1>9, <4>4, <4>5 DEF Inserted
    <3>4. g.list[j] = h.list[j]
      BY <1>9, <2>4 DEF Inserted
    <3>5. Linked(g, j, InList(h, F, j), m, d)
      BY <3>2, <3>3, <3>4, SameLinks
    <3>. QED BY <2>2, <3>1, <3>5
  <2>. QED BY <2>3, <2>4
<1>. QED
  BY <1>1, <1>10, <1>13

-----------------------------------------------------------------------------
(* delete *)

Deleted(h, g, b, i) ==
  LET prev == h.mem[2 * b]
      next == h.mem[2 * b + 1]
  IN  /\ g \in Heaps /\ g.brk = h.brk
      /\ g.list[i] = IF next = Null THEN prev ELSE h.list[i]
      /\ \A j \in Lists : j # i => g.list[j] = h.list[j]
      /\ \A v \in Words : g.mem[v] = IF next # Null /\ v = 2 * next THEN prev
                                     ELSE IF prev # Null /\ v = 2 * prev + 1 THEN next
                                     ELSE h.mem[v]

\* What delete writes
LEMMA DeleteWords ==
  ASSUME NEW h \in Heaps, NEW b, NEW i \in Lists, i = ListOf(SizeOf(h, b)),
         NEW prev \in Nat, NEW next \in Nat, prev = h.mem[2 * b], next = h.mem[2 * b + 1],
         prev # Null => 2 * prev + 1 \in Words, next # Null => 2 * next \in Words
  PROVE  Deleted(h, delete(h, b), b, i)
<1>1. PICK x : x = IF next = Null THEN [h EXCEPT !.list[i] = prev] ELSE Put(h, 2 * next, prev)
  OBVIOUS
<1>2. /\ x \in Heaps /\ x.brk = h.brk
      /\ x.list[i] = IF next = Null THEN prev ELSE h.list[i]
      /\ \A j \in Lists : j # i => x.list[j] = h.list[j]
      /\ \A v \in Words : x.mem[v] = IF next # Null /\ v = 2 * next THEN prev ELSE h.mem[v]
  <2>1. CASE next = Null
    <3>1. HeadFacts(h, x, i, prev)
      BY <1>1, <2>1, HeadSet
    <3>. QED BY <2>1, <3>1 DEF HeadFacts
  <2>2. CASE next # Null
    <3>1. Wrote(h, x, 2 * next, prev)
      BY <1>1, <2>2, PutFacts
    <3>. QED BY <2>2, <3>1 DEF Wrote
  <2>. QED BY <2>1, <2>2
<1>3. PICK g : g = IF prev = Null THEN x ELSE Put(x, 2 * prev + 1, next)
  OBVIOUS
<1>4. g = delete(h, b)
  BY <1>1, <1>3 DEF delete, PrevLink, NextLink
<1>5. Deleted(h, g, b, i)
  <2>1. CASE prev = Null
    BY <1>2, <1>3, <2>1 DEF Deleted
  <2>2. CASE prev # Null
    <3>1. Wrote(x, g, 2 * prev + 1, next)
      BY <1>2, <1>3, <2>2, PutFacts
    <3>2. 2 * prev + 1 # 2 * next
      OBVIOUS
    <3>. QED BY <1>2, <2>2, <3>1, <3>2 DEF Deleted, Wrote
  <2>. QED BY <2>1, <2>2
<1>. QED
  BY <1>4, <1>5

\* The block between `next' and `prev' is passed over.
Skips(h, g, i, L, prev, next) ==
  /\ g.list[i] = IF next = Null THEN prev ELSE h.list[i]
  /\ \A x \in L : g.mem[2 * x] = IF x = next THEN prev ELSE h.mem[2 * x]
  /\ \A x \in L : g.mem[2 * x + 1] = IF x = prev THEN next ELSE h.mem[2 * x + 1]

\* Without the block the links lead on from its one neighbour to the other.
LEMMA LinkedDelete ==
  ASSUME NEW h, NEW g, NEW i, NEW L, NEW n, NEW c, Linked(h, i, L, n, c), 0 \notin L,
         NEW q \in 1..n,
         NEW prev, NEW next, prev = c[q + 1], next = c[q - 1], Skips(h, g, i, L, prev, next)
  PROVE  \E d : Linked(g, i, L \ {c[q]}, n - 1, d)
<1> DEFINE d == [k \in 0..n |-> IF k < q THEN c[k] ELSE c[k + 1]]
<1>0. /\ g.list[i] = IF next = Null THEN prev ELSE h.list[i]
      /\ \A x \in L : g.mem[2 * x] = IF x = next THEN prev ELSE h.mem[2 * x]
      /\ \A x \in L : g.mem[2 * x + 1] = IF x = prev THEN next ELSE h.mem[2 * x + 1]
  BY DEF Skips
<1>1. /\ n \in Nat /\ c \in [0..(n + 1) -> Nat] /\ c[0] = Null /\ c[n + 1] = Null
      /\ h.list[i] = c[1]
      /\ \A k \in 1..n : c[k] \in L /\ h.mem[2 * c[k]] = c[k + 1] /\ h.mem[2 * c[k] + 1] = c[k - 1]
      /\ \A j, k \in 1..n : c[j] = c[k] => j = k
      /\ \A x \in L : \E k \in 1..n : x = c[k]
  BY DEF Linked
<1>2. n - 1 \in Nat /\ (n - 1) + 1 = n /\ Null = 0 /\ q \in Nat /\ q >= 1 /\ q <= n
  BY <1>1 DEF Null
<1>3. /\ d \in [0..n -> Nat]
      /\ \A k \in 0..n : d[k] = IF k < q THEN c[k] ELSE c[k + 1]
  <2>1. \A k \in 0..n : k \in 0..(n + 1) /\ k + 1 \in 0..(n + 1)
    BY <1>1
  <2>. QED BY <1>1, <2>1
<1> HIDE DEF d
<1>4. d[0] = Null /\ d[n] = Null
  <2>1. 0 \in 0..n /\ n \in 0..n /\ 0 < q /\ ~(n < q)
    BY <1>1, <1>2
  <2>. QED BY <1>1, <1>3, <2>1
\* What is not nothing on either side of q is no other block.
<1>5. \A k \in 1..n : (c[k] = next => k = q - 1) /\ (c[k] = prev => k = q + 1)
  <2>1. SUFFICES ASSUME NEW k \in 1..n PROVE (c[k] = next => k = q - 1) /\ (c[k] = prev => k = q + 1)
    OBVIOUS
  <2>2. c[k] # Null
    BY <1>1, <1>2
  <2>3. q - 1 = 0 \/ q - 1 \in 1..n
    BY <1>2
  <2>4. q + 1 = n + 1 \/ q + 1 \in 1..n
    BY <1>2
  <2>. QED BY <1>1, <2>2, <2>3, <2>4
<1>6. \A k \in 1..(n - 1) : d[k] \in L \ {c[q]} /\ g.mem[2 * d[k]] = d[k + 1] /\ g.mem[2 * d[k] + 1] = d[k - 1]
  <2>1. SUFFICES ASSUME NEW k \in 1..(n - 1)
        PROVE  d[k] \in L \ {c[q]} /\ g.mem[2 * d[k]] = d[k + 1] /\ g.mem[2 * d[k] + 1] = d[k - 1]
    OBVIOUS
  <2>2. k \in 0..n /\ k + 1 \in 0..n /\ k - 1 \in 0..n /\ k \in 1..n /\ k + 1 \in 1..n /\ k \in Nat
    BY <1>2
  <2>3. d[k] = (IF k < q THEN c[k] ELSE c[k + 1]) /\ d[k + 1] = (IF k + 1 < q THEN c[k + 1] ELSE c[(k + 1) + 1])
        /\ d[k - 1] = (IF k - 1 < q THEN c[k - 1] ELSE c[(k - 1) + 1])
    BY <1>3, <2>2
  <2>4. CASE k < q
    <3>1. d[k] = c[k] /\ d[k - 1] = c[k - 1] /\ k # q /\ k # q + 1
      BY <1>2, <2>2, <2>3, <2>4
    <3>2. c[k] \in L /\ h.mem[2 * c[k]] = c[k + 1] /\ h.mem[2 * c[k] + 1] = c[k - 1] /\ c[k] # c[q] /\ c[k] # prev
      BY <1>1, <1>5, <2>2, <3>1
    <3>3. g.mem[2 * c[k] + 1] = c[k - 1]
      BY <1>0, <3>2
    <3>4. CASE k = q - 1
      <4>1. c[k] = next /\ d[k + 1] = prev
        <5>1. k + 1 = q
          BY <1>2, <3>4
        <5>2. d[k + 1] = c[(k + 1) + 1]
          BY <1>2, <2>3, <5>1
        <5>. QED BY <3>4, <5>1, <5>2
      <4>2. g.mem[2 * c[k]] = prev
        BY <1>0, <3>2, <4>1
      <4>. QED BY <3>1, <3>2, <3>3, <4>1, <4>2
    <3>5. CASE k # q - 1
      <4>1. k + 1 < q /\ c[k] # next
        BY <1>2, <1>5, <2>2, <2>4, <3>5
      <4>2. d[k + 1] = c[k + 1]
        BY <2>3, <4>1
      <4>3. g.mem[2 * c[k]] = c[k + 1]
        BY <1>0, <3>2, <4>1
      <4>. QED BY <3>1, <3>2, <3>3, <4>2, <4>3
    <3>. QED BY <3>4, <3>5
  <2>5. CASE ~(k < q)
    <3>1. d[k] = c[k + 1] /\ d[k + 1] = c[(k + 1) + 1] /\ k + 1 # q /\ k + 1 # q - 1 /\ (k + 1) - 1 = k
      <4>1. ~(k + 1 < q) /\ k + 1 # q /\ k + 1 # q - 1 /\ (k + 1) - 1 = k
        BY <1>2, <2>2, <2>5
      <4>. QED BY <2>3, <2>5, <4>1
    <3>2. c[k + 1] \in L /\ h.mem[2 * c[k + 1]] = c[(k + 1) + 1] /\ h.mem[2 * c[k + 1] + 1] = c[(k + 1) - 1]
          /\ c[k + 1] # c[q] /\ c[k + 1] # next
      BY <1>1, <1>5, <2>2, <3>1
    <3>3. g.mem[2 * c[k + 1]] = c[(k + 1) + 1]
      BY <1>0, <3>2
    <3>4. CASE k = q
      <4>1. c[k + 1] = prev /\ d[k - 1] = next
        <5>1. k - 1 < q
          BY <1>2, <3>4
        <5>. QED BY <2>3, <3>4, <5>1
      <4>2. g.mem[2 * c[k + 1] + 1] = next
        BY <1>0, <3>2, <4>1
      <4>. QED BY <3>1, <3>2, <3>3, <4>1, <4>2
    <3>5. CASE k # q
      <4>1. ~(k - 1 < q) /\ (k - 1) + 1 = k
        BY <1>2, <2>2, <2>5, <3>5
      <4>2. c[k + 1] # prev
        <5>1. k + 1 # q + 1
          BY <1>2, <2>2, <3>5
        <5>. QED BY <1>5, <2>2, <5>1
      <4>3. d[k - 1] = c[k]
        BY <2>3, <4>1
      <4>4. g.mem[2 * c[k + 1] + 1] = c[k]
        BY <1>0, <3>1, <3>2, <4>2
      <4>. QED BY <3>1, <3>2, <3>3, <4>3, <4>4
    <3>. QED BY <3>4, <3>5
  <2>. QED BY <2>4, <2>5
<1>7. \A j, k \in 1..(n - 1) : d[j] = d[k] => j = k
  <2>1. SUFFICES ASSUME NEW j \in 1..(n - 1), NEW k \in 1..(n - 1), d[j] = d[k] PROVE j = k
    OBVIOUS
  <2>2. j \in 0..n /\ k \in 0..n /\ j \in 1..n /\ k \in 1..n /\ j + 1 \in 1..n /\ k + 1 \in 1..n
    BY <1>2
  <2>3. (IF j < q THEN c[j] ELSE c[j + 1]) = (IF k < q THEN c[k] ELSE c[k + 1])
    BY <1>3, <2>1, <2>2
  <2>4. (IF j < q THEN j ELSE j + 1) = (IF k < q THEN k ELSE k + 1)
    <3>1. CASE j < q /\ k < q
      BY <1>1, <2>2, <2>3, <3>1
    <3>2. CASE j < q /\ ~(k < q)
      BY <1>1, <2>2, <2>3, <3>2
    <3>3. CASE ~(j < q) /\ k < q
      BY <1>1, <2>2, <2>3, <3>3
    <3>4. CASE ~(j < q) /\ ~(k < q)
      BY <1>1, <2>2, <2>3, <3>4
    <3>. QED BY <3>1, <3>2, <3>3, <3>4
  <2>. QED BY <1>2, <2>2, <2>4
<1>8. \A x \in L \ {c[q]} : \E k \in 1..(n - 1) : x = d[k]
  <2>1. SUFFICES ASSUME NEW x \in L \ {c[q]} PROVE \E k \in 1..(n - 1) : x = d[k]
    OBVIOUS
  <2>2. PICK k \in 1..n : x = c[k]
    BY <1>1
  <2>3. k # q
    BY <2>2
  <2>4. CASE k < q
    <3>1. k \in 1..(n - 1) /\ k \in 0..n
      BY <1>2, <2>4
    <3>. QED BY <1>3, <2>2, <2>4, <3>1
  <2>5. CASE k > q
    <3>1. k - 1 \in 1..(n - 1) /\ k - 1 \in 0..n /\ ~(k - 1 < q) /\ (k - 1) + 1 = k
      BY <1>2, <2>5
    <3>2. d[k - 1] = c[k]
      BY <1>3, <3>1
    <3>. QED BY <2>2, <3>1, <3>2
  <2>. QED BY <1>2, <2>3, <2>4, <2>5
<1>9. g.list[i] = d[1]
  <2>1. 1 \in 0..n
    BY <1>2
  <2>2. CASE q = 1
    <3>1. next = Null /\ d[1] = prev
      BY <1>1, <1>3, <2>1, <2>2
    <3>. QED BY <1>0, <3>1
  <2>3. CASE q # 1
    <3>1. q - 1 \in 1..n /\ 1 < q
      BY <1>2, <2>3
    <3>2. next # Null /\ d[1] = c[1]
      BY <1>1, <1>2, <1>3, <2>1, <3>1
    <3>. QED BY <1>0, <1>1, <3>2
  <2>. QED BY <2>2, <2>3
<1>10. d \in [0..((n - 1) + 1) -> Nat] /\ d[(n - 1) + 1] = Null
  BY <1>2, <1>3, <1>4
<1>11. Linked(g, i, L \ {c[q]}, n - 1, d)
  BY <1>2, <1>4, <1>6, <1>7, <1>8, <1>9, <1>10 DEF Linked
<1>. QED
  BY <1>11

\* delete touches the list of the block's size only.
LEMMA DeleteKeeps ==
  ASSUME NEW h, NEW B, Tiled(h, B), NEW F \in SUBSET B, Listed(h, F), NEW b \in F
  PROVE  PayloadsOnly(h, delete(h, b), F \ {b}) /\ Listed(delete(h, b), F \ {b})
<1>1. PICK g : g = delete(h, b)
  OBVIOUS
<1>2. PICK i : i = ListOf(SizeOf(h, b))
  OBVIOUS
<1>3. i \in Lists
  BY <1>2, BlockWords, ListOfType
<1>4. PICK n, c : Linked(h, i, InList(h, F, i), n, c)
  BY <1>3 DEF Listed
<1>5. Leads(h, i, F, n, c)
  BY <1>3, <1>4, LinkedTypes
<1>6. b \in InList(h, F, i)
  BY <1>2 DEF InList
<1>7. PICK q \in 1..n : b = c[q]
  BY <1>4, <1>6 DEF Linked
<1>8. PICK prev : prev = c[q + 1]
  OBVIOUS
<1>9. PICK next : next = c[q - 1]
  OBVIOUS
<1>10. h.mem[2 * b] = prev /\ h.mem[2 * b + 1] = next
  BY <1>4, <1>7, <1>8, <1>9 DEF Linked
<1>11. /\ prev \in Nat /\ next \in Nat
       /\ prev # Null => prev \in F /\ prev # b /\ ListOf(SizeOf(h, prev)) = i
       /\ next # Null => next \in F /\ next # b /\ ListOf(SizeOf(h, next)) = i
  <2>1. q + 1 \in 0..(n + 1) /\ q - 1 \in 0..(n + 1) /\ q + 1 # q /\ q - 1 # q /\ n \in Nat /\ q \in Nat
    BY <1>5 DEF Leads
  <2>2. \A j, k \in 1..n : c[j] = c[k] => j = k
    BY <1>4 DEF Linked
  <2>3. prev \in Nat /\ (prev # Null => q + 1 \in 1..n)
    BY <1>5, <1>8, <2>1 DEF Leads
  <2>4. next \in Nat /\ (next # Null => q - 1 \in 1..n)
    BY <1>5, <1>9, <2>1 DEF Leads
  <2>. QED BY <1>5, <1>7, <1>8, <1>9, <2>1, <2>2, <2>3, <2>4 DEF Leads
<1>12. \A x \in B : /\ x \in Nat /\ x >= 2 /\ 2 * x + 1 \in Words /\ 2 * x \in Words
                    /\ 2 * x + 1 <= 2 * NEXT_BLKP(h, x) - 3 /\ NEXT_BLKP(h, x) \in Nat
  <2>1. SUFFICES ASSUME NEW x \in B
        PROVE /\ x \in Nat /\ x >= 2 /\ 2 * x + 1 \in Words /\ 2 * x \in Words
              /\ 2 * x + 1 <= 2 * NEXT_BLKP(h, x) - 3 /\ NEXT_BLKP(h, x) \in Nat
    OBVIOUS
  <2>2. x \in Nat /\ x >= 2 /\ x + 2 <= NEXT_BLKP(h, x) /\ NEXT_BLKP(h, x) \in Nat
        /\ NEXT_BLKP(h, x) <= h.brk /\ h.brk <= Limit /\ h.brk \in Nat /\ Limit \in Nat
    BY BlockWords
  <2>. QED BY <2>2 DEF Words
<1>13. Deleted(h, g, b, i)
  <2>1. h \in Heaps
    BY DEF Tiled
  <2>2. (prev # Null => 2 * prev + 1 \in Words) /\ (next # Null => 2 * next \in Words)
    BY <1>11, <1>12
  <2>. QED BY <1>1, <1>2, <1>3, <1>10, <1>11, <2>1, <2>2, DeleteWords
<1>14. /\ g \in Heaps /\ g.brk = h.brk
       /\ g.list[i] = IF next = Null THEN prev ELSE h.list[i]
       /\ \A j \in Lists : j # i => g.list[j] = h.list[j]
       /\ \A v \in Words : g.mem[v] = IF next # Null /\ v = 2 * next THEN prev
                                      ELSE IF prev # Null /\ v = 2 * prev + 1 THEN next
                                      ELSE h.mem[v]
  BY <1>10, <1>13 DEF Deleted
<1>15. PayloadsOnly(h, g, F \ {b})
  <2>1. SUFFICES ASSUME NEW v \in Words, g.mem[v] # h.mem[v]
        PROVE  \E x \in F \ {b} : 2 * x <= v /\ v <= 2 * NEXT_BLKP(h, x) - 3
    BY <1>14 DEF PayloadsOnly
  <2>2. (next # Null /\ v = 2 * next) \/ (prev # Null /\ v = 2 * prev + 1)
    BY <1>14, <2>1
  <2>3. CASE next # Null /\ v = 2 * next
    <3>1. next \in F \ {b} /\ next \in B
      BY <1>11, <2>3
    <3>. QED BY <1>12, <2>3, <3>1
  <2>4. CASE prev # Null /\ v = 2 * prev + 1
    <3>1. prev \in F \ {b} /\ prev \in B
      BY <1>11, <2>4
    <3>. QED BY <1>12, <2>4, <3>1
  <2>. QED BY <2>2, <2>3, <2>4
<1>16. F \ {b} \in SUBSET B
  OBVIOUS
<1>17. SameTags(h, g, F \ {b})
  <2>1. SameTags(h, g, B)
    BY <1>15, <1>16, PayloadsTile
  <2>. QED BY <1>16, <2>1 DEF SameTags
<1>18. Listed(g, F \ {b})
  <2>1. SUFFICES ASSUME NEW j \in Lists PROVE \E m, d : Linked(g, j, InList(g, F \ {b}, j), m, d)
    BY DEF Listed
  <2>2. InList(g, F \ {b}, j) = InList(h, F \ {b}, j)
    BY <1>17, SameInList
  <2>3. CASE j = i
    <3>1. PICK L : L = InList(h, F, i)
      OBVIOUS
    <3>2. InList(h, F \ {b}, j) = L \ {b} /\ L \subseteq F
      BY <2>3, <3>1 DEF InList
    <3>3. \A x \in L : x \in Nat /\ x >= 2 /\ 2 * x \in Words /\ 2 * x + 1 \in Words
      BY <1>12, <3>2
    <3>4. 0 \notin L
      BY <3>3
    <3>5. \A x \in L : g.mem[2 * x] = IF x = next THEN prev ELSE h.mem[2 * x]
      <4>1. SUFFICES ASSUME NEW x \in L PROVE g.mem[2 * x] = IF x = next THEN prev ELSE h.mem[2 * x]
        OBVIOUS
      <4>2. x \in Nat /\ 2 * x \in Words /\ 2 * x # 2 * prev + 1 /\ x # Null /\ (x # next => 2 * x # 2 * next)
        BY <1>11, <3>3 DEF Null
      <4>3. CASE x = next
        BY <1>14, <4>2, <4>3
      <4>4. CASE x # next
        BY <1>14, <4>2, <4>4
      <4>. QED BY <4>3, <4>4
    <3>6. \A x \in L : g.mem[2 * x + 1] = IF x = prev THEN next ELSE h.mem[2 * x + 1]
      <4>1. SUFFICES ASSUME NEW x \in L PROVE g.mem[2 * x + 1] = IF x = prev THEN next ELSE h.mem[2 * x + 1]
        OBVIOUS
      <4>2. x \in Nat /\ 2 * x + 1 \in Words /\ 2 * x + 1 # 2 * next /\ x # Null
            /\ (x # prev => 2 * x + 1 # 2 * prev + 1)
        BY <1>11, <3>3 DEF Null
      <4>3. CASE x = prev
        BY <1>14, <4>2, <4>3
      <4>4. CASE x # prev
        BY <1>14, <4>2, <4>4
      <4>. QED BY <4>3, <4>4
    <3>7. Linked(h, i, L, n, c)
      BY <1>4, <3>1
    <3>8. g.list[i] = IF next = Null THEN prev ELSE h.list[i]
      BY <1>14
    <3>9. \E d : Linked(g, i, L \ {c[q]}, n - 1, d)
      <4>1. Skips(h, g, i, L, prev, next)
        BY <3>5, <3>6, <3>8 DEF Skips
      <4>. QED BY <1>8, <1>9, <3>4, <3>7, <4>1, LinkedDelete
    <3>. QED BY <1>7, <2>2, <2>3, <3>2, <3>9
  <2>4. CASE j # i
    <3>1. InList(h, F \ {b}, j) = InList(h, F, j)
      BY <1>2, <2>4 DEF InList
    <3>2. PICK m, d : Linked(h, j, InList(h, F, j), m, d)
      BY DEF Listed
    <3>3. \A x \in InList(h, F, j) : g.mem[2 * x] = h.mem[2 * x] /\ g.mem[2 * x + 1] = h.mem[2 * x + 1]
      <4>1. SUFFICES ASSUME NEW x \in InList(h, F, j)
            PROVE g.mem[2 * x] = h.mem[2 * x] /\ g.mem[2 * x + 1] = h.mem[2 * x + 1]
        OBVIOUS
      <4>2. x \in F /\ ListOf(SizeOf(h, x)) = j
        BY DEF InList
      <4>3. (prev # Null => x # prev) /\ (next # Null => x # next)
        BY <1>11, <2>4, <4>2
      <4>4. x \in Nat /\ 2 * x \in Words /\ 2 * x + 1 \in Words
        BY <1>12, <4>2
      <4>5. /\ 2 * x # 2 * prev + 1 /\ 2 * x + 1 # 2 * next
            /\ (prev # Null => 2 * x + 1 # 2 * prev + 1) /\ (next # Null => 2 * x # 2 * next)
        BY <1>11, <4>3, <4>4
      <4>. QED BY <1>14, <4>4, <4>5
    <3>4. g.list[j] = h.list[j]
      BY <1>14, <2>4
    <3>5. Linked(g, j, InList(h, F, j), m, d)
      BY <3>2, <3>3, <3>4, SameLinks
    <3>. QED BY <2>2, <3>1, <3>5
  <2>. QED BY <2>3, <2>4
<1>. QED
  BY <1>1, <1>15, <1>18

-----------------------------------------------------------------------------
(* Free blocks and blocks in use *)

FreeOf(h, B) == {b \in B : ~IsAllocated(h, b)}
UsedOf(h, B) == {b \in B : IsAllocated(h, b)}

\* Two heaps with the same blocks, free and in use, at the same places
SameBlocks(h, x, B) ==
  /\ x.brk = h.brk /\ FreeOf(x, B) = FreeOf(h, B) /\ UsedOf(x, B) = UsedOf(h, B)
  /\ \A b \in B : NEXT_BLKP(x, b) = NEXT_BLKP(h, b) /\ SizeOf(x, b) = SizeOf(h, b)

\* Blocks with the same headers are the same blocks.
LEMMA TagsSame ==
  ASSUME NEW h, NEW x, NEW B, SameTags(h, x, B), x.brk = h.brk
  PROVE  SameBlocks(h, x, B)
<1>1. \A b \in B : /\ SizeOf(x, b) = SizeOf(h, b) /\ IsAllocated(x, b) = IsAllocated(h, b)
                   /\ NEXT_BLKP(x, b) = NEXT_BLKP(h, b)
  BY SameBlock DEF SameTags
<1>. QED
  BY <1>1 DEF SameBlocks, FreeOf, UsedOf

\* A block is free or in use, never both.
LEMMA Disjoint ==
  ASSUME NEW h, NEW B
  PROVE  /\ FreeOf(h, B) \in SUBSET B /\ UsedOf(h, B) \in SUBSET B
         /\ \A b \in B : b \in UsedOf(h, B) <=> b \notin FreeOf(h, B)
  BY DEF FreeOf, UsedOf

\* What PREV_BLKP finds: the block that ends here, or the prologue
LEMMA Before ==
  ASSUME NEW h, NEW B, Tiled(h, B), NEW b \in B
  PROVE  \/ b = 2 /\ IsAllocated(h, PREV_BLKP(h, b))
         \/ PREV_BLKP(h, b) \in B /\ NEXT_BLKP(h, PREV_BLKP(h, b)) = b /\ PREV_BLKP(h, b) < b
<1>1. b \in Nat /\ PREV_BLKP(h, b) = b - GET_SIZE(h.mem[2 * b - 2])
  BY BlockWords DEF PREV_BLKP
<1>2. CASE b = 2
  <2>1. h.mem[2] = PACK(1, 1) /\ h.mem[1] = PACK(1, 1)
    BY DEF Tiled
  <2>2. GET_SIZE(PACK(1, 1)) = 1 /\ GET_ALLOC(PACK(1, 1))
    BY TagValue
  <2>3. PREV_BLKP(h, b) = 1
    <3>1. 2 * b - 2 = 2
      BY <1>2
    <3>. QED BY <1>1, <1>2, <2>1, <2>2, <3>1
  <2>4. Header(1) = 1
    BY DEF Header
  <2>. QED BY <1>2, <2>1, <2>2, <2>3, <2>4 DEF IsAllocated
<1>3. CASE b # 2
  <2>1. PICK p \in B : NEXT_BLKP(h, p) = b
    BY <1>3 DEF Tiled
  <2>2. Footer(h, p) = 2 * b - 2 /\ p \in Nat /\ p + 2 <= b /\ SizeOf(h, p) = b - p
    BY <2>1, BlockWords
  <2>3. h.mem[2 * b - 2] = h.mem[Header(p)]
    BY <2>2 DEF Tiled, BlockOK
  <2>4. GET_SIZE(h.mem[2 * b - 2]) = b - p
    BY <2>2, <2>3 DEF SizeOf
  <2>5. PREV_BLKP(h, b) = p
    BY <1>1, <2>2, <2>4
  <2>. QED BY <1>1, <2>1, <2>2, <2>5
<1>. QED
  BY <1>2, <1>3

\* What NEXT_BLKP finds: a block or the epilogue, which is in use
LEMMA After ==
  ASSUME NEW h, NEW B, Tiled(h, B), NEW b \in B
  PROVE  /\ NEXT_BLKP(h, b) \in B \cup {h.brk}
         /\ ~IsAllocated(h, NEXT_BLKP(h, b)) => NEXT_BLKP(h, b) \in FreeOf(h, B)
         /\ NEXT_BLKP(h, b) \in FreeOf(h, B) => ~IsAllocated(h, NEXT_BLKP(h, b))
<1>1. NEXT_BLKP(h, b) \in B \cup {h.brk}
  BY DEF Tiled, BlockOK
<1>2. IsAllocated(h, h.brk)
  BY TagValue DEF Tiled, IsAllocated, Header
<1>. QED
  BY <1>1, <1>2 DEF FreeOf

\* What the lists are after an operation on them, when nothing else has changed
Relisted(h, x, B, F) ==
  /\ Tiled(x, B) /\ Listed(x, F) /\ SameBlocks(h, x, B) /\ Kept(h, x, UsedOf(h, B))

\* Nothing relisted yet
LEMMA RelistedSelf ==
  ASSUME NEW h, NEW B, Tiled(h, B), NEW F, Listed(h, F)
  PROVE  Relisted(h, h, B, F)
  BY DEF Relisted, SameBlocks, Kept

\* One more operation on the lists that leaves tags and payloads alone
LEMMA RelistedStep ==
  ASSUME NEW h, NEW B, Tiled(h, B), NEW x, NEW F, Relisted(h, x, B, F), NEW S, NEW G, NEW g,
         S \in SUBSET FreeOf(h, B), PayloadsOnly(x, g, S), Listed(g, G)
  PROVE  Relisted(h, g, B, G)
<1>1. Tiled(x, B) /\ SameBlocks(h, x, B) /\ Kept(h, x, UsedOf(h, B))
  BY DEF Relisted
<1>2. S \in SUBSET B /\ UsedOf(h, B) \in SUBSET (B \ S) /\ UsedOf(h, B) \in SUBSET B
  BY Disjoint
<1>3. Tiled(g, B) /\ SameTags(x, g, B)
  BY <1>1, <1>2, PayloadsTile
<1>4. g.brk = x.brk
  BY DEF PayloadsOnly
<1>5. SameBlocks(x, g, B)
  BY <1>3, <1>4, TagsSame
<1>6. SameBlocks(h, g, B)
  BY <1>1, <1>5 DEF SameBlocks
<1>7. Kept(x, g, UsedOf(h, B))
  BY <1>1, <1>2, PayloadsKeep, KeptLess
<1>8. Kept(h, g, UsedOf(h, B))
  BY <1>1, <1>2, <1>7, KeptTwice
<1>. QED
  BY <1>3, <1>6, <1>8 DEF Relisted

\* delete takes a free block out of its list.
LEMMA RelistDelete ==
  ASSUME NEW h, NEW B, Tiled(h, B), NEW x, NEW F, Relisted(h, x, B, F), F \in SUBSET FreeOf(h, B), NEW b \in F
  PROVE  Relisted(h, delete(x, b), B, F \ {b})
<1>1. Tiled(x, B) /\ Listed(x, F) /\ F \in SUBSET B
  BY Disjoint DEF Relisted
<1>2. PayloadsOnly(x, delete(x, b), F \ {b}) /\ Listed(delete(x, b), F \ {b})
  BY <1>1, DeleteKeeps
<1>3. F \ {b} \in SUBSET FreeOf(h, B)
  OBVIOUS
<1>. QED
  BY <1>2, <1>3, RelistedStep

\* insert puts a free block into the list of its size.
LEMMA RelistInsert ==
  ASSUME NEW h, NEW B, Tiled(h, B), NEW x, NEW F, Relisted(h, x, B, F), F \in SUBSET FreeOf(h, B),
         NEW b \in FreeOf(h, B) \ F
  PROVE  Relisted(h, insert(x, b), B, F \cup {b})
<1>1. Tiled(x, B) /\ Listed(x, F) /\ F \in SUBSET B /\ b \in B \ F
  BY Disjoint DEF Relisted
<1>2. PayloadsOnly(x, insert(x, b), F \cup {b}) /\ Listed(insert(x, b), F \cup {b})
  BY <1>1, InsertKeeps
<1>3. F \cup {b} \in SUBSET FreeOf(h, B)
  OBVIOUS
<1>. QED
  BY <1>2, <1>3, RelistedStep

-----------------------------------------------------------------------------
(* Tags on the blocks from s up to e *)

\* F lists the free blocks that are not among them.
Outside(B, s, e) == {c \in B : c < s \/ c >= e}

Sealed(x, g, B, s, e, a, F) ==
  /\ Tiled(g, Joint(B, s, e)) /\ Listed(g, F) /\ s \in Joint(B, s, e)
  /\ FreeOf(g, Joint(B, s, e)) = IF a = 1 THEN F ELSE F \cup {s}
  /\ UsedOf(g, Joint(B, s, e)) = (UsedOf(x, B) \cap Outside(B, s, e)) \cup IF a = 1 THEN {s} ELSE {}
  /\ NEXT_BLKP(g, s) = e /\ SizeOf(g, s) = e - s /\ g.brk = x.brk /\ g.list = x.list
  /\ \A c \in Outside(B, s, e) : NEXT_BLKP(g, c) = NEXT_BLKP(x, c) /\ SizeOf(g, c) = SizeOf(x, c)
  /\ Kept(x, g, Outside(B, s, e))
  /\ Tagged(x, g, s, e, a)

\* Blocks that are in no list become one block, in use or free.
LEMMA Sealing ==
  ASSUME NEW x, NEW B, Tiled(x, B), NEW s \in B, NEW e \in B \cup {x.brk}, s < e, NEW a \in {0, 1},
         NEW F, F = FreeOf(x, B) \cap Outside(B, s, e), Listed(x, F),
         NEW size, size = e - s
  PROVE  Sealed(x, Tag(x, s, size, a), B, s, e, a, F)
<1> DEFINE C == Joint(B, s, e)
<1>1. /\ x.brk \in Nat /\ x.brk <= Limit /\ x.brk >= 2 /\ Limit \in Nat /\ x \in Heaps
      /\ \A c \in B : c \in Nat /\ c >= 2 /\ c < x.brk
  BY HeapType DEF Tiled
<1>2. s \in 2..Limit /\ e \in 2..Limit
  BY <1>1
<1>3. PICK g : g = Tag(x, s, size, a)
  OBVIOUS
<1>4. Tagged(x, g, s, e, a)
  BY <1>1, <1>2, <1>3, TagFacts
<1>5. /\ Tiled(g, C) /\ s \in C
      /\ SizeOf(g, s) = e - s /\ NEXT_BLKP(g, s) = e /\ (IsAllocated(g, s) <=> a = 1)
      /\ SameTags(x, g, C \ {s})
  BY <1>4, TagTiles
<1>6. C \ {s} = Outside(B, s, e)
  BY <1>1 DEF Joint, Outside
<1>7. \A c \in Outside(B, s, e) : /\ SizeOf(g, c) = SizeOf(x, c) /\ IsAllocated(g, c) = IsAllocated(x, c)
                                  /\ NEXT_BLKP(g, c) = NEXT_BLKP(x, c)
  BY <1>5, <1>6, SameBlock DEF SameTags
<1>8. Kept(x, g, Outside(B, s, e))
  BY <1>4, TaggedKeeps DEF Outside
<1>9. Listed(g, F)
  <2>1. Kept(x, g, F)
    BY <1>8, KeptLess
  <2>2. F \in SUBSET B
    BY Disjoint
  <2>3. g.list = x.list
    BY <1>4 DEF Tagged
  <2>. QED BY <2>1, <2>2, <2>3, KeptLists
<1>10. FreeOf(g, C) = IF a = 1 THEN F ELSE F \cup {s}
  <2>1. F = {c \in Outside(B, s, e) : ~IsAllocated(g, c)}
    BY <1>7 DEF FreeOf, Outside
  <2>2. C = Outside(B, s, e) \cup {s}
    BY <1>5, <1>6
  <2>3. CASE a = 1
    BY <1>5, <2>1, <2>2, <2>3 DEF FreeOf
  <2>4. CASE a # 1
    BY <1>5, <2>1, <2>2, <2>4 DEF FreeOf
  <2>. QED BY <2>3, <2>4
<1>11. UsedOf(g, C) = (UsedOf(x, B) \cap Outside(B, s, e)) \cup IF a = 1 THEN {s} ELSE {}
  <2>1. UsedOf(x, B) \cap Outside(B, s, e) = {c \in Outside(B, s, e) : IsAllocated(g, c)}
    BY <1>7 DEF UsedOf, Outside
  <2>2. C = Outside(B, s, e) \cup {s}
    BY <1>5, <1>6
  <2>3. CASE a = 1
    BY <1>5, <2>1, <2>2, <2>3 DEF UsedOf
  <2>4. CASE a # 1
    BY <1>5, <2>1, <2>2, <2>4 DEF UsedOf
  <2>. QED BY <2>3, <2>4
<1>12. g.brk = x.brk /\ g.list = x.list
  BY <1>4 DEF Tagged
<1>. QED
  BY <1>3, <1>4, <1>5, <1>7, <1>8, <1>9, <1>10, <1>11, <1>12 DEF Sealed

-----------------------------------------------------------------------------
(* Between calls *)

Joined(h, B) == \A c \in FreeOf(h, B) : NEXT_BLKP(h, c) \notin FreeOf(h, B)
Whole(h, B) == Tiled(h, B) /\ Listed(h, FreeOf(h, B)) /\ Joined(h, B)

\* A block has one neighbour in front.
LEMMA OneBefore ==
  ASSUME NEW h, NEW B, Tiled(h, B), NEW c \in B
  PROVE  PREV_BLKP(h, NEXT_BLKP(h, c)) = c
<1>1. Footer(h, c) = 2 * NEXT_BLKP(h, c) - 2 /\ SizeOf(h, c) = NEXT_BLKP(h, c) - c /\ c \in Nat
      /\ NEXT_BLKP(h, c) \in Nat
  BY BlockWords
<1>2. h.mem[2 * NEXT_BLKP(h, c) - 2] = h.mem[Header(c)]
  BY <1>1 DEF Tiled, BlockOK
<1>3. GET_SIZE(h.mem[2 * NEXT_BLKP(h, c) - 2]) = NEXT_BLKP(h, c) - c
  BY <1>1, <1>2 DEF SizeOf
<1>. QED
  BY <1>1, <1>3 DEF PREV_BLKP

-----------------------------------------------------------------------------
(* coalesce *)

\* All are joined but b to its neighbours.
Near(h, B, b) == \A c \in FreeOf(h, B) : NEXT_BLKP(h, c) \in FreeOf(h, B) => c = b \/ NEXT_BLKP(h, c) = b

\* From s to e are b and its free neighbours, and nothing free touches them.
Around(h, B, b, s, e) ==
  /\ s \in FreeOf(h, B) /\ e \in B \cup {h.brk} /\ s < e /\ e - s >= SizeOf(h, b)
  /\ s = IF IsAllocated(h, PREV_BLKP(h, b)) THEN b ELSE PREV_BLKP(h, b)
  /\ e = IF IsAllocated(h, NEXT_BLKP(h, b)) THEN NEXT_BLKP(h, b) ELSE NEXT_BLKP(h, NEXT_BLKP(h, b))
  /\ s # b => s \notin Outside(B, s, e)
  /\ e # NEXT_BLKP(h, b) => NEXT_BLKP(h, b) \in FreeOf(h, B) \ Outside(B, s, e)
  /\ NEXT_BLKP(h, b) # s /\ NEXT_BLKP(h, b) # b
  /\ \A c \in B \ Outside(B, s, e) : c = s \/ c = b \/ (e # NEXT_BLKP(h, b) /\ c = NEXT_BLKP(h, b))
  /\ b \notin Outside(B, s, e) /\ e \notin FreeOf(h, B)
  /\ \A c \in FreeOf(h, B) : NEXT_BLKP(h, c) = s => c \notin Outside(B, s, e)
  /\ \A c \in FreeOf(h, B) \cap Outside(B, s, e) : NEXT_BLKP(h, c) \notin FreeOf(h, B) \cap Outside(B, s, e)

\* Where a block that was just freed ends when its free neighbours join it
LEMMA AroundBlock ==
  ASSUME NEW h, NEW B, Tiled(h, B), NEW b \in FreeOf(h, B), Near(h, B, b),
         NEW s, s = IF IsAllocated(h, PREV_BLKP(h, b)) THEN b ELSE PREV_BLKP(h, b),
         NEW e, e = IF IsAllocated(h, NEXT_BLKP(h, b)) THEN NEXT_BLKP(h, b)
                    ELSE NEXT_BLKP(h, NEXT_BLKP(h, b))
  PROVE  Around(h, B, b, s, e)
<1> DEFINE before == PREV_BLKP(h, b)
           after == NEXT_BLKP(h, b)
<1>1. b \in B /\ ~IsAllocated(h, b)
  BY DEF FreeOf
<1>2. \A c \in B : c \in Nat /\ c >= 2 /\ c < h.brk /\ h.brk \in Nat /\ NEXT_BLKP(h, c) \in Nat
                   /\ c + 2 <= NEXT_BLKP(h, c)
  <2>1. SUFFICES ASSUME NEW c \in B
        PROVE c \in Nat /\ c >= 2 /\ c < h.brk /\ h.brk \in Nat /\ NEXT_BLKP(h, c) \in Nat
              /\ c + 2 <= NEXT_BLKP(h, c)
    OBVIOUS
  <2>2. c < h.brk
    BY DEF Tiled
  <2>. QED BY <2>2, BlockWords
<1>3. \A c, d \in B : c < d => NEXT_BLKP(h, c) <= d
  BY DEF Tiled
<1>4. SizeOf(h, b) = after - b
  BY <1>1, BlockWords
<1>5. IF IsAllocated(h, before) THEN s = b
      ELSE s = before /\ before \in FreeOf(h, B) /\ NEXT_BLKP(h, before) = b /\ before < b
  <2>1. CASE IsAllocated(h, before)
    BY <2>1
  <2>2. CASE ~IsAllocated(h, before)
    <3>1. before \in B /\ NEXT_BLKP(h, before) = b /\ before < b
      BY <1>1, <2>2, Before
    <3>. QED BY <2>2, <3>1 DEF FreeOf
  <2>. QED BY <2>1, <2>2
<1>6. s \in B /\ s \in FreeOf(h, B) /\ s <= b /\ (s # b => s = before /\ NEXT_BLKP(h, s) = b)
  BY <1>1, <1>2, <1>5 DEF FreeOf
<1>7. /\ after \in B \cup {h.brk} /\ (~IsAllocated(h, after) => after \in FreeOf(h, B))
      /\ (after \in FreeOf(h, B) => ~IsAllocated(h, after))
  BY <1>1, After
<1>8. e \in B \cup {h.brk} /\ e >= after /\ (e # after => after \in FreeOf(h, B) /\ e = NEXT_BLKP(h, after))
      /\ e \in Nat
  <2>1. CASE IsAllocated(h, after)
    BY <1>1, <1>2, <1>7, <2>1
  <2>2. CASE ~IsAllocated(h, after)
    <3>1. after \in B /\ after \in FreeOf(h, B) /\ e = NEXT_BLKP(h, after)
      BY <1>7, <2>2 DEF FreeOf
    <3>. QED BY <1>2, <3>1, After
  <2>. QED BY <2>1, <2>2
<1>9. b + 2 <= after /\ after \in Nat /\ s \in Nat /\ b \in Nat /\ e \in Nat
  BY <1>1, <1>2, <1>6, <1>8
<1>10. s < e /\ e - s >= SizeOf(h, b) /\ after # s /\ after # b
  BY <1>4, <1>6, <1>8, <1>9
<1>11. \A c \in B \ Outside(B, s, e) : c = s \/ c = b \/ (e # after /\ c = after)
  <2>1. SUFFICES ASSUME NEW c \in B, ~(c < s), ~(c >= e), c # s, c # b PROVE e # after /\ c = after
    BY DEF Outside
  <2>2. s < c /\ c < e /\ c \in Nat
    BY <1>2, <1>9, <2>1
  <2>3. b < c
    <3>1. CASE s = b
      BY <2>2, <3>1
    <3>2. CASE s # b
      <4>1. b <= c
        BY <1>3, <1>6, <2>2, <3>2
      <4>. QED BY <1>9, <2>1, <2>2, <4>1
    <3>. QED BY <3>1, <3>2
  <2>4. after <= c
    BY <1>1, <1>3, <2>3
  <2>5. e # after
    BY <1>9, <2>2, <2>4
  <2>6. after \in B /\ e = NEXT_BLKP(h, after)
    BY <1>8, <2>5 DEF FreeOf
  <2>7. after < c => e <= c
    BY <1>3, <2>6
  <2>. QED BY <1>9, <2>2, <2>4, <2>5, <2>7
<1>12. b \notin Outside(B, s, e) /\ s \notin Outside(B, s, e)
  BY <1>6, <1>8, <1>9 DEF Outside
<1>13. e # after => after \in FreeOf(h, B) \ Outside(B, s, e)
  <2>1. SUFFICES ASSUME e # after PROVE after \in FreeOf(h, B) \ Outside(B, s, e)
    OBVIOUS
  <2>2. after \in FreeOf(h, B) /\ after < e
    BY <1>8, <1>9, <2>1
  <2>3. ~(after < s)
    BY <1>6, <1>9
  <2>. QED BY <1>8, <1>9, <2>2, <2>3 DEF Outside
<1>14. e \notin FreeOf(h, B)
  <2>1. CASE e = after
    <3>1. IsAllocated(h, after)
      <4>1. SUFFICES ASSUME ~IsAllocated(h, after) PROVE FALSE
        OBVIOUS
      <4>2. after \in B /\ e = NEXT_BLKP(h, after)
        BY <1>7, <4>1 DEF FreeOf
      <4>3. after + 2 <= NEXT_BLKP(h, after) /\ NEXT_BLKP(h, after) \in Nat
        BY <1>2, <4>2
      <4>4. after + 2 <= after
        BY <2>1, <4>2, <4>3
      <4>. QED BY <1>9, <4>4
    <3>. QED BY <1>7, <2>1, <3>1
  <2>2. CASE e # after
    BY <1>8, <1>9, <1>10, <2>2 DEF Near
  <2>. QED BY <2>1, <2>2
<1>15. \A c \in FreeOf(h, B) : NEXT_BLKP(h, c) = s => c \notin Outside(B, s, e)
  <2>1. SUFFICES ASSUME NEW c \in FreeOf(h, B), NEXT_BLKP(h, c) = s PROVE FALSE
    OBVIOUS
  <2>2. c \in B /\ PREV_BLKP(h, s) = c /\ ~IsAllocated(h, c)
    BY <2>1, OneBefore DEF FreeOf
  <2>3. CASE s = b
    BY <1>5, <1>9, <2>2, <2>3
  <2>4. CASE s # b
    <3>1. c = b
      BY <1>6, <2>1, <2>4 DEF Near
    <3>. QED BY <1>6, <1>9, <2>1, <3>1
  <2>. QED BY <2>3, <2>4
<1>16. \A c \in FreeOf(h, B) \cap Outside(B, s, e) : NEXT_BLKP(h, c) \notin FreeOf(h, B) \cap Outside(B, s, e)
  BY <1>12 DEF Near
<1>. QED
  BY <1>6, <1>8, <1>10, <1>11, <1>12, <1>13, <1>14, <1>15, <1>16 DEF Around

\* A whole heap with the same blocks in use, and a free block of it
Found(h, B, size, r) ==
  \E C : /\ Whole(r.heap, C) /\ UsedOf(r.heap, C) = UsedOf(h, B) /\ Kept(h, r.heap, UsedOf(h, B))
         /\ r.block \in FreeOf(r.heap, C) /\ SizeOf(r.heap, r.block) >= size

\* coalesce leaves no free neighbours, and what is in use as it was.
LEMMA CoalesceJoins ==
  ASSUME NEW h, NEW B, Tiled(h, B), Listed(h, FreeOf(h, B)), NEW b \in FreeOf(h, B), Near(h, B, b)
  PROVE  Found(h, B, SizeOf(h, b), coalesce(h, b))
<1>1. PICK before : before = PREV_BLKP(h, b)
  OBVIOUS
<1>2. PICK after : after = NEXT_BLKP(h, b)
  OBVIOUS
<1>3. PICK s : s = IF IsAllocated(h, before) THEN b ELSE before
  OBVIOUS
<1>4. PICK e : e = IF IsAllocated(h, after) THEN after ELSE NEXT_BLKP(h, after)
  OBVIOUS
<1>5. Around(h, B, b, s, e)
  BY <1>1, <1>2, <1>3, <1>4, AroundBlock
<1>6. PICK r : r = coalesce(h, b)
  OBVIOUS
<1>7. PICK h1 : h1 = IF s = b THEN h ELSE delete(h, before)
  OBVIOUS
<1>8. PICK h2 : h2 = delete(h1, b)
  OBVIOUS
<1>9. PICK h3 : h3 = IF e = after THEN h2 ELSE delete(h2, after)
  OBVIOUS
<1>10. PICK g : g = Tag(h3, s, e - s, 0)
  OBVIOUS
<1>11. PICK k : k = insert(g, s)
  OBVIOUS
<1>12. r = IF s = b /\ e = after THEN Result(h, b) ELSE Result(k, s)
  BY <1>1, <1>2, <1>3, <1>4, <1>6, <1>7, <1>8, <1>9, <1>10, <1>11 DEF coalesce
<1>13. \A x, y : Result(x, y).heap = x /\ Result(x, y).block = y
  BY DEF Result
<1>14. b \in B /\ SizeOf(h, b) \in Nat
  BY BlockWords DEF FreeOf
<1>15. CASE s = b /\ e = after
  <2>1. r.heap = h /\ r.block = b
    BY <1>12, <1>13, <1>15
  <2>2. Joined(h, B)
    <3>1. SUFFICES ASSUME NEW c \in FreeOf(h, B), NEXT_BLKP(h, c) \in FreeOf(h, B) PROVE FALSE
      BY DEF Joined
    <3>2. c # b
      BY <1>2, <1>5, <1>15, <3>1 DEF Around
    <3>3. NEXT_BLKP(h, c) = b
      BY <3>1, <3>2 DEF Near
    <3>4. PREV_BLKP(h, b) = c
      BY <3>3, OneBefore DEF FreeOf
    <3>. QED BY <1>1, <1>3, <1>15, <3>2, <3>4 DEF FreeOf
  <2>3. Whole(h, B) /\ Kept(h, h, UsedOf(h, B))
    BY <2>2 DEF Whole, Kept
  <2>4. SizeOf(h, b) >= SizeOf(h, b)
    BY <1>14
  <2>. QED BY <1>6, <2>1, <2>3, <2>4 DEF Found
<1>16. CASE ~(s = b /\ e = after)
  <2>1. r.heap = k /\ r.block = s
    BY <1>12, <1>13, <1>16
  <2> DEFINE F1 == IF s = b THEN FreeOf(h, B) ELSE FreeOf(h, B) \ {before}
             F2 == F1 \ {b}
             F3 == IF e = after THEN F2 ELSE F2 \ {after}
  <2>2. Relisted(h, h1, B, F1) /\ F1 \in SUBSET FreeOf(h, B) /\ b \in F1
    <3>1. CASE s = b
      BY <1>7, <3>1, RelistedSelf
    <3>2. CASE s # b
      <4>1. s = before /\ before \in FreeOf(h, B)
        BY <1>3, <1>5, <3>2 DEF Around
      <4>2. Relisted(h, h, B, FreeOf(h, B))
        BY RelistedSelf
      <4>3. Relisted(h, h1, B, FreeOf(h, B) \ {before})
        BY <1>7, <3>2, <4>1, <4>2, RelistDelete
      <4>. QED BY <3>2, <4>1, <4>3
    <3>. QED BY <3>1, <3>2
  <2>3. Relisted(h, h2, B, F2) /\ F2 \in SUBSET FreeOf(h, B)
    <3> HIDE DEF F1
    <3>. QED BY <1>8, <2>2, RelistDelete
  <2>4. Relisted(h, h3, B, F3) /\ F3 \in SUBSET FreeOf(h, B)
    <3>1. CASE e = after
      BY <1>9, <2>3, <3>1
    <3>2. CASE e # after
      <4>1. after \in F2
        <5>1. after \in FreeOf(h, B) /\ after # s /\ after # b
          BY <1>2, <1>5, <3>2 DEF Around
        <5>2. s # b => s = before
          BY <1>3
        <5>. QED BY <5>1, <5>2
      <4>2. Relisted(h, delete(h2, after), B, F2 \ {after})
        <5> HIDE DEF F2
        <5>. QED BY <2>3, <4>1, RelistDelete
      <4>. QED BY <1>9, <2>3, <3>2, <4>2
    <3>. QED BY <3>1, <3>2
  <2>5. F3 = FreeOf(h, B) \cap Outside(B, s, e)
    <3>1. s # b => s = before
      BY <1>3
    <3>2. /\ \A c \in B \ Outside(B, s, e) : c = s \/ c = b \/ (e # after /\ c = after)
          /\ s # b => s \notin Outside(B, s, e)
          /\ b \notin Outside(B, s, e) /\ (e # after => after \notin Outside(B, s, e))
      BY <1>2, <1>5 DEF Around
    <3>3. FreeOf(h, B) \subseteq B
      BY Disjoint
    <3>4. ASSUME NEW c \in FreeOf(h, B)
          PROVE  c \in F3 <=> c \in Outside(B, s, e)
      <4>1. c \in F3 <=> ~(c = s \/ c = b \/ (e # after /\ c = after))
        BY <3>1
      <4>2. c = s => c \notin Outside(B, s, e)
        BY <3>2
      <4>. QED BY <3>2, <3>3, <4>1, <4>2
    <3>. QED BY <2>4, <3>4
  <2> HIDE DEF F1, F2, F3
  <2>6. /\ Tiled(h3, B) /\ Listed(h3, F3) /\ Kept(h, h3, UsedOf(h, B))
        /\ h3.brk = h.brk /\ FreeOf(h3, B) = FreeOf(h, B) /\ UsedOf(h3, B) = UsedOf(h, B)
        /\ \A c \in B : NEXT_BLKP(h3, c) = NEXT_BLKP(h, c) /\ SizeOf(h3, c) = SizeOf(h, c)
    BY <2>4 DEF Relisted, SameBlocks
  <2>7. s \in B /\ s \in FreeOf(h, B) /\ e \in B \cup {h.brk} /\ s < e /\ e - s >= SizeOf(h, b)
        /\ s \notin Outside(B, s, e) /\ b \notin Outside(B, s, e) /\ e \notin FreeOf(h, B)
    <3>1. s = b \/ s # b
      OBVIOUS
    <3>. QED BY <1>5, <3>1 DEF Around, FreeOf
  <2>8. Sealed(h3, g, B, s, e, 0, F3)
    <3>1. 0 \in {0, 1} /\ e \in B \cup {h3.brk} /\ F3 = FreeOf(h3, B) \cap Outside(B, s, e)
      BY <2>5, <2>6, <2>7
    <3>. QED BY <1>10, <2>6, <2>7, <3>1, Sealing
  <2> DEFINE C == Joint(B, s, e)
             U == UsedOf(h, B)
  <2>9. U \in SUBSET B /\ U \subseteq Outside(B, s, e)
    <3>1. SUFFICES ASSUME NEW c \in U, c \notin Outside(B, s, e) PROVE FALSE
      BY Disjoint
    <3>2. c \in B /\ c \notin FreeOf(h, B)
      BY Disjoint
    <3>3. c = s \/ c = b \/ (e # after /\ c = after)
      BY <1>2, <1>5, <3>1, <3>2 DEF Around
    <3>4. e # after => after \in FreeOf(h, B)
      BY <1>2, <1>5 DEF Around
    <3>. QED BY <2>7, <3>2, <3>3, <3>4
  <2>10. /\ Tiled(g, C) /\ Listed(g, F3) /\ FreeOf(g, C) = F3 \cup {s} /\ UsedOf(g, C) = U
         /\ NEXT_BLKP(g, s) = e /\ SizeOf(g, s) = e - s
         /\ \A c \in F3 : NEXT_BLKP(g, c) = NEXT_BLKP(h, c)
    <3>1. /\ Tiled(g, C) /\ Listed(g, F3) /\ FreeOf(g, C) = F3 \cup {s}
          /\ UsedOf(g, C) = UsedOf(h3, B) \cap Outside(B, s, e)
          /\ NEXT_BLKP(g, s) = e /\ SizeOf(g, s) = e - s
          /\ \A c \in Outside(B, s, e) : NEXT_BLKP(g, c) = NEXT_BLKP(h3, c)
      BY <2>8 DEF Sealed
    <3>2. \A c \in F3 : c \in Outside(B, s, e) /\ c \in B
      BY <2>5 DEF Outside
    <3>. QED BY <2>6, <2>9, <3>1, <3>2
  <2>11. Kept(h, g, U)
    <3>1. Kept(h3, g, U)
      BY <2>8, <2>9, KeptLess DEF Sealed
    <3>. QED BY <2>6, <2>9, <3>1, KeptTwice
  <2>12. Relisted(g, k, C, F3 \cup {s})
    <3>1. Relisted(g, g, C, F3)
      BY <2>10, RelistedSelf
    <3>2. F3 \in SUBSET FreeOf(g, C) /\ s \in FreeOf(g, C) \ F3
      BY <2>5, <2>7, <2>10
    <3>. QED BY <1>11, <2>10, <3>1, <3>2, RelistInsert
  <2>13. /\ Tiled(k, C) /\ Listed(k, FreeOf(k, C)) /\ FreeOf(k, C) = F3 \cup {s} /\ UsedOf(k, C) = U
         /\ Kept(g, k, U) /\ SizeOf(k, s) = e - s
         /\ \A c \in FreeOf(k, C) : NEXT_BLKP(k, c) = NEXT_BLKP(g, c)
    <3>1. /\ Tiled(k, C) /\ Listed(k, F3 \cup {s}) /\ FreeOf(k, C) = FreeOf(g, C) /\ UsedOf(k, C) = UsedOf(g, C)
          /\ Kept(g, k, UsedOf(g, C))
          /\ \A c \in C : NEXT_BLKP(k, c) = NEXT_BLKP(g, c) /\ SizeOf(k, c) = SizeOf(g, c)
      BY <2>12 DEF Relisted, SameBlocks
    <3>2. s \in C /\ FreeOf(k, C) \subseteq C
      BY <2>8 DEF Sealed, FreeOf
    <3>. QED BY <2>10, <3>1, <3>2
  <2>14. Kept(h, k, U)
    BY <2>9, <2>11, <2>13, KeptTwice
  <2>15. Joined(k, C)
    <3>1. SUFFICES ASSUME NEW c \in F3 \cup {s}, NEXT_BLKP(k, c) \in F3 \cup {s} PROVE FALSE
      BY <2>13 DEF Joined
    <3>2. NEXT_BLKP(k, c) = NEXT_BLKP(g, c)
      BY <2>13
    <3>3. CASE c = s
      BY <2>5, <2>7, <2>10, <3>1, <3>2, <3>3
    <3>4. CASE c \in F3
      <4>1. c \in FreeOf(h, B) \cap Outside(B, s, e) /\ NEXT_BLKP(k, c) = NEXT_BLKP(h, c)
        BY <2>5, <2>10, <3>2, <3>4
      <4>2. CASE NEXT_BLKP(h, c) = s
        BY <1>5, <4>1, <4>2 DEF Around
      <4>3. CASE NEXT_BLKP(h, c) # s
        <5>1. NEXT_BLKP(h, c) \in FreeOf(h, B) \cap Outside(B, s, e)
          BY <2>5, <3>1, <4>1, <4>3
        <5>. QED BY <1>5, <4>1, <5>1 DEF Around
      <4>. QED BY <4>2, <4>3
    <3>. QED BY <3>1, <3>3, <3>4
  <2>16. Whole(k, C)
    BY <2>13, <2>15 DEF Whole
  <2>17. s \in FreeOf(k, C) /\ SizeOf(k, s) >= SizeOf(h, b)
    BY <2>7, <2>13
  <2> HIDE DEF C
  <2>18. Found(h, B, SizeOf(h, b), r)
    BY <2>1, <2>13, <2>14, <2>16, <2>17 DEF Found
  <2>. QED BY <1>6, <2>18
<1>. QED
  BY <1>15, <1>16

-----------------------------------------------------------------------------
(* extend_heap *)

\* What extend_heap writes before it calls insert
LEMMA ExtendWords ==
  ASSUME NEW h \in Heaps, NEW b, b = h.brk, NEW size \in Nat, size >= 2, b + size <= Limit
  PROVE  Grown(h, Put(Tag([h EXCEPT !.brk = b + size], b, size, 0), Header(b + size), PACK(0, 1)), b, b + size)
<1>1. b \in 2..Limit /\ b + size \in 2..Limit /\ b < b + size /\ (b + size) - b = size /\ Limit \in Nat
  BY HeapType
<1>2. PICK x : x = [h EXCEPT !.brk = b + size]
  OBVIOUS
<1>3. x \in Heaps /\ x.mem = h.mem /\ x.list = h.list /\ x.brk = b + size
  BY <1>1, <1>2 DEF Heaps
<1>4. PICK t : t = Tag(x, b, size, 0)
  OBVIOUS
<1>5. Tagged(x, t, b, b + size, 0)
  BY <1>1, <1>3, <1>4, TagFacts
<1>6. PICK g : g = Put(t, 2 * (b + size) - 1, PACK(0, 1))
  OBVIOUS
<1>7. Wrote(t, g, 2 * (b + size) - 1, PACK(0, 1))
  <2>1. 2 * (b + size) - 1 \in Words /\ PACK(0, 1) \in Int
    BY <1>1, TagValue DEF Words
  <2>2. t \in Heaps
    BY <1>5 DEF Tagged
  <2>. QED BY <1>6, <2>1, <2>2, PutFacts
<1>8. Grown(h, g, b, b + size)
  <2>1. 2 * b - 1 \in Words /\ 2 * (b + size) - 2 \in Words /\ 2 * b - 1 # 2 * (b + size) - 1
        /\ 2 * (b + size) - 2 # 2 * (b + size) - 1
    BY <1>1 DEF Words
  <2>. QED BY <1>1, <1>3, <1>5, <1>7, <2>1 DEF Grown, Tagged, Wrote
<1>. QED
  BY <1>2, <1>4, <1>6, <1>8 DEF Header

\* The new block is free and in no list yet; the others are as they were.
LEMMA GrownKeeps ==
  ASSUME NEW h, NEW B, Tiled(h, B), NEW b, b = h.brk, NEW e \in Nat, b < e, NEW g, Grown(h, g, b, e)
  PROVE  Kept(h, g, B)
<1>1. SUFFICES ASSUME NEW c \in B, NEW v \in Int, 2 * c - 1 <= v, v <= 2 * NEXT_BLKP(h, c) - 3
      PROVE  g.mem[v] = h.mem[v]
  BY DEF Kept
<1>2. v \in Words /\ c \in Nat /\ NEXT_BLKP(h, c) \in Nat /\ NEXT_BLKP(h, c) <= b /\ b \in Nat
  BY <1>1, BlockWords
<1>3. v # 2 * b - 1 /\ v # 2 * e - 2 /\ v # 2 * e - 1
  BY <1>1, <1>2
<1>. QED BY <1>2, <1>3 DEF Grown

\* The heap ends in a free block, or is as it was.
LEMMA ExtendFinds ==
  ASSUME NEW h, NEW B, Whole(h, B), NEW size \in Nat, size >= 2,
         NEW r, r = extend_heap(h, size), r # Result(h, Null)
  PROVE  Found(h, B, size, r)
<1>1. Tiled(h, B) /\ Listed(h, FreeOf(h, B)) /\ Joined(h, B) /\ h \in Heaps
  BY DEF Whole, Tiled
<1>2. PICK b : b = h.brk
  OBVIOUS
<1>3. b \in Nat /\ b >= 2 /\ Limit \in Nat
  BY <1>1, <1>2, HeapType
<1>4. b + size <= Limit
  BY <1>2, <1>3 DEF extend_heap
<1>5. PICK e : e = b + size
  OBVIOUS
<1>6. e \in 2..Limit /\ b + 2 <= e /\ b < e /\ e - b = size /\ e \in Nat
  BY <1>3, <1>4, <1>5
<1>7. PICK g : g = Put(Tag([h EXCEPT !.brk = b + size], b, size, 0), Header(b + size), PACK(0, 1))
  OBVIOUS
<1>8. Grown(h, g, b, e)
  BY <1>1, <1>2, <1>4, <1>5, <1>7, ExtendWords
<1> DEFINE C == B \cup {b}
           U == UsedOf(h, B)
<1>9. /\ Tiled(g, C) /\ b \notin B /\ SizeOf(g, b) = e - b /\ ~IsAllocated(g, b) /\ SameTags(h, g, B)
  BY <1>1, <1>2, <1>6, <1>8, GrownTiles
<1>10. Kept(h, g, B) /\ g.list = h.list
  BY <1>1, <1>2, <1>6, <1>8, GrownKeeps DEF Grown
<1>11. FreeOf(g, C) = FreeOf(h, B) \cup {b} /\ UsedOf(g, C) = U /\ \A c \in B : NEXT_BLKP(g, c) = NEXT_BLKP(h, c)
  <2>1. \A c \in B : IsAllocated(g, c) = IsAllocated(h, c) /\ NEXT_BLKP(g, c) = NEXT_BLKP(h, c)
    BY <1>9, SameBlock DEF SameTags
  <2>. QED BY <1>9, <2>1 DEF FreeOf, UsedOf
<1>12. U \in SUBSET B /\ FreeOf(h, B) \in SUBSET B
  BY Disjoint
<1>13. Kept(h, g, FreeOf(h, B)) /\ Kept(h, g, U)
  BY <1>10, <1>12, KeptLess
<1>14. Listed(g, FreeOf(h, B))
  BY <1>1, <1>10, <1>12, <1>13, KeptLists
<1>15. PICK k : k = insert(g, b)
  OBVIOUS
<1>16. Relisted(g, k, C, FreeOf(g, C))
  <2>1. Relisted(g, g, C, FreeOf(h, B))
    BY <1>9, <1>14, RelistedSelf
  <2>2. FreeOf(h, B) \in SUBSET FreeOf(g, C) /\ b \in FreeOf(g, C) \ FreeOf(h, B)
    BY <1>9, <1>11, <1>12
  <2>3. Relisted(g, k, C, FreeOf(h, B) \cup {b})
    BY <1>9, <1>15, <2>1, <2>2, RelistInsert
  <2>. QED BY <1>11, <2>3
<1>17. /\ Tiled(k, C) /\ Listed(k, FreeOf(k, C)) /\ FreeOf(k, C) = FreeOf(h, B) \cup {b} /\ UsedOf(k, C) = U
       /\ Kept(g, k, U) /\ SizeOf(k, b) = size
       /\ \A c \in B : NEXT_BLKP(k, c) = NEXT_BLKP(h, c)
  <2>1. /\ Tiled(k, C) /\ Listed(k, FreeOf(g, C)) /\ Kept(g, k, UsedOf(g, C))
        /\ FreeOf(k, C) = FreeOf(g, C) /\ UsedOf(k, C) = UsedOf(g, C)
        /\ \A c \in C : NEXT_BLKP(k, c) = NEXT_BLKP(g, c) /\ SizeOf(k, c) = SizeOf(g, c)
    BY <1>16 DEF Relisted, SameBlocks
  <2>. QED BY <1>6, <1>9, <1>11, <2>1
<1>18. Near(k, C, b)
  <2>1. SUFFICES ASSUME NEW c \in FreeOf(k, C), NEXT_BLKP(k, c) \in FreeOf(k, C), c # b, NEXT_BLKP(k, c) # b
        PROVE FALSE
    BY DEF Near
  <2>2. c \in FreeOf(h, B) /\ NEXT_BLKP(h, c) \in FreeOf(h, B)
    BY <1>12, <1>17, <2>1
  <2>. QED BY <1>1, <2>2 DEF Joined
<1>19. Found(k, C, size, coalesce(k, b))
  <2>1. b \in FreeOf(k, C)
    BY <1>17
  <2>. QED BY <1>17, <1>18, <2>1, CoalesceJoins
<1>20. r = coalesce(k, b)
  BY <1>2, <1>4, <1>7, <1>15 DEF extend_heap
<1>21. Kept(h, k, U)
  BY <1>1, <1>12, <1>13, <1>17, KeptTwice
<1>22. PICK D : /\ Whole(r.heap, D) /\ UsedOf(r.heap, D) = U /\ Kept(k, r.heap, U)
                /\ r.block \in FreeOf(r.heap, D) /\ SizeOf(r.heap, r.block) >= size
  BY <1>17, <1>19, <1>20 DEF Found
<1>23. Kept(h, r.heap, U)
  BY <1>1, <1>12, <1>21, <1>22, KeptTwice
<1>. QED
  BY <1>22, <1>23 DEF Found

-----------------------------------------------------------------------------
(* place *)

\* A whole heap with one more block in use
Placed(h, B, size, r) ==
  \E C : /\ Whole(r.heap, C) /\ UsedOf(r.heap, C) = UsedOf(h, B) \cup {r.block} /\ r.block \notin UsedOf(h, B)
         /\ Kept(h, r.heap, UsedOf(h, B)) /\ SizeOf(r.heap, r.block) >= size

\* One part of a block is put in use, the other is free.
LEMMA SplitWhole ==
  ASSUME NEW h, NEW B, Tiled(h, B), Joined(h, B), NEW b \in FreeOf(h, B),
         NEW x, Relisted(h, x, B, FreeOf(h, B) \ {b}),
         NEW m \in Nat, b + 2 <= m, m + 2 <= NEXT_BLKP(h, b), NEW a1 \in {0, 1}, NEW a2 \in {0, 1}, a1 # a2,
         NEW size1, size1 = m - b, NEW size2, size2 = NEXT_BLKP(h, b) - m,
         NEW f, f = IF a1 = 0 THEN b ELSE m, NEW u, u = IF a1 = 0 THEN m ELSE b,
         NEW size, size = IF a1 = 0 THEN size2 ELSE size1
  PROVE  Placed(h, B, size, Result(insert(Tag(Tag(x, b, size1, a1), m, size2, a2), f), u))
<1>0. PICK e : e = NEXT_BLKP(h, b)
  OBVIOUS
<1> DEFINE C == B \cup {m}
           U == UsedOf(h, B)
           F == FreeOf(h, B) \ {b}
<1>1. PICK y : y = Tag(x, b, size1, a1)
  OBVIOUS
<1>2. PICK g : g = Tag(y, m, size2, a2)
  OBVIOUS
<1>3. PICK k : k = insert(g, f)
  OBVIOUS
<1>4. /\ Tiled(x, B) /\ Listed(x, F) /\ FreeOf(x, B) = FreeOf(h, B) /\ UsedOf(x, B) = U /\ x.brk = h.brk
      /\ Kept(h, x, U) /\ \A c \in B : NEXT_BLKP(x, c) = NEXT_BLKP(h, c)
  BY DEF Relisted, SameBlocks
<1>5. b \in B /\ U \in SUBSET B /\ F \in SUBSET B /\ b \notin U /\ b \notin F
  BY Disjoint
<1>6. /\ b \in Nat /\ b >= 2 /\ e \in Nat /\ e <= h.brk /\ h.brk <= Limit /\ Limit \in Nat /\ h.brk \in Nat
      /\ m + 2 <= e /\ size2 = e - m /\ e = NEXT_BLKP(x, b)
  BY <1>0, <1>4, <1>5, BlockWords
<1>7. b \in 2..Limit /\ m \in 2..Limit /\ e \in 2..Limit /\ b < m /\ m < e
  BY <1>6
<1>8. Tagged(x, y, b, m, a1)
  <2>1. x \in Heaps
    BY <1>4 DEF Tiled
  <2>. QED BY <1>1, <1>7, <2>1, TagFacts
<1>9. Tagged(y, g, m, e, a2)
  <2>1. y \in Heaps
    BY <1>8 DEF Tagged
  <2>. QED BY <1>2, <1>6, <1>7, <2>1, TagFacts
<1>10. /\ Tiled(g, C) /\ m \notin B
       /\ SizeOf(g, b) = m - b /\ NEXT_BLKP(g, b) = m /\ (IsAllocated(g, b) <=> a1 = 1)
       /\ SizeOf(g, m) = e - m /\ NEXT_BLKP(g, m) = e /\ (IsAllocated(g, m) <=> a2 = 1)
       /\ SameTags(x, g, B \ {b})
  <2>1. InTwo(x, g, B, b, m, e, a1, a2)
    BY <1>4, <1>5, <1>6, <1>8, <1>9, SplitTiles
  <2>. QED BY <2>1 DEF InTwo
<1>11. Kept(x, g, B \ {b})
  <2>1. SUFFICES ASSUME NEW c \in B \ {b}, NEW v \in Int, 2 * c - 1 <= v, v <= 2 * NEXT_BLKP(x, c) - 3
        PROVE  g.mem[v] = x.mem[v]
    BY DEF Kept
  <2>2. v \in Words /\ c \in Nat /\ NEXT_BLKP(x, c) \in Nat
    BY <1>4, <2>1, BlockWords
  <2>3. (c < b => NEXT_BLKP(x, c) <= b) /\ (b < c => e <= c)
    BY <1>4, <1>5, <1>6 DEF Tiled
  <2>4. v # 2 * b - 1 /\ v # 2 * m - 2 /\ v # 2 * m - 1 /\ v # 2 * e - 2
    BY <1>6, <1>7, <2>1, <2>2, <2>3
  <2>. QED BY <1>8, <1>9, <2>2, <2>4 DEF Tagged
<1>12. Kept(x, g, F) /\ Kept(x, g, U)
  <2>1. F \in SUBSET (B \ {b}) /\ U \in SUBSET (B \ {b})
    BY <1>5
  <2>. QED BY <1>11, <2>1, KeptLess
<1>13. Listed(g, F)
  <2>1. g.list = x.list
    BY <1>8, <1>9 DEF Tagged
  <2>. QED BY <1>4, <1>5, <1>12, <2>1, KeptLists
<1>14. FreeOf(g, C) = F \cup {f} /\ UsedOf(g, C) = U \cup {u} /\ f \notin F /\ u \notin U
       /\ \A c \in F : NEXT_BLKP(g, c) = NEXT_BLKP(h, c)
  <2>1. \A c \in B \ {b} : IsAllocated(g, c) = IsAllocated(x, c) /\ NEXT_BLKP(g, c) = NEXT_BLKP(h, c)
    <3>1. \A c \in B \ {b} : g.mem[2 * c - 1] = x.mem[2 * c - 1]
      BY <1>10 DEF SameTags
    <3>2. \A c \in B \ {b} : IsAllocated(g, c) = IsAllocated(x, c) /\ NEXT_BLKP(g, c) = NEXT_BLKP(x, c)
      BY <3>1, SameBlock
    <3>. QED BY <1>4, <3>2
  <2>2. F = {c \in B \ {b} : ~IsAllocated(x, c)} /\ U = {c \in B \ {b} : IsAllocated(x, c)}
    BY <1>4, <1>5 DEF FreeOf, UsedOf
  <2>3. ~IsAllocated(g, f) /\ IsAllocated(g, u) /\ C = (B \ {b}) \cup {f, u} /\ f # u
        /\ f \notin B \ {b} /\ u \notin B \ {b}
    <3>1. CASE a1 = 0
      <4>1. a2 = 1 /\ f = b /\ u = m
        BY <3>1
      <4>. QED BY <1>5, <1>7, <1>10, <3>1, <4>1
    <3>2. CASE a1 # 0
      <4>1. a1 = 1 /\ a2 = 0 /\ f = m /\ u = b
        BY <3>2
      <4>. QED BY <1>5, <1>7, <1>10, <4>1
    <3>. QED BY <3>1, <3>2
  <2>4. FreeOf(g, C) = F \cup {f} /\ f \notin F
    <3> HIDE DEF C, F
    <3>. QED BY <2>1, <2>2, <2>3 DEF FreeOf
  <2>5. UsedOf(g, C) = U \cup {u} /\ u \notin U
    <3> HIDE DEF C, U
    <3>. QED BY <2>1, <2>2, <2>3 DEF UsedOf
  <2>. QED BY <1>5, <2>1, <2>4, <2>5
<1>15. Relisted(g, k, C, FreeOf(g, C))
  <2>1. Relisted(g, g, C, F)
    BY <1>10, <1>13, RelistedSelf
  <2>2. F \in SUBSET FreeOf(g, C) /\ f \in FreeOf(g, C) \ F
    BY <1>14
  <2>3. Relisted(g, k, C, F \cup {f})
    <3> HIDE DEF F, C
    <3>. QED BY <1>3, <1>10, <2>1, <2>2, RelistInsert
  <2>. QED BY <1>14, <2>3
<1>16. /\ Tiled(k, C) /\ Listed(k, FreeOf(k, C)) /\ FreeOf(k, C) = F \cup {f} /\ UsedOf(k, C) = U \cup {u}
       /\ Kept(g, k, U) /\ SizeOf(k, u) = size
       /\ \A c \in F : NEXT_BLKP(k, c) = NEXT_BLKP(h, c)
       /\ NEXT_BLKP(k, f) = NEXT_BLKP(g, f)
  <2>1. /\ Tiled(k, C) /\ Listed(k, FreeOf(g, C)) /\ Kept(g, k, UsedOf(g, C))
        /\ FreeOf(k, C) = FreeOf(g, C) /\ UsedOf(k, C) = UsedOf(g, C)
        /\ \A c \in C : NEXT_BLKP(k, c) = NEXT_BLKP(g, c) /\ SizeOf(k, c) = SizeOf(g, c)
    BY <1>15 DEF Relisted, SameBlocks
  <2>2. Kept(g, k, U)
    <3>1. U \in SUBSET UsedOf(g, C)
      BY <1>14
    <3>. QED BY <2>1, <3>1, KeptLess
  <2>3. f \in C /\ u \in C
    BY <1>5
  <2>4. SizeOf(k, u) = size
    <3>1. CASE a1 = 0
      <4>1. u = m /\ size = e - m
        BY <1>6, <3>1
      <4>. QED BY <1>10, <2>1, <2>3, <4>1
    <3>2. CASE a1 # 0
      <4>1. u = b /\ size = m - b
        BY <3>2
      <4>. QED BY <1>10, <2>1, <2>3, <4>1
    <3>. QED BY <3>1, <3>2
  <2>. QED BY <1>5, <1>14, <2>1, <2>2, <2>3, <2>4
<1>17. Joined(k, C)
  <2>1. SUFFICES ASSUME NEW c \in F \cup {f}, NEXT_BLKP(k, c) \in F \cup {f} PROVE FALSE
    BY <1>16 DEF Joined
  <2>2. CASE c \in F
    <3>1. NEXT_BLKP(h, c) \notin FreeOf(h, B) /\ NEXT_BLKP(h, c) \in B \cup {h.brk} /\ NEXT_BLKP(k, c) = NEXT_BLKP(h, c)
      BY <1>5, <1>16, <2>2, After DEF Joined
    <3>2. NEXT_BLKP(h, c) # b
      BY <3>1
    <3>3. m # h.brk /\ m \notin B
      BY <1>6, <1>7, <1>10
    <3>. QED BY <2>1, <3>1, <3>2, <3>3
  <2>3. CASE c = f
    <3>1. NEXT_BLKP(k, c) = IF a1 = 0 THEN m ELSE e
      BY <1>10, <1>16, <2>3
    <3>2. e \notin FreeOf(h, B)
      BY <1>0 DEF Joined
    <3>3. F \subseteq FreeOf(h, B) /\ m \notin F /\ m # b /\ e # m
      BY <1>5, <1>7, <1>10
    <3>. QED BY <2>1, <3>1, <3>2, <3>3
  <2>. QED BY <2>1, <2>2, <2>3
<1>18. Whole(k, C)
  BY <1>16, <1>17 DEF Whole
<1>19. Kept(h, k, U)
  <2>1. Kept(h, g, U)
    BY <1>4, <1>5, <1>12, KeptTwice
  <2>. QED BY <1>5, <1>16, <2>1, KeptTwice
<1>20. size >= size
  <2>1. size \in Int
    BY <1>6
  <2>. QED BY <2>1
<1> HIDE DEF C
<1>21. PICK r : r = Result(k, u)
  OBVIOUS
<1>22. r.heap = k /\ r.block = u
  BY <1>21 DEF Result
<1>23. Placed(h, B, size, r)
  BY <1>14, <1>16, <1>18, <1>19, <1>20, <1>22 DEF Placed
<1>. QED
  BY <1>1, <1>2, <1>3, <1>21, <1>23

\* place puts the block in use, or a part of it that is large enough.
LEMMA PlaceTakes ==
  ASSUME NEW h, NEW B, Whole(h, B), NEW b \in FreeOf(h, B), NEW size \in Nat, size >= 2, SizeOf(h, b) >= size
  PROVE  Placed(h, B, size, place(h, b, size))
<1>1. Tiled(h, B) /\ Listed(h, FreeOf(h, B)) /\ Joined(h, B) /\ b \in B
  BY DEF Whole, FreeOf
<1>2. PICK whole : whole = SizeOf(h, b)
  OBVIOUS
<1>3. PICK rest : rest = whole - size
  OBVIOUS
<1>4. PICK out : out = delete(h, b)
  OBVIOUS
<1>5. PICK e : e = NEXT_BLKP(h, b)
  OBVIOUS
<1>6. /\ b \in Nat /\ b >= 2 /\ whole = e - b /\ whole \in Nat /\ e \in Nat /\ e <= h.brk /\ h.brk <= Limit
      /\ Limit \in Nat /\ h.brk \in Nat /\ b < e /\ e \in B \cup {h.brk} /\ rest \in Nat
  BY <1>1, <1>2, <1>3, <1>5, BlockWords, After
<1>7. PICK r : r = place(h, b, size)
  OBVIOUS
<1> DEFINE F == FreeOf(h, B) \ {b}
           U == UsedOf(h, B)
<1>8. Relisted(h, out, B, F)
  <2>1. Relisted(h, h, B, FreeOf(h, B))
    BY <1>1, RelistedSelf
  <2>2. FreeOf(h, B) \in SUBSET FreeOf(h, B)
    OBVIOUS
  <2>. QED BY <1>1, <1>4, <2>1, <2>2, RelistDelete
<1>9. CASE rest <= 2
  <2>1. PICK g : g = Tag(out, b, whole, 1)
    OBVIOUS
  <2>2. r = Result(g, b)
    BY <1>2, <1>3, <1>4, <1>7, <1>9, <2>1 DEF place
  <2>3. r.heap = g /\ r.block = b
    BY <2>2 DEF Result
  <2>4. /\ Tiled(out, B) /\ Listed(out, F) /\ FreeOf(out, B) = FreeOf(h, B) /\ UsedOf(out, B) = U
        /\ out.brk = h.brk /\ Kept(h, out, U) /\ \A c \in B : NEXT_BLKP(out, c) = NEXT_BLKP(h, c)
    BY <1>8 DEF Relisted, SameBlocks
  <2>5. Outside(B, b, e) = B \ {b}
    <3>1. \A c \in B : c \in Nat /\ (b < c => e <= c)
      BY <1>1, <1>5 DEF Tiled
    <3>2. \A c \in B : (c < b \/ c >= e) <=> c # b
      BY <1>6, <3>1
    <3>. QED BY <3>2 DEF Outside
  <2>6. U \in SUBSET B /\ FreeOf(h, B) \in SUBSET B /\ b \notin U
    BY <1>1, Disjoint
  <2>7. Sealed(out, g, B, b, e, 1, F)
    <3>1. F = FreeOf(out, B) \cap Outside(B, b, e) /\ e \in B \cup {out.brk} /\ 1 \in {0, 1}
      BY <1>6, <2>4, <2>5, <2>6
    <3>. QED BY <1>1, <1>6, <2>1, <2>4, <3>1, Sealing
  <2> DEFINE C == Joint(B, b, e)
  <2>8. /\ Tiled(g, C) /\ Listed(g, F) /\ FreeOf(g, C) = F /\ UsedOf(g, C) = U \cup {b}
        /\ SizeOf(g, b) = e - b /\ Kept(out, g, U)
        /\ \A c \in F : NEXT_BLKP(g, c) = NEXT_BLKP(h, c)
    <3>1. /\ Tiled(g, C) /\ Listed(g, F) /\ FreeOf(g, C) = F
          /\ UsedOf(g, C) = (U \cap Outside(B, b, e)) \cup {b} /\ SizeOf(g, b) = e - b
          /\ Kept(out, g, Outside(B, b, e))
          /\ \A c \in Outside(B, b, e) : NEXT_BLKP(g, c) = NEXT_BLKP(out, c)
      BY <2>4, <2>7 DEF Sealed
    <3>2. U \in SUBSET Outside(B, b, e) /\ \A c \in F : c \in Outside(B, b, e) /\ c \in B
      BY <2>5, <2>6
    <3>3. Kept(out, g, U)
      BY <3>1, <3>2, KeptLess
    <3>. QED BY <2>4, <3>1, <3>2, <3>3
  <2>9. Joined(g, C)
    BY <1>1, <2>8 DEF Joined
  <2>10. Whole(g, C)
    BY <2>8, <2>9 DEF Whole
  <2>11. Kept(h, g, U)
    BY <1>1, <2>4, <2>6, <2>8, KeptTwice
  <2>12. SizeOf(g, b) >= size
    BY <1>2, <1>6, <2>8
  <2> HIDE DEF C
  <2>13. Placed(h, B, size, r)
    BY <2>3, <2>6, <2>8, <2>10, <2>11, <2>12 DEF Placed
  <2>. QED BY <1>7, <2>13
<1>10. CASE rest > 2 /\ size > Large
  <2>1. PICK m : m = b + size
    OBVIOUS
  <2>2. m \in Nat /\ b + 2 <= m /\ m + 2 <= e /\ size = m - b /\ rest = e - m
    BY <1>3, <1>6, <1>10, <2>1
  <2>3. ~(rest <= 2)
    BY <1>6, <1>10
  <2>4. r = Result(insert(Tag(Tag(out, b, size, 1), m, rest, 0), m), b)
    BY <1>2, <1>3, <1>4, <1>7, <1>10, <2>1, <2>3 DEF place
  <2>5. Placed(h, B, size, Result(insert(Tag(Tag(out, b, size, 1), m, rest, 0), m), b))
    <3>1. /\ m = (IF 1 = 0 THEN b ELSE m) /\ b = (IF 1 = 0 THEN m ELSE b)
          /\ size = (IF 1 = 0 THEN rest ELSE size) /\ 1 \in {0, 1} /\ 0 \in {0, 1} /\ 1 # 0
      OBVIOUS
    <3>2. m + 2 <= NEXT_BLKP(h, b) /\ rest = NEXT_BLKP(h, b) - m
      BY <1>5, <2>2
    <3> HIDE DEF U
    <3>. QED BY <1>1, <1>8, <2>2, <3>1, <3>2, SplitWhole
  <2>. QED BY <1>7, <2>4, <2>5
<1>11. CASE rest > 2 /\ ~(size > Large)
  <2>1. PICK m : m = b + rest
    OBVIOUS
  <2>2. m \in Nat /\ b + 2 <= m /\ m + 2 <= e /\ rest = m - b /\ size = e - m
    BY <1>3, <1>6, <1>11, <2>1
  <2>3. ~(rest <= 2)
    BY <1>6, <1>11
  <2>4. r = Result(insert(Tag(Tag(out, b, rest, 0), m, size, 1), b), m)
    BY <1>2, <1>3, <1>4, <1>7, <1>11, <2>1, <2>3 DEF place
  <2>5. Placed(h, B, size, Result(insert(Tag(Tag(out, b, rest, 0), m, size, 1), b), m))
    <3>1. /\ b = (IF 0 = 0 THEN b ELSE m) /\ m = (IF 0 = 0 THEN m ELSE b)
          /\ size = (IF 0 = 0 THEN size ELSE rest) /\ 1 \in {0, 1} /\ 0 \in {0, 1} /\ 0 # 1
      OBVIOUS
    <3>2. m + 2 <= NEXT_BLKP(h, b) /\ size = NEXT_BLKP(h, b) - m
      BY <1>5, <2>2
    <3> HIDE DEF U
    <3>. QED BY <1>1, <1>8, <2>2, <3>1, <3>2, SplitWhole
  <2>. QED BY <1>7, <2>4, <2>5
<1>. QED
  BY <1>6, <1>9, <1>10, <1>11

-----------------------------------------------------------------------------
(* What a search meets *)

\* A chain is no longer than the heap.
LEMMA ChainShort ==
  ASSUME NEW h, NEW B, Tiled(h, B), NEW F \in SUBSET B, NEW i \in Lists,
         NEW n, NEW c, Linked(h, i, InList(h, F, i), n, c)
  PROVE  n <= Limit
<1>1. Leads(h, i, F, n, c) /\ Limit \in Nat
  BY LinkedTypes, SizeAssumption
<1>2. n \in Nat /\ \A k \in 1..n : c[k] \in B
  BY <1>1 DEF Leads
<1>3. \A k \in 1..n : c[k] \in 1..Limit
  <2>1. \A b \in B : b \in 1..Limit
    <3>1. SUFFICES ASSUME NEW b \in B PROVE b \in 1..Limit
      OBVIOUS
    <3>2. b \in Nat /\ b >= 2 /\ b + 2 <= NEXT_BLKP(h, b) /\ NEXT_BLKP(h, b) \in Nat
          /\ NEXT_BLKP(h, b) <= h.brk /\ h.brk <= Limit /\ h.brk \in Nat
      BY BlockWords
    <3>. QED BY <1>1, <3>2
  <2>. QED BY <1>2, <2>1
<1> DEFINE d == [k \in 1..n |-> c[k]]
<1>4. d \in [1..n -> 1..Limit] /\ \A j, k \in 1..n : d[j] = d[k] => j = k
  BY <1>3 DEF Linked
<1> HIDE DEF d
<1>5. d \in Injection(1..n, 1..Limit)
  BY <1>4 DEF Injection, IsInjective
<1>6. IsFiniteSet(1..Limit) /\ Cardinality(1..Limit) = Limit
  BY <1>1, FS_Interval
<1>7. IsFiniteSet(1..n) /\ Cardinality(1..n) = n
  BY <1>2, FS_Interval
<1>. QED
  BY <1>5, <1>6, <1>7, FS_Injection

IsFirst(f, n, c) == f = [k \in 1..n |-> c[k]]

\* The search meets the blocks of a list in the order they are linked.
LEMMA ChainIs ==
  ASSUME NEW h, NEW B, Tiled(h, B), NEW F \in SUBSET B, NEW i \in Lists,
         NEW n, NEW c, Linked(h, i, InList(h, F, i), n, c)
  PROVE  IsFirst(Chain(h, i), n, c)
<1> DEFINE Step(f, k) == IF k = 1 THEN h.list[i]
                         ELSE LET last == f[k - 1]
                              IN  IF last = Null THEN Null ELSE h.mem[PrevLink(last)]
           at == CHOOSE f : f = [k \in 1..Limit |-> Step(f, k)]
           w == [k \in 1..Limit |-> IF k <= n + 1 THEN c[k] ELSE Null]
<1>1. n \in Nat /\ n <= Limit /\ Limit \in Nat /\ Null = 0
  <2>1. n \in Nat /\ Null = 0 /\ Limit \in Nat
    BY SizeAssumption DEF Linked, Null
  <2>2. n <= Limit
    BY ChainShort
  <2>. QED BY <2>1, <2>2
<1>2. /\ h.list[i] = c[1] /\ c[n + 1] = Null
      /\ \A k \in 1..n : h.mem[2 * c[k]] = c[k + 1] /\ c[k] # Null
  <2>1. \A k \in 1..n : c[k] # Null
    <3>1. Leads(h, i, F, n, c)
      BY LinkedTypes
    <3>. QED BY <1>1, <3>1 DEF Leads
  <2>. QED BY <2>1 DEF Linked
<1>3. \A k \in 1..Limit : w[k] = IF k <= n + 1 THEN c[k] ELSE Null
  OBVIOUS
<1>4. \A k \in 1..Limit : w[k] = Step(w, k)
  <2>1. SUFFICES ASSUME NEW k \in 1..Limit PROVE w[k] = Step(w, k)
    OBVIOUS
  <2>2. CASE k = 1
    <3>1. w[k] = c[1]
      BY <1>1, <2>2
    <3>. QED BY <1>2, <2>2, <3>1
  <2>3. CASE k # 1
    <3>1. k - 1 \in 1..Limit
      BY <1>1, <2>3
    <3>2. CASE k <= n + 1
      <4>1. k - 1 \in 1..n /\ w[k - 1] = c[k - 1] /\ w[k] = c[k] /\ (k - 1) + 1 = k
        BY <1>1, <1>3, <2>3, <3>1, <3>2
      <4>2. h.mem[2 * c[k - 1]] = c[k] /\ c[k - 1] # Null
        BY <1>2, <4>1
      <4>. QED BY <2>3, <4>1, <4>2 DEF PrevLink
    <3>3. CASE ~(k <= n + 1)
      <4>1. w[k] = Null
        BY <1>3, <3>3
      <4>2. w[k - 1] = Null
        <5>1. CASE k - 1 = n + 1
          BY <1>1, <1>2, <1>3, <3>1, <5>1
        <5>2. CASE k - 1 # n + 1
          <6>1. ~(k - 1 <= n + 1)
            BY <1>1, <3>3, <5>2
          <6>. QED BY <1>3, <3>1, <6>1
        <5>. QED BY <5>1, <5>2
      <4>. QED BY <2>3, <4>1, <4>2
    <3>. QED BY <3>2, <3>3
  <2>. QED BY <2>2, <2>3
<1>5. w = [k \in 1..Limit |-> Step(w, k)]
  <2>1. w = [k \in 1..Limit |-> w[k]]
    OBVIOUS
  <2> HIDE DEF w, Step
  <2>. QED BY <1>4, <2>1
<1>6. at = [k \in 1..Limit |-> Step(at, k)]
  <2>1. \E f : f = [k \in 1..Limit |-> Step(f, k)]
    <3> HIDE DEF w
    <3>. QED BY <1>5
  <2> HIDE DEF Step
  <2>. QED BY <2>1
<1>7. Chain(h, i) = [k \in {j \in 1..Limit : at[j] # Null} |-> at[k]]
  BY DEF Chain
<1>8. \A k \in 1..Limit : at[k] = Step(at, k)
  <2> HIDE DEF at, Step
  <2>. QED BY <1>6
<1>9. \A k \in 1..Limit : at[k] = w[k]
  <2> HIDE DEF at, w, Step
  <2>1. SUFFICES ASSUME NEW j \in 1..Limit, at[j] # w[j] PROVE FALSE
    OBVIOUS
  <2> DEFINE A == {k \in 1..Limit : at[k] # w[k]}
  <2>2. A \in SUBSET Nat /\ A # {}
    BY <1>1, <2>1
  <2>3. PICK k \in A : \A q \in A : k <= q
    <3> HIDE DEF A
    <3>. QED BY <2>2, LeastIndex, Zenon
  <2>4. k \in 1..Limit /\ at[k] # w[k]
    BY <2>3
  <2>5. Step(at, k) = Step(w, k)
    <3>1. CASE k = 1
      BY <3>1 DEF Step
    <3>2. CASE k # 1
      <4>1. k - 1 \in 1..Limit /\ ~(k <= k - 1)
        BY <1>1, <2>4, <3>2
      <4>2. at[k - 1] = w[k - 1]
        BY <2>3, <4>1
      <4>. QED BY <4>2 DEF Step
    <3>. QED BY <3>1, <3>2
  <2>. QED BY <1>4, <1>8, <2>4, <2>5
<1>10. {j \in 1..Limit : at[j] # Null} = 1..n
  <2>1. \A j \in 1..Limit : w[j] # Null <=> j \in 1..n
    <3>1. SUFFICES ASSUME NEW j \in 1..Limit PROVE w[j] # Null <=> j \in 1..n
      OBVIOUS
    <3>2. CASE j \in 1..n
      <4>1. j <= n + 1 /\ c[j] # Null
        BY <1>1, <1>2, <3>2
      <4>. QED BY <1>3, <3>2, <4>1
    <3>3. CASE j \notin 1..n
      <4>1. j = n + 1 \/ ~(j <= n + 1)
        BY <1>1, <3>3
      <4>. QED BY <1>2, <1>3, <3>3, <4>1
    <3>. QED BY <3>2, <3>3
  <2>2. 1..n \subseteq 1..Limit
    BY <1>1
  <2> HIDE DEF at, w
  <2>. QED BY <1>9, <2>1, <2>2
<1>11. \A k \in 1..n : at[k] = c[k]
  <2>1. \A k \in 1..n : k \in 1..Limit /\ k <= n + 1
    BY <1>1
  <2> HIDE DEF at
  <2>. QED BY <1>3, <1>9, <2>1
<1> HIDE DEF at
<1>. QED
  BY <1>7, <1>10, <1>11 DEF IsFirst

\* The least of a finite set
LEMMA MinOf ==
  ASSUME NEW A \in SUBSET Nat, A # {}
  PROVE  Min(A) \in A /\ \A j \in A : Min(A) <= j
  BY LeastIndex DEF Min

\* The larger of two numbers
LEMMA MaxOf ==
  ASSUME NEW m \in Nat, NEW n \in Nat
  PROVE  Max({m, n}) \in Nat /\ Max({m, n}) >= m /\ Max({m, n}) >= n
<1>1. \E x \in {m, n} : \A y \in {m, n} : x >= y
  <2>1. m >= n \/ n >= m
    OBVIOUS
  <2>. QED BY <2>1
<1>2. Max({m, n}) \in {m, n} /\ \A y \in {m, n} : Max({m, n}) >= y
  BY <1>1 DEF Max
<1>. QED
  BY <1>2

\* What is found is free and large enough.
LEMMA FindFit ==
  ASSUME NEW h, NEW B, Whole(h, B), NEW size \in Nat
  PROVE  find_fit(h, size) = Null \/ (find_fit(h, size) \in FreeOf(h, B) /\ SizeOf(h, find_fit(h, size)) >= size)
<1> DEFINE fits(i) == {k \in DOMAIN Chain(h, i) : SizeOf(h, Chain(h, i)[k]) >= size}
           lists == {i \in Lists : i >= ListOf(size) /\ fits(i) # {}}
           chain == Chain(h, Min(lists))
           least == Min({SizeOf(h, chain[k]) : k \in fits(Min(lists))})
           best == {k \in fits(Min(lists)) : SizeOf(h, chain[k]) = least}
<1>1. find_fit(h, size) = IF lists = {} THEN Null ELSE chain[Min(best)]
  BY DEF find_fit
<1>2. CASE lists = {}
  BY <1>1, <1>2
<1>3. CASE lists # {}
  <2>1. lists \in SUBSET Nat
    BY SizeAssumption DEF Lists
  <2>2. PICK i : i = Min(lists)
    OBVIOUS
  <2>3. i \in lists
    <3> HIDE DEF lists
    <3>. QED BY <1>3, <2>1, <2>2, MinOf
  <2>4. i \in Lists /\ fits(i) # {}
    BY <2>3
  <2>5. Tiled(h, B) /\ Listed(h, FreeOf(h, B)) /\ FreeOf(h, B) \in SUBSET B
    BY Disjoint DEF Whole
  <2>6. PICK n, c : Linked(h, i, InList(h, FreeOf(h, B), i), n, c)
    BY <2>4, <2>5 DEF Listed
  <2>7. PICK d : d = Chain(h, i)
    OBVIOUS
  <2>8. d = [k \in 1..n |-> c[k]]
    <3>1. IsFirst(Chain(h, i), n, c)
      BY <2>4, <2>5, <2>6, ChainIs
    <3>. QED BY <2>7, <3>1 DEF IsFirst
  <2>9. Leads(h, i, FreeOf(h, B), n, c)
    BY <2>4, <2>5, <2>6, LinkedTypes
  <2>10. n \in Nat /\ \A k \in 1..n : d[k] \in FreeOf(h, B) /\ d[k] \in B /\ SizeOf(h, d[k]) \in Nat
    <3>1. n \in Nat /\ \A k \in 1..n : d[k] \in FreeOf(h, B) /\ d[k] \in B
      BY <2>5, <2>8, <2>9 DEF Leads
    <3>2. \A b \in B : SizeOf(h, b) \in Nat
      BY <2>5, BlockWords
    <3>. QED BY <3>1, <3>2
  <2> DEFINE fit == {k \in 1..n : SizeOf(h, d[k]) >= size}
             sizes == {SizeOf(h, d[k]) : k \in fit}
             K == {k \in fit : SizeOf(h, d[k]) = Min(sizes)}
  <2>11. fits(i) = fit
    <3>1. DOMAIN d = 1..n
      BY <2>8
    <3>. QED BY <2>7, <3>1
  <2>12. find_fit(h, size) = d[Min(K)]
    <3>1. chain = d /\ fits(Min(lists)) = fit
      <4> HIDE DEF fits, fit, lists
      <4>. QED BY <2>2, <2>7, <2>11
    <3>2. least = Min(sizes)
      <4> HIDE DEF fits, fit, lists, chain
      <4>. QED BY <3>1
    <3>3. best = K
      <4> HIDE DEF fits, fit, lists, chain, least, sizes
      <4>. QED BY <3>1, <3>2
    <3> HIDE DEF best, K, chain, lists
    <3>. QED BY <1>1, <1>3, <3>1, <3>3
  <2>13. sizes \in SUBSET Nat /\ sizes # {}
    BY <2>4, <2>10, <2>11
  <2>14. Min(sizes) \in sizes
    <3> HIDE DEF sizes
    <3>. QED BY <2>13, MinOf
  <2>15. K \in SUBSET Nat /\ K # {}
    <3>1. fit \in SUBSET Nat
      BY <2>10
    <3>. QED BY <2>14, <3>1
  <2>16. Min(K) \in K
    <3> HIDE DEF K
    <3>. QED BY <2>15, MinOf
  <2>17. Min(K) \in 1..n /\ SizeOf(h, d[Min(K)]) >= size
    BY <2>16
  <2> HIDE DEF K
  <2>. QED BY <2>10, <2>12, <2>17
<1>. QED
  BY <1>2, <1>3

-----------------------------------------------------------------------------
(* mm_malloc and mm_free *)

\* mm_malloc finds a block that nobody has, or leaves the heap alone.
LEMMA MallocTakes ==
  ASSUME NEW h, NEW B, Whole(h, B), NEW n \in Nat, n >= 1, NEW r, r = mm_malloc(h, n)
  PROVE  r = Result(h, Null) \/ Placed(h, B, n + 1, r)
<1>1. PICK fit : fit = find_fit(h, n + 1)
  OBVIOUS
<1>2. PICK more : more = extend_heap(h, Max({Chunk, n + 1}))
  OBVIOUS
<1>3. n + 1 \in Nat /\ n + 1 >= 2
  OBVIOUS
<1>4. r = IF fit # Null THEN place(h, fit, n + 1)
          ELSE IF more.block = Null THEN more ELSE place(more.heap, more.block, n + 1)
  BY <1>1, <1>2 DEF mm_malloc
<1>5. CASE fit # Null
  <2>1. fit \in FreeOf(h, B) /\ SizeOf(h, fit) >= n + 1
    BY <1>1, <1>3, <1>5, FindFit
  <2>. QED BY <1>3, <1>4, <1>5, <2>1, PlaceTakes
<1>6. CASE fit = Null /\ more = Result(h, Null)
  <2>1. more.block = Null
    BY <1>6 DEF Result
  <2>. QED BY <1>4, <1>6, <2>1
<1>7. CASE fit = Null /\ more # Result(h, Null)
  <2>1. PICK size : size = Max({Chunk, n + 1})
    OBVIOUS
  <2>2. size \in Nat /\ size >= n + 1
    <3>1. Chunk \in Nat
      BY SizeAssumption
    <3>. QED BY <1>3, <2>1, <3>1, MaxOf
  <2>3. size >= 2
    BY <1>3, <2>2
  <2>4. Found(h, B, size, more)
    BY <1>2, <1>7, <2>1, <2>2, <2>3, ExtendFinds
  <2>5. PICK C : /\ Whole(more.heap, C) /\ UsedOf(more.heap, C) = UsedOf(h, B)
                 /\ Kept(h, more.heap, UsedOf(h, B))
                 /\ more.block \in FreeOf(more.heap, C) /\ SizeOf(more.heap, more.block) >= size
    BY <2>4 DEF Found
  <2>6. PICK x : x = more.heap
    OBVIOUS
  <2>7. PICK b : b = more.block
    OBVIOUS
  <2>8. b \in C /\ b \in Nat /\ b >= 2 /\ SizeOf(x, b) \in Nat
    BY <2>5, <2>6, <2>7, BlockWords DEF FreeOf, Whole
  <2>9. SizeOf(x, b) >= n + 1
    BY <1>3, <2>2, <2>5, <2>6, <2>7, <2>8
  <2>10. r = place(x, b, n + 1)
    <3>1. b # Null
      BY <2>8 DEF Null
    <3>. QED BY <1>4, <1>7, <2>6, <2>7, <3>1
  <2>11. Placed(x, C, n + 1, r)
    <3>1. Whole(x, C) /\ b \in FreeOf(x, C)
      BY <2>5, <2>6, <2>7
    <3>. QED BY <1>3, <2>9, <2>10, <3>1, PlaceTakes
  <2>12. PICK D : /\ Whole(r.heap, D) /\ UsedOf(r.heap, D) = UsedOf(x, C) \cup {r.block}
                  /\ r.block \notin UsedOf(x, C)
                  /\ Kept(x, r.heap, UsedOf(x, C)) /\ SizeOf(r.heap, r.block) >= n + 1
    BY <2>11 DEF Placed
  <2>13. Kept(h, r.heap, UsedOf(h, B))
    <3>1. Tiled(h, B) /\ UsedOf(h, B) \in SUBSET B
      BY Disjoint DEF Whole
    <3>2. Kept(h, x, UsedOf(h, B)) /\ Kept(x, r.heap, UsedOf(h, B))
      BY <2>5, <2>6, <2>12
    <3>. QED BY <3>1, <3>2, KeptTwice
  <2>14. Placed(h, B, n + 1, r)
    BY <2>5, <2>6, <2>12, <2>13 DEF Placed
  <2>. QED BY <2>14
<1>. QED
  BY <1>5, <1>6, <1>7

\* The block goes, and the others stay what they were.
Gone(h, B, b, g) ==
  \E C : Whole(g, C) /\ UsedOf(g, C) = UsedOf(h, B) \ {b} /\ Kept(h, g, UsedOf(h, B) \ {b})

\* mm_free takes the block from those in use and nothing else.
LEMMA FreeGoes ==
  ASSUME NEW h, NEW B, Whole(h, B), NEW b \in UsedOf(h, B)
  PROVE  Gone(h, B, b, mm_free(h, b))
<1>1. Tiled(h, B) /\ Listed(h, FreeOf(h, B)) /\ Joined(h, B) /\ b \in B
  BY DEF Whole, UsedOf
<1>2. PICK e : e = NEXT_BLKP(h, b)
  OBVIOUS
<1>3. /\ b \in Nat /\ e \in Nat /\ SizeOf(h, b) = e - b /\ b < e /\ e \in B \cup {h.brk} /\ SizeOf(h, b) \in Nat
  BY <1>1, <1>2, BlockWords, After
<1>4. PICK g : g = Tag(h, b, SizeOf(h, b), 0)
  OBVIOUS
<1>5. PICK k : k = insert(g, b)
  OBVIOUS
<1>6. mm_free(h, b) = coalesce(k, b).heap
  BY <1>4, <1>5 DEF mm_free
<1>7. Outside(B, b, e) = B \ {b}
  <2>1. \A c \in B : c \in Nat /\ (b < c => e <= c)
    BY <1>1, <1>2 DEF Tiled
  <2>2. \A c \in B : (c < b \/ c >= e) <=> c # b
    BY <1>3, <2>1
  <2>. QED BY <2>2 DEF Outside
<1> DEFINE F == FreeOf(h, B)
           U == UsedOf(h, B) \ {b}
           C == Joint(B, b, e)
<1>8. b \notin F /\ F \in SUBSET (B \ {b}) /\ U \in SUBSET (B \ {b})
  BY <1>1, Disjoint
<1>9. Sealed(h, g, B, b, e, 0, F)
  <2>1. F = FreeOf(h, B) \cap Outside(B, b, e) /\ 0 \in {0, 1}
    BY <1>7, <1>8
  <2>. QED BY <1>1, <1>3, <1>4, <2>1, Sealing
<1>10. /\ Tiled(g, C) /\ Listed(g, F) /\ FreeOf(g, C) = F \cup {b} /\ UsedOf(g, C) = U
       /\ SizeOf(g, b) = e - b /\ Kept(h, g, U)
       /\ \A c \in F : NEXT_BLKP(g, c) = NEXT_BLKP(h, c)
  <2>1. /\ Tiled(g, C) /\ Listed(g, F) /\ FreeOf(g, C) = F \cup {b}
        /\ UsedOf(g, C) = UsedOf(h, B) \cap Outside(B, b, e) /\ SizeOf(g, b) = e - b
        /\ Kept(h, g, Outside(B, b, e))
        /\ \A c \in Outside(B, b, e) : NEXT_BLKP(g, c) = NEXT_BLKP(h, c)
    BY <1>9 DEF Sealed
  <2>2. Kept(h, g, U)
    BY <1>7, <1>8, <2>1, KeptLess
  <2>3. UsedOf(h, B) \cap (B \ {b}) = U
    BY <1>1, Disjoint
  <2>. QED BY <1>7, <1>8, <2>1, <2>2, <2>3
<1>11. Relisted(g, k, C, F \cup {b})
  <2>1. Relisted(g, g, C, F)
    BY <1>10, RelistedSelf
  <2>2. F \in SUBSET FreeOf(g, C) /\ b \in FreeOf(g, C) \ F
    BY <1>8, <1>10
  <2> HIDE DEF F, C, U
  <2>. QED BY <1>5, <1>10, <2>1, <2>2, RelistInsert
<1>12. /\ Tiled(k, C) /\ Listed(k, FreeOf(k, C)) /\ FreeOf(k, C) = F \cup {b} /\ UsedOf(k, C) = U
       /\ Kept(g, k, U)
       /\ \A c \in F : NEXT_BLKP(k, c) = NEXT_BLKP(h, c)
  <2>1. /\ Tiled(k, C) /\ Listed(k, F \cup {b}) /\ Kept(g, k, UsedOf(g, C))
        /\ FreeOf(k, C) = FreeOf(g, C) /\ UsedOf(k, C) = UsedOf(g, C)
        /\ \A c \in C : NEXT_BLKP(k, c) = NEXT_BLKP(g, c)
    BY <1>11 DEF Relisted, SameBlocks
  <2>2. F \subseteq C
    BY <1>10, Disjoint
  <2>. QED BY <1>10, <2>1, <2>2
<1>13. Near(k, C, b)
  <2>1. SUFFICES ASSUME NEW c \in FreeOf(k, C), NEXT_BLKP(k, c) \in FreeOf(k, C), c # b, NEXT_BLKP(k, c) # b
        PROVE FALSE
    BY DEF Near
  <2>2. c \in FreeOf(h, B) /\ NEXT_BLKP(h, c) \in FreeOf(h, B)
    BY <1>12, <2>1
  <2>. QED BY <1>1, <2>2 DEF Joined
<1>14. PICK r : r = coalesce(k, b)
  OBVIOUS
<1>15. PICK size : size = SizeOf(k, b)
  OBVIOUS
<1>16. Found(k, C, size, r)
  <2>1. b \in FreeOf(k, C)
    BY <1>12
  <2> HIDE DEF C
  <2>. QED BY <1>12, <1>13, <1>14, <1>15, <2>1, CoalesceJoins
<1>17. PICK D : Whole(r.heap, D) /\ UsedOf(r.heap, D) = U /\ Kept(k, r.heap, U)
  <2> HIDE DEF C, U
  <2>. QED BY <1>12, <1>16 DEF Found
<1>18. Kept(h, r.heap, U)
  <2>1. U \in SUBSET B
    BY <1>8
  <2>2. Kept(h, k, U)
    BY <1>1, <1>10, <1>12, <2>1, KeptTwice
  <2>. QED BY <1>1, <1>17, <2>1, <2>2, KeptTwice
<1>. QED
  BY <1>6, <1>14, <1>17, <1>18 DEF Gone

-----------------------------------------------------------------------------
(* mm_realloc *)

Copied(h, g, to, from, units) ==
  /\ g \in Heaps /\ g.list = h.list /\ g.brk = h.brk
  /\ \A w \in Words : g.mem[w] = IF 2 * to <= w /\ w <= 2 * (to + units) - 1
                                 THEN h.mem[w - 2 * to + 2 * from] ELSE h.mem[w]

\* memmove copies, also where source and target overlap.
LEMMA CopyFacts ==
  ASSUME NEW h \in Heaps, NEW to \in Nat, NEW from \in Nat, NEW units \in Nat,
         2 * (from + units) - 1 <= 2 * Limit
  PROVE  Copied(h, memmove(h, to, from, units), to, from, units)
<1>1. Limit \in Nat
  BY HeapType
<1>2. \A w \in Words : w \in Int /\ (w \in (2 * to)..(2 * (to + units) - 1) <=> 2 * to <= w /\ w <= 2 * (to + units) - 1)
  BY <1>1 DEF Words
<1>3. \A w \in Words : 2 * to <= w /\ w <= 2 * (to + units) - 1 => w - 2 * to + 2 * from \in Words
  <2>1. SUFFICES ASSUME NEW w \in Words, 2 * to <= w, w <= 2 * (to + units) - 1
        PROVE  w - 2 * to + 2 * from \in Words
    OBVIOUS
  <2>2. w \in Int
    BY <1>2
  <2>. QED BY <1>1, <2>1, <2>2 DEF Words
<1>4. PICK g : g = memmove(h, to, from, units)
  OBVIOUS
<1> DEFINE m == [w \in Words |-> IF w \in (2 * to)..(2 * (to + units) - 1) THEN h.mem[w - 2 * to + 2 * from] ELSE h.mem[w]]
<1>5. h.mem \in [Words -> Int] /\ DOMAIN h.mem = Words
  BY HeapType
<1>6. g = [h EXCEPT !.mem = m]
  BY <1>4, <1>5 DEF memmove
<1>7. m \in [Words -> Int]
  BY <1>2, <1>3, <1>5
<1>8. \A w \in Words : m[w] = IF 2 * to <= w /\ w <= 2 * (to + units) - 1
                              THEN h.mem[w - 2 * to + 2 * from] ELSE h.mem[w]
  BY <1>2
<1> HIDE DEF m
<1>9. g \in Heaps /\ g.mem = m /\ g.list = h.list /\ g.brk = h.brk
  BY <1>6, <1>7 DEF Heaps
<1>. QED
  BY <1>4, <1>8, <1>9 DEF Copied

\* The block is at r.block now, with at least n units and what it held.
Moved(h, B, b, n, r) ==
  \E C : /\ Whole(r.heap, C) /\ UsedOf(r.heap, C) = (UsedOf(h, B) \ {b}) \cup {r.block}
         /\ r.block \notin UsedOf(h, B) \ {b} /\ Kept(h, r.heap, UsedOf(h, B) \ {b})
         /\ SizeOf(r.heap, r.block) >= n + 1
         /\ \A v \in 0..(2 * SizeOf(h, b) - 3) : r.heap.mem[2 * r.block + v] = h.mem[2 * b + v]

\* The payload of a block that is kept
LEMMA KeptPayload ==
  ASSUME NEW h, NEW B, Tiled(h, B), NEW U \in SUBSET B, NEW g, Kept(h, g, U), NEW b \in U,
         NEW v \in 0..(2 * SizeOf(h, b) - 3)
  PROVE  g.mem[2 * b + v] = h.mem[2 * b + v]
<1>1. b \in Nat /\ SizeOf(h, b) = NEXT_BLKP(h, b) - b /\ NEXT_BLKP(h, b) \in Nat
  BY BlockWords
<1>2. 2 * b + v \in Int /\ 2 * b - 1 <= 2 * b + v /\ 2 * b + v <= 2 * NEXT_BLKP(h, b) - 3
  BY <1>1
<1>. QED
  BY <1>2 DEF Kept

\* realloc with the free block behind
LEMMA MoveBehind ==
  ASSUME NEW h, NEW B, Whole(h, B), NEW b \in UsedOf(h, B), NEW n \in Nat,
         NEW after, after = NEXT_BLKP(h, b), ~IsAllocated(h, after),
         NEW size, size = SizeOf(h, b) + SizeOf(h, after), size >= n + 1
  PROVE  Moved(h, B, b, n, Result(Tag(delete(h, after), b, size, 1), b))
<1> DEFINE U == UsedOf(h, B)
           F == FreeOf(h, B) \ {after}
<1>1. Tiled(h, B) /\ Listed(h, FreeOf(h, B)) /\ Joined(h, B) /\ b \in B
  BY DEF Whole, UsedOf
<1>2. after \in FreeOf(h, B) /\ after \in B
  BY <1>1, After DEF FreeOf
<1>3. PICK e : e = NEXT_BLKP(h, after)
  OBVIOUS
<1>4. /\ b \in Nat /\ after \in Nat /\ e \in Nat /\ SizeOf(h, b) = after - b /\ SizeOf(h, after) = e - after
      /\ b + 2 <= after /\ after + 2 <= e /\ e \in B \cup {h.brk} /\ size = e - b
  BY <1>1, <1>2, <1>3, BlockWords, After
<1>5. PICK x : x = delete(h, after)
  OBVIOUS
<1>6. Relisted(h, x, B, F)
  <2>1. Relisted(h, h, B, FreeOf(h, B)) /\ FreeOf(h, B) \in SUBSET FreeOf(h, B)
    BY <1>1, RelistedSelf
  <2>. QED BY <1>1, <1>2, <1>5, <2>1, RelistDelete
<1>7. /\ Tiled(x, B) /\ Listed(x, F) /\ FreeOf(x, B) = FreeOf(h, B) /\ UsedOf(x, B) = U
      /\ x.brk = h.brk /\ Kept(h, x, U) /\ \A c \in B : NEXT_BLKP(x, c) = NEXT_BLKP(h, c)
  BY <1>6 DEF Relisted, SameBlocks
<1>8. Outside(B, b, e) = B \ {b, after}
  <2>1. \A c \in B : c \in Nat /\ (b < c => after <= c) /\ (after < c => e <= c)
    BY <1>1, <1>2, <1>3 DEF Tiled
  <2>2. \A c \in B : (c < b \/ c >= e) <=> (c # b /\ c # after)
    BY <1>4, <2>1
  <2>. QED BY <2>2 DEF Outside
<1>9. U \in SUBSET B /\ FreeOf(h, B) \in SUBSET B /\ b \notin FreeOf(h, B) /\ after \notin U
  BY <1>1, <1>2, Disjoint
<1>10. PICK g : g = Tag(x, b, size, 1)
  OBVIOUS
<1>11. Sealed(x, g, B, b, e, 1, F)
  <2>1. F = FreeOf(x, B) \cap Outside(B, b, e) /\ e \in B \cup {x.brk} /\ 1 \in {0, 1} /\ b < e
    BY <1>4, <1>7, <1>8, <1>9
  <2>. QED BY <1>1, <1>4, <1>7, <1>10, <2>1, Sealing
<1> DEFINE C == Joint(B, b, e)
           V == U \ {b}
<1>12. /\ Tiled(g, C) /\ Listed(g, F) /\ FreeOf(g, C) = F /\ UsedOf(g, C) = V \cup {b}
       /\ SizeOf(g, b) = e - b /\ Kept(x, g, V)
       /\ \A c \in F : NEXT_BLKP(g, c) = NEXT_BLKP(h, c)
  <2>1. /\ Tiled(g, C) /\ Listed(g, F) /\ FreeOf(g, C) = F
        /\ UsedOf(g, C) = (U \cap Outside(B, b, e)) \cup {b} /\ SizeOf(g, b) = e - b
        /\ Kept(x, g, Outside(B, b, e))
        /\ \A c \in Outside(B, b, e) : NEXT_BLKP(g, c) = NEXT_BLKP(x, c)
    BY <1>7, <1>11 DEF Sealed
  <2>2. V \in SUBSET Outside(B, b, e) /\ U \cap Outside(B, b, e) = V
        /\ \A c \in F : c \in Outside(B, b, e) /\ c \in B
    BY <1>8, <1>9
  <2>3. Kept(x, g, V)
    BY <2>1, <2>2, KeptLess
  <2>. QED BY <1>7, <2>1, <2>2, <2>3
<1>13. Joined(g, C)
  BY <1>1, <1>12 DEF Joined
<1>14. Whole(g, C)
  BY <1>12, <1>13 DEF Whole
<1>15. Kept(h, g, V)
  <2>1. V \in SUBSET U /\ V \in SUBSET B
    BY <1>9
  <2>2. Kept(h, x, V)
    BY <1>7, <2>1, KeptLess
  <2>. QED BY <1>1, <1>12, <2>1, <2>2, KeptTwice
<1>16. \A v \in 0..(2 * SizeOf(h, b) - 3) : g.mem[2 * b + v] = h.mem[2 * b + v]
  <2>1. SUFFICES ASSUME NEW v \in 0..(2 * SizeOf(h, b) - 3) PROVE g.mem[2 * b + v] = h.mem[2 * b + v]
    OBVIOUS
  <2>2. x.mem[2 * b + v] = h.mem[2 * b + v]
    BY <1>1, <1>7, <1>9, KeptPayload
  <2>3. 2 * b - 1 <= 2 * b + v /\ 2 * b + v <= 2 * after - 1 /\ 2 * b + v \in Int
        /\ 2 * b + v # 2 * b - 1 /\ 2 * b + v # 2 * e - 2
    BY <1>4
  <2>4. 2 * b + v \in Words
    <3>1. \A w \in Int : 2 * b - 1 <= w /\ w <= 2 * after - 1 => w \in Words
      BY <1>1, BlockWords
    <3>. QED BY <2>3, <3>1
  <2>. QED BY <1>11, <2>2, <2>3, <2>4 DEF Sealed, Tagged
<1>17. PICK r : r = Result(g, b)
  OBVIOUS
<1>18. r.heap = g /\ r.block = b
  BY <1>17 DEF Result
<1>19. SizeOf(g, b) >= n + 1 /\ b \notin V
  BY <1>4, <1>12
<1> HIDE DEF C
<1>20. Moved(h, B, b, n, r)
  BY <1>12, <1>14, <1>15, <1>16, <1>18, <1>19 DEF Moved
<1>. QED
  BY <1>5, <1>10, <1>17, <1>20

\* The block in front is freed space, and the one behind is taken if `far' says so.
LEMMA MoveFront ==
  ASSUME NEW h, NEW B, Whole(h, B), NEW b \in UsedOf(h, B), NEW n \in Nat,
         NEW before, before = PREV_BLKP(h, b), ~IsAllocated(h, before),
         NEW after, after = NEXT_BLKP(h, b),
         NEW far \in BOOLEAN, far => ~IsAllocated(h, after),
         NEW x, x = IF far THEN delete(delete(h, before), after) ELSE delete(h, before),
         NEW joined, joined = IF far THEN SizeOf(h, before) + SizeOf(h, b) + SizeOf(h, after)
                              ELSE SizeOf(h, before) + SizeOf(h, b),
         joined >= n + 1
  PROVE  Moved(h, B, b, n, Result(Tag(memmove(x, before, b, SizeOf(h, b)), before, joined, 1), before))
<1> DEFINE U == UsedOf(h, B)
           V == U \ {b}
           F == IF far THEN (FreeOf(h, B) \ {before}) \ {after} ELSE FreeOf(h, B) \ {before}
<1>1. Tiled(h, B) /\ Listed(h, FreeOf(h, B)) /\ Joined(h, B) /\ b \in B
  BY DEF Whole, UsedOf
<1>2. before \in B /\ before \in FreeOf(h, B) /\ NEXT_BLKP(h, before) = b /\ before < b
  BY <1>1, Before DEF FreeOf
<1>3. far => after \in FreeOf(h, B) /\ after \in B
  BY <1>1, After DEF FreeOf
<1>4. PICK e : e = IF far THEN NEXT_BLKP(h, after) ELSE after
  OBVIOUS
<1>5. PICK size : size = SizeOf(h, b)
  OBVIOUS
<1>6. PICK front : front = SizeOf(h, before)
  OBVIOUS
<1>7. /\ b \in Nat /\ before \in Nat /\ before >= 2 /\ after \in Nat /\ size = after - b /\ front = b - before
      /\ b + 2 <= after /\ before + 2 <= b /\ after \in B \cup {h.brk} /\ Limit \in Nat /\ size \in Nat
      /\ h.brk \in Nat /\ h.brk <= Limit /\ after <= h.brk
  BY <1>1, <1>2, <1>5, <1>6, BlockWords, After
<1>8. e \in Nat /\ e \in B \cup {h.brk} /\ joined = e - before /\ after <= e /\ before < e
      /\ (far => after + 2 <= e) /\ e <= Limit
  <2>1. CASE far
    <3>1. after \in B /\ e = NEXT_BLKP(h, after) /\ joined = front + size + SizeOf(h, after)
      BY <1>3, <1>4, <1>5, <1>6, <2>1
    <3>2. e \in Nat /\ e \in B \cup {h.brk} /\ after + 2 <= e /\ SizeOf(h, after) = e - after /\ e <= h.brk
      BY <1>1, <3>1, BlockWords, After
    <3>. QED BY <1>7, <3>1, <3>2
  <2>2. CASE ~far
    <3>1. e = after /\ joined = front + size
      BY <1>4, <1>5, <1>6, <2>2
    <3>. QED BY <1>7, <2>2, <3>1
  <2>. QED BY <2>1, <2>2
<1>9. U \in SUBSET B /\ V \in SUBSET B /\ FreeOf(h, B) \in SUBSET B /\ b \notin FreeOf(h, B) /\ before \notin U
      /\ (far => after \notin U)
  BY <1>1, <1>2, <1>3, Disjoint
<1>10. Relisted(h, x, B, F)
  <2>1. Relisted(h, h, B, FreeOf(h, B)) /\ FreeOf(h, B) \in SUBSET FreeOf(h, B)
    BY <1>1, RelistedSelf
  <2>2. Relisted(h, delete(h, before), B, FreeOf(h, B) \ {before})
    BY <1>1, <1>2, <2>1, RelistDelete
  <2>3. CASE far
    <3>1. FreeOf(h, B) \ {before} \in SUBSET FreeOf(h, B) /\ after \in FreeOf(h, B) \ {before}
      BY <1>3, <1>7, <2>3
    <3>2. Relisted(h, delete(delete(h, before), after), B, (FreeOf(h, B) \ {before}) \ {after})
      BY <1>1, <2>2, <3>1, RelistDelete
    <3>. QED BY <2>3, <3>2
  <2>4. CASE ~far
    BY <2>2, <2>4
  <2>. QED BY <2>3, <2>4
<1>11. /\ Tiled(x, B) /\ Listed(x, F) /\ FreeOf(x, B) = FreeOf(h, B) /\ UsedOf(x, B) = U
       /\ x.brk = h.brk /\ Kept(h, x, U) /\ \A c \in B : NEXT_BLKP(x, c) = NEXT_BLKP(h, c)
  BY <1>10 DEF Relisted, SameBlocks
<1>12. \A c \in B : c \in Outside(B, before, e) <=> c # before /\ c # b /\ (far => c # after)
  <2>1. \A c \in B : c \in Nat /\ (before < c => b <= c) /\ (b < c => after <= c)
    BY <1>1, <1>2 DEF Tiled
  <2>2. \A c \in B : (c < before \/ c >= e) <=> (c # before /\ c # b /\ (far => c # after))
    <3>1. CASE far
      <4>1. \A c \in B : after < c => e <= c
        BY <1>1, <1>3, <1>4, <3>1 DEF Tiled
      <4>. QED BY <1>7, <1>8, <2>1, <3>1, <4>1
    <3>2. CASE ~far
      <4>1. e = after
        BY <1>4, <3>2
      <4>. QED BY <1>7, <2>1, <3>2, <4>1
    <3>. QED BY <3>1, <3>2
  <2>. QED BY <2>2 DEF Outside
<1>13. F = FreeOf(x, B) \cap Outside(B, before, e)
  <2>1. CASE far
    BY <1>9, <1>11, <1>12, <2>1
  <2>2. CASE ~far
    BY <1>9, <1>11, <1>12, <2>2
  <2>. QED BY <2>1, <2>2
<1>14. F \in SUBSET FreeOf(h, B) /\ F \in SUBSET B /\ before \notin F
  BY <1>9
<1> HIDE DEF F
<1> DEFINE C == Joint(B, before, e)
<1>15. PICK t : t = Tag(x, before, joined, 1)
  OBVIOUS
<1>16. Sealed(x, t, B, before, e, 1, F)
  <2>1. e \in B \cup {x.brk} /\ 1 \in {0, 1}
    BY <1>8, <1>11
  <2>. QED BY <1>2, <1>8, <1>11, <1>13, <1>15, <2>1, Sealing
<1>17. /\ Tiled(t, C) /\ Listed(t, F) /\ FreeOf(t, C) = F /\ UsedOf(t, C) = V \cup {before} /\ before \in C
       /\ NEXT_BLKP(t, before) = e /\ SizeOf(t, before) = e - before /\ Kept(x, t, V)
       /\ t.brk = x.brk /\ t.list = x.list
       /\ \A c \in F : NEXT_BLKP(t, c) = NEXT_BLKP(h, c)
  <2>1. /\ Tiled(t, C) /\ Listed(t, F) /\ FreeOf(t, C) = F /\ before \in C
        /\ UsedOf(t, C) = (U \cap Outside(B, before, e)) \cup {before} /\ SizeOf(t, before) = e - before
        /\ NEXT_BLKP(t, before) = e /\ Kept(x, t, Outside(B, before, e))
        /\ t.brk = x.brk /\ t.list = x.list
        /\ \A c \in Outside(B, before, e) : NEXT_BLKP(t, c) = NEXT_BLKP(x, c)
    BY <1>11, <1>16 DEF Sealed
  <2>2. V \in SUBSET Outside(B, before, e) /\ U \cap Outside(B, before, e) = V
    BY <1>9, <1>12
  <2>3. \A c \in F : c \in Outside(B, before, e) /\ c \in B
    BY <1>13, <1>14
  <2>4. Kept(x, t, V)
    BY <2>1, <2>2, KeptLess
  <2>. QED BY <1>11, <2>1, <2>2, <2>3, <2>4
<1>18. PICK y : y = memmove(x, before, b, size)
  OBVIOUS
<1>19. Copied(x, y, before, b, size)
  <2>1. x \in Heaps
    BY <1>11 DEF Tiled
  <2>2. 2 * (b + size) - 1 <= 2 * Limit
    BY <1>7
  <2>. QED BY <1>7, <1>18, <2>1, <2>2, CopyFacts
<1>20. PICK g : g = Tag(y, before, joined, 1)
  OBVIOUS
<1>21. Tagged(y, g, before, e, 1)
  <2>1. y \in Heaps
    BY <1>19 DEF Copied
  <2>2. before \in 2..Limit /\ e \in 2..Limit
    BY <1>7, <1>8
  <2>. QED BY <1>8, <1>20, <2>1, <2>2, TagFacts
<1>22. PayloadsOnly(t, g, {before}) /\ g.list = t.list
  <2>1. Tagged(x, t, before, e, 1)
    BY <1>16 DEF Sealed
  <2>2. g \in Heaps /\ g.brk = t.brk /\ g.list = t.list
    BY <1>19, <1>21, <2>1 DEF Copied, Tagged
  <2>3. ASSUME NEW v \in Words, g.mem[v] # t.mem[v]
        PROVE  2 * before <= v /\ v <= 2 * e - 3
    <3>1. v # 2 * before - 1 /\ v # 2 * e - 2
      BY <1>21, <2>1, <2>3 DEF Tagged
    <3>2. g.mem[v] = y.mem[v] /\ t.mem[v] = x.mem[v]
      BY <1>21, <2>1, <3>1 DEF Tagged
    <3>3. 2 * before <= v /\ v <= 2 * (before + size) - 1
      BY <1>19, <2>3, <3>2 DEF Copied
    <3>4. v \in Int
      BY <1>7 DEF Words
    <3>. QED BY <1>7, <1>8, <3>3, <3>4
  <2>. QED BY <1>17, <2>2, <2>3 DEF PayloadsOnly
<1>23. Tiled(g, C) /\ SameTags(t, g, C) /\ g.brk = t.brk
  <2>1. {before} \in SUBSET C
    BY <1>17
  <2> HIDE DEF C
  <2>. QED BY <1>17, <1>22, <2>1, PayloadsTile DEF PayloadsOnly
<1>24. SameBlocks(t, g, C)
  BY <1>23, TagsSame
<1>25. Kept(t, g, C \ {before})
  <2>1. {before} \in SUBSET C
    BY <1>17
  <2> HIDE DEF C
  <2>. QED BY <1>17, <1>22, <2>1, PayloadsKeep
<1>26. F \in SUBSET (C \ {before}) /\ V \in SUBSET (C \ {before}) /\ F \in SUBSET C
  <2>1. F \in SUBSET C /\ V \in SUBSET C
    BY <1>17, Disjoint
  <2>. QED BY <1>9, <1>14, <2>1
<1>27. Kept(t, g, F) /\ Kept(t, g, V)
  BY <1>25, <1>26, KeptLess
<1>28. Listed(g, F)
  <2> HIDE DEF C
  <2>. QED BY <1>17, <1>22, <1>26, <1>27, KeptLists
<1>29. /\ FreeOf(g, C) = F /\ UsedOf(g, C) = V \cup {before} /\ SizeOf(g, before) = e - before
       /\ \A c \in F : NEXT_BLKP(g, c) = NEXT_BLKP(h, c)
  <2> HIDE DEF C
  <2>. QED BY <1>17, <1>24, <1>26 DEF SameBlocks
<1>30. Joined(g, C)
  BY <1>1, <1>14, <1>29 DEF Joined
<1>31. Whole(g, C)
  BY <1>23, <1>28, <1>29, <1>30 DEF Whole
<1>32. Kept(h, g, V)
  <2>1. V \in SUBSET U
    OBVIOUS
  <2>2. Kept(h, x, V)
    BY <1>11, <2>1, KeptLess
  <2>3. Kept(h, t, V)
    BY <1>1, <1>9, <1>17, <2>2, KeptTwice
  <2>. QED BY <1>1, <1>9, <1>27, <2>3, KeptTwice
<1>33. \A v \in 0..(2 * SizeOf(h, b) - 3) : g.mem[2 * before + v] = h.mem[2 * b + v]
  <2>1. SUFFICES ASSUME NEW v \in 0..(2 * SizeOf(h, b) - 3) PROVE g.mem[2 * before + v] = h.mem[2 * b + v]
    OBVIOUS
  <2>2. x.mem[2 * b + v] = h.mem[2 * b + v]
    BY <1>1, <1>9, <1>11, KeptPayload
  <2>3. v \in Nat /\ v <= 2 * size - 3
    BY <1>5, <1>7
  <2>4. /\ 2 * before + v \in Words /\ 2 * before <= 2 * before + v
        /\ 2 * before + v <= 2 * (before + size) - 1
        /\ 2 * before + v # 2 * before - 1 /\ 2 * before + v # 2 * e - 2
        /\ 2 * before + v - 2 * before + 2 * b = 2 * b + v
    BY <1>7, <1>8, <2>3 DEF Words
  <2>5. y.mem[2 * before + v] = x.mem[2 * b + v]
    <3>1. \A w \in Words : 2 * before <= w /\ w <= 2 * (before + size) - 1
            => y.mem[w] = x.mem[w - 2 * before + 2 * b]
      BY <1>19 DEF Copied
    <3>2. PICK w \in Words : w = 2 * before + v
      BY <2>4
    <3>3. 2 * before <= w /\ w <= 2 * (before + size) - 1
      BY <2>4, <3>2
    <3>4. y.mem[w] = x.mem[w - 2 * before + 2 * b]
      BY <3>1, <3>3
    <3>5. w - 2 * before + 2 * b = 2 * b + v
      BY <1>7, <2>3, <3>2
    <3>. QED BY <3>2, <3>4, <3>5
  <2>. QED BY <1>21, <2>2, <2>4, <2>5 DEF Tagged
<1>34. PICK r : r = Result(g, before)
  OBVIOUS
<1>35. r.heap = g /\ r.block = before
  BY <1>34 DEF Result
<1>36. SizeOf(g, before) >= n + 1 /\ before \notin V
  BY <1>8, <1>9, <1>29
<1> HIDE DEF C
<1>37. Moved(h, B, b, n, r)
  BY <1>29, <1>31, <1>32, <1>33, <1>35, <1>36 DEF Moved
<1>. QED
  BY <1>5, <1>18, <1>20, <1>34, <1>37

\* In another block, which mm_malloc has given
LEMMA MoveAway ==
  ASSUME NEW h, NEW B, Whole(h, B), NEW b \in UsedOf(h, B), NEW n \in Nat, SizeOf(h, b) <= n,
         NEW o, Placed(h, B, n + 2, o)
  PROVE  Moved(h, B, b, n, Result(mm_free(memmove(o.heap, o.block, b, SizeOf(h, b)), b), o.block))
<1> DEFINE U == UsedOf(h, B)
           V == U \ {b}
<1>1. PICK x : x = o.heap
  OBVIOUS
<1>2. PICK a : a = o.block
  OBVIOUS
<1>3. PICK C : /\ Whole(x, C) /\ UsedOf(x, C) = U \cup {a} /\ a \notin U /\ Kept(h, x, U)
               /\ SizeOf(x, a) >= n + 2
  BY <1>1, <1>2 DEF Placed
<1>4. Tiled(h, B) /\ Tiled(x, C) /\ U \in SUBSET B /\ V \in SUBSET B /\ b \in B /\ a \in C /\ b \in C /\ V \in SUBSET C
      /\ a # b /\ b \in U /\ Listed(x, FreeOf(x, C)) /\ Joined(x, C)
  <2>1. UsedOf(x, C) \in SUBSET C
    BY Disjoint
  <2>2. U \in SUBSET B
    BY Disjoint
  <2>. QED BY <1>3, <2>1, <2>2 DEF Whole
<1>5. PICK size : size = SizeOf(h, b)
  OBVIOUS
<1>6. /\ b \in Nat /\ size \in Nat /\ size = NEXT_BLKP(h, b) - b /\ NEXT_BLKP(h, b) \in Nat
      /\ NEXT_BLKP(h, b) <= h.brk /\ h.brk \in Nat /\ h.brk <= Limit /\ Limit \in Nat /\ size <= n /\ size >= 2
  BY <1>4, <1>5, BlockWords
<1>7. a \in Nat /\ a >= 2 /\ NEXT_BLKP(x, a) \in Nat /\ SizeOf(x, a) = NEXT_BLKP(x, a) - a
      /\ NEXT_BLKP(x, a) <= x.brk /\ x.brk <= Limit /\ x.brk \in Nat
  BY <1>4, BlockWords
<1>8. PICK y : y = memmove(x, a, b, size)
  OBVIOUS
<1>9. Copied(x, y, a, b, size)
  <2>1. x \in Heaps
    BY <1>4 DEF Tiled
  <2>2. 2 * (b + size) - 1 <= 2 * Limit
    BY <1>6
  <2>. QED BY <1>6, <1>7, <1>8, <2>1, <2>2, CopyFacts
<1>10. PayloadsOnly(x, y, {a})
  <2>1. ASSUME NEW v \in Words, y.mem[v] # x.mem[v]
        PROVE  2 * a <= v /\ v <= 2 * NEXT_BLKP(x, a) - 3
    <3>1. 2 * a <= v /\ v <= 2 * (a + size) - 1
      BY <1>9, <2>1 DEF Copied
    <3>2. v \in Int
      BY <1>6 DEF Words
    <3>3. SizeOf(x, a) >= n + 2
      BY <1>3
    <3>. QED BY <1>6, <1>7, <3>1, <3>2, <3>3
  <2>. QED BY <1>9, <2>1 DEF PayloadsOnly, Copied
<1>11. Tiled(y, C) /\ SameTags(x, y, C) /\ y.brk = x.brk /\ Kept(x, y, C \ {a}) /\ y.list = x.list
  <2>1. {a} \in SUBSET C /\ y.brk = x.brk /\ y.list = x.list
    BY <1>4, <1>9 DEF Copied
  <2>. QED BY <1>4, <1>10, <2>1, PayloadsTile, PayloadsKeep
<1>12. SameBlocks(x, y, C)
  BY <1>11, TagsSame
<1>13. FreeOf(x, C) \in SUBSET (C \ {a}) /\ FreeOf(x, C) \in SUBSET C
  <2>1. a \in UsedOf(x, C)
    BY <1>3
  <2>. QED BY <1>4, <2>1, Disjoint
<1>14. Listed(y, FreeOf(x, C))
  <2>1. Kept(x, y, FreeOf(x, C))
    BY <1>11, <1>13, KeptLess
  <2>. QED BY <1>4, <1>11, <1>13, <2>1, KeptLists
<1>15. Whole(y, C) /\ UsedOf(y, C) = U \cup {a} /\ SizeOf(y, a) = SizeOf(x, a)
  <2>1. FreeOf(y, C) = FreeOf(x, C) /\ UsedOf(y, C) = UsedOf(x, C)
        /\ \A c \in C : NEXT_BLKP(y, c) = NEXT_BLKP(x, c) /\ SizeOf(y, c) = SizeOf(x, c)
    BY <1>12 DEF SameBlocks
  <2>2. Joined(y, C)
    BY <1>4, <1>13, <2>1 DEF Joined
  <2>. QED BY <1>3, <1>4, <1>11, <1>14, <2>1, <2>2 DEF Whole
<1>16. PICK g : g = mm_free(y, b)
  OBVIOUS
<1>17. Gone(y, C, b, g)
  BY <1>4, <1>15, <1>16, FreeGoes
<1>18. PICK D : /\ Whole(g, D) /\ UsedOf(g, D) = (U \cup {a}) \ {b} /\ Kept(y, g, (U \cup {a}) \ {b})
  BY <1>15, <1>17 DEF Gone
<1>19. (U \cup {a}) \ {b} = V \cup {a} /\ V \cup {a} \in SUBSET C /\ V \in SUBSET (C \ {a}) /\ a \notin V
  BY <1>3, <1>4
<1>20. Kept(y, g, V) /\ Kept(y, g, {a})
  <2>1. V \in SUBSET ((U \cup {a}) \ {b}) /\ {a} \in SUBSET ((U \cup {a}) \ {b})
    BY <1>19
  <2>. QED BY <1>18, <2>1, KeptLess
<1>21. Kept(h, g, V)
  <2>1. V \in SUBSET U
    OBVIOUS
  <2>2. Kept(h, x, V)
    BY <1>3, <2>1, KeptLess
  <2>3. Kept(x, y, V)
    BY <1>11, <1>19, KeptLess
  <2>4. Kept(h, y, V)
    BY <1>4, <2>2, <2>3, KeptTwice
  <2>. QED BY <1>4, <1>20, <2>4, KeptTwice
<1>22. SizeOf(g, a) = SizeOf(x, a)
  <2>1. SameTags(y, g, {a})
    <3>1. {a} \in SUBSET C
      BY <1>4
    <3>. QED BY <1>11, <1>20, <3>1, KeptTags
  <2>2. SizeOf(g, a) = SizeOf(y, a)
    BY <2>1, SameBlock DEF SameTags
  <2>. QED BY <1>15, <2>2
<1>23. \A v \in 0..(2 * SizeOf(h, b) - 3) : g.mem[2 * a + v] = h.mem[2 * b + v]
  <2>1. SUFFICES ASSUME NEW v \in 0..(2 * SizeOf(h, b) - 3) PROVE g.mem[2 * a + v] = h.mem[2 * b + v]
    OBVIOUS
  <2>2. x.mem[2 * b + v] = h.mem[2 * b + v]
    BY <1>3, <1>4, KeptPayload
  <2>3. v \in Nat /\ v <= 2 * size - 3
    BY <1>5, <1>6
  <2>4. SizeOf(x, a) >= n + 2
    BY <1>3
  <2>5. /\ 2 * a + v \in Words /\ 2 * a <= 2 * a + v
        /\ 2 * a + v <= 2 * (a + size) - 1
        /\ 2 * a + v - 2 * a + 2 * b = 2 * b + v
    BY <1>6, <1>7, <2>3, <2>4 DEF Words
  <2>6. y.mem[2 * a + v] = x.mem[2 * b + v]
    <3>1. \A w \in Words : 2 * a <= w /\ w <= 2 * (a + size) - 1 => y.mem[w] = x.mem[w - 2 * a + 2 * b]
      BY <1>9 DEF Copied
    <3>2. PICK w \in Words : w = 2 * a + v
      BY <2>5
    <3>3. 2 * a <= w /\ w <= 2 * (a + size) - 1
      BY <2>5, <3>2
    <3>4. y.mem[w] = x.mem[w - 2 * a + 2 * b]
      BY <3>1, <3>3
    <3>5. w - 2 * a + 2 * b = 2 * b + v
      BY <1>6, <1>7, <2>3, <3>2
    <3>. QED BY <3>2, <3>4, <3>5
  <2>7. g.mem[2 * a + v] = y.mem[2 * a + v]
    <3>1. v \in 0..(2 * SizeOf(y, a) - 3)
      BY <1>6, <1>7, <1>15, <2>3, <2>4
    <3>2. {a} \in SUBSET C /\ a \in {a}
      BY <1>4
    <3>. QED BY <1>11, <1>20, <3>1, <3>2, KeptPayload
  <2>. QED BY <2>2, <2>6, <2>7
<1>24. PICK r : r = Result(g, a)
  OBVIOUS
<1>25. r.heap = g /\ r.block = a
  BY <1>24 DEF Result
<1>26. SizeOf(g, a) >= n + 1
  <2>1. SizeOf(x, a) >= n + 2 /\ SizeOf(x, a) \in Int
    BY <1>3, <1>7
  <2>. QED BY <1>22, <2>1
<1>27. Moved(h, B, b, n, r)
  BY <1>18, <1>19, <1>21, <1>23, <1>25, <1>26 DEF Moved
<1>. QED
  BY <1>1, <1>2, <1>5, <1>8, <1>16, <1>24, <1>27

\* Whichever way it goes, mm_realloc carries the payload along.
LEMMA ReallocMoves ==
  ASSUME NEW h, NEW B, Whole(h, B), NEW b \in UsedOf(h, B), NEW n \in Nat, NEW r, r = mm_realloc(h, b, n)
  PROVE  r = Result(h, Null) \/ Moved(h, B, b, n, r)
<1>1. PICK size : size = SizeOf(h, b)
  OBVIOUS
<1>2. PICK before : before = PREV_BLKP(h, b)
  OBVIOUS
<1>3. PICK after : after = NEXT_BLKP(h, b)
  OBVIOUS
<1>4. PICK behind : behind = IF IsAllocated(h, after) THEN 0 ELSE SizeOf(h, after)
  OBVIOUS
<1>5. PICK front : front = IF IsAllocated(h, before) THEN 0 ELSE SizeOf(h, before)
  OBVIOUS
<1>6. PICK takeBehind : takeBehind = (front + size < n + 1)
  OBVIOUS
<1>7. PICK freed : freed = IF behind > 0 /\ takeBehind THEN delete(delete(h, before), after) ELSE delete(h, before)
  OBVIOUS
<1>8. PICK joined : joined = IF takeBehind THEN front + size + behind ELSE front + size
  OBVIOUS
<1>9. PICK other : other = mm_malloc(h, n + 1)
  OBVIOUS
<1>10. r = IF size >= n + 1 THEN Result(h, b)
           ELSE IF behind > 0 /\ size + behind >= n + 1
           THEN Result(Tag(delete(h, after), b, size + behind, 1), b)
           ELSE IF front > 0 /\ size + behind + front >= n + 1
           THEN Result(Tag(memmove(freed, before, b, size), before, joined, 1), before)
           ELSE IF other.block = Null THEN other
           ELSE Result(mm_free(memmove(other.heap, other.block, b, size), b), other.block)
  BY <1>1, <1>2, <1>3, <1>4, <1>5, <1>6, <1>7, <1>8, <1>9 DEF mm_realloc
<1>11. Tiled(h, B) /\ b \in B /\ size \in Nat
  BY <1>1, BlockWords DEF Whole, UsedOf
<1>12. behind \in Nat /\ (behind > 0 => ~IsAllocated(h, after) /\ behind = SizeOf(h, after))
  <2>1. ~IsAllocated(h, after) => after \in B
    BY <1>3, <1>11, After DEF FreeOf
  <2>. QED BY <1>4, <1>11, <2>1, BlockWords
<1>13. front \in Nat /\ (front > 0 => ~IsAllocated(h, before) /\ front = SizeOf(h, before))
  <2>1. ~IsAllocated(h, before) => before \in B
    BY <1>2, <1>11, Before
  <2>. QED BY <1>5, <1>11, <2>1, BlockWords
<1>14. CASE size >= n + 1
  <2>1. r = Result(h, b)
    BY <1>10, <1>14
  <2>2. r.heap = h /\ r.block = b
    BY <2>1 DEF Result
  <2>3. UsedOf(h, B) = (UsedOf(h, B) \ {b}) \cup {b} /\ b \notin UsedOf(h, B) \ {b}
    OBVIOUS
  <2>4. Kept(h, h, UsedOf(h, B) \ {b})
    BY DEF Kept
  <2>5. Moved(h, B, b, n, r)
    BY <1>1, <1>14, <2>2, <2>3, <2>4 DEF Moved
  <2>. QED BY <2>5
<1>15. CASE ~(size >= n + 1) /\ behind > 0 /\ size + behind >= n + 1
  <2>1. r = Result(Tag(delete(h, after), b, size + behind, 1), b)
    BY <1>10, <1>15
  <2>2. PICK both : both = size + behind
    OBVIOUS
  <2>3. ~IsAllocated(h, after) /\ both = SizeOf(h, b) + SizeOf(h, after) /\ both >= n + 1
    BY <1>1, <1>12, <1>15, <2>2
  <2>4. Moved(h, B, b, n, Result(Tag(delete(h, after), b, both, 1), b))
    BY <1>3, <2>3, MoveBehind
  <2>. QED BY <2>1, <2>2, <2>4
<1>16. CASE ~(size >= n + 1) /\ ~(behind > 0 /\ size + behind >= n + 1) /\ front > 0 /\ size + behind + front >= n + 1
  <2>1. r = Result(Tag(memmove(freed, before, b, size), before, joined, 1), before)
    BY <1>10, <1>16
  <2>2. PICK far \in BOOLEAN : far <=> (behind > 0 /\ takeBehind)
    OBVIOUS
  <2>3. takeBehind <=> front + size < n + 1
    BY <1>6
  <2>4. /\ ~IsAllocated(h, before) /\ (far => ~IsAllocated(h, after)) /\ joined >= n + 1
        /\ joined = IF far THEN SizeOf(h, before) + SizeOf(h, b) + SizeOf(h, after)
                    ELSE SizeOf(h, before) + SizeOf(h, b)
    <3>1. CASE takeBehind
      <4>1. behind > 0
        BY <1>11, <1>12, <1>13, <1>16, <2>3, <3>1
      <4>2. far
        BY <2>2, <3>1, <4>1
      <4>3. joined = front + size + behind
        BY <1>8, <3>1
      <4>4. joined >= n + 1
        BY <1>11, <1>12, <1>13, <1>16, <4>3
      <4>. QED BY <1>1, <1>12, <1>13, <1>16, <4>1, <4>2, <4>3, <4>4
    <3>2. CASE ~takeBehind
      <4>1. ~far
        BY <2>2, <3>2
      <4>2. joined = front + size
        BY <1>8, <3>2
      <4>3. joined >= n + 1
        BY <1>11, <1>13, <2>3, <3>2, <4>2
      <4>. QED BY <1>1, <1>13, <1>16, <4>1, <4>2, <4>3
    <3>. QED BY <3>1, <3>2
  <2>5. freed = IF far THEN delete(delete(h, before), after) ELSE delete(h, before)
    BY <1>7, <2>2
  <2>6. Moved(h, B, b, n, Result(Tag(memmove(freed, before, b, SizeOf(h, b)), before, joined, 1), before))
    BY <1>2, <1>3, <2>4, <2>5, MoveFront
  <2>. QED BY <1>1, <2>1, <2>6
<1>17. CASE ~(size >= n + 1) /\ ~(behind > 0 /\ size + behind >= n + 1) /\ ~(front > 0 /\ size + behind + front >= n + 1)
  <2>1. r = IF other.block = Null THEN other
            ELSE Result(mm_free(memmove(other.heap, other.block, b, size), b), other.block)
    BY <1>10, <1>17
  <2>2. n + 1 \in Nat /\ n + 1 >= 1 /\ (n + 1) + 1 = n + 2 /\ size <= n
    BY <1>11, <1>17
  <2>3. other = Result(h, Null) \/ Placed(h, B, n + 2, other)
    <3>1. other = Result(h, Null) \/ Placed(h, B, (n + 1) + 1, other)
      BY <1>9, <2>2, MallocTakes
    <3>. QED BY <2>2, <3>1
  <2>4. CASE other = Result(h, Null)
    <3>1. other.block = Null
      BY <2>4 DEF Result
    <3>. QED BY <2>1, <2>4, <3>1
  <2>5. CASE Placed(h, B, n + 2, other)
    <3>1. other.block # Null
      <4>1. PICK C : Whole(other.heap, C) /\ other.block \in UsedOf(other.heap, C)
        BY <2>5 DEF Placed
      <4>. QED BY <4>1 DEF Whole, Tiled, UsedOf, Null
    <3>2. Moved(h, B, b, n, Result(mm_free(memmove(other.heap, other.block, b, size), b), other.block))
      BY <1>1, <2>2, <2>5, MoveAway
    <3>. QED BY <2>1, <3>1, <3>2
  <2>. QED BY <2>3, <2>4, <2>5
<1>. QED
  BY <1>11, <1>14, <1>15, <1>16, <1>17

-----------------------------------------------------------------------------
(* What an owner writes *)

\* Writing in one block's payload leaves the heap whole.
LEMMA PayloadsWhole ==
  ASSUME NEW x, NEW C, Whole(x, C), NEW a \in UsedOf(x, C), NEW y, PayloadsOnly(x, y, {a}), y.list = x.list
  PROVE  Whole(y, C) /\ SameBlocks(x, y, C) /\ Kept(x, y, C \ {a})
<1>1. Tiled(x, C) /\ Listed(x, FreeOf(x, C)) /\ Joined(x, C) /\ a \in C /\ {a} \in SUBSET C
  BY DEF Whole, UsedOf
<1>2. Tiled(y, C) /\ SameTags(x, y, C) /\ y.brk = x.brk /\ Kept(x, y, C \ {a})
  <2>1. y.brk = x.brk
    BY DEF PayloadsOnly
  <2>. QED BY <1>1, <2>1, PayloadsTile, PayloadsKeep
<1>3. SameBlocks(x, y, C)
  BY <1>2, TagsSame
<1>4. FreeOf(x, C) \in SUBSET (C \ {a}) /\ FreeOf(x, C) \in SUBSET C
  BY <1>1, Disjoint
<1>5. Listed(y, FreeOf(x, C))
  <2>1. Kept(x, y, FreeOf(x, C))
    BY <1>2, <1>4, KeptLess
  <2>. QED BY <1>1, <1>4, <2>1, KeptLists
<1>6. FreeOf(y, C) = FreeOf(x, C) /\ \A c \in C : NEXT_BLKP(y, c) = NEXT_BLKP(x, c)
  BY <1>3 DEF SameBlocks
<1>7. Joined(y, C)
  BY <1>1, <1>4, <1>6 DEF Joined
<1>. QED
  BY <1>2, <1>3, <1>5, <1>6, <1>7 DEF Whole

\* An owner writes from `from' up to `to', in units of its block a.
Filled(x, y, from, to) ==
  /\ y \in Heaps /\ y.list = x.list /\ y.brk = x.brk
  /\ \A w \in Words : ~(2 * from <= w /\ w <= 2 * to - 1) => y.mem[w] = x.mem[w]

\* What an owner writes
LEMMA FillFacts ==
  ASSUME NEW x \in Heaps, NEW u \in Nat, NEW a \in Nat, NEW from \in Nat, NEW to \in Nat,
         NEW y, y = [x EXCEPT !.mem = [w \in DOMAIN x.mem |->
                      IF w \in (2 * from)..(2 * to - 1) THEN Datum(u, w - 2 * a) ELSE x.mem[w]]]
  PROVE  Filled(x, y, from, to)
<1> DEFINE m == [w \in Words |-> IF w \in (2 * from)..(2 * to - 1) THEN Datum(u, w - 2 * a) ELSE x.mem[w]]
<1>1. x.mem \in [Words -> Int] /\ DOMAIN x.mem = Words /\ Limit \in Nat
  BY HeapType
<1>2. \A w \in Words : w \in Int /\ Datum(u, w - 2 * a) \in Int
  BY <1>1 DEF Words, Datum
<1>3. m \in [Words -> Int]
  BY <1>1, <1>2
<1>4. \A w \in Words : ~(2 * from <= w /\ w <= 2 * to - 1) => m[w] = x.mem[w]
  BY <1>2
<1>5. y = [x EXCEPT !.mem = m]
  BY <1>1
<1> HIDE DEF m
<1>6. y \in Heaps /\ y.mem = m /\ y.list = x.list /\ y.brk = x.brk
  BY <1>3, <1>5 DEF Heaps
<1>. QED
  BY <1>4, <1>6 DEF Filled

\* An owner that writes within its block harms nobody.
LEMMA FilledPayload ==
  ASSUME NEW x, NEW C, Whole(x, C), NEW a \in UsedOf(x, C), NEW y, NEW from \in Nat, NEW to \in Nat,
         Filled(x, y, from, to), a <= from, to + 1 <= a + SizeOf(x, a)
  PROVE  Whole(y, C) /\ SameBlocks(x, y, C) /\ Kept(x, y, C \ {a})
<1>1. Tiled(x, C) /\ a \in C
  BY DEF Whole, UsedOf
<1>2. a \in Nat /\ NEXT_BLKP(x, a) \in Nat /\ SizeOf(x, a) = NEXT_BLKP(x, a) - a /\ Limit \in Nat
  BY <1>1, BlockWords
<1>3. PayloadsOnly(x, y, {a})
  <2>1. ASSUME NEW w \in Words, y.mem[w] # x.mem[w]
        PROVE  2 * a <= w /\ w <= 2 * NEXT_BLKP(x, a) - 3
    <3>1. 2 * from <= w /\ w <= 2 * to - 1
      BY <2>1 DEF Filled
    <3>2. w \in Int
      BY <1>2 DEF Words
    <3>. QED BY <1>2, <3>1, <3>2
  <2>. QED BY <2>1 DEF PayloadsOnly, Filled
<1>4. y.list = x.list
  BY DEF Filled
<1>. QED
  BY <1>3, <1>4, PayloadsWhole

-----------------------------------------------------------------------------
(* Owners *)

Owners(h, B, o) ==
  /\ o \in [Users -> [first : Nat, length : Nat]]
  /\ \A u \in Users : \/ o[u].first = Null /\ o[u].length = 0
                      \/ /\ o[u].first \in UsedOf(h, B) /\ o[u].length >= 1
                         /\ o[u].length + 1 <= SizeOf(h, o[u].first)
  /\ \A u, v \in Users : o[u].first = o[v].first /\ o[u].first # Null => u = v
  /\ \A b \in UsedOf(h, B) : \E u \in Users : o[u].first = b

\* u has block a of n units now, with what was in its old one, and the blocks of
\* the others are what they were.
Obtains(h, B, o, g, p, u, a, n) ==
  \E C : /\ Whole(g, C) /\ UsedOf(g, C) = (UsedOf(h, B) \ {o[u].first}) \cup {a}
         /\ a \notin UsedOf(h, B) \ {o[u].first} /\ Kept(h, g, UsedOf(h, B) \ {o[u].first})
         /\ SizeOf(g, a) >= n + 1
         /\ p = [o EXCEPT ![u] = [first |-> a, length |-> n]]
         /\ \A v \in 0..(2 * o[u].length - 1) : v < 2 * n => g.mem[2 * a + v] = h.mem[2 * o[u].first + v]

Releases(h, B, o, g, p, u) ==
  \E C : /\ Whole(g, C) /\ UsedOf(g, C) = UsedOf(h, B) \ {o[u].first}
         /\ Kept(h, g, UsedOf(h, B) \ {o[u].first})
         /\ p = [o EXCEPT ![u] = [first |-> Null, length |-> 0]]

\* What malloc gives a user
LEMMA MallocObtains ==
  ASSUME NEW B, Whole(heap, B), Owners(heap, B, owned), NEW u \in Users, NEW n \in Requests, Malloc(u, n)
  PROVE  \/ UNCHANGED vars
         \/ \E a : Obtains(heap, B, owned, heap', owned', u, a, n)
<1>1. PICK h : h = heap
  OBVIOUS
<1>2. PICK r : r = mm_malloc(h, n)
  OBVIOUS
<1>3. n \in Nat /\ n >= 1 /\ u \in Nat
  BY SizeAssumption, UserAssumption
<1>4. owned[u].first = Null /\ owned[u].length = 0
  <2>1. owned[u].first = Null
    BY DEF Malloc
  <2>2. Null \notin UsedOf(h, B)
    BY <1>1 DEF Whole, Tiled, UsedOf, Null
  <2>. QED BY <1>1, <2>1, <2>2 DEF Owners
<1>5. IF r.block = Null THEN heap' = r.heap /\ UNCHANGED owned
      ELSE /\ heap' = Fill(r.heap, u, r.block, n)
           /\ owned' = [owned EXCEPT ![u] = [first |-> r.block, length |-> n]]
  BY <1>1, <1>2 DEF Malloc
<1>6. r = Result(h, Null) \/ Placed(h, B, n + 1, r)
  BY <1>1, <1>2, <1>3, MallocTakes
<1>7. CASE r = Result(h, Null)
  <2>1. r.heap = h /\ r.block = Null
    BY <1>7 DEF Result
  <2>. QED BY <1>1, <1>5, <2>1 DEF vars
<1>8. CASE Placed(h, B, n + 1, r)
  <2>1. PICK x : x = r.heap
    OBVIOUS
  <2>2. PICK a : a = r.block
    OBVIOUS
  <2>3. PICK C : /\ Whole(x, C) /\ UsedOf(x, C) = UsedOf(h, B) \cup {a} /\ a \notin UsedOf(h, B)
                 /\ Kept(h, x, UsedOf(h, B)) /\ SizeOf(x, a) >= n + 1
    BY <1>8, <2>1, <2>2 DEF Placed
  <2>4. a \in UsedOf(x, C) /\ a \in C /\ Tiled(x, C) /\ x \in Heaps
    BY <2>3 DEF UsedOf, Whole, Tiled
  <2>5. a \in Nat /\ a >= 2 /\ SizeOf(x, a) \in Nat
    BY <2>4, BlockWords
  <2>6. PICK g : g = Fill(x, u, a, n)
    OBVIOUS
  <2>7. heap' = g /\ owned' = [owned EXCEPT ![u] = [first |-> a, length |-> n]]
    <3>1. a # Null
      BY <2>5 DEF Null
    <3>. QED BY <1>5, <2>1, <2>2, <2>6, <3>1
  <2>8. Filled(x, g, a, a + n)
    <3>1. g = [x EXCEPT !.mem = [w \in DOMAIN x.mem |->
                IF w \in (2 * a)..(2 * (a + n) - 1) THEN Datum(u, w - 2 * a) ELSE x.mem[w]]]
      BY <2>6 DEF Fill
    <3>2. a + n \in Nat
      BY <1>3, <2>5
    <3>. QED BY <1>3, <2>4, <2>5, <3>1, <3>2, FillFacts
  <2>9. Whole(g, C) /\ SameBlocks(x, g, C) /\ Kept(x, g, C \ {a})
    <3>1. a + n \in Nat /\ a <= a /\ (a + n) + 1 <= a + SizeOf(x, a)
      BY <1>3, <2>3, <2>5
    <3>. QED BY <2>3, <2>4, <2>5, <2>8, <3>1, FilledPayload
  <2>10. UsedOf(g, C) = UsedOf(h, B) \cup {a} /\ SizeOf(g, a) >= n + 1
    BY <2>3, <2>4, <2>9 DEF SameBlocks
  <2>11. Kept(h, g, UsedOf(h, B))
    <3>1. UsedOf(h, B) \in SUBSET (C \ {a}) /\ UsedOf(h, B) \in SUBSET B /\ Tiled(h, B)
      BY <1>1, <2>3, Disjoint DEF Whole
    <3>2. Kept(x, g, UsedOf(h, B))
      BY <2>9, <3>1, KeptLess
    <3>. QED BY <2>3, <3>1, <3>2, KeptTwice
  <2>12. UsedOf(h, B) \ {owned[u].first} = UsedOf(h, B)
    BY <1>1, <1>4 DEF Whole, Tiled, UsedOf, Null
  <2>13. \A v \in 0..(2 * owned[u].length - 1) : FALSE
    BY <1>4
  <2>14. Obtains(h, B, owned, g, owned', u, a, n)
    BY <2>3, <2>7, <2>9, <2>10, <2>11, <2>12, <2>13 DEF Obtains
  <2>. QED BY <1>1, <2>7, <2>14
<1>. QED
  BY <1>6, <1>7, <1>8

\* What realloc gives a user
LEMMA ReallocObtains ==
  ASSUME NEW B, Whole(heap, B), Owners(heap, B, owned), NEW u \in Users, NEW n \in Requests, Realloc(u, n)
  PROVE  \/ UNCHANGED vars
         \/ \E a : Obtains(heap, B, owned, heap', owned', u, a, n)
<1>1. PICK h : h = heap
  OBVIOUS
<1>2. PICK b : b = owned[u].first
  OBVIOUS
<1>3. PICK old : old = owned[u].length
  OBVIOUS
<1>4. PICK r : r = mm_realloc(h, b, n)
  OBVIOUS
<1>5. n \in Nat /\ n >= 1 /\ u \in Nat
  BY SizeAssumption, UserAssumption
<1>6. b \in UsedOf(h, B) /\ old \in Nat /\ old + 1 <= SizeOf(h, b) /\ b \in B /\ Tiled(h, B) /\ SizeOf(h, b) \in Nat
  <2>1. b # Null
    BY <1>2 DEF Realloc
  <2>2. b \in UsedOf(h, B) /\ old \in Nat /\ old + 1 <= SizeOf(h, b)
    BY <1>1, <1>2, <1>3, <2>1 DEF Owners
  <2>3. b \in B /\ Tiled(h, B)
    BY <1>1, <2>2 DEF UsedOf, Whole
  <2>. QED BY <2>2, <2>3, BlockWords
<1>7. IF r.block = Null THEN heap' = r.heap /\ UNCHANGED owned
      ELSE /\ heap' = [r.heap EXCEPT !.mem = [w \in DOMAIN r.heap.mem |->
                         IF w \in (2 * (r.block + old))..(2 * (r.block + n) - 1)
                         THEN Datum(u, w - 2 * r.block) ELSE r.heap.mem[w]]]
           /\ owned' = [owned EXCEPT ![u] = [first |-> r.block, length |-> n]]
  BY <1>1, <1>2, <1>3, <1>4 DEF Realloc
<1>8. r = Result(h, Null) \/ Moved(h, B, b, n, r)
  BY <1>1, <1>4, <1>5, <1>6, ReallocMoves
<1>9. CASE r = Result(h, Null)
  <2>1. r.heap = h /\ r.block = Null
    BY <1>9 DEF Result
  <2>. QED BY <1>1, <1>7, <2>1 DEF vars
<1>10. CASE Moved(h, B, b, n, r)
  <2>1. PICK x : x = r.heap
    OBVIOUS
  <2>2. PICK a : a = r.block
    OBVIOUS
  <2> DEFINE V == UsedOf(h, B) \ {b}
  <2>3. PICK C : /\ Whole(x, C) /\ UsedOf(x, C) = V \cup {a} /\ a \notin V
                 /\ Kept(h, x, V) /\ SizeOf(x, a) >= n + 1
                 /\ \A v \in 0..(2 * SizeOf(h, b) - 3) : x.mem[2 * a + v] = h.mem[2 * b + v]
    BY <1>10, <2>1, <2>2 DEF Moved
  <2>4. a \in UsedOf(x, C) /\ a \in C /\ Tiled(x, C) /\ x \in Heaps
    BY <2>3 DEF UsedOf, Whole, Tiled
  <2>5. a \in Nat /\ a >= 2 /\ SizeOf(x, a) \in Nat /\ Limit \in Nat /\ NEXT_BLKP(x, a) \in Nat
        /\ NEXT_BLKP(x, a) <= x.brk /\ x.brk <= Limit /\ x.brk \in Nat /\ SizeOf(x, a) = NEXT_BLKP(x, a) - a
    BY <2>4, BlockWords
  <2>6. PICK g : g = [x EXCEPT !.mem = [w \in DOMAIN x.mem |->
                       IF w \in (2 * (a + old))..(2 * (a + n) - 1) THEN Datum(u, w - 2 * a) ELSE x.mem[w]]]
    OBVIOUS
  <2>7. heap' = g /\ owned' = [owned EXCEPT ![u] = [first |-> a, length |-> n]]
    <3>1. a # Null
      BY <2>5 DEF Null
    <3>. QED BY <1>7, <2>1, <2>2, <2>6, <3>1
  <2>8. Filled(x, g, a + old, a + n)
    <3>1. a + n \in Nat /\ a + old \in Nat
      BY <1>5, <1>6, <2>5
    <3>. QED BY <1>5, <2>4, <2>5, <2>6, <3>1, FillFacts
  <2>9. Whole(g, C) /\ SameBlocks(x, g, C) /\ Kept(x, g, C \ {a})
    <3>1. a + n \in Nat /\ a + old \in Nat /\ a <= a + old /\ (a + n) + 1 <= a + SizeOf(x, a)
      BY <1>5, <1>6, <2>3, <2>5
    <3>. QED BY <2>3, <2>4, <2>5, <2>8, <3>1, FilledPayload
  <2>10. UsedOf(g, C) = V \cup {a} /\ SizeOf(g, a) >= n + 1
    BY <2>3, <2>4, <2>9 DEF SameBlocks
  <2>11. Kept(h, g, V)
    <3>1. V \in SUBSET (C \ {a}) /\ V \in SUBSET B
      <4>1. UsedOf(x, C) \in SUBSET C /\ UsedOf(h, B) \in SUBSET B
        BY Disjoint
      <4>. QED BY <2>3, <4>1
    <3>2. Kept(x, g, V)
      BY <2>9, <3>1, KeptLess
    <3>. QED BY <1>6, <2>3, <3>1, <3>2, KeptTwice
  <2>12. \A v \in 0..(2 * old - 1) : v < 2 * n => g.mem[2 * a + v] = h.mem[2 * b + v]
    <3>1. SUFFICES ASSUME NEW v \in 0..(2 * old - 1), v < 2 * n PROVE g.mem[2 * a + v] = h.mem[2 * b + v]
      OBVIOUS
    <3>2. v \in 0..(2 * SizeOf(h, b) - 3)
      BY <1>6
    <3>3. x.mem[2 * a + v] = h.mem[2 * b + v]
      BY <2>3, <3>2
    <3>4. 2 * a + v \in Words /\ ~(2 * (a + old) <= 2 * a + v)
      <4>1. SizeOf(x, a) >= n + 1
        BY <2>3
      <4>. QED BY <1>5, <1>6, <2>5, <3>1, <4>1 DEF Words
    <3>. QED BY <2>8, <3>3, <3>4 DEF Filled
  <2>13. Obtains(h, B, owned, g, owned', u, a, n)
    BY <1>2, <1>3, <2>3, <2>7, <2>9, <2>10, <2>11, <2>12 DEF Obtains
  <2>. QED BY <1>1, <2>7, <2>13
<1>. QED
  BY <1>8, <1>9, <1>10

\* What free takes from a user
LEMMA FreeReleases ==
  ASSUME NEW B, Whole(heap, B), Owners(heap, B, owned), NEW u \in Users, Free(u)
  PROVE  Releases(heap, B, owned, heap', owned', u)
<1>1. PICK h : h = heap
  OBVIOUS
<1>2. PICK b : b = owned[u].first
  OBVIOUS
<1>3. b \in UsedOf(h, B)
  BY <1>1, <1>2 DEF Free, Owners
<1>4. PICK g : g = mm_free(h, b)
  OBVIOUS
<1>5. heap' = g /\ owned' = [owned EXCEPT ![u] = [first |-> Null, length |-> 0]]
  BY <1>1, <1>2, <1>4 DEF Free
<1>6. Gone(h, B, b, g)
  BY <1>1, <1>3, <1>4, FreeGoes
<1>7. Releases(h, B, owned, g, owned', u)
  BY <1>2, <1>5, <1>6 DEF Gone, Releases
<1>. QED
  BY <1>1, <1>5, <1>7

\* The blocks of the others are not u's, and stay theirs.
LEMMA OthersApart ==
  ASSUME NEW h, NEW B, Whole(h, B), NEW o, Owners(h, B, o), NEW u \in Users, NEW v \in Users, v # u,
         NEW g, Kept(h, g, UsedOf(h, B) \ {o[u].first}), o[v].first # Null
  PROVE  /\ o[v].first \in UsedOf(h, B) \ {o[u].first}
         /\ SizeOf(g, o[v].first) = SizeOf(h, o[v].first)
<1>1. o[v].first \in UsedOf(h, B) \ {o[u].first}
  BY DEF Owners
<1>2. UsedOf(h, B) \ {o[u].first} \in SUBSET B /\ Tiled(h, B)
  BY Disjoint DEF Whole
<1>3. SameTags(h, g, UsedOf(h, B) \ {o[u].first})
  BY <1>2, KeptTags
<1>. QED
  BY <1>1, <1>3, SameBlock DEF SameTags

\* Nobody owns anything by the null pointer.
LEMMA NullOwns ==
  ASSUME NEW h, NEW B, Whole(h, B), NEW o, Owners(h, B, o)
  PROVE  /\ Null \notin UsedOf(h, B)
         /\ \A v \in Users : /\ o[v].first \in Nat /\ o[v].length \in Nat
                             /\ o[v] = [first |-> o[v].first, length |-> o[v].length]
<1>1. Null \notin UsedOf(h, B)
  BY DEF Whole, Tiled, UsedOf, Null
<1>. QED
  BY <1>1 DEF Owners

\* One more block in use, and one owner for it
LEMMA ObtainsKeeps ==
  ASSUME NEW h, NEW B, Whole(h, B), NEW o, Owners(h, B, o), NEW u \in Users, NEW n \in Nat, n >= 1,
         NEW g, NEW p, NEW a, Obtains(h, B, o, g, p, u, a, n)
  PROVE  \E C : Whole(g, C) /\ Owners(g, C, p)
<1> DEFINE V == UsedOf(h, B) \ {o[u].first}
<1>1. PICK C : /\ Whole(g, C) /\ UsedOf(g, C) = V \cup {a} /\ a \notin V /\ Kept(h, g, V) /\ SizeOf(g, a) >= n + 1
               /\ p = [o EXCEPT ![u] = [first |-> a, length |-> n]]
  BY DEF Obtains
<1>2. a \in UsedOf(g, C) /\ a \in Nat
  <2>1. a \in C /\ Tiled(g, C)
    BY <1>1 DEF UsedOf, Whole
  <2>. QED BY <1>1, <2>1, BlockWords
<1>3. o \in [Users -> [first : Nat, length : Nat]] /\ [first |-> a, length |-> n] \in [first : Nat, length : Nat]
  BY <1>2 DEF Owners
<1>4. p \in [Users -> [first : Nat, length : Nat]]
  BY <1>1, <1>3
<1>5. p[u].first = a /\ p[u].length = n /\ \A v \in Users : v # u => p[v] = o[v]
  BY <1>1, <1>3
<1>6. ASSUME NEW v \in Users, v # u, o[v].first # Null
      PROVE  /\ o[v].first \in V /\ SizeOf(g, o[v].first) = SizeOf(h, o[v].first)
  BY <1>1, <1>6, OthersApart
<1>7. ASSUME NEW v \in Users
      PROVE  \/ p[v].first = Null /\ p[v].length = 0
             \/ /\ p[v].first \in UsedOf(g, C) /\ p[v].length >= 1 /\ p[v].length + 1 <= SizeOf(g, p[v].first)
  <2>1. CASE v = u
    BY <1>1, <1>2, <1>5, <2>1
  <2>2. CASE v # u
    <3>1. PICK b : b = o[v].first
      OBVIOUS
    <3>2. PICK m : m = o[v].length
      OBVIOUS
    <3>3. p[v].first = b /\ p[v].length = m
      BY <1>5, <2>2, <3>1, <3>2
    <3>4. \/ b = Null /\ m = 0
          \/ b \in UsedOf(h, B) /\ m >= 1 /\ m + 1 <= SizeOf(h, b)
      BY <3>1, <3>2 DEF Owners
    <3>5. b # Null => b \in UsedOf(g, C) /\ SizeOf(g, b) = SizeOf(h, b)
      BY <1>1, <1>6, <2>2, <3>1
    <3>6. Null \notin UsedOf(h, B)
      BY NullOwns
    <3>. QED BY <3>3, <3>4, <3>5, <3>6
  <2>. QED BY <2>1, <2>2
<1>8. ASSUME NEW v \in Users, NEW w \in Users, p[v].first = p[w].first, p[v].first # Null
      PROVE  v = w
  BY <1>1, <1>5, <1>6, <1>8 DEF Owners
<1>9. ASSUME NEW b \in UsedOf(g, C)
      PROVE  \E v \in Users : p[v].first = b
  <2>1. CASE b = a
    BY <1>5, <2>1
  <2>2. CASE b \in V
    <3>1. PICK v \in Users : o[v].first = b
      BY <2>2 DEF Owners
    <3>2. v # u
      BY <2>2, <3>1
    <3>. QED BY <1>5, <3>1, <3>2
  <2>. QED BY <1>1, <2>1, <2>2
<1>. QED
  BY <1>1, <1>4, <1>7, <1>8, <1>9 DEF Owners

\* One block in use less, and its owner gone
LEMMA ReleasesKeeps ==
  ASSUME NEW h, NEW B, Whole(h, B), NEW o, Owners(h, B, o), NEW u \in Users,
         NEW g, NEW p, Releases(h, B, o, g, p, u)
  PROVE  \E C : Whole(g, C) /\ Owners(g, C, p)
<1> DEFINE V == UsedOf(h, B) \ {o[u].first}
<1>1. PICK C : /\ Whole(g, C) /\ UsedOf(g, C) = V /\ Kept(h, g, V)
               /\ p = [o EXCEPT ![u] = [first |-> Null, length |-> 0]]
  BY DEF Releases
<1>3. o \in [Users -> [first : Nat, length : Nat]] /\ [first |-> Null, length |-> 0] \in [first : Nat, length : Nat]
  BY DEF Owners, Null
<1>4. p \in [Users -> [first : Nat, length : Nat]]
  BY <1>1, <1>3
<1>5. p[u].first = Null /\ p[u].length = 0 /\ \A v \in Users : v # u => p[v] = o[v]
  BY <1>1, <1>3
<1>6. ASSUME NEW v \in Users, v # u, o[v].first # Null
      PROVE  /\ o[v].first \in V /\ SizeOf(g, o[v].first) = SizeOf(h, o[v].first)
  BY <1>1, <1>6, OthersApart
<1>7. ASSUME NEW v \in Users
      PROVE  \/ p[v].first = Null /\ p[v].length = 0
             \/ /\ p[v].first \in UsedOf(g, C) /\ p[v].length >= 1 /\ p[v].length + 1 <= SizeOf(g, p[v].first)
  <2>1. CASE v = u
    BY <1>5, <2>1
  <2>2. CASE v # u
    <3>1. PICK b : b = o[v].first
      OBVIOUS
    <3>2. PICK m : m = o[v].length
      OBVIOUS
    <3>3. p[v].first = b /\ p[v].length = m
      BY <1>5, <2>2, <3>1, <3>2
    <3>4. \/ b = Null /\ m = 0
          \/ b \in UsedOf(h, B) /\ m >= 1 /\ m + 1 <= SizeOf(h, b)
      BY <3>1, <3>2 DEF Owners
    <3>5. b # Null => b \in UsedOf(g, C) /\ SizeOf(g, b) = SizeOf(h, b)
      BY <1>1, <1>6, <2>2, <3>1
    <3>6. Null \notin UsedOf(h, B)
      BY NullOwns
    <3>. QED BY <3>3, <3>4, <3>5, <3>6
  <2>. QED BY <2>1, <2>2
<1>8. ASSUME NEW v \in Users, NEW w \in Users, p[v].first = p[w].first, p[v].first # Null
      PROVE  v = w
  BY <1>5, <1>8 DEF Owners
<1>9. ASSUME NEW b \in UsedOf(g, C)
      PROVE  \E v \in Users : p[v].first = b
  <2>1. b \in V
    BY <1>1
  <2>2. PICK v \in Users : o[v].first = b
    BY <2>1 DEF Owners
  <2>3. v # u
    BY <2>1, <2>2
  <2>. QED BY <1>5, <2>2, <2>3
<1>. QED
  BY <1>1, <1>4, <1>7, <1>8, <1>9 DEF Owners

-----------------------------------------------------------------------------
(* The invariant *)

WellOwned == \E B : Whole(heap, B) /\ Owners(heap, B, owned)

\* A heap with no block
LEMMA EmptyHeap ==
  ASSUME NEW h, h = mm_init
  PROVE  Whole(h, {})
<1>1. Limit \in Nat /\ Limit > 2 /\ PACK(1, 1) \in Int /\ PACK(0, 1) \in Int /\ Null = 0
  BY SizeAssumption DEF PACK, Null
<1>2. h \in Heaps /\ h.brk = 2
  BY <1>1 DEF mm_init, Heaps, Words
<1>3. h.mem[1] = PACK(1, 1) /\ h.mem[2] = PACK(1, 1) /\ h.mem[3] = PACK(0, 1)
  BY <1>1 DEF mm_init
<1>4. \A i \in Lists : h.list[i] = Null
  BY DEF mm_init
<1>5. Tiled(h, {})
  BY <1>2, <1>3 DEF Tiled
<1>6. FreeOf(h, {}) = {}
  BY DEF FreeOf
<1>7. Listed(h, {})
  <2>1. SUFFICES ASSUME NEW i \in Lists PROVE \E n, c : Linked(h, i, InList(h, {}, i), n, c)
    BY DEF Listed
  <2>2. PICK c : c = [k \in 0..1 |-> 0]
    OBVIOUS
  <2>3. InList(h, {}, i) = {}
    BY DEF InList
  <2>4. c \in [0..(0 + 1) -> Nat] /\ c[0] = Null /\ c[1] = Null /\ c[0 + 1] = Null
    BY <1>1, <2>2
  <2>5. Linked(h, i, {}, 0, c)
    BY <1>4, <2>4 DEF Linked
  <2>. QED BY <2>3, <2>5
<1>8. Joined(h, {})
  BY <1>6 DEF Joined
<1>. QED
  BY <1>5, <1>6, <1>7, <1>8 DEF Whole

\* Nothing is handed out at first.
LEMMA InitOwned ==
  ASSUME Init
  PROVE  WellOwned
<1>1. Whole(heap, {})
  BY EmptyHeap DEF Init
<1>2. Owners(heap, {}, owned)
  BY DEF Init, Owners, UsedOf, Null
<1>. QED
  BY <1>1, <1>2 DEF WellOwned

\* What a step of the program is, seen from outside the allocator
LEMMA StepIs ==
  ASSUME NEW B, Whole(heap, B), Owners(heap, B, owned), [Next]_vars
  PROVE  \/ UNCHANGED vars
         \/ \E u \in Users, n \in Requests : \E a : Obtains(heap, B, owned, heap', owned', u, a, n)
         \/ \E u \in Users : /\ owned[u].first # Null
                             /\ Releases(heap, B, owned, heap', owned', u)
<1>1. ASSUME NEW u \in Users, NEW n \in Requests, Malloc(u, n) \/ Realloc(u, n)
      PROVE  \/ UNCHANGED vars
             \/ \E a : Obtains(heap, B, owned, heap', owned', u, a, n)
  BY <1>1, MallocObtains, ReallocObtains
<1>2. ASSUME NEW u \in Users, Free(u)
      PROVE  owned[u].first # Null /\ Releases(heap, B, owned, heap', owned', u)
  <2>1. owned[u].first # Null
    BY <1>2 DEF Free
  <2>. QED BY <1>2, <2>1, FreeReleases
<1>. QED
  BY <1>1, <1>2 DEF Next

\* Every call keeps the heap whole and each block owned.
LEMMA StepKeeps ==
  ASSUME WellOwned, [Next]_vars
  PROVE  WellOwned'
<1>1. PICK B : Whole(heap, B) /\ Owners(heap, B, owned)
  BY DEF WellOwned
<1>2. PICK g : g = heap'
  OBVIOUS
<1>3. PICK p : p = owned'
  OBVIOUS
<1>4. SUFFICES \E C : Whole(g, C) /\ Owners(g, C, p)
  BY <1>2, <1>3 DEF WellOwned
<1>5. CASE UNCHANGED vars
  <2>1. g = heap /\ p = owned
    BY <1>2, <1>3, <1>5 DEF vars
  <2>. QED BY <1>1, <2>1
<1>6. ASSUME NEW u \in Users, NEW n \in Requests, NEW a, Obtains(heap, B, owned, g, p, u, a, n)
      PROVE  \E C : Whole(g, C) /\ Owners(g, C, p)
  <2>1. n \in Nat /\ n >= 1
    BY SizeAssumption
  <2>. QED BY <1>1, <1>6, <2>1, ObtainsKeeps
<1>7. ASSUME NEW u \in Users, Releases(heap, B, owned, g, p, u)
      PROVE  \E C : Whole(g, C) /\ Owners(g, C, p)
  BY <1>1, <1>7, ReleasesKeeps
<1>. QED
  BY <1>1, <1>2, <1>3, <1>5, <1>6, <1>7, StepIs

\* Every block in use has one owner and holds what was asked for: the heap is
\* never out of step with what the program was given, so nothing leaks.
THEOREM BlocksAreOwned == Spec => []WellOwned
<1>1. Init => WellOwned
  BY InitOwned
<1>2. WellOwned /\ [Next]_vars => WellOwned'
  BY StepKeeps
<1>. QED
  BY <1>1, <1>2, PTL DEF Spec

-----------------------------------------------------------------------------
(* The properties of the runs *)

\* The blocks that the headers lead through are those of the tiling.
LEMMA BlocksAre ==
  ASSUME NEW B, Tiled(heap, B)
  PROVE  Blocks = B
<1> DEFINE Step(f, b) == IF b >= heap.brk \/ SizeOf(heap, b) <= 0 THEN {}
                         ELSE {b} \cup (IF NEXT_BLKP(heap, b) > Limit THEN {} ELSE f[NEXT_BLKP(heap, b)])
           from == CHOOSE f : f = [b \in 2..Limit |-> Step(f, b)]
<1>1. Limit \in Nat /\ Limit >= 2 /\ heap.brk \in 2..Limit /\ heap.mem \in [Words -> Int]
  BY SizeAssumption, HeapType DEF Tiled
<1>2. ASSUME NEW b \in 2..Limit
      PROVE  SizeOf(heap, b) \in Int /\ NEXT_BLKP(heap, b) = b + SizeOf(heap, b)
  <2>1. 2 * b - 1 \in Words
    BY <1>1 DEF Words
  <2>2. heap.mem[Header(b)] \in Int
    BY <1>1, <2>1 DEF Header
  <2>. QED BY <2>2 DEF SizeOf, GET_SIZE, NEXT_BLKP
<1>3. ASSUME NEW b \in 2..Limit, NEW f, NEW g, \A c \in 2..Limit : c > b => f[c] = g[c]
      PROVE  Step(f, b) = Step(g, b)
  <2>1. CASE b >= heap.brk \/ SizeOf(heap, b) <= 0
    BY <2>1
  <2>2. CASE ~(b >= heap.brk \/ SizeOf(heap, b) <= 0)
    <3>1. CASE NEXT_BLKP(heap, b) > Limit
      BY <3>1
    <3>2. CASE ~(NEXT_BLKP(heap, b) > Limit)
      <4>1. NEXT_BLKP(heap, b) \in 2..Limit /\ NEXT_BLKP(heap, b) > b
        BY <1>1, <1>2, <2>2, <3>2
      <4>2. f[NEXT_BLKP(heap, b)] = g[NEXT_BLKP(heap, b)]
        BY <1>3, <4>1
      <4>. QED BY <4>2
    <3>. QED BY <3>1, <3>2
  <2>. QED BY <2>1, <2>2
<1> DEFINE Good(f, m) == \A b \in m..Limit : f[b] = Step(f, b)
           A == {m \in 2..(Limit + 1) : \E f : Good(f, m)}
<1>4. \E f : Good(f, 2)
  <2> HIDE DEF Step
  <2>1. Limit + 1 \in A
    <3>1. \A b \in (Limit + 1)..Limit : FALSE
      BY <1>1
    <3>. QED BY <1>1, <3>1
  <2>2. A \in SUBSET Nat
    <3>1. \A m \in A : m \in 2..(Limit + 1)
      OBVIOUS
    <3> HIDE DEF A
    <3>. QED BY <1>1, <3>1
  <2>3. PICK m \in A : \A q \in A : m <= q
    <3> HIDE DEF A
    <3>. QED BY <2>1, <2>2, LeastIndex, Zenon
  <2>4. PICK f : Good(f, m)
    BY <2>3
  <2>5. CASE m # 2
    <3>1. m \in 2..(Limit + 1) /\ m - 1 \in 2..Limit /\ ~(m <= m - 1) /\ m - 1 \in 2..(Limit + 1)
      BY <1>1, <2>3, <2>5
    <3> DEFINE g == [b \in (m - 1)..Limit |-> IF b = m - 1 THEN Step(f, m - 1) ELSE f[b]]
    <3>2. \A c \in 2..Limit : c > m - 1 => g[c] = f[c]
      BY <3>1
    <3>3. ASSUME NEW b \in (m - 1)..Limit
          PROVE  g[b] = Step(g, b)
      <4>1. b \in 2..Limit /\ (b = m - 1 \/ b \in m..Limit)
        BY <1>1, <3>1
      <4>2. \A c \in 2..Limit : c > b => g[c] = f[c]
        <5>1. \A c \in 2..Limit : c > b => c > m - 1
          BY <1>1, <3>1
        <5> HIDE DEF g
        <5>. QED BY <3>2, <5>1
      <4>3. Step(g, b) = Step(f, b)
        <5> HIDE DEF g
        <5>. QED BY <1>3, <4>1, <4>2
      <4>4. g[b] = Step(f, b)
        <5>1. CASE b = m - 1
          BY <5>1
        <5>2. CASE b # m - 1
          <6>1. g[b] = f[b]
            BY <5>2
          <6>. QED BY <2>4, <4>1, <5>2, <6>1
        <5>. QED BY <5>1, <5>2
      <4>. QED BY <4>3, <4>4
    <3>4. Good(g, m - 1)
      <4> HIDE DEF g
      <4>. QED BY <3>3
    <3>5. m - 1 \in A
      <4> HIDE DEF g, Good
      <4>. QED BY <3>1, <3>4
    <3>. QED BY <2>3, <3>1, <3>5
  <2>. QED BY <2>4, <2>5
<1>5. from = [b \in 2..Limit |-> Step(from, b)]
  <2>1. PICK f : Good(f, 2)
    BY <1>4
  <2>2. PICK g : g = [b \in 2..Limit |-> Step(f, b)]
    <3> HIDE DEF Step
    <3>. QED OBVIOUS
  <2>3. \A b \in 2..Limit : g[b] = f[b]
    <3> HIDE DEF Step
    <3>. QED BY <2>1, <2>2
  <2>4. \A b \in 2..Limit : Step(g, b) = Step(f, b)
    <3> HIDE DEF Step
    <3>. QED BY <1>3, <2>3
  <2>5. g = [b \in 2..Limit |-> Step(g, b)]
    <3> HIDE DEF Step
    <3>. QED BY <2>2, <2>4
  <2>6. \E f2 : f2 = [b \in 2..Limit |-> Step(f2, b)]
    <3> HIDE DEF Step
    <3>. QED BY <2>5
  <2> HIDE DEF Step
  <2>. QED BY <2>6
<1>6. Blocks = from[2]
  BY DEF Blocks
<1>7. \A b \in 2..Limit : from[b] = Step(from, b)
  <2> HIDE DEF from, Step
  <2>. QED BY <1>5
<1> HIDE DEF from
<1>8. from[heap.brk] = {}
  <2>1. Step(from, heap.brk) = {}
    BY <1>1
  <2> HIDE DEF Step
  <2>. QED BY <1>1, <1>7, <2>1
<1>9. \A b \in B : b \in 2..Limit /\ b \in Nat /\ b < heap.brk
  BY <1>1 DEF Tiled
<1>10. ASSUME NEW b \in B
       PROVE  from[b] = {b} \cup from[NEXT_BLKP(heap, b)]
  <2>1. SizeOf(heap, b) \in Nat /\ SizeOf(heap, b) >= 2 /\ NEXT_BLKP(heap, b) \in Nat /\ NEXT_BLKP(heap, b) <= Limit
    <3>1. /\ NEXT_BLKP(heap, b) \in Nat /\ NEXT_BLKP(heap, b) <= heap.brk /\ heap.brk <= Limit /\ heap.brk \in Nat
      BY BlockWords
    <3>2. SizeOf(heap, b) \in Nat /\ SizeOf(heap, b) >= 2
      BY DEF Tiled, BlockOK
    <3>. QED BY <1>1, <3>1, <3>2
  <2>2. ~(b >= heap.brk \/ SizeOf(heap, b) <= 0) /\ ~(NEXT_BLKP(heap, b) > Limit)
    BY <1>1, <1>9, <2>1
  <2>3. Step(from, b) = {b} \cup from[NEXT_BLKP(heap, b)]
    BY <2>2
  <2> HIDE DEF Step
  <2>. QED BY <1>7, <1>9, <2>3
<1>11. ASSUME NEW b0 \in B, from[b0] # {c \in B : c >= b0}
       PROVE  FALSE
  <2> DEFINE X == {b \in B : from[b] # {c \in B : c >= b}}
  <2>1. X # {} /\ X \in SUBSET (0..Limit)
    <3>1. \A b \in B : b \in 0..Limit
      BY <1>1, <1>9
    <3>. QED BY <1>11, <3>1
  <2>2. PICK b \in X : \A q \in X : q <= b
    <3> HIDE DEF X
    <3>. QED BY <1>1, <2>1, GreatestIndex, Zenon
  <2>3. b \in B /\ from[b] # {c \in B : c >= b}
    BY <2>2
  <2>4. PICK e : e = NEXT_BLKP(heap, b)
    OBVIOUS
  <2>5. e \in B \cup {heap.brk} /\ e \in Nat /\ b \in Nat /\ b < e
    BY <2>3, <2>4, BlockWords DEF Tiled, BlockOK
  <2>6. \A c \in B : c >= b <=> c = b \/ c >= e
    <3>1. \A c \in B : b < c => e <= c
      BY <2>3, <2>4 DEF Tiled
    <3>. QED BY <1>9, <2>5, <3>1
  <2>7. from[e] = {c \in B : c >= e}
    <3>1. CASE e = heap.brk
      <4>1. \A c \in B : ~(c >= e)
        BY <1>1, <1>9, <3>1
      <4>. QED BY <1>8, <3>1, <4>1
    <3>2. CASE e \in B
      <4>1. e \notin X
        <5> HIDE DEF X
        <5>. QED BY <2>2, <2>5
      <4>. QED BY <3>2, <4>1
    <3>. QED BY <2>5, <3>1, <3>2
  <2>8. from[b] = {b} \cup from[e]
    BY <1>10, <2>3, <2>4
  <2>9. from[b] = {c \in B : c >= b}
    BY <2>3, <2>6, <2>7, <2>8, Zenon
  <2>. QED BY <2>3, <2>9
<1>12. CASE 2 \in B
  <2>1. from[2] = {c \in B : c >= 2}
    BY <1>11, <1>12
  <2>2. \A c \in B : c >= 2
    BY <1>1, <1>9
  <2>. QED BY <1>6, <2>1, <2>2
<1>13. CASE 2 = heap.brk
  <2>1. \A c \in B : FALSE
    BY <1>1, <1>9, <1>13
  <2>. QED BY <1>6, <1>8, <1>13, <2>1
<1>. QED
  BY <1>12, <1>13 DEF Tiled

\* What the runs check of a heap follows from its being whole.
LEMMA WholeProperties ==
  ASSUME NEW B, Whole(heap, B)
  PROVE  BlocksTileTheHeap /\ FreeBlocksJoined /\ ListsHoldTheFree
<1>1. Tiled(heap, B) /\ Listed(heap, FreeOf(heap, B)) /\ Joined(heap, B)
  BY DEF Whole
<1>2. Blocks = B /\ FreeBlocks = FreeOf(heap, B) /\ FreeOf(heap, B) \in SUBSET B
  BY <1>1, BlocksAre DEF FreeBlocks, FreeOf
<1>3. BlocksTileTheHeap
  BY <1>1, <1>2 DEF BlocksTileTheHeap, Tiled, BlockOK, Header
<1>4. FreeBlocksJoined
  BY <1>1, <1>2 DEF FreeBlocksJoined, Joined
<1>5. ListsHoldTheFree
  <2> DEFINE F == FreeOf(heap, B)
  <2>1. SUFFICES ASSUME NEW i \in Lists
                 PROVE  /\ IsInjective(Chain(heap, i))
                        /\ Range(Chain(heap, i)) = {b \in F : ListOf(SizeOf(heap, b)) = i}
                        /\ \A k \in DOMAIN Chain(heap, i) :
                             heap.mem[NextLink(Chain(heap, i)[k])] = IF k = 1 THEN Null ELSE Chain(heap, i)[k - 1]
    BY <1>2 DEF ListsHoldTheFree
  <2>2. PICK n, c : Linked(heap, i, InList(heap, F, i), n, c)
    BY <1>1 DEF Listed
  <2>3. PICK f : f = Chain(heap, i)
    OBVIOUS
  <2>4. f = [k \in 1..n |-> c[k]]
    <3>1. IsFirst(Chain(heap, i), n, c)
      BY <1>1, <1>2, <2>2, ChainIs
    <3>. QED BY <2>3, <3>1 DEF IsFirst
  <2>5. /\ n \in Nat /\ c[0] = Null
        /\ \A k \in 1..n : c[k] \in InList(heap, F, i) /\ heap.mem[2 * c[k] + 1] = c[k - 1]
        /\ \A j, k \in 1..n : c[j] = c[k] => j = k
        /\ \A b \in InList(heap, F, i) : \E k \in 1..n : b = c[k]
    BY <2>2 DEF Linked
  <2>6. DOMAIN f = 1..n /\ \A k \in 1..n : f[k] = c[k]
    BY <2>4
  <2>7. IsInjective(f)
    BY <2>5, <2>6 DEF IsInjective
  <2>8. Range(f) = InList(heap, F, i)
    <3>1. PICK L : L = InList(heap, F, i)
      OBVIOUS
    <3>2. (\A k \in 1..n : f[k] \in L) /\ \A b \in L : \E k \in 1..n : b = f[k]
      BY <2>5, <2>6, <3>1
    <3>3. Range(f) = L
      BY <2>6, <3>2 DEF Range
    <3>. QED BY <3>1, <3>3
  <2>9. ASSUME NEW k \in DOMAIN f
        PROVE  heap.mem[NextLink(f[k])] = IF k = 1 THEN Null ELSE f[k - 1]
    <3>1. k \in 1..n /\ heap.mem[NextLink(f[k])] = c[k - 1]
      BY <2>5, <2>6, <2>9 DEF NextLink
    <3>2. CASE k = 1
      BY <2>5, <3>1, <3>2
    <3>3. CASE k # 1
      <4>1. k - 1 \in 1..n
        BY <2>5, <3>1, <3>3
      <4>. QED BY <2>6, <3>1, <3>3, <4>1
    <3>. QED BY <3>2, <3>3
  <2>. QED BY <2>3, <2>7, <2>8, <2>9 DEF InList
<1>. QED
  BY <1>3, <1>4, <1>5

\* The blocks always tile the heap, with footers like their headers: coalesce and
\* realloc find the neighbours they take for such.
THEOREM HeapTiled == Spec => []BlocksTileTheHeap
<1>1. WellOwned => BlocksTileTheHeap
  BY WholeProperties DEF WellOwned
<1>. QED
  BY <1>1, BlocksAreOwned, PTL

\* Two free blocks never lie side by side, whatever was freed, split or grown.
THEOREM NoFreeNeighbours == Spec => []FreeBlocksJoined
<1>1. WellOwned => FreeBlocksJoined
  BY WholeProperties DEF WellOwned
<1>. QED
  BY <1>1, BlocksAreOwned, PTL

\* The segregated lists hold the free blocks of their sizes, each once, linked
\* both ways: a block that grows or shrinks is never left in the list it was in.
THEOREM FreeBlocksListed == Spec => []ListsHoldTheFree
<1>1. WellOwned => ListsHoldTheFree
  BY WholeProperties DEF WellOwned
<1>. QED
  BY <1>1, BlocksAreOwned, PTL

-----------------------------------------------------------------------------
(* The allocator's promise *)

\* What is in u's area
Held(h, o, u) ==
  [i \in 0..(o[u].length - 1) |-> <<h.mem[2 * (o[u].first + i)], h.mem[2 * (o[u].first + i) + 1]>>]

\* v is another owner than u, and its block and what it owns have not changed.
Unmoved(h, B, o, u, g, p, v) ==
  /\ Whole(h, B) /\ Owners(h, B, o) /\ u \in Users /\ v \in Users /\ v # u
  /\ Kept(h, g, UsedOf(h, B) \ {o[u].first}) /\ p[v] = o[v]

\* What others hold is unchanged.
LEMMA OthersHold ==
  ASSUME NEW h, NEW B, NEW o, NEW u, NEW g, NEW p, NEW v, Unmoved(h, B, o, u, g, p, v)
  PROVE  Held(g, p, v) = Held(h, o, v)
<1>0. /\ Whole(h, B) /\ Owners(h, B, o) /\ u \in Users /\ v \in Users /\ v # u
      /\ Kept(h, g, UsedOf(h, B) \ {o[u].first}) /\ p[v] = o[v]
  BY DEF Unmoved
<1>1. PICK b : b = o[v].first
  OBVIOUS
<1>2. PICK m : m = o[v].length
  OBVIOUS
<1>3. p[v].first = b /\ p[v].length = m /\ b \in Nat /\ m \in Nat
  BY <1>0, <1>1, <1>2, NullOwns
<1>4. ASSUME NEW i \in 0..(m - 1)
      PROVE  g.mem[2 * (b + i)] = h.mem[2 * (b + i)] /\ g.mem[2 * (b + i) + 1] = h.mem[2 * (b + i) + 1]
  <2>1. b # Null /\ m + 1 <= SizeOf(h, b)
    <3>1. m # 0
      BY <1>3, <1>4
    <3>2. Null \notin UsedOf(h, B)
      BY <1>0, NullOwns
    <3>3. \/ b = Null /\ m = 0
          \/ b \in UsedOf(h, B) /\ m + 1 <= SizeOf(h, b)
      BY <1>0, <1>1, <1>2 DEF Owners
    <3>. QED BY <3>1, <3>2, <3>3
  <2>2. b \in UsedOf(h, B) \ {o[u].first}
    BY <1>0, <1>1, <2>1, OthersApart
  <2>3. UsedOf(h, B) \ {o[u].first} \in SUBSET B /\ Tiled(h, B) /\ b \in B
    BY <1>0, <2>2, Disjoint DEF Whole
  <2>4. SizeOf(h, b) \in Nat
    BY <2>3, BlockWords
  <2>5. /\ 2 * i \in 0..(2 * SizeOf(h, b) - 3) /\ 2 * i + 1 \in 0..(2 * SizeOf(h, b) - 3)
        /\ 2 * (b + i) = 2 * b + 2 * i /\ 2 * (b + i) + 1 = 2 * b + (2 * i + 1)
    BY <1>3, <1>4, <2>1, <2>4
  <2> DEFINE U == UsedOf(h, B) \ {o[u].first}
  <2>12. U \in SUBSET B /\ Tiled(h, B) /\ b \in U /\ Kept(h, g, U)
    BY <1>0, <2>2, <2>3
  <2> HIDE DEF U
  <2>6. g.mem[2 * b + 2 * i] = h.mem[2 * b + 2 * i]
    BY <2>5, <2>12, KeptPayload
  <2>7. PICK w : w = 2 * i + 1
    OBVIOUS
  <2>8. w \in 0..(2 * SizeOf(h, b) - 3)
    BY <2>5, <2>7
  <2>9. g.mem[2 * b + w] = h.mem[2 * b + w]
    BY <2>8, <2>12, KeptPayload
  <2>. QED BY <2>5, <2>6, <2>7, <2>9
<1>5. Held(g, p, v) = [i \in 0..(m - 1) |-> <<g.mem[2 * (b + i)], g.mem[2 * (b + i) + 1]>>]
  BY <1>3 DEF Held
<1>6. Held(h, o, v) = [i \in 0..(m - 1) |-> <<h.mem[2 * (b + i)], h.mem[2 * (b + i) + 1]>>]
  BY <1>1, <1>2 DEF Held
<1>. QED
  BY <1>4, <1>5, <1>6

\* Two blocks in use share no unit of their payloads.
LEMMA AreasApart ==
  ASSUME NEW g, NEW C, Tiled(g, C), NEW a \in C, NEW b \in C, a # b,
         NEW n \in Nat, NEW m \in Nat, n + 1 <= SizeOf(g, a), m + 1 <= SizeOf(g, b)
  PROVE  (a..(a + n - 1)) \cap (b..(b + m - 1)) = {}
<1>1. /\ a \in Nat /\ NEXT_BLKP(g, a) \in Nat /\ SizeOf(g, a) = NEXT_BLKP(g, a) - a
      /\ b \in Nat /\ NEXT_BLKP(g, b) \in Nat /\ SizeOf(g, b) = NEXT_BLKP(g, b) - b
  BY BlockWords
<1>2. (a < b => NEXT_BLKP(g, a) <= b) /\ (b < a => NEXT_BLKP(g, b) <= a)
  BY DEF Tiled
<1>. QED
  BY <1>1, <1>2

\* A block obtained is an area the allocator may hand out.
LEMMA ObtainsPromised ==
  ASSUME NEW B, Whole(heap, B), Owners(heap, B, owned), NEW u \in Users, NEW n \in Nat, n >= 1,
         NEW a, Obtains(heap, B, owned, heap', owned', u, a, n)
  PROVE  Promise!Obtain(u)
<1>1. PICK h : h = heap
  OBVIOUS
<1>2. PICK o : o = owned
  OBVIOUS
<1>3. PICK g : g = heap'
  OBVIOUS
<1>4. PICK p : p = owned'
  OBVIOUS
<1> DEFINE V == UsedOf(h, B) \ {o[u].first}
<1>5. Whole(h, B) /\ Owners(h, B, o) /\ Obtains(h, B, o, g, p, u, a, n)
  BY <1>1, <1>2, <1>3, <1>4
<1>6. PICK C : /\ Whole(g, C) /\ UsedOf(g, C) = V \cup {a} /\ a \notin V /\ Kept(h, g, V) /\ SizeOf(g, a) >= n + 1
               /\ p = [o EXCEPT ![u] = [first |-> a, length |-> n]]
               /\ \A v \in 0..(2 * o[u].length - 1) : v < 2 * n => g.mem[2 * a + v] = h.mem[2 * o[u].first + v]
  BY <1>5 DEF Obtains
<1>7. o \in [Users -> [first : Nat, length : Nat]]
  BY <1>5 DEF Owners
<1>8. p[u] = [first |-> a, length |-> n] /\ \A v \in Users : v # u => p[v] = o[v]
  BY <1>6, <1>7
<1>9. p = [o EXCEPT ![u] = p[u]]
  BY <1>6, <1>8
<1>10. p[u].first = a /\ p[u].length = n
  BY <1>8
<1>11. Tiled(g, C) /\ a \in C /\ a \in 2..Limit /\ SizeOf(g, a) \in Nat
  <2>1. Tiled(g, C) /\ a \in C
    BY <1>6 DEF UsedOf, Whole
  <2>2. a \in Nat /\ a >= 2 /\ a + 2 <= NEXT_BLKP(g, a) /\ NEXT_BLKP(g, a) \in Nat
        /\ NEXT_BLKP(g, a) <= g.brk /\ g.brk <= Limit /\ g.brk \in Nat /\ Limit \in Nat /\ SizeOf(g, a) \in Nat
    BY <2>1, BlockWords
  <2>. QED BY <2>1, <2>2
<1>12. ASSUME NEW v \in Users \ {u}
       PROVE  (a..(a + n - 1)) \cap (o[v].first..(o[v].first + o[v].length - 1)) = {}
  <2>1. PICK b : b = o[v].first
    OBVIOUS
  <2>2. PICK m : m = o[v].length
    OBVIOUS
  <2>3. b \in Nat /\ m \in Nat
    BY <1>5, <2>1, <2>2, NullOwns
  <2>4. \/ b = Null /\ m = 0
        \/ b \in UsedOf(h, B) /\ m + 1 <= SizeOf(h, b)
    BY <1>5, <2>1, <2>2 DEF Owners
  <2>5. CASE b = Null /\ m = 0
    <3>1. b..(b + m - 1) = {}
      BY <2>3, <2>5
    <3>. QED BY <2>1, <2>2, <3>1
  <2>6. CASE b \in UsedOf(h, B) /\ m + 1 <= SizeOf(h, b)
    <3>1. b # Null
      BY <1>5, <2>6, NullOwns
    <3>2. b \in V /\ SizeOf(g, b) = SizeOf(h, b)
      BY <1>5, <1>6, <2>1, <3>1, OthersApart
    <3>3. b \in C /\ b # a
      BY <1>6, <3>2 DEF UsedOf
    <3>4. m + 1 <= SizeOf(g, b) /\ n + 1 <= SizeOf(g, a)
      BY <1>6, <1>11, <2>6, <3>2
    <3>5. (a..(a + n - 1)) \cap (b..(b + m - 1)) = {}
      BY <1>11, <2>3, <3>3, <3>4, AreasApart
    <3>. QED BY <2>1, <2>2, <3>5
  <2>. QED BY <2>4, <2>5, <2>6
<1>13. ASSUME NEW v \in Users \ {u}
       PROVE  Held(g, p, v) = Held(h, o, v)
  <2>1. v \in Users /\ v # u /\ p[v] = o[v]
    BY <1>8
  <2>2. Unmoved(h, B, o, u, g, p, v)
    BY <1>5, <1>6, <2>1 DEF Unmoved
  <2>. QED BY <2>2, OthersHold
<1>14. ASSUME NEW i \in 0..(o[u].length - 1), i < n
       PROVE  Held(g, p, u)[i] = Held(h, o, u)[i]
  <2>1. PICK b : b = o[u].first
    OBVIOUS
  <2>2. PICK m : m = o[u].length
    OBVIOUS
  <2>3. b \in Nat /\ m \in Nat /\ i \in 0..(m - 1)
    BY <1>5, <1>14, <2>1, <2>2, NullOwns
  <2>4. Held(h, o, u)[i] = <<h.mem[2 * (b + i)], h.mem[2 * (b + i) + 1]>>
    BY <2>1, <2>2, <2>3 DEF Held
  <2>5. Held(g, p, u)[i] = <<g.mem[2 * (a + i)], g.mem[2 * (a + i) + 1]>>
    <3>1. i \in 0..(n - 1)
      BY <1>14, <2>3
    <3>. QED BY <1>10, <3>1 DEF Held
  <2>6. /\ 2 * i \in 0..(2 * m - 1) /\ 2 * i + 1 \in 0..(2 * m - 1) /\ 2 * i < 2 * n /\ 2 * i + 1 < 2 * n
        /\ 2 * (b + i) = 2 * b + 2 * i /\ 2 * (b + i) + 1 = 2 * b + (2 * i + 1)
        /\ 2 * (a + i) = 2 * a + 2 * i /\ 2 * (a + i) + 1 = 2 * a + (2 * i + 1)
    BY <1>11, <1>14, <2>3
  <2>7. \A v \in 0..(2 * m - 1) : v < 2 * n => g.mem[2 * a + v] = h.mem[2 * b + v]
    BY <1>6, <2>1, <2>2
  <2>8. g.mem[2 * a + 2 * i] = h.mem[2 * b + 2 * i]
    BY <2>6, <2>7
  <2>9. g.mem[2 * a + (2 * i + 1)] = h.mem[2 * b + (2 * i + 1)]
    BY <2>6, <2>7
  <2>. QED BY <2>4, <2>5, <2>6, <2>8, <2>9
<1>15. Promise!Separate(p[u], u)
  BY <1>2, <1>10, <1>12 DEF Promise!Separate, Promise!Covers
<1>16. Promise!OthersKeep(u)
  BY <1>1, <1>2, <1>3, <1>4, <1>13 DEF Promise!OthersKeep, Held
<1>17. p[u].first \in 2..Limit /\ p[u].length > 0
  BY <1>10, <1>11
<1>18. owned'[u].first \in 2..Limit /\ owned'[u].length > 0 /\ owned' = [owned EXCEPT ![u] = owned'[u]]
       /\ Promise!Separate(owned'[u], u)
  BY <1>2, <1>4, <1>9, <1>15, <1>17
<1>19. \A i \in 0..(owned[u].length - 1) : i < owned'[u].length => Held(heap', owned', u)[i] = Held(heap, owned, u)[i]
  BY <1>1, <1>2, <1>3, <1>4, <1>10, <1>14
<1> HIDE DEF V
<1>. QED
  BY <1>16, <1>18, <1>19 DEF Promise!Obtain, Held

\* A block released is an area given up.
LEMMA ReleasesPromised ==
  ASSUME NEW B, Whole(heap, B), Owners(heap, B, owned), NEW u \in Users, owned[u].first # Null,
         Releases(heap, B, owned, heap', owned', u)
  PROVE  Promise!Release(u)
<1>1. PICK h : h = heap
  OBVIOUS
<1>2. PICK o : o = owned
  OBVIOUS
<1>3. PICK g : g = heap'
  OBVIOUS
<1>4. PICK p : p = owned'
  OBVIOUS
<1>5. Whole(h, B) /\ Owners(h, B, o) /\ Releases(h, B, o, g, p, u)
  BY <1>1, <1>2, <1>3, <1>4
<1>6. /\ Kept(h, g, UsedOf(h, B) \ {o[u].first})
      /\ p = [o EXCEPT ![u] = [first |-> Null, length |-> 0]]
  BY <1>5 DEF Releases
<1>7. o \in [Users -> [first : Nat, length : Nat]]
  BY <1>5 DEF Owners
<1>8. \A v \in Users : v # u => p[v] = o[v]
  BY <1>6, <1>7
<1>9. o[u].length > 0
  <2>1. o[u].length >= 1 /\ o[u].length \in Nat
    BY <1>2, <1>5 DEF Owners
  <2>. QED BY <2>1
<1>10. ASSUME NEW v \in Users \ {u}
       PROVE  Held(g, p, v) = Held(h, o, v)
  <2>1. v \in Users /\ v # u /\ p[v] = o[v]
    BY <1>8
  <2>2. Unmoved(h, B, o, u, g, p, v)
    BY <1>5, <1>6, <2>1 DEF Unmoved
  <2>. QED BY <2>2, OthersHold
<1>11. Promise!OthersKeep(u)
  BY <1>1, <1>2, <1>3, <1>4, <1>10 DEF Promise!OthersKeep, Held
<1>. QED
  BY <1>2, <1>4, <1>6, <1>9, <1>11 DEF Promise!Release, Promise!Owns, Promise!NoArea, Null

\* The allocator implements its promise: areas apart, what is in an area changed
\* by its owner only, and carried along by realloc, whichever way it finds room.
THEOREM AllocatorImplemented == Spec => ImplementsAllocator
<1>1. Init => Promise!Init
  <2>1. SUFFICES ASSUME Init PROVE Promise!Init
    OBVIOUS
  <2>2. owned = [u \in Users |-> [first |-> 0, length |-> 0]]
    BY <2>1 DEF Init, Null
  <2>3. \A u \in Users : Held(heap, owned, u) = <<>>
    <3>1. SUFFICES ASSUME NEW u \in Users PROVE Held(heap, owned, u) = <<>>
      OBVIOUS
    <3>2. owned[u].length = 0
      BY <2>2
    <3>3. 0..(owned[u].length - 1) = {}
      BY <3>2
    <3>. QED BY <3>3 DEF Held
  <2>. QED BY <2>2, <2>3 DEF Promise!Init, Promise!NoArea, Held
<1>2. WellOwned /\ [Next]_vars => Promise!Next \/ UNCHANGED vars
  <2>1. SUFFICES ASSUME WellOwned, [Next]_vars PROVE Promise!Next \/ UNCHANGED vars
    OBVIOUS
  <2>2. PICK B : Whole(heap, B) /\ Owners(heap, B, owned)
    BY <2>1 DEF WellOwned
  <2>3. ASSUME NEW u \in Users, NEW n \in Requests, NEW a, Obtains(heap, B, owned, heap', owned', u, a, n)
        PROVE  Promise!Next
    <3>1. n \in Nat /\ n >= 1
      BY SizeAssumption
    <3>2. Promise!Obtain(u)
      BY <2>2, <2>3, <3>1, ObtainsPromised
    <3>. QED BY <3>2 DEF Promise!Next
  <2>4. ASSUME NEW u \in Users, owned[u].first # Null, Releases(heap, B, owned, heap', owned', u)
        PROVE  Promise!Next
    <3>1. Promise!Release(u)
      BY <2>2, <2>4, ReleasesPromised
    <3>. QED BY <3>1 DEF Promise!Next
  <2>. QED BY <2>1, <2>2, <2>3, <2>4, StepIs
<1>3. WellOwned /\ [Next]_vars => [Promise!Next]_Promise!vars
  <2>1. UNCHANGED vars => UNCHANGED <<heap, owned>>
    BY DEF vars
  <2>. QED BY <1>2, <2>1 DEF Promise!vars
<1>. QED
  BY <1>1, <1>3, BlocksAreOwned, PTL DEF Spec, ImplementsAllocator, Promise!Spec
=============================================================================
