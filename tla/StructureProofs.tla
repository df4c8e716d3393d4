-------------------------- MODULE StructureProofs ---------------------------
(***************************************************************************)
(* The bytes, masks and lookup tables of eOS's ready bitmap implement the  *)
(* bitmap of sets.  The ring of the array deque and the circle of the list *)
(* deque implement a sequence, for every initial capacity of two cells or  *)
(* more, all items and any number of them.  The hash table, with either    *)
(* probing, implements a map, for all keys and values and any number of    *)
(* them.                                                                   *)
(* The three graph algorithms compute what they promise, on every graph    *)
(* without negative weights: dijkstra_shortest_path the lightest walks and *)
(* the way back along them, prim_minimum_spanning_tree a lightest spanning *)
(* tree, or none where there is none, and topological_sort all vertices    *)
(* behind no cycle, in an order that the edges allow.                      *)
(***************************************************************************)
EXTENDS Containers, ReadyBitmap, FiniteSetTheorems, SequenceTheorems, WellFoundedInduction, TLAPS

-----------------------------------------------------------------------------
(* The bytes and lookup tables of the bitmap *)

\* The value of eight binary digits.
Weight(c) == c[0] + 2 * c[1] + 4 * c[2] + 8 * c[3] + 16 * c[4] + 32 * c[5] + 64 * c[6] + 128 * c[7]
Digits == [Byte -> {0, 1}]

\* The entries of _os_map_table.
LEMMA Masks ==
  /\ BM!Map(0) = 1 /\ BM!Map(1) = 2 /\ BM!Map(2) = 4 /\ BM!Map(3) = 8
  /\ BM!Map(4) = 16 /\ BM!Map(5) = 32 /\ BM!Map(6) = 64 /\ BM!Map(7) = 128
  BY DEF BM!Map, BM!_os_map_table

\* A byte has the digits it is put together from,
LEMMA Encode ==
  ASSUME NEW c \in Digits
  PROVE  /\ Weight(c) \in 0..255
         /\ \A i \in Byte : (Weight(c) \div BM!Map(i)) % 2 = c[i]
<1>1. /\ c[0] \in {0, 1} /\ c[1] \in {0, 1} /\ c[2] \in {0, 1} /\ c[3] \in {0, 1}
      /\ c[4] \in {0, 1} /\ c[5] \in {0, 1} /\ c[6] \in {0, 1} /\ c[7] \in {0, 1}
  BY DEF Digits, Byte
<1>2. PICK c0, c1, c2, c3, c4, c5, c6, c7 :
        /\ c0 = c[0] /\ c1 = c[1] /\ c2 = c[2] /\ c3 = c[3]
        /\ c4 = c[4] /\ c5 = c[5] /\ c6 = c[6] /\ c7 = c[7]
  OBVIOUS
<1>3. PICK b : b = Weight(c)
  OBVIOUS
<1>4. /\ b \in 0..255 /\ (b \div 1) % 2 = c0 /\ (b \div 2) % 2 = c1
      /\ (b \div 4) % 2 = c2 /\ (b \div 8) % 2 = c3 /\ (b \div 16) % 2 = c4
      /\ (b \div 32) % 2 = c5 /\ (b \div 64) % 2 = c6 /\ (b \div 128) % 2 = c7
  <2>1. b = c0 + 2 * c1 + 4 * c2 + 8 * c3 + 16 * c4 + 32 * c5 + 64 * c6 + 128 * c7
    BY <1>2, <1>3 DEF Weight
  <2>2. /\ c0 \in {0, 1} /\ c1 \in {0, 1} /\ c2 \in {0, 1} /\ c3 \in {0, 1}
        /\ c4 \in {0, 1} /\ c5 \in {0, 1} /\ c6 \in {0, 1} /\ c7 \in {0, 1}
    BY <1>1, <1>2
  <2>. QED BY <2>1, <2>2
<1>5. \A i \in Byte : i = 0 \/ i = 1 \/ i = 2 \/ i = 3 \/ i = 4 \/ i = 5 \/ i = 6 \/ i = 7
  BY DEF Byte
<1>. QED
  BY <1>2, <1>3, <1>4, <1>5, Masks

DigitsOf(b) == [i \in Byte |-> (b \div BM!Map(i)) % 2]

\* and is put together from its digits.
LEMMA Decode ==
  ASSUME NEW b \in 0..255
  PROVE  DigitsOf(b) \in Digits /\ b = Weight(DigitsOf(b))
<1>1. \A i \in Byte : i = 0 \/ i = 1 \/ i = 2 \/ i = 3 \/ i = 4 \/ i = 5 \/ i = 6 \/ i = 7
  BY DEF Byte
<1>2. \A i \in Byte : (b \div BM!Map(i)) % 2 \in {0, 1}
  BY <1>1, Masks
<1>3. b = ((b \div 1) % 2) + 2 * ((b \div 2) % 2) + 4 * ((b \div 4) % 2) + 8 * ((b \div 8) % 2)
          + 16 * ((b \div 16) % 2) + 32 * ((b \div 32) % 2) + 64 * ((b \div 64) % 2)
          + 128 * ((b \div 128) % 2)
  OBVIOUS
<1>4. /\ DigitsOf(b)[0] = (b \div 1) % 2 /\ DigitsOf(b)[1] = (b \div 2) % 2
      /\ DigitsOf(b)[2] = (b \div 4) % 2 /\ DigitsOf(b)[3] = (b \div 8) % 2
      /\ DigitsOf(b)[4] = (b \div 16) % 2 /\ DigitsOf(b)[5] = (b \div 32) % 2
      /\ DigitsOf(b)[6] = (b \div 64) % 2 /\ DigitsOf(b)[7] = (b \div 128) % 2
  BY Masks DEF DigitsOf, Byte
<1>. QED
  BY <1>2, <1>3, <1>4 DEF Digits, DigitsOf, Weight

LEMMA BitOfByte ==
  ASSUME NEW b, NEW i \in Byte
  PROVE  i \in BM!BitsOf(b) <=> (b \div BM!Map(i)) % 2 = 1
<1>1. i = 0 \/ i = 1 \/ i = 2 \/ i = 3 \/ i = 4 \/ i = 5 \/ i = 6 \/ i = 7
  BY DEF Byte
<1>2. 2^i = BM!Map(i)
  <2>1. CASE i = 0  BY <2>1, Masks
  <2>2. CASE i = 1  BY <2>2, Masks
  <2>3. CASE i = 2  BY <2>3, Masks
  <2>4. CASE i = 3  BY <2>4, Masks
  <2>5. CASE i = 4  BY <2>5, Masks
  <2>6. CASE i = 5  BY <2>6, Masks
  <2>7. CASE i = 6  BY <2>7, Masks
  <2>8. CASE i = 7  BY <2>8, Masks
  <2>. QED BY <1>1, <2>1, <2>2, <2>3, <2>4, <2>5, <2>6, <2>7, <2>8
<1>. QED BY <1>2 DEF BM!BitsOf, BM!Bit, Byte

\* Changing one digit adds or takes away the mask of its place.
LEMMA FlipDigit ==
  ASSUME NEW c \in Digits, NEW i \in Byte
  PROVE  /\ [c EXCEPT ![i] = 1 - c[i]] \in Digits
         /\ c[i] = 0 => Weight([c EXCEPT ![i] = 1 - c[i]]) = Weight(c) + BM!Map(i)
         /\ c[i] = 1 => Weight([c EXCEPT ![i] = 1 - c[i]]) = Weight(c) - BM!Map(i)
<1>. DEFINE d == [c EXCEPT ![i] = 1 - c[i]]
<1>1. /\ c[0] \in {0, 1} /\ c[1] \in {0, 1} /\ c[2] \in {0, 1} /\ c[3] \in {0, 1}
      /\ c[4] \in {0, 1} /\ c[5] \in {0, 1} /\ c[6] \in {0, 1} /\ c[7] \in {0, 1}
  BY DEF Digits, Byte
<1>2. d \in Digits /\ \A j \in Byte : d[j] = IF j = i THEN 1 - c[i] ELSE c[j]
  BY DEF Digits
<1>. HIDE DEF d
<1>3. \A j \in Byte : j = 0 \/ j = 1 \/ j = 2 \/ j = 3 \/ j = 4 \/ j = 5 \/ j = 6 \/ j = 7
  BY DEF Byte
<1>4. /\ d[0] = (IF i = 0 THEN 1 - c[0] ELSE c[0]) /\ d[1] = (IF i = 1 THEN 1 - c[1] ELSE c[1])
      /\ d[2] = (IF i = 2 THEN 1 - c[2] ELSE c[2]) /\ d[3] = (IF i = 3 THEN 1 - c[3] ELSE c[3])
      /\ d[4] = (IF i = 4 THEN 1 - c[4] ELSE c[4]) /\ d[5] = (IF i = 5 THEN 1 - c[5] ELSE c[5])
      /\ d[6] = (IF i = 6 THEN 1 - c[6] ELSE c[6]) /\ d[7] = (IF i = 7 THEN 1 - c[7] ELSE c[7])
  BY <1>2 DEF Byte
<1>5. PICK m : m = BM!Map(i)
  OBVIOUS
<1>6. /\ c[i] = 0 => Weight(d) = Weight(c) + m
      /\ c[i] = 1 => Weight(d) = Weight(c) - m
  <2>1. CASE i = 0
    <3>1. m = 1 /\ (c[i] = 0 <=> c[0] = 0) /\ (c[i] = 1 <=> c[0] = 1)
      BY <1>5, <2>1, Masks
    <3>2. /\ d[0] = 1 - c[0]
          /\ d[1] = c[1] /\ d[2] = c[2] /\ d[3] = c[3] /\ d[4] = c[4] /\ d[5] = c[5] /\ d[6] = c[6] /\ d[7] = c[7]
      BY <1>4, <2>1
    <3>. QED BY <1>1, <3>1, <3>2 DEF Weight
  <2>2. CASE i = 1
    <3>1. m = 2 /\ (c[i] = 0 <=> c[1] = 0) /\ (c[i] = 1 <=> c[1] = 1)
      BY <1>5, <2>2, Masks
    <3>2. /\ d[1] = 1 - c[1]
          /\ d[0] = c[0] /\ d[2] = c[2] /\ d[3] = c[3] /\ d[4] = c[4] /\ d[5] = c[5] /\ d[6] = c[6] /\ d[7] = c[7]
      BY <1>4, <2>2
    <3>. QED BY <1>1, <3>1, <3>2 DEF Weight
  <2>3. CASE i = 2
    <3>1. m = 4 /\ (c[i] = 0 <=> c[2] = 0) /\ (c[i] = 1 <=> c[2] = 1)
      BY <1>5, <2>3, Masks
    <3>2. /\ d[2] = 1 - c[2]
          /\ d[0] = c[0] /\ d[1] = c[1] /\ d[3] = c[3] /\ d[4] = c[4] /\ d[5] = c[5] /\ d[6] = c[6] /\ d[7] = c[7]
      BY <1>4, <2>3
    <3>. QED BY <1>1, <3>1, <3>2 DEF Weight
  <2>4. CASE i = 3
    <3>1. m = 8 /\ (c[i] = 0 <=> c[3] = 0) /\ (c[i] = 1 <=> c[3] = 1)
      BY <1>5, <2>4, Masks
    <3>2. /\ d[3] = 1 - c[3]
          /\ d[0] = c[0] /\ d[1] = c[1] /\ d[2] = c[2] /\ d[4] = c[4] /\ d[5] = c[5] /\ d[6] = c[6] /\ d[7] = c[7]
      BY <1>4, <2>4
    <3>. QED BY <1>1, <3>1, <3>2 DEF Weight
  <2>5. CASE i = 4
    <3>1. m = 16 /\ (c[i] = 0 <=> c[4] = 0) /\ (c[i] = 1 <=> c[4] = 1)
      BY <1>5, <2>5, Masks
    <3>2. /\ d[4] = 1 - c[4]
          /\ d[0] = c[0] /\ d[1] = c[1] /\ d[2] = c[2] /\ d[3] = c[3] /\ d[5] = c[5] /\ d[6] = c[6] /\ d[7] = c[7]
      BY <1>4, <2>5
    <3>. QED BY <1>1, <3>1, <3>2 DEF Weight
  <2>6. CASE i = 5
    <3>1. m = 32 /\ (c[i] = 0 <=> c[5] = 0) /\ (c[i] = 1 <=> c[5] = 1)
      BY <1>5, <2>6, Masks
    <3>2. /\ d[5] = 1 - c[5]
          /\ d[0] = c[0] /\ d[1] = c[1] /\ d[2] = c[2] /\ d[3] = c[3] /\ d[4] = c[4] /\ d[6] = c[6] /\ d[7] = c[7]
      BY <1>4, <2>6
    <3>. QED BY <1>1, <3>1, <3>2 DEF Weight
  <2>7. CASE i = 6
    <3>1. m = 64 /\ (c[i] = 0 <=> c[6] = 0) /\ (c[i] = 1 <=> c[6] = 1)
      BY <1>5, <2>7, Masks
    <3>2. /\ d[6] = 1 - c[6]
          /\ d[0] = c[0] /\ d[1] = c[1] /\ d[2] = c[2] /\ d[3] = c[3] /\ d[4] = c[4] /\ d[5] = c[5] /\ d[7] = c[7]
      BY <1>4, <2>7
    <3>. QED BY <1>1, <3>1, <3>2 DEF Weight
  <2>8. CASE i = 7
    <3>1. m = 128 /\ (c[i] = 0 <=> c[7] = 0) /\ (c[i] = 1 <=> c[7] = 1)
      BY <1>5, <2>8, Masks
    <3>2. /\ d[7] = 1 - c[7]
          /\ d[0] = c[0] /\ d[1] = c[1] /\ d[2] = c[2] /\ d[3] = c[3] /\ d[4] = c[4] /\ d[5] = c[5] /\ d[6] = c[6]
      BY <1>4, <2>8
    <3>. QED BY <1>1, <3>1, <3>2 DEF Weight
  <2>. QED BY <1>3, <2>1, <2>2, <2>3, <2>4, <2>5, <2>6, <2>7, <2>8
<1>. QED BY <1>2, <1>5, <1>6 DEF d

\* A byte, with the bit of a mask set and with it cleared.
LEMMA OneBitChanges ==
  ASSUME NEW b \in 0..255, NEW i \in Byte
  PROVE  /\ BM!Or(b, BM!Map(i)) \in 0..255 /\ BM!AndNot(b, BM!Map(i)) \in 0..255
         /\ BM!BitsOf(BM!Or(b, BM!Map(i))) = BM!BitsOf(b) \cup {i}
         /\ BM!BitsOf(BM!AndNot(b, BM!Map(i))) = BM!BitsOf(b) \ {i}
<1>. DEFINE c == DigitsOf(b)
            d == [c EXCEPT ![i] = 1 - c[i]]
<1>1. c \in Digits /\ b = Weight(c) /\ \A j \in Byte : c[j] = (b \div BM!Map(j)) % 2
  BY Decode DEF DigitsOf
<1>2. /\ d \in Digits
      /\ c[i] = 0 => Weight(d) = b + BM!Map(i)
      /\ c[i] = 1 => Weight(d) = b - BM!Map(i)
      /\ \A j \in Byte : d[j] = IF j = i THEN 1 - c[i] ELSE c[j]
  BY <1>1, FlipDigit DEF Digits
<1>. HIDE DEF c, d
<1>3. PICK w : w = Weight(d)
  OBVIOUS
<1>4. w \in 0..255 /\ \A j \in Byte : j \in BM!BitsOf(w) <=> d[j] = 1
  BY <1>2, <1>3, Encode, BitOfByte
<1>5. \A j \in Byte : (j \in BM!BitsOf(b) <=> c[j] = 1) /\ c[j] \in {0, 1}
  BY <1>1, BitOfByte DEF Digits
<1>6. \A x : BM!BitsOf(x) \subseteq Byte
  BY DEF BM!BitsOf, Byte
<1>7. CASE c[i] = 0
  <2>1. BM!Or(b, BM!Map(i)) = w /\ BM!AndNot(b, BM!Map(i)) = b
    BY <1>1, <1>2, <1>3, <1>7 DEF BM!Or, BM!AndNot
  <2>2. BM!BitsOf(w) = BM!BitsOf(b) \cup {i} /\ BM!BitsOf(b) = BM!BitsOf(b) \ {i}
    BY <1>2, <1>4, <1>5, <1>6, <1>7
  <2>. QED BY <1>4, <2>1, <2>2
<1>8. CASE c[i] = 1
  <2>1. BM!Or(b, BM!Map(i)) = b /\ BM!AndNot(b, BM!Map(i)) = w
    BY <1>1, <1>2, <1>3, <1>8 DEF BM!Or, BM!AndNot
  <2>2. BM!BitsOf(w) = BM!BitsOf(b) \ {i} /\ BM!BitsOf(b) = BM!BitsOf(b) \cup {i}
    BY <1>2, <1>4, <1>5, <1>6, <1>8
  <2>. QED BY <1>4, <2>1, <2>2
<1>. QED BY <1>5, <1>7, <1>8

\* A byte is 0 when it has no bit set.
LEMMA NoBits ==
  ASSUME NEW b \in 0..255
  PROVE  BM!BitsOf(b) = {} <=> b = 0
<1>1. \A j \in Byte : j \in BM!BitsOf(b) <=> DigitsOf(b)[j] = 1
  BY BitOfByte DEF DigitsOf
<1>2. /\ 0 \in Byte /\ 1 \in Byte /\ 2 \in Byte /\ 3 \in Byte
      /\ 4 \in Byte /\ 5 \in Byte /\ 6 \in Byte /\ 7 \in Byte
  BY DEF Byte
<1>3. ASSUME BM!BitsOf(b) = {} PROVE b = 0
  <2>1. \A j \in Byte : DigitsOf(b)[j] = 0
    BY <1>1, <1>3, Decode DEF Digits
  <2>2. /\ DigitsOf(b)[0] = 0 /\ DigitsOf(b)[1] = 0 /\ DigitsOf(b)[2] = 0 /\ DigitsOf(b)[3] = 0
        /\ DigitsOf(b)[4] = 0 /\ DigitsOf(b)[5] = 0 /\ DigitsOf(b)[6] = 0 /\ DigitsOf(b)[7] = 0
    BY <2>1, <1>2
  <2>3. Weight(DigitsOf(b)) = 0
    BY <2>2 DEF Weight
  <2>. QED BY <2>3, Decode
<1>4. ASSUME b = 0 PROVE BM!BitsOf(b) = {}
  <2>1. SUFFICES ASSUME NEW j \in Byte PROVE (0 \div BM!Map(j)) % 2 = 0
    BY <1>4, BitOfByte DEF BM!BitsOf, Byte
  <2>2. BM!Map(j) \in Nat \ {0}
    BY Masks DEF Byte
  <2>. QED BY <2>2
<1>. QED BY <1>3, <1>4

\* b has bit e, and no lower one.
Lowest(b, e) ==
  /\ e \in 0..7 /\ (b \div BM!Map(e)) % 2 = 1
  /\ \A j \in Byte : j < e => (b \div BM!Map(j)) % 2 = 0

\* The entries of the table that are not at the start of a row, and those that are.
LEMMA ColumnLowest ==
  ASSUME NEW h \in 0..15, NEW l \in 1..15
  PROVE  Lowest(16 * h + l, BM!OtherEntries[l])
<1>1. l = 1 \/ l = 2 \/ l = 3 \/ l = 4 \/ l = 5 \/ l = 6 \/ l = 7 \/ l = 8 \/ l = 9 \/ l = 10 \/ l = 11 \/ l = 12 \/ l = 13 \/ l = 14 \/ l = 15
  OBVIOUS
<1>2. CASE l = 1
  <2>1. BM!OtherEntries[l] = 0
    BY <1>2 DEF BM!OtherEntries
  <2>. QED BY <1>2, <2>1, Masks DEF Lowest, Byte
<1>3. CASE l = 2
  <2>1. BM!OtherEntries[l] = 1
    BY <1>3 DEF BM!OtherEntries
  <2>. QED BY <1>3, <2>1, Masks DEF Lowest, Byte
<1>4. CASE l = 3
  <2>1. BM!OtherEntries[l] = 0
    BY <1>4 DEF BM!OtherEntries
  <2>. QED BY <1>4, <2>1, Masks DEF Lowest, Byte
<1>5. CASE l = 4
  <2>1. BM!OtherEntries[l] = 2
    BY <1>5 DEF BM!OtherEntries
  <2>. QED BY <1>5, <2>1, Masks DEF Lowest, Byte
<1>6. CASE l = 5
  <2>1. BM!OtherEntries[l] = 0
    BY <1>6 DEF BM!OtherEntries
  <2>. QED BY <1>6, <2>1, Masks DEF Lowest, Byte
<1>7. CASE l = 6
  <2>1. BM!OtherEntries[l] = 1
    BY <1>7 DEF BM!OtherEntries
  <2>. QED BY <1>7, <2>1, Masks DEF Lowest, Byte
<1>8. CASE l = 7
  <2>1. BM!OtherEntries[l] = 0
    BY <1>8 DEF BM!OtherEntries
  <2>. QED BY <1>8, <2>1, Masks DEF Lowest, Byte
<1>9. CASE l = 8
  <2>1. BM!OtherEntries[l] = 3
    BY <1>9 DEF BM!OtherEntries
  <2>. QED BY <1>9, <2>1, Masks DEF Lowest, Byte
<1>10. CASE l = 9
  <2>1. BM!OtherEntries[l] = 0
    BY <1>10 DEF BM!OtherEntries
  <2>. QED BY <1>10, <2>1, Masks DEF Lowest, Byte
<1>11. CASE l = 10
  <2>1. BM!OtherEntries[l] = 1
    BY <1>11 DEF BM!OtherEntries
  <2>. QED BY <1>11, <2>1, Masks DEF Lowest, Byte
<1>12. CASE l = 11
  <2>1. BM!OtherEntries[l] = 0
    BY <1>12 DEF BM!OtherEntries
  <2>. QED BY <1>12, <2>1, Masks DEF Lowest, Byte
<1>13. CASE l = 12
  <2>1. BM!OtherEntries[l] = 2
    BY <1>13 DEF BM!OtherEntries
  <2>. QED BY <1>13, <2>1, Masks DEF Lowest, Byte
<1>14. CASE l = 13
  <2>1. BM!OtherEntries[l] = 0
    BY <1>14 DEF BM!OtherEntries
  <2>. QED BY <1>14, <2>1, Masks DEF Lowest, Byte
<1>15. CASE l = 14
  <2>1. BM!OtherEntries[l] = 1
    BY <1>15 DEF BM!OtherEntries
  <2>. QED BY <1>15, <2>1, Masks DEF Lowest, Byte
<1>16. CASE l = 15
  <2>1. BM!OtherEntries[l] = 0
    BY <1>16 DEF BM!OtherEntries
  <2>. QED BY <1>16, <2>1, Masks DEF Lowest, Byte
<1>. QED
  BY <1>1, <1>2, <1>3, <1>4, <1>5, <1>6, <1>7, <1>8, <1>9, <1>10, <1>11, <1>12, <1>13, <1>14, <1>15, <1>16

LEMMA RowLowest ==
  ASSUME NEW h \in 1..15
  PROVE  Lowest(16 * h, BM!FirstEntries[h + 1])
<1>1. h = 1 \/ h = 2 \/ h = 3 \/ h = 4 \/ h = 5 \/ h = 6 \/ h = 7 \/ h = 8 \/ h = 9 \/ h = 10 \/ h = 11 \/ h = 12 \/ h = 13 \/ h = 14 \/ h = 15
  OBVIOUS
<1>2. CASE h = 1
  <2>1. BM!FirstEntries[h + 1] = 4
    BY <1>2 DEF BM!FirstEntries
  <2>. QED BY <1>2, <2>1, Masks DEF Lowest, Byte
<1>3. CASE h = 2
  <2>1. BM!FirstEntries[h + 1] = 5
    BY <1>3 DEF BM!FirstEntries
  <2>. QED BY <1>3, <2>1, Masks DEF Lowest, Byte
<1>4. CASE h = 3
  <2>1. BM!FirstEntries[h + 1] = 4
    BY <1>4 DEF BM!FirstEntries
  <2>. QED BY <1>4, <2>1, Masks DEF Lowest, Byte
<1>5. CASE h = 4
  <2>1. BM!FirstEntries[h + 1] = 6
    BY <1>5 DEF BM!FirstEntries
  <2>. QED BY <1>5, <2>1, Masks DEF Lowest, Byte
<1>6. CASE h = 5
  <2>1. BM!FirstEntries[h + 1] = 4
    BY <1>6 DEF BM!FirstEntries
  <2>. QED BY <1>6, <2>1, Masks DEF Lowest, Byte
<1>7. CASE h = 6
  <2>1. BM!FirstEntries[h + 1] = 5
    BY <1>7 DEF BM!FirstEntries
  <2>. QED BY <1>7, <2>1, Masks DEF Lowest, Byte
<1>8. CASE h = 7
  <2>1. BM!FirstEntries[h + 1] = 4
    BY <1>8 DEF BM!FirstEntries
  <2>. QED BY <1>8, <2>1, Masks DEF Lowest, Byte
<1>9. CASE h = 8
  <2>1. BM!FirstEntries[h + 1] = 7
    BY <1>9 DEF BM!FirstEntries
  <2>. QED BY <1>9, <2>1, Masks DEF Lowest, Byte
<1>10. CASE h = 9
  <2>1. BM!FirstEntries[h + 1] = 4
    BY <1>10 DEF BM!FirstEntries
  <2>. QED BY <1>10, <2>1, Masks DEF Lowest, Byte
<1>11. CASE h = 10
  <2>1. BM!FirstEntries[h + 1] = 5
    BY <1>11 DEF BM!FirstEntries
  <2>. QED BY <1>11, <2>1, Masks DEF Lowest, Byte
<1>12. CASE h = 11
  <2>1. BM!FirstEntries[h + 1] = 4
    BY <1>12 DEF BM!FirstEntries
  <2>. QED BY <1>12, <2>1, Masks DEF Lowest, Byte
<1>13. CASE h = 12
  <2>1. BM!FirstEntries[h + 1] = 6
    BY <1>13 DEF BM!FirstEntries
  <2>. QED BY <1>13, <2>1, Masks DEF Lowest, Byte
<1>14. CASE h = 13
  <2>1. BM!FirstEntries[h + 1] = 4
    BY <1>14 DEF BM!FirstEntries
  <2>. QED BY <1>14, <2>1, Masks DEF Lowest, Byte
<1>15. CASE h = 14
  <2>1. BM!FirstEntries[h + 1] = 5
    BY <1>15 DEF BM!FirstEntries
  <2>. QED BY <1>15, <2>1, Masks DEF Lowest, Byte
<1>16. CASE h = 15
  <2>1. BM!FirstEntries[h + 1] = 4
    BY <1>16 DEF BM!FirstEntries
  <2>. QED BY <1>16, <2>1, Masks DEF Lowest, Byte
<1>. QED
  BY <1>1, <1>2, <1>3, <1>4, <1>5, <1>6, <1>7, <1>8, <1>9, <1>10, <1>11, <1>12, <1>13, <1>14, <1>15, <1>16

\* _os_unmap_table holds the lowest bit of every byte that is not 0.
LEMMA UnmapIsLowest ==
  ASSUME NEW b \in 1..255
  PROVE  /\ BM!UnmapEntry(b) = Unmap(BM!BitsOf(b)) /\ BM!UnmapEntry(b) \in Byte
         /\ BM!UnmapEntry(b) \in BM!BitsOf(b)
<1>1. PICK h \in 0..15, l \in 0..15 : b = 16 * h + l /\ h = b \div 16 /\ l = b % 16
  OBVIOUS
<1>2. BM!UnmapEntry(b) = IF l = 0 THEN BM!FirstEntries[h + 1] ELSE BM!OtherEntries[l]
  <2>1. b + 1 \in 1..256 /\ (b + 1) - 1 = b
    OBVIOUS
  <2>. QED BY <1>1, <2>1 DEF BM!UnmapEntry, BM!_os_unmap_table
<1>3. Lowest(b, BM!UnmapEntry(b))
  <2>1. CASE l = 0
    <3>1. h \in 1..15 /\ b = 16 * h
      BY <1>1, <2>1
    <3>. QED BY <1>2, <2>1, <3>1, RowLowest
  <2>2. CASE l # 0
    <3>1. l \in 1..15
      BY <2>2
    <3>. QED BY <1>1, <1>2, <2>2, <3>1, ColumnLowest
  <2>. QED BY <2>1, <2>2
<1>4. PICK e : e = BM!UnmapEntry(b)
  OBVIOUS
<1>5. /\ e \in Byte /\ e \in BM!BitsOf(b)
      /\ \A j \in BM!BitsOf(b) : e <= j /\ j \in Nat
  <2>1. /\ e \in Byte /\ (b \div BM!Map(e)) % 2 = 1
        /\ \A j \in Byte : j < e => (b \div BM!Map(j)) % 2 = 0
    BY <1>3, <1>4 DEF Lowest, Byte
  <2>2. e \in BM!BitsOf(b)
    BY <2>1, BitOfByte
  <2>3. ASSUME NEW j \in BM!BitsOf(b) PROVE e <= j /\ j \in Nat
    <3>1. j \in Byte
      BY DEF BM!BitsOf, Byte
    <3>2. (b \div BM!Map(j)) % 2 = 1
      BY <3>1, BitOfByte
    <3>3. ~(j < e)
      BY <3>1, <3>2, <2>1
    <3>. QED BY <3>1, <3>3, <2>1 DEF Byte
  <2>. QED BY <2>1, <2>2, <2>3
<1>6. ASSUME NEW f \in BM!BitsOf(b), \A j \in BM!BitsOf(b) : f <= j PROVE f = e
  BY <1>5, <1>6
<1>7. Unmap(BM!BitsOf(b)) = e
  BY <1>5, <1>6 DEF Unmap
<1>. QED BY <1>4, <1>5, <1>7

\* The bitmap of sets of bits that the bytes stand for.
BytesAsSets == [group |-> BM!BitsOf(ready_group),
                table |-> [y \in 0..7 |-> BM!BitsOf(ready_table[y])]]

BytesInv ==
  /\ ready_group \in 0..255 /\ ready_table \in [Byte -> 0..255]
  /\ GroupAgrees(BytesAsSets)

LEMMA SameOperators ==
  /\ BM!Bits!Byte = Byte /\ BM!Bits!Priorities = Priorities
  /\ BM!Bits!EmptyBitmap = EmptyBitmap
  /\ \A b : BM!Bits!ReadySet(b) = ReadySet(b) /\ BM!Bits!HighestPriority(b) = HighestPriority(b)
  /\ \A b, p : BM!Bits!SetReady(b, p) = SetReady(b, p) /\ BM!Bits!UnsetReady(b, p) = UnsetReady(b, p)
<1>1. /\ BM!Bits!Byte = Byte /\ BM!Bits!Priorities = Priorities
      /\ \A bits : BM!Bits!Unmap(bits) = Unmap(bits)
  BY DEF BM!Bits!Byte, Byte, BM!Bits!Priorities, Priorities, BM!Bits!Unmap, Unmap
<1>2. \A b : BM!Bits!HighestPriority(b) = HighestPriority(b)
  BY <1>1 DEF BM!Bits!HighestPriority, HighestPriority
<1>3. \A b : BM!Bits!ReadySet(b) = ReadySet(b)
  BY <1>1 DEF BM!Bits!ReadySet, ReadySet
<1>4. \A b, p : /\ BM!Bits!SetReady(b, p) = SetReady(b, p)
                /\ BM!Bits!UnsetReady(b, p) = UnsetReady(b, p)
  BY DEF BM!Bits!SetReady, SetReady, BM!Bits!UnsetReady, UnsetReady
<1>. QED
  BY <1>1, <1>2, <1>3, <1>4 DEF BM!Bits!EmptyBitmap, EmptyBitmap

LEMMA BytesAreSets ==
  ASSUME ready_group \in 0..255, ready_table \in [Byte -> 0..255]
  PROVE  /\ BytesAsSets \in Bitmaps
         /\ BytesAsSets.group = BM!BitsOf(ready_group)
         /\ \A y \in Byte : BytesAsSets.table[y] = BM!BitsOf(ready_table[y])
  BY DEF BytesAsSets, Bitmaps, Byte, BM!BitsOf

\* An operation on the bytes is the same operation on the sets of their bits.
LEMMA SetBytes ==
  ASSUME ready_group \in 0..255, ready_table \in [Byte -> 0..255],
         NEW p \in Priorities, BM!_os_set_ready(p)
  PROVE  /\ ready_group' \in 0..255 /\ ready_table' \in [Byte -> 0..255]
         /\ BytesAsSets' = SetReady(BytesAsSets, p)
<1>1. PICK y \in Byte, x \in Byte : y = p \div 8 /\ x = p % 8
  BY DEF Byte, Priorities
<1>2. /\ ready_group' = BM!Or(ready_group, BM!Map(y))
      /\ ready_table' = [ready_table EXCEPT ![y] = BM!Or(@, BM!Map(x))]
  BY <1>1 DEF BM!_os_set_ready
<1>3. ready_group' \in 0..255 /\ BM!BitsOf(ready_group') = BM!BitsOf(ready_group) \cup {y}
  BY <1>2, OneBitChanges
<1>4. /\ ready_table' \in [Byte -> 0..255]
      /\ \A z \in Byte : BM!BitsOf(ready_table'[z]) =
           IF z = y THEN BM!BitsOf(ready_table[z]) \cup {x} ELSE BM!BitsOf(ready_table[z])
  <2>1. ready_table[y] \in 0..255
    OBVIOUS
  <2>2. /\ BM!Or(ready_table[y], BM!Map(x)) \in 0..255
        /\ BM!BitsOf(BM!Or(ready_table[y], BM!Map(x))) = BM!BitsOf(ready_table[y]) \cup {x}
    BY <2>1, OneBitChanges
  <2>. QED BY <1>2, <2>1, <2>2
<1>5. BytesAsSets' = [group |-> BM!BitsOf(ready_group'),
                      table |-> [z \in 0..7 |-> BM!BitsOf(ready_table'[z])]]
  BY DEF BytesAsSets, BM!BitsOf, BM!Bit
<1>6. SetReady(BytesAsSets, p) =
        [group |-> BM!BitsOf(ready_group) \cup {y},
         table |-> [BytesAsSets.table EXCEPT ![y] = @ \cup {x}]]
  BY <1>1 DEF SetReady, BytesAsSets
<1>7. [z \in 0..7 |-> BM!BitsOf(ready_table'[z])] = [BytesAsSets.table EXCEPT ![y] = @ \cup {x}]
  BY <1>4 DEF BytesAsSets, Byte
<1>. QED BY <1>3, <1>4, <1>5, <1>6, <1>7

LEMMA UnsetBytes ==
  ASSUME ready_group \in 0..255, ready_table \in [Byte -> 0..255],
         NEW p \in Priorities, BM!_os_unset_ready(p)
  PROVE  /\ ready_group' \in 0..255 /\ ready_table' \in [Byte -> 0..255]
         /\ BytesAsSets' = UnsetReady(BytesAsSets, p)
<1>1. PICK y \in Byte, x \in Byte : y = p \div 8 /\ x = p % 8
  BY DEF Byte, Priorities
<1>2. PICK byte : byte = BM!AndNot(ready_table[y], BM!Map(x))
  OBVIOUS
<1>3. /\ ready_table' = [ready_table EXCEPT ![y] = byte]
      /\ ready_group' = IF byte = 0 THEN BM!AndNot(ready_group, BM!Map(y)) ELSE ready_group
  BY <1>1, <1>2 DEF BM!_os_unset_ready
<1>4. /\ byte \in 0..255 /\ BM!BitsOf(byte) = BM!BitsOf(ready_table[y]) \ {x}
      /\ byte = 0 <=> BM!BitsOf(byte) = {}
  <2>1. ready_table[y] \in 0..255
    OBVIOUS
  <2>2. byte \in 0..255 /\ BM!BitsOf(byte) = BM!BitsOf(ready_table[y]) \ {x}
    BY <1>2, <2>1, OneBitChanges
  <2>. QED BY <2>2, NoBits
<1>5. /\ ready_group' \in 0..255
      /\ BM!BitsOf(ready_group') = IF BM!BitsOf(byte) = {} THEN BM!BitsOf(ready_group) \ {y}
                                                        ELSE BM!BitsOf(ready_group)
  BY <1>3, <1>4, OneBitChanges
<1>6. /\ ready_table' \in [Byte -> 0..255]
      /\ \A z \in Byte : BM!BitsOf(ready_table'[z]) =
           IF z = y THEN BM!BitsOf(byte) ELSE BM!BitsOf(ready_table[z])
  BY <1>3, <1>4
<1>7. BytesAsSets' = [group |-> BM!BitsOf(ready_group'),
                      table |-> [z \in 0..7 |-> BM!BitsOf(ready_table'[z])]]
  BY DEF BytesAsSets, BM!BitsOf, BM!Bit
<1>8. UnsetReady(BytesAsSets, p) =
        [group |-> IF BM!BitsOf(byte) = {} THEN BM!BitsOf(ready_group) \ {y}
                                           ELSE BM!BitsOf(ready_group),
         table |-> [BytesAsSets.table EXCEPT ![y] = BM!BitsOf(byte)]]
  <2>1. BytesAsSets.table[y] \ {x} = BM!BitsOf(byte) /\ BytesAsSets.group = BM!BitsOf(ready_group)
    BY <1>4, BytesAreSets
  <2>. QED BY <1>1, <2>1 DEF UnsetReady
<1>9. [z \in 0..7 |-> BM!BitsOf(ready_table'[z])] = [BytesAsSets.table EXCEPT ![y] = BM!BitsOf(byte)]
  BY <1>6 DEF BytesAsSets, Byte
<1>. QED BY <1>5, <1>6, <1>7, <1>8, <1>9

LEMMA HighestBytes ==
  ASSUME BytesInv, BM!_os_get_highest_priority
  PROVE  ReadySet(BytesAsSets) # {} /\ highest' = HighestPriority(BytesAsSets)
<1>1. PICK y \in Byte : ready_table[y] # 0
  BY DEF BM!_os_get_highest_priority, Byte
<1>2. /\ ready_group \in 0..255 /\ \A z \in Byte : ready_table[z] \in 0..255
      /\ \A z \in Byte : BytesAsSets.table[z] = BM!BitsOf(ready_table[z])
      /\ BytesAsSets.group = BM!BitsOf(ready_group)
  BY BytesAreSets DEF BytesInv
<1>3. /\ BM!BitsOf(ready_group) = {z \in Byte : BM!BitsOf(ready_table[z]) # {}}
  BY <1>2 DEF BytesInv, GroupAgrees
<1>4. BM!BitsOf(ready_table[y]) # {} /\ y \in BM!BitsOf(ready_group)
  BY <1>1, <1>2, <1>3, NoBits
<1>5. ready_group \in 1..255
  BY <1>2, <1>4, NoBits
<1>6. PICK u \in Byte : u = BM!UnmapEntry(ready_group) /\ u = Unmap(BM!BitsOf(ready_group))
  BY <1>5, UnmapIsLowest
<1>7. u \in BM!BitsOf(ready_group)
  BY <1>5, <1>6, UnmapIsLowest
<1>8. ready_table[u] \in 1..255
  BY <1>2, <1>3, <1>7, NoBits
<1>9. /\ BM!UnmapEntry(ready_table[u]) = Unmap(BytesAsSets.table[u])
      /\ BM!UnmapEntry(ready_table[u]) \in Byte
  BY <1>2, <1>8, UnmapIsLowest
<1>10. highest' = HighestPriority(BytesAsSets)
  <2>1. highest' = u * 8 + BM!UnmapEntry(ready_table[u])
    BY <1>6 DEF BM!_os_get_highest_priority
  <2>2. HighestPriority(BytesAsSets) = 8 * u + Unmap(BytesAsSets.table[u])
    BY <1>2, <1>6 DEF HighestPriority
  <2>. QED BY <1>6, <1>9, <2>1, <2>2 DEF Byte
<1>11. ReadySet(BytesAsSets) # {}
  <2>1. PICK x \in Byte : x \in BytesAsSets.table[y]
    BY <1>2, <1>4 DEF BM!BitsOf, Byte
  <2>2. 8 * y + x \in Priorities /\ (8 * y + x) % 8 = x /\ (8 * y + x) \div 8 = y
    BY DEF Byte, Priorities
  <2>. QED BY <2>1, <2>2 DEF ReadySet
<1>. QED BY <1>10, <1>11

\* The group byte follows the table when a bit is set and when one is cleared.
LEMMA AgreementKept ==
  ASSUME NEW b \in Bitmaps, NEW p \in Priorities, GroupAgrees(b)
  PROVE  GroupAgrees(SetReady(b, p)) /\ GroupAgrees(UnsetReady(b, p))
<1>1. PICK y \in Byte, x \in Byte : y = p \div 8 /\ x = p % 8
  BY DEF Byte, Priorities
<1>2. /\ SetReady(b, p).group = b.group \cup {y}
      /\ \A z \in Byte : SetReady(b, p).table[z] = IF z = y THEN b.table[z] \cup {x} ELSE b.table[z]
  BY <1>1 DEF SetReady, Bitmaps
<1>3. PICK rest : rest = b.table[y] \ {x}
  OBVIOUS
<1>4. /\ UnsetReady(b, p).group = IF rest = {} THEN b.group \ {y} ELSE b.group
      /\ \A z \in Byte : UnsetReady(b, p).table[z] = IF z = y THEN rest ELSE b.table[z]
  BY <1>1, <1>3 DEF UnsetReady, Bitmaps
<1>5. GroupAgrees(SetReady(b, p))
  BY <1>1, <1>2 DEF GroupAgrees
<1>6. GroupAgrees(UnsetReady(b, p))
  <2>1. SUFFICES ASSUME NEW z \in Byte
                 PROVE  z \in UnsetReady(b, p).group <=> UnsetReady(b, p).table[z] # {}
    <3>1. UnsetReady(b, p).group \subseteq Byte
      BY <1>4 DEF Bitmaps
    <3>. QED BY <3>1 DEF GroupAgrees
  <2>2. z \in b.group <=> b.table[z] # {}
    BY DEF GroupAgrees
  <2>3. CASE rest = {}
    BY <1>4, <2>2, <2>3
  <2>4. CASE rest # {}
    BY <1>3, <1>4, <2>2, <2>4
  <2>. QED BY <2>3, <2>4
<1>. QED BY <1>5, <1>6

LEMMA BytesStep ==
  ASSUME Universe \subseteq Priorities, BytesInv, [BM!Next]_BM!vars
  PROVE  BytesInv' /\ [BM!Bits!Next]_<<BytesAsSets, highest>>
<1>1. /\ ready_group \in 0..255 /\ ready_table \in [Byte -> 0..255]
      /\ BytesAsSets \in Bitmaps /\ GroupAgrees(BytesAsSets)
  BY BytesAreSets DEF BytesInv
<1>2. BytesInv' <=> /\ ready_group' \in 0..255 /\ ready_table' \in [Byte -> 0..255]
                    /\ GroupAgrees(BytesAsSets')
  BY DEF BytesInv, GroupAgrees, Byte
<1>3. ASSUME NEW p \in Universe, BM!_os_set_ready(p)
      PROVE  BytesInv' /\ BM!Bits!Set(p)
  <2>1. p \in Priorities /\ highest' = highest
    BY <1>3 DEF BM!_os_set_ready
  <2>2. /\ ready_group' \in 0..255 /\ ready_table' \in [Byte -> 0..255]
        /\ BytesAsSets' = SetReady(BytesAsSets, p)
    BY <1>1, <1>3, <2>1, SetBytes
  <2>3. GroupAgrees(BytesAsSets')
    BY <1>1, <2>1, <2>2, AgreementKept
  <2>. QED BY <1>2, <2>1, <2>2, <2>3, SameOperators DEF BM!Bits!Set, BytesAsSets
<1>4. ASSUME NEW p \in Universe, BM!_os_unset_ready(p)
      PROVE  BytesInv' /\ BM!Bits!Unset(p)
  <2>1. p \in Priorities /\ highest' = highest
    BY <1>4 DEF BM!_os_unset_ready
  <2>2. /\ ready_group' \in 0..255 /\ ready_table' \in [Byte -> 0..255]
        /\ BytesAsSets' = UnsetReady(BytesAsSets, p)
    BY <1>1, <1>4, <2>1, UnsetBytes
  <2>3. GroupAgrees(BytesAsSets')
    BY <1>1, <2>1, <2>2, AgreementKept
  <2>. QED BY <1>2, <2>1, <2>2, <2>3, SameOperators DEF BM!Bits!Unset, BytesAsSets
<1>5. ASSUME BM!_os_get_highest_priority
      PROVE  BytesInv' /\ BM!Bits!Highest
  <2>1. ready_group' = ready_group /\ ready_table' = ready_table
    BY <1>5 DEF BM!_os_get_highest_priority
  <2>2. BytesAsSets' = BytesAsSets
    BY <2>1 DEF BytesAsSets, BM!BitsOf, BM!Bit
  <2>3. ReadySet(BytesAsSets) # {} /\ highest' = HighestPriority(BytesAsSets)
    BY <1>5, HighestBytes
  <2>. QED BY <1>1, <1>2, <2>1, <2>2, <2>3, SameOperators DEF BM!Bits!Highest, BytesAsSets
<1>6. CASE UNCHANGED BM!vars
  <2>1. ready_group' = ready_group /\ ready_table' = ready_table /\ highest' = highest
    BY <1>6 DEF BM!vars
  <2>2. BytesAsSets' = BytesAsSets
    BY <2>1 DEF BytesAsSets, BM!BitsOf, BM!Bit
  <2>. QED BY <1>1, <1>2, <2>1, <2>2
<1>. QED
  BY <1>3, <1>4, <1>5, <1>6 DEF BM!Next, BM!Bits!Next

\* The bytes with their masks and literal lookup tables implement the bitmap of
\* sets of bits: the group and the table never disagree about a byte, and
\* _os_get_highest_priority returns the lowest bit of the lowest byte.
THEOREM BytesImplementBitmap ==
  ASSUME Universe \subseteq Priorities
  PROVE  BM!Spec => BytesAreBitmap
<1>1. BM!Init => BytesInv /\ BM!Bits!Init
  <2>1. SUFFICES ASSUME BM!Init PROVE BytesInv /\ BM!Bits!Init
    OBVIOUS
  <2>2. ready_group = 0 /\ ready_table = [y \in Byte |-> 0] /\ highest = -1
    BY <2>1 DEF BM!Init, Byte
  <2>3. BM!BitsOf(0) = {}
    BY NoBits
  <2>4. BytesAsSets = EmptyBitmap
    BY <2>2, <2>3 DEF BytesAsSets, EmptyBitmap, Byte
  <2>5. BytesInv
    BY <2>2, <2>4 DEF BytesInv, GroupAgrees, EmptyBitmap
  <2>. QED BY <2>2, <2>4, <2>5, SameOperators DEF BM!Bits!Init, BytesAsSets
<1>2. BytesInv /\ [BM!Next]_BM!vars => BytesInv' /\ [BM!Bits!Next]_<<BytesAsSets, highest>>
  BY BytesStep
<1>3. BM!Bits!vars = <<BytesAsSets, highest>>
  BY DEF BM!Bits!vars, BytesAsSets
<1>. QED
  BY <1>1, <1>2, <1>3, PTL DEF BM!Spec, BytesAreBitmap, BM!BytesAreBitmap, BM!Bits!Spec, BM!Bits!vars, BytesAsSets

-----------------------------------------------------------------------------
(* The array deque *)

Cells == Items \cup {None}

\* The cell of the i-th item, counted from 1, of a ring of c cells with front fr
Cell(i, fr, c) == IF i + fr < c THEN i + fr ELSE i + fr - c

\* The n items of a ring f
Ring(f, fr, c, n) == [i \in 1..n |-> f[(i + fr) % c]]

\* The numbers of a ring agree: back is the cell behind the last item, and one
\* cell at least is free.
RingOK(f, fr, b, c, n) ==
  /\ c \in Nat \ {0, 1}
  /\ f \in [0..c - 1 -> Cells]
  /\ fr \in 0..c - 1
  /\ n \in 0..c - 1
  /\ b = Cell(n + 1, fr, c)

IInv == RingOK(arr, front, back, capacity, arraySize)

\* s is the sequence of the n items of f.
Holds(s, f, fr, c, n) == /\ s \in Seq(Cells)
                         /\ Len(s) = n
                         /\ \A i \in 1..n : s[i] = f[Cell(i, fr, c)]

LEMMA Around ==
  ASSUME NEW c \in Nat \ {0}, NEW x \in 0..2 * c - 1
  PROVE  x % c = IF x < c THEN x ELSE x - c
OBVIOUS

\* The items are in cells of the ring, and none in front.
LEMMA CellRange ==
  ASSUME NEW c \in Nat \ {0, 1}, NEW fr \in 0..c - 1, NEW i \in 1..c - 1
  PROVE  Cell(i, fr, c) \in 0..c - 1 /\ Cell(i, fr, c) # fr /\ (i + fr) % c = Cell(i, fr, c)
<1>1. Cell(i, fr, c) \in 0..c - 1 /\ Cell(i, fr, c) # fr
  BY DEF Cell
<1>2. c \in Nat \ {0} /\ i + fr \in 0..2 * c - 1
  OBVIOUS
<1>3. (i + fr) % c = Cell(i, fr, c)
  <2> DEFINE x == i + fr
  <2>1. x \in 0..2 * c - 1 /\ Cell(i, fr, c) = IF x < c THEN x ELSE x - c
    BY <1>2 DEF Cell
  <2> HIDE DEF x
  <2>2. x % c = IF x < c THEN x ELSE x - c
    BY <1>2, <2>1, Around
  <2> QED BY <2>1, <2>2 DEF x
<1> QED BY <1>1, <1>3

LEMMA RingHolds ==
  ASSUME NEW f, NEW fr, NEW b, NEW c, NEW n, RingOK(f, fr, b, c, n)
  PROVE  Holds(Ring(f, fr, c, n), f, fr, c, n)
<1>1. ASSUME NEW i \in 1..n
      PROVE  /\ f[(i + fr) % c] \in Cells
             /\ f[(i + fr) % c] = f[Cell(i, fr, c)]
  <2>1. i \in 1..c - 1 /\ c \in Nat \ {0, 1} /\ fr \in 0..c - 1
    BY DEF RingOK
  <2>2. Cell(i, fr, c) \in 0..c - 1 /\ (i + fr) % c = Cell(i, fr, c)
    BY <2>1, CellRange
  <2>3. f \in [0..c - 1 -> Cells]
    BY DEF RingOK
  <2> QED BY <2>2, <2>3
<1>2. n \in Nat
  BY DEF RingOK
<1>3. Ring(f, fr, c, n) \in [1..n -> Cells]
  BY <1>1, Zenon DEF Ring
<1>4. \A i \in 1..n : Ring(f, fr, c, n)[i] = f[Cell(i, fr, c)]
  BY <1>1, Zenon DEF Ring
<1> HIDE DEF Ring
<1> QED BY <1>2, <1>3, <1>4 DEF Holds

\* There is one sequence of the items.
LEMMA HoldsOne ==
  ASSUME NEW f, NEW fr, NEW b, NEW c, NEW n, RingOK(f, fr, b, c, n),
         NEW s, Holds(s, f, fr, c, n)
  PROVE  Ring(f, fr, c, n) = s
<1>1. Holds(Ring(f, fr, c, n), f, fr, c, n)
  BY RingHolds
<1> DEFINE r == Ring(f, fr, c, n)
<1>2. r \in Seq(Cells) /\ s \in Seq(Cells) /\ Len(r) = Len(s)
  BY <1>1 DEF Holds
<1>3. \A i \in 1..Len(r) : r[i] = s[i]
  BY <1>1, Zenon DEF Holds
<1> HIDE DEF r
<1>4. r = s
  BY <1>2, <1>3, SeqEqual
<1> QED BY <1>4 DEF r

\* resize() keeps the items and makes room.
LEMMA Resized ==
  ASSUME IInv, front = back
  PROVE  /\ RingOK(AD!resize(arr, capacity), front + capacity, back, 2 * capacity, arraySize)
         /\ Ring(AD!resize(arr, capacity), front + capacity, 2 * capacity, arraySize)
              = Ring(arr, front, capacity, arraySize)
         /\ front + capacity # back
<1> DEFINE f == AD!resize(arr, capacity)
           c == 2 * capacity
           fr == front + capacity
           s == Ring(arr, front, capacity, arraySize)
<1>1. /\ capacity \in Nat \ {0, 1} /\ front \in 0..capacity - 1 /\ arraySize \in 0..capacity - 1
      /\ arr \in [0..capacity - 1 -> Cells]
      /\ back = Cell(arraySize + 1, front, capacity)
  BY DEF IInv, RingOK
<1>2. arraySize = capacity - 1
  BY <1>1 DEF Cell
<1>3. c \in Nat \ {0, 1} /\ fr \in 0..c - 1 /\ arraySize \in 0..c - 1
  BY <1>1
<1>4. back = Cell(arraySize + 1, fr, c)
  BY <1>1, <1>2 DEF Cell
<1>5. f \in [0..c - 1 -> Cells]
  <2>1. ASSUME NEW i \in 0..c - 1
        PROVE  (IF i < front THEN arr[i]
                ELSE IF i >= front + capacity THEN arr[i - capacity] ELSE None) \in Cells
    <3>1. CASE i < front
      <4>1. i \in 0..capacity - 1 BY <1>1, <3>1
      <4> QED BY <1>1, <3>1, <4>1
    <3>2. CASE i >= front + capacity
      <4>1. i - capacity \in 0..capacity - 1 /\ ~(i < front) BY <1>1, <3>2
      <4> QED BY <1>1, <3>2, <4>1
    <3>3. CASE ~(i < front) /\ ~(i >= front + capacity)
      BY <3>3 DEF Cells
    <3> QED BY <3>1, <3>2, <3>3
  <2> QED BY <2>1 DEF AD!resize
<1>6. RingOK(f, fr, back, c, arraySize)
  BY <1>3, <1>4, <1>5 DEF RingOK
<1>7. Holds(s, arr, front, capacity, arraySize)
  BY RingHolds DEF IInv
<1>8. ASSUME NEW i \in 1..arraySize
      PROVE  arr[Cell(i, front, capacity)] = f[Cell(i, fr, c)]
  <2>1. CASE i + front < capacity
    <3>1. /\ Cell(i, fr, c) = i + fr /\ i + fr \in 0..c - 1
          /\ ~(i + fr < front) /\ i + fr >= front + capacity
      BY <1>1, <2>1 DEF Cell
    <3> DEFINE k == Cell(i, fr, c)
    <3>2. k - capacity = Cell(i, front, capacity)
      BY <1>1, <2>1 DEF Cell
    <3> HIDE DEF k
    <3>3. k \in 0..c - 1 /\ ~(k < front) /\ k >= front + capacity
      BY <3>1 DEF k
    <3>4. f[k] = arr[k - capacity]
      BY <3>3 DEF AD!resize
    <3> QED BY <3>2, <3>4 DEF k
  <2>2. CASE ~(i + front < capacity)
    <3>1. /\ Cell(i, fr, c) = Cell(i, front, capacity)
          /\ Cell(i, fr, c) \in 0..c - 1 /\ Cell(i, fr, c) < front
      BY <1>1, <2>2 DEF Cell
    <3> DEFINE k == Cell(i, fr, c)
    <3> HIDE DEF k
    <3>2. k \in 0..c - 1 /\ k < front
      BY <3>1 DEF k
    <3>3. f[k] = arr[k]
      BY <3>2 DEF AD!resize
    <3> QED BY <3>1, <3>3 DEF k
  <2> QED BY <2>1, <2>2
<1>9. Holds(s, f, fr, c, arraySize)
  BY <1>7, <1>8 DEF Holds
<1>10. front + capacity # back
  BY <1>1
<1> HIDE DEF f, c, fr, s
<1>11. Ring(f, fr, c, arraySize) = s
  BY <1>6, <1>9, HoldsOne
<1> QED BY <1>6, <1>10, <1>11 DEF f, c, fr, s

\* An item in front of the others, in a ring with more than one free cell
FrontPushed(f, fr, b, c, n, x) ==
  /\ RingOK([f EXCEPT ![fr] = x], AD!Down(fr, c), b, c, n + 1)
  /\ Ring([f EXCEPT ![fr] = x], AD!Down(fr, c), c, n + 1) = <<x>> \o Ring(f, fr, c, n)

LEMMA PushedFront ==
  ASSUME NEW f, NEW fr, NEW b, NEW c, NEW n, RingOK(f, fr, b, c, n), fr # b, NEW x \in Items
  PROVE  FrontPushed(f, fr, b, c, n, x)
<1> DEFINE g == [f EXCEPT ![fr] = x]
           to == AD!Down(fr, c)
           r == Ring(f, fr, c, n)
           s == <<x>> \o r
<1>1. /\ c \in Nat \ {0, 1} /\ fr \in 0..c - 1 /\ n \in 0..c - 1
      /\ f \in [0..c - 1 -> Cells] /\ b = Cell(n + 1, fr, c)
  BY DEF RingOK
<1>2. n + 1 \in 0..c - 1
  BY <1>1 DEF Cell
<1>3. to \in 0..c - 1 /\ b = Cell(n + 1 + 1, to, c)
  BY <1>1, <1>2 DEF Cell, AD!Down
<1>4. g \in [0..c - 1 -> Cells]
  BY <1>1 DEF Cells
<1>5. RingOK(g, to, b, c, n + 1)
  BY <1>1, <1>2, <1>3, <1>4 DEF RingOK
<1>6. r \in Seq(Cells) /\ Len(r) = n /\ \A i \in 1..n : r[i] = f[Cell(i, fr, c)]
  BY RingHolds DEF Holds
<1>7. <<x>> \in Seq(Cells) /\ Len(<<x>>) = 1 /\ <<x>>[1] = x
  BY DEF Cells
<1>8. /\ s \in Seq(Cells) /\ Len(s) = n + 1
      /\ \A i \in 1..n + 1 : s[i] = IF i <= 1 THEN x ELSE r[i - 1]
  <2> HIDE DEF r
  <2>1. /\ s \in Seq(Cells) /\ Len(s) = Len(<<x>>) + Len(r)
        /\ \A i \in 1..Len(<<x>>) + Len(r) :
               s[i] = IF i <= Len(<<x>>) THEN <<x>>[i] ELSE r[i - Len(<<x>>)]
    BY <1>6, <1>7, ConcatProperties
  <2> QED BY <1>1, <1>6, <1>7, <2>1
<1>9. ASSUME NEW i \in 1..n + 1
      PROVE  s[i] = g[Cell(i, to, c)]
  <2>1. CASE i = 1
    <3>1. Cell(i, to, c) = fr
      BY <1>1, <2>1 DEF Cell, AD!Down
    <3> QED BY <1>1, <1>8, <2>1, <3>1
  <2>2. CASE i # 1
    <3>1. i - 1 \in 1..n /\ i - 1 \in 1..c - 1 /\ ~(i <= 1)
      BY <1>1, <2>2
    <3>2. Cell(i, to, c) = Cell(i - 1, fr, c)
      BY <1>1, <1>2, <2>2 DEF Cell, AD!Down
    <3>3. Cell(i - 1, fr, c) \in 0..c - 1 /\ Cell(i - 1, fr, c) # fr
      BY <1>1, <3>1, CellRange
    <3>4. g[Cell(i - 1, fr, c)] = f[Cell(i - 1, fr, c)]
      BY <1>1, <3>3
    <3> HIDE DEF g, to, r, s
    <3> QED BY <1>6, <1>8, <3>1, <3>2, <3>4
  <2> QED BY <2>1, <2>2
<1>10. Holds(s, g, to, c, n + 1)
  BY <1>8, <1>9 DEF Holds
<1> HIDE DEF g, to, s
<1>11. Ring(g, to, c, n + 1) = s
  BY <1>5, <1>10, HoldsOne
<1> QED BY <1>5, <1>11 DEF FrontPushed, g, to, s

\* An item behind the others
BackPushed(f, fr, b, c, n, x) ==
  /\ RingOK([f EXCEPT ![b] = x], fr, AD!Up(b, c), c, n + 1)
  /\ Ring([f EXCEPT ![b] = x], fr, c, n + 1) = Append(Ring(f, fr, c, n), x)

LEMMA PushedBack ==
  ASSUME NEW f, NEW fr, NEW b, NEW c, NEW n, RingOK(f, fr, b, c, n), fr # b, NEW x \in Items
  PROVE  BackPushed(f, fr, b, c, n, x)
<1> DEFINE g == [f EXCEPT ![b] = x]
           to == AD!Up(b, c)
           r == Ring(f, fr, c, n)
           s == Append(r, x)
<1>1. /\ c \in Nat \ {0, 1} /\ fr \in 0..c - 1 /\ n \in 0..c - 1
      /\ f \in [0..c - 1 -> Cells] /\ b = Cell(n + 1, fr, c)
  BY DEF RingOK
<1>2. n + 1 \in 0..c - 1 /\ b \in 0..c - 1
  BY <1>1 DEF Cell
<1>3. to = Cell(n + 1 + 1, fr, c)
  BY <1>1, <1>2 DEF Cell, AD!Up
<1>4. x \in Cells /\ g \in [0..c - 1 -> Cells]
  BY <1>1 DEF Cells
<1>5. RingOK(g, fr, to, c, n + 1)
  BY <1>1, <1>2, <1>3, <1>4 DEF RingOK
<1>6. r \in Seq(Cells) /\ Len(r) = n /\ \A i \in 1..n : r[i] = f[Cell(i, fr, c)]
  BY RingHolds DEF Holds
<1>7. /\ s \in Seq(Cells) /\ Len(s) = n + 1 /\ s[n + 1] = x
      /\ \A i \in 1..n : s[i] = r[i]
  <2> HIDE DEF r
  <2> QED BY <1>4, <1>6, AppendProperties
<1>8. ASSUME NEW i \in 1..n + 1
      PROVE  s[i] = g[Cell(i, fr, c)]
  <2>1. CASE i = n + 1
    BY <1>1, <1>2, <1>7, <2>1
  <2>2. CASE i # n + 1
    <3>1. i \in 1..n /\ i \in 1..c - 1
      BY <1>1, <2>2
    <3>2. Cell(i, fr, c) \in 0..c - 1
      BY <1>1, <3>1, CellRange
    <3>3. Cell(i, fr, c) # b
      BY <1>1, <1>2, <2>2 DEF Cell
    <3>4. g[Cell(i, fr, c)] = f[Cell(i, fr, c)]
      BY <1>1, <3>2, <3>3
    <3> HIDE DEF g, r, s
    <3> QED BY <1>6, <1>7, <3>1, <3>4
  <2> QED BY <2>1, <2>2
<1>9. Holds(s, g, fr, c, n + 1)
  BY <1>7, <1>8 DEF Holds
<1> HIDE DEF g, to, s
<1>10. Ring(g, fr, c, n + 1) = s
  BY <1>5, <1>9, HoldsOne
<1> QED BY <1>5, <1>10 DEF BackPushed, g, to, s

\* The first item leaves.
FrontTaken(f, fr, b, c, n) ==
  /\ RingOK([f EXCEPT ![AD!Up(fr, c)] = None], AD!Up(fr, c), b, c, n - 1)
  /\ Ring([f EXCEPT ![AD!Up(fr, c)] = None], AD!Up(fr, c), c, n - 1) = Tail(Ring(f, fr, c, n))
  /\ f[AD!Up(fr, c)] = Ring(f, fr, c, n)[1]

LEMMA TakenFront ==
  ASSUME NEW f, NEW fr, NEW b, NEW c, NEW n, RingOK(f, fr, b, c, n), n # 0
  PROVE  FrontTaken(f, fr, b, c, n)
<1> DEFINE to == AD!Up(fr, c)
           g == [f EXCEPT ![to] = None]
           r == Ring(f, fr, c, n)
           s == Tail(r)
<1>1. /\ c \in Nat \ {0, 1} /\ fr \in 0..c - 1 /\ n \in 1..c - 1
      /\ f \in [0..c - 1 -> Cells] /\ b = Cell(n + 1, fr, c)
  BY DEF RingOK
<1>2. to \in 0..c - 1 /\ to = Cell(1, fr, c)
  BY <1>1 DEF Cell, AD!Up
<1>3. n - 1 \in 0..c - 1 /\ b = Cell(n - 1 + 1, to, c)
  BY <1>1 DEF Cell, AD!Up
<1>4. g \in [0..c - 1 -> Cells]
  BY <1>1 DEF Cells
<1>5. RingOK(g, to, b, c, n - 1)
  BY <1>1, <1>2, <1>3, <1>4 DEF RingOK
<1>6. r \in Seq(Cells) /\ Len(r) = n /\ \A i \in 1..n : r[i] = f[Cell(i, fr, c)]
  BY RingHolds DEF Holds
<1>7. /\ s \in Seq(Cells) /\ Len(s) = n - 1
      /\ \A i \in 1..n - 1 : s[i] = r[i + 1]
  <2> HIDE DEF r
  <2>1. r # <<>>
    BY <1>1, <1>6
  <2> QED BY <1>6, <2>1, HeadTailProperties
<1>8. ASSUME NEW i \in 1..n - 1
      PROVE  s[i] = g[Cell(i, to, c)]
  <2>1. i + 1 \in 1..n /\ i + 1 \in 1..c - 1 /\ i \in 1..c - 1
    BY <1>1
  <2>2. Cell(i, to, c) = Cell(i + 1, fr, c)
    BY <1>1, <2>1 DEF Cell, AD!Up
  <2>3. Cell(i, to, c) \in 0..c - 1 /\ Cell(i, to, c) # to
    BY <1>1, <1>2, <2>1, CellRange
  <2>4. g[Cell(i, to, c)] = f[Cell(i, to, c)]
    BY <1>1, <2>3
  <2> HIDE DEF to, g, r, s
  <2> QED BY <1>6, <1>7, <2>1, <2>2, <2>4
<1>9. Holds(s, g, to, c, n - 1)
  BY <1>7, <1>8 DEF Holds
<1>10. f[to] = r[1]
  BY <1>1, <1>2, <1>6
<1> HIDE DEF to, g, r, s
<1>11. Ring(g, to, c, n - 1) = s
  BY <1>5, <1>9, HoldsOne
<1> QED BY <1>5, <1>10, <1>11 DEF FrontTaken, to, g, r, s

\* The last item leaves.
BackTaken(f, fr, b, c, n) ==
  /\ RingOK([f EXCEPT ![AD!Down(b, c)] = None], fr, AD!Down(b, c), c, n - 1)
  /\ Ring([f EXCEPT ![AD!Down(b, c)] = None], fr, c, n - 1)
       = SubSeq(Ring(f, fr, c, n), 1, n - 1)
  /\ f[AD!Down(b, c)] = Ring(f, fr, c, n)[n]

LEMMA TakenBack ==
  ASSUME NEW f, NEW fr, NEW b, NEW c, NEW n, RingOK(f, fr, b, c, n), n # 0
  PROVE  BackTaken(f, fr, b, c, n)
<1> DEFINE to == AD!Down(b, c)
           g == [f EXCEPT ![to] = None]
           r == Ring(f, fr, c, n)
           s == SubSeq(r, 1, n - 1)
<1>1. /\ c \in Nat \ {0, 1} /\ fr \in 0..c - 1 /\ n \in 1..c - 1
      /\ f \in [0..c - 1 -> Cells] /\ b = Cell(n + 1, fr, c)
  BY DEF RingOK
<1>2. n - 1 \in 0..c - 1 /\ to \in 0..c - 1 /\ to = Cell(n, fr, c)
  BY <1>1 DEF Cell, AD!Down
<1>3. g \in [0..c - 1 -> Cells]
  BY <1>1 DEF Cells
<1>4. RingOK(g, fr, to, c, n - 1)
  BY <1>1, <1>2, <1>3 DEF RingOK
<1>5. r \in Seq(Cells) /\ Len(r) = n /\ \A i \in 1..n : r[i] = f[Cell(i, fr, c)]
  BY RingHolds DEF Holds
<1>6. \A i \in 1..n - 1 : r[i] \in Cells
  <2> HIDE DEF r
  <2> QED BY <1>1, <1>5
<1>7. /\ s \in Seq(Cells) /\ Len(s) = n - 1
      /\ \A i \in 1..n - 1 : s[i] = r[i]
  <2> HIDE DEF r
  <2>1. /\ s \in Seq(Cells) /\ Len(s) = IF 1 <= n - 1 THEN n - 1 - 1 + 1 ELSE 0
        /\ \A i \in 1..n - 1 - 1 + 1 : s[i] = r[1 + i - 1]
    <3>1. 1 \in Int /\ n - 1 \in Int
      BY <1>1
    <3> QED BY <1>6, <3>1, SubSeqProperties
  <2> QED BY <1>1, <2>1
<1>8. ASSUME NEW i \in 1..n - 1
      PROVE  s[i] = g[Cell(i, fr, c)]
  <2>1. i \in 1..n /\ i \in 1..c - 1
    BY <1>1
  <2>2. Cell(i, fr, c) \in 0..c - 1
    BY <1>1, <2>1, CellRange
  <2>3. Cell(i, fr, c) # to
    BY <1>1, <1>2 DEF Cell
  <2>4. g[Cell(i, fr, c)] = f[Cell(i, fr, c)]
    BY <1>1, <2>2, <2>3
  <2> HIDE DEF to, g, r, s
  <2> QED BY <1>5, <1>7, <2>1, <2>4
<1>9. Holds(s, g, fr, c, n - 1)
  BY <1>7, <1>8 DEF Holds
<1>10. f[to] = r[n]
  BY <1>1, <1>2, <1>5
<1> HIDE DEF to, g, r, s
<1>11. Ring(g, fr, c, n - 1) = s
  BY <1>4, <1>9, HoldsOne
<1> QED BY <1>4, <1>10, <1>11 DEF BackTaken, to, g, r, s

-----------------------------------------------------------------------------
\* A push at either end, with the ring doubled first or not
LEMMA PushFrontStep ==
  ASSUME IInv, NEW x \in Items, AD!push_front(x)
  PROVE  IInv' /\ AD!D!push_front(x)
<1>1. arrayReturned' = <<"push_front", x, None>>
  BY DEF AD!push_front, AD!Store
<1>2. CASE front = back
  <2> DEFINE f == AD!resize(arr, capacity)
             fr == front + capacity
             c == 2 * capacity
  <2>1. /\ capacity' = c /\ arr' = [f EXCEPT ![fr] = x] /\ arraySize' = arraySize + 1
        /\ front' = AD!Down(fr, c) /\ back' = back
    BY <1>2 DEF AD!push_front, AD!Store
  <2>2. RingOK(f, fr, back, c, arraySize) /\ Ring(f, fr, c, arraySize) = AD!Contents /\ fr # back
    BY <1>2, Resized DEF Ring, AD!Contents
  <2> HIDE DEF f, fr, c
  <2>3. FrontPushed(f, fr, back, c, arraySize, x)
    BY <2>2, PushedFront, Zenon
  <2>4. IInv'
    BY <2>1, <2>3 DEF IInv, FrontPushed
  <2>5. AD!Contents' = <<x>> \o AD!Contents
    BY <2>1, <2>2, <2>3 DEF FrontPushed, AD!Contents, Ring
  <2> QED BY <1>1, <2>4, <2>5 DEF AD!D!push_front
<1>3. CASE front # back
  <2>1. /\ capacity' = capacity /\ arr' = [arr EXCEPT ![front] = x] /\ arraySize' = arraySize + 1
        /\ front' = AD!Down(front, capacity) /\ back' = back
    BY <1>3 DEF AD!push_front, AD!Store
  <2>2. FrontPushed(arr, front, back, capacity, arraySize, x)
    <3>1. RingOK(arr, front, back, capacity, arraySize)
      BY DEF IInv
    <3> QED BY <1>3, <3>1, PushedFront, Zenon
  <2> QED BY <1>1, <2>1, <2>2 DEF IInv, FrontPushed, AD!D!push_front, AD!Contents, Ring
<1> QED BY <1>2, <1>3

LEMMA PushBackStep ==
  ASSUME IInv, NEW x \in Items, AD!push_back(x)
  PROVE  IInv' /\ AD!D!push_back(x)
<1>1. arrayReturned' = <<"push_back", x, None>>
  BY DEF AD!push_back, AD!Store
<1>2. CASE front = back
  <2> DEFINE f == AD!resize(arr, capacity)
             fr == front + capacity
             c == 2 * capacity
  <2>1. /\ capacity' = c /\ arr' = [f EXCEPT ![back] = x] /\ arraySize' = arraySize + 1
        /\ front' = fr /\ back' = AD!Up(back, c)
    BY <1>2 DEF AD!push_back, AD!Store
  <2>2. RingOK(f, fr, back, c, arraySize) /\ Ring(f, fr, c, arraySize) = AD!Contents /\ fr # back
    BY <1>2, Resized DEF Ring, AD!Contents
  <2> HIDE DEF f, fr, c
  <2>3. BackPushed(f, fr, back, c, arraySize, x)
    BY <2>2, PushedBack, Zenon
  <2>4. IInv'
    BY <2>1, <2>3 DEF IInv, BackPushed
  <2>5. AD!Contents' = Append(AD!Contents, x)
    BY <2>1, <2>2, <2>3 DEF BackPushed, AD!Contents, Ring
  <2> QED BY <1>1, <2>4, <2>5 DEF AD!D!push_back
<1>3. CASE front # back
  <2>1. /\ capacity' = capacity /\ arr' = [arr EXCEPT ![back] = x] /\ arraySize' = arraySize + 1
        /\ front' = front /\ back' = AD!Up(back, capacity)
    BY <1>3 DEF AD!push_back, AD!Store
  <2>2. BackPushed(arr, front, back, capacity, arraySize, x)
    <3>1. RingOK(arr, front, back, capacity, arraySize)
      BY DEF IInv
    <3> QED BY <1>3, <3>1, PushedBack, Zenon
  <2> QED BY <1>1, <2>1, <2>2 DEF IInv, BackPushed, AD!D!push_back, AD!Contents, Ring
<1> QED BY <1>2, <1>3

LEMMA LenContents ==
  ASSUME IInv
  PROVE  Len(AD!Contents) = arraySize /\ arraySize \in Nat
<1>1. Len(Ring(arr, front, capacity, arraySize)) = arraySize
  BY RingHolds DEF IInv, Holds
<1> QED BY <1>1 DEF Ring, AD!Contents, IInv, RingOK

LEMMA TakeFrontStep ==
  ASSUME IInv, AD!remove_front
  PROVE  IInv' /\ AD!D!remove_front
<1> DEFINE to == AD!Up(front, capacity)
           g == [arr EXCEPT ![to] = None]
<1>1. /\ arraySize # 0 /\ front' = to /\ back' = back /\ capacity' = capacity
      /\ arr' = g /\ arraySize' = arraySize - 1 /\ arrayReturned' = <<"remove_front", None, arr[to]>>
  BY DEF AD!remove_front, AD!Take
<1>2. FrontTaken(arr, front, back, capacity, arraySize)
  <2>1. RingOK(arr, front, back, capacity, arraySize) /\ arraySize # 0
    BY <1>1 DEF IInv
  <2> QED BY <2>1, TakenFront, Zenon
<1>3. AD!Contents # <<>>
  BY <1>1, LenContents
<1>4. IInv'
  BY <1>1, <1>2 DEF IInv, FrontTaken
<1>5. AD!Contents' = Tail(AD!Contents) /\ arr[to] = AD!Contents[1]
  BY <1>1, <1>2 DEF AD!Contents, Ring, FrontTaken
<1> QED BY <1>1, <1>3, <1>4, <1>5 DEF AD!D!remove_front

LEMMA TakeBackStep ==
  ASSUME IInv, AD!remove_back
  PROVE  IInv' /\ AD!D!remove_back
<1> DEFINE to == AD!Down(back, capacity)
           g == [arr EXCEPT ![to] = None]
<1>1. /\ arraySize # 0 /\ back' = to /\ front' = front /\ capacity' = capacity
      /\ arr' = g /\ arraySize' = arraySize - 1 /\ arrayReturned' = <<"remove_back", None, arr[to]>>
  BY DEF AD!remove_back, AD!Take
<1>2. BackTaken(arr, front, back, capacity, arraySize)
  <2>1. RingOK(arr, front, back, capacity, arraySize) /\ arraySize # 0
    BY <1>1 DEF IInv
  <2> QED BY <2>1, TakenBack, Zenon
<1>3. AD!Contents # <<>> /\ Len(AD!Contents) = arraySize
  BY <1>1, LenContents
<1>4. IInv'
  BY <1>1, <1>2 DEF IInv, BackTaken
<1>5. AD!Contents' = SubSeq(AD!Contents, 1, arraySize - 1) /\ arr[to] = AD!Contents[arraySize]
  BY <1>1, <1>2 DEF AD!Contents, Ring, BackTaken
<1> QED BY <1>1, <1>3, <1>4, <1>5 DEF AD!D!remove_back

LEMMA TakeFromEmptyStep ==
  ASSUME IInv, AD!remove_from_empty
  PROVE  IInv' /\ (AD!D!remove_front \/ AD!D!remove_back)
<1>1. AD!Contents' = AD!Contents /\ IInv'
  BY DEF AD!remove_from_empty, AD!Contents, IInv
<1>2. AD!Contents = <<>>
  <2>1. AD!Contents = [i \in 1..0 |-> arr[(i + front) % capacity]]
    BY DEF AD!remove_from_empty, AD!Contents
  <2> QED BY <2>1
<1> QED BY <1>1, <1>2 DEF AD!remove_from_empty, AD!D!remove_front, AD!D!remove_back

\* A read by index: the code adds front + 1, the sequence counts from 1.
LEMMA AtStep ==
  ASSUME IInv, NEW idx \in 0..arraySize - 1, AD!at(idx)
  PROVE  IInv' /\ idx \in 0..Len(AD!Contents) - 1 /\ AD!D!at(idx)
<1>1. AD!Contents' = AD!Contents /\ IInv'
  BY DEF AD!at, AD!Contents, IInv
<1>2. Len(AD!Contents) = arraySize /\ arraySize \in Nat
  BY LenContents
<1>3. arr[(idx + front + 1) % capacity] = AD!Contents[idx + 1]
  <2>1. idx + 1 \in 1..arraySize /\ idx + 1 + front = idx + front + 1
    BY <1>2 DEF IInv, RingOK
  <2>2. AD!Contents[idx + 1] = arr[(idx + 1 + front) % capacity]
    BY <2>1, Zenon DEF AD!Contents
  <2> QED BY <2>1, <2>2
<1> QED BY <1>1, <1>2, <1>3 DEF AD!at, AD!D!at

LEMMA Step ==
  ASSUME IInv, [AD!Next]_AD!vars
  PROVE  IInv' /\ [AD!D!Next]_<<AD!Contents, arrayReturned>>
<1>1. CASE AD!Next
  <2>1. ASSUME NEW x \in Items, AD!push_front(x) PROVE IInv' /\ AD!D!Next
    BY <2>1, PushFrontStep DEF AD!D!Next
  <2>2. ASSUME NEW x \in Items, AD!push_back(x) PROVE IInv' /\ AD!D!Next
    BY <2>2, PushBackStep DEF AD!D!Next
  <2>3. CASE AD!remove_front
    BY <2>3, TakeFrontStep DEF AD!D!Next
  <2>4. CASE AD!remove_back
    BY <2>4, TakeBackStep DEF AD!D!Next
  <2>5. CASE AD!remove_from_empty
    BY <2>5, TakeFromEmptyStep DEF AD!D!Next
  <2>6. ASSUME NEW idx \in 0..arraySize - 1, AD!at(idx) PROVE IInv' /\ AD!D!Next
    BY <2>6, AtStep DEF AD!D!Next
  <2> QED BY <1>1, <2>1, <2>2, <2>3, <2>4, <2>5, <2>6 DEF AD!Next
<1>2. CASE UNCHANGED AD!vars
  BY <1>2 DEF AD!vars, IInv, AD!Contents
<1> QED BY <1>1, <1>2

-----------------------------------------------------------------------------
(***************************************************************************)
(* Whatever was pushed at either end and however often the ring wrapped or *)
(* doubled (ArrayDeque's push_*, remove_* and operator[] in deque.hpp),    *)
(* the items come out of it, and are read from it, as from a sequence.     *)
(***************************************************************************)
THEOREM ArrayImplementsSequence ==
  ASSUME InitialCapacity \in Nat \ {0, 1}
  PROVE  AD!Spec => AD!ArrayIsSequence
<1>1. AD!Init => IInv /\ AD!D!Init
  <2> SUFFICES ASSUME AD!Init PROVE IInv /\ AD!D!Init
    OBVIOUS
  <2>1. IInv
    BY DEF AD!Init, IInv, RingOK, Cell, Cells
  <2>2. AD!Contents = <<>>
    <3>1. AD!Contents = [i \in 1..0 |-> arr[(i + front) % capacity]]
      BY DEF AD!Init, AD!Contents
    <3> QED BY <3>1
  <2> QED BY <2>1, <2>2 DEF AD!Init, AD!D!Init
<1>2. IInv /\ [AD!Next]_AD!vars => IInv' /\ [AD!D!Next]_<<AD!Contents, arrayReturned>>
  BY Step
<1> QED BY <1>1, <1>2, PTL DEF AD!Spec, AD!ArrayIsSequence, AD!D!Spec, AD!D!vars

-----------------------------------------------------------------------------
(* The list deque *)

\* Places around a circle of m nodes and the sentinel, which is in place 0
After(i, m)    == IF i = m THEN 0 ELSE i + 1
Before(i, m)   == IF i = 0 THEN m ELSE i - 1
Opposite(i, m) == IF i = 0 THEN 0 ELSE m + 1 - i

\* f lists the m + 1 live nodes, and the links go around them in both directions.
Circle(f, m, v, p, nx, lv) ==
  /\ m \in Nat
  /\ f \in [0..m -> LD!Addresses] /\ f[0] = 0
  /\ \A i, j \in 0..m : f[i] = f[j] => i = j
  /\ lv = {f[i] : i \in 0..m} /\ IsFiniteSet(lv) /\ Cardinality(lv) = m + 1
  /\ v \in [LD!Addresses -> Cells] /\ p \in [LD!Addresses -> LD!Addresses] /\ nx \in [LD!Addresses -> LD!Addresses]
  /\ \A i \in 0..m : nx[f[i]] = f[After(i, m)] /\ p[f[i]] = f[Before(i, m)]

LInv == \E f : Circle(f, listSize, value, prev, next, live)

\* The circle the other way around
Mirror(f, m) == [i \in 0..m |-> f[Opposite(i, m)]]

LEMMA Mirrored ==
  ASSUME NEW f, NEW m, NEW v, NEW p, NEW nx, NEW lv, Circle(f, m, v, p, nx, lv)
  PROVE  Circle(Mirror(f, m), m, v, nx, p, lv)
<1> DEFINE g == Mirror(f, m)
<1>1. m \in Nat /\ f \in [0..m -> LD!Addresses] /\ f[0] = 0 /\ \A i, j \in 0..m : f[i] = f[j] => i = j
  BY DEF Circle
<1>2. \A i \in 0..m : /\ Opposite(i, m) \in 0..m /\ Opposite(Opposite(i, m), m) = i
                      /\ After(i, m) \in 0..m /\ Before(i, m) \in 0..m
                      /\ Opposite(After(i, m), m) = Before(Opposite(i, m), m)
                      /\ Opposite(Before(i, m), m) = After(Opposite(i, m), m)
  BY <1>1 DEF Opposite, After, Before
<1>3. \A i \in 0..m : g[i] = f[Opposite(i, m)]
  BY DEF Mirror
<1>4. g \in [0..m -> LD!Addresses] /\ g[0] = 0
  <2>1. g \in [0..m -> LD!Addresses]
    BY <1>1, <1>2 DEF Mirror
  <2>2. 0 \in 0..m /\ Opposite(0, m) = 0
    BY <1>1 DEF Opposite
  <2>. QED BY <1>1, <1>3, <2>1, <2>2
<1> HIDE DEF g
<1>5. \A i, j \in 0..m : g[i] = g[j] => i = j
  <2>1. SUFFICES ASSUME NEW i \in 0..m, NEW j \in 0..m, g[i] = g[j] PROVE i = j
    OBVIOUS
  <2>2. Opposite(i, m) = Opposite(j, m)
    BY <1>1, <1>2, <1>3, <2>1
  <2>. QED BY <1>2, <2>2
<1>6. lv = {g[i] : i \in 0..m}
  <2>1. lv = {f[i] : i \in 0..m}
    BY DEF Circle
  <2>2. \A i \in 0..m : f[i] = g[Opposite(i, m)]
    BY <1>2, <1>3
  <2>. QED BY <1>2, <1>3, <2>1, <2>2
<1>7. ASSUME NEW i \in 0..m
      PROVE  p[g[i]] = g[After(i, m)] /\ nx[g[i]] = g[Before(i, m)]
  <2>1. \A j \in 0..m : nx[f[j]] = f[After(j, m)] /\ p[f[j]] = f[Before(j, m)]
    BY DEF Circle
  <2>. QED BY <1>2, <1>3, <2>1
<1>8. Circle(g, m, v, nx, p, lv)
  BY <1>1, <1>4, <1>5, <1>6, <1>7 DEF Circle
<1>. QED
  BY <1>8 DEF g

\* A node n is put behind the sentinel.
Put(f, m, n) == [i \in 0..m + 1 |-> IF i = 0 THEN 0 ELSE IF i = 1 THEN n ELSE f[i - 1]]

PutFirst(f, m, v, p, nx, lv, n, x) ==
  Circle(Put(f, m, n), m + 1, [v EXCEPT ![n] = x], [p EXCEPT ![nx[0]] = n, ![n] = 0],
         [nx EXCEPT ![n] = nx[0], ![0] = n], lv \cup {n})

LEMMA PuttingFirst ==
  ASSUME NEW f, NEW m, NEW v, NEW p, NEW nx, NEW lv, Circle(f, m, v, p, nx, lv),
         NEW n \in LD!Addresses \ lv, NEW x \in Cells
  PROVE  PutFirst(f, m, v, p, nx, lv, n, x)
<1> DEFINE g == Put(f, m, n)
           v1 == [v EXCEPT ![n] = x]
           p1 == [p EXCEPT ![nx[0]] = n, ![n] = 0]
           n1 == [nx EXCEPT ![n] = nx[0], ![0] = n]
<1>1. /\ m \in Nat /\ f \in [0..m -> LD!Addresses] /\ f[0] = 0 /\ \A i, j \in 0..m : f[i] = f[j] => i = j
      /\ lv = {f[i] : i \in 0..m} /\ IsFiniteSet(lv) /\ Cardinality(lv) = m + 1
      /\ v \in [LD!Addresses -> Cells] /\ p \in [LD!Addresses -> LD!Addresses] /\ nx \in [LD!Addresses -> LD!Addresses]
  BY DEF Circle
<1>2. \A i \in 0..m : nx[f[i]] = f[After(i, m)] /\ p[f[i]] = f[Before(i, m)]
  BY DEF Circle
<1>3. \A i \in 0..m : f[i] \in LD!Addresses /\ f[i] # n
  BY <1>1
<1>4. 0 \in LD!Addresses /\ n # 0
  <2>1. 0 \in 0..m
    BY <1>1
  <2>. QED BY <1>1, <1>3, <2>1
<1>5. nx[0] = f[After(0, m)] /\ p[0] = f[m]
  <2>1. 0 \in 0..m /\ Before(0, m) = m
    BY <1>1 DEF Before
  <2>. QED BY <1>1, <1>2, <2>1
<1>6. nx[0] \in LD!Addresses /\ nx[0] # n
  <2>1. After(0, m) \in 0..m
    BY <1>1 DEF After
  <2>. QED BY <1>3, <1>5, <2>1
<1>7. \A i \in 0..m + 1 : g[i] = IF i = 0 THEN 0 ELSE IF i = 1 THEN n ELSE f[i - 1]
  BY DEF Put
<1>8. \A i \in 2..m + 1 : i - 1 \in 0..m /\ i - 1 # 0 /\ f[i - 1] # 0
  BY <1>1
<1>9. g \in [0..m + 1 -> LD!Addresses] /\ g[0] = 0
  <2>1. \A i \in 0..m + 1 : g[i] \in LD!Addresses
    <3> HIDE DEF g
    <3>1. \A i \in 0..m + 1 : i = 0 \/ i = 1 \/ i \in 2..m + 1
      BY <1>1
    <3>. QED BY <1>3, <1>4, <1>7, <1>8, <3>1
  <2>2. 0 \in 0..m + 1
    BY <1>1
  <2>3. g[0] = 0
    BY <1>7, <2>2
  <2>. QED BY <2>1, <2>3 DEF Put
<1>10. v1 \in [LD!Addresses -> Cells] /\ p1 \in [LD!Addresses -> LD!Addresses] /\ n1 \in [LD!Addresses -> LD!Addresses]
  BY <1>1, <1>4, <1>6
<1>11. \A a \in LD!Addresses : /\ p1[a] = IF a = n THEN 0 ELSE IF a = nx[0] THEN n ELSE p[a]
                               /\ n1[a] = IF a = 0 THEN n ELSE IF a = n THEN nx[0] ELSE nx[a]
  BY <1>1, <1>4, <1>6
<1> HIDE DEF g, v1, p1, n1
<1>12. \A i, j \in 0..m + 1 : g[i] = g[j] => i = j
  <2>1. SUFFICES ASSUME NEW i \in 0..m + 1, NEW j \in 0..m + 1, g[i] = g[j] PROVE i = j
    OBVIOUS
  <2>2. CASE i \in 2..m + 1 /\ j \in 2..m + 1
    <3>1. f[i - 1] = f[j - 1] /\ i - 1 \in 0..m /\ j - 1 \in 0..m
      BY <1>7, <1>8, <2>1, <2>2
    <3>2. i - 1 = j - 1
      BY <1>1, <3>1
    <3>. QED BY <2>2, <3>2
  <2>3. (i = 0 \/ i = 1 \/ i \in 2..m + 1) /\ (j = 0 \/ j = 1 \/ j \in 2..m + 1)
    BY <1>1
  <2>. QED BY <1>3, <1>4, <1>7, <1>8, <2>1, <2>2, <2>3
<1>13. lv \cup {n} = {g[i] : i \in 0..m + 1}
  <2>1. ASSUME NEW i \in 0..m
        PROVE  \E j \in 0..m + 1 : g[j] = f[i]
    <3>1. CASE i = 0
      <4>1. 0 \in 0..m + 1
        BY <1>1
      <4>. QED BY <1>1, <1>9, <3>1, <4>1
    <3>2. CASE i # 0
      <4>1. i + 1 \in 0..m + 1 /\ i + 1 # 0 /\ i + 1 # 1 /\ i + 1 - 1 = i
        BY <3>2, <1>1
      <4>. QED BY <1>7, <4>1
    <3>. QED BY <3>1, <3>2
  <2>2. 1 \in 0..m + 1 /\ g[1] = n
    BY <1>1, <1>7
  <2>3. ASSUME NEW i \in 0..m + 1
        PROVE  g[i] \in lv \cup {n}
    <3>1. i = 0 \/ i = 1 \/ i \in 2..m + 1
      BY <1>1
    <3>2. 0 \in lv
      <4>1. 0 \in 0..m
        BY <1>1
      <4>. QED BY <1>1, <4>1
    <3>3. i \in 2..m + 1 => f[i - 1] \in lv
      BY <1>1, <1>8
    <3>. QED BY <1>7, <1>9, <3>1, <3>2, <3>3
  <2>. QED BY <1>1, <2>1, <2>2, <2>3
<1>14. IsFiniteSet(lv \cup {n}) /\ Cardinality(lv \cup {n}) = m + 1 + 1
  BY <1>1, FS_AddElement, ZenonT(40)
<1>15. ASSUME NEW i \in 0..m + 1
       PROVE  n1[g[i]] = g[After(i, m + 1)] /\ p1[g[i]] = g[Before(i, m + 1)]
  <2>1. CASE i = 0
    <3>1. g[0] = 0 /\ n1[0] = n /\ After(0, m + 1) = 1 /\ g[1] = n
      BY <1>1, <1>4, <1>7, <1>9, <1>11 DEF After
    <3>2. Before(0, m + 1) = m + 1
      BY DEF Before
    <3>3. CASE m = 0
      <4>1. nx[0] = 0
        BY <1>1, <1>5, <3>3 DEF After
      <4>2. p1[0] = n
        BY <1>4, <1>11, <4>1
      <4>. QED BY <2>1, <3>1, <3>2, <3>3, <4>2
    <3>4. CASE m # 0
      <4>1. nx[0] = f[1] /\ 1 \in 0..m /\ 0 \in 0..m /\ m \in 0..m
        BY <1>1, <1>5, <3>4 DEF After
      <4>2. nx[0] # 0
        BY <1>1, <4>1
      <4>3. p1[0] = f[m]
        BY <1>4, <1>5, <1>11, <4>2
      <4>4. g[m + 1] = f[m]
        <5>1. PICK k : k = m + 1
          OBVIOUS
        <5>2. k \in 0..m + 1 /\ k # 0 /\ k # 1 /\ k - 1 = m
          BY <1>1, <3>4, <5>1
        <5>3. g[k] = f[k - 1]
          BY <1>7, <5>2
        <5>. QED BY <5>1, <5>2, <5>3
      <4>. QED BY <2>1, <3>1, <3>2, <4>3, <4>4
    <3>. QED BY <3>3, <3>4
  <2>2. CASE i = 1
    <3>1. g[i] = n /\ p1[n] = 0 /\ n1[n] = nx[0] /\ Before(i, m + 1) = 0 /\ g[0] = 0
      BY <1>1, <1>4, <1>7, <1>9, <1>11, <2>2 DEF Before
    <3>2. g[After(i, m + 1)] = nx[0]
      <4>1. CASE m = 0
        <5>1. After(i, m + 1) = 0 /\ After(0, m) = 0
          BY <2>2, <4>1 DEF After
        <5>. QED BY <1>1, <1>5, <1>9, <5>1
      <4>2. CASE m # 0
        <5>1. After(i, m + 1) = 2 /\ After(0, m) = 1 /\ 2 \in 0..m + 1
          BY <1>1, <2>2, <4>2 DEF After
        <5>2. g[2] = f[1]
          BY <1>7, <5>1
        <5>. QED BY <1>5, <5>1, <5>2
      <4>. QED BY <4>1, <4>2
    <3>. QED BY <3>1, <3>2
  <2>3. CASE i \in 2..m + 1
    <3>1. g[i] = f[i - 1] /\ i - 1 \in 0..m /\ f[i - 1] # 0 /\ f[i - 1] # n /\ f[i - 1] \in LD!Addresses
      BY <1>3, <1>7, <1>8, <2>3
    <3>2. n1[g[i]] = f[After(i - 1, m)]
      BY <1>2, <1>11, <3>1
    <3>3. g[After(i, m + 1)] = f[After(i - 1, m)]
      <4>1. CASE i = m + 1
        <5>1. After(i, m + 1) = 0 /\ After(i - 1, m) = 0
          BY <1>1, <4>1 DEF After
        <5>. QED BY <1>1, <1>9, <5>1
      <4>2. CASE i # m + 1
        <5>1. After(i, m + 1) = i + 1 /\ After(i - 1, m) = i /\ i + 1 \in 0..m + 1 /\ i + 1 # 0 /\ i + 1 # 1
              /\ i + 1 - 1 = i
          BY <1>1, <2>3, <4>2 DEF After
        <5>. QED BY <1>7, <5>1
      <4>. QED BY <4>1, <4>2
    <3>4. p1[g[i]] = g[Before(i, m + 1)]
      <4>0. Before(i, m + 1) = i - 1 /\ Before(i - 1, m) = i - 2 /\ i - 1 \in 0..m + 1 /\ After(0, m) = 1
            /\ 1 \in 0..m
        BY <1>1, <2>3 DEF Before, After
      <4>1. CASE i = 2
        <5>1. f[i - 1] = nx[0]
          BY <1>5, <4>0, <4>1
        <5>2. p1[g[i]] = n
          BY <1>11, <3>1, <5>1
        <5>3. g[i - 1] = n
          BY <1>7, <4>0, <4>1
        <5>. QED BY <4>0, <5>2, <5>3
      <4>2. CASE i # 2
        <5>1. f[i - 1] # nx[0]
          <6>1. i - 1 # 1
            BY <2>3, <4>2
          <6>. QED BY <1>1, <1>5, <3>1, <4>0, <6>1
        <5>2. p1[g[i]] = f[i - 2]
          BY <1>2, <1>11, <3>1, <4>0, <5>1
        <5>3. g[i - 1] = f[i - 2]
          <6>1. i - 1 # 0 /\ i - 1 # 1 /\ (i - 1) - 1 = i - 2
            BY <2>3, <4>2
          <6>. QED BY <1>7, <4>0, <6>1
        <5>. QED BY <4>0, <5>2, <5>3
      <4>. QED BY <4>1, <4>2
    <3>. QED BY <3>2, <3>3, <3>4
  <2>. QED
    <3>1. i = 0 \/ i = 1 \/ i \in 2..m + 1
      BY <1>1
    <3>. QED BY <2>1, <2>2, <2>3, <3>1
<1>16. Circle(g, m + 1, v1, p1, n1, lv \cup {n})
  <2>1. m + 1 \in Nat
    BY <1>1
  <2>. QED BY <1>9, <1>10, <1>12, <1>13, <1>14, <1>15, <2>1 DEF Circle
<1>. QED
  BY <1>16 DEF PutFirst, g, v1, p1, n1

\* The first node leaves.
Drop(f, m) == [i \in 0..m - 1 |-> IF i = 0 THEN 0 ELSE f[i + 1]]

DropFirst(f, m, v, p, nx, lv) ==
  Circle(Drop(f, m), m - 1, [v EXCEPT ![nx[0]] = None], [p EXCEPT ![nx[nx[0]]] = 0, ![nx[0]] = 0],
         [nx EXCEPT ![0] = nx[nx[0]], ![nx[0]] = 0], lv \ {nx[0]})

LEMMA DroppingFirst ==
  ASSUME NEW f, NEW m, NEW v, NEW p, NEW nx, NEW lv, Circle(f, m, v, p, nx, lv), m # 0
  PROVE  DropFirst(f, m, v, p, nx, lv) /\ nx[0] = f[1]
<1> DEFINE g == Drop(f, m)
           n == nx[0]
           v1 == [v EXCEPT ![n] = None]
           p1 == [p EXCEPT ![nx[n]] = 0, ![n] = 0]
           n1 == [nx EXCEPT ![0] = nx[n], ![n] = 0]
<1>1. /\ m \in Nat /\ f \in [0..m -> LD!Addresses] /\ f[0] = 0 /\ \A i, j \in 0..m : f[i] = f[j] => i = j
      /\ lv = {f[i] : i \in 0..m} /\ IsFiniteSet(lv) /\ Cardinality(lv) = m + 1
      /\ v \in [LD!Addresses -> Cells] /\ p \in [LD!Addresses -> LD!Addresses] /\ nx \in [LD!Addresses -> LD!Addresses]
  BY DEF Circle
<1>2. \A i \in 0..m : nx[f[i]] = f[After(i, m)] /\ p[f[i]] = f[Before(i, m)]
  BY DEF Circle
<1>3. 0 \in 0..m /\ 1 \in 0..m /\ m \in 0..m /\ m - 1 \in Nat /\ 0 \in 0..m - 1
  BY <1>1
<1>4. n = f[1]
  <2>1. After(0, m) = 1
    BY <1>1 DEF After
  <2>. QED BY <1>1, <1>2, <1>3, <2>1
<1>5. 0 \in LD!Addresses /\ n \in LD!Addresses /\ n # 0 /\ n \in lv
  BY <1>1, <1>3, <1>4
<1>6. nx[n] = f[After(1, m)] /\ nx[n] \in LD!Addresses /\ nx[n] # n
  <2>1. After(1, m) \in 0..m /\ After(1, m) # 1
    BY <1>1, <1>3 DEF After
  <2>. QED BY <1>1, <1>2, <1>3, <1>4, <2>1
<1>7. \A i \in 0..m - 1 : g[i] = IF i = 0 THEN 0 ELSE f[i + 1]
  BY DEF Drop
<1>8. \A i \in 1..m - 1 : i + 1 \in 0..m /\ f[i + 1] # 0 /\ f[i + 1] # n /\ f[i + 1] \in LD!Addresses
  <2>1. \A i \in 1..m - 1 : i + 1 \in 0..m /\ i + 1 # 0 /\ i + 1 # 1
    BY <1>1
  <2>. QED BY <1>1, <1>3, <1>4, <2>1
<1>9. g \in [0..m - 1 -> LD!Addresses] /\ g[0] = 0
  <2>1. \A i \in 0..m - 1 : g[i] \in LD!Addresses
    <3> HIDE DEF g
    <3>1. \A i \in 0..m - 1 : i = 0 \/ i \in 1..m - 1
      BY <1>1
    <3>. QED BY <1>5, <1>7, <1>8, <3>1
  <2>2. g[0] = 0
    BY <1>3, <1>7
  <2>. QED BY <2>1, <2>2 DEF Drop
<1>10. v1 \in [LD!Addresses -> Cells] /\ p1 \in [LD!Addresses -> LD!Addresses] /\ n1 \in [LD!Addresses -> LD!Addresses]
  BY <1>1, <1>5, <1>6 DEF Cells
<1>11. \A a \in LD!Addresses : /\ p1[a] = IF a = n THEN 0 ELSE IF a = nx[n] THEN 0 ELSE p[a]
                               /\ n1[a] = IF a = n THEN 0 ELSE IF a = 0 THEN nx[n] ELSE nx[a]
  BY <1>1, <1>5, <1>6
<1> HIDE DEF g, v1, p1, n1, n
<1>12. \A i, j \in 0..m - 1 : g[i] = g[j] => i = j
  <2>1. SUFFICES ASSUME NEW i \in 0..m - 1, NEW j \in 0..m - 1, g[i] = g[j] PROVE i = j
    OBVIOUS
  <2>2. CASE i # 0 /\ j # 0
    <3>1. i \in 1..m - 1 /\ j \in 1..m - 1
      BY <2>2, <1>1
    <3>2. f[i + 1] = f[j + 1] /\ i + 1 \in 0..m /\ j + 1 \in 0..m
      BY <1>7, <1>8, <2>1, <2>2, <3>1
    <3>3. i + 1 = j + 1
      BY <1>1, <3>2
    <3>. QED BY <3>1, <3>3
  <2>3. (i # 0 => i \in 1..m - 1) /\ (j # 0 => j \in 1..m - 1)
    BY <1>1
  <2>. QED BY <1>7, <1>8, <2>1, <2>2, <2>3
<1>13. lv \ {n} = {g[i] : i \in 0..m - 1}
  <2>1. ASSUME NEW i \in 0..m, f[i] # n
        PROVE  \E j \in 0..m - 1 : g[j] = f[i]
    <3>1. CASE i = 0
      BY <1>1, <1>3, <1>9, <3>1
    <3>2. CASE i # 0
      <4>1. i # 1
        BY <1>4, <2>1
      <4>2. i - 1 \in 0..m - 1 /\ i - 1 # 0 /\ i - 1 + 1 = i
        BY <3>2, <1>1, <4>1
      <4>3. g[i - 1] = f[i - 1 + 1]
        BY <1>7, <4>2, Zenon
      <4>. QED BY <4>2, <4>3
    <3>. QED BY <3>1, <3>2
  <2>2. ASSUME NEW i \in 0..m - 1
        PROVE  g[i] \in lv \ {n}
    <3>1. i = 0 \/ i \in 1..m - 1
      BY <1>1
    <3>2. 0 \in lv
      BY <1>1, <1>3
    <3>3. i \in 1..m - 1 => f[i + 1] \in lv
      BY <1>1, <1>8
    <3>. QED BY <1>5, <1>7, <1>8, <1>9, <3>1, <3>2, <3>3
  <2>. QED BY <1>1, <2>1, <2>2
<1>14. IsFiniteSet(lv \ {n}) /\ Cardinality(lv \ {n}) = m - 1 + 1
  <2>1. IsFiniteSet(lv \ {n}) /\ Cardinality(lv \ {n}) = Cardinality(lv) - 1
    BY <1>1, <1>5, FS_RemoveElement
  <2>. QED BY <1>1, <2>1
<1>15. ASSUME NEW i \in 0..m - 1
       PROVE  n1[g[i]] = g[After(i, m - 1)] /\ p1[g[i]] = g[Before(i, m - 1)]
  <2>1. CASE i = 0
    <3>1. g[i] = 0 /\ n1[0] = nx[n]
      BY <1>5, <1>9, <1>11, <2>1
    <3>2. CASE m = 1
      <4>1. After(i, m - 1) = 0 /\ Before(i, m - 1) = 0 /\ After(1, m) = 0
        BY <2>1, <3>2 DEF After, Before
      <4>2. nx[n] = 0 /\ p1[0] = 0
        BY <1>1, <1>5, <1>6, <1>11, <4>1
      <4>. QED BY <1>9, <3>1, <4>1, <4>2
    <3>3. CASE m # 1
      <4>1. After(i, m - 1) = 1 /\ Before(i, m - 1) = m - 1 /\ After(1, m) = 2 /\ 2 \in 0..m /\ Before(0, m) = m
            /\ 1 \in 0..m - 1 /\ m - 1 \in 0..m - 1 /\ m - 1 # 0 /\ m - 1 + 1 = m
        BY <1>1, <2>1, <3>3 DEF After, Before
      <4>2. g[1] = f[2]
        BY <1>7, <4>1
      <4>3. g[m - 1] = f[m]
        <5>1. g[m - 1] = f[m - 1 + 1]
          BY <1>7, <4>1, Zenon
        <5>. QED BY <4>1, <5>1
      <4>4. nx[n] # 0
        BY <1>1, <1>3, <1>6, <4>1
      <4>5. p1[0] = f[m]
        <5>1. p[0] = f[m]
          BY <1>1, <1>2, <1>3, <4>1
        <5>. QED BY <1>5, <1>11, <4>4, <5>1
      <4>. QED BY <1>6, <3>1, <4>1, <4>2, <4>3, <4>5
    <3>. QED BY <3>2, <3>3
  <2>2. CASE i # 0
    <3>1. i \in 1..m - 1 /\ g[i] = f[i + 1] /\ i + 1 \in 0..m /\ f[i + 1] # 0 /\ f[i + 1] # n /\ f[i + 1] \in LD!Addresses
      <4>1. i \in 1..m - 1
        BY <2>2, <1>1
      <4>. QED BY <1>7, <1>8, <2>2, <4>1
    <3>2. n1[g[i]] = f[After(i + 1, m)]
      BY <1>2, <1>11, <3>1
    <3>3. g[After(i, m - 1)] = f[After(i + 1, m)]
      <4>1. CASE i = m - 1
        <5>1. After(i, m - 1) = 0 /\ After(i + 1, m) = 0
          BY <1>1, <4>1 DEF After
        <5>. QED BY <1>1, <1>9, <5>1
      <4>2. CASE i # m - 1
        <5>1. After(i, m - 1) = i + 1 /\ After(i + 1, m) = i + 1 + 1 /\ i + 1 \in 0..m - 1 /\ i + 1 # 0
          BY <1>1, <3>1, <4>2 DEF After
        <5>2. PICK k : k = i + 1
          OBVIOUS
        <5>3. g[k] = f[k + 1]
          BY <1>7, <5>1, <5>2
        <5>. QED BY <5>1, <5>2, <5>3
      <4>. QED BY <4>1, <4>2
    <3>4. p1[g[i]] = g[Before(i, m - 1)]
      <4>0. Before(i, m - 1) = i - 1 /\ Before(i + 1, m) = i /\ i - 1 \in 0..m - 1 /\ i \in 0..m
        BY <1>1, <3>1 DEF Before
      <4>1. CASE i = 1
        <5>1. After(1, m) = 2
          BY <1>1, <3>1, <4>1 DEF After
        <5>2. f[i + 1] = nx[n]
          BY <1>6, <4>1, <5>1
        <5>3. p1[g[i]] = 0
          BY <1>11, <3>1, <5>2
        <5>. QED BY <1>9, <4>0, <4>1, <5>3
      <4>2. CASE i # 1
        <5>1. After(1, m) # i + 1 /\ After(1, m) \in 0..m
          BY <1>1, <3>1, <4>2 DEF After
        <5>2. f[i + 1] # nx[n]
          BY <1>1, <1>6, <3>1, <5>1
        <5>3. p1[g[i]] = f[i]
          BY <1>2, <1>11, <3>1, <4>0, <5>2
        <5>4. g[i - 1] = f[i]
          <6>1. i - 1 # 0 /\ i - 1 + 1 = i
            BY <3>1, <4>2
          <6>2. g[i - 1] = f[i - 1 + 1]
            BY <1>7, <4>0, <6>1, Zenon
          <6>. QED BY <6>1, <6>2
        <5>. QED BY <4>0, <5>3, <5>4
      <4>. QED BY <4>1, <4>2
    <3>. QED BY <3>2, <3>3, <3>4
  <2>. QED BY <2>1, <2>2
<1>16. Circle(g, m - 1, v1, p1, n1, lv \ {n})
  BY <1>3, <1>9, <1>10, <1>12, <1>13, <1>14, <1>15 DEF Circle
<1>17. DropFirst(f, m, v, p, nx, lv)
  BY <1>16 DEF DropFirst, g, v1, p1, n1, n
<1>. QED
  BY <1>4, <1>17 DEF n

\* What operator[] finds, following the links from the sentinel on
Walked(nx, idx) == LET step[k \in 0..idx] == nx[IF k = 0 THEN 0 ELSE step[k - 1]]
                   IN  step[idx]
Listed(v, nx, m) == [i \in 1..m |-> v[Walked(nx, i - 1)]]

\* A set of numbers that is not empty has a least one.
LEMMA LeastIndex ==
  ASSUME NEW A \in SUBSET Nat, A # {}
  PROVE  \E m \in A : \A j \in A : m <= j
<1>1. IsWellFoundedOn(OpToRel(<, Nat), Nat)
  BY NatLessThanWellFounded
<1>2. PICK m \in A : \A j \in A : <<j, m>> \notin OpToRel(<, Nat)
  BY <1>1, WFMin
<1>3. \A j \in A : m <= j
  <2>1. \A x, y \in Nat : <<x, y>> \in OpToRel(<, Nat) <=> x < y
    BY DEF OpToRel
  <2>2. \A j \in A : ~(j < m)
    BY <1>2, <2>1, Zenon
  <2>. QED BY <2>2
<1>. QED
  BY <1>3

LEMMA WalkIs ==
  ASSUME NEW f, NEW m, NEW v, NEW p, NEW nx, NEW lv, Circle(f, m, v, p, nx, lv), NEW idx \in 0..m - 1
  PROVE  Walked(nx, idx) = f[idx + 1]
<1> DEFINE Go(g, k) == nx[IF k = 0 THEN 0 ELSE g[k - 1]]
           step == CHOOSE g : g = [k \in 0..idx |-> Go(g, k)]
           w == [k \in 0..idx |-> f[k + 1]]
<1>1. /\ m \in Nat /\ f[0] = 0
      /\ \A i \in 0..m : nx[f[i]] = f[After(i, m)]
  BY DEF Circle
<1>2. \A k \in 0..idx : k \in 0..m /\ After(k, m) = k + 1
  BY <1>1 DEF After
<1>3. \A k \in 0..idx : w[k] = f[k + 1] /\ nx[f[k]] = f[k + 1]
  BY <1>1, <1>2
<1>4. \A k \in 0..idx : w[k] = Go(w, k)
  <2>1. SUFFICES ASSUME NEW k \in 0..idx PROVE w[k] = Go(w, k)
    OBVIOUS
  <2>2. CASE k = 0
    BY <1>1, <1>3, <2>2
  <2>3. CASE k # 0
    <3>1. k - 1 \in 0..idx /\ (k - 1) + 1 = k
      BY <2>3
    <3>2. w[k - 1] = f[k]
      <4>1. PICK j : j = k - 1
        OBVIOUS
      <4>2. w[j] = f[j + 1]
        BY <1>3, <3>1, <4>1
      <4>. QED BY <3>1, <4>1, <4>2
    <3>. QED BY <1>3, <2>3, <3>2
  <2>. QED BY <2>2, <2>3
<1>5. w = [k \in 0..idx |-> Go(w, k)]
  <2>1. w = [k \in 0..idx |-> w[k]]
    OBVIOUS
  <2> HIDE DEF w, Go
  <2>. QED BY <1>4, <2>1
<1>6. step = [k \in 0..idx |-> Go(step, k)]
  <2>1. \E g : g = [k \in 0..idx |-> Go(g, k)]
    <3> HIDE DEF w
    <3>. QED BY <1>5
  <2> HIDE DEF Go
  <2>. QED BY <2>1
<1>7. Walked(nx, idx) = step[idx]
  BY DEF Walked
<1>8. \A k \in 0..idx : step[k] = Go(step, k)
  <2> HIDE DEF step, Go
  <2>. QED BY <1>6
<1>9. \A k \in 0..idx : step[k] = w[k]
  <2> HIDE DEF step, w
  <2>1. SUFFICES ASSUME NEW j \in 0..idx, step[j] # w[j] PROVE FALSE
    OBVIOUS
  <2> DEFINE A == {k \in 0..idx : step[k] # w[k]}
  <2>2. A \in SUBSET Nat /\ A # {}
    BY <2>1
  <2>3. PICK k \in A : \A i \in A : k <= i
    <3> HIDE DEF A
    <3>. QED BY <2>2, LeastIndex, Zenon
  <2>4. k \in 0..idx /\ step[k] # w[k]
    OBVIOUS
  <2>5. step[k] = Go(step, k) /\ w[k] = Go(w, k)
    BY <1>4, <1>8, <2>4
  <2>6. k # 0 => step[k - 1] = w[k - 1]
    <3>1. k # 0 => k - 1 \in 0..idx /\ ~(k <= k - 1)
      BY <2>4
    <3>. QED BY <2>3, <3>1
  <2>. QED BY <2>4, <2>5, <2>6
<1>10. idx \in 0..idx
  OBVIOUS
<1>. QED
  BY <1>3, <1>7, <1>9, <1>10

LEMMA ListHolds ==
  ASSUME NEW f, NEW m, NEW v, NEW p, NEW nx, NEW lv, Circle(f, m, v, p, nx, lv)
  PROVE  /\ Listed(v, nx, m) \in Seq(Cells) /\ Len(Listed(v, nx, m)) = m
         /\ \A i \in 1..m : Listed(v, nx, m)[i] = v[f[i]]
<1>1. m \in Nat /\ \A i \in 1..m : v[f[i]] \in Cells
  BY DEF Circle
<1>2. \A i \in 1..m : Walked(nx, i - 1) = f[i]
  <2>1. SUFFICES ASSUME NEW i \in 1..m PROVE Walked(nx, i - 1) = f[i]
    OBVIOUS
  <2>2. PICK j : j = i - 1
    OBVIOUS
  <2>3. j \in 0..m - 1 /\ j + 1 = i
    BY <1>1, <2>2
  <2>4. Walked(nx, j) = f[j + 1]
    BY <2>3, WalkIs
  <2>. QED BY <2>2, <2>3, <2>4
<1>3. \A i \in 1..m : Listed(v, nx, m)[i] = v[f[i]]
  BY <1>2 DEF Listed
<1>4. Listed(v, nx, m) = [i \in 1..m |-> Listed(v, nx, m)[i]]
  BY DEF Listed
<1>5. Listed(v, nx, m) \in [1..m -> Cells]
  <2>1. \A i \in 1..m : Listed(v, nx, m)[i] \in Cells
    BY <1>1, <1>3
  <2>2. PICK s : s = Listed(v, nx, m)
    OBVIOUS
  <2>. QED BY <1>4, <2>1, <2>2
<1>6. Listed(v, nx, m) \in Seq(Cells) /\ Len(Listed(v, nx, m)) = m
  <2>1. PICK s : s = Listed(v, nx, m)
    OBVIOUS
  <2>. QED BY <1>1, <1>5, <2>1
<1>. QED
  BY <1>3, <1>6

LEMMA ListContents ==
  /\ LD!Contents = Listed(value, next, listSize)
  /\ LD!Contents' = Listed(value', next', listSize')
BY DEF LD!Contents, LD!Node, Listed, Walked, LD!sentinel

\* Sequences, by their items
LEMMA Extended ==
  ASSUME NEW s \in Seq(Cells), NEW t \in Seq(Cells), NEW x \in Cells, Len(t) = Len(s) + 1
  PROVE  /\ t[1] = x /\ (\A i \in 1..Len(s) : t[i + 1] = s[i]) => t = <<x>> \o s
         /\ t[Len(s) + 1] = x /\ (\A i \in 1..Len(s) : t[i] = s[i]) => t = Append(s, x)
<1>1. ASSUME t[1] = x, \A i \in 1..Len(s) : t[i + 1] = s[i]
      PROVE  t = <<x>> \o s
  <2>1. <<x>> \in Seq(Cells) /\ Len(<<x>>) = 1 /\ <<x>>[1] = x
    OBVIOUS
  <2>2. PICK u : u = <<x>> \o s
    OBVIOUS
  <2>3. /\ u \in Seq(Cells) /\ Len(u) = Len(s) + 1
        /\ \A i \in 1..Len(s) + 1 : u[i] = IF i <= 1 THEN x ELSE s[i - 1]
    <3>1. /\ u \in Seq(Cells) /\ Len(u) = Len(<<x>>) + Len(s)
          /\ \A i \in 1..Len(<<x>>) + Len(s) : u[i] = IF i <= Len(<<x>>) THEN <<x>>[i] ELSE s[i - Len(<<x>>)]
      BY <2>1, <2>2, ConcatProperties
    <3>. QED BY <2>1, <3>1
  <2>4. ASSUME NEW i \in 1..Len(t) PROVE t[i] = u[i]
    <3>1. i \in 1..Len(s) + 1 /\ Len(s) \in Nat
      OBVIOUS
    <3>2. CASE i = 1
      BY <1>1, <2>3, <3>1, <3>2
    <3>3. CASE i # 1
      <4>1. PICK j : j = i - 1
        OBVIOUS
      <4>2. j \in 1..Len(s) /\ j + 1 = i /\ ~(i <= 1)
        BY <3>1, <3>3, <4>1
      <4>3. t[i] = s[j]
        BY <1>1, <4>2
      <4>. QED BY <2>3, <3>1, <4>1, <4>2, <4>3
    <3>. QED BY <3>2, <3>3
  <2>. QED BY <2>2, <2>3, <2>4, SeqEqual
<1>2. ASSUME t[Len(s) + 1] = x, \A i \in 1..Len(s) : t[i] = s[i]
      PROVE  t = Append(s, x)
  <2>1. PICK u : u = Append(s, x)
    OBVIOUS
  <2>2. u \in Seq(Cells) /\ Len(u) = Len(s) + 1 /\ u[Len(s) + 1] = x /\ \A i \in 1..Len(s) : u[i] = s[i]
    BY <2>1, AppendProperties
  <2>3. \A i \in 1..Len(t) : t[i] = u[i]
    <3>1. \A i \in 1..Len(t) : i \in 1..Len(s) \/ i = Len(s) + 1
      OBVIOUS
    <3>. QED BY <1>2, <2>2, <3>1
  <2>. QED BY <2>1, <2>2, <2>3, SeqEqual
<1>. QED
  BY <1>1, <1>2

LEMMA Shortened ==
  ASSUME NEW s \in Seq(Cells), NEW t \in Seq(Cells), Len(t) = Len(s) - 1
  PROVE  /\ (\A i \in 1..Len(t) : t[i] = s[i + 1]) => t = Tail(s)
         /\ (\A i \in 1..Len(t) : t[i] = s[i]) => t = SubSeq(s, 1, Len(s) - 1)
<1>0. Len(s) \in Nat /\ Len(s) >= 1 /\ s # <<>>
  <2>1. Len(s) \in Nat /\ Len(t) \in Nat
    OBVIOUS
  <2>. QED BY <2>1
<1>1. ASSUME \A i \in 1..Len(t) : t[i] = s[i + 1]
      PROVE  t = Tail(s)
  <2>1. PICK u : u = Tail(s)
    OBVIOUS
  <2>2. u \in Seq(Cells) /\ Len(u) = Len(s) - 1 /\ \A i \in 1..Len(u) : u[i] = s[i + 1]
    BY <1>0, <2>1, HeadTailProperties
  <2>. QED BY <1>1, <2>1, <2>2, SeqEqual
<1>2. ASSUME \A i \in 1..Len(t) : t[i] = s[i]
      PROVE  t = SubSeq(s, 1, Len(s) - 1)
  <2>0. PICK n : n = Len(s) - 1
    OBVIOUS
  <2>1. PICK u : u = SubSeq(s, 1, n)
    OBVIOUS
  <2>2. n \in Nat /\ n = Len(t)
    BY <1>0, <2>0
  <2>3. /\ u \in Seq(Cells) /\ Len(u) = IF 1 <= n THEN n - 1 + 1 ELSE 0
        /\ \A i \in 1..n - 1 + 1 : u[i] = s[1 + i - 1]
    <3>1. \A i \in 1..n : s[i] \in Cells
      BY <1>0, <2>0
    <3>2. 1 \in Int /\ n \in Int
      BY <2>2
    <3>. QED BY <2>1, <3>1, <3>2, SubSeqProperties
  <2>4. Len(u) = Len(t) /\ \A i \in 1..Len(t) : u[i] = s[i]
    BY <2>2, <2>3
  <2>. QED BY <1>2, <2>0, <2>1, <2>3, <2>4, SeqEqual
<1>. QED
  BY <1>1, <1>2

\* new finds a free address.
LEMMA NewIsFree ==
  ASSUME MaxItems \in Nat, NEW f, NEW m, NEW v, NEW p, NEW nx, Circle(f, m, v, p, nx, live), m < MaxItems
  PROVE  LD!NewNode \in LD!Addresses \ live
<1>1. IsFiniteSet(live) /\ Cardinality(live) = m + 1 /\ m \in Nat
  BY DEF Circle
<1>2. IsFiniteSet(LD!Addresses) /\ Cardinality(LD!Addresses) = MaxItems + 1
  <2>1. 0 \in Int /\ MaxItems \in Int /\ ~(0 > MaxItems)
    OBVIOUS
  <2>2. IsFiniteSet(0..MaxItems) /\ Cardinality(0..MaxItems) = MaxItems - 0 + 1
    BY <2>1, FS_Interval
  <2>. QED BY <2>2 DEF LD!Addresses
<1>3. \E n : n \in LD!Addresses \ live
  <2>1. SUFFICES ASSUME LD!Addresses \in SUBSET live PROVE FALSE
    OBVIOUS
  <2>2. Cardinality(LD!Addresses) <= Cardinality(live)
    BY <1>1, <2>1, FS_Subset
  <2>. QED BY <1>1, <1>2, <2>2
<1>. QED
  BY <1>3 DEF LD!NewNode

\* The items of a circle, however a circle lists them
LEMMA ListedAs ==
  ASSUME NEW f, Circle(f, listSize, value, prev, next, live)
  PROVE  /\ LD!Contents \in Seq(Cells) /\ Len(LD!Contents) = listSize /\ listSize \in Nat
         /\ \A i \in 1..listSize : LD!Contents[i] = value[f[i]]
<1>1. listSize \in Nat
  BY DEF Circle
<1>. QED
  BY <1>1, ListHolds, ListContents

LEMMA ListedAsNext ==
  ASSUME NEW f, Circle(f, listSize', value', prev', next', live')
  PROVE  /\ LD!Contents' \in Seq(Cells) /\ Len(LD!Contents') = listSize' /\ listSize' \in Nat
         /\ \A i \in 1..listSize' : LD!Contents'[i] = value'[f[i]]
<1>1. listSize' \in Nat
  BY DEF Circle
<1>. QED
  BY <1>1, ListHolds, ListContents

LEMMA ListPushFront ==
  ASSUME LInv, MaxItems \in Nat, NEW x \in Items, LD!push_front(x)
  PROVE  LInv' /\ LD!D!push_front(x)
<1>1. PICK f : Circle(f, listSize, value, prev, next, live)
  BY DEF LInv
<1>2. PICK n : n = LD!NewNode
  OBVIOUS
<1>3. /\ listSize < MaxItems /\ listSize' = listSize + 1 /\ listReturned' = <<"push_front", x, None>>
      /\ value' = [value EXCEPT ![n] = x] /\ live' = live \cup {n}
      /\ next' = [next EXCEPT ![n] = next[0], ![0] = n]
      /\ prev' = [prev EXCEPT ![next[0]] = n, ![n] = 0]
  BY <1>2 DEF LD!push_front, LD!Link, LD!sentinel
<1>4. n \in LD!Addresses \ live
  BY <1>1, <1>2, <1>3, NewIsFree
<1>5. x \in Cells
  BY DEF Cells
<1>6. PutFirst(f, listSize, value, prev, next, live, n, x)
  BY <1>1, <1>4, <1>5, PuttingFirst
<1>7. PICK g : g = Put(f, listSize, n)
  OBVIOUS
<1>8. Circle(g, listSize', value', prev', next', live')
  BY <1>3, <1>6, <1>7 DEF PutFirst
<1>9. LD!Contents' = <<x>> \o LD!Contents
  <2>1. PICK s : s = LD!Contents
    OBVIOUS
  <2>2. PICK t : t = LD!Contents'
    OBVIOUS
  <2>3. s \in Seq(Cells) /\ Len(s) = listSize /\ listSize \in Nat /\ \A i \in 1..listSize : s[i] = value[f[i]]
    BY <1>1, <2>1, ListedAs
  <2>4. t \in Seq(Cells) /\ Len(t) = listSize + 1 /\ \A i \in 1..listSize + 1 : t[i] = value'[g[i]]
    BY <1>3, <1>8, <2>2, ListedAsNext
  <2>5. /\ f \in [0..listSize -> LD!Addresses] /\ live = {f[i] : i \in 0..listSize}
        /\ value \in [LD!Addresses -> Cells]
    BY <1>1 DEF Circle
  <2>6. t[1] = x
    <3>1. 1 \in 1..listSize + 1 /\ g[1] = n
      BY <1>7, <2>3 DEF Put
    <3>. QED BY <1>3, <1>4, <2>4, <2>5, <3>1
  <2>7. \A i \in 1..listSize : t[i + 1] = s[i]
    <3>1. SUFFICES ASSUME NEW i \in 1..listSize PROVE t[i + 1] = s[i]
      OBVIOUS
    <3>2. PICK k : k = i + 1
      OBVIOUS
    <3>3. k \in 1..listSize + 1 /\ k \in 0..listSize + 1 /\ k # 0 /\ k # 1 /\ k - 1 = i /\ i \in 0..listSize
      BY <2>3, <3>2
    <3>4. g[k] = f[i]
      BY <1>7, <3>3 DEF Put
    <3>5. f[i] \in LD!Addresses /\ f[i] # n
      BY <1>4, <2>5, <3>3
    <3>6. value'[f[i]] = value[f[i]]
      BY <1>3, <2>5, <3>5
    <3>. QED BY <2>3, <2>4, <3>2, <3>3, <3>4, <3>6
  <2>. QED BY <1>5, <2>1, <2>2, <2>3, <2>4, <2>6, <2>7, Extended
<1>10. LInv'
  BY <1>8 DEF LInv
<1>. QED
  BY <1>3, <1>9, <1>10 DEF LD!D!push_front

LEMMA ListPushBack ==
  ASSUME LInv, MaxItems \in Nat, NEW x \in Items, LD!push_back(x)
  PROVE  LInv' /\ LD!D!push_back(x)
<1>1. PICK f : Circle(f, listSize, value, prev, next, live)
  BY DEF LInv
<1>2. PICK n : n = LD!NewNode
  OBVIOUS
<1>3. /\ listSize < MaxItems /\ listSize' = listSize + 1 /\ listReturned' = <<"push_back", x, None>>
      /\ value' = [value EXCEPT ![n] = x] /\ live' = live \cup {n}
      /\ prev' = [prev EXCEPT ![n] = prev[0], ![0] = n]
      /\ next' = [next EXCEPT ![prev[0]] = n, ![n] = 0]
  BY <1>2 DEF LD!push_back, LD!Link, LD!sentinel
<1>4. n \in LD!Addresses \ live
  BY <1>1, <1>2, <1>3, NewIsFree
<1>5. x \in Cells
  BY DEF Cells
<1>6. PICK b : b = Mirror(f, listSize)
  OBVIOUS
<1>7. Circle(b, listSize, value, next, prev, live)
  BY <1>1, <1>6, Mirrored
<1>8. PutFirst(b, listSize, value, next, prev, live, n, x)
  BY <1>4, <1>5, <1>7, PuttingFirst
<1>9. PICK h : h = Put(b, listSize, n)
  OBVIOUS
<1>10. Circle(h, listSize', value', next', prev', live')
  BY <1>3, <1>8, <1>9 DEF PutFirst
<1>11. PICK g : g = Mirror(h, listSize')
  OBVIOUS
<1>12. Circle(g, listSize', value', prev', next', live')
  BY <1>10, <1>11, Mirrored
<1>13. LD!Contents' = Append(LD!Contents, x)
  <2>1. PICK s : s = LD!Contents
    OBVIOUS
  <2>2. PICK t : t = LD!Contents'
    OBVIOUS
  <2>3. s \in Seq(Cells) /\ Len(s) = listSize /\ listSize \in Nat /\ \A i \in 1..listSize : s[i] = value[f[i]]
    BY <1>1, <2>1, ListedAs
  <2>4. t \in Seq(Cells) /\ Len(t) = listSize + 1 /\ \A i \in 1..listSize + 1 : t[i] = value'[g[i]]
    BY <1>3, <1>12, <2>2, ListedAsNext
  <2>5. /\ f \in [0..listSize -> LD!Addresses] /\ live = {f[i] : i \in 0..listSize}
        /\ value \in [LD!Addresses -> Cells]
    BY <1>1 DEF Circle
  <2>6. t[listSize + 1] = x
    <3>1. PICK k : k = listSize + 1
      OBVIOUS
    <3>2. k \in 0..listSize' /\ k \in 1..listSize + 1 /\ Opposite(k, listSize') = 1 /\ 1 \in 0..listSize + 1
      <4>1. listSize' = k /\ k \in Nat \ {0}
        BY <1>3, <2>3, <3>1
      <4>. QED
        BY <3>1, <4>1 DEF Opposite
    <3>3. g[k] = n
      BY <1>9, <1>11, <3>2 DEF Mirror, Put
    <3>. QED BY <1>3, <1>4, <2>4, <2>5, <3>1, <3>2, <3>3
  <2>7. \A i \in 1..listSize : t[i] = s[i]
    <3>1. SUFFICES ASSUME NEW i \in 1..listSize PROVE t[i] = s[i]
      OBVIOUS
    <3>2. PICK k : k = Opposite(i, listSize')
      OBVIOUS
    <3>3. /\ i \in 1..listSize + 1 /\ i \in 0..listSize' /\ k \in 0..listSize + 1 /\ k # 0 /\ k # 1
          /\ k - 1 \in 0..listSize /\ Opposite(k - 1, listSize) = i /\ i \in 0..listSize
      <4>1. listSize' = listSize + 1
        BY <1>3
      <4>2. listSize \in Nat
        BY <2>3
      <4>. QED
        BY <3>2, <4>1, <4>2 DEF Opposite
    <3>4. g[i] = h[k]
      BY <1>11, <3>2, <3>3 DEF Mirror
    <3>5. h[k] = b[k - 1]
      BY <1>9, <3>3 DEF Put
    <3>6. b[k - 1] = f[i]
      BY <1>6, <3>3 DEF Mirror
    <3>7. f[i] \in LD!Addresses /\ f[i] # n
      BY <1>4, <2>5, <3>3
    <3>8. value'[f[i]] = value[f[i]]
      BY <1>3, <2>5, <3>7
    <3>. QED BY <2>3, <2>4, <3>3, <3>4, <3>5, <3>6, <3>8
  <2>. QED BY <1>5, <2>1, <2>2, <2>3, <2>4, <2>6, <2>7, Extended
<1>14. LInv'
  BY <1>12 DEF LInv
<1>. QED
  BY <1>3, <1>13, <1>14 DEF LD!D!push_back

LEMMA ListRemoveFront ==
  ASSUME LInv, LD!remove_front
  PROVE  LInv' /\ LD!D!remove_front
<1>1. PICK f : Circle(f, listSize, value, prev, next, live)
  BY DEF LInv
<1>2. PICK n : n = next[0]
  OBVIOUS
<1>3. /\ listSize # 0 /\ listSize' = listSize - 1 /\ listReturned' = <<"remove_front", None, value[n]>>
      /\ value' = [value EXCEPT ![n] = None] /\ live' = live \ {n}
      /\ next' = [next EXCEPT ![0] = next[n], ![n] = 0]
      /\ prev' = [prev EXCEPT ![next[n]] = 0, ![n] = 0]
  BY <1>2 DEF LD!remove_front, LD!Delete, LD!sentinel
<1>4. DropFirst(f, listSize, value, prev, next, live) /\ n = f[1]
  BY <1>1, <1>2, <1>3, DroppingFirst
<1>5. PICK g : g = Drop(f, listSize)
  OBVIOUS
<1>6. Circle(g, listSize', value', prev', next', live')
  BY <1>2, <1>3, <1>4, <1>5 DEF DropFirst
<1>7. LD!Contents # <<>> /\ value[n] = LD!Contents[1] /\ LD!Contents' = Tail(LD!Contents)
  <2>1. PICK s : s = LD!Contents
    OBVIOUS
  <2>2. PICK t : t = LD!Contents'
    OBVIOUS
  <2>3. s \in Seq(Cells) /\ Len(s) = listSize /\ listSize \in Nat /\ \A i \in 1..listSize : s[i] = value[f[i]]
    BY <1>1, <2>1, ListedAs
  <2>4. t \in Seq(Cells) /\ Len(t) = listSize - 1 /\ \A i \in 1..listSize - 1 : t[i] = value'[g[i]]
    BY <1>3, <1>6, <2>2, ListedAsNext
  <2>5. /\ f \in [0..listSize -> LD!Addresses] /\ \A i, j \in 0..listSize : f[i] = f[j] => i = j
        /\ value \in [LD!Addresses -> Cells]
    BY <1>1 DEF Circle
  <2>6. s # <<>> /\ value[n] = s[1]
    BY <1>3, <1>4, <2>3
  <2>7. \A i \in 1..Len(t) : t[i] = s[i + 1]
    <3>1. SUFFICES ASSUME NEW i \in 1..listSize - 1 PROVE t[i] = s[i + 1]
      BY <2>4
    <3>2. PICK k : k = i + 1
      OBVIOUS
    <3>3. i \in 0..listSize - 1 /\ i # 0 /\ k \in 0..listSize /\ k \in 1..listSize /\ k # 1 /\ 1 \in 0..listSize
      BY <2>3, <3>2
    <3>4. g[i] = f[k]
      BY <1>5, <3>2, <3>3 DEF Drop
    <3>5. f[k] \in LD!Addresses /\ f[k] # n
      BY <1>4, <2>5, <3>3
    <3>6. value'[f[k]] = value[f[k]]
      BY <1>3, <2>5, <3>5
    <3>. QED BY <2>3, <2>4, <3>2, <3>3, <3>4, <3>6
  <2>8. t = Tail(s)
    BY <2>3, <2>4, <2>7, Shortened
  <2>. QED BY <2>1, <2>2, <2>6, <2>8
<1>8. LInv'
  BY <1>6 DEF LInv
<1>. QED
  BY <1>3, <1>7, <1>8 DEF LD!D!remove_front

LEMMA ListRemoveBack ==
  ASSUME LInv, LD!remove_back
  PROVE  LInv' /\ LD!D!remove_back
<1>1. PICK f : Circle(f, listSize, value, prev, next, live)
  BY DEF LInv
<1>2. PICK n : n = prev[0]
  OBVIOUS
<1>3. /\ listSize # 0 /\ listSize' = listSize - 1 /\ listReturned' = <<"remove_back", None, value[n]>>
      /\ value' = [value EXCEPT ![n] = None] /\ live' = live \ {n}
      /\ prev' = [prev EXCEPT ![0] = prev[n], ![n] = 0]
      /\ next' = [next EXCEPT ![prev[n]] = 0, ![n] = 0]
  BY <1>2 DEF LD!remove_back, LD!Delete, LD!sentinel
<1>4. PICK b : b = Mirror(f, listSize)
  OBVIOUS
<1>5. Circle(b, listSize, value, next, prev, live)
  BY <1>1, <1>4, Mirrored
<1>6. DropFirst(b, listSize, value, next, prev, live) /\ n = b[1]
  BY <1>2, <1>3, <1>5, DroppingFirst
<1>7. PICK h : h = Drop(b, listSize)
  OBVIOUS
<1>8. Circle(h, listSize', value', next', prev', live')
  BY <1>2, <1>3, <1>6, <1>7 DEF DropFirst
<1>9. PICK g : g = Mirror(h, listSize')
  OBVIOUS
<1>10. Circle(g, listSize', value', prev', next', live')
  BY <1>8, <1>9, Mirrored
<1>11. LD!Contents # <<>> /\ value[n] = LD!Contents[Len(LD!Contents)]
       /\ LD!Contents' = SubSeq(LD!Contents, 1, Len(LD!Contents) - 1)
  <2>1. PICK s : s = LD!Contents
    OBVIOUS
  <2>2. PICK t : t = LD!Contents'
    OBVIOUS
  <2>3. s \in Seq(Cells) /\ Len(s) = listSize /\ listSize \in Nat /\ \A i \in 1..listSize : s[i] = value[f[i]]
    BY <1>1, <2>1, ListedAs
  <2>4. t \in Seq(Cells) /\ Len(t) = listSize - 1 /\ \A i \in 1..listSize - 1 : t[i] = value'[g[i]]
    BY <1>3, <1>10, <2>2, ListedAsNext
  <2>5. /\ f \in [0..listSize -> LD!Addresses] /\ \A i, j \in 0..listSize : f[i] = f[j] => i = j
        /\ value \in [LD!Addresses -> Cells]
    BY <1>1 DEF Circle
  <2>6. n = f[listSize] /\ listSize \in 1..listSize /\ listSize \in 0..listSize
    <3>1. 1 \in 0..listSize /\ Opposite(1, listSize) = listSize /\ listSize \in 1..listSize /\ listSize \in 0..listSize
      <4>1. listSize \in Nat \ {0}
        BY <1>3, <2>3
      <4>. QED
        BY <4>1 DEF Opposite
    <3>. QED BY <1>4, <1>6, <3>1 DEF Mirror
  <2>7. s # <<>> /\ value[n] = s[Len(s)]
    BY <1>3, <2>3, <2>6
  <2>8. \A i \in 1..Len(t) : t[i] = s[i]
    <3>1. SUFFICES ASSUME NEW i \in 1..listSize - 1 PROVE t[i] = s[i]
      BY <2>4
    <3>2. PICK k : k = Opposite(i, listSize')
      OBVIOUS
    <3>3. /\ i \in 0..listSize' /\ k \in 0..listSize - 1 /\ k # 0 /\ k + 1 \in 0..listSize
          /\ Opposite(k + 1, listSize) = i /\ i \in 0..listSize /\ i \in 1..listSize /\ i # listSize
      <4>1. listSize' = listSize - 1
        BY <1>3
      <4>2. listSize \in Nat
        BY <2>3
      <4>. QED
        BY <3>2, <4>1, <4>2 DEF Opposite
    <3>4. g[i] = h[k]
      BY <1>9, <3>2, <3>3 DEF Mirror
    <3>5. h[k] = b[k + 1]
      BY <1>7, <3>3 DEF Drop
    <3>6. b[k + 1] = f[i]
      BY <1>4, <3>3 DEF Mirror
    <3>7. f[i] \in LD!Addresses /\ f[i] # n
      BY <2>5, <2>6, <3>3
    <3>8. value'[f[i]] = value[f[i]]
      BY <1>3, <2>5, <3>7
    <3>. QED BY <2>3, <2>4, <3>3, <3>4, <3>5, <3>6, <3>8
  <2>9. t = SubSeq(s, 1, Len(s) - 1)
    BY <2>3, <2>4, <2>8, Shortened
  <2>. QED BY <2>1, <2>2, <2>7, <2>9
<1>12. LInv'
  BY <1>10 DEF LInv
<1>. QED
  BY <1>3, <1>11, <1>12 DEF LD!D!remove_back

LEMMA ListAt ==
  ASSUME LInv, NEW idx \in 0..listSize - 1, LD!at(idx)
  PROVE  LInv' /\ LD!D!Next
<1>1. PICK f : Circle(f, listSize, value, prev, next, live)
  BY DEF LInv
<1>2. /\ listReturned' = <<"at", idx, value[LD!Node(idx)]>>
      /\ value' = value /\ prev' = prev /\ next' = next /\ live' = live /\ listSize' = listSize
  BY DEF LD!at
<1>3. LInv'
  BY <1>1, <1>2 DEF LInv
<1>4. Len(LD!Contents) = listSize /\ listSize \in Nat
  BY <1>1, ListedAs
<1>5. LD!Contents' = LD!Contents
  BY <1>2, ListContents
<1>6. value[LD!Node(idx)] = LD!Contents[idx + 1]
  <2>1. PICK k : k = idx + 1
    OBVIOUS
  <2>2. k \in 1..listSize /\ k - 1 = idx
    BY <1>4, <2>1
  <2>. QED BY <2>1, <2>2 DEF LD!Contents
<1>7. LD!D!at(idx)
  BY <1>2, <1>4, <1>5, <1>6 DEF LD!D!at
<1>. QED
  BY <1>3, <1>4, <1>7 DEF LD!D!Next

LEMMA ListInit ==
  ASSUME LD!Init, MaxItems \in Nat
  PROVE  LInv /\ LD!D!Init
<1>1. /\ value = [n \in LD!Addresses |-> None] /\ prev = [n \in LD!Addresses |-> 0]
      /\ next = [n \in LD!Addresses |-> 0] /\ live = {0} /\ listSize = 0 /\ listReturned = None
  BY DEF LD!Init, LD!sentinel
<1>2. PICK f : f = [i \in 0..0 |-> 0]
  OBVIOUS
<1>3. 0 \in LD!Addresses /\ 0..0 = {0}
  BY DEF LD!Addresses
<1>4. IsFiniteSet({0}) /\ Cardinality({0}) = 0 + 1
  BY FS_Singleton
<1>5. f \in [0..0 -> LD!Addresses] /\ f[0] = 0 /\ live = {f[i] : i \in 0..0}
      /\ \A i, j \in 0..0 : f[i] = f[j] => i = j
  BY <1>1, <1>2, <1>3
<1>6. \A i \in 0..0 : next[f[i]] = f[After(i, 0)] /\ prev[f[i]] = f[Before(i, 0)]
  <2>1. \A i \in 0..0 : i = 0 /\ After(i, 0) = 0 /\ Before(i, 0) = 0
    BY <1>3 DEF After, Before
  <2>. QED BY <1>1, <1>3, <1>5, <2>1
<1>7. value \in [LD!Addresses -> Cells] /\ prev \in [LD!Addresses -> LD!Addresses] /\ next \in [LD!Addresses -> LD!Addresses]
  BY <1>1, <1>3 DEF Cells
<1>8. Circle(f, listSize, value, prev, next, live)
  BY <1>1, <1>4, <1>5, <1>6, <1>7 DEF Circle
<1>9. LD!Contents = <<>>
  <2>1. LD!Contents \in Seq(Cells) /\ Len(LD!Contents) = 0
    BY <1>1, <1>8, ListedAs
  <2>. QED BY <2>1
<1>. QED
  BY <1>1, <1>8, <1>9 DEF LInv, LD!D!Init

LEMMA ListStep ==
  ASSUME LInv, MaxItems \in Nat, [LD!Next]_LD!vars
  PROVE  LInv' /\ [LD!D!Next]_LD!D!vars
<1>1. CASE LD!Next
  <2>1. ASSUME NEW x \in Items, LD!push_front(x) PROVE LInv' /\ LD!D!Next
    BY <2>1, ListPushFront DEF LD!D!Next
  <2>2. ASSUME NEW x \in Items, LD!push_back(x) PROVE LInv' /\ LD!D!Next
    BY <2>2, ListPushBack DEF LD!D!Next
  <2>3. CASE LD!remove_front
    BY <2>3, ListRemoveFront DEF LD!D!Next
  <2>4. CASE LD!remove_back
    BY <2>4, ListRemoveBack DEF LD!D!Next
  <2>5. ASSUME NEW idx \in 0..listSize - 1, LD!at(idx) PROVE LInv' /\ LD!D!Next
    BY <2>5, ListAt
  <2>. QED BY <1>1, <2>1, <2>2, <2>3, <2>4, <2>5 DEF LD!Next
<1>2. CASE UNCHANGED LD!vars
  <2>1. /\ value' = value /\ prev' = prev /\ next' = next /\ live' = live /\ listSize' = listSize
        /\ listReturned' = listReturned
    BY <1>2 DEF LD!vars
  <2>. QED BY <2>1, ListContents DEF LInv, LD!D!vars
<1>. QED
  BY <1>1, <1>2

\* Whatever is pushed and removed at either end (ListDeque in deque.hpp), the links
\* in both directions go around the same items in the same order, and nodes
\* are freed and used again: the deque is a sequence.
THEOREM ListImplementsSequence ==
  ASSUME MaxItems \in Nat
  PROVE  LD!Spec => LD!ListIsSequence
<1>1. LD!Init => LInv /\ LD!D!Init
  BY ListInit
<1>2. LInv /\ [LD!Next]_LD!vars => LInv' /\ [LD!D!Next]_LD!D!vars
  BY ListStep
<1>. QED
  BY <1>1, <1>2, PTL DEF LD!Spec, LD!ListIsSequence, LD!D!Spec

-----------------------------------------------------------------------------
(* The hash table *)

\* The slot of a table of n slots that the probing for k goes to in a step
HashAt(n, k, s) ==
  ((k % n) + (IF probing = "linear" THEN s ELSE (s * (s + 1)) \div 2)) % n

\* Probing for a key comes to every slot.
Visits(n) == \A k \in Nat, p \in 0..n - 1 : \E s \in 0..n - 1 : HashAt(n, k, s) = p

\* No odd number but 1 divides n: n is a power of two.
Divides(n, x) == \E c \in Nat : x = n * c
OddFree(n) == \A a, b \in Nat : a % 2 = 1 /\ Divides(n, a * b) => Divides(n, b)

LEMMA SameCardinality == \A S : HT!Cardinality(S) = Cardinality(S)
  BY DEF HT!Cardinality, Cardinality

LEMMA ProbeIs ==
  ASSUME NEW n \in Nat \ {0}, NEW t, DOMAIN t = 0..n - 1
  PROVE  /\ HT!table_size(t) = n
         /\ \A k, s : HT!Probe(t, k, s) = HashAt(n, k, s)
<1>1. HT!table_size(t) = n
  <2>1. HT!table_size(t) = Cardinality(0..n - 1)
    BY SameCardinality DEF HT!table_size
  <2>. QED BY <2>1, FS_Interval
<1>. QED BY <1>1 DEF HT!Probe, HashAt

LEMMA Remainder ==
  ASSUME NEW n \in Nat \ {0}, NEW x \in Nat
  PROVE  x % n \in 0..n - 1 /\ x = n * (x \div n) + (x % n) /\ x \div n \in Nat
  OBVIOUS

LEMMA Halves ==
  ASSUME NEW s \in Nat
  PROVE  (s * (s + 1)) \div 2 \in Nat /\ 2 * ((s * (s + 1)) \div 2) = s * (s + 1)
<1>1. PICK h \in Nat : s = 2 * h \/ s = 2 * h + 1
  <2>1. s = 2 * (s \div 2) + (s % 2) /\ s \div 2 \in Nat /\ s % 2 \in 0..1
    OBVIOUS
  <2>. QED BY <2>1
<1>2. PICK g \in Nat : s * (s + 1) = 2 * g
  <2>1. CASE s = 2 * h
    <3>1. s * (s + 1) = 2 * (h * (s + 1)) /\ h * (s + 1) \in Nat
      BY <2>1
    <3>. QED BY <3>1
  <2>2. CASE s = 2 * h + 1
    <3>1. s + 1 = 2 * (h + 1)
      BY <2>2
    <3>2. s * (s + 1) = 2 * (s * (h + 1)) /\ s * (h + 1) \in Nat
      BY <3>1
    <3>. QED BY <3>2
  <2>. QED BY <1>1, <2>1, <2>2
<1>3. (2 * g) \div 2 = g
  OBVIOUS
<1>. QED BY <1>2, <1>3

LEMMA HashAtRange ==
  ASSUME NEW n \in Nat \ {0}, NEW k \in Nat, NEW s \in Nat
  PROVE  HashAt(n, k, s) \in 0..n - 1
<1>1. PICK b \in Nat : b = k % n
  BY Remainder
<1>2. PICK d \in Nat : d = IF probing = "linear" THEN s ELSE (s * (s + 1)) \div 2
  BY Halves
<1>3. PICK x \in Nat : x = b + d
  OBVIOUS
<1>4. x % n \in 0..n - 1
  BY Remainder
<1>. QED BY <1>1, <1>2, <1>3, <1>4 DEF HashAt

LEMMA LinearVisits ==
  ASSUME NEW n \in Nat \ {0}, probing = "linear"
  PROVE  Visits(n)
<1>1. SUFFICES ASSUME NEW k \in Nat, NEW p \in 0..n - 1
               PROVE  \E s \in 0..n - 1 : HashAt(n, k, s) = p
  BY DEF Visits
<1>2. PICK b \in 0..n - 1 : b = k % n
  BY Remainder
<1>3. \A s \in 0..n - 1 : HashAt(n, k, s) = IF b + s < n THEN b + s ELSE b + s - n
  <2>1. SUFFICES ASSUME NEW s \in 0..n - 1
                 PROVE  HashAt(n, k, s) = IF b + s < n THEN b + s ELSE b + s - n
    OBVIOUS
  <2>2. PICK x \in 0..2 * n - 1 : x = b + s
    OBVIOUS
  <2>3. HashAt(n, k, s) = x % n
    BY <1>2, <2>2 DEF HashAt
  <2>4. x % n = IF x < n THEN x ELSE x - n
    BY <2>2, Around
  <2>. QED BY <2>2, <2>3, <2>4
<1>4. PICK s \in 0..n - 1 : s = IF p >= b THEN p - b ELSE p - b + n
  <2>1. (IF p >= b THEN p - b ELSE p - b + n) \in 0..n - 1
    OBVIOUS
  <2>. QED BY <2>1, Zenon
<1>5. (IF b + s < n THEN b + s ELSE b + s - n) = p
  BY <1>4
<1>. QED BY <1>3, <1>5

LEMMA OddFreeDoubles ==
  ASSUME NEW n \in Nat \ {0}, OddFree(n)
  PROVE  OddFree(2 * n)
<1>0. PICK m \in Nat : m = 2 * n
  OBVIOUS
<1>1. SUFFICES ASSUME NEW a \in Nat, NEW b \in Nat, a % 2 = 1, Divides(m, a * b)
               PROVE  Divides(m, b)
  BY <1>0 DEF OddFree
<1>2. PICK x \in Nat : a * b = m * x
  BY <1>1 DEF Divides
<1>3. PICK h \in Nat : a = 2 * h + 1
  <2>1. a = 2 * (a \div 2) + (a % 2) /\ a \div 2 \in Nat
    OBVIOUS
  <2>. QED BY <1>1, <2>1
<1>4. PICK g \in Nat : b = 2 * g
  <2>1. a * b = 2 * (h * b) + b /\ h * b \in Nat
    BY <1>3
  <2>2. m * x = 2 * (n * x) /\ n * x \in Nat
    BY <1>0
  <2>3. PICK hb \in Nat, nq \in Nat : hb = h * b /\ nq = n * x
    BY <2>1, <2>2
  <2>4. 2 * hb + b = 2 * nq
    BY <1>2, <2>1, <2>2, <2>3
  <2>5. nq - hb \in Nat /\ b = 2 * (nq - hb)
    BY <2>4
  <2>. QED BY <2>5
<1>5. a * g = n * x
  <2>1. a * b = 2 * (a * g)
    BY <1>4
  <2>2. m * x = 2 * (n * x)
    BY <1>0
  <2>. QED BY <1>2, <2>1, <2>2
<1>6. PICK c \in Nat : g = n * c
  <2>1. Divides(n, a * g)
    BY <1>5 DEF Divides
  <2>2. Divides(n, g)
    BY <1>1, <2>1 DEF OddFree
  <2>. QED BY <2>2 DEF Divides
<1>7. b = m * c
  BY <1>0, <1>4, <1>6
<1>. QED BY <1>7 DEF Divides

\* Two steps that come to the same slot are the same step.
LEMMA QuadraticDistinct ==
  ASSUME NEW n \in Nat \ {0}, OddFree(n), probing # "linear", NEW k \in Nat,
         NEW r \in 0..n - 1, NEW s \in 0..n - 1, r < s
  PROVE  HashAt(n, k, r) # HashAt(n, k, s)
<1>1. SUFFICES ASSUME HashAt(n, k, r) = HashAt(n, k, s) PROVE FALSE
  OBVIOUS
<1>2. PICK b \in 0..n - 1 : b = k % n
  BY Remainder
<1>3. PICK tr \in Nat : tr = (r * (r + 1)) \div 2 /\ 2 * tr = r * (r + 1)
  BY Halves
<1>4. PICK ts \in Nat : ts = (s * (s + 1)) \div 2 /\ 2 * ts = s * (s + 1)
  BY Halves
<1>5. HashAt(n, k, r) = (b + tr) % n /\ HashAt(n, k, s) = (b + ts) % n
  BY <1>2, <1>3, <1>4 DEF HashAt
<1>6. PICK u \in Int : ts - tr = n * u
  <2>1. PICK x \in Nat, y \in Nat : x = b + tr /\ y = b + ts
    OBVIOUS
  <2>2. x = n * (x \div n) + (x % n) /\ x \div n \in Nat
    BY Remainder
  <2>3. y = n * (y \div n) + (y % n) /\ y \div n \in Nat
    BY Remainder
  <2>4. PICK xd \in Nat, yd \in Nat : xd = x \div n /\ yd = y \div n
    BY <2>2, <2>3
  <2>5. PICK z \in 0..n - 1 : z = x % n /\ z = y % n
    <3>1. x % n = y % n
      BY <1>1, <1>5, <2>1, Zenon
    <3>2. x % n \in 0..n - 1
      BY Remainder
    <3>. QED BY <3>1, <3>2
  <2>6. x = n * xd + z /\ y = n * yd + z
    BY <2>2, <2>3, <2>4, <2>5
  <2>7. n * (yd - xd) = n * yd - n * xd
    OBVIOUS
  <2>8. ts - tr = n * (yd - xd)
    BY <2>1, <2>6, <2>7
  <2>9. yd - xd \in Int
    OBVIOUS
  <2>. QED BY <2>8, <2>9, Zenon
<1>7. (s - r) * (s + r + 1) = (2 * n) * u
  <2>1. (s - r) * (s + r + 1) = s * (s + 1) - r * (r + 1)
    OBVIOUS
  <2>2. 2 * (n * u) = (2 * n) * u
    OBVIOUS
  <2>. QED BY <1>3, <1>4, <1>6, <2>1, <2>2
<1>8. PICK d \in 1..n - 1, e \in 1..2 * n - 1 : d = s - r /\ e = s + r + 1
  OBVIOUS
<1>9. u \in Nat
  <2>1. d * e > 0
    OBVIOUS
  <2>2. (2 * n) * u > 0
    BY <1>7, <1>8, <2>1
  <2>. QED BY <2>2
<1>10. PICK m \in Nat : m = 2 * n /\ OddFree(m)
  BY OddFreeDoubles
<1>11. \A c \in Nat : d # (2 * n) * c /\ e # (2 * n) * c
  <2>1. SUFFICES ASSUME NEW c \in Nat PROVE (2 * n) * c = 0 \/ (2 * n) * c >= 2 * n
    OBVIOUS
  <2>. QED OBVIOUS
<1>. d \in Nat /\ e \in Nat
  OBVIOUS
<1>12. CASE d % 2 = 1
  <2>1. d * e = m * u
    BY <1>7, <1>8, <1>10
  <2>2. Divides(m, d * e)
    BY <1>9, <2>1 DEF Divides
  <2>3. Divides(m, e)
    BY <1>10, <1>12, <2>2 DEF OddFree
  <2>. QED BY <1>10, <1>11, <2>3 DEF Divides
<1>13. CASE e % 2 = 1
  <2>1. e * d = m * u
    BY <1>7, <1>8, <1>10
  <2>2. Divides(m, e * d)
    BY <1>9, <2>1 DEF Divides
  <2>3. Divides(m, d)
    BY <1>10, <1>13, <2>2 DEF OddFree
  <2>. QED BY <1>10, <1>11, <2>3 DEF Divides
<1>14. d % 2 = 1 \/ e % 2 = 1
  BY <1>8
<1>. QED BY <1>12, <1>13, <1>14

LEMMA QuadraticVisits ==
  ASSUME NEW n \in Nat \ {0}, OddFree(n), probing # "linear"
  PROVE  Visits(n)
<1>1. SUFFICES ASSUME NEW k \in Nat, NEW p \in 0..n - 1
               PROVE  \E s \in 0..n - 1 : HashAt(n, k, s) = p
  BY DEF Visits
<1>. DEFINE f == [s \in 0..n - 1 |-> HashAt(n, k, s)]
<1>2. f \in [0..n - 1 -> 0..n - 1]
  <2>1. ASSUME NEW s \in 0..n - 1 PROVE HashAt(n, k, s) \in 0..n - 1
    <3>1. s \in Nat
      OBVIOUS
    <3>. QED BY <3>1, HashAtRange
  <2>. QED BY <2>1
<1>3. \A r, s \in 0..n - 1 : f[r] = f[s] => r = s
  <2>1. \A r, s \in 0..n - 1 : r < s => f[r] # f[s]
    BY QuadraticDistinct
  <2>. HIDE DEF f
  <2>. QED BY <2>1
<1>. HIDE DEF f
<1>4. f \in Injection(0..n - 1, 0..n - 1)
  BY <1>2, <1>3 DEF Injection, IsInjective
<1>5. IsFiniteSet(0..n - 1)
  BY FS_Interval
<1>6. f \in Surjection(0..n - 1, 0..n - 1)
  BY <1>4, <1>5, FS_Injection
<1>7. PICK s \in 0..n - 1 : f[s] = p
  BY <1>6 DEF Surjection
<1>. QED BY <1>7 DEF f

Slots == [key : HashKeys \cup {None}, value : Values \cup {None}, empty : BOOLEAN, removed : BOOLEAN]

\* Where the probing for k ends in get: at a slot that was never used, or at the key.
EndsGet(slot, k) == (slot.empty /\ ~slot.removed) \/ slot.key = k
EndsPut(slot, k) == slot.empty \/ slot.key = k

\* The probing for the key in slot i comes to it, past slots that get passes.
Reached(n, t, i) ==
  \E s \in 0..n - 1 :
    /\ HashAt(n, t[i].key, s) = i
    /\ \A r \in 0..s - 1 : ~EndsGet(t[HashAt(n, t[i].key, r)], t[i].key)

Stored(t) == HT!Stored(t)

Placed(n, t) ==
  /\ n \in Nat \ {0} /\ t \in [0..n - 1 -> Slots]
  /\ \A i \in Stored(t) : t[i].key \in HashKeys /\ Reached(n, t, i)
  /\ \A i, j \in Stored(t) : t[i].key = t[j].key => i = j

\* f is t with k stored in a slot that was empty.
Adds(n, t, f, k, v) ==
  \E pos \in 0..n - 1 :
    /\ pos \notin Stored(t) /\ Stored(f) = Stored(t) \cup {pos}
    /\ f[pos].key = k /\ f[pos].value = v
    /\ \A i \in Stored(t) : f[i] = t[i]

\* What Min returns is the least.
LEMMA MinIs ==
  ASSUME NEW S \in SUBSET Nat, S # {}
  PROVE  HT!Min(S) \in S /\ \A x \in S : HT!Min(S) <= x
  BY LeastIndex DEF HT!Min

LEMMA StoredIs ==
  ASSUME NEW n, NEW t \in [0..n - 1 -> Slots]
  PROVE  \A i : i \in Stored(t) <=> i \in 0..n - 1 /\ ~t[i].empty
  BY DEF Stored, HT!Stored

\* Probing ends at the first step of S, if there is one.
LEMMA PositionIs ==
  ASSUME NEW n \in Nat \ {0}, NEW t, DOMAIN t = 0..n - 1, NEW k \in Nat, NEW S \in SUBSET (0..n - 1)
  PROVE  \E s \in 0..n - 1 : /\ HT!Position(t, k, S) = HashAt(n, k, s)
                             /\ \A r \in 0..s - 1 : r \notin S
                             /\ S # {} => s \in S
<1>1. PICK A : A = S \cup {n - 1}
  OBVIOUS
<1>2. A \in SUBSET Nat /\ A # {} /\ \A s \in A : s \in 0..n - 1
  BY <1>1
<1>3. PICK s : s = HT!Min(A) /\ s \in A /\ \A x \in A : s <= x
  BY <1>2, MinIs
<1>4. HT!Position(t, k, S) = HashAt(n, k, s)
  <2>1. HT!table_size(t) = n /\ HT!Probe(t, k, s) = HashAt(n, k, s)
    BY ProbeIs
  <2>. QED BY <1>1, <1>3, <2>1 DEF HT!Position
<1>5. \A r \in 0..s - 1 : r \notin S
  <2>1. SUFFICES ASSUME NEW r \in 0..s - 1, r \in S PROVE FALSE
    OBVIOUS
  <2>2. s <= r /\ s \in 0..n - 1
    BY <1>1, <1>2, <1>3, <2>1
  <2>. QED BY <2>2
<1>6. S # {} => s \in S
  <2>1. SUFFICES ASSUME NEW x \in S, s = n - 1 PROVE s \in S
    BY <1>1, <1>3
  <2>2. s <= x /\ x \in 0..n - 1
    BY <1>1, <1>3
  <2>3. x = s
    BY <2>1, <2>2
  <2>. QED BY <2>3
<1>. QED BY <1>2, <1>3, <1>4, <1>5, <1>6

\* The slot that put, or remove, and the slot that get ends at.
LEMMA EndOfPut ==
  ASSUME NEW n \in Nat \ {0}, NEW t, DOMAIN t = 0..n - 1, NEW k \in Nat
  PROVE  \E s \in 0..n - 1 :
           /\ HT!PositionToPut(t, k) = HashAt(n, k, s)
           /\ \A r \in 0..s - 1 : ~EndsPut(t[HashAt(n, k, r)], k)
           /\ (\E r \in 0..n - 1 : EndsPut(t[HashAt(n, k, r)], k)) => EndsPut(t[HashAt(n, k, s)], k)
<1>. DEFINE S == {r \in 0..n - 1 : EndsPut(t[HashAt(n, k, r)], k)}
<1>1. HT!PositionToPut(t, k) = HT!Position(t, k, S)
  <2>1. HT!Probed(t, k) = [r \in 0..n - 1 |-> t[HashAt(n, k, r)]]
    BY ProbeIs DEF HT!Probed
  <2>2. {r \in DOMAIN HT!Probed(t, k) : HT!Probed(t, k)[r].empty \/ HT!Probed(t, k)[r].key = k} = S
    BY <2>1 DEF EndsPut
  <2>. QED BY <2>2 DEF HT!PositionToPut
<1>2. \A r : r \in S <=> r \in 0..n - 1 /\ EndsPut(t[HashAt(n, k, r)], k)
  OBVIOUS
<1>. HIDE DEF S
<1>3. PICK s \in 0..n - 1 : /\ HT!Position(t, k, S) = HashAt(n, k, s)
                            /\ \A r \in 0..s - 1 : r \notin S
                            /\ S # {} => s \in S
  <2>1. S \in SUBSET (0..n - 1)
    BY <1>2
  <2>. QED BY <2>1, PositionIs
<1>4. \A r \in 0..s - 1 : r \in 0..n - 1
  OBVIOUS
<1>. QED BY <1>1, <1>2, <1>3, <1>4

LEMMA EndOfGet ==
  ASSUME NEW n \in Nat \ {0}, NEW t, DOMAIN t = 0..n - 1, NEW k \in Nat
  PROVE  \E s \in 0..n - 1 :
           /\ HT!PositionToGet(t, k) = HashAt(n, k, s)
           /\ \A r \in 0..s - 1 : ~EndsGet(t[HashAt(n, k, r)], k)
           /\ (\E r \in 0..n - 1 : EndsGet(t[HashAt(n, k, r)], k)) => EndsGet(t[HashAt(n, k, s)], k)
<1>. DEFINE S == {r \in 0..n - 1 : EndsGet(t[HashAt(n, k, r)], k)}
<1>1. HT!PositionToGet(t, k) = HT!Position(t, k, S)
  <2>1. HT!Probed(t, k) = [r \in 0..n - 1 |-> t[HashAt(n, k, r)]]
    BY ProbeIs DEF HT!Probed
  <2>2. {r \in DOMAIN HT!Probed(t, k) : \/ HT!Probed(t, k)[r].empty /\ ~HT!Probed(t, k)[r].removed
                                        \/ HT!Probed(t, k)[r].key = k} = S
    BY <2>1 DEF EndsGet
  <2>. QED BY <2>2 DEF HT!PositionToGet
<1>2. \A r : r \in S <=> r \in 0..n - 1 /\ EndsGet(t[HashAt(n, k, r)], k)
  OBVIOUS
<1>. HIDE DEF S
<1>3. PICK s \in 0..n - 1 : /\ HT!Position(t, k, S) = HashAt(n, k, s)
                            /\ \A r \in 0..s - 1 : r \notin S
                            /\ S # {} => s \in S
  <2>1. S \in SUBSET (0..n - 1)
    BY <1>2
  <2>. QED BY <2>1, PositionIs
<1>4. \A r \in 0..s - 1 : r \in 0..n - 1
  OBVIOUS
<1>. QED BY <1>1, <1>2, <1>3, <1>4

\* Probing for any key comes to an empty slot while there is one.
LEMMA EmptySlotIsProbed ==
  ASSUME NEW n \in Nat \ {0}, NEW t \in [0..n - 1 -> Slots], Visits(n),
         Cardinality(Stored(t)) < n, NEW k \in Nat
  PROVE  \E r \in 0..n - 1 : t[HashAt(n, k, r)].empty
<1>1. \E i \in 0..n - 1 : i \notin Stored(t)
  <2>1. SUFFICES ASSUME \A i \in 0..n - 1 : i \in Stored(t) PROVE FALSE
    OBVIOUS
  <2>2. Stored(t) = 0..n - 1
    BY <2>1, StoredIs
  <2>. QED BY <2>2, FS_Interval
<1>2. PICK i \in 0..n - 1 : t[i].empty
  BY <1>1, StoredIs
<1>3. PICK r \in 0..n - 1 : HashAt(n, k, r) = i
  BY DEF Visits
<1>. QED BY <1>2, <1>3

\* How many slots are stored
Count(t) == Cardinality(Stored(t))

LEMMA StoredFinite ==
  ASSUME NEW n \in Nat \ {0}, NEW t \in [0..n - 1 -> Slots]
  PROVE  IsFiniteSet(Stored(t)) /\ Stored(t) \in SUBSET (0..n - 1)
<1>1. Stored(t) \in SUBSET (0..n - 1)
  BY StoredIs
<1>2. IsFiniteSet(0..n - 1)
  BY FS_Interval
<1>. QED BY <1>1, <1>2, FS_Subset

\* put comes to the slot of k when k is stored where the probing for it meets
\* it, and to an empty slot when it is not stored.
LEMMA PutEnds ==
  ASSUME NEW n, NEW t, Placed(n, t), HashKeys \subseteq Nat, Visits(n), Count(t) < n, NEW k \in HashKeys
  PROVE  /\ HT!PositionToPut(t, k) \in 0..n - 1
         /\ ~t[HT!PositionToPut(t, k)].empty =>
              HT!PositionToPut(t, k) \in Stored(t) /\ t[HT!PositionToPut(t, k)].key = k
<1>1. n \in Nat \ {0} /\ t \in [0..n - 1 -> Slots] /\ DOMAIN t = 0..n - 1 /\ k \in Nat
  BY DEF Placed
<1>2. PICK s \in 0..n - 1 :
           /\ HT!PositionToPut(t, k) = HashAt(n, k, s)
           /\ (\E r \in 0..n - 1 : EndsPut(t[HashAt(n, k, r)], k)) => EndsPut(t[HashAt(n, k, s)], k)
  BY <1>1, EndOfPut
<1>3. \E r \in 0..n - 1 : EndsPut(t[HashAt(n, k, r)], k)
  BY <1>1, EmptySlotIsProbed DEF EndsPut, Count
<1>4. HashAt(n, k, s) \in 0..n - 1
  <2>1. s \in Nat
    OBVIOUS
  <2>. QED BY <1>1, <2>1, HashAtRange
<1>. QED BY <1>1, <1>2, <1>3, <1>4, StoredIs DEF EndsPut

LEMMA PutNew ==
  ASSUME NEW n, NEW t, Placed(n, t), HashKeys \subseteq Nat, Visits(n), Count(t) < n,
         NEW k \in HashKeys, NEW v \in Values \cup {None}, \A i \in Stored(t) : t[i].key # k
  PROVE  /\ Placed(n, HT!Filled(t, k, v)) /\ Adds(n, t, HT!Filled(t, k, v), k, v)
         /\ HT!Filled(t, k, v) # t
<1>1. n \in Nat \ {0} /\ t \in [0..n - 1 -> Slots] /\ DOMAIN t = 0..n - 1 /\ k \in Nat
  BY DEF Placed
<1>2. PICK s \in 0..n - 1 :
           /\ HT!PositionToPut(t, k) = HashAt(n, k, s)
           /\ \A r \in 0..s - 1 : ~EndsPut(t[HashAt(n, k, r)], k)
  BY <1>1, EndOfPut
<1>3. PICK pos \in 0..n - 1 : pos = HT!PositionToPut(t, k)
  BY PutEnds
<1>4. t[pos].empty /\ pos \notin Stored(t)
  BY <1>1, <1>3, PutEnds, StoredIs
<1>5. PICK slot \in Slots : slot = [key |-> k, value |-> v, empty |-> FALSE, removed |-> FALSE]
  BY DEF Slots
<1>6. PICK f : f = [t EXCEPT ![pos] = slot]
  OBVIOUS
<1>7. HT!Filled(t, k, v) = f
  BY <1>3, <1>4, <1>5, <1>6 DEF HT!Filled
<1>8. slot.key = k /\ slot.value = v /\ ~slot.empty
  BY <1>5
<1>9. /\ f \in [0..n - 1 -> Slots] /\ f[pos] = slot
      /\ \A i \in 0..n - 1 : i # pos => f[i] = t[i]
  BY <1>1, <1>6
<1>10. \A i : i \in Stored(f) <=> i \in Stored(t) \/ i = pos
  <2>1. \A i : i \in Stored(f) <=> i \in 0..n - 1 /\ ~f[i].empty
    BY <1>9, StoredIs
  <2>2. \A i : i \in Stored(t) <=> i \in 0..n - 1 /\ ~t[i].empty
    BY <1>1, StoredIs
  <2>. QED BY <1>4, <1>8, <1>9, <2>1, <2>2
<1>11. Adds(n, t, f, k, v)
  <2>1. Stored(f) = Stored(t) \cup {pos}
    BY <1>10
  <2>2. \A i \in Stored(t) : f[i] = t[i]
    BY <1>1, <1>4, <1>9, StoredIs
  <2>. QED BY <1>4, <1>8, <1>9, <2>1, <2>2 DEF Adds
<1>12. f # t
  BY <1>4, <1>8, <1>9
<1>13. \A i \in Stored(f) : f[i].key \in HashKeys
  BY <1>1, <1>4, <1>8, <1>9, <1>10, StoredIs DEF Placed
<1>14. \A i, j \in Stored(f) : f[i].key = f[j].key => i = j
  <2>1. \A i \in Stored(t) : i # pos /\ f[i].key = t[i].key
    BY <1>1, <1>4, <1>9, StoredIs
  <2>. QED BY <1>8, <1>9, <1>10, <2>1 DEF Placed
<1>15. ASSUME NEW i \in Stored(f) PROVE Reached(n, f, i)
  <2>1. CASE i = pos
    <3>1. f[i].key = k /\ HashAt(n, k, s) = i
      BY <1>2, <1>3, <1>8, <1>9, <2>1
    <3>2. ASSUME NEW r \in 0..s - 1 PROVE ~EndsGet(f[HashAt(n, k, r)], k)
      <4>1. ~t[HashAt(n, k, r)].empty /\ t[HashAt(n, k, r)].key # k
        BY <1>2 DEF EndsPut
      <4>2. HashAt(n, k, r) # pos /\ HashAt(n, k, r) \in 0..n - 1
        <5>1. r \in Nat
          OBVIOUS
        <5>. QED BY <1>1, <1>4, <4>1, <5>1, HashAtRange
      <4>. QED BY <1>9, <4>1, <4>2 DEF EndsGet
    <3>. QED BY <3>1, <3>2 DEF Reached
  <2>2. CASE i # pos
    <3>1. i \in Stored(t) /\ f[i] = t[i] /\ t[i].key \in Nat /\ t[i].key # k
      BY <1>1, <1>9, <1>10, <2>2, StoredIs DEF Placed
    <3>2. PICK u \in 0..n - 1 :
            /\ HashAt(n, t[i].key, u) = i
            /\ \A r \in 0..u - 1 : ~EndsGet(t[HashAt(n, t[i].key, r)], t[i].key)
      BY <3>1 DEF Placed, Reached
    <3>3. ASSUME NEW r \in 0..u - 1 PROVE ~EndsGet(f[HashAt(n, t[i].key, r)], t[i].key)
      <4>1. PICK a \in 0..n - 1 : a = HashAt(n, t[i].key, r)
        <5>1. r \in Nat
          OBVIOUS
        <5>. QED BY <1>1, <3>1, <5>1, HashAtRange
      <4>2. ~EndsGet(t[a], t[i].key)
        BY <3>2, <4>1
      <4>3. ~EndsGet(f[a], t[i].key)
        BY <1>8, <1>9, <3>1, <4>2 DEF EndsGet
      <4>. QED BY <4>1, <4>3
    <3>. QED BY <3>1, <3>2, <3>3 DEF Reached
  <2>. QED BY <2>1, <2>2
<1>16. Placed(n, f)
  BY <1>1, <1>9, <1>13, <1>14, <1>15 DEF Placed
<1>. QED BY <1>7, <1>11, <1>12, <1>16

\* Storing one key more counts one more.
LEMMA AddsOne ==
  ASSUME NEW n \in Nat \ {0}, NEW t \in [0..n - 1 -> Slots], NEW f, NEW k, NEW v, Adds(n, t, f, k, v)
  PROVE  Count(f) = Count(t) + 1
<1>1. PICK pos : pos \notin Stored(t) /\ Stored(f) = Stored(t) \cup {pos}
  BY DEF Adds
<1>. QED BY <1>1, StoredFinite, FS_AddElement DEF Count

Tombstone(t, pos) == [t EXCEPT ![pos].empty = TRUE, ![pos].removed = TRUE]

\* A removed slot stays in the way of the keys behind it.
LEMMA RemoveOld ==
  ASSUME NEW n, NEW t, Placed(n, t), HashKeys \subseteq Nat, NEW pos \in Stored(t),
         NEW f, f = Tombstone(t, pos)
  PROVE  /\ Placed(n, f) /\ Stored(f) = Stored(t) \ {pos} /\ Count(f) = Count(t) - 1
         /\ \A i \in Stored(f) : f[i] = t[i]
<1>1. n \in Nat \ {0} /\ t \in [0..n - 1 -> Slots] /\ pos \in 0..n - 1
  BY StoredIs DEF Placed
<1>2. /\ f \in [0..n - 1 -> Slots]
      /\ f[pos].empty /\ f[pos].removed /\ f[pos].key = t[pos].key
      /\ \A i \in 0..n - 1 : i # pos => f[i] = t[i]
  <2>1. t[pos] \in Slots
    BY <1>1
  <2>. QED BY <1>1, <2>1 DEF Slots, Tombstone
<1>3. \A i : i \in Stored(f) <=> i \in Stored(t) /\ i # pos
  <2>1. \A i : i \in Stored(f) <=> i \in 0..n - 1 /\ ~f[i].empty
    BY <1>2, StoredIs
  <2>2. \A i : i \in Stored(t) <=> i \in 0..n - 1 /\ ~t[i].empty
    BY <1>1, StoredIs
  <2>. QED BY <1>1, <1>2, <2>1, <2>2, Zenon
<1>4. \A i \in Stored(f) : i \in Stored(t) /\ i # pos /\ f[i] = t[i]
  BY <1>1, <1>2, <1>3, StoredIs
<1>5. ASSUME NEW i \in Stored(f) PROVE Reached(n, f, i)
  <2>1. i \in Stored(t) /\ f[i] = t[i] /\ t[i].key \in Nat /\ t[i].key # t[pos].key
    BY <1>4 DEF Placed
  <2>2. PICK u \in 0..n - 1 :
          /\ HashAt(n, t[i].key, u) = i
          /\ \A r \in 0..u - 1 : ~EndsGet(t[HashAt(n, t[i].key, r)], t[i].key)
    BY <2>1 DEF Placed, Reached
  <2>3. ASSUME NEW r \in 0..u - 1 PROVE ~EndsGet(f[HashAt(n, t[i].key, r)], t[i].key)
    <3>1. PICK a \in 0..n - 1 : a = HashAt(n, t[i].key, r)
      <4>1. r \in Nat
        OBVIOUS
      <4>. QED BY <1>1, <2>1, <4>1, HashAtRange
    <3>2. ~EndsGet(t[a], t[i].key)
      BY <2>2, <3>1
    <3>3. ~EndsGet(f[a], t[i].key)
      BY <1>2, <2>1, <3>2 DEF EndsGet
    <3>. QED BY <3>1, <3>3
  <2>. QED BY <2>1, <2>2, <2>3 DEF Reached
<1>6. Placed(n, f)
  <2>1. \A i, j \in Stored(f) : f[i].key = f[j].key => i = j
    <3>1. \A i, j \in Stored(t) : t[i].key = t[j].key => i = j
      BY DEF Placed
    <3>2. SUFFICES ASSUME NEW i \in Stored(f), NEW j \in Stored(f), f[i].key = f[j].key
                   PROVE  i = j
      OBVIOUS
    <3>3. i \in Stored(t) /\ j \in Stored(t) /\ t[i].key = t[j].key
      BY <1>4, <3>2
    <3>. QED BY <3>1, <3>3
  <2>2. \A i \in Stored(f) : f[i].key \in HashKeys
    <3>1. \A i \in Stored(t) : t[i].key \in HashKeys
      BY DEF Placed
    <3>. QED BY <1>4, <3>1, Zenon
  <2>. QED BY <1>1, <1>2, <1>5, <2>1, <2>2, Zenon DEF Placed
<1>7. Stored(f) = Stored(t) \ {pos}
  BY <1>3
<1>8. Count(f) = Count(t) - 1
  BY <1>1, <1>7, StoredFinite, FS_RemoveElement DEF Count
<1>. QED BY <1>4, <1>6, <1>7, <1>8

\* get finds a key exactly when it is stored.
LEMMA GetFinds ==
  ASSUME NEW n, NEW t, Placed(n, t), HashKeys \subseteq Nat, NEW k \in HashKeys
  PROVE  /\ HT!Holds(t[HT!PositionToGet(t, k)], k) => HT!PositionToGet(t, k) \in Stored(t)
         /\ \A i \in Stored(t) : t[i].key = k => HT!PositionToGet(t, k) = i
<1>1. n \in Nat \ {0} /\ t \in [0..n - 1 -> Slots] /\ DOMAIN t = 0..n - 1 /\ k \in Nat
  BY DEF Placed
<1>2. PICK s \in 0..n - 1 :
           /\ HT!PositionToGet(t, k) = HashAt(n, k, s)
           /\ \A r \in 0..s - 1 : ~EndsGet(t[HashAt(n, k, r)], k)
           /\ (\E r \in 0..n - 1 : EndsGet(t[HashAt(n, k, r)], k)) => EndsGet(t[HashAt(n, k, s)], k)
  BY <1>1, EndOfGet
<1>3. HashAt(n, k, s) \in 0..n - 1
  <2>1. s \in Nat
    OBVIOUS
  <2>. QED BY <1>1, <2>1, HashAtRange
<1>4. ASSUME HT!Holds(t[HT!PositionToGet(t, k)], k) PROVE HT!PositionToGet(t, k) \in Stored(t)
  BY <1>1, <1>2, <1>3, <1>4, StoredIs DEF HT!Holds
<1>5. ASSUME NEW i \in Stored(t), t[i].key = k PROVE HashAt(n, k, s) = i
  <2>1. PICK u \in 0..n - 1 :
          /\ HashAt(n, k, u) = i
          /\ \A r \in 0..u - 1 : ~EndsGet(t[HashAt(n, k, r)], k)
    BY <1>5 DEF Placed, Reached
  <2>2. EndsGet(t[HashAt(n, k, u)], k)
    BY <1>5, <2>1 DEF EndsGet
  <2>3. EndsGet(t[HashAt(n, k, s)], k)
    BY <1>2, <2>2
  <2>4. ~(u < s) /\ ~(s < u)
    BY <1>2, <2>1, <2>2, <2>3
  <2>5. u = s
    BY <2>4
  <2>. QED BY <2>1, <2>5
<1>. QED BY <1>2, <1>4, <1>5

\* t and u hold the same keys, with the same values.
SameEntries(t, u) ==
  /\ \A j \in Stored(t) : \E p \in Stored(u) : u[p].key = t[j].key /\ u[p].value = t[j].value
  /\ \A p \in Stored(u) : \E j \in Stored(t) : u[p].key = t[j].key /\ u[p].value = t[j].value

\* The part of t below slot i
Below(t, i) == {j \in Stored(t) : j < i}

\* u holds what is stored in t below slot i.
MovedTo(n, t, i, u) ==
  /\ Placed(2 * n, u) /\ Count(u) = Cardinality(Below(t, i))
  /\ \A j \in Below(t, i) : \E p \in Stored(u) : u[p].key = t[j].key /\ u[p].value = t[j].value
  /\ \A p \in Stored(u) : \E j \in Below(t, i) : u[p].key = t[j].key /\ u[p].value = t[j].value

LEMMA EmptyPlaced ==
  ASSUME NEW n \in Nat \ {0}
  PROVE  Placed(n, HT!EmptyTable(n)) /\ Stored(HT!EmptyTable(n)) = {} /\ Count(HT!EmptyTable(n)) = 0
<1>1. HT!EmptyTable(n) \in [0..n - 1 -> Slots] /\ \A i \in 0..n - 1 : HT!EmptyTable(n)[i].empty
  BY DEF HT!EmptyTable, HT!EmptySlot, Slots
<1>2. Stored(HT!EmptyTable(n)) = {}
  BY <1>1, StoredIs
<1>. QED BY <1>1, <1>2, FS_EmptySet DEF Placed, Count

\* One turn of the loop of enlarge_table
LEMMA MoveOne ==
  ASSUME NEW n, NEW t, Placed(n, t), HashKeys \subseteq Nat, Visits(2 * n), NEW i \in 0..n - 1,
         NEW u, MovedTo(n, t, i, u)
  PROVE  MovedTo(n, t, i + 1, IF t[i].empty THEN u ELSE HT!Filled(u, t[i].key, t[i].value))
<1>1. /\ n \in Nat \ {0} /\ t \in [0..n - 1 -> Slots] /\ Placed(2 * n, u)
      /\ 2 * n \in Nat \ {0} /\ u \in [0..(2 * n) - 1 -> Slots]
  BY DEF Placed, MovedTo
<1>2. \A j : j \in Stored(t) <=> j \in 0..n - 1 /\ ~t[j].empty
  BY <1>1, StoredIs
<1>3. \A j, m : j \in Below(t, m) <=> j \in Stored(t) /\ j < m
  BY DEF Below
<1>4. CASE t[i].empty
  <2>1. \A j : j \in Below(t, i + 1) <=> j \in Below(t, i)
    <3>1. SUFFICES ASSUME NEW j \in Stored(t) PROVE j < i + 1 <=> j < i
      BY <1>3
    <3>2. j \in 0..n - 1 /\ j # i
      BY <1>2, <1>4
    <3>. QED BY <3>2
  <2>2. Below(t, i + 1) = Below(t, i)
    BY <2>1
  <2>. QED BY <1>4, <2>2 DEF MovedTo
<1>5. CASE ~t[i].empty
  <2>. DEFINE f == HT!Filled(u, t[i].key, t[i].value)
  <2>1. i \in Stored(t) /\ t[i].key \in HashKeys /\ t[i].value \in Values \cup {None}
    <3>1. i \in Stored(t)
      BY <1>2, <1>5
    <3>2. t[i] \in Slots
      BY <1>1
    <3>. QED BY <3>1, <3>2 DEF Placed, Slots
  <2>2. \A p \in Stored(u) : u[p].key # t[i].key
    <3>1. SUFFICES ASSUME NEW p \in Stored(u), u[p].key = t[i].key PROVE FALSE
      OBVIOUS
    <3>2. PICK j \in Below(t, i) : u[p].key = t[j].key
      BY DEF MovedTo
    <3>3. j \in Stored(t) /\ j < i /\ j \in 0..n - 1
      BY <1>2, <1>3
    <3>4. j = i
      BY <2>1, <3>1, <3>2, <3>3 DEF Placed
    <3>. QED BY <3>3, <3>4
  <2>3. IsFiniteSet(Below(t, i)) /\ Cardinality(Below(t, i)) <= i
    <3>1. Below(t, i) \in SUBSET (0..i - 1)
      <4>1. SUFFICES ASSUME NEW j \in Below(t, i) PROVE j \in 0..i - 1
        OBVIOUS
      <4>2. j \in 0..n - 1 /\ j < i
        BY <1>2, <1>3
      <4>. QED BY <4>2
    <3>2. IsFiniteSet(0..i - 1) /\ Cardinality(0..i - 1) = i
      BY FS_Interval, SMTT(60)
    <3>. QED BY <3>1, <3>2, FS_Subset
  <2>4. Count(u) < 2 * n
    <3>1. Count(u) = Cardinality(Below(t, i)) /\ Count(u) \in Nat
      BY <2>3, FS_CardinalityType DEF MovedTo
    <3>. QED BY <1>1, <2>3, <3>1
  <2>5. Placed(2 * n, f) /\ Adds(2 * n, u, f, t[i].key, t[i].value)
    <3>1. PICK m : m = 2 * n
      OBVIOUS
    <3>. QED BY <1>1, <2>1, <2>2, <2>4, <3>1, PutNew
  <2>. HIDE DEF f
  <2>6. PICK pos : /\ pos \notin Stored(u) /\ Stored(f) = Stored(u) \cup {pos}
                   /\ f[pos].key = t[i].key /\ f[pos].value = t[i].value
                   /\ \A p \in Stored(u) : f[p] = u[p]
    BY <2>5 DEF Adds
  <2>7. Below(t, i + 1) = Below(t, i) \cup {i} /\ i \notin Below(t, i)
    <3>1. \A j \in Stored(t) : j < i + 1 <=> (j < i \/ j = i)
      <4>1. SUFFICES ASSUME NEW j \in Stored(t) PROVE j < i + 1 <=> (j < i \/ j = i)
        OBVIOUS
      <4>2. j \in 0..n - 1
        BY <1>2
      <4>. QED BY <4>2
    <3>2. \A j : j \in Below(t, i + 1) <=> j \in Below(t, i) \/ j = i
      BY <1>3, <2>1, <3>1, Zenon
    <3>3. i \notin Below(t, i)
      <4>1. ~(i < i)
        OBVIOUS
      <4>. QED BY <1>3, <4>1, Zenon
    <3>. QED BY <3>2, <3>3
  <2>8. Count(f) = Cardinality(Below(t, i + 1))
    <3>1. Count(f) = Count(u) + 1
      BY <1>1, <2>5, AddsOne
    <3>2. Cardinality(Below(t, i + 1)) = Cardinality(Below(t, i)) + 1
      BY <2>3, <2>7, FS_AddElement
    <3>. QED BY <3>1, <3>2 DEF MovedTo
  <2>9. \A j \in Below(t, i + 1) : \E p \in Stored(f) : f[p].key = t[j].key /\ f[p].value = t[j].value
    <3>1. SUFFICES ASSUME NEW j \in Below(t, i)
                   PROVE  \E p \in Stored(f) : f[p].key = t[j].key /\ f[p].value = t[j].value
      BY <2>6, <2>7
    <3>2. PICK p \in Stored(u) : u[p].key = t[j].key /\ u[p].value = t[j].value
      BY DEF MovedTo
    <3>. QED BY <2>6, <3>2
  <2>10. \A p \in Stored(f) : \E j \in Below(t, i + 1) : f[p].key = t[j].key /\ f[p].value = t[j].value
    <3>1. SUFFICES ASSUME NEW p \in Stored(u)
                   PROVE  \E j \in Below(t, i + 1) : f[p].key = t[j].key /\ f[p].value = t[j].value
      BY <2>6, <2>7
    <3>2. PICK j \in Below(t, i) : u[p].key = t[j].key /\ u[p].value = t[j].value
      BY DEF MovedTo
    <3>. QED BY <2>6, <2>7, <3>2
  <2>11. MovedTo(n, t, i + 1, f)
    BY <2>5, <2>8, <2>9, <2>10 DEF MovedTo
  <2>. QED BY <1>5, <2>11 DEF f
<1>. QED BY <1>4, <1>5

\* The table of twice the size holds what was stored.
LEMMA Enlarging ==
  ASSUME NEW n, NEW t, Placed(n, t), HashKeys \subseteq Nat, Visits(2 * n)
  PROVE  /\ Placed(2 * n, HT!Enlarged(t)) /\ Count(HT!Enlarged(t)) = Count(t)
         /\ SameEntries(t, HT!Enlarged(t))
<1>. DEFINE Turn(g, i) == IF i = 0 THEN HT!EmptyTable(2 * n)
                          ELSE IF t[i - 1].empty THEN g[i - 1]
                          ELSE HT!Filled(g[i - 1], t[i - 1].key, t[i - 1].value)
            moved == CHOOSE g : g = [i \in 0..n |-> Turn(g, i)]
            Sofar(m) == \E g : \A i \in 0..m : g[i] = Turn(g, i)
            A == {m \in 0..n : ~Sofar(m)}
<1>1. n \in Nat \ {0} /\ t \in [0..n - 1 -> Slots] /\ DOMAIN t = 0..n - 1
  BY DEF Placed
<1>2. ASSUME NEW i, NEW f, NEW g, i # 0 => f[i - 1] = g[i - 1] PROVE Turn(f, i) = Turn(g, i)
  BY <1>2
<1>3. Sofar(n)
  <2>. HIDE DEF Turn
  <2>1. SUFFICES ASSUME A # {} PROVE FALSE
    <3>1. n \in 0..n
      BY <1>1
    <3>. HIDE DEF Sofar
    <3>. QED BY <3>1
  <2>2. A \in SUBSET Nat
    BY <1>1
  <2>3. PICK m \in A : \A x \in A : m <= x
    <3>. HIDE DEF A
    <3>. QED BY <2>1, <2>2, LeastIndex
  <2>4. m \in 0..n /\ ~Sofar(m)
    OBVIOUS
  <2>5. CASE m = 0
    <3>. DEFINE g == [i \in 0..0 |-> Turn(<<>>, 0)]
    <3>1. Turn(g, 0) = Turn(<<>>, 0)
      BY <1>2
    <3>2. g[0] = Turn(<<>>, 0)
      OBVIOUS
    <3>3. \A i \in 0..m : i = 0
      BY <2>5
    <3>. HIDE DEF g
    <3>. QED BY <2>4, <3>1, <3>2, <3>3
  <2>6. CASE m # 0
    <3>1. m - 1 \in 0..n /\ ~(m <= m - 1)
      BY <1>1, <2>4, <2>6
    <3>2. Sofar(m - 1)
      BY <2>3, <3>1
    <3>3. PICK f : \A i \in 0..m - 1 : f[i] = Turn(f, i)
      BY <3>2
    <3>. DEFINE g == [i \in 0..m |-> IF i = m THEN Turn(f, m) ELSE f[i]]
    <3>4. g[m] = Turn(f, m) /\ \A i \in 0..m - 1 : g[i] = f[i]
      BY <2>4
    <3>. HIDE DEF g
    <3>5. ASSUME NEW i \in 0..m PROVE g[i] = Turn(g, i)
      <4>1. i # 0 => i - 1 \in 0..m - 1
        BY <2>4
      <4>2. Turn(g, i) = Turn(f, i)
        BY <1>2, <3>4, <4>1
      <4>3. i = m \/ i \in 0..m - 1
        BY <2>4
      <4>. QED BY <3>3, <3>4, <4>2, <4>3
    <3>. QED BY <2>4, <3>5
  <2>. QED BY <2>5, <2>6
<1>4. moved = [i \in 0..n |-> Turn(moved, i)]
  <2>1. PICK f : \A i \in 0..n : f[i] = Turn(f, i)
    BY <1>3
  <2>. HIDE DEF Turn
  <2>. DEFINE g == [i \in 0..n |-> f[i]]
  <2>2. \A i \in 0..n : g[i] = f[i]
    OBVIOUS
  <2>3. \A i \in 0..n : g[i] = Turn(g, i)
    <3>1. SUFFICES ASSUME NEW i \in 0..n PROVE g[i] = Turn(g, i)
      OBVIOUS
    <3>2. i # 0 => i - 1 \in 0..n
      BY <1>1
    <3>. HIDE DEF g
    <3>3. Turn(g, i) = Turn(f, i)
      BY <1>2, <2>2, <3>2
    <3>. QED BY <2>1, <2>2, <3>3
  <2>4. g = [i \in 0..n |-> Turn(g, i)]
    <3>1. g = [i \in 0..n |-> g[i]]
      OBVIOUS
    <3>. HIDE DEF g
    <3>. QED BY <2>3, <3>1
  <2>. HIDE DEF g
  <2>. QED BY <2>4
<1>5. HT!Enlarged(t) = moved[n]
  BY <1>1, ProbeIs DEF HT!Enlarged
<1>6. \A i \in 0..n : moved[i] = Turn(moved, i)
  <2>. HIDE DEF moved, Turn
  <2>. QED BY <1>4
<1>. DEFINE B == {i \in 0..n : ~MovedTo(n, t, i, moved[i])}
<1>7. MovedTo(n, t, n, moved[n])
  <2>. HIDE DEF moved, Turn
  <2>1. SUFFICES ASSUME B # {} PROVE FALSE
    BY <1>1
  <2>2. B \in SUBSET Nat
    BY <1>1
  <2>3. PICK m \in B : \A x \in B : m <= x
    <3>. HIDE DEF B
    <3>. QED BY <2>1, <2>2, LeastIndex
  <2>4. m \in 0..n /\ ~MovedTo(n, t, m, moved[m])
    OBVIOUS
  <2>5. moved[m] = Turn(moved, m)
    BY <1>6, <2>4
  <2>6. CASE m = 0
    <3>1. moved[m] = HT!EmptyTable(2 * n)
      BY <2>5, <2>6 DEF Turn
    <3>2. Below(t, m) = {}
      <4>1. \A j \in Stored(t) : ~(j < 0)
        <5>1. Stored(t) \in SUBSET (0..n - 1)
          BY <1>1, StoredFinite
        <5>. QED BY <1>1, <5>1
      <4>. QED BY <2>6, <4>1 DEF Below
    <3>3. PICK k \in Nat \ {0} : k = 2 * n
      BY <1>1
    <3>4. Placed(k, HT!EmptyTable(k)) /\ Stored(HT!EmptyTable(k)) = {} /\ Count(HT!EmptyTable(k)) = 0
      BY EmptyPlaced
    <3>. QED BY <2>4, <3>1, <3>2, <3>3, <3>4, FS_EmptySet DEF MovedTo
  <2>7. CASE m # 0
    <3>1. PICK i \in 0..n - 1 : m = i + 1 /\ i = m - 1
      BY <1>1, <2>4, <2>7
    <3>2. i \in 0..n /\ ~(m <= i)
      BY <1>1, <3>1
    <3>3. MovedTo(n, t, i, moved[i])
      BY <2>3, <3>2
    <3>4. moved[m] = IF t[i].empty THEN moved[i] ELSE HT!Filled(moved[i], t[i].key, t[i].value)
      BY <2>5, <2>7, <3>1 DEF Turn
    <3>5. MovedTo(n, t, i + 1, moved[m])
      BY <3>3, <3>4, MoveOne
    <3>. QED BY <2>4, <3>1, <3>5
  <2>. QED BY <2>6, <2>7
<1>8. Below(t, n) = Stored(t)
  <2>1. \A j \in Stored(t) : j < n
    <3>1. Stored(t) \in SUBSET (0..n - 1)
      BY <1>1, StoredFinite
    <3>. QED BY <1>1, <3>1
  <2>. QED BY <2>1 DEF Below
<1>. HIDE DEF moved
<1>9. PICK u : u = HT!Enlarged(t) /\ MovedTo(n, t, n, u)
  BY <1>5, <1>7
<1>10. Placed(2 * n, u) /\ Count(u) = Count(t) /\ SameEntries(t, u)
  BY <1>8, <1>9 DEF MovedTo, SameEntries, Count
<1>. QED BY <1>9, <1>10

HashAssumption ==
  /\ {"put", "remove"} \subseteq Careful
  /\ HashKeys \subseteq Nat /\ Probings \subseteq {"linear", "quadratic"}
  /\ InitialSize \in Nat \ {0}
  /\ "quadratic" \in Probings => OddFree(InitialSize)

\* The table of n slots is at most half full, and every key can be found.
HashOK(n, t, sz) ==
  /\ Placed(n, t) /\ sz = Count(t) /\ 2 * sz <= n
  /\ probing \in Probings /\ (probing = "quadratic" => OddFree(n))

HashInv == HashOK(HT!table_size(table), table, hashSize)

LEMMA ProbingVisits ==
  ASSUME NEW n \in Nat \ {0}, probing \in Probings, HashAssumption,
         probing = "quadratic" => OddFree(n)
  PROVE  /\ Visits(n) /\ Visits(2 * n)
         /\ probing = "quadratic" => OddFree(2 * n)
<1>1. 2 * n \in Nat \ {0}
  OBVIOUS
<1>2. probing # "linear" => probing = "quadratic"
  BY DEF HashAssumption
<1>3. CASE probing = "linear"
  <2>1. probing # "quadratic"
    BY <1>3
  <2>. QED BY <1>1, <1>3, <2>1, LinearVisits
<1>4. CASE probing # "linear"
  BY <1>1, <1>2, <1>4, OddFreeDoubles, QuadraticVisits
<1>. QED BY <1>3, <1>4

\* The map that a table stands for
MapOf(t) == [k \in {t[i].key : i \in Stored(t)} |->
               t[CHOOSE i \in Stored(t) : t[i].key = k].value]

LEMMA MapOfIs ==
  ASSUME NEW n, NEW t, Placed(n, t)
  PROVE  /\ \A k : k \in DOMAIN MapOf(t) <=> \E i \in Stored(t) : t[i].key = k
         /\ \A i \in Stored(t) : MapOf(t)[t[i].key] = t[i].value
         /\ MapOf(t) = [k \in DOMAIN MapOf(t) |-> MapOf(t)[k]]
<1>1. \A k : k \in DOMAIN MapOf(t) <=> \E i \in Stored(t) : t[i].key = k
  BY DEF MapOf
<1>2. ASSUME NEW i \in Stored(t) PROVE MapOf(t)[t[i].key] = t[i].value
  <2>1. PICK j : j = CHOOSE x \in Stored(t) : t[x].key = t[i].key
    OBVIOUS
  <2>2. MapOf(t)[t[i].key] = t[j].value
    BY <2>1 DEF MapOf
  <2>3. j \in Stored(t) /\ t[j].key = t[i].key
    BY <2>1
  <2>4. j = i
    BY <2>3 DEF Placed
  <2>. QED BY <2>2, <2>4
<1>3. MapOf(t) = [k \in DOMAIN MapOf(t) |-> MapOf(t)[k]]
  BY DEF MapOf
<1>. QED BY <1>1, <1>2, <1>3

OneMore(m, k, v) == [j \in DOMAIN m \cup {k} |-> IF j = k THEN v ELSE m[j]]
OneLess(m, k)    == [j \in DOMAIN m \ {k} |-> m[j]]

LEMMA MapWithOneMore ==
  ASSUME NEW n, NEW t, Placed(n, t), NEW f, Placed(n, f), NEW k, NEW v, Adds(n, t, f, k, v),
         \A i \in Stored(t) : t[i].key # k
  PROVE  MapOf(f) = OneMore(MapOf(t), k, v)
<1>1. PICK pos : /\ Stored(f) = Stored(t) \cup {pos} /\ f[pos].key = k /\ f[pos].value = v
                 /\ \A i \in Stored(t) : f[i] = t[i]
  BY DEF Adds
<1>2. \A j : j \in DOMAIN MapOf(f) <=> j \in DOMAIN MapOf(t) \cup {k}
  BY <1>1, MapOfIs
<1>3. ASSUME NEW j \in DOMAIN MapOf(f) PROVE MapOf(f)[j] = IF j = k THEN v ELSE MapOf(t)[j]
  <2>1. PICK i \in Stored(f) : f[i].key = j
    BY MapOfIs
  <2>2. MapOf(f)[j] = f[i].value
    BY <2>1, MapOfIs
  <2>3. CASE i = pos
    BY <1>1, <2>1, <2>2, <2>3
  <2>4. CASE i # pos
    <3>1. i \in Stored(t) /\ f[i] = t[i] /\ t[i].key = j
      BY <1>1, <2>1, <2>4
    <3>2. MapOf(t)[j] = t[i].value /\ j # k
      BY <3>1, MapOfIs
    <3>. QED BY <2>2, <3>1, <3>2
  <2>. QED BY <2>3, <2>4
<1>4. MapOf(f) = [j \in DOMAIN MapOf(f) |-> MapOf(f)[j]]
  BY MapOfIs
<1>5. DOMAIN MapOf(f) = DOMAIN MapOf(t) \cup {k}
  BY <1>2
<1>. QED BY <1>3, <1>4, <1>5 DEF OneMore

LEMMA MapWithOneLess ==
  ASSUME NEW n, NEW t, Placed(n, t), NEW f, Placed(n, f), NEW pos \in Stored(t),
         Stored(f) = Stored(t) \ {pos}, \A i \in Stored(f) : f[i] = t[i]
  PROVE  MapOf(f) = OneLess(MapOf(t), t[pos].key)
<1>1. \A j : j \in DOMAIN MapOf(f) <=> j \in DOMAIN MapOf(t) \ {t[pos].key}
  <2>1. ASSUME NEW j \in DOMAIN MapOf(f) PROVE j \in DOMAIN MapOf(t) /\ j # t[pos].key
    <3>1. PICK i \in Stored(f) : f[i].key = j
      BY MapOfIs
    <3>2. i \in Stored(t) /\ i # pos /\ t[i].key = j
      BY <3>1
    <3>. QED BY <3>2, MapOfIs DEF Placed
  <2>2. ASSUME NEW j \in DOMAIN MapOf(t), j # t[pos].key PROVE j \in DOMAIN MapOf(f)
    <3>1. PICK i \in Stored(t) : t[i].key = j
      BY MapOfIs
    <3>2. i \in Stored(f) /\ f[i].key = j
      BY <2>2, <3>1
    <3>. QED BY <3>2, MapOfIs
  <2>. QED BY <2>1, <2>2
<1>2. ASSUME NEW j \in DOMAIN MapOf(f) PROVE MapOf(f)[j] = MapOf(t)[j]
  <2>1. PICK i \in Stored(f) : f[i].key = j
    BY MapOfIs
  <2>2. i \in Stored(t) /\ f[i] = t[i]
    BY <2>1
  <2>. QED BY <2>1, <2>2, MapOfIs
<1>3. MapOf(f) = [j \in DOMAIN MapOf(f) |-> MapOf(f)[j]]
  BY MapOfIs
<1>4. DOMAIN MapOf(f) = DOMAIN MapOf(t) \ {t[pos].key}
  BY <1>1
<1>. QED BY <1>2, <1>3, <1>4 DEF OneLess

LEMMA MapOfSame ==
  ASSUME NEW n, NEW t, Placed(n, t), NEW m, NEW u, Placed(m, u), SameEntries(t, u)
  PROVE  MapOf(u) = MapOf(t)
<1>1. DOMAIN MapOf(u) = DOMAIN MapOf(t)
  <2>1. \A j : j \in DOMAIN MapOf(u) <=> j \in DOMAIN MapOf(t)
    BY MapOfIs DEF SameEntries
  <2>. QED BY <2>1
<1>2. ASSUME NEW j \in DOMAIN MapOf(u) PROVE MapOf(u)[j] = MapOf(t)[j]
  <2>1. PICK p \in Stored(u) : u[p].key = j
    BY MapOfIs
  <2>2. PICK i \in Stored(t) : u[p].key = t[i].key /\ u[p].value = t[i].value
    BY DEF SameEntries
  <2>. QED BY <2>1, <2>2, MapOfIs
<1>. QED BY <1>1, <1>2, MapOfIs

LEMMA ContentsAre ==
  /\ HT!Contents = MapOf(table) /\ HT!Contents' = MapOf(table')
  /\ \A k : k \in HT!StoredKeys <=> \E i \in Stored(table) : table[i].key = k
<1>1. HT!Contents = MapOf(table)
  BY DEF HT!Contents, HT!StoredKeys, HT!ValueOf, MapOf, Stored
<1>2. HT!Contents' = MapOf(table')
  BY DEF HT!Contents, HT!StoredKeys, HT!ValueOf, HT!Stored, MapOf, Stored
<1>. QED BY <1>1, <1>2 DEF HT!StoredKeys, Stored

\* The parts of the invariant when the kind of probing stays
LEMMA HashInvNext ==
  ASSUME probing' = probing, NEW n, n = HT!table_size(table'), HashOK(n, table', hashSize')
  PROVE  HashInv'
<1>. DEFINE At(m, k, s) == ((k % m) + (IF probing = "linear" THEN s ELSE (s * (s + 1)) \div 2)) % m
<1>1. \A m, k, s : HashAt(m, k, s) = At(m, k, s)
  BY DEF HashAt
<1>2. PICK t : t = table'
  OBVIOUS
<1>3. PICK sz : sz = hashSize'
  OBVIOUS
<1>4. HashInv' <=> /\ n \in Nat \ {0} /\ t \in [0..n - 1 -> Slots]
                   /\ \A i \in Stored(t) : t[i].key \in HashKeys /\ Reached(n, t, i)'
                   /\ \A i, j \in Stored(t) : t[i].key = t[j].key => i = j
                   /\ sz = Count(t) /\ 2 * sz <= n
                   /\ probing \in Probings /\ (probing = "quadratic" => OddFree(n))
  BY <1>2, <1>3 DEF HashInv, HashOK, Placed, Count, Stored, HT!Stored, HT!table_size, Slots, Reached, HashAt
<1>5. \A i : Reached(n, t, i)' <=> Reached(n, t, i)
  BY DEF Reached, HashAt
<1>. QED BY <1>2, <1>3, <1>4, <1>5 DEF HashOK, Placed

LEMMA HashState ==
  ASSUME HashAssumption, HashInv
  PROVE  \E n \in Nat \ {0} :
           /\ n = HT!table_size(table) /\ table \in [0..n - 1 -> Slots] /\ Placed(n, table)
           /\ hashSize = Count(table) /\ hashSize \in Nat /\ 2 * hashSize <= n /\ Count(table) < n
           /\ HashKeys \subseteq Nat /\ Visits(n) /\ Visits(2 * n)
           /\ probing \in Probings /\ (probing = "quadratic" => OddFree(n) /\ OddFree(2 * n))
<1>1. PICK n : n = HT!table_size(table) /\ HashOK(n, table, hashSize)
  BY DEF HashInv
<1>2. /\ n \in Nat \ {0} /\ table \in [0..n - 1 -> Slots] /\ Placed(n, table)
      /\ hashSize = Count(table) /\ 2 * hashSize <= n /\ HashKeys \subseteq Nat
      /\ probing \in Probings /\ (probing = "quadratic" => OddFree(n))
  BY <1>1 DEF HashOK, Placed, HashAssumption
<1>3. Visits(n) /\ Visits(2 * n) /\ (probing = "quadratic" => OddFree(2 * n))
  BY <1>2, ProbingVisits
<1>4. hashSize \in Nat /\ Count(table) < n
  <2>1. hashSize \in Nat
    BY <1>2, StoredFinite, FS_CardinalityType DEF Count
  <2>. QED BY <1>2, <2>1
<1>. QED BY <1>1, <1>2, <1>3, <1>4

LEMMA HashPut ==
  ASSUME HashAssumption, HashInv, NEW k \in HashKeys, NEW v \in Values, HT!Met(k), HT!put(k, v)
  PROVE  HashInv' /\ HT!D!put(k, v)
<1>1. PICK n \in Nat \ {0} :
        /\ n = HT!table_size(table) /\ table \in [0..n - 1 -> Slots] /\ Placed(n, table)
        /\ hashSize = Count(table) /\ hashSize \in Nat /\ 2 * hashSize <= n /\ Count(table) < n
        /\ HashKeys \subseteq Nat /\ Visits(n) /\ Visits(2 * n)
        /\ probing \in Probings /\ (probing = "quadratic" => OddFree(n) /\ OddFree(2 * n))
  BY HashState
<1>2. PICK f : f = HT!Filled(table, k, v)
  OBVIOUS
<1>3. /\ probing' = probing
      /\ \/ /\ f # table /\ hashSize' = hashSize + 1 /\ hashReturned' = <<"put", k, TRUE>>
            /\ table' = IF 2 * (hashSize + 1) <= n THEN f ELSE HT!Enlarged(f)
         \/ f = table /\ hashReturned' = <<"put", k, FALSE>> /\ table' = table /\ hashSize' = hashSize
  BY <1>1, <1>2 DEF HT!put
<1>4. CASE \E i \in Stored(table) : table[i].key = k
  <2>1. k \in HT!StoredKeys
    BY <1>4, ContentsAre
  <2>2. ~table[HT!PositionToPut(table, k)].empty
    BY <2>1 DEF HT!Met, HT!Holds
  <2>3. f = table
    BY <1>2, <2>2 DEF HT!Filled
  <2>4. HashInv'
    BY <1>1, <1>3, <2>3, HashInvNext DEF HashInv
  <2>5. k \in DOMAIN HT!Contents /\ HT!Contents' = HT!Contents
    BY <1>1, <1>3, <1>4, <2>3, ContentsAre, MapOfIs
  <2>. QED BY <1>3, <2>3, <2>4, <2>5 DEF HT!D!put
<1>5. CASE \A i \in Stored(table) : table[i].key # k
  <2>1. Placed(n, f) /\ Adds(n, table, f, k, v) /\ f # table
    BY <1>1, <1>2, <1>5, PutNew
  <2>2. Count(f) = hashSize + 1
    BY <1>1, <2>1, AddsOne
  <2>3. MapOf(f) = OneMore(MapOf(table), k, v)
    BY <1>1, <1>5, <2>1, MapWithOneMore
  <2>4. /\ hashSize' = hashSize + 1 /\ hashReturned' = <<"put", k, TRUE>>
        /\ table' = IF 2 * (hashSize + 1) <= n THEN f ELSE HT!Enlarged(f)
    BY <1>3, <2>1
  <2>5. HashInv' /\ MapOf(table') = MapOf(f)
    <3>1. CASE 2 * (hashSize + 1) <= n
      <4>1. table' = f
        BY <2>4, <3>1
      <4>2. DOMAIN f = 0..n - 1
        BY <2>1 DEF Placed
      <4>3. HT!table_size(f) = n
        BY <4>2, ProbeIs
      <4>4. HashOK(n, f, hashSize + 1)
        BY <1>1, <2>1, <2>2, <3>1 DEF HashOK
      <4>. QED BY <1>3, <2>4, <4>1, <4>3, <4>4, HashInvNext
    <3>2. CASE ~(2 * (hashSize + 1) <= n)
      <4>1. PICK u : u = HT!Enlarged(f) /\ table' = u
        BY <2>4, <3>2
      <4>2. Placed(2 * n, u) /\ Count(u) = Count(f) /\ SameEntries(f, u)
        BY <1>1, <2>1, <4>1, Enlarging
      <4>3. PICK m \in Nat \ {0} : m = 2 * n
        OBVIOUS
      <4>4. DOMAIN u = 0..m - 1
        BY <4>2, <4>3 DEF Placed
      <4>5. HT!table_size(u) = m
        BY <4>4, ProbeIs
      <4>6. 2 * (hashSize + 1) <= m
        BY <1>1, <4>3
      <4>7. HashOK(m, u, hashSize + 1)
        BY <1>1, <2>2, <4>2, <4>3, <4>6 DEF HashOK
      <4>8. MapOf(u) = MapOf(f)
        BY <2>1, <4>2, MapOfSame
      <4>. QED BY <1>3, <2>4, <4>1, <4>5, <4>7, <4>8, HashInvNext
    <3>. QED BY <3>1, <3>2
  <2>6. k \notin DOMAIN HT!Contents
    BY <1>1, <1>5, ContentsAre, MapOfIs
  <2>7. HT!Contents' = OneMore(HT!Contents, k, v)
    BY <2>3, <2>5, ContentsAre
  <2>. QED BY <2>4, <2>5, <2>6, <2>7 DEF HT!D!put, OneMore
<1>. QED BY <1>4, <1>5

LEMMA HashRemove ==
  ASSUME HashAssumption, HashInv, NEW k \in HashKeys, HT!Met(k), HT!remove(k)
  PROVE  HashInv' /\ HT!D!remove(k)
<1>1. PICK n \in Nat \ {0} :
        /\ n = HT!table_size(table) /\ table \in [0..n - 1 -> Slots] /\ Placed(n, table)
        /\ hashSize = Count(table) /\ hashSize \in Nat /\ 2 * hashSize <= n /\ Count(table) < n
        /\ HashKeys \subseteq Nat /\ Visits(n) /\ Visits(2 * n)
        /\ probing \in Probings /\ (probing = "quadratic" => OddFree(n) /\ OddFree(2 * n))
  BY HashState
<1>2. PICK pos \in 0..n - 1 : pos = HT!PositionToPut(table, k)
  BY <1>1, PutEnds
<1>3. /\ probing' = probing
      /\ \/ /\ HT!Holds(table[pos], k) /\ hashSize' = hashSize - 1
            /\ table' = [table EXCEPT ![pos].empty = TRUE, ![pos].removed = TRUE]
            /\ hashReturned' = <<"remove", k, TRUE>>
         \/ /\ ~HT!Holds(table[pos], k)
            /\ hashReturned' = <<"remove", k, FALSE>> /\ table' = table /\ hashSize' = hashSize
  BY <1>2 DEF HT!remove
<1>4. CASE /\ ~HT!Holds(table[pos], k)
           /\ hashReturned' = <<"remove", k, FALSE>> /\ table' = table /\ hashSize' = hashSize
  <2>1. HashInv'
    BY <1>1, <1>3, <1>4, HashInvNext DEF HashInv
  <2>2. HT!Contents' = HT!Contents
    BY <1>4, ContentsAre
  <2>3. k \notin HT!StoredKeys
    BY <1>2, <1>4 DEF HT!Met
  <2>4. k \notin DOMAIN HT!Contents
    BY <2>3 DEF HT!Contents
  <2>. QED BY <1>4, <2>1, <2>2, <2>4 DEF HT!D!remove
<1>5. CASE /\ HT!Holds(table[pos], k) /\ hashSize' = hashSize - 1
           /\ table' = [table EXCEPT ![pos].empty = TRUE, ![pos].removed = TRUE]
           /\ hashReturned' = <<"remove", k, TRUE>>
  <2>1. pos \in Stored(table) /\ table[pos].key = k
    BY <1>1, <1>5, StoredIs DEF HT!Holds
  <2>2. PICK f : f = Tombstone(table, pos) /\ table' = f
    BY <1>5 DEF Tombstone
  <2>3. /\ Placed(n, f) /\ Stored(f) = Stored(table) \ {pos} /\ Count(f) = Count(table) - 1
        /\ \A i \in Stored(f) : f[i] = table[i]
    BY <1>1, <2>1, <2>2, RemoveOld, SMTT(60)
  <2>4. MapOf(f) = OneLess(MapOf(table), k)
    <3>1. Placed(n, table)
      BY <1>1
    <3>2. MapOf(f) = OneLess(MapOf(table), table[pos].key)
      BY <2>1, <2>3, <3>1, MapWithOneLess
    <3>. QED BY <2>1, <3>2
  <2>5. DOMAIN f = 0..n - 1
    BY <2>3 DEF Placed
  <2>6. HT!table_size(f) = n
    BY <2>5, ProbeIs
  <2>7. HashOK(n, f, hashSize - 1)
    BY <1>1, <2>3 DEF HashOK
  <2>8. HashInv'
    BY <1>3, <1>5, <2>2, <2>6, <2>7, HashInvNext
  <2>9. k \in DOMAIN HT!Contents
    BY <1>1, <2>1, ContentsAre, MapOfIs
  <2>10. HT!Contents' = OneLess(HT!Contents, k)
    BY <2>2, <2>4, ContentsAre
  <2>. QED BY <1>5, <2>8, <2>9, <2>10 DEF HT!D!remove, OneLess
<1>. QED BY <1>3, <1>4, <1>5

LEMMA HashGet ==
  ASSUME HashAssumption, HashInv, NEW k \in HashKeys, HT!get(k)
  PROVE  HashInv' /\ HT!D!get(k)
<1>1. PICK n \in Nat \ {0} :
        /\ n = HT!table_size(table) /\ table \in [0..n - 1 -> Slots] /\ Placed(n, table)
        /\ HashKeys \subseteq Nat
  BY HashState
<1>2. PICK pos : pos = HT!PositionToGet(table, k)
  OBVIOUS
<1>3. /\ probing' = probing /\ table' = table /\ hashSize' = hashSize
      /\ hashReturned' = <<"get", k, IF HT!Holds(table[pos], k) THEN table[pos].value ELSE None>>
  BY <1>2 DEF HT!get
<1>4. HashInv'
  BY <1>1, <1>3, HashInvNext DEF HashInv
<1>5. HT!Contents' = HT!Contents
  BY <1>3, ContentsAre
<1>6. (IF HT!Holds(table[pos], k) THEN table[pos].value ELSE None)
        = (IF k \in DOMAIN HT!Contents THEN HT!Contents[k] ELSE None)
  <2>1. CASE \E i \in Stored(table) : table[i].key = k
    <3>1. PICK i \in Stored(table) : table[i].key = k
      BY <2>1
    <3>2. pos = i
      BY <1>1, <1>2, <3>1, GetFinds
    <3>3. HT!Holds(table[pos], k)
      BY <1>1, <3>1, <3>2, StoredIs DEF HT!Holds
    <3>4. k \in DOMAIN HT!Contents /\ HT!Contents[k] = table[i].value
      BY <1>1, <3>1, ContentsAre, MapOfIs
    <3>. QED BY <3>2, <3>3, <3>4
  <2>2. CASE \A i \in Stored(table) : table[i].key # k
    <3>1. k \notin DOMAIN HT!Contents
      BY <1>1, <2>2, ContentsAre, MapOfIs
    <3>2. ~HT!Holds(table[pos], k)
      <4>1. SUFFICES ASSUME HT!Holds(table[pos], k) PROVE FALSE
        OBVIOUS
      <4>2. pos \in Stored(table) /\ table[pos].key = k
        BY <1>1, <1>2, <4>1, GetFinds DEF HT!Holds
      <4>. QED BY <2>2, <4>2
    <3>. QED BY <3>1, <3>2
  <2>. QED BY <2>1, <2>2
<1>. QED BY <1>3, <1>4, <1>5, <1>6 DEF HT!D!get

LEMMA HashStep ==
  ASSUME HashAssumption, HashInv, [HT!Next]_HT!vars
  PROVE  HashInv' /\ [HT!D!Next]_HT!D!vars
<1>1. CASE HT!Next
  <2>1. ASSUME NEW k \in HashKeys, NEW v \in Values, HT!Met(k), HT!put(k, v) PROVE HashInv' /\ HT!D!Next
    BY <2>1, HashPut DEF HT!D!Next
  <2>2. ASSUME NEW k \in HashKeys, HT!Met(k), HT!remove(k) PROVE HashInv' /\ HT!D!Next
    BY <2>2, HashRemove DEF HT!D!Next
  <2>3. ASSUME NEW k \in HashKeys, HT!get(k) PROVE HashInv' /\ HT!D!Next
    BY <2>3, HashGet DEF HT!D!Next
  <2>4. PICK k \in HashKeys : \/ HT!Met(k) /\ \E v \in Values : HT!put(k, v)
                              \/ HT!Met(k) /\ HT!remove(k)
                              \/ HT!get(k)
    BY <1>1 DEF HT!Next, HashAssumption
  <2>. QED BY <2>1, <2>2, <2>3, <2>4
<1>2. CASE UNCHANGED HT!vars
  <2>1. probing' = probing /\ table' = table /\ hashSize' = hashSize /\ hashReturned' = hashReturned
    BY <1>2 DEF HT!vars
  <2>2. HashInv'
    BY <2>1, HashInvNext DEF HashInv
  <2>3. HT!Contents' = HT!Contents
    BY <2>1, ContentsAre
  <2>. QED BY <2>1, <2>2, <2>3 DEF HT!D!vars
<1>. QED BY <1>1, <1>2

LEMMA HashInit ==
  ASSUME HashAssumption, HT!Init
  PROVE  HashInv /\ HT!D!Init
<1>1. /\ InitialSize \in Nat \ {0} /\ probing \in Probings /\ table = HT!EmptyTable(InitialSize)
      /\ hashSize = 0 /\ hashReturned = None /\ (probing = "quadratic" => OddFree(InitialSize))
  BY DEF HT!Init, HashAssumption
<1>2. Placed(InitialSize, table) /\ Stored(table) = {} /\ Count(table) = 0
  BY <1>1, EmptyPlaced
<1>3. HT!table_size(table) = InitialSize
  <2>1. DOMAIN table = 0..InitialSize - 1
    BY <1>2 DEF Placed
  <2>. QED BY <1>1, <2>1, ProbeIs
<1>4. HashInv
  BY <1>1, <1>2, <1>3 DEF HashInv, HashOK
<1>5. HT!Contents = [j \in {} |-> None]
  <2>1. MapOf(table) = [j \in DOMAIN MapOf(table) |-> MapOf(table)[j]] /\ DOMAIN MapOf(table) = {}
    BY <1>2, MapOfIs
  <2>. QED BY <2>1, ContentsAre
<1>. QED BY <1>1, <1>4, <1>5 DEF HT!D!Init

\* INITIAL_TABLE_SIZE is a power of two.
LEMMA SixtyFour == OddFree(64)
<1>1. OddFree(1)
  BY DEF OddFree, Divides
<1>2. OddFree(2) /\ OddFree(4) /\ OddFree(8) /\ OddFree(16) /\ OddFree(32) /\ OddFree(64)
  <2>1. OddFree(2 * 1)
    BY <1>1, OddFreeDoubles
  <2>2. OddFree(2 * 2)
    BY <2>1, OddFreeDoubles
  <2>3. OddFree(2 * 4)
    BY <2>2, OddFreeDoubles
  <2>4. OddFree(2 * 8)
    BY <2>3, OddFreeDoubles
  <2>5. OddFree(2 * 16)
    BY <2>4, OddFreeDoubles
  <2>6. OddFree(2 * 32)
    BY <2>5, OddFreeDoubles
  <2>. QED BY <2>1, <2>2, <2>3, <2>4, <2>5, <2>6
<1>. QED BY <1>2

\* With linear probing, or with quadratic probing on a table whose size is a power
\* of two, through any number of enlargements, put stores every key that is not
\* stored and refuses the others, remove takes out every key that is, and get finds
\* exactly the stored keys, behind any number of removed slots, and returns their
\* values.  It is for callers that are careful: put and remove of hash_table.hpp
\* stop at a removed slot, so neither is called for a key stored behind one.
THEOREM TableImplementsMap ==
  ASSUME HashAssumption
  PROVE  HT!Spec => TableIsMap
<1>1. HT!Init => HashInv /\ HT!D!Init
  BY HashInit
<1>2. HashInv /\ [HT!Next]_HT!vars => HashInv' /\ [HT!D!Next]_HT!D!vars
  BY HashStep
<1>. QED
  BY <1>1, <1>2, PTL DEF HT!Spec, TableIsMap, HT!TableIsMap, HT!D!Spec

\* The table of the code, which starts with INITIAL_TABLE_SIZE slots, for callers
\* that are careful in the same way.
COROLLARY TableOf64ImplementsMap ==
  ASSUME HashKeys \subseteq Nat, Probings \subseteq {"linear", "quadratic"}, InitialSize = 64,
         {"put", "remove"} \subseteq Careful
  PROVE  HT!Spec => TableIsMap
<1>1. HashAssumption
  BY SixtyFour DEF HashAssumption
<1>. QED BY <1>1, TableImplementsMap

-----------------------------------------------------------------------------
(* Both deques *)

\* ArrayDeque and ListDeque in deque.hpp keep the one promise of a deque: used
\* with any items, as long as the array starts with two cells or more, each
\* gives back at either end, and at any index, what a sequence would.
COROLLARY DequesImplementSequences ==
  ASSUME InitialCapacity \in Nat \ {0, 1}, MaxItems \in Nat
  PROVE  AD!Spec /\ LD!Spec => DequesAreSequences
<1>1. AD!Spec => AD!ArrayIsSequence
  BY ArrayImplementsSequence
<1>2. LD!Spec => LD!ListIsSequence
  BY ListImplementsSequence
<1>. QED BY <1>1, <1>2 DEF DequesAreSequences

-----------------------------------------------------------------------------
(* Turns of a loop *)

\* What holds before the first turn and stays in every turn holds in the end.
LEMMA EveryTurn ==
  ASSUME NEW L \in Nat, NEW A, 0 \in A, \A i \in 1..L : i - 1 \in A => i \in A
  PROVE  \A i \in 0..L : i \in A
<1>. DEFINE Bad == {i \in 0..L : i \notin A}
<1>1. SUFFICES ASSUME Bad # {} PROVE FALSE
  OBVIOUS
<1>2. Bad \in SUBSET Nat
  OBVIOUS
<1>3. PICK m \in Bad : \A j \in Bad : m <= j
  <2>. HIDE DEF Bad
  <2>. QED BY <1>1, <1>2, LeastIndex
<1>4. m \in 0..L /\ m \notin A /\ m # 0
  OBVIOUS
<1>5. m \in 1..L /\ m - 1 \in 0..L /\ ~(m <= m - 1)
  BY <1>4
<1>6. m - 1 \in A
  BY <1>3, <1>5
<1>. QED BY <1>4, <1>5, <1>6

\* The states after each turn of a loop that starts with b, where step[i] is turn i.
Unrolls(L, S, b, step) ==
  \E g \in [0..L -> S] : g[0] = b /\ \A i \in 1..L : g[i] = step[i][g[i - 1]]

LEMMA Turns ==
  ASSUME NEW L \in Nat, NEW S, NEW b \in S, NEW step, step \in [1..L -> [S -> S]]
  PROVE  Unrolls(L, S, b, step)
<1>. DEFINE A == {m \in 0..L : \E g \in [0..m -> S] : g[0] = b /\ \A i \in 1..m : g[i] = step[i][g[i - 1]]}
<1>1. 0 \in A
  <2>1. PICK g : g = [i \in 0..0 |-> b]
    OBVIOUS
  <2>2. g \in [0..0 -> S] /\ g[0] = b /\ 1..0 = {} /\ 0 \in 0..L
    BY <2>1
  <2>3. \A i \in 1..0 : g[i] = step[i][g[i - 1]]
    BY <2>2
  <2>. QED BY <2>2, <2>3
<1>2. ASSUME NEW m \in 1..L, m - 1 \in A PROVE m \in A
  <2>1. PICK g \in [0..m - 1 -> S] : g[0] = b /\ \A i \in 1..m - 1 : g[i] = step[i][g[i - 1]]
    BY <1>2
  <2>. DEFINE f == [i \in 0..m |-> IF i = m THEN step[m][g[m - 1]] ELSE g[i]]
  <2>2. f \in [0..m -> S]
    <3>1. m - 1 \in 0..m - 1 /\ \A i \in 0..m : i # m => i \in 0..m - 1
      OBVIOUS
    <3>2. g[m - 1] \in S
      BY <3>1
    <3>3. step[m][g[m - 1]] \in S
      BY <3>2
    <3>. QED BY <3>1, <3>3
  <2>3. f[0] = b
    BY <2>1
  <2>4. ASSUME NEW i \in 1..m PROVE f[i] = step[i][f[i - 1]]
    <3>1. i \in 0..m /\ i - 1 \in 0..m /\ i - 1 # m
      OBVIOUS
    <3>2. f[i - 1] = g[i - 1]
      BY <3>1
    <3>3. CASE i = m
      BY <3>1, <3>2, <3>3
    <3>4. CASE i # m
      <4>1. i \in 1..m - 1
        BY <3>4
      <4>. QED BY <2>1, <3>1, <3>2, <3>4, <4>1
    <3>. QED BY <3>3, <3>4
  <2>. HIDE DEF f
  <2>. QED BY <2>2, <2>3, <2>4
<1>. HIDE DEF A
<1>3. \A m \in 0..L : m \in A
  BY <1>1, <1>2, EveryTurn
<1>4. L \in A
  BY <1>3
<1>. QED BY <1>4 DEF A, Unrolls
-----------------------------------------------------------------------------
(* dijkstra_shortest_path *)

Vertices == GA!Vertices
Neighbours == [to : Vertices, weight : Nat]
Lengths == 0..inf                        \* inf is the infinity of the code
Entries == [dist : 0..inf - 1, v : Vertices, from : 0..num_vertices]

\* A graph without negative weights, and at least one vertex
GraphOK == /\ num_vertices \in Nat \ {0} /\ inf \in Nat \ {0}
           /\ adj_list \in [Vertices -> Seq(Neighbours)]

LEMMA EdgesAre ==
  ASSUME NEW u, NEW v, NEW w
  PROVE  <<u, v, w>> \in GA!Edges <=>
           u \in Vertices /\ \E k \in DOMAIN adj_list[u] : adj_list[u][k].to = v /\ adj_list[u][k].weight = w
  BY DEF GA!Edges, Vertices

\* What the distances d and the queue s are after i turns for the neighbours of the
\* entry e, when the vertices done cannot come nearer
\* and the ways through e.v are base long up to there
Near(e, base, done, d, s, i) ==
  /\ d \in [Vertices -> Lengths] /\ s \in SUBSET Entries
  /\ \A v \in Vertices : d[v] <= distance[v]
  /\ \A u \in done : d[u] = distance[u]
  /\ q \ {e} \subseteq s
  /\ \A f \in s : /\ d[f.v] <= f.dist
                  /\ f \in q \ {e} \/ /\ f.from = e.v /\ base <= f.dist
                                      /\ <<e.v, f.v, f.dist - base>> \in GA!Edges
  /\ \A v \in Vertices : d[v] = distance[v] \/ \E f \in s : f.v = v /\ f.dist = d[v]
  /\ \A j \in 1..i : d[adj_list[e.v][j].to] <= adj_list[e.v][j].weight + base

RelaxTurn(s, to, d, from) ==
  IF d < s.distance[to]
  THEN [distance |-> [s.distance EXCEPT ![to] = d],
        q |-> s.q \cup {[dist |-> d, v |-> to, from |-> from]}]
  ELSE s

LEMMA NearerTurn ==
  ASSUME GraphOK, distance \in [Vertices -> Lengths], NEW e \in Entries, NEW base \in Nat,
         NEW done \in SUBSET Vertices, \A u \in done : distance[u] <= base,
         NEW s \in [distance : [Vertices -> Lengths], q : SUBSET Entries],
         NEW i \in 1..Len(adj_list[e.v]), Near(e, base, done, s.distance, s.q, i - 1),
         NEW to, to = adj_list[e.v][i].to, NEW w, w = adj_list[e.v][i].weight,
         NEW r, r = RelaxTurn(s, to, w + base, e.v)
  PROVE  /\ r \in [distance : [Vertices -> Lengths], q : SUBSET Entries]
         /\ Near(e, base, done, r.distance, r.q, i)
<1>. DEFINE d == w + base
<1>1. /\ inf \in Nat /\ num_vertices \in Nat /\ e.v \in Vertices
      /\ adj_list[e.v] \in Seq(Neighbours) /\ i \in DOMAIN adj_list[e.v] /\ i \in Nat
  BY DEF GraphOK, Entries
<1>2. to \in Vertices /\ w \in Nat /\ <<e.v, to, w>> \in GA!Edges
  <2>1. adj_list[e.v][i] \in Neighbours
    BY <1>1, ElementOfSeq
  <2>2. <<e.v, to, w>> \in GA!Edges
    BY <1>1, EdgesAre
  <2>. QED BY <2>1, <2>2 DEF Neighbours
<1>3. d \in Nat /\ base <= d /\ d - base = w
  BY <1>1, <1>2, SMTT(60)
<1>. HIDE DEF d
<1>4. \A j \in 1..i : j = i \/ j \in 1..i - 1
  BY <1>1
<1>5. CASE ~(d < s.distance[to])
  <2>1. r = s
    BY <1>5 DEF RelaxTurn, d
  <2>2. s.distance[to] \in Nat
    BY <1>2 DEF Lengths
  <2>3. s.distance[to] <= w + base
    BY <1>3, <1>5, <2>2 DEF d
  <2>4. \A j \in 1..i : s.distance[adj_list[e.v][j].to] <= adj_list[e.v][j].weight + base
    BY <1>4, <2>3 DEF Near
  <2>. QED BY <2>1, <2>4 DEF Near
<1>6. CASE d < s.distance[to]
  <2>. DEFINE new == [dist |-> d, v |-> to, from |-> e.v]
              dd == [s.distance EXCEPT ![to] = d]
  <2>1. r.distance = dd /\ r.q = s.q \cup {new} /\ r = [distance |-> dd, q |-> s.q \cup {new}]
    BY <1>6 DEF RelaxTurn, d
  <2>2. s.distance[to] \in 0..inf /\ d \in 0..inf - 1 /\ d \in 0..inf
    <3>1. PICK x : x = s.distance[to]
      OBVIOUS
    <3>2. x \in Lengths
      BY <1>2, <3>1
    <3>3. x \in 0..inf /\ d < x /\ inf \in Nat /\ d \in Nat
      BY <1>1, <1>3, <1>6, <3>1, <3>2 DEF Lengths
    <3>4. d \in 0..inf - 1 /\ d \in 0..inf
      BY <3>3
    <3>. QED BY <3>1, <3>3, <3>4
  <2>3. new \in Entries /\ new.dist = d /\ new.v = to /\ new.from = e.v
    BY <1>1, <1>2, <2>2 DEF Entries, Vertices, GA!Vertices
  <2>4. dd \in [Vertices -> Lengths] /\ \A v \in Vertices : dd[v] = IF v = to THEN d ELSE s.distance[v]
    BY <1>2, <2>2 DEF Lengths
  <2>. HIDE DEF new, dd
  <2>5. \A v \in Vertices : dd[v] <= s.distance[v] /\ s.distance[v] \in Nat /\ dd[v] \in Nat /\ distance[v] \in Nat
    <3>1. SUFFICES ASSUME NEW v \in Vertices
                   PROVE  dd[v] <= s.distance[v] /\ s.distance[v] \in Nat /\ dd[v] \in Nat /\ distance[v] \in Nat
      OBVIOUS
    <3>2. dd[v] \in Lengths /\ s.distance[v] \in Lengths /\ distance[v] \in Lengths
      BY <2>4
    <3>3. dd[v] \in Nat /\ s.distance[v] \in Nat /\ distance[v] \in Nat
      BY <3>2 DEF Lengths
    <3>4. dd[v] <= s.distance[v]
      BY <1>6, <2>4, <3>3
    <3>. QED BY <3>3, <3>4
  <2>6. s.q \cup {new} \in SUBSET Entries
    BY <2>3
  <2>7. ASSUME NEW v \in Vertices PROVE dd[v] <= distance[v]
    <3>1. s.distance[v] <= distance[v]
      BY DEF Near
    <3>. QED BY <2>5, <3>1
  <2>8. ASSUME NEW u \in done PROVE dd[u] = distance[u]
    <3>1. s.distance[u] = distance[u] /\ u \in Vertices
      BY DEF Near
    <3>2. u # to
      <4>1. SUFFICES ASSUME u = to PROVE FALSE
        OBVIOUS
      <4>2. distance[u] <= base /\ d < distance[u] /\ distance[u] \in Nat
        BY <1>6, <2>5, <3>1, <4>1
      <4>. QED BY <1>1, <1>3, <4>2
    <3>. QED BY <2>4, <3>1, <3>2
  <2>9. ASSUME NEW f \in s.q \cup {new}
        PROVE  /\ dd[f.v] <= f.dist
               /\ f \in q \ {e} \/ /\ f.from = e.v /\ base <= f.dist
                                   /\ <<e.v, f.v, f.dist - base>> \in GA!Edges
    <3>1. CASE f = new
      <4>1. dd[f.v] = d
        BY <1>2, <2>3, <2>4, <3>1
      <4>2. f.from = e.v /\ f.dist = d /\ f.v = to
        BY <2>3, <3>1
      <4>3. d <= d
        BY <1>3
      <4>. QED BY <1>2, <1>3, <4>1, <4>2, <4>3
    <3>2. CASE f \in s.q
      <4>1. s.distance[f.v] <= f.dist
        BY <3>2 DEF Near
      <4>2. f.v \in Vertices /\ f.dist \in Nat
        BY <3>2, <1>1 DEF Entries
      <4>3. dd[f.v] <= s.distance[f.v] /\ s.distance[f.v] \in Nat /\ dd[f.v] \in Nat
        BY <2>5, <4>2
      <4>4. dd[f.v] <= f.dist
        BY <4>1, <4>2, <4>3
      <4>. QED BY <3>2, <4>4 DEF Near
    <3>. QED BY <3>1, <3>2
  <2>10. ASSUME NEW v \in Vertices
         PROVE  dd[v] = distance[v] \/ \E f \in s.q \cup {new} : f.v = v /\ f.dist = dd[v]
    <3>1. CASE v = to
      BY <1>2, <2>3, <2>4, <3>1
    <3>2. CASE v # to
      BY <2>4, <3>2 DEF Near
    <3>. QED BY <3>1, <3>2
  <2>11. ASSUME NEW j \in 1..i
         PROVE  dd[adj_list[e.v][j].to] <= adj_list[e.v][j].weight + base
    <3>1. CASE j = i
      <4>1. dd[to] = d /\ d <= d
        BY <1>2, <1>3, <2>4
      <4>. QED BY <3>1, <4>1 DEF d
    <3>2. CASE j # i
      <4>1. j \in 1..i - 1 /\ j \in DOMAIN adj_list[e.v]
        BY <1>1, <1>4, <3>2
      <4>2. s.distance[adj_list[e.v][j].to] <= adj_list[e.v][j].weight + base
        BY <4>1 DEF Near
      <4>3. adj_list[e.v][j] \in Neighbours
        BY <1>1, <4>1, ElementOfSeq
      <4>4. adj_list[e.v][j].to \in Vertices /\ adj_list[e.v][j].weight \in Nat
        BY <4>3 DEF Neighbours
      <4>5. PICK x, y, z : x = dd[adj_list[e.v][j].to] /\ y = s.distance[adj_list[e.v][j].to] /\ z = adj_list[e.v][j].weight
        OBVIOUS
      <4>6. x <= y /\ x \in Nat /\ y \in Nat /\ y <= z + base /\ z \in Nat
        BY <2>5, <4>2, <4>4, <4>5
      <4>7. x <= z + base
        BY <1>1, <4>6
      <4>. QED BY <4>5, <4>7
    <3>. QED BY <3>1, <3>2
  <2>12. q \ {e} \subseteq s.q \cup {new}
    BY DEF Near
  <2>13. Near(e, base, done, dd, s.q \cup {new}, i)
    BY <2>4, <2>6, <2>7, <2>8, <2>9, <2>10, <2>11, <2>12 DEF Near
  <2>. QED BY <2>1, <2>4, <2>6, <2>13
<1>. QED BY <1>5, <1>6

LEMMA Relaxing ==
  ASSUME GraphOK, distance \in [Vertices -> Lengths], q \in SUBSET Entries,
         NEW e \in Entries, NEW base \in Nat, base = IF call.f = "dijkstra" THEN e.dist ELSE 0, NEW done \in SUBSET Vertices,
         \A u \in done : distance[u] <= base, \A f \in q : distance[f.v] <= f.dist
  PROVE  Near(e, base, done, GA!Relaxed(e).distance, GA!Relaxed(e).q, Len(adj_list[e.v]))
<1>. DEFINE nb == adj_list[e.v]
            L == Len(nb)
            S == [distance : [Vertices -> Lengths], q : SUBSET Entries]
            b == [distance |-> distance, q |-> q \ {e}]
            Turn(s, i) == RelaxTurn(s, nb[i].to, nb[i].weight + base, e.v)
            Steps(g, i) == IF i = 0 THEN b ELSE Turn(g[i - 1], i)
            after == CHOOSE g : g = [i \in 0..L |-> Steps(g, i)]
            Good(i, s) == s \in S /\ Near(e, base, done, s.distance, s.q, i)
            A == {i \in 0..L : Good(i, after[i])}
<1>1. e.v \in Vertices /\ nb \in Seq(Neighbours) /\ L \in Nat /\ inf \in Nat
  BY DEF GraphOK, Entries
<1>2. GA!Relaxed(e) = after[L]
  BY DEF GA!Relaxed, RelaxTurn
<1>3. b \in S /\ Near(e, base, done, b.distance, b.q, 0)
  <2>1. b \in S /\ b.distance = distance /\ b.q = q \ {e}
    OBVIOUS
  <2>2. \A v \in Vertices : distance[v] <= distance[v]
    <3>1. \A x \in Lengths : x <= x
      BY <1>1 DEF Lengths
    <3>. QED BY <3>1
  <2>3. 1..0 = {}
    OBVIOUS
  <2>. QED BY <2>1, <2>2, <2>3 DEF Near
<1>. HIDE DEF S, b
<1>4. ASSUME NEW i \in 1..L, NEW s, Good(i - 1, s)
      PROVE  Good(i, Turn(s, i))
  <2>1. PICK to, w, r : to = nb[i].to /\ w = nb[i].weight /\ r = Turn(s, i)
    OBVIOUS
  <2>2. r = RelaxTurn(s, to, w + base, e.v)
    BY <2>1
  <2>3. s \in [distance : [Vertices -> Lengths], q : SUBSET Entries] /\ Near(e, base, done, s.distance, s.q, i - 1)
    BY <1>4 DEF S
  <2>. HIDE DEF Turn
  <2>4. /\ r \in [distance : [Vertices -> Lengths], q : SUBSET Entries]
        /\ Near(e, base, done, r.distance, r.q, i)
    BY <2>1, <2>2, <2>3, NearerTurn
  <2>. QED BY <2>1, <2>4 DEF S
<1>5. after = [i \in 0..L |-> Steps(after, i)]
  <2>1. SUFFICES \E g : g = [i \in 0..L |-> Steps(g, i)]
    OBVIOUS
  <2>. DEFINE T(s, i) == IF Turn(s, i) \in S THEN Turn(s, i) ELSE b
              step == [i \in 1..L |-> [s \in S |-> T(s, i)]]
  <2>2. step \in [1..L -> [S -> S]]
    <3>. HIDE DEF Turn
    <3>. QED BY <1>3
  <2>3. PICK g \in [0..L -> S] : g[0] = b /\ \A i \in 1..L : g[i] = step[i][g[i - 1]]
    <3>1. b \in S /\ L \in Nat
      BY <1>1, <1>3
    <3>. HIDE DEF step, L
    <3>2. Unrolls(L, S, b, step)
      BY <2>2, <3>1, Turns
    <3>. QED BY <3>2, Zenon DEF Unrolls
  <2>4. \A i \in 1..L : g[i - 1] \in S /\ g[i] = T(g[i - 1], i)
    <3>1. \A i \in 1..L : i - 1 \in 0..L
      BY <1>1
    <3>. HIDE DEF T
    <3>. QED BY <2>3, <3>1
  <2>. DEFINE B == {i \in 0..L : Good(i, g[i])}
  <2>5. 0 \in B
    BY <1>1, <1>3, <2>3
  <2>6. ASSUME NEW i \in 1..L, i - 1 \in B PROVE g[i] = Turn(g[i - 1], i) /\ i \in B
    <3>1. Good(i - 1, g[i - 1]) /\ i \in 0..L
      BY <1>1, <2>6
    <3>. HIDE DEF Turn, Good
    <3>2. Good(i, Turn(g[i - 1], i))
      BY <1>4, <3>1
    <3>3. Turn(g[i - 1], i) \in S
      BY <3>2 DEF Good
    <3>4. g[i] = Turn(g[i - 1], i)
      BY <2>4, <3>3
    <3>. QED BY <3>1, <3>2, <3>4
  <2>7. \A i \in 0..L : i \in B
    <3>. HIDE DEF B, L
    <3>. QED BY <1>1, <2>5, <2>6, EveryTurn
  <2>8. \A i \in 1..L : g[i] = Turn(g[i - 1], i)
    <3>1. \A i \in 1..L : i - 1 \in 0..L
      BY <1>1
    <3>. HIDE DEF B, L, Turn
    <3>. QED BY <2>6, <2>7, <3>1
  <2>9. \A i \in 0..L : g[i] = Steps(g, i)
    <3>1. \A i \in 0..L : i = 0 \/ i \in 1..L
      BY <1>1
    <3>2. Steps(g, 0) = b
      OBVIOUS
    <3>3. \A i \in 1..L : Steps(g, i) = Turn(g[i - 1], i)
      <4>. HIDE DEF Turn
      <4>. QED OBVIOUS
    <3>. HIDE DEF Steps, Turn, L
    <3>. QED BY <2>3, <2>8, <3>1, <3>2, <3>3
  <2>. HIDE DEF Steps, L
  <2>10. g = [i \in 0..L |-> Steps(g, i)]
    BY <2>9
  <2>. QED BY <2>10
<1>. HIDE DEF after
<1>6. 0 \in A
  <2>1. 0 \in 0..L /\ after[0] = b
    BY <1>1, <1>5
  <2>. QED BY <1>3, <2>1
<1>7. ASSUME NEW i \in 1..L, i - 1 \in A PROVE i \in A
  <2>1. i \in 0..L /\ i # 0 /\ Good(i - 1, after[i - 1])
    BY <1>1, <1>7
  <2>2. after[i] = Turn(after[i - 1], i)
    <3>1. after[i] = Steps(after, i)
      <4>. HIDE DEF Steps, L
      <4>. QED BY <1>5, <2>1
    <3>. HIDE DEF Turn
    <3>. QED BY <2>1, <3>1
  <2>. HIDE DEF Turn, Good
  <2>. QED BY <1>4, <2>1, <2>2
<1>8. L \in A
  <2>1. \A i \in 0..L : i \in A
    <3>. HIDE DEF A, L
    <3>. QED BY <1>1, <1>6, <1>7, EveryTurn
  <2>. QED BY <1>1, <2>1
<1>. QED BY <1>2, <1>8

\* top is an entry of a nearest vertex.
LEMMA TopIsNearest ==
  ASSUME GraphOK, q \in SUBSET Entries, q # {}
  PROVE  GA!top \in q /\ \A f \in q : GA!top.dist <= f.dist
<1>. DEFINE A == {e.dist : e \in q}
<1>1. \A e \in q : e.dist \in Nat /\ e.v \in 0..num_vertices - 1 /\ e.from \in 0..num_vertices /\ num_vertices \in Nat
  BY DEF GraphOK, Entries, Vertices, GA!Vertices
<1>2. PICK d \in A : \A x \in A : d <= x
  <2>1. A \in SUBSET Nat /\ A # {}
    BY <1>1
  <2>. HIDE DEF A
  <2>. QED BY <2>1, LeastIndex
<1>. DEFINE B == {num_vertices - e.v : e \in {x \in q : x.dist = d}}
<1>3. PICK b \in B : \A x \in B : b <= x
  <2>1. B \in SUBSET Nat /\ B # {}
    BY <1>1
  <2>. HIDE DEF B
  <2>. QED BY <2>1, LeastIndex
<1>. DEFINE C == {num_vertices - e.from : e \in {x \in q : x.dist = d /\ num_vertices - x.v = b}}
<1>4. PICK c \in C : \A x \in C : c <= x
  <2>1. C \in SUBSET Nat /\ C # {}
    BY <1>1
  <2>. HIDE DEF C
  <2>. QED BY <2>1, LeastIndex
<1>5. PICK e \in q : e.dist = d /\ num_vertices - e.v = b /\ num_vertices - e.from = c
  OBVIOUS
<1>6. ASSUME NEW f \in q PROVE GA!Above(e, f)
  <2>1. /\ e.dist \in Nat /\ e.v \in Nat /\ e.from \in Nat /\ num_vertices \in Nat
        /\ f.dist \in Nat /\ f.v \in Nat /\ f.from \in Nat
    BY <1>1
  <2>2. e.dist <= f.dist
    BY <1>2, <1>5
  <2>3. f.dist = d => num_vertices - e.v <= num_vertices - f.v
    BY <1>3, <1>5
  <2>4. f.dist = d /\ num_vertices - f.v = b => num_vertices - e.from <= num_vertices - f.from
    BY <1>4, <1>5
  <2>5. /\ f.dist = e.dist => e.v >= f.v
        /\ f.dist = e.dist /\ f.v = e.v => e.from >= f.from
    <3>1. f.dist = e.dist => num_vertices - e.v <= num_vertices - f.v
      BY <1>5, <2>3
    <3>2. f.dist = e.dist /\ f.v = e.v => num_vertices - e.from <= num_vertices - f.from
      BY <1>5, <2>4
    <3>. QED BY <2>1, <3>1, <3>2
  <2>. QED BY <2>1, <2>2, <2>5 DEF GA!Above
<1>7. \E t \in q : \A f \in q : GA!Above(t, f)
  BY <1>6
<1>8. GA!top \in q /\ \A f \in q : GA!Above(GA!top, f)
  BY <1>7 DEF GA!top
<1>9. ASSUME NEW f \in q PROVE GA!top.dist <= f.dist
  <2>1. GA!Above(GA!top, f) /\ GA!top.dist \in Nat /\ f.dist \in Nat
    BY <1>1, <1>8
  <2>. QED BY <2>1 DEF GA!Above
<1>. QED BY <1>8, <1>9

\* The vertex v is d away from the source, the last edge of the way starts in p.
Leads(p, v, d, dist, done) == p \in done /\ <<p, v, d - dist[p]>> \in GA!Edges

\* Of the distances, the queue and the answer, when the vertices done are settled:
\* an entry is no nearer than its vertex, and what is settled no farther than any
\* entry; a vertex that was reached has the entry of its distance; edges
\* from settled vertices are relaxed, and parents were settled before.
Types(s, dist, queue, done, a) ==
  /\ s \in Vertices /\ dist \in [Vertices -> Lengths] /\ queue \in SUBSET Entries
  /\ done \in SUBSET Vertices /\ DOMAIN a = Vertices
EntriesOK(s, dist, queue, done) ==
  /\ dist[s] = 0
  /\ \A f \in queue : dist[f.v] <= f.dist /\ (f.v = s \/ Leads(f.from, f.v, f.dist, dist, done))
  /\ \A v \in Vertices \ done : dist[v] = inf \/ \E f \in queue : f.v = v /\ f.dist = dist[v]
  /\ \A u \in done, f \in queue : dist[u] <= f.dist
AnswerOK(s, dist, done, a) ==
  /\ \A v \in Vertices \ done : a[v] = None
  /\ \A u \in done : \E p \in 0..num_vertices :
       dist[u] < inf /\ a[u] = <<p, dist[u]>> /\ (u = s \/ Leads(p, u, dist[u], dist, done))
RelaxedOK(dist, done) ==
  \A u \in done : \A k \in DOMAIN adj_list[u] : dist[adj_list[u][k].to] <= adj_list[u][k].weight + dist[u]
Ranked(s, done, a) ==
  \E rank \in [Vertices -> Nat] : \A u \in done :
    rank[u] < Cardinality(done) /\ (u = s \/ rank[a[u][1]] < rank[u])

DijkstraOK(s, dist, queue, done, a) ==
  /\ Types(s, dist, queue, done, a) /\ EntriesOK(s, dist, queue, done)
  /\ AnswerOK(s, dist, done, a) /\ RelaxedOK(dist, done) /\ Ranked(s, done, a)

LEMMA SettlingEntries ==
  ASSUME GraphOK, NEW s, DijkstraOK(s, distance, q, visited, answer), NEW e \in q, e.v \notin visited,
         \A f \in q : e.dist <= f.dist
  PROVE  e.dist = distance[e.v] /\ \A u \in visited \cup {e.v} : distance[u] <= e.dist
<1>1. /\ e.v \in Vertices /\ e.dist \in Nat /\ e.dist < inf /\ inf \in Nat
      /\ \A v \in Vertices : distance[v] \in Nat /\ visited \subseteq Vertices
  BY DEF GraphOK, DijkstraOK, Types, Entries, Lengths
<1>2. distance[e.v] <= e.dist
  BY DEF DijkstraOK, EntriesOK
<1>3. distance[e.v] \in Nat /\ distance[e.v] # inf
  BY <1>1, <1>2
<1>4. PICK f \in q : f.v = e.v /\ f.dist = distance[e.v]
  BY <1>1, <1>3 DEF DijkstraOK, EntriesOK
<1>5. e.dist <= distance[e.v]
  BY <1>4
<1>6. e.dist = distance[e.v]
  BY <1>1, <1>2, <1>3, <1>5
<1>7. \A u \in visited : distance[u] <= e.dist
  BY DEF DijkstraOK, EntriesOK
<1>8. distance[e.v] <= e.dist
  BY <1>2
<1>. QED BY <1>6, <1>7, <1>8

LEMMA SettledRank ==
  ASSUME NEW s, NEW done \in SUBSET Vertices, NEW a, DOMAIN a = Vertices, NEW v \in Vertices \ done, NEW p, NEW x,
         num_vertices \in Nat,
         v = s \/ p \in done, \A u \in done : u = s \/ a[u][1] \in done, Ranked(s, done, a),
         NEW b, b = [a EXCEPT ![v] = <<p, x>>]
  PROVE  Ranked(s, done \cup {v}, b)
<1>1. PICK rank \in [Vertices -> Nat] : \A u \in done :
         rank[u] < Cardinality(done) /\ (u = s \/ rank[a[u][1]] < rank[u])
  BY DEF Ranked
<1>2. IsFiniteSet(done) /\ v \notin done
  <2>1. IsFiniteSet(Vertices)
    BY FS_Interval DEF Vertices, GA!Vertices
  <2>. QED BY <2>1, FS_Subset
<1>3. Cardinality(done) \in Nat /\ Cardinality(done \cup {v}) = Cardinality(done) + 1
  BY <1>2, FS_AddElement, FS_CardinalityType
<1>4. PICK c : c = Cardinality(done)
  OBVIOUS
<1>5. PICK new : new = [rank EXCEPT ![v] = c]
  OBVIOUS
<1>6. /\ new \in [Vertices -> Nat] /\ new[v] = c /\ c \in Nat
      /\ \A u \in done : new[u] = rank[u]
      /\ b[v] = <<p, x>> /\ \A u \in done : b[u] = a[u]
  BY <1>2, <1>3, <1>4, <1>5
<1>7. ASSUME NEW u \in done
      PROVE  new[u] < c + 1 /\ (u = s \/ new[b[u][1]] < new[u])
  <2>1. rank[u] < c /\ new[u] = rank[u] /\ rank[u] \in Nat
    BY <1>1, <1>4, <1>6
  <2>2. new[u] < c + 1
    BY <1>6, <2>1
  <2>3. ASSUME u # s PROVE new[b[u][1]] < new[u]
    <3>1. a[u][1] \in done /\ b[u][1] = a[u][1]
      BY <1>6, <2>3
    <3>2. rank[a[u][1]] < rank[u] /\ new[a[u][1]] = rank[a[u][1]]
      BY <1>1, <1>6, <2>3, <3>1
    <3>. QED BY <2>1, <3>1, <3>2
  <2>. QED BY <2>2, <2>3
<1>8. new[v] < c + 1 /\ (v = s \/ new[b[v][1]] < new[v])
  <2>1. new[v] < c + 1
    BY <1>6
  <2>2. ASSUME v # s PROVE new[b[v][1]] < new[v]
    <3>1. b[v][1] = p /\ p \in done
      BY <1>6, <2>2
    <3>2. rank[p] < c /\ new[p] = rank[p]
      BY <1>1, <1>4, <1>6, <3>1
    <3>. QED BY <1>6, <3>1, <3>2
  <2>. QED BY <2>1, <2>2
<1>9. \A u \in done \cup {v} : new[u] < Cardinality(done \cup {v}) /\ (u = s \/ new[b[u][1]] < new[u])
  BY <1>3, <1>4, <1>7, <1>8
<1>. QED BY <1>6, <1>9 DEF Ranked

\* Settling a nearest vertex
LEMMA Settled ==
  ASSUME GraphOK, NEW s, DijkstraOK(s, distance, q, visited, answer), NEW e \in q, e.v \notin visited,
         \A f \in q : e.dist <= f.dist,
         NEW done, done = visited \cup {e.v}, NEW D, NEW Q,
         Near(e, e.dist, done, D, Q, Len(adj_list[e.v])),
         NEW a, a = [answer EXCEPT ![e.v] = <<e.from, e.dist>>]
  PROVE  DijkstraOK(s, D, Q, done, a)
<1>1. /\ s \in Vertices /\ e \in Entries /\ e.v \in Vertices /\ e.dist \in Nat /\ e.dist < inf /\ inf \in Nat
      /\ e.from \in 0..num_vertices /\ num_vertices \in Nat /\ DOMAIN answer = Vertices
      /\ visited \in SUBSET Vertices /\ done \in SUBSET Vertices
      /\ \A v \in Vertices : distance[v] \in Nat
      /\ \A f \in q : f.dist \in Nat /\ f.v \in Vertices
  <2>1. /\ s \in Vertices /\ q \in SUBSET Entries /\ distance \in [Vertices -> Lengths]
        /\ visited \in SUBSET Vertices /\ DOMAIN answer = Vertices
    BY DEF DijkstraOK, Types
  <2>2. inf \in Nat /\ num_vertices \in Nat
    BY DEF GraphOK
  <2>3. \A f \in Entries : f.dist \in Nat /\ f.v \in Vertices /\ f.dist < inf /\ f.from \in 0..num_vertices
    BY <2>2 DEF Entries
  <2>4. \A v \in Vertices : distance[v] \in Lengths
    BY <2>1
  <2>5. Lengths \subseteq Nat
    BY <2>2 DEF Lengths
  <2>. QED BY <2>1, <2>2, <2>3, <2>4, <2>5
<1>2. e.dist = distance[e.v] /\ \A u \in done : distance[u] <= e.dist
  BY SettlingEntries
<1>3. /\ D \in [Vertices -> Lengths] /\ Q \in SUBSET Entries
      /\ \A v \in Vertices : D[v] \in Nat
      /\ \A f \in Q : f.dist \in Nat /\ f.v \in Vertices
      /\ \A u \in done : D[u] = distance[u]
  <2>1. D \in [Vertices -> Lengths] /\ Q \in SUBSET Entries /\ \A u \in done : D[u] = distance[u]
    BY DEF Near
  <2>2. \A f \in Entries : f.dist \in Nat /\ f.v \in Vertices
    BY <1>1 DEF Entries
  <2>3. \A v \in Vertices : D[v] \in Lengths
    BY <2>1
  <2>4. Lengths \subseteq Nat
    BY <1>1 DEF Lengths
  <2>. QED BY <2>1, <2>2, <2>3, <2>4
<1>4. DOMAIN a = Vertices /\ a[e.v] = <<e.from, e.dist>> /\ \A v \in Vertices : v # e.v => a[v] = answer[v]
  BY <1>1
<1>5. ASSUME NEW p, NEW v, NEW d, Leads(p, v, d, distance, visited) PROVE Leads(p, v, d, D, done)
  BY <1>3, <1>5 DEF Leads
<1>6. Types(s, D, Q, done, a)
  BY <1>1, <1>3, <1>4 DEF Types
<1>7. EntriesOK(s, D, Q, done)
  <2>1. D[s] = 0
    <3>1. D[s] <= distance[s] /\ distance[s] = 0 /\ D[s] \in Nat
      BY <1>1, <1>3 DEF Near, DijkstraOK, EntriesOK
    <3>. QED BY <3>1
  <2>2. ASSUME NEW f \in Q PROVE D[f.v] <= f.dist /\ (f.v = s \/ Leads(f.from, f.v, f.dist, D, done))
    <3>1. D[f.v] <= f.dist
      BY DEF Near
    <3>2. CASE f \in q
      BY <1>5, <3>1, <3>2 DEF DijkstraOK, EntriesOK
    <3>3. CASE f \notin q
      <4>1. f.from = e.v /\ <<e.v, f.v, f.dist - e.dist>> \in GA!Edges
        BY <3>3 DEF Near
      <4>2. D[e.v] = e.dist /\ e.v \in done
        BY <1>2, <1>3
      <4>. QED BY <3>1, <4>1, <4>2 DEF Leads
    <3>. QED BY <3>2, <3>3
  <2>3. ASSUME NEW v \in Vertices \ done PROVE D[v] = inf \/ \E f \in Q : f.v = v /\ f.dist = D[v]
    <3>1. CASE D[v] = distance[v]
      <4>1. distance[v] = inf \/ \E f \in q : f.v = v /\ f.dist = distance[v]
        BY DEF DijkstraOK, EntriesOK
      <4>2. \A f \in q : f.v = v => f \in Q
        BY DEF Near
      <4>. QED BY <3>1, <4>1, <4>2
    <3>2. CASE D[v] # distance[v]
      BY <3>2 DEF Near
    <3>. QED BY <3>1, <3>2
  <2>4. ASSUME NEW u \in done, NEW f \in Q PROVE D[u] <= f.dist
    <3>1. e.dist <= f.dist
      BY DEF Near
    <3>2. distance[u] <= e.dist /\ D[u] = distance[u] /\ distance[u] \in Nat /\ f.dist \in Nat
      BY <1>1, <1>2, <1>3
    <3>. QED BY <1>1, <3>1, <3>2
  <2>. QED BY <2>1, <2>2, <2>3, <2>4 DEF EntriesOK
<1>8. AnswerOK(s, D, done, a)
  <2>1. \A v \in Vertices \ done : a[v] = None
    BY <1>4 DEF DijkstraOK, AnswerOK
  <2>2. ASSUME NEW u \in done
        PROVE  \E p \in 0..num_vertices :
                 D[u] < inf /\ a[u] = <<p, D[u]>> /\ (u = s \/ Leads(p, u, D[u], D, done))
    <3>1. CASE u \in visited
      <4>1. PICK p \in 0..num_vertices : distance[u] < inf /\ answer[u] = <<p, distance[u]>>
                                         /\ (u = s \/ Leads(p, u, distance[u], distance, visited))
        BY <3>1 DEF DijkstraOK, AnswerOK
      <4>2. D[u] = distance[u] /\ a[u] = answer[u]
        BY <1>1, <1>3, <1>4, <3>1
      <4>. QED BY <1>5, <4>1, <4>2
    <3>2. CASE u = e.v
      <4>1. D[u] = e.dist /\ a[u] = <<e.from, e.dist>>
        BY <1>2, <1>3, <1>4, <3>2
      <4>2. u = s \/ Leads(e.from, u, e.dist, D, done)
        BY <1>5, <3>2 DEF DijkstraOK, EntriesOK
      <4>. QED BY <1>1, <4>1, <4>2
    <3>. QED BY <3>1, <3>2
  <2>. QED BY <2>1, <2>2 DEF AnswerOK
<1>9. RelaxedOK(D, done)
  <2>1. ASSUME NEW u \in done, NEW k \in DOMAIN adj_list[u]
        PROVE  D[adj_list[u][k].to] <= adj_list[u][k].weight + D[u]
    <3>1. adj_list[u] \in Seq(Neighbours) /\ adj_list[u][k] \in Neighbours
      <4>1. adj_list[u] \in Seq(Neighbours)
        BY <1>1 DEF GraphOK
      <4>. QED BY <4>1, ElementOfSeq
    <3>2. PICK to, w : to = adj_list[u][k].to /\ w = adj_list[u][k].weight
      OBVIOUS
    <3>3. to \in Vertices /\ w \in Nat /\ D[u] = distance[u]
      BY <1>3, <3>1, <3>2 DEF Neighbours
    <3>4. CASE u \in visited
      <4>1. distance[to] <= w + distance[u]
        BY <3>2, <3>4 DEF DijkstraOK, RelaxedOK
      <4>2. D[to] <= distance[to]
        BY <3>3 DEF Near
      <4>3. D[to] \in Nat /\ distance[to] \in Nat /\ distance[u] \in Nat
        BY <1>1, <1>3, <3>3
      <4>4. D[to] <= w + distance[u]
        BY <3>3, <4>1, <4>2, <4>3
      <4>. QED BY <3>2, <3>3, <4>4
    <3>5. CASE u = e.v
      <4>1. k \in 1..Len(adj_list[e.v])
        BY <3>1, <3>5
      <4>2. D[to] <= w + e.dist
        BY <3>2, <3>5, <4>1 DEF Near
      <4>. QED BY <1>2, <3>2, <3>3, <3>5, <4>2
    <3>. QED BY <3>4, <3>5
  <2>. QED BY <2>1 DEF RelaxedOK
<1>10. Ranked(s, done, a)
  <2>1. e.v = s \/ e.from \in visited
    BY DEF DijkstraOK, EntriesOK, Leads
  <2>2. ASSUME NEW u \in visited PROVE u = s \/ answer[u][1] \in visited
    <3>1. PICK p : answer[u] = <<p, distance[u]>> /\ (u = s \/ Leads(p, u, distance[u], distance, visited))
      BY DEF DijkstraOK, AnswerOK
    <3>2. answer[u][1] = p
      BY <3>1
    <3>. QED BY <3>1, <3>2 DEF Leads
  <2>3. e.v \in Vertices \ visited
    BY <1>1
  <2>4. Ranked(s, visited, answer)
    BY DEF DijkstraOK
  <2>. QED BY <1>1, <2>1, <2>2, <2>3, <2>4, SettledRank
<1>. QED BY <1>6, <1>7, <1>8, <1>9, <1>10 DEF DijkstraOK

\* Passing over an entry of a settled vertex
LEMMA Skipped ==
  ASSUME NEW s, DijkstraOK(s, distance, q, visited, answer), NEW e \in q, e.v \in visited
  PROVE  DijkstraOK(s, distance, q \ {e}, visited, answer)
<1>1. EntriesOK(s, distance, q \ {e}, visited)
  BY DEF DijkstraOK, EntriesOK
<1>. QED BY <1>1 DEF DijkstraOK, Types

\* What a call starts from
LEMMA Called ==
  ASSUME GraphOK, NEW s \in Vertices, NEW D, D = [[v \in Vertices |-> inf] EXCEPT ![s] = 0],
         NEW Q, Q = {[dist |-> 0, v |-> s, from |-> num_vertices]},
         NEW a, a = [v \in Vertices |-> None]
  PROVE  DijkstraOK(s, D, Q, {}, a)
<1>1. inf \in Nat /\ inf # 0 /\ num_vertices \in Nat
  BY DEF GraphOK
<1>2. D \in [Vertices -> Lengths] /\ D[s] = 0 /\ \A v \in Vertices : v # s => D[v] = inf
  BY <1>1 DEF Lengths
<1>3. PICK e : e = [dist |-> 0, v |-> s, from |-> num_vertices]
  OBVIOUS
<1>4. Q = {e} /\ e \in Entries /\ e.v = s /\ e.dist = 0
  BY <1>1, <1>3 DEF Entries
<1>5. Types(s, D, Q, {}, a)
  BY <1>2, <1>4 DEF Types
<1>6. EntriesOK(s, D, Q, {})
  BY <1>2, <1>4 DEF EntriesOK
<1>7. AnswerOK(s, D, {}, a) /\ RelaxedOK(D, {})
  BY DEF AnswerOK, RelaxedOK
<1>8. Ranked(s, {}, a)
  <2>1. [v \in Vertices |-> 0] \in [Vertices -> Nat]
    OBVIOUS
  <2>. QED BY <2>1 DEF Ranked
<1>. QED BY <1>5, <1>6, <1>7, <1>8 DEF DijkstraOK

\* The least of some natural numbers
LEMMA LeastOf ==
  ASSUME NEW A \in SUBSET Nat, A # {}
  PROVE  GA!Min(A) \in A /\ \A x \in A : GA!Min(A) <= x
  BY LeastIndex DEF GA!Min

\* What reaches v from the weights of the lightest shorter walks
Reaching(walk, v) == {walk[v]} \cup {walk[e[1]] + e[3] : e \in {x \in GA!Edges : x[2] = v}}

\* The weights of the lightest walks of at most h edges, for every h
Walks(s, walk) ==
  /\ walk \in [0..num_vertices - 1 -> [Vertices -> Nat]]
  /\ walk[0] = [[v \in Vertices |-> inf] EXCEPT ![s] = 0]
  /\ \A h \in 1..num_vertices - 1 : walk[h] = [v \in Vertices |-> GA!Min(Reaching(walk[h - 1], v))]

LEMMA EdgesTyped ==
  ASSUME GraphOK, NEW e \in GA!Edges
  PROVE  e[1] \in Vertices /\ e[2] \in Vertices /\ e[3] \in Nat
<1>1. PICK v \in Vertices : \E k \in DOMAIN adj_list[v] : e = <<v, adj_list[v][k].to, adj_list[v][k].weight>>
  BY DEF GA!Edges, Vertices
<1>1a. PICK k \in DOMAIN adj_list[v] : e = <<v, adj_list[v][k].to, adj_list[v][k].weight>>
  BY <1>1
<1>2. adj_list[v] \in Seq(Neighbours)
  BY DEF GraphOK
<1>3. adj_list[v][k] \in Neighbours
  BY <1>2, ElementOfSeq
<1>. QED BY <1>1a, <1>3 DEF Neighbours

LEMMA ReachingTyped ==
  ASSUME GraphOK, NEW walk \in [Vertices -> Nat], NEW v \in Vertices
  PROVE  /\ GA!Min(Reaching(walk, v)) \in Nat
         /\ GA!Min(Reaching(walk, v)) \in Reaching(walk, v)
         /\ \A x \in Reaching(walk, v) : GA!Min(Reaching(walk, v)) <= x
<1>1. Reaching(walk, v) \in SUBSET Nat /\ Reaching(walk, v) # {}
  BY EdgesTyped DEF Reaching
<1>. QED BY <1>1, LeastOf

LEMMA LightestIs ==
  ASSUME GraphOK, NEW s \in Vertices
  PROVE  \E walk : Walks(s, walk) /\ GA!Lightest(s) = walk[num_vertices - 1]
<1>. DEFINE L == num_vertices - 1
            S == [Vertices -> Nat]
            b == [[v \in Vertices |-> inf] EXCEPT ![s] = 0]
            Turn(w) == [v \in Vertices |-> GA!Min({w[v]} \cup {w[e[1]] + e[3] : e \in {x \in GA!Edges : x[2] = v}})]
            Steps(g, h) == IF h = 0 THEN b ELSE Turn(g[h - 1])
            walk == CHOOSE g : g = [h \in 0..L |-> Steps(g, h)]
<1>1. L \in Nat /\ inf \in Nat
  BY DEF GraphOK
<1>2. GA!Lightest(s) = walk[L]
  BY DEF GA!Lightest, Vertices
<1>3. b \in S
  BY <1>1
<1>4. ASSUME NEW w \in S PROVE Turn(w) \in S /\ Turn(w) = [v \in Vertices |-> GA!Min(Reaching(w, v))]
  <2>1. Turn(w) = [v \in Vertices |-> GA!Min(Reaching(w, v))]
    BY DEF Reaching
  <2>2. \A v \in Vertices : GA!Min(Reaching(w, v)) \in Nat
    BY ReachingTyped
  <2>. HIDE DEF Turn
  <2>. QED BY <2>1, <2>2
<1>. HIDE DEF S, b, Turn
<1>5. walk = [h \in 0..L |-> Steps(walk, h)]
  <2>1. SUFFICES \E g : g = [h \in 0..L |-> Steps(g, h)]
    OBVIOUS
  <2>. DEFINE step == [i \in 1..L |-> [w \in S |-> Turn(w)]]
  <2>2. step \in [1..L -> [S -> S]]
    BY <1>4
  <2>3. PICK g \in [0..L -> S] : g[0] = b /\ \A i \in 1..L : g[i] = step[i][g[i - 1]]
    <3>. HIDE DEF step, L
    <3>1. Unrolls(L, S, b, step)
      BY <1>1, <1>3, <2>2, Turns
    <3>. QED BY <3>1, Zenon DEF Unrolls
  <2>4. \A i \in 1..L : g[i - 1] \in S /\ g[i] = Turn(g[i - 1])
    <3>1. \A i \in 1..L : i - 1 \in 0..L
      BY <1>1
    <3>. QED BY <2>3, <3>1
  <2>5. \A i \in 0..L : g[i] = Steps(g, i)
    <3>1. \A i \in 0..L : i = 0 \/ i \in 1..L
      BY <1>1
    <3>2. Steps(g, 0) = b
      OBVIOUS
    <3>3. \A i \in 1..L : Steps(g, i) = Turn(g[i - 1])
      OBVIOUS
    <3>. HIDE DEF Steps, L
    <3>. QED BY <2>3, <2>4, <3>1, <3>2, <3>3
  <2>. HIDE DEF Steps, L
  <2>6. g = [i \in 0..L |-> Steps(g, i)]
    BY <2>5
  <2>. QED BY <2>6
<1>. HIDE DEF walk
<1>6. walk[0] = b /\ \A h \in 1..L : walk[h] = Turn(walk[h - 1]) /\ h - 1 \in 0..L /\ h \in 0..L
  <2>1. 0 \in 0..L /\ \A h \in 1..L : h \in 0..L /\ h # 0 /\ h - 1 \in 0..L
    BY <1>1
  <2>2. \A h \in 0..L : walk[h] = Steps(walk, h)
    <3>. HIDE DEF Steps, L
    <3>. QED BY <1>5
  <2>. HIDE DEF L
  <2>. QED BY <2>1, <2>2
<1>. DEFINE A == {h \in 0..L : walk[h] \in S}
<1>7. \A h \in 0..L : h \in A
  <2>1. 0 \in A
    BY <1>1, <1>3, <1>6
  <2>2. ASSUME NEW i \in 1..L, i - 1 \in A PROVE i \in A
    BY <1>4, <1>6, <2>2
  <2>. HIDE DEF A, L
  <2>. QED BY <1>1, <2>1, <2>2, EveryTurn
<1>8. DOMAIN walk = 0..L /\ \A h \in 0..L : walk[h] \in S
  <2>. HIDE DEF L, Steps
  <2>. QED BY <1>5, <1>7
<1>9. walk \in [0..L -> S]
  <2>1. walk = [h \in 0..L |-> walk[h]]
    <3>. HIDE DEF L
    <3>1. DOMAIN walk = 0..L /\ walk = [h \in DOMAIN walk |-> walk[h]]
      <4>. HIDE DEF Steps
      <4>. QED BY <1>5
    <3>. QED BY <3>1
  <2>. HIDE DEF L
  <2>. QED BY <1>8, <2>1
<1>10. \A h \in 1..L : walk[h] = [v \in Vertices |-> GA!Min(Reaching(walk[h - 1], v))]
  BY <1>4, <1>6, <1>8
<1>11. Walks(s, walk)
  BY <1>6, <1>9, <1>10 DEF Walks, S, b
<1>. QED BY <1>2, <1>11

LEMMA WalkStep ==
  ASSUME GraphOK, NEW s \in Vertices, NEW walk, Walks(s, walk), NEW h \in 1..num_vertices - 1, NEW v \in Vertices
  PROVE  /\ walk[h - 1] \in [Vertices -> Nat] /\ walk[h] \in [Vertices -> Nat]
         /\ walk[h][v] \in Reaching(walk[h - 1], v)
         /\ \A x \in Reaching(walk[h - 1], v) : walk[h][v] <= x
<1>1. h - 1 \in 0..num_vertices - 1 /\ h \in 0..num_vertices - 1
  BY DEF GraphOK
<1>2. walk[h - 1] \in [Vertices -> Nat] /\ walk[h] \in [Vertices -> Nat]
  BY <1>1 DEF Walks
<1>3. walk[h][v] = GA!Min(Reaching(walk[h - 1], v))
  BY DEF Walks
<1>. QED BY <1>2, <1>3, ReachingTyped

\* No walk is lighter than the distances that no edge can lower.
LEMMA NoneIsNearer ==
  ASSUME GraphOK, NEW s, NEW a, NEW done, NEW dist, DijkstraOK(s, dist, {}, done, a), NEW walk, Walks(s, walk)
  PROVE  \A v \in Vertices : dist[v] <= walk[num_vertices - 1][v]
<1>1. /\ s \in Vertices /\ dist \in [Vertices -> Lengths] /\ done \in SUBSET Vertices /\ dist[s] = 0
      /\ inf \in Nat /\ num_vertices - 1 \in Nat
      /\ \A v \in Vertices \ done : dist[v] = inf
  BY DEF DijkstraOK, Types, EntriesOK, GraphOK
<1>2. \A v \in Vertices : dist[v] \in Nat /\ dist[v] <= inf
  <2>1. \A x \in Lengths : x \in Nat /\ x <= inf
    BY <1>1 DEF Lengths
  <2>. QED BY <1>1, <2>1
<1>. DEFINE A == {h \in 0..num_vertices - 1 : \A v \in Vertices : dist[v] <= walk[h][v]}
<1>3. 0 \in A
  <2>1. ASSUME NEW v \in Vertices PROVE dist[v] <= walk[0][v]
    <3>1. walk[0][v] = IF v = s THEN 0 ELSE inf
      BY <1>1 DEF Walks
    <3>2. CASE v = s
      <4>1. dist[v] = 0 /\ walk[0][v] = 0
        BY <1>1, <3>1, <3>2
      <4>. QED BY <4>1
    <3>3. CASE v # s
      BY <1>2, <3>1, <3>3
    <3>. QED BY <3>2, <3>3
  <2>2. 0 \in 0..num_vertices - 1
    BY <1>1
  <2>. QED BY <2>1, <2>2
<1>4. ASSUME NEW h \in 1..num_vertices - 1, h - 1 \in A PROVE h \in A
  <2>1. h \in 0..num_vertices - 1
    BY <1>1
  <2>2. PICK w : w = walk[h - 1]
    OBVIOUS
  <2>3. \A v \in Vertices : dist[v] <= w[v]
    BY <1>4, <2>2
  <2>4. ASSUME NEW v \in Vertices PROVE dist[v] <= walk[h][v]
    <3>1. w \in [Vertices -> Nat] /\ walk[h][v] \in Reaching(w, v)
      BY <1>1, <2>2, WalkStep
    <3>2. CASE walk[h][v] = w[v]
      BY <2>3, <3>2
    <3>3. CASE walk[h][v] # w[v]
      <4>1. PICK e \in GA!Edges : e[2] = v /\ walk[h][v] = w[e[1]] + e[3]
        BY <3>1, <3>3 DEF Reaching
      <4>2. PICK u, l : u = e[1] /\ l = e[3]
        OBVIOUS
      <4>3. u \in Vertices /\ l \in Nat /\ walk[h][v] = w[u] + l
        BY <4>1, <4>2, EdgesTyped
      <4>4. dist[u] <= w[u] /\ w[u] \in Nat /\ dist[u] \in Nat /\ dist[v] \in Nat /\ dist[v] <= inf
        BY <1>2, <2>3, <3>1, <4>3
      <4>5. CASE u \in done
        <5>1. PICK k \in DOMAIN adj_list[u] : e = <<u, adj_list[u][k].to, adj_list[u][k].weight>>
          <6>1. PICK x \in Vertices : \E k \in DOMAIN adj_list[x] : e = <<x, adj_list[x][k].to, adj_list[x][k].weight>>
            BY DEF GA!Edges, Vertices
          <6>2. x = u
            BY <4>2, <6>1
          <6>. QED BY <6>1, <6>2
        <5>2. adj_list[u][k].to = v /\ adj_list[u][k].weight = l
          BY <4>1, <4>2, <5>1
        <5>3. dist[v] <= l + dist[u]
          BY <4>5, <5>2 DEF DijkstraOK, RelaxedOK
        <5>. QED BY <4>3, <4>4, <5>3
      <4>6. CASE u \notin done
        <5>1. dist[u] = inf
          BY <1>1, <4>3, <4>6
        <5>. QED BY <1>1, <4>3, <4>4, <5>1
      <4>. QED BY <4>5, <4>6
    <3>. QED BY <3>2, <3>3
  <2>. QED BY <2>1, <2>4
<1>5. \A h \in 0..num_vertices - 1 : h \in A
  <2>. HIDE DEF A
  <2>. QED BY <1>1, <1>3, <1>4, EveryTurn
<1>6. num_vertices - 1 \in 0..num_vertices - 1
  BY <1>1
<1>. QED BY <1>5, <1>6

\* The parents of the settled vertices, and ranks that fall along them
Parents(s, done, dist, a, par, rank) ==
  /\ par \in [done -> 0..num_vertices] /\ rank \in [Vertices -> Nat]
  /\ \A u \in done : /\ a[u] = <<par[u], dist[u]>> /\ rank[u] <= num_vertices - 1
                     /\ u = s \/ (Leads(par[u], u, dist[u], dist, done) /\ rank[par[u]] < rank[u])

LEMMA HaveParents ==
  ASSUME GraphOK, NEW s, NEW a, NEW done, NEW dist, DijkstraOK(s, dist, {}, done, a)
  PROVE  \E par, rank : Parents(s, done, dist, a, par, rank)
<1>1. PICK rank \in [Vertices -> Nat] : \A u \in done :
         rank[u] < Cardinality(done) /\ (u = s \/ rank[a[u][1]] < rank[u])
  BY DEF DijkstraOK, Ranked
<1>2. done \in SUBSET Vertices /\ num_vertices \in Nat
  BY DEF DijkstraOK, Types, GraphOK
<1>3. Cardinality(done) \in Nat /\ Cardinality(done) <= num_vertices
  <2>1. IsFiniteSet(Vertices) /\ Cardinality(Vertices) = num_vertices
    <3>1. 0 \in Int /\ num_vertices - 1 \in Int
      BY <1>2
    <3>2. IsFiniteSet(0..num_vertices - 1)
      BY <3>1, FS_Interval
    <3>3. Cardinality(0..num_vertices - 1) = IF 0 > num_vertices - 1 THEN 0 ELSE num_vertices - 1 - 0 + 1
      BY <3>1, FS_Interval
    <3>4. Cardinality(0..num_vertices - 1) = num_vertices
      BY <1>2, <3>3
    <3>. QED BY <3>2, <3>4 DEF Vertices, GA!Vertices
  <2>2. IsFiniteSet(done) /\ Cardinality(done) <= Cardinality(Vertices)
    BY <1>2, <2>1, FS_Subset
  <2>. QED BY <2>1, <2>2, FS_CardinalityType
<1>. DEFINE P(u, p) == a[u] = <<p, dist[u]>> /\ (u = s \/ Leads(p, u, dist[u], dist, done))
            par == [u \in done |-> CHOOSE p \in 0..num_vertices : P(u, p)]
<1>4. \A u \in done : \E p \in 0..num_vertices : P(u, p)
  BY DEF DijkstraOK, AnswerOK
<1>5. par \in [done -> 0..num_vertices] /\ \A u \in done : P(u, par[u])
  <2>. HIDE DEF P
  <2>. QED BY <1>4
<1>. HIDE DEF par
<1>6. ASSUME NEW u \in done
      PROVE  /\ a[u] = <<par[u], dist[u]>> /\ rank[u] <= num_vertices - 1
             /\ u = s \/ (Leads(par[u], u, dist[u], dist, done) /\ rank[par[u]] < rank[u])
  <2>1. a[u] = <<par[u], dist[u]>> /\ (u = s \/ Leads(par[u], u, dist[u], dist, done))
    BY <1>5
  <2>2. a[u][1] = par[u]
    BY <2>1
  <2>3. rank[u] < Cardinality(done) /\ (u = s \/ rank[a[u][1]] < rank[u]) /\ rank[u] \in Nat
    BY <1>1, <1>2
  <2>4. rank[u] <= num_vertices - 1
    BY <1>2, <1>3, <2>3
  <2>. QED BY <2>1, <2>2, <2>3, <2>4
<1>. QED BY <1>1, <1>5, <1>6 DEF Parents

\* The distance of a settled vertex is the weight of a walk.
LEMMA SomeIsAsNear ==
  ASSUME GraphOK, NEW s, NEW a, NEW done, NEW dist, DijkstraOK(s, dist, {}, done, a), NEW walk, Walks(s, walk)
  PROVE  \A v \in done : walk[num_vertices - 1][v] <= dist[v]
<1>1. /\ s \in Vertices /\ dist \in [Vertices -> Lengths] /\ done \in SUBSET Vertices
      /\ inf \in Nat /\ num_vertices - 1 \in Nat
  BY DEF DijkstraOK, Types, GraphOK
<1>2. \A v \in Vertices : dist[v] \in Nat
  <2>1. \A x \in Lengths : x \in Nat
    BY <1>1 DEF Lengths
  <2>. QED BY <1>1, <2>1
<1>3. PICK par, rank : Parents(s, done, dist, a, par, rank)
  BY HaveParents
<1>4. \A u \in done : /\ rank[u] \in Nat /\ rank[u] <= num_vertices - 1
                      /\ u = s \/ (Leads(par[u], u, dist[u], dist, done) /\ rank[par[u]] < rank[u])
  BY <1>1, <1>3 DEF Parents
<1>. DEFINE A == {h \in 0..num_vertices - 1 :
                    walk[h][s] = 0 /\ \A v \in done : rank[v] <= h => walk[h][v] <= dist[v]}
<1>5. 0 \in A
  <2>1. walk[0][s] = 0 /\ 0 \in 0..num_vertices - 1
    BY <1>1 DEF Walks
  <2>2. ASSUME NEW v \in done, rank[v] <= 0 PROVE walk[0][v] <= dist[v]
    <3>1. v = s
      <4>1. SUFFICES ASSUME v # s PROVE FALSE
        OBVIOUS
      <4>2. rank[par[v]] < rank[v] /\ par[v] \in done
        BY <1>4, <4>1 DEF Leads
      <4>3. rank[par[v]] \in Nat /\ rank[v] \in Nat
        BY <1>4, <4>2
      <4>. QED BY <2>2, <4>2, <4>3
    <3>2. dist[v] \in Nat
      BY <1>1, <1>2
    <3>. QED BY <2>1, <3>1, <3>2
  <2>. QED BY <2>1, <2>2
<1>6. ASSUME NEW h \in 1..num_vertices - 1, h - 1 \in A PROVE h \in A
  <2>1. PICK w, g : w = walk[h - 1] /\ g = h - 1
    OBVIOUS
  <2>2. h \in 0..num_vertices - 1 /\ h \in Nat /\ g \in Nat
    BY <1>1, <2>1
  <2>3. w[s] = 0 /\ \A v \in done : rank[v] <= g => w[v] <= dist[v]
    BY <1>6, <2>1
  <2>4. \A v \in Vertices : /\ w \in [Vertices -> Nat] /\ walk[h] \in [Vertices -> Nat]
                            /\ \A x \in Reaching(w, v) : walk[h][v] <= x
    BY <1>1, <2>1, WalkStep
  <2>5. walk[h][s] = 0
    <3>1. walk[h][s] <= w[s] /\ walk[h][s] \in Nat
      BY <1>1, <2>4 DEF Reaching
    <3>. QED BY <2>3, <3>1
  <2>6. ASSUME NEW v \in done, rank[v] <= h PROVE walk[h][v] <= dist[v]
    <3>1. v \in Vertices /\ dist[v] \in Nat
      BY <1>1, <1>2
    <3>2. CASE v = s
      BY <2>5, <3>1, <3>2
    <3>3. CASE v # s
      <4>1. PICK p : p = par[v]
        OBVIOUS
      <4>2. rank[p] < rank[v] /\ p \in done /\ <<p, v, dist[v] - dist[p]>> \in GA!Edges
        BY <1>4, <3>3, <4>1 DEF Leads
      <4>3. rank[p] \in Nat /\ rank[v] \in Nat /\ rank[p] <= g
        <5>1. rank[p] \in Nat /\ rank[v] \in Nat
          BY <1>4, <4>2
        <5>. QED BY <2>1, <2>6, <4>2, <5>1
      <4>4. w[p] <= dist[p] /\ p \in Vertices /\ w[p] \in Nat /\ dist[p] \in Nat
        BY <1>1, <1>2, <2>3, <2>4, <4>2, <4>3
      <4>5. PICK l : l = dist[v] - dist[p]
        OBVIOUS
      <4>6. w[p] + l \in Reaching(w, v)
        <5>1. PICK e \in GA!Edges : e = <<p, v, l>>
          BY <4>2, <4>5
        <5>2. e[1] = p /\ e[2] = v /\ e[3] = l
          BY <5>1
        <5>3. w[e[1]] + e[3] \in Reaching(w, v)
          BY <5>2 DEF Reaching
        <5>. QED BY <5>2, <5>3
      <4>7. walk[h][v] <= w[p] + l /\ walk[h][v] \in Nat
        BY <2>4, <3>1, <4>6
      <4>. QED BY <3>1, <4>4, <4>5, <4>7
    <3>. QED BY <3>2, <3>3
  <2>. QED BY <2>2, <2>5, <2>6
<1>7. \A h \in 0..num_vertices - 1 : h \in A
  <2>. HIDE DEF A
  <2>. QED BY <1>1, <1>5, <1>6, EveryTurn
<1>8. num_vertices - 1 \in 0..num_vertices - 1
  BY <1>1
<1>9. \A v \in done : rank[v] <= num_vertices - 1 => walk[num_vertices - 1][v] <= dist[v]
  BY <1>7, <1>8
<1>. QED BY <1>4, <1>9

\* Following the parents from a settled vertex leads to the source in num_vertices steps.
LEMMA LeadBack ==
  ASSUME GraphOK, NEW s, NEW a, NEW done, NEW dist, NEW par, NEW rank, s \in done, done \in SUBSET Vertices,
         Parents(s, done, dist, a, par, rank), NEW v \in done
  PROVE  GA!ParentsLeadBack(s, a, v)
<1>. DEFINE L == num_vertices
            Turn(u) == IF u = s THEN s ELSE a[u][1]
            Steps(g, h) == IF h = 0 THEN v ELSE Turn(g[h - 1])
            at == CHOOSE g : g = [h \in 0..L |-> Steps(g, h)]
            Good(h, u) == u \in done /\ (u = s \/ rank[u] + h <= num_vertices - 1)
<1>1. L \in Nat /\ L # 0
  BY DEF GraphOK
<1>2. GA!ParentsLeadBack(s, a, v) <=>
        at[L] = s /\ (v # s => <<a[v][1], v, a[v][2] - a[a[v][1]][2]>> \in GA!Edges)
  BY DEF GA!ParentsLeadBack
<1>3. \A u \in done : /\ rank[u] \in Nat /\ rank[u] <= num_vertices - 1
                      /\ a[u] = <<par[u], dist[u]>> /\ a[u][1] = par[u] /\ a[u][2] = dist[u]
                      /\ u = s \/ (Leads(par[u], u, dist[u], dist, done) /\ rank[par[u]] < rank[u])
  <2>1. SUFFICES ASSUME NEW u \in done
                 PROVE  /\ rank[u] \in Nat /\ rank[u] <= num_vertices - 1
                        /\ a[u] = <<par[u], dist[u]>> /\ a[u][1] = par[u] /\ a[u][2] = dist[u]
                        /\ u = s \/ (Leads(par[u], u, dist[u], dist, done) /\ rank[par[u]] < rank[u])
    OBVIOUS
  <2>2. a[u] = <<par[u], dist[u]>>
    BY DEF Parents
  <2>3. a[u][1] = par[u] /\ a[u][2] = dist[u]
    BY <2>2
  <2>. QED BY <2>2, <2>3 DEF Parents
<1>4. ASSUME NEW u \in done PROVE Turn(u) \in done /\ (Turn(u) = s \/ rank[Turn(u)] < rank[u])
  <2>1. CASE u = s
    BY <2>1
  <2>2. CASE u # s
    <3>1. Turn(u) = par[u]
      BY <1>3, <2>2
    <3>. HIDE DEF Turn
    <3>. QED BY <1>3, <2>2, <3>1 DEF Leads
  <2>. QED BY <2>1, <2>2
<1>5. Turn(s) = s
  OBVIOUS
<1>. HIDE DEF Turn
<1>6. at = [h \in 0..L |-> Steps(at, h)]
  <2>1. SUFFICES \E g : g = [h \in 0..L |-> Steps(g, h)]
    OBVIOUS
  <2>. DEFINE step == [i \in 1..L |-> [u \in done |-> Turn(u)]]
  <2>2. step \in [1..L -> [done -> done]]
    BY <1>4
  <2>3. PICK g \in [0..L -> done] : g[0] = v /\ \A i \in 1..L : g[i] = step[i][g[i - 1]]
    <3>. HIDE DEF step, L
    <3>1. Unrolls(L, done, v, step)
      BY <1>1, <2>2, Turns
    <3>. QED BY <3>1, Zenon DEF Unrolls
  <2>4. \A i \in 1..L : g[i - 1] \in done /\ g[i] = Turn(g[i - 1])
    <3>1. \A i \in 1..L : i - 1 \in 0..L
      BY <1>1
    <3>. QED BY <2>3, <3>1
  <2>5. \A i \in 0..L : g[i] = Steps(g, i)
    <3>1. \A i \in 0..L : i = 0 \/ i \in 1..L
      BY <1>1
    <3>2. Steps(g, 0) = v
      OBVIOUS
    <3>3. \A i \in 1..L : Steps(g, i) = Turn(g[i - 1])
      OBVIOUS
    <3>. HIDE DEF Steps, L
    <3>. QED BY <2>3, <2>4, <3>1, <3>2, <3>3
  <2>. HIDE DEF Steps, L
  <2>6. g = [i \in 0..L |-> Steps(g, i)]
    BY <2>5
  <2>. QED BY <2>6
<1>. HIDE DEF at
<1>7. at[0] = v /\ \A h \in 1..L : at[h] = Turn(at[h - 1])
  <2>1. 0 \in 0..L /\ \A h \in 1..L : h \in 0..L /\ h # 0
    BY <1>1
  <2>2. \A h \in 0..L : at[h] = Steps(at, h)
    <3>. HIDE DEF Steps, L
    <3>. QED BY <1>6
  <2>. HIDE DEF L
  <2>. QED BY <2>1, <2>2
<1>. DEFINE A == {h \in 0..L : Good(h, at[h])}
<1>8. 0 \in A
  <2>1. rank[v] + 0 <= num_vertices - 1 /\ 0 \in 0..L
    BY <1>1, <1>3
  <2>. QED BY <1>7, <2>1
<1>9. ASSUME NEW h \in 1..L, h - 1 \in A PROVE h \in A
  <2>1. PICK u, g : u = at[h - 1] /\ g = h - 1
    OBVIOUS
  <2>2. h \in 0..L /\ h \in Nat /\ g \in Nat /\ h = g + 1
    BY <1>1, <2>1
  <2>3. u \in done /\ (u = s \/ rank[u] + g <= num_vertices - 1)
    BY <1>9, <2>1
  <2>4. PICK t : t = Turn(u)
    OBVIOUS
  <2>5. at[h] = t /\ t \in done /\ (t = s \/ rank[t] < rank[u])
    BY <1>4, <1>7, <2>1, <2>3, <2>4
  <2>6. t = s \/ rank[t] + h <= num_vertices - 1
    <3>1. CASE u = s
      BY <1>5, <2>4, <3>1
    <3>2. CASE u # s /\ t # s
      <4>1. rank[t] < rank[u] /\ rank[t] \in Nat /\ rank[u] \in Nat /\ rank[u] + g <= num_vertices - 1
        BY <1>3, <2>3, <2>5, <3>2
      <4>. QED BY <1>1, <2>2, <4>1
    <3>. QED BY <3>1, <3>2
  <2>. QED BY <2>2, <2>5, <2>6
<1>10. L \in A
  <2>1. \A h \in 0..L : h \in A
    <3>. HIDE DEF A, L
    <3>. QED BY <1>1, <1>8, <1>9, EveryTurn
  <2>. QED BY <1>1, <2>1
<1>11. at[L] = s
  <2>1. PICK u : u = at[L]
    OBVIOUS
  <2>2. u \in done /\ (u = s \/ rank[u] + num_vertices <= num_vertices - 1)
    BY <1>10, <2>1
  <2>3. rank[u] \in Nat
    BY <1>3, <2>2
  <2>. QED BY <1>1, <2>1, <2>2, <2>3
<1>12. ASSUME v # s PROVE <<a[v][1], v, a[v][2] - a[a[v][1]][2]>> \in GA!Edges
  <2>1. PICK p : p = par[v]
    OBVIOUS
  <2>2. p \in done /\ <<p, v, dist[v] - dist[p]>> \in GA!Edges
    BY <1>3, <1>12, <2>1 DEF Leads
  <2>3. a[v][1] = p /\ a[v][2] = dist[v] /\ a[p][2] = dist[p]
    BY <1>3, <2>1, <2>2
  <2>. QED BY <2>2, <2>3
<1>. QED BY <1>2, <1>11, <1>12

\* None is no pair of numbers.
NoneIsNoPair == \A p, d : None # <<p, d>>

\* When the queue is empty the answer has the shortest paths.
LEMMA AnswerRight ==
  ASSUME GraphOK, NoneIsNoPair, NEW s, NEW a, NEW done, NEW dist, DijkstraOK(s, dist, {}, done, a)
  PROVE  GA!ShortestPaths(s, a)
<1>1. /\ s \in Vertices /\ dist \in [Vertices -> Lengths] /\ done \in SUBSET Vertices /\ dist[s] = 0
      /\ inf \in Nat /\ inf # 0 /\ num_vertices - 1 \in Nat
      /\ \A v \in Vertices \ done : dist[v] = inf /\ a[v] = None
  BY DEF DijkstraOK, Types, EntriesOK, AnswerOK, GraphOK
<1>2. \A v \in Vertices : dist[v] \in Nat
  <2>1. \A x \in Lengths : x \in Nat
    BY <1>1 DEF Lengths
  <2>. QED BY <1>1, <2>1
<1>3. PICK walk : Walks(s, walk) /\ GA!Lightest(s) = walk[num_vertices - 1]
  BY <1>1, LightestIs
<1>4. PICK par, rank : Parents(s, done, dist, a, par, rank)
  BY HaveParents
<1>5. s \in done
  BY <1>1
<1>6. \A v \in Vertices : dist[v] <= GA!Lightest(s)[v] /\ GA!Lightest(s)[v] \in Nat
  <2>1. num_vertices - 1 \in 0..num_vertices - 1
    BY <1>1
  <2>2. walk[num_vertices - 1] \in [Vertices -> Nat]
    BY <1>3, <2>1 DEF Walks
  <2>. QED BY <1>3, <2>2, NoneIsNearer
<1>7. \A v \in done : GA!Lightest(s)[v] <= dist[v]
  BY <1>3, SomeIsAsNear
<1>8. ASSUME NEW v \in Vertices
      PROVE  IF GA!Lightest(s)[v] >= inf THEN a[v] = None
             ELSE a[v] # None /\ a[v][2] = GA!Lightest(s)[v] /\ GA!ParentsLeadBack(s, a, v)
  <2>1. CASE v \in done
    <3>1. PICK p : dist[v] < inf /\ a[v] = <<p, dist[v]>>
      BY <2>1 DEF DijkstraOK, AnswerOK
    <3>2. GA!Lightest(s)[v] = dist[v] /\ ~(GA!Lightest(s)[v] >= inf)
      <4>1. PICK l : l = GA!Lightest(s)[v]
        OBVIOUS
      <4>2. l \in Nat /\ dist[v] <= l /\ l <= dist[v] /\ dist[v] \in Nat
        BY <1>2, <1>6, <1>7, <2>1, <4>1
      <4>. QED BY <1>1, <3>1, <4>1, <4>2
    <3>3. a[v] # None /\ a[v][2] = dist[v]
      BY <3>1 DEF NoneIsNoPair
    <3>4. GA!ParentsLeadBack(s, a, v)
      BY <1>1, <1>4, <1>5, <2>1, LeadBack
    <3>. QED BY <3>2, <3>3, <3>4
  <2>2. CASE v \notin done
    <3>1. GA!Lightest(s)[v] >= inf
      <4>1. PICK l : l = GA!Lightest(s)[v]
        OBVIOUS
      <4>2. l \in Nat /\ dist[v] <= l /\ dist[v] = inf
        BY <1>1, <1>6, <2>2, <4>1
      <4>. QED BY <1>1, <4>1, <4>2
    <3>. QED BY <1>1, <2>2, <3>1
  <2>. QED BY <2>1, <2>2
<1>. QED BY <1>8 DEF GA!ShortestPaths, Vertices

-----------------------------------------------------------------------------
(* The graph *)

Among(s, x) == \E i \in DOMAIN s : s[i] = x

LEMMA AmongBoth ==
  ASSUME NEW T, NEW s \in Seq(T), NEW t \in Seq(T), NEW x
  PROVE  Among(s \o t, x) <=> Among(s, x) \/ Among(t, x)
<1>1. /\ Len(s) \in Nat /\ Len(t) \in Nat /\ s \o t \in Seq(T) /\ Len(s \o t) = Len(s) + Len(t)
      /\ DOMAIN s = 1..Len(s) /\ DOMAIN t = 1..Len(t) /\ DOMAIN (s \o t) = 1..Len(s) + Len(t)
  OBVIOUS
<1>2. \A i \in 1..Len(s) + Len(t) : (s \o t)[i] = IF i <= Len(s) THEN s[i] ELSE t[i - Len(s)]
  BY ConcatProperties
<1>3. PICK r, m, l : r = s \o t /\ m = Len(s) /\ l = Len(t)
  OBVIOUS
<1>4. m \in Nat /\ l \in Nat /\ DOMAIN s = 1..m /\ DOMAIN t = 1..l /\ DOMAIN r = 1..m + l
      /\ \A i \in 1..m + l : r[i] = IF i <= m THEN s[i] ELSE t[i - m]
  BY <1>1, <1>2, <1>3
<1>5. ASSUME NEW i \in 1..m + l, r[i] = x PROVE Among(s, x) \/ Among(t, x)
  <2>1. CASE i <= m
    <3>1. i \in 1..m /\ s[i] = x
      BY <1>4, <1>5, <2>1
    <3>. QED BY <1>4, <3>1 DEF Among
  <2>2. CASE ~(i <= m)
    <3>1. PICK j : j = i - m
      OBVIOUS
    <3>2. j \in 1..l /\ t[j] = x
      BY <1>4, <1>5, <2>2, <3>1
    <3>. QED BY <1>4, <3>2 DEF Among
  <2>. QED BY <2>1, <2>2
<1>6. ASSUME NEW i \in 1..m, s[i] = x PROVE Among(r, x)
  <2>1. i \in 1..m + l /\ i <= m
    BY <1>4
  <2>. QED BY <1>4, <1>6, <2>1 DEF Among
<1>7. ASSUME NEW i \in 1..l, t[i] = x PROVE Among(r, x)
  <2>1. PICK j : j = m + i
    OBVIOUS
  <2>2. j \in 1..m + l /\ ~(j <= m) /\ j - m = i
    BY <1>4, <2>1
  <2>3. r[j] = x
    BY <1>4, <1>7, <2>2
  <2>. QED BY <1>4, <2>2, <2>3 DEF Among
<1>. QED BY <1>3, <1>4, <1>5, <1>6, <1>7 DEF Among

\* Flattening sequences keeps their elements.
LEMMA Flattening ==
  ASSUME NEW T, NEW ss \in Seq(Seq(T))
  PROVE  /\ GA!FlattenSeq(ss) \in Seq(T)
         /\ \A x : Among(GA!FlattenSeq(ss), x) <=> \E k \in DOMAIN ss : Among(ss[k], x)
<1>. DEFINE L == Len(ss)
            Steps(g, i) == IF i = 1 THEN ss[i] ELSE g[i - 1] \o ss[i]
            flatten == CHOOSE g : g = [i \in 1..L |-> Steps(g, i)]
<1>1. L \in Nat /\ DOMAIN ss = 1..L /\ \A i \in 1..L : ss[i] \in Seq(T)
  OBVIOUS
<1>2. CASE L = 0
  <2>1. GA!FlattenSeq(ss) = ss /\ ss = <<>>
    BY <1>2 DEF GA!FlattenSeq
  <2>2. GA!FlattenSeq(ss) = <<>> /\ DOMAIN ss = {}
    BY <2>1
  <2>. QED BY <2>2 DEF Among
<1>3. CASE L # 0
  <2>1. GA!FlattenSeq(ss) = flatten[L]
    BY <1>3 DEF GA!FlattenSeq
  <2>. DEFINE S == Seq(T)
              step == [i \in 1..L |-> [s \in S |-> s \o ss[i]]]
  <2>2. step \in [1..L -> [S -> S]] /\ <<>> \in S
    BY <1>1
  <2>3. PICK g \in [0..L -> S] : g[0] = <<>> /\ \A i \in 1..L : g[i] = step[i][g[i - 1]]
    <3>. HIDE DEF step, L, S
    <3>1. Unrolls(L, S, <<>>, step)
      BY <1>1, <2>2, Turns
    <3>. QED BY <3>1, Zenon DEF Unrolls
  <2>4. \A i \in 1..L : g[i - 1] \in S /\ g[i] = g[i - 1] \o ss[i] /\ g[i] \in S
    <3>1. \A i \in 1..L : i - 1 \in 0..L /\ i \in 0..L
      BY <1>1
    <3>. QED BY <2>3, <3>1
  <2>5. PICK h : h = [i \in 1..L |-> g[i]]
    OBVIOUS
  <2>6. ASSUME NEW i \in 1..L PROVE h[i] = Steps(h, i)
    <3>1. h[i] = g[i]
      BY <2>5
    <3>2. CASE i = 1
      <4>1. i - 1 = 0
        BY <3>2
      <4>2. g[i] = <<>> \o ss[i]
        BY <2>3, <2>4, <4>1
      <4>3. g[i] = ss[i]
        BY <1>1, <4>2
      <4>. QED BY <3>1, <3>2, <4>3
    <3>3. CASE i # 1
      <4>1. i - 1 \in 1..L
        BY <1>1, <3>3
      <4>2. h[i - 1] = g[i - 1]
        BY <2>5, <4>1
      <4>. QED BY <2>4, <3>1, <3>3, <4>2
    <3>. QED BY <3>2, <3>3
  <2>7. \E f : f = [i \in 1..L |-> Steps(f, i)]
    <3>. HIDE DEF Steps, L
    <3>1. h = [i \in 1..L |-> Steps(h, i)]
      BY <2>5, <2>6
    <3>. QED BY <3>1
  <2>8. flatten = [i \in 1..L |-> Steps(flatten, i)]
    BY <2>7
  <2>. HIDE DEF flatten, step
  <2>9. \A i \in 1..L : flatten[i] = Steps(flatten, i)
    <3>. HIDE DEF Steps, L
    <3>. QED BY <2>8
  <2>. DEFINE A == {m \in 0..L : m = 0 \/ (flatten[m] \in S /\ \A x : Among(flatten[m], x) <=> \E k \in 1..m : Among(ss[k], x))}
  <2>10. 0 \in A
    BY <1>1
  <2>11. ASSUME NEW i \in 1..L, i - 1 \in A PROVE i \in A
    <3>1. i \in 0..L /\ ss[i] \in S
      BY <1>1
    <3>2. CASE i = 1
      <4>1. flatten[i] = ss[i] /\ 1..i = {i}
        BY <2>9, <3>2
      <4>. QED BY <3>1, <4>1
    <3>3. CASE i # 1
      <4>1. PICK j : j = i - 1
        OBVIOUS
      <4>2. j # 0 /\ \A k : k \in 1..i <=> k \in 1..j \/ k = i
        BY <1>1, <3>3, <4>1
      <4>3. flatten[j] \in S /\ \A x : Among(flatten[j], x) <=> \E k \in 1..j : Among(ss[k], x)
        BY <2>11, <4>1, <4>2
      <4>4. flatten[i] = flatten[j] \o ss[i]
        BY <2>9, <3>3, <4>1
      <4>5. flatten[i] \in S
        BY <3>1, <4>3, <4>4
      <4>6. \A x : Among(flatten[i], x) <=> Among(flatten[j], x) \/ Among(ss[i], x)
        BY <3>1, <4>3, <4>4, AmongBoth
      <4>7. \A x : Among(flatten[i], x) <=> \E k \in 1..i : Among(ss[k], x)
        BY <4>2, <4>3, <4>6
      <4>. QED BY <3>1, <4>5, <4>7
    <3>. QED BY <3>2, <3>3
  <2>12. \A m \in 0..L : m \in A
    <3>. HIDE DEF A, L
    <3>. QED BY <1>1, <2>10, <2>11, EveryTurn
  <2>13. L \in A
    <3>. HIDE DEF A
    <3>1. L \in 0..L
      BY <1>1
    <3>. QED BY <2>12, <3>1
  <2>. QED BY <1>1, <1>3, <2>1, <2>13
<1>. QED BY <1>2, <1>3

\* A list of edges that are in the graph, none of which weighs inf
EdgeLists == Seq(Vertices \X Vertices \X (0..inf - 1))
NoneIsNoSequence == \A S : None \notin Seq(S)

GraphAssumption ==
  /\ num_vertices \in Nat \ {0} /\ inf \in Nat \ {0} /\ Sources \subseteq Vertices
  /\ \A g \in Inputs : g.edges \in EdgeLists /\ g.directed \in BOOLEAN
  /\ NoneIsNoSequence

\* The edges of an undirected graph go both ways.
Symmetric == \A u, v, w : <<u, v, w>> \in GA!Edges => <<v, u, w>> \in GA!Edges
Finite == \A e \in GA!Edges : e[3] < inf

\* Edge k of the constructor puts x into the list of v.
Puts(edge, oneWay, v, x) ==
  \/ edge[1] = v /\ x = [to |-> edge[2], weight |-> edge[3]]
  \/ ~oneWay /\ edge[2] = v /\ x = [to |-> edge[1], weight |-> edge[3]]

LEMMA Lists ==
  ASSUME inf \in Nat, NEW edges \in EdgeLists, NEW oneWay \in BOOLEAN, NEW v \in Vertices
  PROVE  /\ GA!AdjList(edges, oneWay)[v] \in Seq(Neighbours)
         /\ \A x : Among(GA!AdjList(edges, oneWay)[v], x) <=> \E k \in DOMAIN edges : Puts(edges[k], oneWay, v, x)
<1>. DEFINE Out(k) == IF edges[k][1] = v THEN <<[to |-> edges[k][2], weight |-> edges[k][3]]>> ELSE <<>>
            Into(k) == IF ~oneWay /\ edges[k][2] = v THEN <<[to |-> edges[k][1], weight |-> edges[k][3]]>> ELSE <<>>
            ss == [k \in DOMAIN edges |-> Out(k) \o Into(k)]
<1>1. GA!AdjList(edges, oneWay)[v] = GA!FlattenSeq(ss)
  BY DEF GA!AdjList, Vertices
<1>2. ASSUME NEW k \in DOMAIN edges
      PROVE  /\ Out(k) \in Seq(Neighbours) /\ Into(k) \in Seq(Neighbours)
             /\ \A x : Among(Out(k), x) \/ Among(Into(k), x) <=> Puts(edges[k], oneWay, v, x)
  <2>1. edges[k] \in Vertices \X Vertices \X (0..inf - 1)
    BY ElementOfSeq DEF EdgeLists
  <2>2. PICK a, b, w : a = edges[k][1] /\ b = edges[k][2] /\ w = edges[k][3]
    OBVIOUS
  <2>3. a \in Vertices /\ b \in Vertices /\ w \in Nat
    BY <2>1, <2>2
  <2>4. [to |-> a, weight |-> w] \in Neighbours /\ [to |-> b, weight |-> w] \in Neighbours
    BY <2>3 DEF Neighbours
  <2>5. \A y, x : Among(<<y>>, x) <=> x = y
    BY DEF Among
  <2>6. \A x : ~Among(<<>>, x)
    BY DEF Among
  <2>7. Out(k) \in Seq(Neighbours) /\ Into(k) \in Seq(Neighbours)
    BY <2>2, <2>4
  <2>8. \A x : Among(Out(k), x) <=> a = v /\ x = [to |-> b, weight |-> w]
    BY <2>2, <2>5, <2>6
  <2>9. \A x : Among(Into(k), x) <=> ~oneWay /\ b = v /\ x = [to |-> a, weight |-> w]
    BY <2>2, <2>5, <2>6
  <2>. HIDE DEF Out, Into
  <2>. QED BY <2>2, <2>7, <2>8, <2>9 DEF Puts
<1>. HIDE DEF Out, Into
<1>3. ss \in Seq(Seq(Neighbours)) /\ DOMAIN ss = DOMAIN edges
  <2>1. Len(edges) \in Nat /\ DOMAIN edges = 1..Len(edges)
    BY DEF EdgeLists
  <2>2. \A k \in 1..Len(edges) : Out(k) \o Into(k) \in Seq(Neighbours)
    BY <1>2, <2>1
  <2>. QED BY <2>1, <2>2
<1>4. \A k \in DOMAIN edges : \A x : Among(ss[k], x) <=> Puts(edges[k], oneWay, v, x)
  BY <1>2, AmongBoth
<1>. HIDE DEF ss
<1>. QED BY <1>1, <1>3, <1>4, Flattening

LEMMA GraphMade ==
  ASSUME GraphAssumption, NEW g \in Inputs, adj_list = GA!AdjList(g.edges, g.directed)
  PROVE  GraphOK /\ Finite /\ (~g.directed => Symmetric)
<1>1. /\ g.edges \in EdgeLists /\ g.directed \in BOOLEAN /\ inf \in Nat /\ inf # 0 /\ num_vertices \in Nat \ {0}
      /\ \A v \in Vertices :
           /\ adj_list[v] \in Seq(Neighbours)
           /\ \A x : Among(adj_list[v], x) <=> \E k \in DOMAIN g.edges : Puts(g.edges[k], g.directed, v, x)
  BY Lists DEF GraphAssumption
<1>2. adj_list \in [Vertices -> Seq(Neighbours)]
  <2>1. DOMAIN adj_list = Vertices /\ adj_list = [v \in DOMAIN adj_list |-> adj_list[v]]
    BY DEF GA!AdjList, Vertices
  <2>. QED BY <1>1, <2>1
<1>3. GraphOK
  BY <1>1, <1>2 DEF GraphOK
<1>4. \A u, v, w : <<u, v, w>> \in GA!Edges <=>
        u \in Vertices /\ Among(adj_list[u], [to |-> v, weight |-> w])
  <2>1. SUFFICES ASSUME NEW u, NEW v, NEW w
                 PROVE  <<u, v, w>> \in GA!Edges <=> u \in Vertices /\ Among(adj_list[u], [to |-> v, weight |-> w])
    OBVIOUS
  <2>2. SUFFICES ASSUME u \in Vertices
                 PROVE  (\E k \in DOMAIN adj_list[u] : adj_list[u][k].to = v /\ adj_list[u][k].weight = w)
                          <=> Among(adj_list[u], [to |-> v, weight |-> w])
    BY EdgesAre
  <2>3. ASSUME NEW k \in DOMAIN adj_list[u]
        PROVE  adj_list[u][k].to = v /\ adj_list[u][k].weight = w <=> adj_list[u][k] = [to |-> v, weight |-> w]
    <3>1. adj_list[u] \in Seq(Neighbours)
      BY <1>1, <2>2
    <3>2. adj_list[u][k] \in Neighbours
      BY <3>1, ElementOfSeq
    <3>. QED BY <3>2 DEF Neighbours
  <2>. QED BY <2>3 DEF Among
<1>5. ASSUME NEW u, NEW v, NEW w
      PROVE  <<u, v, w>> \in GA!Edges <=>
               u \in Vertices /\ \E k \in DOMAIN g.edges : Puts(g.edges[k], g.directed, u, [to |-> v, weight |-> w])
  BY <1>1, <1>4
<1>6. ASSUME NEW k \in DOMAIN g.edges
      PROVE  /\ g.edges[k][1] \in Vertices /\ g.edges[k][2] \in Vertices /\ g.edges[k][3] < inf
             /\ \A u, v, w : Puts(g.edges[k], g.directed, u, [to |-> v, weight |-> w]) <=>
                  \/ g.edges[k][1] = u /\ g.edges[k][2] = v /\ g.edges[k][3] = w
                  \/ ~g.directed /\ g.edges[k][2] = u /\ g.edges[k][1] = v /\ g.edges[k][3] = w
  <2>1. g.edges[k] \in Vertices \X Vertices \X (0..inf - 1)
    BY <1>1, ElementOfSeq DEF EdgeLists
  <2>2. \A a, b, v, w : [to |-> a, weight |-> b] = [to |-> v, weight |-> w] <=> a = v /\ b = w
    OBVIOUS
  <2>. QED BY <1>1, <2>1, <2>2 DEF Puts
<1>7. ASSUME ~g.directed PROVE Symmetric
  <2>1. SUFFICES ASSUME NEW u, NEW v, NEW w, <<u, v, w>> \in GA!Edges PROVE <<v, u, w>> \in GA!Edges
    BY DEF Symmetric
  <2>2. PICK k \in DOMAIN g.edges : Puts(g.edges[k], g.directed, u, [to |-> v, weight |-> w])
    BY <1>5, <2>1
  <2>3. \/ g.edges[k][1] = u /\ g.edges[k][2] = v /\ g.edges[k][3] = w
        \/ g.edges[k][2] = u /\ g.edges[k][1] = v /\ g.edges[k][3] = w
    BY <1>6, <2>2
  <2>4. v \in Vertices /\ Puts(g.edges[k], g.directed, v, [to |-> u, weight |-> w])
    BY <1>6, <1>7, <2>3
  <2>. QED BY <1>5, <2>4
<1>8. Finite
  <2>1. SUFFICES ASSUME NEW e \in GA!Edges PROVE e[3] < inf
    BY DEF Finite
  <2>2. PICK u, v, w : e = <<u, v, w>>
    BY DEF GA!Edges
  <2>3. PICK k \in DOMAIN g.edges : Puts(g.edges[k], g.directed, u, [to |-> v, weight |-> w])
    BY <1>5, <2>2
  <2>4. g.edges[k][3] < inf /\ g.edges[k][3] = w
    BY <1>6, <2>3
  <2>. QED BY <2>2, <2>4
<1>. QED BY <1>3, <1>7, <1>8

-----------------------------------------------------------------------------
(* What lies behind a vertex *)

Successors(S) == {e[2] : e \in {x \in GA!Edges : x[1] \in S}}
Closed(S) == Successors(S) \subseteq S

LEMMA SuccessorsAre ==
  ASSUME GraphOK
  PROVE  /\ \A S : Successors(S) \in SUBSET Vertices
         /\ \A S, R : S \subseteq R => Successors(S) \subseteq Successors(R)
         /\ \A e \in GA!Edges : \A S : e[1] \in S => e[2] \in Successors(S)
  BY EdgesTyped DEF Successors

LEMMA VerticesFinite ==
  ASSUME GraphOK
  PROVE  IsFiniteSet(Vertices) /\ Cardinality(Vertices) = num_vertices
<1>1. 0 \in Int /\ num_vertices - 1 \in Int /\ num_vertices \in Nat /\ num_vertices # 0
  BY DEF GraphOK
<1>2. IsFiniteSet(0..num_vertices - 1)
  BY <1>1, FS_Interval
<1>3. Cardinality(0..num_vertices - 1) = IF 0 > num_vertices - 1 THEN 0 ELSE num_vertices - 1 - 0 + 1
  BY <1>1, FS_Interval
<1>4. Cardinality(0..num_vertices - 1) = num_vertices
  BY <1>1, <1>3
<1>. QED BY <1>2, <1>4 DEF Vertices, GA!Vertices

LEMMA SetsOfVertices ==
  ASSUME GraphOK, NEW S \in SUBSET Vertices
  PROVE  /\ IsFiniteSet(S) /\ Cardinality(S) \in Nat /\ Cardinality(S) <= num_vertices
         /\ Cardinality(S) = num_vertices => S = Vertices
         /\ \A R \in SUBSET S : R # S => Cardinality(R) < Cardinality(S)
         /\ S # {} => Cardinality(S) >= 1
<1>1. IsFiniteSet(Vertices) /\ Cardinality(Vertices) = num_vertices
  BY VerticesFinite
<1>2. IsFiniteSet(S) /\ Cardinality(S) <= num_vertices
  BY <1>1, FS_Subset
<1>3. Cardinality(S) = num_vertices => S = Vertices
  BY <1>1, FS_Subset
<1>4. ASSUME NEW R \in SUBSET S, R # S PROVE Cardinality(R) < Cardinality(S)
  <2>1. IsFiniteSet(R) /\ Cardinality(R) <= Cardinality(S) /\ (Cardinality(R) = Cardinality(S) => R = S)
    BY <1>2, FS_Subset
  <2>2. Cardinality(R) \in Nat /\ Cardinality(S) \in Nat
    BY <1>2, <2>1, FS_CardinalityType
  <2>. QED BY <1>4, <2>1, <2>2
<1>5. Cardinality(S) \in Nat
  BY <1>2, FS_CardinalityType
<1>6. S # {} => Cardinality(S) >= 1
  <2>1. S # {} => Cardinality(S) # 0
    BY <1>2, FS_EmptySet
  <2>. QED BY <1>5, <2>1
<1>. QED BY <1>2, <1>3, <1>4, <1>5, <1>6

\* What grows in every step until it is closed is closed after as many steps as there are vertices.
LEMMA Saturates ==
  ASSUME GraphOK, NEW f, NEW Grow, Grow \in [SUBSET Vertices -> SUBSET Vertices],
         \A S \in SUBSET Vertices : S \subseteq Grow[S],
         f \in [0..num_vertices - 1 -> SUBSET Vertices], f[0] # {} \/ Grow[f[0]] = f[0],
         Grow[Vertices] = Vertices,
         \A h \in 1..num_vertices - 1 : f[h] = Grow[f[h - 1]]
  PROVE  Grow[f[num_vertices - 1]] = f[num_vertices - 1]
<1>1. num_vertices - 1 \in Nat /\ num_vertices \in Nat /\ num_vertices # 0
  BY DEF GraphOK
<1>. DEFINE A == {h \in 0..num_vertices - 1 : Grow[f[h]] = f[h] \/ Cardinality(f[h]) >= h + 1}
<1>2. 0 \in A
  <2>1. 0 \in 0..num_vertices - 1
    BY <1>1
  <2>2. CASE f[0] # {}
    <3>1. Cardinality(f[0]) >= 1
      BY <2>1, <2>2, SetsOfVertices
    <3>. QED BY <2>1, <3>1
  <2>3. CASE Grow[f[0]] = f[0]
    BY <2>1, <2>3
  <2>. QED BY <2>2, <2>3
<1>3. ASSUME NEW h \in 1..num_vertices - 1, h - 1 \in A PROVE h \in A
  <2>1. PICK g, F, R : g = h - 1 /\ F = f[h - 1] /\ R = f[h]
    OBVIOUS
  <2>2. h \in 0..num_vertices - 1 /\ g \in 0..num_vertices - 1 /\ h = g + 1 /\ g \in Nat
    BY <1>1, <2>1
  <2>3. R = Grow[F] /\ F \in SUBSET Vertices /\ R \in SUBSET Vertices /\ F \subseteq R
    BY <2>1, <2>2
  <2>4. Grow[F] = F \/ Cardinality(F) >= g + 1
    BY <1>3, <2>1
  <2>5. CASE R = F
    BY <2>1, <2>2, <2>3, <2>5
  <2>6. CASE R # F
    <3>1. Cardinality(F) < Cardinality(R) /\ Cardinality(F) \in Nat /\ Cardinality(R) \in Nat
      BY <2>3, <2>6, SetsOfVertices
    <3>2. Cardinality(F) >= g + 1
      BY <2>3, <2>4, <2>6
    <3>3. Cardinality(R) >= h + 1
      BY <2>2, <3>1, <3>2
    <3>. QED BY <2>1, <2>2, <3>3
  <2>. QED BY <2>5, <2>6
<1>4. \A h \in 0..num_vertices - 1 : h \in A
  <2>. HIDE DEF A
  <2>. QED BY <1>1, <1>2, <1>3, EveryTurn
<1>5. PICK m, R : m = num_vertices - 1 /\ R = f[m]
  OBVIOUS
<1>6. m \in 0..num_vertices - 1 /\ m + 1 = num_vertices
  BY <1>1, <1>5
<1>7. Grow[R] = R \/ Cardinality(R) >= num_vertices
  BY <1>4, <1>5, <1>6
<1>8. ASSUME Cardinality(R) >= num_vertices PROVE R = Vertices
  <2>1. R \in SUBSET Vertices
    BY <1>5, <1>6
  <2>2. Cardinality(R) = num_vertices
    BY <1>1, <1>8, <2>1, SetsOfVertices
  <2>. QED BY <2>1, <2>2, SetsOfVertices
<1>. QED BY <1>5, <1>7, <1>8

\* A set is behind v that has the successors of v and those of its own, and no smaller one is.
LEMMA BehindIs ==
  ASSUME GraphOK, NEW v \in Vertices
  PROVE  /\ GA!Behind(v) \in SUBSET Vertices
         /\ Successors({v}) \subseteq GA!Behind(v) /\ Closed(GA!Behind(v))
         /\ \A C : Successors({v}) \subseteq C /\ Closed(C) => GA!Behind(v) \subseteq C
<1>. DEFINE L == num_vertices
            M == num_vertices - 1
            Steps(g, h) == IF h = 1 THEN Successors({v}) ELSE g[h - 1] \cup Successors(g[h - 1])
            within == CHOOSE g : g = [h \in 1..L |-> Steps(g, h)]
            Grow == [S \in SUBSET Vertices |-> S \cup Successors(S)]
            step == [i \in 1..M |-> Grow]
            U == SUBSET Vertices
<1>1. M \in Nat /\ L \in Nat /\ L = M + 1
  BY DEF GraphOK
<1>2. GA!Behind(v) = within[L]
  BY DEF GA!Behind, Successors
<1>3. Grow \in [U -> U] /\ Successors({v}) \in U /\ step \in [1..M -> [U -> U]]
  BY SuccessorsAre
<1>4. PICK g \in [0..M -> U] : g[0] = Successors({v}) /\ \A i \in 1..M : g[i] = step[i][g[i - 1]]
  <2>. HIDE DEF step, M, U
  <2>1. Unrolls(M, U, Successors({v}), step)
    BY <1>1, <1>3, Turns
  <2>. QED BY <2>1, Zenon DEF Unrolls
<1>5. \A i \in 1..M : g[i - 1] \in U /\ g[i] = Grow[g[i - 1]] /\ g[i] = g[i - 1] \cup Successors(g[i - 1])
  <2>1. \A i \in 1..M : i - 1 \in 0..M
    BY <1>1
  <2>. QED BY <1>4, <2>1
<1>6. PICK f : f = [h \in 1..L |-> g[h - 1]]
  OBVIOUS
<1>7. ASSUME NEW h \in 1..L PROVE f[h] = Steps(f, h)
  <2>1. CASE h = 1
    <3>1. h - 1 = 0
      BY <2>1
    <3>. QED BY <1>4, <1>6, <2>1, <3>1
  <2>2. CASE h # 1
    <3>1. PICK k : k = h - 1
      OBVIOUS
    <3>2. k \in 1..M /\ k \in 1..L
      BY <1>1, <2>2, <3>1
    <3>3. f[h] = g[k] /\ f[k] = g[k - 1]
      BY <1>6, <3>1, <3>2
    <3>4. f[h] = f[k] \cup Successors(f[k])
      BY <1>5, <3>2, <3>3
    <3>. QED BY <2>2, <3>1, <3>4
  <2>. QED BY <2>1, <2>2
<1>8. within = [h \in 1..L |-> Steps(within, h)]
  <2>1. \E r : r = [h \in 1..L |-> Steps(r, h)]
    <3>. HIDE DEF Steps, L
    <3>1. f = [h \in 1..L |-> Steps(f, h)]
      BY <1>6, <1>7
    <3>. QED BY <3>1
  <2>. QED BY <2>1
<1>. HIDE DEF within
<1>9. \A h \in 1..L : within[h] = Steps(within, h)
  <2>. HIDE DEF Steps, L
  <2>. QED BY <1>8
<1>. DEFINE A == {i \in 0..M : within[i + 1] = g[i]}
<1>10. \A i \in 0..M : i \in A
  <2>1. 0 \in A
    <3>1. 0 \in 0..M /\ 0 + 1 = 1 /\ 1 \in 1..L
      BY <1>1
    <3>2. within[1] = Successors({v})
      BY <1>9, <3>1
    <3>. QED BY <1>4, <3>1, <3>2
  <2>2. ASSUME NEW i \in 1..M, i - 1 \in A PROVE i \in A
    <3>1. PICK h : h = i + 1
      OBVIOUS
    <3>2. i \in 0..M /\ h \in 1..L /\ h # 1 /\ h - 1 = i /\ i - 1 + 1 = i
      BY <1>1, <3>1
    <3>3. within[i] = g[i - 1]
      BY <2>2, <3>2
    <3>4. within[h] = within[h - 1] \cup Successors(within[h - 1])
      BY <1>9, <3>2
    <3>5. within[h] = within[i] \cup Successors(within[i])
      BY <3>2, <3>4
    <3>6. within[h] = g[i]
      BY <1>5, <3>3, <3>5
    <3>. QED BY <3>1, <3>2, <3>6
  <2>. HIDE DEF A, M
  <2>. QED BY <1>1, <2>1, <2>2, EveryTurn
<1>11. GA!Behind(v) = g[M]
  <2>1. M \in 0..M
    BY <1>1
  <2>2. within[M + 1] = g[M]
    BY <1>10, <2>1
  <2>. QED BY <1>1, <1>2, <2>2
<1>12. g[M] \in U
  <2>1. M \in 0..M
    BY <1>1
  <2>. QED BY <1>4, <2>1
<1>13. Grow[g[M]] = g[M]
  <2>1. g[0] # {} \/ Grow[g[0]] = g[0]
    <3>1. Successors({}) = {}
      BY DEF Successors
    <3>2. {} \in SUBSET Vertices /\ Grow[{}] = {}
      BY <3>1
    <3>. QED BY <3>2
  <2>2. \A S \in SUBSET Vertices : S \subseteq Grow[S]
    OBVIOUS
  <2>3. Grow[Vertices] = Vertices
    BY SuccessorsAre
  <2>4. \A h \in 1..num_vertices - 1 : g[h] = Grow[g[h - 1]]
    BY <1>5
  <2>5. g \in [0..num_vertices - 1 -> SUBSET Vertices] /\ Grow \in [SUBSET Vertices -> SUBSET Vertices]
    BY <1>3
  <2>. HIDE DEF Grow
  <2>. QED BY <2>1, <2>2, <2>3, <2>4, <2>5, Saturates
<1>14. Closed(g[M])
  <2>1. Grow[g[M]] = g[M] \cup Successors(g[M])
    BY <1>12
  <2>. HIDE DEF Grow, M
  <2>. QED BY <1>13, <2>1 DEF Closed
<1>. DEFINE B(C) == {i \in 0..M : Successors({v}) \subseteq g[i] /\ (Successors({v}) \subseteq C /\ Closed(C) => g[i] \subseteq C)}
<1>15. ASSUME NEW C PROVE M \in B(C)
  <2>1. 0 \in B(C)
    <3>1. 0 \in 0..M /\ g[0] = Successors({v})
      BY <1>1, <1>4
    <3>. HIDE DEF M
    <3>. QED BY <3>1
  <2>2. ASSUME NEW i \in 1..M, i - 1 \in B(C) PROVE i \in B(C)
    <3>1. i \in 0..M
      BY <1>1
    <3>2. PICK S : S = g[i - 1]
      OBVIOUS
    <3>3. g[i] = S \cup Successors(S)
      BY <1>5, <3>2
    <3>4. Successors({v}) \subseteq S /\ (Successors({v}) \subseteq C /\ Closed(C) => S \subseteq C)
      BY <2>2, <3>2
    <3>5. ASSUME S \subseteq C, Closed(C) PROVE Successors(S) \subseteq C
      BY <3>5, SuccessorsAre DEF Closed
    <3>. QED BY <3>1, <3>3, <3>4, <3>5
  <2>3. \A i \in 0..M : i \in B(C)
    <3>1. PICK X : X = B(C)
      OBVIOUS
    <3>. HIDE DEF B, M
    <3>. QED BY <1>1, <2>1, <2>2, <3>1, EveryTurn
  <2>4. M \in 0..M
    BY <1>1
  <2>. HIDE DEF B
  <2>. QED BY <2>3, <2>4
<1>. QED BY <1>11, <1>12, <1>14, <1>15

LEMMA BehindBehind ==
  ASSUME GraphOK, NEW v \in Vertices, NEW u \in GA!Behind(v)
  PROVE  u \in Vertices /\ GA!Behind(u) \subseteq GA!Behind(v)
<1>1. u \in Vertices
  BY BehindIs
<1>2. Successors({u}) \subseteq Successors(GA!Behind(v))
  BY SuccessorsAre
<1>3. Successors(GA!Behind(v)) \subseteq GA!Behind(v)
  BY BehindIs DEF Closed
<1>. QED BY <1>1, <1>2, <1>3, BehindIs

\* A vertex that is not on a cycle, nor behind one, has a first among those it is behind.
LEMMA HasFirst ==
  ASSUME GraphOK, NEW w \in Vertices, w \notin GA!Cyclic, w \notin UNION {GA!Behind(v) : v \in GA!Cyclic},
         NEW U \in SUBSET Vertices, w \in U
  PROVE  \E u \in U : \A e \in GA!Edges : e[2] = u => e[1] \notin U
<1>. DEFINE R == {v \in U : v = w \/ w \in GA!Behind(v)}
            Leading(v) == {x \in R : v \in GA!Behind(x)}
            Sizes == {Cardinality(Leading(v)) : v \in R}
<1>1. \A v \in R : v \in Vertices /\ v \notin GA!Behind(v)
  BY DEF GA!Cyclic, Vertices
<1>2. \A v \in R : Leading(v) \in SUBSET Vertices
  OBVIOUS
<1>3. Sizes \in SUBSET Nat /\ Sizes # {}
  <2>1. w \in R
    OBVIOUS
  <2>. HIDE DEF R, Leading
  <2>. QED BY <1>2, <2>1, SetsOfVertices
<1>4. PICK m \in Sizes : \A x \in Sizes : m <= x
  <2>. HIDE DEF Sizes
  <2>. QED BY <1>3, LeastIndex
<1>5. PICK u \in R : m = Cardinality(Leading(u))
  OBVIOUS
<1>6. ASSUME NEW e \in GA!Edges, e[2] = u, e[1] \in U PROVE FALSE
  <2>1. PICK p : p = e[1]
    OBVIOUS
  <2>2. p \in U /\ p \in Vertices /\ u \in GA!Behind(p)
    <3>1. p \in Vertices /\ u \in Successors({p})
      BY <1>6, <2>1, EdgesTyped, SuccessorsAre
    <3>. QED BY <1>6, <2>1, <3>1, BehindIs
  <2>3. p \in R
    <3>1. GA!Behind(u) \subseteq GA!Behind(p)
      BY <2>2, BehindBehind
    <3>. QED BY <2>2, <3>1
  <2>4. Leading(p) \subseteq Leading(u)
    <3>1. ASSUME NEW x \in Leading(p) PROVE x \in Leading(u)
      <4>1. x \in R /\ p \in GA!Behind(x) /\ x \in Vertices
        BY <1>1
      <4>2. GA!Behind(p) \subseteq GA!Behind(x)
        BY <4>1, BehindBehind
      <4>. QED BY <2>2, <4>1, <4>2
    <3>. QED BY <3>1
  <2>5. p \in Leading(u) /\ p \notin Leading(p)
    BY <1>1, <2>2, <2>3
  <2>6. PICK P, Q : P = Leading(p) /\ Q = Leading(u)
    OBVIOUS
  <2>7. P \in SUBSET Q /\ P # Q /\ Q \in SUBSET Vertices /\ P \in SUBSET Vertices
    BY <1>2, <2>3, <2>4, <2>5, <2>6
  <2>8. Cardinality(P) < Cardinality(Q) /\ Cardinality(P) \in Nat /\ Cardinality(Q) \in Nat
    BY <2>7, SetsOfVertices
  <2>9. Cardinality(P) \in Sizes
    BY <2>3, <2>6
  <2>10. Cardinality(Q) <= Cardinality(P)
    BY <1>4, <1>5, <2>6, <2>9
  <2>. QED BY <2>8, <2>10
<1>. QED BY <1>5, <1>6

\* Each vertex of an order has those that lead to it before it.
LeadersBefore(order) ==
  \A i \in DOMAIN order : \A e \in GA!Edges :
    e[2] = order[i] => \E k \in DOMAIN order : k < i /\ order[k] = e[1]

LEMMA OrderRight ==
  ASSUME GraphOK, NEW order \in Seq(Vertices), GA!IsInjective(order), LeadersBefore(order),
         \A w \in Vertices : (\A e \in GA!Edges : e[2] = w => Among(order, e[1])) => Among(order, w)
  PROVE  GA!TopologicalOrder(order)
<1>. DEFINE Cyc == GA!Cyclic
            Later == UNION {GA!Behind(v) : v \in Cyc}
<1>1. Len(order) \in Nat /\ DOMAIN order = 1..Len(order) /\ \A i \in DOMAIN order : order[i] \in Vertices
  OBVIOUS
<1>2. \A i, j \in DOMAIN order : order[i] = order[j] => i = j
  BY DEF GA!IsInjective
<1>3. GA!ToSet(order) = {w \in Vertices : Among(order, w)}
  BY <1>1 DEF GA!ToSet, Among
<1>4. ASSUME NEW v \in Vertices, NEW i \in DOMAIN order, order[i] \in GA!Behind(v)
      PROVE  \E k \in DOMAIN order : k < i /\ order[k] = v
  <2>. DEFINE C == {w \in Vertices : \A j \in DOMAIN order : order[j] = w => \E k \in DOMAIN order : k < j /\ order[k] = v}
  <2>1. Successors({v}) \subseteq C
    <3>1. ASSUME NEW e \in GA!Edges, e[1] = v PROVE e[2] \in C
      BY <3>1, EdgesTyped DEF LeadersBefore
    <3>. QED BY <3>1 DEF Successors
  <2>2. Closed(C)
    <3>1. ASSUME NEW e \in GA!Edges, e[1] \in C, NEW j \in DOMAIN order, order[j] = e[2]
          PROVE  \E k \in DOMAIN order : k < j /\ order[k] = v
      <4>1. PICK h \in DOMAIN order : h < j /\ order[h] = e[1]
        BY <3>1 DEF LeadersBefore
      <4>2. PICK k \in DOMAIN order : k < h /\ order[k] = v
        BY <3>1, <4>1
      <4>3. k < j
        BY <1>1, <4>1, <4>2
      <4>. QED BY <4>2, <4>3
    <3>2. \A e \in GA!Edges : e[1] \in C => e[2] \in C
      BY <3>1, EdgesTyped
    <3>. HIDE DEF C
    <3>. QED BY <3>2 DEF Closed, Successors
  <2>3. GA!Behind(v) \subseteq C
    <3>. HIDE DEF C
    <3>. QED BY <2>1, <2>2, BehindIs
  <2>. QED BY <1>4, <2>3
<1>5. ASSUME NEW v \in Vertices, Among(order, v) PROVE v \notin GA!Behind(v)
  <2>1. PICK i \in DOMAIN order : order[i] = v
    BY <1>5 DEF Among
  <2>2. SUFFICES ASSUME v \in GA!Behind(v) PROVE FALSE
    OBVIOUS
  <2>3. PICK k \in DOMAIN order : k < i /\ order[k] = v
    BY <1>4, <2>1, <2>2
  <2>4. k = i
    BY <1>2, <2>1, <2>3
  <2>. QED BY <1>1, <2>3, <2>4
<1>6. ASSUME NEW w \in Vertices, Among(order, w) PROVE w \notin Cyc /\ w \notin Later
  <2>1. w \notin Cyc
    BY <1>5, <1>6 DEF GA!Cyclic
  <2>2. ASSUME NEW v \in Cyc, w \in GA!Behind(v) PROVE FALSE
    <3>1. v \in Vertices /\ v \in GA!Behind(v)
      BY DEF GA!Cyclic, Vertices
    <3>2. PICK i \in DOMAIN order : order[i] = w
      BY <1>6 DEF Among
    <3>3. Among(order, v)
      BY <1>4, <2>2, <3>1, <3>2 DEF Among
    <3>. QED BY <1>5, <3>1, <3>3
  <2>. QED BY <2>1, <2>2
<1>7. ASSUME NEW w \in Vertices, w \notin Cyc, w \notin Later PROVE Among(order, w)
  <2>1. SUFFICES ASSUME ~Among(order, w) PROVE FALSE
    OBVIOUS
  <2>. DEFINE U == {x \in Vertices : ~Among(order, x)}
  <2>2. PICK u \in U : \A e \in GA!Edges : e[2] = u => e[1] \notin U
    <3>1. U \in SUBSET Vertices /\ w \in U
      BY <2>1
    <3>. HIDE DEF U
    <3>. QED BY <1>7, <3>1, HasFirst
  <2>3. \A e \in GA!Edges : e[2] = u => Among(order, e[1])
    BY <2>2, EdgesTyped
  <2>. QED BY <2>2, <2>3
<1>8. GA!ToSet(order) = Vertices \ (Cyc \cup Later)
  <2>1. \A w \in Vertices : Among(order, w) <=> w \notin Cyc /\ w \notin Later
    BY <1>6, <1>7
  <2>. HIDE DEF Cyc, Later
  <2>. QED BY <1>3, <2>1
<1>9. ASSUME NEW i \in DOMAIN order, NEW j \in DOMAIN order, i < j, NEW e \in GA!Edges
      PROVE  ~(e[1] = order[j] /\ e[2] = order[i])
  <2>1. SUFFICES ASSUME e[1] = order[j], e[2] = order[i] PROVE FALSE
    OBVIOUS
  <2>2. PICK k \in DOMAIN order : k < i /\ order[k] = e[1]
    BY <2>1 DEF LeadersBefore
  <2>3. k = j
    BY <1>2, <2>1, <2>2
  <2>. QED BY <1>1, <1>9, <2>2, <2>3
<1>. QED BY <1>8, <1>9 DEF GA!TopologicalOrder, Vertices

-----------------------------------------------------------------------------
(* topological_sort *)

\* The places of the lists of neighbours, and the vertex at each
Arrows == UNION {{v} \X DOMAIN adj_list[v] : v \in Vertices}
To(a) == adj_list[a[1]][a[2]].to
Entering(w) == {a \in Arrows : To(a) = w}

LEMMA ArrowsAre ==
  ASSUME GraphOK
  PROVE  /\ IsFiniteSet(Arrows)
         /\ \A v \in Vertices : DOMAIN adj_list[v] = 1..Len(adj_list[v]) /\ Len(adj_list[v]) \in Nat
         /\ \A a : a \in Arrows <=> \E v \in Vertices : \E k \in DOMAIN adj_list[v] : a = <<v, k>>
<1>1. \A v \in Vertices : adj_list[v] \in Seq(Neighbours)
  BY DEF GraphOK
<1>2. \A v \in Vertices : DOMAIN adj_list[v] = 1..Len(adj_list[v]) /\ Len(adj_list[v]) \in Nat
  BY <1>1
<1>3. \A a : a \in Arrows <=> \E v \in Vertices : \E k \in DOMAIN adj_list[v] : a = <<v, k>>
  <2>1. \A a : a \in Arrows <=> \E v \in Vertices : a \in {v} \X DOMAIN adj_list[v]
    BY DEF Arrows
  <2>2. \A a, v : a \in {v} \X DOMAIN adj_list[v] <=> \E k \in DOMAIN adj_list[v] : a = <<v, k>>
    OBVIOUS
  <2>. QED BY <2>1, <2>2
<1>4. IsFiniteSet(Arrows)
  <2>. DEFINE Of(v) == {v} \X DOMAIN adj_list[v]
              All == {Of(v) : v \in Vertices}
  <2>1. IsFiniteSet(All)
    <3>1. IsFiniteSet(Vertices)
      BY VerticesFinite
    <3>2. \A x \in All : \E v \in Vertices : x = Of(v)
      OBVIOUS
    <3>. DEFINE f == [v \in Vertices |-> Of(v)]
    <3>3. f \in Surjection(Vertices, All)
      BY DEF Surjection
    <3>. HIDE DEF f, All
    <3>. QED BY <3>1, <3>3, FS_Surjection
  <2>2. \A x \in All : IsFiniteSet(x)
    <3>1. ASSUME NEW v \in Vertices PROVE IsFiniteSet(Of(v))
      <4>1. 1 \in Int /\ Len(adj_list[v]) \in Int
        BY <1>2
      <4>2. IsFiniteSet(1..Len(adj_list[v]))
        BY <4>1, FS_Interval
      <4>3. IsFiniteSet(DOMAIN adj_list[v]) /\ IsFiniteSet({v})
        BY <1>2, <4>2, FS_Singleton
      <4>. QED BY <4>3, FS_Product
    <3>. HIDE DEF Of
    <3>. QED BY <3>1
  <2>3. Arrows = UNION All
    BY DEF Arrows
  <2>. HIDE DEF All
  <2>. QED BY <2>1, <2>2, <2>3, FS_UNION
<1>. QED BY <1>2, <1>3, <1>4

LEMMA Appending ==
  ASSUME NEW T, NEW s \in Seq(T), NEW x \in T
  PROVE  /\ Append(s, x) \in Seq(T)
         /\ \A y : Among(Append(s, x), y) <=> Among(s, y) \/ y = x
         /\ GA!IsInjective(s) /\ ~Among(s, x) => GA!IsInjective(Append(s, x))
         /\ Len(Append(s, x)) = Len(s) + 1 /\ Len(s) \in Nat
         /\ \A i \in 1..Len(s) + 1 : Append(s, x)[i] = IF i = Len(s) + 1 THEN x ELSE s[i]
<1>1. PICK r, m : r = Append(s, x) /\ m = Len(s)
  OBVIOUS
<1>2. /\ r \in Seq(T) /\ m \in Nat /\ DOMAIN s = 1..m /\ DOMAIN r = 1..m + 1 /\ Len(r) = m + 1
      /\ \A i \in 1..m : r[i] = s[i]
      /\ r[m + 1] = x
  BY <1>1, AppendProperties
<1>3. \A i : i \in 1..m + 1 <=> i \in 1..m \/ i = m + 1
  BY <1>2
<1>4. m + 1 \notin 1..m
  BY <1>2
<1>5. \A y : Among(r, y) <=> Among(s, y) \/ y = x
  BY <1>2, <1>3 DEF Among
<1>6. ASSUME GA!IsInjective(s), ~Among(s, x) PROVE GA!IsInjective(r)
  <2>1. \A i, j \in 1..m : s[i] = s[j] => i = j
    BY <1>2, <1>6 DEF GA!IsInjective
  <2>2. \A i \in 1..m : s[i] # x
    BY <1>2, <1>6 DEF Among
  <2>3. \A i, j \in 1..m + 1 : r[i] = r[j] => i = j
    BY <1>2, <1>3, <2>1, <2>2
  <2>. QED BY <1>2, <2>3 DEF GA!IsInjective
<1>7. \A i \in 1..m + 1 : r[i] = IF i = m + 1 THEN x ELSE s[i]
  BY <1>2, <1>3
<1>. QED BY <1>1, <1>2, <1>5, <1>6, <1>7

LEMMA HeadAndTail ==
  ASSUME NEW T, NEW s \in Seq(T), s # <<>>
  PROVE  /\ Head(s) \in T /\ Tail(s) \in Seq(T)
         /\ \A y : Among(s, y) <=> y = Head(s) \/ Among(Tail(s), y)
         /\ GA!IsInjective(s) => GA!IsInjective(Tail(s)) /\ ~Among(Tail(s), Head(s))
<1>1. PICK r, m : r = Tail(s) /\ m = Len(s)
  OBVIOUS
<1>2. /\ Head(s) \in T /\ Head(s) = s[1] /\ r \in Seq(T) /\ m \in Nat /\ m # 0 /\ DOMAIN s = 1..m /\ DOMAIN r = 1..m - 1
      /\ \A i \in 1..m - 1 : r[i] = s[i + 1]
  BY <1>1, HeadTailProperties
<1>3. \A i : i \in 1..m <=> i = 1 \/ \E j \in 1..m - 1 : i = j + 1
  <2>1. ASSUME NEW i \in 1..m, i # 1 PROVE \E j \in 1..m - 1 : i = j + 1
    <3>1. i - 1 \in 1..m - 1 /\ i = i - 1 + 1
      BY <1>2, <2>1
    <3>. QED BY <3>1
  <2>2. 1 \in 1..m /\ \A j \in 1..m - 1 : j + 1 \in 1..m
    BY <1>2
  <2>. QED BY <2>1, <2>2
<1>4. ASSUME NEW y PROVE Among(s, y) <=> y = s[1] \/ Among(r, y)
  <2>1. ASSUME NEW i \in 1..m, s[i] = y PROVE y = s[1] \/ Among(r, y)
    <3>1. CASE i = 1
      BY <2>1, <3>1
    <3>2. CASE i # 1
      <4>1. PICK j \in 1..m - 1 : i = j + 1
        BY <1>3, <3>2
      <4>2. r[j] = y
        BY <1>2, <2>1, <4>1
      <4>. QED BY <1>2, <4>2 DEF Among
    <3>. QED BY <3>1, <3>2
  <2>2. Among(s, s[1])
    BY <1>2, <1>3 DEF Among
  <2>3. ASSUME NEW j \in 1..m - 1, r[j] = y PROVE Among(s, y)
    <3>1. PICK i : i = j + 1
      OBVIOUS
    <3>2. i \in 1..m /\ s[i] = y
      BY <1>2, <1>3, <2>3, <3>1
    <3>. QED BY <1>2, <3>2 DEF Among
  <2>. QED BY <1>2, <2>1, <2>2, <2>3 DEF Among
<1>5. ASSUME GA!IsInjective(s) PROVE GA!IsInjective(r) /\ ~Among(r, s[1])
  <2>1. \A i, j \in 1..m : s[i] = s[j] => i = j
    BY <1>2, <1>5 DEF GA!IsInjective
  <2>2. ASSUME NEW i \in 1..m - 1, NEW j \in 1..m - 1, r[i] = r[j] PROVE i = j
    <3>1. PICK k, l : k = i + 1 /\ l = j + 1
      OBVIOUS
    <3>2. k \in 1..m /\ l \in 1..m /\ s[k] = s[l]
      BY <1>2, <1>3, <2>2, <3>1
    <3>3. k = l
      BY <2>1, <3>2
    <3>. QED BY <1>2, <3>1, <3>3
  <2>3. ASSUME NEW i \in 1..m - 1 PROVE r[i] # s[1]
    <3>1. PICK k : k = i + 1
      OBVIOUS
    <3>2. k \in 1..m /\ 1 \in 1..m /\ k # 1 /\ r[i] = s[k]
      BY <1>2, <1>3, <3>1
    <3>. QED BY <2>1, <3>2
  <2>. QED BY <1>2, <2>2, <2>3 DEF GA!IsInjective, Among
<1>. QED BY <1>1, <1>2, <1>4, <1>5

\* The arrows into w that remain after i turns for the neighbours of v, when the vertices
\* of done are out of the queue
Remaining(done, v, i, w) == {a \in Entering(w) : a[1] \notin done \/ (a[1] = v /\ a[2] > i)}

\* What the indegrees d and the queue s are then
Counted(done, v, i, d, s) ==
  /\ d \in [Vertices -> Nat] /\ s \in Seq(Vertices) /\ GA!IsInjective(s)
  /\ \A w \in Vertices : d[w] = Cardinality(Remaining(done, v, i, w))
  /\ \A w \in Vertices : d[w] = 0 <=> w \in done \/ Among(s, w)
  /\ \A w \in done : ~Among(s, w)

DropTurn(s, to) ==
  [indegree |-> [s.indegree EXCEPT ![to] = @ - 1],
   q |-> IF s.indegree[to] = 1 THEN Append(s.q, to) ELSE s.q]

OneArrowLess(done, v, i, to) ==
  /\ to \in Vertices
  /\ Cardinality(Remaining(done, v, i - 1, to)) = Cardinality(Remaining(done, v, i, to)) + 1
  /\ Cardinality(Remaining(done, v, i, to)) \in Nat
  /\ \A w : w # to => Remaining(done, v, i - 1, w) = Remaining(done, v, i, w)

LEMMA FewerArrows ==
  ASSUME GraphOK, NEW done, NEW v \in done, done \subseteq Vertices, NEW i \in 1..Len(adj_list[v]),
         NEW to, to = adj_list[v][i].to
  PROVE  OneArrowLess(done, v, i, to)
<1>1. v \in Vertices /\ i \in DOMAIN adj_list[v] /\ i \in Nat /\ \A a \in Arrows : a[2] \in Nat
  BY ArrowsAre
<1>2. adj_list[v] \in Seq(Neighbours)
  BY <1>1 DEF GraphOK
<1>3. to \in Vertices
  <2>1. adj_list[v][i] \in Neighbours
    BY <1>1, <1>2, ElementOfSeq
  <2>. QED BY <2>1 DEF Neighbours
<1>4. \A w : IsFiniteSet(Remaining(done, v, i, w))
  <2>1. \A w : Remaining(done, v, i, w) \in SUBSET Arrows
    BY DEF Remaining, Entering
  <2>. QED BY <2>1, ArrowsAre, FS_Subset
<1>5. PICK b : b = <<v, i>>
  OBVIOUS
<1>6. b \in Arrows /\ b[1] = v /\ b[2] = i /\ To(b) = to
  BY <1>1, <1>5, ArrowsAre DEF To
<1>7. ASSUME NEW a \in Arrows, a[1] = v
      PROVE  (a[2] > i - 1 <=> a[2] > i \/ a = b)
  <2>1. PICK k : a = <<v, k>> /\ k \in Nat
    BY <1>1, <1>7, ArrowsAre
  <2>2. a[2] = k
    BY <2>1
  <2>3. a = b <=> k = i
    BY <1>5, <2>1
  <2>. QED BY <1>1, <2>1, <2>2, <2>3
<1>8. Remaining(done, v, i - 1, to) = Remaining(done, v, i, to) \cup {b}
  BY <1>1, <1>6, <1>7 DEF Remaining, Entering
<1>9. b \notin Remaining(done, v, i, to)
  BY <1>1, <1>6 DEF Remaining
<1>10. ASSUME NEW w, w # to PROVE Remaining(done, v, i - 1, w) = Remaining(done, v, i, w)
  BY <1>6, <1>7, <1>10 DEF Remaining, Entering
<1>11. PICK R : R = Remaining(done, v, i, to)
  OBVIOUS
<1>12. IsFiniteSet(R) /\ b \notin R
  BY <1>4, <1>9, <1>11
<1>13. Cardinality(R \cup {b}) = Cardinality(R) + 1 /\ Cardinality(R) \in Nat
  BY <1>12, FS_AddElement, FS_CardinalityType
<1>. QED BY <1>3, <1>8, <1>10, <1>11, <1>13 DEF OneArrowLess

LEMMA CountedTurn ==
  ASSUME GraphOK, NEW done, NEW v \in done, done \subseteq Vertices, NEW i \in 1..Len(adj_list[v]),
         NEW s \in [indegree : [Vertices -> Nat], q : Seq(Vertices)], Counted(done, v, i - 1, s.indegree, s.q),
         NEW to, to = adj_list[v][i].to, NEW r, r = DropTurn(s, to)
  PROVE  /\ r \in [indegree : [Vertices -> Nat], q : Seq(Vertices)]
         /\ Counted(done, v, i, r.indegree, r.q)
<1>0. OneArrowLess(done, v, i, to)
  BY FewerArrows
<1>1. /\ to \in Vertices
      /\ \A w : w # to => Remaining(done, v, i - 1, w) = Remaining(done, v, i, w)
  BY <1>0 DEF OneArrowLess
<1>2. PICK c : c = Cardinality(Remaining(done, v, i, to))
  OBVIOUS
<1>3. c \in Nat /\ Cardinality(Remaining(done, v, i - 1, to)) = c + 1
  BY <1>0, <1>2 DEF OneArrowLess
<1>4. s.indegree[to] = c + 1
  BY <1>1, <1>3 DEF Counted
<1>5. PICK d, t : d = r.indegree /\ t = r.q
  OBVIOUS
<1>6. /\ d = [s.indegree EXCEPT ![to] = s.indegree[to] - 1] /\ r = [indegree |-> d, q |-> t]
      /\ t = IF s.indegree[to] = 1 THEN Append(s.q, to) ELSE s.q
  BY <1>5 DEF DropTurn
<1>7. /\ d \in [Vertices -> Nat] /\ d[to] = c
      /\ \A w \in Vertices : w # to => d[w] = s.indegree[w]
  <2>1. s.indegree[to] - 1 = c
    BY <1>3, <1>4
  <2>. QED BY <1>1, <1>3, <1>6, <2>1
<1>8. \A w \in Vertices : d[w] = Cardinality(Remaining(done, v, i, w))
  BY <1>1, <1>2, <1>7 DEF Counted
<1>9. to \notin done /\ ~Among(s.q, to)
  <2>1. s.indegree[to] # 0
    BY <1>3, <1>4
  <2>. QED BY <1>1, <2>1 DEF Counted
<1>10. /\ t \in Seq(Vertices) /\ GA!IsInjective(t)
       /\ \A w : Among(t, w) <=> Among(s.q, w) \/ (c = 0 /\ w = to)
  <2>1. s.q \in Seq(Vertices) /\ GA!IsInjective(s.q)
    BY DEF Counted
  <2>2. CASE c = 0
    <3>1. t = Append(s.q, to)
      BY <1>4, <1>6, <2>2
    <3>. QED BY <1>1, <1>9, <2>1, <2>2, <3>1, Appending
  <2>3. CASE c # 0
    <3>1. t = s.q
      BY <1>3, <1>4, <1>6, <2>3
    <3>. QED BY <2>1, <2>3, <3>1
  <2>. QED BY <2>2, <2>3
<1>11. ASSUME NEW w \in Vertices PROVE d[w] = 0 <=> w \in done \/ Among(t, w)
  <2>1. CASE w = to
    BY <1>7, <1>9, <1>10, <2>1
  <2>2. CASE w # to
    BY <1>7, <1>10, <2>2 DEF Counted
  <2>. QED BY <2>1, <2>2
<1>12. \A w \in done : ~Among(t, w)
  BY <1>9, <1>10 DEF Counted
<1>13. Counted(done, v, i, d, t)
  BY <1>7, <1>8, <1>10, <1>11, <1>12 DEF Counted
<1>. QED BY <1>5, <1>6, <1>7, <1>10, <1>13

LEMMA Dropping ==
  ASSUME GraphOK, NEW done, NEW v \in done, done \subseteq Vertices,
         Counted(done, v, 0, indegree, Tail(q))
  PROVE  Counted(done, v, Len(adj_list[v]), GA!Dropped(v).indegree, GA!Dropped(v).q)
<1>. DEFINE nb == adj_list[v]
            L == Len(nb)
            S == [indegree : [Vertices -> Nat], q : Seq(Vertices)]
            b == [indegree |-> indegree, q |-> Tail(q)]
            Turn(s, i) == DropTurn(s, nb[i].to)
            Steps(g, i) == IF i = 0 THEN b ELSE Turn(g[i - 1], i)
            after == CHOOSE g : g = [i \in 0..L |-> Steps(g, i)]
            Good(i, s) == s \in S /\ Counted(done, v, i, s.indegree, s.q)
            A == {i \in 0..L : Good(i, after[i])}
<1>1. v \in Vertices /\ L \in Nat
  BY ArrowsAre
<1>2. GA!Dropped(v) = after[L]
  BY DEF GA!Dropped, DropTurn
<1>3. b \in S /\ b.indegree = indegree /\ b.q = Tail(q) /\ Counted(done, v, 0, b.indegree, b.q)
  BY DEF Counted
<1>. HIDE DEF S, b
<1>4. ASSUME NEW i \in 1..L, NEW s, Good(i - 1, s)
      PROVE  Good(i, Turn(s, i))
  <2>1. PICK to, r : to = nb[i].to /\ r = Turn(s, i)
    OBVIOUS
  <2>2. r = DropTurn(s, to)
    BY <2>1
  <2>3. s \in [indegree : [Vertices -> Nat], q : Seq(Vertices)] /\ Counted(done, v, i - 1, s.indegree, s.q)
    BY <1>4 DEF S
  <2>. HIDE DEF Turn
  <2>4. /\ r \in [indegree : [Vertices -> Nat], q : Seq(Vertices)]
        /\ Counted(done, v, i, r.indegree, r.q)
    BY <2>1, <2>2, <2>3, CountedTurn
  <2>. QED BY <2>1, <2>4 DEF S
<1>5. after = [i \in 0..L |-> Steps(after, i)]
  <2>1. SUFFICES \E g : g = [i \in 0..L |-> Steps(g, i)]
    OBVIOUS
  <2>. DEFINE T(s, i) == IF Turn(s, i) \in S THEN Turn(s, i) ELSE b
              step == [i \in 1..L |-> [s \in S |-> T(s, i)]]
  <2>2. step \in [1..L -> [S -> S]]
    <3>. HIDE DEF Turn
    <3>. QED BY <1>3
  <2>3. PICK g \in [0..L -> S] : g[0] = b /\ \A i \in 1..L : g[i] = step[i][g[i - 1]]
    <3>1. b \in S /\ L \in Nat
      BY <1>1, <1>3
    <3>. HIDE DEF step, L
    <3>2. Unrolls(L, S, b, step)
      BY <2>2, <3>1, Turns
    <3>. QED BY <3>2, Zenon DEF Unrolls
  <2>4. \A i \in 1..L : g[i - 1] \in S /\ g[i] = T(g[i - 1], i)
    <3>1. \A i \in 1..L : i - 1 \in 0..L
      BY <1>1
    <3>. HIDE DEF T
    <3>. QED BY <2>3, <3>1
  <2>. DEFINE B == {i \in 0..L : Good(i, g[i])}
  <2>5. 0 \in B
    <3>1. 0 \in 0..L /\ Good(0, b)
      BY <1>1, <1>3
    <3>. HIDE DEF Good, L
    <3>. QED BY <2>3, <3>1
  <2>6. ASSUME NEW i \in 1..L, i - 1 \in B PROVE g[i] = Turn(g[i - 1], i) /\ i \in B
    <3>1. Good(i - 1, g[i - 1]) /\ i \in 0..L
      BY <1>1, <2>6
    <3>. HIDE DEF Turn, Good
    <3>2. Good(i, Turn(g[i - 1], i))
      BY <1>4, <3>1
    <3>3. Turn(g[i - 1], i) \in S
      BY <3>2 DEF Good
    <3>4. g[i] = Turn(g[i - 1], i)
      BY <2>4, <3>3
    <3>. QED BY <3>1, <3>2, <3>4
  <2>7. \A i \in 0..L : i \in B
    <3>. HIDE DEF B, L
    <3>. QED BY <1>1, <2>5, <2>6, EveryTurn
  <2>8. \A i \in 1..L : g[i] = Turn(g[i - 1], i)
    <3>1. \A i \in 1..L : i - 1 \in 0..L
      BY <1>1
    <3>. HIDE DEF B, L, Turn
    <3>. QED BY <2>6, <2>7, <3>1
  <2>9. \A i \in 0..L : g[i] = Steps(g, i)
    <3>1. \A i \in 0..L : i = 0 \/ i \in 1..L
      BY <1>1
    <3>2. Steps(g, 0) = b
      OBVIOUS
    <3>3. \A i \in 1..L : Steps(g, i) = Turn(g[i - 1], i)
      <4>. HIDE DEF Turn
      <4>. QED OBVIOUS
    <3>. HIDE DEF Steps, Turn, L
    <3>. QED BY <2>3, <2>8, <3>1, <3>2, <3>3
  <2>. HIDE DEF Steps, L
  <2>10. g = [i \in 0..L |-> Steps(g, i)]
    BY <2>9
  <2>. QED BY <2>10
<1>. HIDE DEF after
<1>6. 0 \in A
  <2>1. 0 \in 0..L /\ after[0] = b
    BY <1>1, <1>5
  <2>. QED BY <1>3, <2>1
<1>7. ASSUME NEW i \in 1..L, i - 1 \in A PROVE i \in A
  <2>1. i \in 0..L /\ i # 0 /\ Good(i - 1, after[i - 1])
    BY <1>1, <1>7
  <2>2. after[i] = Turn(after[i - 1], i)
    <3>1. after[i] = Steps(after, i)
      <4>. HIDE DEF Steps, L
      <4>. QED BY <1>5, <2>1
    <3>. HIDE DEF Turn
    <3>. QED BY <2>1, <3>1
  <2>. HIDE DEF Turn, Good
  <2>. QED BY <1>4, <2>1, <2>2
<1>8. L \in A
  <2>1. \A i \in 0..L : i \in A
    <3>. HIDE DEF A, L
    <3>. QED BY <1>1, <1>6, <1>7, EveryTurn
  <2>. HIDE DEF A
  <2>2. L \in 0..L
    BY <1>1
  <2>. QED BY <2>1, <2>2
<1>. QED BY <1>2, <1>8

\* The indegrees, the queue and the order of topological_sort
KahnOK(d, s, order) ==
  /\ d \in [Vertices -> Nat] /\ s \in Seq(Vertices) /\ order \in Seq(Vertices)
  /\ GA!IsInjective(s) /\ GA!IsInjective(order) /\ LeadersBefore(order)
  /\ \A w \in Vertices : d[w] = Cardinality({a \in Entering(w) : ~Among(order, a[1])})
  /\ \A w \in Vertices : d[w] = 0 <=> Among(order, w) \/ Among(s, w)
  /\ \A w : ~(Among(order, w) /\ Among(s, w))

\* A vertex has no arrows left when every vertex that leads to it is in the order.
LEMMA NoneLeft ==
  ASSUME GraphOK, NEW order, NEW w
  PROVE  /\ IsFiniteSet({a \in Entering(w) : ~Among(order, a[1])})
         /\ Cardinality({a \in Entering(w) : ~Among(order, a[1])}) = 0
              <=> \A e \in GA!Edges : e[2] = w => Among(order, e[1])
<1>1. PICK R : R = {a \in Entering(w) : ~Among(order, a[1])}
  OBVIOUS
<1>2. IsFiniteSet(R)
  <2>1. R \in SUBSET Arrows
    BY <1>1 DEF Entering
  <2>. QED BY <2>1, ArrowsAre, FS_Subset
<1>3. Cardinality(R) = 0 <=> R = {}
  BY <1>2, FS_EmptySet
<1>4. ASSUME R = {}, NEW e \in GA!Edges, e[2] = w PROVE Among(order, e[1])
  <2>1. PICK u \in Vertices : \E k \in DOMAIN adj_list[u] : e = <<u, adj_list[u][k].to, adj_list[u][k].weight>>
    BY DEF GA!Edges, Vertices
  <2>2. PICK k \in DOMAIN adj_list[u] : e = <<u, adj_list[u][k].to, adj_list[u][k].weight>>
    BY <2>1
  <2>3. PICK a : a = <<u, k>>
    OBVIOUS
  <2>4. a \in Arrows /\ a[1] = u /\ a[2] = k
    BY <2>3, ArrowsAre
  <2>5. To(a) = w /\ e[1] = u
    BY <1>4, <2>2, <2>4 DEF To
  <2>. QED BY <1>1, <1>4, <2>4, <2>5 DEF Entering
<1>5. ASSUME NEW a \in R PROVE \E e \in GA!Edges : e[2] = w /\ ~Among(order, e[1])
  <2>1. a \in Arrows /\ To(a) = w /\ ~Among(order, a[1])
    BY <1>1 DEF Entering
  <2>2. PICK v \in Vertices : \E k \in DOMAIN adj_list[v] : a = <<v, k>>
    BY <2>1, ArrowsAre
  <2>3. PICK k \in DOMAIN adj_list[v] : a = <<v, k>>
    BY <2>2
  <2>4. a[1] = v /\ a[2] = k
    BY <2>3
  <2>5. PICK e : e = <<v, w, adj_list[v][k].weight>>
    OBVIOUS
  <2>6. adj_list[v][k].to = w
    BY <2>1, <2>4 DEF To
  <2>7. e \in GA!Edges
    BY <2>2, <2>5, <2>6, EdgesAre
  <2>8. e[1] = v /\ e[2] = w
    BY <2>5
  <2>. QED BY <2>1, <2>4, <2>7, <2>8
<1>. QED BY <1>1, <1>2, <1>3, <1>4, <1>5

LEMMA SortStarts ==
  ASSUME GraphOK, GA!CallSort
  PROVE  KahnOK(indegree', q', <<>>)
<1>. DEFINE L == num_vertices
            degree == [v \in GA!Vertices |-> GA!Cardinality({a \in Arrows : adj_list[a[1]][a[2]].to = v})]
            Steps(g, v) == IF v = 0 THEN <<>> ELSE IF degree[v - 1] = 0 THEN Append(g[v - 1], v - 1) ELSE g[v - 1]
            queued == CHOOSE g : g = [v \in 0..L |-> Steps(g, v)]
<1>1. indegree' = degree /\ q' = queued[L]
  BY DEF GA!CallSort, Arrows, Vertices
<1>2. L \in Nat /\ L # 0 /\ Vertices = 0..L - 1
  BY DEF GraphOK, Vertices, GA!Vertices
<1>3. PICK d : d = degree
  OBVIOUS
<1>4. \A v \in Vertices : d[v] = Cardinality(Entering(v)) /\ d[v] \in Nat
  <2>1. \A v \in Vertices : d[v] = Cardinality(Entering(v))
    <3>1. \A A : GA!Cardinality(A) = Cardinality(A)
      BY DEF GA!Cardinality, Cardinality
    <3>2. \A v \in Vertices : d[v] = GA!Cardinality(Entering(v))
      BY <1>3 DEF Entering, To, Vertices
    <3>. QED BY <3>1, <3>2
  <2>2. \A v : IsFiniteSet(Entering(v))
    <3>1. \A v : Entering(v) \in SUBSET Arrows
      BY DEF Entering
    <3>. QED BY <3>1, ArrowsAre, FS_Subset
  <2>. QED BY <2>1, <2>2, FS_CardinalityType
<1>5. d \in [Vertices -> Nat]
  <2>1. d = [v \in Vertices |-> d[v]]
    BY <1>3 DEF Vertices
  <2>. QED BY <1>4, <2>1
<1>7. \A g, v : Steps(g, v) = IF v = 0 THEN <<>> ELSE IF d[v - 1] = 0 THEN Append(g[v - 1], v - 1) ELSE g[v - 1]
  BY <1>3
<1>. HIDE DEF degree
<1>. DEFINE S == Seq(Vertices)
            Turn(s, v) == IF d[v - 1] = 0 THEN Append(s, v - 1) ELSE s
            step == [v \in 1..L |-> [s \in S |-> Turn(s, v)]]
<1>8. \A v \in 1..L : v - 1 \in Vertices /\ v - 1 \in 0..L /\ v \in 0..L /\ v # 0
  BY <1>2
<1>9. <<>> \in S /\ step \in [1..L -> [S -> S]]
  <2>1. \A v \in 1..L : \A s \in S : Turn(s, v) \in S
    BY <1>8, Appending
  <2>. HIDE DEF Turn, S
  <2>2. step \in [1..L -> [S -> S]]
    BY <2>1
  <2>. QED BY <2>2 DEF S
<1>10. PICK g \in [0..L -> S] : g[0] = <<>> /\ \A i \in 1..L : g[i] = step[i][g[i - 1]]
  <2>. HIDE DEF step, L, S
  <2>1. Unrolls(L, S, <<>>, step)
    BY <1>2, <1>9, Turns
  <2>. QED BY <2>1, Zenon DEF Unrolls
<1>11. \A v \in 1..L : g[v - 1] \in S /\ g[v] = Turn(g[v - 1], v)
  <2>. HIDE DEF Turn
  <2>. QED BY <1>8, <1>10
<1>. HIDE DEF step
<1>12. queued = [v \in 0..L |-> Steps(queued, v)]
  <2>1. \A v \in 0..L : g[v] = Steps(g, v)
    <3>1. \A v \in 0..L : v = 0 \/ v \in 1..L
      BY <1>2
    <3>2. Steps(g, 0) = <<>>
      OBVIOUS
    <3>3. \A v \in 1..L : Steps(g, v) = Turn(g[v - 1], v)
      BY <1>7, <1>8
    <3>. HIDE DEF Steps, Turn, L
    <3>. QED BY <1>10, <1>11, <3>1, <3>2, <3>3
  <2>2. \E f : f = [v \in 0..L |-> Steps(f, v)]
    <3>. HIDE DEF Steps, L
    <3>1. g = [v \in 0..L |-> Steps(g, v)]
      BY <1>10, <2>1
    <3>. QED BY <3>1
  <2>. QED BY <2>2
<1>. HIDE DEF queued
<1>13. queued[0] = <<>> /\ \A v \in 1..L : queued[v] = Turn(queued[v - 1], v)
  <2>1. \A v \in 0..L : queued[v] = Steps(queued, v)
    <3>. HIDE DEF Steps, L
    <3>. QED BY <1>12
  <2>2. 0 \in 0..L
    BY <1>2
  <2>3. queued[0] = <<>>
    BY <2>1, <2>2
  <2>4. \A v \in 1..L : queued[v] = Turn(queued[v - 1], v)
    <3>1. \A v \in 1..L : queued[v] = Steps(queued, v)
      BY <1>8, <2>1
    <3>. HIDE DEF Steps
    <3>. QED BY <1>7, <1>8, <3>1
  <2>. QED BY <2>3, <2>4
<1>. DEFINE Good(v, s) == /\ s \in Seq(Vertices) /\ GA!IsInjective(s)
                          /\ \A w \in Vertices : Among(s, w) <=> w < v /\ d[w] = 0
            A == {v \in 0..L : Good(v, queued[v])}
<1>14. 0 \in A
  <2>1. 0 \in 0..L /\ \A w \in Vertices : ~(w < 0)
    BY <1>2
  <2>2. GA!IsInjective(<<>>) /\ \A w : ~Among(<<>>, w)
    BY DEF GA!IsInjective, Among
  <2>3. PICK s : s = queued[0]
    OBVIOUS
  <2>4. s = <<>>
    BY <1>13, <2>3
  <2>5. Good(0, s)
    BY <2>1, <2>2, <2>4
  <2>. QED BY <2>1, <2>3, <2>5
<1>15. ASSUME NEW v \in 1..L, v - 1 \in A PROVE v \in A
  <2>1. PICK u, s, t : u = v - 1 /\ s = queued[v - 1] /\ t = queued[v]
    OBVIOUS
  <2>2. Good(u, s) /\ u \in Vertices /\ v \in 0..L
    BY <1>8, <1>15, <2>1
  <2>3. t = IF d[u] = 0 THEN Append(s, u) ELSE s
    BY <1>13, <2>1
  <2>4. \A w \in Vertices : (w < v <=> w < u \/ w = u) /\ ~(u < u)
    BY <1>2, <2>1
  <2>5. CASE d[u] = 0
    <3>1. t = Append(s, u) /\ ~Among(s, u)
      BY <2>2, <2>3, <2>4, <2>5
    <3>2. t \in Seq(Vertices) /\ GA!IsInjective(t) /\ \A w : Among(t, w) <=> Among(s, w) \/ w = u
      BY <2>2, <3>1, Appending
    <3>3. Good(v, t)
      BY <2>2, <2>4, <2>5, <3>2
    <3>. QED BY <2>1, <2>2, <3>3
  <2>6. CASE d[u] # 0
    <3>1. t = s
      BY <2>3, <2>6
    <3>2. Good(v, t)
      BY <2>2, <2>4, <2>6, <3>1
    <3>. QED BY <2>1, <2>2, <3>2
  <2>. QED BY <2>5, <2>6
<1>16. \A v \in 0..L : v \in A
  <2>. HIDE DEF A, L
  <2>. QED BY <1>2, <1>14, <1>15, EveryTurn
<1>17. PICK s : s = queued[L]
  OBVIOUS
<1>18. Good(L, s) /\ \A w \in Vertices : w < L
  <2>1. L \in 0..L /\ \A w \in Vertices : w < L
    BY <1>2
  <2>. QED BY <1>16, <1>17, <2>1
<1>19. KahnOK(d, s, <<>>)
  <2>1. \A w : ~Among(<<>>, w)
    BY DEF Among
  <2>2. \A w : {a \in Entering(w) : ~Among(<<>>, a[1])} = Entering(w)
    BY <2>1
  <2>3. GA!IsInjective(<<>>) /\ LeadersBefore(<<>>) /\ <<>> \in Seq(Vertices)
    BY DEF GA!IsInjective, LeadersBefore
  <2>4. \A w \in Vertices : d[w] = 0 <=> Among(<<>>, w) \/ Among(s, w)
    BY <1>18, <2>1
  <2>. QED BY <1>4, <1>5, <1>18, <2>1, <2>2, <2>3, <2>4 DEF KahnOK
<1>. QED BY <1>1, <1>3, <1>17, <1>19

LEMMA SortTurn ==
  ASSUME GraphOK, KahnOK(indegree, q, answer), q # <<>>, NEW v, v = Head(q)
  PROVE  KahnOK(GA!Dropped(v).indegree, GA!Dropped(v).q, Append(answer, v))
<1>1. PICK s, t, order : s = q /\ t = Tail(q) /\ order = answer
  OBVIOUS
<1>2. /\ indegree \in [Vertices -> Nat] /\ s \in Seq(Vertices) /\ order \in Seq(Vertices)
      /\ GA!IsInjective(s) /\ GA!IsInjective(order) /\ LeadersBefore(order)
      /\ \A w \in Vertices : indegree[w] = Cardinality({a \in Entering(w) : ~Among(order, a[1])})
      /\ \A w \in Vertices : indegree[w] = 0 <=> Among(order, w) \/ Among(s, w)
      /\ \A w : ~(Among(order, w) /\ Among(s, w))
  BY <1>1 DEF KahnOK
<1>3. /\ v \in Vertices /\ t \in Seq(Vertices) /\ GA!IsInjective(t) /\ ~Among(t, v)
      /\ \A w : Among(s, w) <=> w = v \/ Among(t, w)
  BY <1>1, <1>2, HeadAndTail
<1>. DEFINE done == {w \in Vertices : Among(order, w) \/ w = v}
<1>4. \A w : Among(order, w) => w \in Vertices
  BY <1>2, ElementOfSeq DEF Among
<1>5. \A a \in Arrows : a[1] \in Vertices /\ a[2] \in Nat /\ (a[1] = v => a[2] > 0 /\ ~(a[2] > Len(adj_list[v])))
  <2>1. ASSUME NEW a \in Arrows
        PROVE  a[1] \in Vertices /\ a[2] \in Nat /\ (a[1] = v => a[2] > 0 /\ ~(a[2] > Len(adj_list[v])))
    <3>1. PICK u \in Vertices : \E k \in DOMAIN adj_list[u] : a = <<u, k>>
      BY ArrowsAre
    <3>2. PICK k \in DOMAIN adj_list[u] : a = <<u, k>>
      BY <3>1
    <3>3. a[1] = u /\ a[2] = k
      BY <3>2
    <3>4. k \in 1..Len(adj_list[u]) /\ Len(adj_list[u]) \in Nat
      BY ArrowsAre
    <3>5. k \in Nat /\ k > 0 /\ ~(k > Len(adj_list[u]))
      BY <3>4
    <3>. QED BY <3>1, <3>3, <3>5
  <2>. QED BY <2>1
<1>6. v \in done /\ done \subseteq Vertices /\ ~Among(order, v)
  BY <1>2, <1>3
<1>7. \A w : Remaining(done, v, 0, w) = {a \in Entering(w) : ~Among(order, a[1])}
  BY <1>5, <1>6 DEF Remaining, Entering
<1>8. \A w : Remaining(done, v, Len(adj_list[v]), w) = {a \in Entering(w) : a[1] \notin done}
  BY <1>5 DEF Remaining, Entering
<1>9. Counted(done, v, 0, indegree, t)
  <2>1. \A w \in Vertices : indegree[w] = 0 <=> w \in done \/ Among(t, w)
    BY <1>2, <1>3
  <2>2. \A w \in done : ~Among(t, w)
    BY <1>2, <1>3
  <2>. HIDE DEF done
  <2>. QED BY <1>2, <1>3, <1>7, <2>1, <2>2 DEF Counted
<1>10. PICK d, r : d = GA!Dropped(v).indegree /\ r = GA!Dropped(v).q
  OBVIOUS
<1>11. Counted(done, v, Len(adj_list[v]), d, r)
  <2>. HIDE DEF done
  <2>. QED BY <1>1, <1>6, <1>9, <1>10, Dropping
<1>12. PICK new : new = Append(order, v)
  OBVIOUS
<1>13. /\ new \in Seq(Vertices) /\ \A w : Among(new, w) <=> Among(order, w) \/ w = v
       /\ GA!IsInjective(new)
  BY <1>2, <1>3, <1>6, <1>12, Appending
<1>14. \A w : Among(new, w) <=> w \in done
  BY <1>3, <1>4, <1>13
<1>15. LeadersBefore(new)
  <2>1. PICK m : m = Len(order)
    OBVIOUS
  <2>2. /\ m \in Nat /\ DOMAIN order = 1..m /\ DOMAIN new = 1..m + 1
        /\ \A i \in 1..m + 1 : new[i] = IF i = m + 1 THEN v ELSE order[i]
    <3>1. Len(new) = m + 1 /\ m \in Nat
      BY <1>2, <1>3, <1>12, <2>1, Appending
    <3>2. \A i \in 1..m + 1 : new[i] = IF i = m + 1 THEN v ELSE order[i]
      BY <1>2, <1>3, <1>12, <2>1, Appending
    <3>3. DOMAIN order = 1..m /\ DOMAIN new = 1..m + 1
      BY <1>2, <1>13, <2>1, <3>1
    <3>. QED BY <3>1, <3>2, <3>3
  <2>3. \A i \in 1..m : i \in 1..m + 1 /\ i # m + 1 /\ new[i] = order[i] /\ i < m + 1
    BY <2>2
  <2>4. ASSUME NEW i \in 1..m + 1, NEW e \in GA!Edges, e[2] = new[i]
        PROVE  \E k \in 1..m + 1 : k < i /\ new[k] = e[1]
    <3>1. CASE i = m + 1
      <4>1. e[2] = v
        BY <2>2, <2>4, <3>1
      <4>2. Cardinality({a \in Entering(v) : ~Among(order, a[1])}) = 0
        <5>1. indegree[v] = 0
          BY <1>2, <1>3
        <5>. QED BY <1>2, <1>3, <5>1
      <4>3. Among(order, e[1])
        BY <4>1, <4>2, NoneLeft
      <4>4. PICK k \in 1..m : order[k] = e[1]
        BY <2>2, <4>3 DEF Among
      <4>. QED BY <2>3, <3>1, <4>4
    <3>2. CASE i # m + 1
      <4>1. i \in 1..m
        BY <2>2, <3>2
      <4>2. order[i] = e[2]
        BY <2>3, <2>4, <4>1
      <4>3. PICK k \in 1..m : k < i /\ order[k] = e[1]
        <5>1. i \in DOMAIN order /\ DOMAIN order = 1..m
          BY <2>2, <4>1
        <5>2. \E k \in DOMAIN order : k < i /\ order[k] = e[1]
          BY <1>2, <4>2, <5>1 DEF LeadersBefore
        <5>. QED BY <5>1, <5>2
      <4>. QED BY <2>3, <4>3
    <3>. QED BY <3>1, <3>2
  <2>. QED BY <2>2, <2>4 DEF LeadersBefore
<1>16. \A w : {a \in Entering(w) : ~Among(new, a[1])} = {a \in Entering(w) : a[1] \notin done}
  <2>. HIDE DEF done
  <2>. QED BY <1>14
<1>17. KahnOK(d, r, new)
  <2>. HIDE DEF done
  <2>1. \A w \in Vertices : d[w] = Cardinality({a \in Entering(w) : ~Among(new, a[1])})
    BY <1>8, <1>11, <1>16 DEF Counted
  <2>2. \A w \in Vertices : d[w] = 0 <=> Among(new, w) \/ Among(r, w)
    BY <1>11, <1>14 DEF Counted
  <2>3. \A w : ~(Among(new, w) /\ Among(r, w))
    BY <1>11, <1>14 DEF Counted
  <2>4. d \in [Vertices -> Nat] /\ r \in Seq(Vertices) /\ GA!IsInjective(r)
    BY <1>11 DEF Counted
  <2>. QED BY <1>13, <1>15, <2>1, <2>2, <2>3, <2>4 DEF KahnOK
<1>. QED BY <1>1, <1>10, <1>12, <1>17

LEMMA SortRight ==
  ASSUME GraphOK, NEW d, NEW order, KahnOK(d, <<>>, order)
  PROVE  GA!TopologicalOrder(order)
<1>1. order \in Seq(Vertices) /\ GA!IsInjective(order) /\ LeadersBefore(order)
  BY DEF KahnOK
<1>2. ASSUME NEW w \in Vertices, \A e \in GA!Edges : e[2] = w => Among(order, e[1]) PROVE Among(order, w)
  <2>1. Cardinality({a \in Entering(w) : ~Among(order, a[1])}) = 0
    BY <1>2, NoneLeft
  <2>2. d[w] = 0 /\ ~Among(<<>>, w)
    <3>1. d[w] = 0
      BY <2>1 DEF KahnOK
    <3>2. ~Among(<<>>, w)
      BY DEF Among
    <3>. QED BY <3>1, <3>2
  <2>. QED BY <2>2 DEF KahnOK
<1>. QED BY <1>1, <1>2, OrderRight

-----------------------------------------------------------------------------
(* The weight of a set of edges *)

Weighed(A) == IsFiniteSet(A) /\ \A e \in A : e[3] \in Int
Picked(s) == CHOOSE x \in s : TRUE

\* The sums over the subsets of A, each by way of a smaller one
Sums(A, f) ==
  /\ f \in [SUBSET A -> Int] /\ f[{}] = 0
  /\ \A s \in SUBSET A : s # {} => f[s] = Picked(s)[3] + f[s \ {Picked(s)}]

LEMMA PickedIs == \A s : s # {} => Picked(s) \in s
  BY DEF Picked

LEMMA Smaller ==
  ASSUME NEW A, IsFiniteSet(A), NEW s \in SUBSET A, NEW x \in s
  PROVE  /\ IsFiniteSet(s) /\ s \ {x} \in SUBSET A /\ IsFiniteSet(s \ {x})
         /\ Cardinality(s) \in Nat \ {0} /\ Cardinality(s \ {x}) = Cardinality(s) - 1
<1>1. IsFiniteSet(s)
  BY FS_Subset
<1>2. IsFiniteSet(s \ {x}) /\ Cardinality(s \ {x}) = Cardinality(s) - 1
  BY <1>1, FS_RemoveElement
<1>3. Cardinality(s) \in Nat /\ Cardinality(s) # 0
  BY <1>1, FS_EmptySet, FS_CardinalityType
<1>. QED BY <1>1, <1>2, <1>3

LEMMA SumsExist ==
  ASSUME NEW A, Weighed(A)
  PROVE  \E f : Sums(A, f)
<1>. DEFINE N == Cardinality(A)
            S == [SUBSET A -> Int]
            F(f) == [s \in SUBSET A |-> IF s = {} THEN 0 ELSE Picked(s)[3] + f[s \ {Picked(s)}]]
            step == [i \in 1..N |-> [f \in S |-> F(f)]]
<1>1. IsFiniteSet(A) /\ N \in Nat
  BY FS_CardinalityType DEF Weighed
<1>2. ASSUME NEW s \in SUBSET A, s # {}
      PROVE  /\ Picked(s) \in s /\ Picked(s)[3] \in Int /\ s \ {Picked(s)} \in SUBSET A
             /\ Cardinality(s) \in Nat \ {0} /\ Cardinality(s \ {Picked(s)}) = Cardinality(s) - 1
  <2>1. Picked(s) \in s
    BY <1>2, PickedIs
  <2>2. Picked(s)[3] \in Int
    BY <2>1 DEF Weighed
  <2>. QED BY <1>1, <2>1, <2>2, Smaller
<1>3. ASSUME NEW f \in S PROVE F(f) \in S
  <2>1. \A s \in SUBSET A : s # {} => f[s \ {Picked(s)}] \in Int
    BY <1>2
  <2>2. ASSUME NEW s \in SUBSET A PROVE (IF s = {} THEN 0 ELSE Picked(s)[3] + f[s \ {Picked(s)}]) \in Int
    <3>1. PICK x, y : x = Picked(s)[3] /\ y = f[s \ {Picked(s)}]
      OBVIOUS
    <3>2. s # {} => x \in Int /\ y \in Int
      BY <1>2, <2>1, <3>1
    <3>3. (IF s = {} THEN 0 ELSE x + y) \in Int
      BY <3>2
    <3>. QED BY <3>1, <3>3
  <2>. QED BY <2>2
<1>4. step \in [1..N -> [S -> S]]
  <2>. HIDE DEF F, S
  <2>. QED BY <1>3
<1>5. PICK b : b = [s \in SUBSET A |-> 0]
  OBVIOUS
<1>6. b \in S
  BY <1>5
<1>. HIDE DEF S
<1>7. PICK g \in [0..N -> S] : g[0] = b /\ \A i \in 1..N : g[i] = step[i][g[i - 1]]
  <2>. HIDE DEF step, N
  <2>1. Unrolls(N, S, b, step)
    BY <1>1, <1>4, <1>6, Turns
  <2>. QED BY <2>1, Zenon DEF Unrolls
<1>8. \A i \in 1..N : i \in 0..N /\ i - 1 \in 0..N /\ g[i - 1] \in S /\ g[i] = F(g[i - 1])
  <2>1. \A i \in 1..N : i \in 0..N /\ i - 1 \in 0..N
    BY <1>1
  <2>. HIDE DEF F
  <2>. QED BY <1>7, <2>1
<1>. HIDE DEF step
<1>. DEFINE H == {h \in 0..N : \A s \in SUBSET A : Cardinality(s) <= h => F(g[h])[s] = g[h][s]}
<1>9. 0 \in H
  <2>1. ASSUME NEW s \in SUBSET A, Cardinality(s) <= 0 PROVE F(b)[s] = b[s]
    <3>1. s = {}
      <5>1. s # {} => Cardinality(s) \in Nat \ {0}
        BY <1>2
      <5>. QED BY <2>1, <5>1
    <3>. QED BY <1>5, <3>1
  <2>2. 0 \in 0..N
    BY <1>1
  <2>. HIDE DEF F
  <2>. QED BY <1>7, <2>1, <2>2
<1>10. ASSUME NEW h \in 1..N, h - 1 \in H PROVE h \in H
  <2>1. PICK p, r, k : p = g[h - 1] /\ r = g[h] /\ k = h - 1
    OBVIOUS
  <2>2. r = F(p) /\ h \in 0..N /\ h \in Nat /\ k \in Nat /\ h = k + 1
    <3>1. h \in 0..N /\ h \in Nat /\ k \in Nat /\ h = k + 1
      BY <1>1, <2>1
    <3>. HIDE DEF F
    <3>. QED BY <1>8, <2>1, <3>1
  <2>3. \A s \in SUBSET A : Cardinality(s) <= k => F(p)[s] = p[s]
    <3>. HIDE DEF F
    <3>. QED BY <1>10, <2>1
  <2>4. ASSUME NEW s \in SUBSET A, Cardinality(s) <= h PROVE F(r)[s] = r[s]
    <3>1. CASE s = {}
      BY <2>2, <3>1
    <3>2. CASE s # {}
      <4>1. PICK x, t : x = Picked(s)[3] /\ t = s \ {Picked(s)}
        OBVIOUS
      <4>2. t \in SUBSET A /\ Cardinality(s) \in Nat /\ Cardinality(t) = Cardinality(s) - 1
        BY <1>2, <3>2, <4>1
      <4>3. Cardinality(t) <= k
        BY <2>2, <2>4, <4>2
      <4>4. r[t] = p[t]
        <5>. HIDE DEF F
        <5>. QED BY <2>2, <2>3, <4>2, <4>3
      <4>5. F(r)[s] = x + r[t] /\ F(p)[s] = x + p[t]
        BY <3>2, <4>1
      <4>. HIDE DEF F
      <4>. QED BY <2>2, <4>4, <4>5
    <3>. QED BY <3>1, <3>2
  <2>. HIDE DEF F
  <2>. QED BY <2>1, <2>2, <2>4
<1>11. \A h \in 0..N : h \in H
  <2>. HIDE DEF H, N
  <2>. QED BY <1>1, <1>9, <1>10, EveryTurn
<1>12. PICK f : f = g[N]
  OBVIOUS
<1>13. f \in S /\ N \in 0..N
  <2>1. N \in 0..N
    BY <1>1
  <2>. QED BY <1>7, <1>12, <2>1
<1>14. \A s \in SUBSET A : Cardinality(s) <= N
  BY <1>1, FS_Subset
<1>15. \A s \in SUBSET A : F(f)[s] = f[s]
  <2>. HIDE DEF F, N
  <2>. QED BY <1>11, <1>12, <1>13, <1>14
<1>16. Sums(A, f)
  <2>1. {} \in SUBSET A
    OBVIOUS
  <2>2. \A s \in SUBSET A : F(f)[s] = IF s = {} THEN 0 ELSE Picked(s)[3] + f[s \ {Picked(s)}]
    OBVIOUS
  <2>. HIDE DEF F
  <2>3. f[{}] = 0 /\ \A s \in SUBSET A : s # {} => f[s] = Picked(s)[3] + f[s \ {Picked(s)}]
    BY <1>15, <2>1, <2>2
  <2>. QED BY <1>13, <2>3 DEF Sums, S
<1>. QED BY <1>16

LEMMA SumsAgree ==
  ASSUME NEW A, Weighed(A), NEW B \in SUBSET A, NEW f, Sums(A, f), NEW g, Sums(B, g)
  PROVE  \A s \in SUBSET B : f[s] = g[s]
<1>. DEFINE N == Cardinality(B)
            H == {h \in 0..N : \A s \in SUBSET B : Cardinality(s) <= h => f[s] = g[s]}
<1>1. IsFiniteSet(B) /\ N \in Nat
  BY FS_Subset, FS_CardinalityType DEF Weighed
<1>2. ASSUME NEW s \in SUBSET B, s # {}
      PROVE  /\ s \ {Picked(s)} \in SUBSET B
             /\ Cardinality(s) \in Nat \ {0} /\ Cardinality(s \ {Picked(s)}) = Cardinality(s) - 1
  <2>1. Picked(s) \in s
    BY <1>2, PickedIs
  <2>. QED BY <1>1, <2>1, Smaller
<1>3. 0 \in H
  <2>1. ASSUME NEW s \in SUBSET B, Cardinality(s) <= 0 PROVE f[s] = g[s]
    <3>1. s = {}
      <5>1. s # {} => Cardinality(s) \in Nat \ {0}
        BY <1>2
      <5>. QED BY <2>1, <5>1
    <3>. QED BY <3>1 DEF Sums
  <2>2. 0 \in 0..N
    BY <1>1
  <2>. QED BY <2>1, <2>2
<1>4. ASSUME NEW h \in 1..N, h - 1 \in H PROVE h \in H
  <2>1. PICK k : k = h - 1
    OBVIOUS
  <2>2. h \in 0..N /\ h \in Nat /\ k \in Nat /\ h = k + 1
    BY <1>1, <2>1
  <2>3. \A s \in SUBSET B : Cardinality(s) <= k => f[s] = g[s]
    BY <1>4, <2>1
  <2>4. ASSUME NEW s \in SUBSET B, Cardinality(s) <= h PROVE f[s] = g[s]
    <3>1. CASE s = {}
      BY <3>1 DEF Sums
    <3>2. CASE s # {}
      <4>1. PICK x, t : x = Picked(s)[3] /\ t = s \ {Picked(s)}
        OBVIOUS
      <4>2. t \in SUBSET B /\ Cardinality(s) \in Nat /\ Cardinality(t) = Cardinality(s) - 1
        BY <1>2, <3>2, <4>1
      <4>3. Cardinality(t) <= k
        BY <2>2, <2>4, <4>2
      <4>4. f[t] = g[t]
        BY <2>3, <4>2, <4>3
      <4>5. f[s] = x + f[t] /\ g[s] = x + g[t]
        BY <3>2, <4>1 DEF Sums
      <4>. QED BY <4>4, <4>5
    <3>. QED BY <3>1, <3>2
  <2>. QED BY <2>2, <2>4
<1>5. \A h \in 0..N : h \in H
  <2>. HIDE DEF H, N
  <2>. QED BY <1>1, <1>3, <1>4, EveryTurn
<1>6. N \in 0..N /\ \A s \in SUBSET B : Cardinality(s) <= N
  BY <1>1, FS_Subset
<1>. QED BY <1>5, <1>6

LEMMA WeightIs ==
  ASSUME NEW A, Weighed(A)
  PROVE  \E f : Sums(A, f) /\ GA!Weight(A) = f[A]
<1>. DEFINE R(f) == [s \in SUBSET A |-> IF s = {} THEN 0 ELSE (CHOOSE x \in s : TRUE)[3] + f[s \ {CHOOSE x \in s : TRUE}]]
            iter == CHOOSE f : f = R(f)
<1>1. GA!Weight(A) = iter[A]
  BY DEF GA!Weight, GA!MapThenSumSet, GA!MapThenFoldSet, GA!FoldSet
<1>2. \A f : R(f) = [s \in SUBSET A |-> IF s = {} THEN 0 ELSE Picked(s)[3] + f[s \ {Picked(s)}]]
  BY DEF Picked
<1>. HIDE DEF R
<1>3. PICK f : Sums(A, f)
  BY SumsExist
<1>4. f = R(f)
  <2>1. \A s \in SUBSET A : f[s] = IF s = {} THEN 0 ELSE Picked(s)[3] + f[s \ {Picked(s)}]
    BY <1>3 DEF Sums
  <2>2. f = [s \in SUBSET A |-> f[s]]
    BY <1>3 DEF Sums
  <2>. QED BY <1>2, <2>1, <2>2
<1>5. iter = R(iter)
  BY <1>4
<1>. HIDE DEF iter
<1>6. DOMAIN iter = SUBSET A /\ \A s \in SUBSET A : iter[s] = IF s = {} THEN 0 ELSE Picked(s)[3] + iter[s \ {Picked(s)}]
  <2>1. PICK r : r = iter
    OBVIOUS
  <2>2. r = [s \in SUBSET A |-> IF s = {} THEN 0 ELSE Picked(s)[3] + r[s \ {Picked(s)}]]
    BY <1>2, <1>5, <2>1
  <2>. QED BY <2>1, <2>2
<1>7. Sums(A, iter)
  <2>. DEFINE N == Cardinality(A)
              H == {h \in 0..N : \A s \in SUBSET A : Cardinality(s) <= h => iter[s] \in Int}
  <2>1. IsFiniteSet(A) /\ N \in Nat
    BY FS_CardinalityType DEF Weighed
  <2>2. ASSUME NEW s \in SUBSET A, s # {}
        PROVE  /\ s \ {Picked(s)} \in SUBSET A /\ Picked(s)[3] \in Int
               /\ Cardinality(s) \in Nat \ {0} /\ Cardinality(s \ {Picked(s)}) = Cardinality(s) - 1
    <3>1. Picked(s) \in s
      BY <2>2, PickedIs
    <3>2. Picked(s)[3] \in Int
      BY <3>1 DEF Weighed
    <3>. QED BY <2>1, <3>1, <3>2, Smaller
  <2>2a. iter[{}] = 0
    <3>1. {} \in SUBSET A
      OBVIOUS
    <3>. QED BY <1>6, <3>1
  <2>3. 0 \in H
    <3>1. ASSUME NEW s \in SUBSET A, Cardinality(s) <= 0 PROVE iter[s] \in Int
      <4>1. s = {}
        <5>1. s # {} => Cardinality(s) \in Nat \ {0}
          BY <2>2
        <5>. QED BY <3>1, <5>1
      <4>. QED BY <2>2a, <4>1
    <3>2. 0 \in 0..N
      BY <2>1
    <3>. QED BY <3>1, <3>2
  <2>4. ASSUME NEW h \in 1..N, h - 1 \in H PROVE h \in H
    <3>1. PICK k : k = h - 1
      OBVIOUS
    <3>2. h \in 0..N /\ h \in Nat /\ k \in Nat /\ h = k + 1
      BY <2>1, <3>1
    <3>3. \A s \in SUBSET A : Cardinality(s) <= k => iter[s] \in Int
      BY <2>4, <3>1
    <3>4. ASSUME NEW s \in SUBSET A, Cardinality(s) <= h PROVE iter[s] \in Int
      <4>1. CASE s = {}
        BY <2>2a, <4>1
      <4>2. CASE s # {}
        <5>1. PICK x, t : x = Picked(s)[3] /\ t = s \ {Picked(s)}
          OBVIOUS
        <5>2. t \in SUBSET A /\ x \in Int /\ Cardinality(s) \in Nat /\ Cardinality(t) = Cardinality(s) - 1
          BY <2>2, <4>2, <5>1
        <5>3. Cardinality(t) <= k
          BY <3>2, <3>4, <5>2
        <5>4. iter[t] \in Int
          BY <3>3, <5>2, <5>3
        <5>5. iter[s] = x + iter[t]
          BY <1>6, <4>2, <5>1
        <5>. QED BY <5>2, <5>4, <5>5
      <4>. QED BY <4>1, <4>2
    <3>. QED BY <3>2, <3>4
  <2>5. \A h \in 0..N : h \in H
    <3>. HIDE DEF H, N
    <3>. QED BY <2>1, <2>3, <2>4, EveryTurn
  <2>6. N \in 0..N /\ \A s \in SUBSET A : Cardinality(s) <= N
    BY <2>1, FS_Subset
  <2>7. \A s \in SUBSET A : iter[s] \in Int
    BY <2>5, <2>6
  <2>8. iter \in [SUBSET A -> Int]
    <3>1. iter = [s \in DOMAIN iter |-> iter[s]]
      <4>1. PICK r : r = iter
        OBVIOUS
      <4>2. r = [s \in SUBSET A |-> IF s = {} THEN 0 ELSE Picked(s)[3] + r[s \ {Picked(s)}]]
        BY <1>2, <1>5, <4>1
      <4>. QED BY <4>1, <4>2
    <3>. QED BY <1>6, <2>7, <3>1
  <2>. QED BY <1>6, <2>8 DEF Sums
<1>. QED BY <1>1, <1>7

\* Any element may be taken out of the sum.
LEMMA TakeOut ==
  ASSUME NEW A, Weighed(A), NEW f, Sums(A, f)
  PROVE  \A s \in SUBSET A : \A x \in s : f[s] = x[3] + f[s \ {x}]
<1>. DEFINE N == Cardinality(A)
            H == {h \in 0..N : \A s \in SUBSET A : Cardinality(s) <= h => \A x \in s : f[s] = x[3] + f[s \ {x}]}
<1>1. IsFiniteSet(A) /\ N \in Nat /\ \A x \in A : x[3] \in Int
  BY FS_CardinalityType DEF Weighed
<1>2. 0 \in H
  <2>1. ASSUME NEW s \in SUBSET A, Cardinality(s) <= 0, NEW x \in s PROVE FALSE
    <3>1. Cardinality(s) \in Nat \ {0}
      BY <1>1, Smaller
    <3>. QED BY <2>1, <3>1
  <2>2. 0 \in 0..N
    BY <1>1
  <2>. QED BY <2>1, <2>2
<1>3. ASSUME NEW h \in 1..N, h - 1 \in H PROVE h \in H
  <2>1. PICK k : k = h - 1
    OBVIOUS
  <2>2. h \in 0..N /\ h \in Nat /\ k \in Nat /\ h = k + 1
    BY <1>1, <2>1
  <2>3. \A s \in SUBSET A : Cardinality(s) <= k => \A x \in s : f[s] = x[3] + f[s \ {x}]
    BY <1>3, <2>1
  <2>4. ASSUME NEW s \in SUBSET A, Cardinality(s) <= h, NEW x \in s PROVE f[s] = x[3] + f[s \ {x}]
    <3>1. PICK c : c = Picked(s)
      OBVIOUS
    <3>2. c \in s /\ f[s] = c[3] + f[s \ {c}]
      BY <3>1, PickedIs DEF Sums
    <3>3. CASE c = x
      BY <3>2, <3>3
    <3>4. CASE c # x
      <4>1. PICK t, r, b : t = s \ {c} /\ r = s \ {x} /\ b = (s \ {c}) \ {x}
        OBVIOUS
      <4>2. /\ t \in SUBSET A /\ r \in SUBSET A /\ b \in SUBSET A /\ x \in t /\ c \in r
            /\ t \ {x} = b /\ r \ {c} = b
        BY <3>2, <3>4, <4>1
      <4>3. Cardinality(s) \in Nat /\ Cardinality(t) = Cardinality(s) - 1 /\ Cardinality(r) = Cardinality(s) - 1
        BY <1>1, <3>2, <4>1, Smaller
      <4>4. Cardinality(t) <= k /\ Cardinality(r) <= k
        BY <2>2, <2>4, <4>3
      <4>5. f[t] = x[3] + f[b] /\ f[r] = c[3] + f[b]
        BY <2>3, <4>2, <4>4
      <4>6. PICK u, v, fb, ft, fr, fs : u = x[3] /\ v = c[3] /\ fb = f[b] /\ ft = f[t] /\ fr = f[r] /\ fs = f[s]
        OBVIOUS
      <4>7. u \in Int /\ v \in Int /\ fb \in Int
        BY <1>1, <3>2, <4>2, <4>6 DEF Sums
      <4>8. fs = v + ft /\ ft = u + fb /\ fr = v + fb
        BY <3>2, <4>1, <4>5, <4>6
      <4>9. fs = u + fr
        BY <4>7, <4>8
      <4>. QED BY <4>1, <4>6, <4>9
    <3>. QED BY <3>3, <3>4
  <2>. QED BY <2>2, <2>4
<1>4. \A h \in 0..N : h \in H
  <2>. HIDE DEF H, N
  <2>. QED BY <1>1, <1>2, <1>3, EveryTurn
<1>5. N \in 0..N /\ \A s \in SUBSET A : Cardinality(s) <= N
  BY <1>1, FS_Subset
<1>. QED BY <1>4, <1>5

LEMMA WeightOfNone == Weighed({}) /\ GA!Weight({}) = 0
<1>1. Weighed({})
  BY FS_EmptySet DEF Weighed
<1>2. PICK f : Sums({}, f) /\ GA!Weight({}) = f[{}]
  BY <1>1, WeightIs
<1>. QED BY <1>1, <1>2 DEF Sums

LEMMA WeightOfMore ==
  ASSUME NEW A, Weighed(A), NEW x, x \notin A, x[3] \in Int
  PROVE  /\ Weighed(A \cup {x}) /\ GA!Weight(A) \in Int
         /\ GA!Weight(A \cup {x}) = GA!Weight(A) + x[3]
<1>1. PICK B : B = A \cup {x}
  OBVIOUS
<1>2. Weighed(B)
  <2>1. IsFiniteSet(B)
    BY <1>1, FS_AddElement DEF Weighed
  <2>. QED BY <1>1, <2>1 DEF Weighed
<1>3. PICK f : Sums(A, f) /\ GA!Weight(A) = f[A]
  BY WeightIs
<1>4. PICK g : Sums(B, g) /\ GA!Weight(B) = g[B]
  BY <1>2, WeightIs
<1>5. A \in SUBSET B /\ B \ {x} = A /\ x \in B /\ B \in SUBSET B
  BY <1>1
<1>6. g[B] = x[3] + g[A]
  BY <1>2, <1>4, <1>5, TakeOut
<1>7. g[A] = f[A]
  BY <1>2, <1>3, <1>4, <1>5, SumsAgree
<1>8. f[A] \in Int
  BY <1>3 DEF Sums
<1>9. PICK w : w = f[A]
  OBVIOUS
<1>10. x[3] + w = w + x[3]
  BY <1>8, <1>9
<1>. QED BY <1>1, <1>2, <1>3, <1>4, <1>6, <1>7, <1>8, <1>9, <1>10

-----------------------------------------------------------------------------
(* Connected sets of edges *)

Ends(tree) == \A e \in tree : e[1] \in Vertices /\ e[2] \in Vertices
\* No edge of the tree leads out of S, or into it.
Uncut(tree, S) == \A e \in tree : e[1] \in S <=> e[2] \in S
Connected(tree) == \A S \in SUBSET Vertices : S # {} /\ Uncut(tree, S) => S = Vertices

LEMMA JoinedIs ==
  ASSUME GraphOK, NEW tree, Ends(tree)
  PROVE  GA!Joined(tree) <=> Connected(tree)
<1>. DEFINE M == num_vertices - 1
            Beside(S) == S \cup {e[1] : e \in {x \in tree : x[2] \in S}} \cup {e[2] : e \in {x \in tree : x[1] \in S}}
            Steps(g, h) == IF h = 0 THEN {0} ELSE Beside(g[h - 1])
            near == CHOOSE g : g = [h \in 0..M |-> Steps(g, h)]
            Grow == [S \in SUBSET Vertices |-> Beside(S)]
            step == [i \in 1..M |-> Grow]
            U == SUBSET Vertices
<1>1. M \in Nat /\ num_vertices \in Nat /\ Vertices = 0..M /\ 0 \in Vertices
  BY DEF GraphOK, Vertices, GA!Vertices
<1>2. GA!Joined(tree) <=> near[M] = Vertices
  BY DEF GA!Joined, Vertices
<1>3. \A S \in U : Beside(S) \in U /\ S \subseteq Beside(S)
  BY DEF Ends
<1>4. \A S : Beside(S) \subseteq S <=> Uncut(tree, S)
  BY DEF Uncut
<1>5. \A S, R : S \subseteq R => Beside(S) \subseteq Beside(R)
  OBVIOUS
<1>. HIDE DEF Beside
<1>6. Grow \in [U -> U] /\ {0} \in U /\ step \in [1..M -> [U -> U]] /\ \A S \in U : Grow[S] = Beside(S)
  BY <1>1, <1>3
<1>. HIDE DEF Grow
<1>7. PICK g \in [0..M -> U] : g[0] = {0} /\ \A i \in 1..M : g[i] = step[i][g[i - 1]]
  <2>. HIDE DEF step, M, U
  <2>1. Unrolls(M, U, {0}, step)
    BY <1>1, <1>6, Turns
  <2>. QED BY <2>1, Zenon DEF Unrolls
<1>8. \A i \in 1..M : i - 1 \in 0..M /\ i \in 0..M /\ g[i - 1] \in U /\ g[i] = Grow[g[i - 1]] /\ g[i] = Beside(g[i - 1])
  <2>1. \A i \in 1..M : i - 1 \in 0..M /\ i \in 0..M
    BY <1>1
  <2>. QED BY <1>6, <1>7, <2>1
<1>. HIDE DEF step
<1>9. near = [h \in 0..M |-> Steps(near, h)]
  <2>1. \A h \in 0..M : g[h] = Steps(g, h)
    <3>1. \A h \in 0..M : h = 0 \/ h \in 1..M
      BY <1>1
    <3>2. Steps(g, 0) = {0}
      OBVIOUS
    <3>3. \A h \in 1..M : Steps(g, h) = Beside(g[h - 1])
      OBVIOUS
    <3>. HIDE DEF Steps, M
    <3>. QED BY <1>7, <1>8, <3>1, <3>2, <3>3
  <2>2. \E r : r = [h \in 0..M |-> Steps(r, h)]
    <3>. HIDE DEF Steps, M
    <3>1. g = [h \in 0..M |-> Steps(g, h)]
      BY <1>7, <2>1
    <3>. QED BY <3>1
  <2>. QED BY <2>2
<1>. HIDE DEF near
<1>10. \A h \in 0..M : near[h] = Steps(near, h)
  <2>. HIDE DEF Steps, M
  <2>. QED BY <1>9
<1>. DEFINE A == {h \in 0..M : near[h] = g[h]}
<1>11. \A h \in 0..M : h \in A
  <2>1. 0 \in A
    <3>1. 0 \in 0..M
      BY <1>1
    <3>. QED BY <1>7, <1>10, <3>1
  <2>2. ASSUME NEW h \in 1..M, h - 1 \in A PROVE h \in A
    <3>1. h \in 0..M /\ h # 0
      BY <1>1
    <3>2. near[h] = Beside(near[h - 1])
      BY <1>10, <3>1
    <3>. QED BY <1>8, <2>2, <3>1, <3>2
  <2>. HIDE DEF A, M
  <2>. QED BY <1>1, <2>1, <2>2, EveryTurn
<1>12. M \in 0..M
  BY <1>1
<1>13. PICK R : R = g[M]
  OBVIOUS
<1>14. GA!Joined(tree) <=> R = Vertices
  BY <1>2, <1>11, <1>12, <1>13
<1>15. R \in U
  BY <1>7, <1>12, <1>13
<1>16. Uncut(tree, R)
  <2>1. Grow[g[M]] = g[M]
    <3>1. \A h \in 1..num_vertices - 1 : g[h] = Grow[g[h - 1]]
      BY <1>8
    <3>2. \A S \in SUBSET Vertices : S \subseteq Grow[S]
      BY <1>3, <1>6
    <3>3. Grow[Vertices] = Vertices
      <4>1. Vertices \in U
        OBVIOUS
      <4>2. Beside(Vertices) = Vertices
        BY <1>3, <4>1
      <4>. HIDE DEF U
      <4>. QED BY <1>6, <4>1, <4>2
    <3>. QED BY <1>6, <1>7, <3>1, <3>2, <3>3, Saturates
  <2>2. Beside(R) = R
    BY <1>6, <1>13, <1>15, <2>1
  <2>. QED BY <1>4, <2>2
<1>. DEFINE B(S) == {h \in 0..M : 0 \in g[h] /\ (0 \in S /\ Uncut(tree, S) => g[h] \subseteq S)}
<1>17. ASSUME NEW S PROVE M \in B(S)
  <2>1. 0 \in B(S)
    <3>1. 0 \in 0..M
      BY <1>1
    <3>. QED BY <1>7, <3>1
  <2>2. ASSUME NEW h \in 1..M, h - 1 \in B(S) PROVE h \in B(S)
    <3>1. h \in 0..M
      BY <1>1
    <3>2. PICK F : F = g[h - 1]
      OBVIOUS
    <3>3. g[h] = Beside(F) /\ F \subseteq g[h]
      BY <1>3, <1>8, <3>2
    <3>4. 0 \in F /\ (0 \in S /\ Uncut(tree, S) => F \subseteq S)
      BY <2>2, <3>2
    <3>5. ASSUME F \subseteq S, Uncut(tree, S) PROVE Beside(F) \subseteq S
      BY <1>4, <1>5, <3>5
    <3>. QED BY <3>1, <3>3, <3>4, <3>5
  <2>3. PICK X : X = B(S)
    OBVIOUS
  <2>4. \A h \in 0..M : h \in X
    <3>. HIDE DEF B, M
    <3>. QED BY <1>1, <2>1, <2>2, <2>3, EveryTurn
  <2>. HIDE DEF B
  <2>. QED BY <1>12, <2>3, <2>4
<1>18. 0 \in R /\ \A S : 0 \in S /\ Uncut(tree, S) => R \subseteq S
  BY <1>13, <1>17
<1>19. ASSUME R = Vertices, NEW S \in SUBSET Vertices, S # {}, Uncut(tree, S) PROVE S = Vertices
  <2>1. CASE 0 \in S
    BY <1>18, <1>19, <2>1
  <2>2. CASE 0 \notin S
    <3>1. Uncut(tree, Vertices \ S)
      BY <1>19 DEF Uncut, Ends
    <3>2. 0 \in Vertices \ S
      BY <1>1, <2>2
    <3>3. R \subseteq Vertices \ S
      BY <1>18, <3>1, <3>2
    <3>. QED BY <1>19, <3>3
  <2>. QED BY <2>1, <2>2
<1>20. ASSUME Connected(tree) PROVE R = Vertices
  <2>1. R \in SUBSET Vertices /\ R # {}
    BY <1>15, <1>18
  <2>. QED BY <1>16, <1>20, <2>1 DEF Connected
<1>. QED BY <1>14, <1>19, <1>20 DEF Connected

\* An edge with its lesser end first
Up(e) == IF e[1] < e[2] THEN e ELSE <<e[2], e[1], e[3]>>
UpEdges == {e \in GA!Edges : e[1] < e[2]}

LEMMA EdgesFinite ==
  ASSUME GraphOK
  PROVE  IsFiniteSet(GA!Edges) /\ IsFiniteSet(UpEdges)
<1>. DEFINE f == [a \in Arrows |-> <<a[1], To(a), adj_list[a[1]][a[2]].weight>>]
<1>1. \A v \in Vertices : \A k \in DOMAIN adj_list[v] : <<v, k>> \in Arrows
  BY ArrowsAre
<1>2. f \in Surjection(Arrows, GA!Edges)
  <2>1. ASSUME NEW a \in Arrows PROVE f[a] \in GA!Edges
    <3>1. PICK v \in Vertices : \E k \in DOMAIN adj_list[v] : a = <<v, k>>
      BY ArrowsAre
    <3>2. PICK k \in DOMAIN adj_list[v] : a = <<v, k>>
      BY <3>1
    <3>3. f[a] = <<v, adj_list[v][k].to, adj_list[v][k].weight>>
      BY <3>2 DEF To
    <3>. QED BY <3>1, <3>3, EdgesAre
  <2>2. ASSUME NEW e \in GA!Edges PROVE \E a \in Arrows : f[a] = e
    <3>1. PICK v \in Vertices : \E k \in DOMAIN adj_list[v] : e = <<v, adj_list[v][k].to, adj_list[v][k].weight>>
      BY DEF GA!Edges, Vertices
    <3>2. PICK k \in DOMAIN adj_list[v] : e = <<v, adj_list[v][k].to, adj_list[v][k].weight>>
      BY <3>1
    <3>3. PICK a : a = <<v, k>>
      OBVIOUS
    <3>4. a \in Arrows /\ a[1] = v /\ a[2] = k
      BY <1>1, <3>3
    <3>5. f[a] = e
      BY <3>2, <3>4 DEF To
    <3>. QED BY <3>4, <3>5
  <2>3. f \in [Arrows -> GA!Edges]
    BY <2>1
  <2>. HIDE DEF f
  <2>. QED BY <2>2, <2>3 DEF Surjection
<1>3. IsFiniteSet(GA!Edges)
  <2>1. IsFiniteSet(Arrows)
    BY ArrowsAre
  <2>. HIDE DEF f
  <2>. QED BY <1>2, <2>1, FS_Surjection
<1>. QED BY <1>3, FS_Subset DEF UpEdges

\* The spanning trees: the sets of num_vertices - 1 edges that connect all vertices
Trees == {t \in SUBSET UpEdges : Cardinality(t) = num_vertices - 1 /\ Connected(t)}

LEMMA TreesAre ==
  ASSUME GraphOK
  PROVE  GA!SpanningTrees = Trees
<1>1. \A S : GA!Cardinality(S) = Cardinality(S)
  BY DEF GA!Cardinality, Cardinality
<1>2. GA!SpanningTrees = {t \in SUBSET UpEdges : Cardinality(t) = num_vertices - 1 /\ GA!Joined(t)}
  BY <1>1 DEF GA!SpanningTrees, GA!kSubset, UpEdges
<1>3. \A t \in SUBSET UpEdges : GA!Joined(t) <=> Connected(t)
  <2>1. ASSUME NEW t \in SUBSET UpEdges PROVE Ends(t)
    BY EdgesTyped DEF Ends, UpEdges
  <2>. QED BY <2>1, JoinedIs
<1>. QED BY <1>2, <1>3 DEF Trees

\* The edges T, with their ends in V, connect V.
Spans(T, V) == /\ \A e \in T : e[1] \in V /\ e[2] \in V
               /\ \A S \in SUBSET Vertices : Uncut(T, S) => V \subseteq S \/ V \cap S = {}
Between(x, u, v) == (x[1] = u /\ x[2] = v) \/ (x[1] = v /\ x[2] = u)
NoneIsLighter(x, V) == \A f \in UpEdges : ~(f[1] \in V <=> f[2] \in V) => x[3] <= f[3]

\* A tree that holds T, which connects V, can be made to hold an edge x out of V that is
\* as light as any, and gets no heavier.
LEMMA Exchange ==
  ASSUME GraphOK, NEW t \in Trees, NEW T \in SUBSET t, NEW V \in SUBSET Vertices, Spans(T, V),
         NEW x \in UpEdges, NEW u \in V, NEW v \in Vertices \ V, Between(x, u, v), NoneIsLighter(x, V)
  PROVE  \E r \in Trees : T \cup {x} \subseteq r /\ GA!Weight(r) <= GA!Weight(t)
<1>. USE DEF Spans, Between, NoneIsLighter
<1>1. /\ t \in SUBSET UpEdges /\ Cardinality(t) = num_vertices - 1 /\ Connected(t) /\ IsFiniteSet(t)
      /\ \A e \in UpEdges : e[1] \in Vertices /\ e[2] \in Vertices /\ e[3] \in Int
  BY EdgesFinite, EdgesTyped, FS_Subset DEF Trees, UpEdges
<1>2. \A s \in SUBSET t : Weighed(s) /\ GA!Weight(s) \in Int
  <2>1. \A s \in SUBSET t : Weighed(s)
    BY <1>1, FS_Subset DEF Weighed
  <2>2. ASSUME NEW s \in SUBSET t PROVE GA!Weight(s) \in Int
    <3>1. PICK f : Sums(s, f) /\ GA!Weight(s) = f[s]
      BY <2>1, WeightIs
    <3>. QED BY <3>1 DEF Sums
  <2>. QED BY <2>1, <2>2
<1>3. CASE x \in t
  <2>1. GA!Weight(t) <= GA!Weight(t)
    <3>1. PICK w : w = GA!Weight(t)
      OBVIOUS
    <3>2. w <= w
      BY <1>2, <3>1
    <3>. QED BY <3>1, <3>2
  <2>. QED BY <1>3, <2>1
<1>4. CASE x \notin t
  <2>. DEFINE within == {e \in t : e[1] \in V <=> e[2] \in V}
              A == {y \in Vertices : \A S \in SUBSET Vertices : v \in S /\ Uncut(within, S) => y \in S}
  <2>1. v \in A /\ A \in SUBSET Vertices
    OBVIOUS
  <2>2. A \cap V = {}
    <3>1. Vertices \ V \in SUBSET Vertices /\ v \in Vertices \ V
      OBVIOUS
    <3>2. Uncut(within, Vertices \ V)
      BY <1>1 DEF Uncut
    <3>. HIDE DEF within
    <3>. QED BY <3>1, <3>2
  <2>3. Uncut(within, A)
    <3>1. \A e \in within : e[1] \in Vertices /\ e[2] \in Vertices
      BY <1>1
    <3>. HIDE DEF within
    <3>. QED BY <3>1 DEF Uncut
  <2>4. \A S \in SUBSET Vertices : Uncut(within, S) => A \subseteq S \/ A \cap S = {}
    <3>1. ASSUME NEW S \in SUBSET Vertices, Uncut(within, S) PROVE A \subseteq S \/ A \cap S = {}
      <4>1. CASE v \in S
        <5>. HIDE DEF within
        <5>. QED BY <3>1, <4>1
      <4>2. CASE v \notin S
        <5>1. Uncut(within, Vertices \ S)
          BY <1>1, <3>1 DEF Uncut
        <5>2. v \in Vertices \ S /\ Vertices \ S \in SUBSET Vertices
          BY <4>2
        <5>. HIDE DEF within
        <5>. QED BY <5>1, <5>2
      <4>. QED BY <4>1, <4>2
    <3>. QED BY <3>1
  <2>. HIDE DEF A
  <2>5. PICK f \in t : ~(f[1] \in A <=> f[2] \in A)
    <3>1. A # Vertices /\ A # {}
      BY <2>1, <2>2
    <3>2. ~Uncut(t, A)
      BY <1>1, <2>1, <3>1 DEF Connected
    <3>. QED BY <3>2 DEF Uncut
  <2>6. ~(f[1] \in V <=> f[2] \in V) /\ f \notin T /\ f # x
    <3>1. f \notin within
      BY <2>3, <2>5 DEF Uncut
    <3>. QED BY <1>4, <2>5, <3>1
  <2>. DEFINE s == t \ {f}
              r == s \cup {x}
  <2>7. T \cup {x} \subseteq r
    BY <2>6
  <2>8. within \subseteq r
    BY <2>6
  <2>9. Connected(r)
    <3>1. SUFFICES ASSUME NEW S \in SUBSET Vertices, S # {}, Uncut(r, S) PROVE Uncut(t, S)
      BY <1>1 DEF Connected
    <3>2. V \subseteq S \/ V \cap S = {}
      <4>1. Uncut(T, S)
        BY <2>7, <3>1 DEF Uncut
      <4>. QED BY <4>1
    <3>3. A \subseteq S \/ A \cap S = {}
      <4>1. Uncut(within, S)
        BY <2>8, <3>1 DEF Uncut
      <4>. QED BY <2>4, <4>1
    <3>4. u \in S <=> v \in S
      BY <3>1 DEF Uncut
    <3>5. \A y \in V : y \in S <=> u \in S
      BY <3>2
    <3>6. \A y \in A : y \in S <=> v \in S
      BY <2>1, <3>3
    <3>7. f[1] \in S <=> f[2] \in S
      BY <2>2, <2>5, <2>6, <3>4, <3>5, <3>6
    <3>. QED BY <3>1, <3>7 DEF Uncut
  <2>10. Cardinality(r) = num_vertices - 1 /\ r \in SUBSET UpEdges
    <3>1. IsFiniteSet(s) /\ Cardinality(s) = Cardinality(t) - 1
      BY <1>1, FS_RemoveElement
    <3>2. Cardinality(r) = Cardinality(s) + 1 /\ Cardinality(t) \in Nat
      BY <1>1, <1>4, <3>1, FS_AddElement, FS_CardinalityType
    <3>3. num_vertices \in Nat
      BY DEF GraphOK
    <3>4. PICK c, d : c = Cardinality(s) /\ d = Cardinality(t)
      OBVIOUS
    <3>5. d \in Nat /\ c = d - 1 /\ d = num_vertices - 1 /\ Cardinality(r) = c + 1
      BY <1>1, <3>1, <3>2, <3>4
    <3>6. Cardinality(r) = num_vertices - 1
      BY <3>3, <3>5
    <3>. QED BY <1>1, <3>6
  <2>11. GA!Weight(r) <= GA!Weight(t)
    <3>1. s \in SUBSET t /\ f \notin s /\ x \notin s /\ s \cup {f} = t /\ x[3] \in Int /\ f[3] \in Int
      BY <1>1, <1>4
    <3>2. Weighed(s)
      BY <1>2, <3>1
    <3>. HIDE DEF s
    <3>3. GA!Weight(s \cup {f}) = GA!Weight(s) + f[3] /\ GA!Weight(s \cup {x}) = GA!Weight(s) + x[3]
      BY <3>1, <3>2, WeightOfMore
    <3>4. x[3] <= f[3]
      BY <1>1, <2>6
    <3>5. PICK w, a, b : w = GA!Weight(s) /\ a = f[3] /\ b = x[3]
      OBVIOUS
    <3>6. w \in Int /\ a \in Int /\ b \in Int /\ b <= a
      BY <1>2, <3>1, <3>4, <3>5
    <3>7. w + b <= w + a
      BY <3>6
    <3>. QED BY <3>1, <3>3, <3>5, <3>7
  <2>12. r \in Trees
    BY <2>9, <2>10 DEF Trees
  <2>. HIDE DEF r
  <2>. QED BY <2>7, <2>11, <2>12
<1>. QED BY <1>3, <1>4

-----------------------------------------------------------------------------
(* A tree that grows *)

Norm(T) == {Up(e) : e \in T}

\* The edges T, each with the ends done, connect done, and some lightest spanning tree
\* holds them if there is any.
Grown(done, T) ==
  /\ T \in SUBSET GA!Edges /\ \A e \in T : e[1] \in done /\ e[2] \in done
  /\ \A S \in SUBSET Vertices : Uncut(T, S) => done \subseteq S \/ done \cap S = {}
  /\ Weighed(T) /\ Weighed(Norm(T)) /\ GA!Weight(Norm(T)) = GA!Weight(T) /\ Norm(T) \subseteq UpEdges
  /\ \A t \in Trees : \E r \in Trees : Norm(T) \subseteq r /\ GA!Weight(r) <= GA!Weight(t)

LEMMA NormCut ==
  ASSUME NEW T, NEW S, Uncut(Norm(T), S)
  PROVE  Uncut(T, S)
<1>1. ASSUME NEW e \in T PROVE e[1] \in S <=> e[2] \in S
  <2>1. PICK y : y = Up(e)
    OBVIOUS
  <2>2. y[1] \in S <=> y[2] \in S
    BY <2>1 DEF Uncut, Norm
  <2>3. (y[1] = e[1] /\ y[2] = e[2]) \/ (y[1] = e[2] /\ y[2] = e[1])
    BY <2>1 DEF Up
  <2>. QED BY <2>2, <2>3
<1>. QED BY <1>1 DEF Uncut

LEMMA WeightTyped ==
  ASSUME GraphOK, NEW t \in SUBSET UpEdges
  PROVE  Weighed(t) /\ GA!Weight(t) \in Int
<1>1. Weighed(t)
  <2>1. IsFiniteSet(t)
    BY EdgesFinite, FS_Subset
  <2>2. \A e \in t : e[3] \in Int
    BY EdgesTyped DEF UpEdges
  <2>. QED BY <2>1, <2>2 DEF Weighed
<1>2. PICK f : Sums(t, f) /\ GA!Weight(t) = f[t]
  BY <1>1, WeightIs
<1>. QED BY <1>1, <1>2 DEF Sums

LEMMA GrownStarts ==
  ASSUME GraphOK, NEW done \in SUBSET Vertices, done = {} \/ \E s \in Vertices : done = {s}
  PROVE  Grown(done, {})
<1>1. Norm({}) = {}
  BY DEF Norm
<1>2. \A t \in Trees : GA!Weight(t) <= GA!Weight(t)
  <2>1. ASSUME NEW t \in Trees PROVE GA!Weight(t) <= GA!Weight(t)
    <3>1. PICK w : w = GA!Weight(t)
      OBVIOUS
    <3>2. w \in Int
      BY <3>1, WeightTyped DEF Trees
    <3>3. w <= w
      BY <3>2
    <3>. QED BY <3>1, <3>3
  <2>. QED BY <2>1
<1>3. \A S \in SUBSET Vertices : done \subseteq S \/ done \cap S = {}
  OBVIOUS
<1>. QED BY <1>1, <1>2, <1>3, WeightOfNone DEF Grown

LEMMA Grows ==
  ASSUME GraphOK, Symmetric, NEW done \in SUBSET Vertices, NEW T, Grown(done, T),
         NEW x \in GA!Edges, x[1] \in done, x[2] \notin done,
         NoneIsLighter(x, done)
  PROVE  /\ Grown(done \cup {x[2]}, T \cup {x})
         /\ Norm(T \cup {x}) = Norm(T) \cup {Up(x)} /\ Up(x) \notin Norm(T)
<1>1. PICK u, v, w : x = <<u, v, w>> /\ u \in Vertices /\ v \in Vertices
  <2>1. PICK y \in Vertices : \E k \in DOMAIN adj_list[y] : x = <<y, adj_list[y][k].to, adj_list[y][k].weight>>
    BY DEF GA!Edges, Vertices
  <2>2. PICK k \in DOMAIN adj_list[y] : x = <<y, adj_list[y][k].to, adj_list[y][k].weight>>
    BY <2>1
  <2>3. x[2] \in Vertices
    BY EdgesTyped
  <2>. QED BY <2>2, <2>3
<1>2. /\ x[1] = u /\ x[2] = v /\ x[3] = w /\ u \in done /\ v \notin done /\ w \in Int
  BY <1>1, EdgesTyped
<1>3. PICK y : y = Up(x)
  OBVIOUS
<1>4. /\ y \in UpEdges /\ y[3] = w
      /\ Between(y, u, v)
  <2>1. u \in Nat /\ v \in Nat /\ u # v
    BY <1>1, <1>2 DEF Vertices, GA!Vertices
  <2>2. <<v, u, w>> \in GA!Edges
    BY <1>1 DEF Symmetric
  <2>3. y = IF u < v THEN <<u, v, w>> ELSE <<v, u, w>>
    BY <1>1, <1>3 DEF Up
  <2>4. CASE u < v
    BY <1>1, <2>3, <2>4 DEF UpEdges, Between
  <2>5. CASE v < u
    BY <1>1, <2>1, <2>2, <2>3, <2>5 DEF UpEdges, Between
  <2>. QED BY <2>1, <2>4, <2>5
<1>5. Norm(T \cup {x}) = Norm(T) \cup {y}
  BY <1>3 DEF Norm
<1>6. \A e \in Norm(T) : e[1] \in done /\ e[2] \in done
  <2>1. \A e \in T : e[1] \in done /\ e[2] \in done
    BY DEF Grown
  <2>. QED BY <2>1 DEF Norm, Up
<1>7. y \notin Norm(T) /\ x \notin T
  <2>1. \A e \in T : e[1] \in done /\ e[2] \in done
    BY DEF Grown
  <2>. QED BY <1>2, <1>4, <1>6, <2>1 DEF Between
<1>8. T \cup {x} \in SUBSET GA!Edges /\ \A e \in T \cup {x} : e[1] \in done \cup {v} /\ e[2] \in done \cup {v}
  BY <1>2 DEF Grown
<1>9. ASSUME NEW S \in SUBSET Vertices, Uncut(T \cup {x}, S)
      PROVE  done \cup {v} \subseteq S \/ (done \cup {v}) \cap S = {}
  <2>1. Uncut(T, S) /\ (u \in S <=> v \in S)
    BY <1>2, <1>9 DEF Uncut
  <2>2. done \subseteq S \/ done \cap S = {}
    BY <2>1 DEF Grown
  <2>. QED BY <1>2, <2>1, <2>2
<1>10. /\ Weighed(T \cup {x}) /\ Weighed(Norm(T) \cup {y})
       /\ GA!Weight(Norm(T) \cup {y}) = GA!Weight(T \cup {x})
  <2>1. Weighed(T) /\ Weighed(Norm(T)) /\ GA!Weight(Norm(T)) = GA!Weight(T)
    BY DEF Grown
  <2>2. Weighed(T \cup {x}) /\ GA!Weight(T \cup {x}) = GA!Weight(T) + x[3]
    BY <1>2, <1>7, <2>1, WeightOfMore
  <2>3. Weighed(Norm(T) \cup {y}) /\ GA!Weight(Norm(T) \cup {y}) = GA!Weight(Norm(T)) + y[3]
    BY <1>2, <1>4, <1>7, <2>1, WeightOfMore
  <2>. QED BY <1>2, <1>4, <2>1, <2>2, <2>3
<1>11. ASSUME NEW t \in Trees PROVE \E r \in Trees : Norm(T) \cup {y} \subseteq r /\ GA!Weight(r) <= GA!Weight(t)
  <2>1. PICK o \in Trees : Norm(T) \subseteq o /\ GA!Weight(o) <= GA!Weight(t)
    BY DEF Grown
  <2>2. \A S \in SUBSET Vertices : Uncut(Norm(T), S) => done \subseteq S \/ done \cap S = {}
    <3>1. \A S : Uncut(Norm(T), S) => Uncut(T, S)
      BY NormCut
    <3>. QED BY <3>1 DEF Grown
  <2>3. NoneIsLighter(y, done)
    BY <1>2, <1>4 DEF NoneIsLighter
  <2>4. PICK N : N = Norm(T)
    OBVIOUS
  <2>5. N \in SUBSET o /\ Spans(N, done) /\ u \in done /\ v \in Vertices \ done
    BY <1>1, <1>2, <1>6, <2>1, <2>2, <2>4 DEF Spans
  <2>6. PICK r \in Trees : N \cup {y} \subseteq r /\ GA!Weight(r) <= GA!Weight(o)
    BY <1>4, <2>1, <2>3, <2>5, Exchange
  <2>7. PICK a, b, c : a = GA!Weight(r) /\ b = GA!Weight(o) /\ c = GA!Weight(t)
    OBVIOUS
  <2>8. a \in Int /\ b \in Int /\ c \in Int /\ a <= b /\ b <= c
    BY <2>1, <2>6, <2>7, WeightTyped DEF Trees
  <2>9. a <= c
    BY <2>8
  <2>. QED BY <2>4, <2>6, <2>7, <2>9
<1>12. Norm(T) \cup {y} \subseteq UpEdges
  BY <1>4 DEF Grown
<1>13. Grown(done \cup {v}, T \cup {x})
  BY <1>5, <1>8, <1>9, <1>10, <1>11, <1>12 DEF Grown
<1>. QED BY <1>2, <1>3, <1>5, <1>7, <1>13

\* When no edge leads out of what is connected, it is all, or there is no spanning tree.
LEMMA NoTreeIsLighter ==
  ASSUME GraphOK, NEW done \in SUBSET Vertices, NEW T, Grown(done, T), done # {},
         \A e \in GA!Edges : e[1] \in done <=> e[2] \in done
  PROVE  /\ done # Vertices => Trees = {}
         /\ done = Vertices /\ Cardinality(Norm(T)) = num_vertices - 1
              => /\ Trees # {} /\ Ends(T) /\ Connected(T)
                 /\ \A t \in Trees : GA!Weight(T) <= GA!Weight(t)
<1>1. ASSUME done # Vertices, NEW t \in Trees PROVE FALSE
  <2>1. Uncut(t, done) /\ Connected(t)
    BY DEF Trees, Uncut, UpEdges
  <2>. QED BY <1>1, <2>1 DEF Connected
<1>2. ASSUME done = Vertices, Cardinality(Norm(T)) = num_vertices - 1
      PROVE  /\ Trees # {} /\ Ends(T) /\ Connected(T)
             /\ \A t \in Trees : GA!Weight(T) <= GA!Weight(t)
  <2>1. Ends(T)
    BY DEF Ends, Grown
  <2>2. Connected(T)
    <3>1. ASSUME NEW S \in SUBSET Vertices, S # {}, Uncut(T, S) PROVE S = Vertices
      BY <1>2, <3>1 DEF Grown
    <3>. QED BY <3>1 DEF Connected
  <2>3. Connected(Norm(T))
    <3>1. \A S : Uncut(Norm(T), S) => Uncut(T, S)
      BY NormCut
    <3>. QED BY <2>2, <3>1 DEF Connected
  <2>4. Norm(T) \in Trees
    BY <1>2, <2>3 DEF Trees, Grown
  <2>5. ASSUME NEW t \in Trees PROVE GA!Weight(T) <= GA!Weight(t)
    <3>1. PICK r \in Trees : Norm(T) \subseteq r /\ GA!Weight(r) <= GA!Weight(t)
      BY DEF Grown
    <3>2. IsFiniteSet(r) /\ Cardinality(r) = Cardinality(Norm(T))
      BY <1>2, EdgesFinite, FS_Subset DEF Trees
    <3>3. r = Norm(T)
      BY <3>1, <3>2, FS_Subset
    <3>4. GA!Weight(Norm(T)) = GA!Weight(T)
      BY DEF Grown
    <3>. QED BY <3>1, <3>3, <3>4
  <2>. QED BY <2>1, <2>2, <2>4, <2>5
<1>. QED BY <1>1, <1>2

-----------------------------------------------------------------------------
(* prim_minimum_spanning_tree *)

PrimTypes(s, dist, queue, done, a) ==
  /\ s \in Vertices /\ dist \in [Vertices -> Lengths] /\ queue \in SUBSET Entries
  /\ done \in SUBSET Vertices /\ a \in Seq(GA!Edges)
\* An entry has an edge from a settled vertex; the distance of a vertex
\* is that of its lightest entry, and of no edge from a settled vertex more.
PrimEntries(s, dist, queue, done) ==
  /\ dist[s] = 0 /\ (s \in done \/ (done = {} /\ \A f \in queue : f.v = s))
  /\ \A f \in queue : dist[f.v] <= f.dist
  /\ \A f \in queue : f.v = s \/ (f.from \in done /\ <<f.from, f.v, f.dist>> \in GA!Edges)
  /\ \A v \in Vertices \ done : dist[v] = inf \/ \E f \in queue : f.v = v /\ f.dist = dist[v]
  /\ \A u \in done : \A k \in DOMAIN adj_list[u] : dist[adj_list[u][k].to] <= adj_list[u][k].weight
\* The answer is a tree of the settled vertices.
PrimTree(s, done, a) ==
  /\ Grown(done, GA!ToSet(a))
  /\ Cardinality(done \ {s}) = Len(a) /\ Cardinality(Norm(GA!ToSet(a))) = Len(a)

PrimOK(s, dist, queue, done, a) ==
  PrimTypes(s, dist, queue, done, a) /\ PrimEntries(s, dist, queue, done) /\ PrimTree(s, done, a)

LEMMA ToSetIs == \A a, x : x \in GA!ToSet(a) <=> Among(a, x)
  BY DEF GA!ToSet, Among

\* What an edge from a settled vertex leads to has an entry that weighs no more.
LEMMA NearerEntry ==
  ASSUME GraphOK, Finite, NEW s, NEW dist, NEW queue, NEW done, NEW a,
         PrimTypes(s, dist, queue, done, a), PrimEntries(s, dist, queue, done),
         NEW u \in done, NEW v \in Vertices \ done, NEW w, <<u, v, w>> \in GA!Edges
  PROVE  \E f \in queue : f.v = v /\ f.dist <= w
<1>1. PICK k \in DOMAIN adj_list[u] : adj_list[u][k].to = v /\ adj_list[u][k].weight = w
  BY EdgesAre
<1>2. dist[v] <= w
  BY <1>1 DEF PrimEntries
<1>3. w < inf /\ w \in Nat
  <2>1. PICK x : x = <<u, v, w>>
    OBVIOUS
  <2>2. x \in GA!Edges /\ x[3] = w
    BY <2>1
  <2>. QED BY <2>2, EdgesTyped DEF Finite
<1>4. dist[v] \in Nat /\ inf \in Nat
  <2>1. dist[v] \in Lengths /\ inf \in Nat
    BY DEF PrimTypes, GraphOK
  <2>. QED BY <2>1 DEF Lengths
<1>5. dist[v] # inf
  BY <1>2, <1>3, <1>4
<1>. QED BY <1>2, <1>5 DEF PrimEntries

LEMMA PrimCalled ==
  ASSUME GraphOK, NEW s \in Vertices, NEW D, D = [[v \in Vertices |-> inf] EXCEPT ![s] = 0],
         NEW Q, Q = {[dist |-> 0, v |-> s, from |-> 0]}
  PROVE  PrimOK(s, D, Q, {}, <<>>)
<1>1. inf \in Nat /\ inf # 0 /\ num_vertices \in Nat
  BY DEF GraphOK
<1>2. D \in [Vertices -> Lengths] /\ D[s] = 0 /\ \A v \in Vertices : v # s => D[v] = inf
  BY <1>1 DEF Lengths
<1>3. PICK e : e = [dist |-> 0, v |-> s, from |-> 0]
  OBVIOUS
<1>4. Q = {e} /\ e \in Entries /\ e.v = s /\ e.dist = 0
  BY <1>1, <1>3 DEF Entries
<1>5. PrimTypes(s, D, Q, {}, <<>>)
  BY <1>2, <1>4 DEF PrimTypes
<1>6. PrimEntries(s, D, Q, {})
  BY <1>2, <1>4 DEF PrimEntries
<1>7. PrimTree(s, {}, <<>>)
  <2>1. GA!ToSet(<<>>) = {} /\ Norm({}) = {} /\ Len(<<>>) = 0
    BY DEF GA!ToSet, Norm
  <2>2. Grown({}, {})
    BY GrownStarts
  <2>3. {} \ {s} = {} /\ Cardinality({}) = 0
    BY FS_EmptySet
  <2>. QED BY <2>1, <2>2, <2>3 DEF PrimTree
<1>. QED BY <1>5, <1>6, <1>7 DEF PrimOK

LEMMA PrimSkipped ==
  ASSUME NEW s, PrimOK(s, distance, q, visited, answer), NEW e \in q, e.v \in visited
  PROVE  PrimOK(s, distance, q \ {e}, visited, answer)
<1>1. PrimEntries(s, distance, q \ {e}, visited)
  BY DEF PrimOK, PrimEntries
<1>. QED BY <1>1 DEF PrimOK, PrimTypes

\* No edge that leaves the settled vertices weighs less than what is taken out.
LEMMA TakesLightest ==
  ASSUME GraphOK, Symmetric, Finite, NEW s, PrimOK(s, distance, q, visited, answer), NEW e \in q,
         \A f \in q : e.dist <= f.dist, NEW x, x[3] = e.dist
  PROVE  NoneIsLighter(x, visited)
<1>1. SUFFICES ASSUME NEW f \in UpEdges, ~(f[1] \in visited <=> f[2] \in visited) PROVE x[3] <= f[3]
  BY DEF NoneIsLighter
<1>2. f \in GA!Edges
  BY DEF UpEdges
<1>3. PICK y, z, w : f = <<y, z, w>> /\ y \in Vertices /\ z \in Vertices
  <2>1. PICK y \in Vertices : \E k \in DOMAIN adj_list[y] : f = <<y, adj_list[y][k].to, adj_list[y][k].weight>>
    BY <1>2 DEF GA!Edges, Vertices
  <2>2. PICK k \in DOMAIN adj_list[y] : f = <<y, adj_list[y][k].to, adj_list[y][k].weight>>
    BY <2>1
  <2>3. f[2] \in Vertices
    BY <1>2, EdgesTyped
  <2>. QED BY <2>2, <2>3
<1>4. <<y, z, w>> \in GA!Edges /\ <<z, y, w>> \in GA!Edges
  BY <1>2, <1>3 DEF Symmetric
<1>5. PICK u \in visited, v \in Vertices \ visited : <<u, v, w>> \in GA!Edges
  BY <1>1, <1>3, <1>4
<1>6. PICK g \in q : g.dist <= w
  BY <1>5, NearerEntry DEF PrimOK
<1>7. e.dist <= g.dist /\ e.dist \in Int /\ g.dist \in Int /\ w \in Int
  <2>1. e \in Entries /\ g \in Entries /\ inf \in Nat
    BY DEF PrimOK, PrimTypes, GraphOK
  <2>2. f[3] = w /\ f[3] \in Nat
    BY <1>2, <1>3, EdgesTyped
  <2>. QED BY <2>1, <2>2 DEF Entries
<1>8. e.dist <= w
  BY <1>6, <1>7
<1>. QED BY <1>3, <1>8

\* Settling a nearest vertex
LEMMA PrimEntriesKept ==
  ASSUME GraphOK, Symmetric, Finite, NEW s, PrimOK(s, distance, q, visited, answer), NEW e \in q,
         NEW done, done = visited \cup {e.v}, NEW D, NEW Q, Near(e, 0, {}, D, Q, Len(adj_list[e.v]))
  PROVE  D \in [Vertices -> Lengths] /\ Q \in SUBSET Entries /\ PrimEntries(s, D, Q, done)
<1>1. /\ s \in Vertices /\ distance \in [Vertices -> Lengths] /\ q \in SUBSET Entries
      /\ visited \in SUBSET Vertices /\ PrimEntries(s, distance, q, visited)
  BY DEF PrimOK, PrimTypes
<1>2. /\ D \in [Vertices -> Lengths] /\ Q \in SUBSET Entries
      /\ \A v \in Vertices : D[v] <= distance[v]
  BY DEF Near
<1>3. /\ Lengths \subseteq Nat /\ inf \in Nat
      /\ \A f \in Entries : f.v \in Vertices /\ f.dist \in Nat
  <2>1. inf \in Nat
    BY DEF GraphOK
  <2>. QED BY <2>1 DEF Lengths, Entries
<1>4. D[s] = 0 /\ (s \in done \/ (done = {} /\ \A f \in Q : f.v = s))
  <2>1. D[s] <= 0 /\ D[s] \in Nat
    <3>1. distance[s] = 0 /\ D[s] <= distance[s] /\ D[s] \in Lengths
      BY <1>1, <1>2 DEF PrimEntries
    <3>. QED BY <1>3, <3>1
  <2>2. s \in visited \/ e.v = s
    BY <1>1 DEF PrimEntries
  <2>. QED BY <2>1, <2>2
<1>5. ASSUME NEW f \in Q PROVE f.v = s \/ (f.from \in done /\ <<f.from, f.v, f.dist>> \in GA!Edges)
  <2>1. CASE f \in q \ {e}
    BY <1>1, <2>1 DEF PrimEntries
  <2>2. CASE f \notin q \ {e}
    <3>1. f.from = e.v /\ <<e.v, f.v, f.dist - 0>> \in GA!Edges
      BY <2>2 DEF Near
    <3>2. f.dist - 0 = f.dist
      BY <1>2, <1>3
    <3>. QED BY <3>1, <3>2
  <2>. QED BY <2>1, <2>2
<1>6. ASSUME NEW v \in Vertices \ done PROVE D[v] = inf \/ \E f \in Q : f.v = v /\ f.dist = D[v]
  <2>1. CASE D[v] = distance[v]
    <3>1. distance[v] = inf \/ \E f \in q : f.v = v /\ f.dist = distance[v]
      BY <1>1 DEF PrimEntries
    <3>2. \A f \in q : f.v = v => f \in Q
      BY DEF Near
    <3>. QED BY <2>1, <3>1, <3>2
  <2>2. CASE D[v] # distance[v]
    BY <2>2 DEF Near
  <2>. QED BY <2>1, <2>2
<1>7. ASSUME NEW u \in done, NEW k \in DOMAIN adj_list[u]
      PROVE  D[adj_list[u][k].to] <= adj_list[u][k].weight
  <2>1. u \in Vertices
    BY <1>1, <1>3
  <2>2. adj_list[u] \in Seq(Neighbours)
    BY <2>1 DEF GraphOK
  <2>3. adj_list[u][k] \in Neighbours
    BY <2>2, ElementOfSeq
  <2>4. PICK to, w : to = adj_list[u][k].to /\ w = adj_list[u][k].weight
    OBVIOUS
  <2>5. to \in Vertices /\ w \in Nat
    BY <2>3, <2>4 DEF Neighbours
  <2>6. CASE u \in visited
    <3>1. distance[to] <= w
      BY <1>1, <2>4, <2>6 DEF PrimEntries
    <3>2. D[to] <= distance[to] /\ D[to] \in Nat /\ distance[to] \in Nat
      BY <1>1, <1>2, <1>3, <2>5
    <3>3. D[to] <= w
      BY <2>5, <3>1, <3>2
    <3>. QED BY <2>4, <3>3
  <2>7. CASE u = e.v
    <3>1. k \in 1..Len(adj_list[e.v])
      BY <2>2, <2>7
    <3>2. D[to] <= w + 0
      BY <2>4, <2>7, <3>1 DEF Near
    <3>. QED BY <2>4, <2>5, <3>2
  <2>. QED BY <2>6, <2>7
<1>8. \A f \in Q : D[f.v] <= f.dist
  BY DEF Near
<1>. QED BY <1>2, <1>4, <1>5, <1>6, <1>7, <1>8 DEF PrimEntries

LEMMA PrimSettled ==
  ASSUME GraphOK, Symmetric, Finite, NEW s, PrimOK(s, distance, q, visited, answer), NEW e \in q,
         e.v \notin visited, \A f \in q : e.dist <= f.dist,
         NEW done, done = visited \cup {e.v}, NEW D, NEW Q, Near(e, 0, {}, D, Q, Len(adj_list[e.v])),
         NEW a, a = IF e.v = s THEN answer ELSE Append(answer, <<e.from, e.v, e.dist>>)
  PROVE  PrimOK(s, D, Q, done, a)
<1>1. /\ s \in Vertices /\ q \in SUBSET Entries /\ e.v \in Vertices /\ visited \in SUBSET Vertices
      /\ answer \in Seq(GA!Edges)
      /\ s \in visited \/ (visited = {} /\ e.v = s)
      /\ e.v = s \/ (e.from \in visited /\ <<e.from, e.v, e.dist>> \in GA!Edges)
      /\ IsFiniteSet(Vertices)
  <2>1. IsFiniteSet(Vertices)
    BY VerticesFinite
  <2>2. \A f \in Entries : f.v \in Vertices
    BY DEF Entries
  <2>. QED BY <2>1, <2>2 DEF PrimOK, PrimTypes, PrimEntries
<1>2. /\ Grown(visited, GA!ToSet(answer))
      /\ Cardinality(visited \ {s}) = Len(answer) /\ Cardinality(Norm(GA!ToSet(answer))) = Len(answer)
  BY DEF PrimOK, PrimTree
<1>3. D \in [Vertices -> Lengths] /\ Q \in SUBSET Entries /\ PrimEntries(s, D, Q, done)
  BY PrimEntriesKept
<1>4. a \in Seq(GA!Edges) /\ PrimTree(s, done, a)
  <2>1. CASE e.v = s
    <3>1. visited = {} /\ done = {s} /\ a = answer
      BY <1>1, <2>1
    <3>2. Len(answer) = 0
      <4>1. {} \ {s} = {} /\ Cardinality({}) = 0
        BY FS_EmptySet
      <4>. QED BY <1>2, <3>1, <4>1
    <3>3. answer = <<>>
      BY <1>1, <3>2, EmptySeq
    <3>4. GA!ToSet(a) = {}
      BY <3>1, <3>3 DEF GA!ToSet
    <3>5. Grown(done, {})
      BY <1>1, <3>1, GrownStarts
    <3>6. done \ {s} = visited \ {s}
      BY <3>1
    <3>. QED BY <1>1, <1>2, <3>1, <3>4, <3>5, <3>6 DEF PrimTree
  <2>2. CASE e.v # s
    <3>1. PICK x : x = <<e.from, e.v, e.dist>>
      OBVIOUS
    <3>2. x \in GA!Edges /\ x[1] \in visited /\ x[2] = e.v /\ x[3] = e.dist /\ a = Append(answer, x)
      BY <1>1, <2>2, <3>1
    <3>3. NoneIsLighter(x, visited)
      BY <3>2, TakesLightest
    <3>4. PICK T : T = GA!ToSet(answer)
      OBVIOUS
    <3>5. Grown(visited, T) /\ x[2] \notin visited
      BY <1>2, <3>2, <3>4
    <3>6. /\ Grown(done, T \cup {x})
          /\ Norm(T \cup {x}) = Norm(T) \cup {Up(x)} /\ Up(x) \notin Norm(T)
      <4>1. /\ Grown(visited \cup {x[2]}, T \cup {x})
            /\ Norm(T \cup {x}) = Norm(T) \cup {Up(x)} /\ Up(x) \notin Norm(T)
        BY <1>1, <3>2, <3>3, <3>5, Grows
      <4>. QED BY <3>2, <4>1
    <3>7. a \in Seq(GA!Edges) /\ Len(a) = Len(answer) + 1 /\ GA!ToSet(a) = T \cup {x}
      <4>1. a \in Seq(GA!Edges) /\ Len(a) = Len(answer) + 1 /\ \A y : Among(a, y) <=> Among(answer, y) \/ y = x
        BY <1>1, <3>2, Appending
      <4>. QED BY <3>4, <4>1, ToSetIs
    <3>8. Cardinality(done \ {s}) = Len(a)
      <4>1. done \ {s} = (visited \ {s}) \cup {e.v} /\ e.v \notin visited \ {s}
        BY <2>2
      <4>2. IsFiniteSet(visited \ {s})
        BY <1>1, FS_Subset
      <4>3. Cardinality((visited \ {s}) \cup {e.v}) = Cardinality(visited \ {s}) + 1
        BY <4>1, <4>2, FS_AddElement
      <4>. QED BY <1>2, <3>7, <4>1, <4>3
    <3>9. Cardinality(Norm(GA!ToSet(a))) = Len(a)
      <4>1. IsFiniteSet(Norm(T))
        BY <3>5 DEF Grown, Weighed
      <4>2. Cardinality(Norm(T) \cup {Up(x)}) = Cardinality(Norm(T)) + 1
        BY <3>6, <4>1, FS_AddElement
      <4>. QED BY <1>2, <3>4, <3>6, <3>7, <4>2
    <3>. QED BY <3>6, <3>7, <3>8, <3>9 DEF PrimTree
  <2>. QED BY <2>1, <2>2
<1>5. done \in SUBSET Vertices
  BY <1>1
<1>. QED BY <1>1, <1>3, <1>4, <1>5 DEF PrimOK, PrimTypes

\* When the queue is empty the answer is a lightest spanning tree, or there is none.
LEMMA PrimRight ==
  ASSUME GraphOK, Symmetric, Finite, NoneIsNoSequence, NEW s, NEW dist, NEW done, NEW a,
         PrimOK(s, dist, {}, done, a)
  PROVE  GA!LightestTree(IF Len(a) # num_vertices - 1 THEN None ELSE a)
<1>1. /\ s \in Vertices /\ done \in SUBSET Vertices /\ a \in Seq(GA!Edges) /\ num_vertices \in Nat \ {0}
      /\ PrimTypes(s, dist, {}, done, a) /\ PrimEntries(s, dist, {}, done)
      /\ IsFiniteSet(Vertices) /\ Cardinality(Vertices) = num_vertices
  <2>1. num_vertices \in Nat \ {0}
    BY DEF GraphOK
  <2>2. IsFiniteSet(0..num_vertices - 1) /\ Cardinality(0..num_vertices - 1) = num_vertices
    BY <2>1, FS_Interval
  <2>. QED BY <2>1, <2>2 DEF PrimOK, PrimTypes, Vertices, GA!Vertices
<1>2. /\ Grown(done, GA!ToSet(a))
      /\ Cardinality(done \ {s}) = Len(a) /\ Cardinality(Norm(GA!ToSet(a))) = Len(a)
  BY DEF PrimOK, PrimTree
<1>3. s \in done
  <2>1. SUFFICES ASSUME s \notin done PROVE FALSE
    OBVIOUS
  <2>2. dist[s] = inf /\ dist[s] = 0 /\ inf # 0
    BY <1>1, <2>1 DEF PrimEntries, GraphOK
  <2>. QED BY <2>2
<1>4. ASSUME NEW f \in GA!Edges PROVE f[1] \in done <=> f[2] \in done
  <2>1. PICK y, z, w : f = <<y, z, w>> /\ y \in Vertices /\ z \in Vertices
    <3>1. PICK y \in Vertices : \E k \in DOMAIN adj_list[y] : f = <<y, adj_list[y][k].to, adj_list[y][k].weight>>
      BY DEF GA!Edges, Vertices
    <3>2. PICK k \in DOMAIN adj_list[y] : f = <<y, adj_list[y][k].to, adj_list[y][k].weight>>
      BY <3>1
    <3>3. f[2] \in Vertices
      BY EdgesTyped
    <3>. QED BY <3>2, <3>3
  <2>2. <<y, z, w>> \in GA!Edges /\ <<z, y, w>> \in GA!Edges
    BY <2>1 DEF Symmetric
  <2>3. ASSUME NEW u \in done, NEW v \in Vertices \ done, <<u, v, w>> \in GA!Edges PROVE FALSE
    BY <1>1, <2>3, NearerEntry
  <2>. QED BY <2>1, <2>2, <2>3
<1>5. PICK T : T = GA!ToSet(a)
  OBVIOUS
<1>6. /\ done # Vertices => Trees = {}
      /\ done = Vertices /\ Cardinality(Norm(T)) = num_vertices - 1
           => /\ Trees # {} /\ Ends(T) /\ Connected(T)
              /\ \A t \in Trees : GA!Weight(T) <= GA!Weight(t)
  BY <1>1, <1>2, <1>3, <1>4, <1>5, NoTreeIsLighter
<1>7. GA!SpanningTrees = Trees
  BY TreesAre
<1>8. IsFiniteSet(done) /\ Cardinality(done) = Len(a) + 1
  <2>1. IsFiniteSet(done)
    BY <1>1, FS_Subset
  <2>2. Cardinality(done \ {s}) = Cardinality(done) - 1 /\ Cardinality(done) \in Nat
    BY <1>3, <2>1, FS_RemoveElement, FS_CardinalityType
  <2>. QED BY <1>2, <2>1, <2>2
<1>9. CASE Len(a) # num_vertices - 1
  <2>1. done # Vertices
    <3>1. SUFFICES ASSUME done = Vertices PROVE FALSE
      OBVIOUS
    <3>2. num_vertices = Len(a) + 1 /\ Len(a) \in Nat
      BY <1>1, <1>8, <3>1
    <3>. QED BY <1>9, <3>2
  <2>. QED BY <1>6, <1>7, <1>9, <2>1 DEF GA!LightestTree
<1>10. CASE Len(a) = num_vertices - 1
  <2>1. done = Vertices
    <3>1. Cardinality(done) = num_vertices
      BY <1>1, <1>8, <1>10
    <3>. QED BY <1>1, <3>1, FS_Subset
  <2>2. /\ Trees # {} /\ Ends(T) /\ Connected(T)
        /\ \A t \in Trees : GA!Weight(T) <= GA!Weight(t)
    BY <1>2, <1>5, <1>6, <1>10, <2>1
  <2>3. GA!Joined(T)
    BY <2>2, JoinedIs
  <2>4. a # None
    BY <1>1 DEF NoneIsNoSequence
  <2>5. T \subseteq GA!Edges
    BY <1>2, <1>5 DEF Grown
  <2>6. GA!LightestTree(a)
    BY <1>5, <1>7, <1>10, <2>2, <2>3, <2>4, <2>5 DEF GA!LightestTree
  <2>. QED BY <1>10, <2>6
<1>. QED BY <1>9, <1>10

-----------------------------------------------------------------------------
(* The graph stays as it is. *)

LEMMA EdgesStay ==
  ASSUME adj_list' = adj_list
  PROVE  /\ GA!Edges' = GA!Edges /\ UpEdges' = UpEdges /\ Trees' = Trees
         /\ (GraphOK => GraphOK') /\ (Finite => Finite') /\ (Symmetric => Symmetric')
<1>1. GA!Edges' = GA!Edges
  BY DEF GA!Edges, GA!Vertices
<1>2. UpEdges' = UpEdges
  BY <1>1 DEF UpEdges
<1>3. Trees' = Trees
  BY <1>2 DEF Trees, Connected, Uncut, Vertices, GA!Vertices
<1>4. GraphOK => GraphOK'
  BY DEF GraphOK, Vertices, GA!Vertices, Neighbours
<1>5. (Finite => Finite') /\ (Symmetric => Symmetric')
  BY <1>1 DEF Finite, Symmetric
<1>. QED BY <1>1, <1>2, <1>3, <1>4, <1>5

LEMMA DijkstraStays ==
  ASSUME adj_list' = adj_list, NEW s, NEW dist, NEW queue, NEW done, NEW a, DijkstraOK(s, dist, queue, done, a)
  PROVE  DijkstraOK(s, dist, queue, done, a)'
<1>1. GA!Edges' = GA!Edges
  BY EdgesStay
<1>2. \A p, v, d : Leads(p, v, d, dist, done)' <=> Leads(p, v, d, dist, done)
  BY <1>1 DEF Leads
<1>3. Types(s, dist, queue, done, a)'
  BY DEF DijkstraOK, Types, Vertices, GA!Vertices, Lengths, Entries
<1>4. EntriesOK(s, dist, queue, done)'
  BY <1>2 DEF DijkstraOK, EntriesOK, Vertices, GA!Vertices
<1>5. AnswerOK(s, dist, done, a)'
  BY <1>2 DEF DijkstraOK, AnswerOK, Vertices, GA!Vertices
<1>6. RelaxedOK(dist, done)'
  BY DEF DijkstraOK, RelaxedOK
<1>7. Ranked(s, done, a)'
  BY DEF DijkstraOK, Ranked, Vertices, GA!Vertices
<1>. QED BY <1>3, <1>4, <1>5, <1>6, <1>7 DEF DijkstraOK

LEMMA PrimStays ==
  ASSUME adj_list' = adj_list, NEW s, NEW dist, NEW queue, NEW done, NEW a, PrimOK(s, dist, queue, done, a)
  PROVE  PrimOK(s, dist, queue, done, a)'
<1>1. GA!Edges' = GA!Edges /\ UpEdges' = UpEdges /\ Trees' = Trees
  BY EdgesStay
<1>2. PrimTypes(s, dist, queue, done, a)'
  BY <1>1 DEF PrimOK, PrimTypes, Vertices, GA!Vertices, Lengths, Entries
<1>3. PrimEntries(s, dist, queue, done)'
  BY <1>1 DEF PrimOK, PrimEntries, Vertices, GA!Vertices
<1>4. ASSUME NEW T, Grown(done, T) PROVE Grown(done, T)'
  BY <1>1, <1>4 DEF Grown, Uncut, Norm, Up, Weighed, Vertices, GA!Vertices
<1>5. PrimTree(s, done, a)'
  BY <1>4 DEF PrimOK, PrimTree, Norm, Up
<1>. QED BY <1>2, <1>3, <1>5 DEF PrimOK

LEMMA KahnStays ==
  ASSUME adj_list' = adj_list, NEW d, NEW s, NEW order, KahnOK(d, s, order)
  PROVE  KahnOK(d, s, order)'
<1>1. GA!Edges' = GA!Edges
  BY EdgesStay
<1>2. Arrows' = Arrows
  BY DEF Arrows, Vertices, GA!Vertices
<1>3. \A w : Entering(w)' = Entering(w)
  BY <1>2 DEF Entering, To
<1>4. \A w : {a \in Entering(w) : ~Among(order, a[1])}' = {a \in Entering(w) : ~Among(order, a[1])}
  BY <1>3 DEF Among
<1>5. LeadersBefore(order) => LeadersBefore(order)'
  BY <1>1 DEF LeadersBefore, Among
<1>6. \A w : Cardinality({a \in Entering(w) : ~Among(order, a[1])})' = Cardinality({a \in Entering(w) : ~Among(order, a[1])})
  BY <1>4
<1>. QED BY <1>5, <1>6 DEF KahnOK, Vertices, GA!Vertices, Among

\* What holds of the variables of the call c that is under way, and of what was returned
Running(c, dist, queue, done, d, a) ==
  \/ c.f = "dijkstra" /\ DijkstraOK(c.src, dist, queue, done, a)
  \/ c.f = "prim" /\ ~directed /\ PrimOK(c.src, dist, queue, done, a)
  \/ c.f = "sort" /\ KahnOK(d, queue, a)
Answered(r) ==
  \/ r.f = "dijkstra" /\ \E dist, done : DijkstraOK(r.src, dist, {}, done, r.value)
  \/ r.f = "prim" /\ ~directed /\ \E dist, done, a : PrimOK(r.src, dist, {}, done, a)
                                  /\ r.value = IF Len(a) # num_vertices - 1 THEN None ELSE a
  \/ r.f = "sort" /\ \E d : KahnOK(d, <<>>, r.value)

\* The names c, dist, ... are values, so that they are the same in the next state.
UnderWay == \E c, dist, queue, done, d, a :
  /\ c = call /\ dist = distance /\ queue = q /\ done = visited /\ d = indegree /\ a = answer
  /\ c # None => Running(c, dist, queue, done, d, a)
HasAnswered == \E r : r = graphReturned /\ (r # None => Answered(r))

GraphInv ==
  /\ GraphOK /\ Finite /\ (~directed => Symmetric)
  /\ UnderWay /\ HasAnswered

LEMMA GraphStays ==
  ASSUME adj_list' = adj_list, directed' = directed, GraphInv
  PROVE  /\ GraphOK' /\ Finite' /\ (~directed' => Symmetric')
         /\ \A c, dist, queue, done, d, a : Running(c, dist, queue, done, d, a) => Running(c, dist, queue, done, d, a)'
         /\ \A r : Answered(r) => Answered(r)'
<1>1. GraphOK' /\ Finite' /\ (~directed' => Symmetric')
  BY EdgesStay DEF GraphInv
<1>2. ASSUME NEW c, NEW dist, NEW queue, NEW done, NEW d, NEW a, Running(c, dist, queue, done, d, a)
      PROVE  Running(c, dist, queue, done, d, a)'
  BY <1>2, DijkstraStays, PrimStays, KahnStays DEF Running
<1>3. ASSUME NEW r, Answered(r) PROVE Answered(r)'
  <2>1. CASE r.f = "dijkstra" /\ \E dist, done : DijkstraOK(r.src, dist, {}, done, r.value)
    BY <2>1, DijkstraStays DEF Answered
  <2>2. CASE r.f = "prim" /\ ~directed /\ \E dist, done, a : PrimOK(r.src, dist, {}, done, a)
                             /\ r.value = IF Len(a) # num_vertices - 1 THEN None ELSE a
    BY <2>2, PrimStays DEF Answered
  <2>3. CASE r.f = "sort" /\ \E d : KahnOK(d, <<>>, r.value)
    BY <2>3, KahnStays DEF Answered
  <2>. QED BY <1>3, <2>1, <2>2, <2>3 DEF Answered
<1>. QED BY <1>1, <1>2, <1>3

LEMMA GraphInvNext ==
  ASSUME adj_list' = adj_list, directed' = directed, GraphInv,
         call' # None => Running(call', distance', q', visited', indegree', answer'),
         graphReturned' # None => graphReturned' = graphReturned \/ Answered(graphReturned')
  PROVE  GraphInv'
<1>1. PICK c, dist, queue, done, d, a :
        c = call' /\ dist = distance' /\ queue = q' /\ done = visited' /\ d = indegree' /\ a = answer'
  OBVIOUS
<1>2. c # None => Running(c, dist, queue, done, d, a)'
  BY <1>1, GraphStays
<1>3. UnderWay'
  BY <1>1, <1>2 DEF UnderWay
<1>4. PICK r : r = graphReturned'
  OBVIOUS
<1>5. r # None => Answered(r)
  BY <1>4 DEF GraphInv, HasAnswered
<1>6. HasAnswered'
  BY <1>4, <1>5, GraphStays DEF HasAnswered
<1>. QED BY <1>3, <1>6, GraphStays DEF GraphInv

LEMMA GraphInit ==
  ASSUME GraphAssumption, GA!Init
  PROVE  GraphInv
<1>1. PICK g \in Inputs : adj_list = GA!AdjList(g.edges, g.directed) /\ directed = g.directed
  BY DEF GA!Init
<1>2. GraphOK /\ Finite /\ (~directed => Symmetric)
  BY <1>1, GraphMade
<1>3. call = None /\ graphReturned = None
  BY DEF GA!Init
<1>. QED BY <1>2, <1>3 DEF GraphInv, UnderWay, HasAnswered

LEMMA GraphAnswers ==
  ASSUME NoneIsNoSequence
  PROVE  GraphInv => GA!AnswersRight
<1>1. NoneIsNoPair
  <2>1. ASSUME NEW p, NEW d PROVE None # <<p, d>>
    <3>1. PICK S : S = {p, d}
      OBVIOUS
    <3>2. <<p, d>> \in Seq(S) /\ None \notin Seq(S)
      BY <3>1 DEF NoneIsNoSequence
    <3>. QED BY <3>2
  <2>. QED BY <2>1 DEF NoneIsNoPair
<1>2. SUFFICES ASSUME GraphInv, graphReturned # None
      PROVE  CASE graphReturned.f = "dijkstra" -> GA!ShortestPaths(graphReturned.src, graphReturned.value)
               [] graphReturned.f = "prim"     -> GA!LightestTree(graphReturned.value)
               [] graphReturned.f = "sort"     -> GA!TopologicalOrder(graphReturned.value)
  BY DEF GA!AnswersRight
<1>3. Answered(graphReturned) /\ GraphOK /\ Finite /\ (~directed => Symmetric)
  BY <1>2 DEF GraphInv, HasAnswered
<1>4. CASE graphReturned.f = "dijkstra"
  <2>1. GA!ShortestPaths(graphReturned.src, graphReturned.value)
    BY <1>1, <1>3, <1>4, AnswerRight DEF Answered
  <2>. QED BY <1>4, <2>1
<1>5. CASE graphReturned.f = "prim"
  <2>1. GA!LightestTree(graphReturned.value)
    BY <1>3, <1>5, PrimRight DEF Answered
  <2>. QED BY <1>5, <2>1
<1>6. CASE graphReturned.f = "sort"
  <2>1. GA!TopologicalOrder(graphReturned.value)
    BY <1>3, <1>6, SortRight DEF Answered
  <2>. QED BY <1>6, <2>1
<1>. QED BY <1>3, <1>4, <1>5, <1>6 DEF Answered

LEMMA GraphCallSearch ==
  ASSUME GraphInv, NEW f, f = "dijkstra" \/ (f = "prim" /\ ~directed), NEW s \in Vertices, GA!CallSearch(f, s)
  PROVE  GraphInv'
<1>1. /\ adj_list' = adj_list /\ directed' = directed /\ graphReturned' = None
      /\ call' = [f |-> f, src |-> s] /\ visited' = {} /\ GraphOK
      /\ distance' = [[v \in Vertices |-> inf] EXCEPT ![s] = 0]
      /\ q' = {[dist |-> 0, v |-> s, from |-> IF f = "dijkstra" THEN num_vertices ELSE 0]}
      /\ answer' = IF f = "dijkstra" THEN [v \in Vertices |-> None] ELSE <<>>
  BY DEF GA!CallSearch, GraphInv, Vertices
<1>2. call'.f = f /\ call'.src = s
  BY <1>1
<1>3. PICK D, Q, a : D = distance' /\ Q = q' /\ a = answer'
  OBVIOUS
<1>4. Running(call', D, Q, {}, indegree', a)
  <2>1. CASE f = "dijkstra"
    <3>1. Q = {[dist |-> 0, v |-> s, from |-> num_vertices]} /\ a = [v \in Vertices |-> None]
      BY <1>1, <1>3, <2>1
    <3>2. DijkstraOK(s, D, Q, {}, a)
      BY <1>1, <1>3, <3>1, Called
    <3>. QED BY <1>2, <2>1, <3>2 DEF Running
  <2>2. CASE f = "prim" /\ ~directed
    <3>1. Q = {[dist |-> 0, v |-> s, from |-> 0]} /\ a = <<>>
      BY <1>1, <1>3, <2>2
    <3>2. PrimOK(s, D, Q, {}, a)
      BY <1>1, <1>3, <3>1, PrimCalled
    <3>. QED BY <1>2, <2>2, <3>2 DEF Running
  <2>. QED BY <2>1, <2>2
<1>. QED BY <1>1, <1>3, <1>4, GraphInvNext

LEMMA GraphCallSort ==
  ASSUME GraphInv, GA!CallSort
  PROVE  GraphInv'
<1>1. /\ adj_list' = adj_list /\ directed' = directed /\ graphReturned' = None
      /\ call' = [f |-> "sort", src |-> None] /\ answer' = <<>> /\ GraphOK
  BY DEF GA!CallSort, GraphInv
<1>2. call'.f = "sort"
  BY <1>1
<1>3. Running(call', distance', q', visited', indegree', answer')
  BY <1>1, <1>2, SortStarts DEF Running
<1>. QED BY <1>1, <1>3, GraphInvNext

LEMMA GraphSearch ==
  ASSUME GraphInv, GA!Search
  PROVE  GraphInv'
<1>1. PICK e : e = GA!top
  OBVIOUS
<1>2. /\ adj_list' = adj_list /\ directed' = directed /\ graphReturned' = graphReturned /\ call' = call
      /\ indegree' = indegree /\ call # None /\ call.f # "sort" /\ q # {} /\ GraphOK
      /\ Running(call, distance, q, visited, indegree, answer)
  BY DEF GA!Search, GraphInv, UnderWay
<1>3. e.v \in visited => q' = q \ {e} /\ distance' = distance /\ visited' = visited /\ answer' = answer
  BY <1>1 DEF GA!Search, GA!Stale
<1>4. e.v \notin visited =>
        /\ q' = GA!Relaxed(e).q /\ distance' = GA!Relaxed(e).distance /\ visited' = visited \cup {e.v}
        /\ answer' = IF call.f = "dijkstra" THEN [answer EXCEPT ![e.v] = <<e.from, e.dist>>]
                     ELSE IF e.v = call.src THEN answer
                     ELSE Append(answer, <<e.from, e.v, e.dist>>)
  BY <1>1 DEF GA!Search, GA!Stale
<1>5. PICK s, D, Q, done, a : s = call.src /\ D = distance' /\ Q = q' /\ done = visited' /\ a = answer'
  OBVIOUS
<1>6. CASE call.f = "dijkstra"
  <2>1. DijkstraOK(s, distance, q, visited, answer)
    BY <1>2, <1>5, <1>6 DEF Running
  <2>2. /\ distance \in [Vertices -> Lengths] /\ q \in SUBSET Entries /\ visited \in SUBSET Vertices
        /\ \A f \in q : distance[f.v] <= f.dist
    BY <2>1 DEF DijkstraOK, Types, EntriesOK
  <2>3. e \in q /\ \A f \in q : e.dist <= f.dist
    BY <1>1, <1>2, <2>2, TopIsNearest
  <2>4. DijkstraOK(s, D, Q, done, a)
    <3>1. CASE e.v \in visited
      BY <1>3, <1>5, <2>1, <2>3, <3>1, Skipped
    <3>2. CASE e.v \notin visited
      <4>1. e \in Entries /\ e.dist \in Nat /\ done \in SUBSET Vertices
        <5>1. inf \in Nat
          BY <1>2 DEF GraphOK
        <5>. QED BY <1>4, <1>5, <2>2, <2>3, <3>2, <5>1 DEF Entries
      <4>2. done = visited \cup {e.v} /\ \A u \in done : distance[u] <= e.dist
        BY <1>2, <1>4, <1>5, <2>1, <2>3, <3>2, SettlingEntries
      <4>3. Near(e, e.dist, done, GA!Relaxed(e).distance, GA!Relaxed(e).q, Len(adj_list[e.v]))
        BY <1>2, <1>6, <2>2, <4>1, <4>2, Relaxing
      <4>4. Near(e, e.dist, done, D, Q, Len(adj_list[e.v]))
        BY <1>4, <1>5, <3>2, <4>3
      <4>5. a = [answer EXCEPT ![e.v] = <<e.from, e.dist>>]
        BY <1>4, <1>5, <1>6, <3>2
      <4>. QED BY <1>2, <2>1, <2>3, <3>2, <4>2, <4>4, <4>5, Settled
    <3>. QED BY <3>1, <3>2
  <2>5. Running(call, D, Q, done, indegree, a)
    BY <1>5, <1>6, <2>4 DEF Running
  <2>. QED BY <1>2, <1>5, <2>5, GraphInvNext
<1>7. CASE call.f = "prim"
  <2>1. PrimOK(s, distance, q, visited, answer) /\ ~directed
    BY <1>2, <1>5, <1>7 DEF Running
  <2>2. /\ distance \in [Vertices -> Lengths] /\ q \in SUBSET Entries /\ visited \in SUBSET Vertices
        /\ \A f \in q : distance[f.v] <= f.dist
    BY <2>1 DEF PrimOK, PrimTypes, PrimEntries
  <2>3. e \in q /\ \A f \in q : e.dist <= f.dist
    BY <1>1, <1>2, <2>2, TopIsNearest
  <2>4. PrimOK(s, D, Q, done, a)
    <3>1. CASE e.v \in visited
      BY <1>3, <1>5, <2>1, <2>3, <3>1, PrimSkipped
    <3>2. CASE e.v \notin visited
      <4>1. e \in Entries /\ done = visited \cup {e.v}
        BY <1>4, <1>5, <2>2, <2>3, <3>2
      <4>2. PICK base, none : base = 0 /\ none = {}
        OBVIOUS
      <4>3. base \in Nat /\ base = (IF call.f = "dijkstra" THEN e.dist ELSE 0)
            /\ none \in SUBSET Vertices /\ \A u \in none : distance[u] <= base
        BY <1>7, <4>2
      <4>4. Near(e, base, none, GA!Relaxed(e).distance, GA!Relaxed(e).q, Len(adj_list[e.v]))
        BY <1>2, <2>2, <4>1, <4>3, Relaxing
      <4>5. Near(e, 0, {}, D, Q, Len(adj_list[e.v]))
        BY <1>4, <1>5, <3>2, <4>2, <4>4
      <4>6. a = IF e.v = s THEN answer ELSE Append(answer, <<e.from, e.v, e.dist>>)
        BY <1>4, <1>5, <1>7, <3>2
      <4>7. Symmetric /\ Finite
        BY <2>1 DEF GraphInv
      <4>. QED BY <1>2, <2>1, <2>3, <3>2, <4>1, <4>5, <4>6, <4>7, PrimSettled
    <3>. QED BY <3>1, <3>2
  <2>5. Running(call, D, Q, done, indegree, a)
    BY <1>5, <1>7, <2>1, <2>4 DEF Running
  <2>. QED BY <1>2, <1>5, <2>5, GraphInvNext
<1>. QED BY <1>2, <1>6, <1>7 DEF Running

LEMMA GraphSort ==
  ASSUME GraphInv, GA!Sort
  PROVE  GraphInv'
<1>1. PICK v : v = Head(q)
  OBVIOUS
<1>2. /\ adj_list' = adj_list /\ directed' = directed /\ graphReturned' = graphReturned /\ call' = call
      /\ call # None /\ call.f = "sort" /\ q # <<>> /\ GraphOK
      /\ Running(call, distance, q, visited, indegree, answer)
      /\ q' = GA!Dropped(v).q /\ indegree' = GA!Dropped(v).indegree /\ answer' = Append(answer, v)
  BY <1>1 DEF GA!Sort, GraphInv, UnderWay
<1>3. KahnOK(indegree, q, answer)
  BY <1>2 DEF Running
<1>4. KahnOK(indegree', q', answer')
  BY <1>1, <1>2, <1>3, SortTurn
<1>5. Running(call', distance', q', visited', indegree', answer')
  BY <1>2, <1>4 DEF Running
<1>. QED BY <1>2, <1>5, GraphInvNext

LEMMA GraphReturns ==
  ASSUME GraphInv, GA!SearchEnds \/ GA!SortEnds
  PROVE  GraphInv'
<1>1. PICK result :
        /\ GA!Return(result) /\ call # None
        /\ \/ call.f # "sort" /\ q = {} /\ result = IF call.f = "prim" /\ Len(answer) # num_vertices - 1 THEN None ELSE answer
           \/ call.f = "sort" /\ q = <<>> /\ result = answer
  BY DEF GA!SearchEnds, GA!SortEnds
<1>2. /\ adj_list' = adj_list /\ directed' = directed /\ call' = None
      /\ graphReturned' = [f |-> call.f, src |-> call.src, value |-> result]
  BY <1>1 DEF GA!Return
<1>3. PICK r : r = graphReturned'
  OBVIOUS
<1>4. r.f = call.f /\ r.src = call.src /\ r.value = result
  BY <1>2, <1>3
<1>5. Running(call, distance, q, visited, indegree, answer)
  BY <1>1 DEF GraphInv, UnderWay
<1>6. Answered(r)
  <2>1. CASE call.f = "dijkstra"
    <3>1. DijkstraOK(r.src, distance, {}, visited, r.value)
      BY <1>1, <1>4, <1>5, <2>1 DEF Running
    <3>. QED BY <1>4, <2>1, <3>1 DEF Answered
  <2>2. CASE call.f = "prim"
    <3>1. PrimOK(r.src, distance, {}, visited, answer) /\ ~directed
      BY <1>1, <1>4, <1>5, <2>2 DEF Running
    <3>2. r.value = IF Len(answer) # num_vertices - 1 THEN None ELSE answer
      BY <1>1, <1>4, <2>2
    <3>. QED BY <1>4, <2>2, <3>1, <3>2 DEF Answered
  <2>3. CASE call.f = "sort"
    <3>1. KahnOK(indegree, <<>>, r.value)
      BY <1>1, <1>4, <1>5, <2>3 DEF Running
    <3>. QED BY <1>4, <2>3, <3>1 DEF Answered
  <2>. QED BY <1>5, <2>1, <2>2, <2>3 DEF Running
<1>. QED BY <1>2, <1>3, <1>6, GraphInvNext

\* Whatever graph without negative weights the three algorithms are called on, and from
\* whatever source, they return shortest paths, a lightest spanning tree or none, and
\* the vertices behind no cycle in an order that the edges allow.
THEOREM GraphAlgorithmsAreRight ==
  ASSUME GraphAssumption
  PROVE  GA!Spec => []GraphAnswersRight
<1>1. GA!Init => GraphInv
  BY GraphInit
<1>2. ASSUME GraphInv, [GA!Next]_(GA!vars) PROVE GraphInv'
  <2>1. ASSUME NEW s \in Sources, GA!CallSearch("dijkstra", s) \/ (~directed /\ GA!CallSearch("prim", s))
        PROVE  GraphInv'
    <3>1. s \in Vertices
      BY DEF GraphAssumption
    <3>. QED BY <1>2, <2>1, <3>1, GraphCallSearch
  <2>2. CASE UNCHANGED GA!vars
    <3>1. /\ adj_list' = adj_list /\ directed' = directed /\ graphReturned' = graphReturned
          /\ call' = call /\ q' = q /\ distance' = distance /\ visited' = visited
          /\ indegree' = indegree /\ answer' = answer
      BY <2>2 DEF GA!vars, GA!locals
    <3>2. call # None => Running(call, distance, q, visited, indegree, answer)
      BY <1>2 DEF GraphInv, UnderWay
    <3>. QED BY <1>2, <3>1, <3>2, GraphInvNext
  <2>. QED BY <1>2, <2>1, <2>2, GraphCallSort, GraphSearch, GraphSort, GraphReturns DEF GA!Next
<1>3. GraphInv => GraphAnswersRight
  BY GraphAnswers DEF GraphAnswersRight, GraphAssumption
<1>. QED BY <1>1, <1>2, <1>3, PTL DEF GA!Spec
=============================================================================
