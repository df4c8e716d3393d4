---------------------------- MODULE ReadyBytes -----------------------------
(***************************************************************************)
(* core/scheduler.c at the level of its bytes and of the literal lookup    *)
(* tables _os_map_table and _os_unmap_table.                               *)
(***************************************************************************)
EXTENDS Integers, Sequences, FiniteSets

CONSTANT Universe      \* the priorities passed to the operations, in 0..63

_os_map_table == <<1, 2, 4, 8, 16, 32, 64, 128>>

\* The 256 entries: 16 rows that differ in their first entry only.
FirstEntries == <<0, 4, 5, 4, 6, 4, 5, 4, 7, 4, 5, 4, 6, 4, 5, 4>>
OtherEntries == <<0, 1, 0, 2, 0, 1, 0, 3, 0, 1, 0, 2, 0, 1, 0>>
_os_unmap_table ==
  [i \in 1..256 |-> LET col == (i - 1) % 16
                    IN  IF col = 0 THEN FirstEntries[(i - 1) \div 16 + 1]
                                   ELSE OtherEntries[col]]

Map(i) == _os_map_table[i + 1]
UnmapEntry(b) == _os_unmap_table[b + 1]

VARIABLES ready_group, ready_table, highest
vars == <<ready_group, ready_table, highest>>

Bit(b, i) == (b \div 2^i) % 2 = 1
BitsOf(b) == {i \in 0..7 : Bit(b, i)}

\* b | mask and b & ~mask, for a mask of one bit
Or(b, mask)     == IF (b \div mask) % 2 = 1 THEN b ELSE b + mask
AndNot(b, mask) == IF (b \div mask) % 2 = 1 THEN b - mask ELSE b

Init == /\ ready_group = 0
        /\ ready_table = [y \in 0..7 |-> 0]
        /\ highest = -1

_os_set_ready(p) ==
  /\ ready_group' = Or(ready_group, Map(p \div 8))
  /\ ready_table' = [ready_table EXCEPT ![p \div 8] = Or(@, Map(p % 8))]
  /\ UNCHANGED highest

\* Mutant: the group bit is cleared with every bit of the table
UnsetAlwaysClearsGroup(p) ==
  /\ ready_table' = [ready_table EXCEPT ![p \div 8] = AndNot(@, Map(p % 8))]
  /\ ready_group' = AndNot(ready_group, Map(p \div 8))
  /\ UNCHANGED highest

_os_unset_ready(p) ==
  LET byte == AndNot(ready_table[p \div 8], Map(p % 8))
  IN  /\ ready_table' = [ready_table EXCEPT ![p \div 8] = byte]
      /\ ready_group' = IF byte = 0 THEN AndNot(ready_group, Map(p \div 8))
                                    ELSE ready_group
      /\ UNCHANGED highest

_os_get_highest_priority ==
  LET y == UnmapEntry(ready_group)
  IN  /\ \E i \in 0..7 : ready_table[i] # 0      \* the idle task is always ready
      /\ highest' = y * 8 + UnmapEntry(ready_table[y])
      /\ UNCHANGED <<ready_group, ready_table>>

Next == \/ \E p \in Universe : _os_set_ready(p) \/ _os_unset_ready(p)
        \/ _os_get_highest_priority

Spec == Init /\ [][Next]_vars
-----------------------------------------------------------------------------
\* Bytes, masks and lookup tables implement the bitmap over sets of bits, so
\* every query returns the lowest bit of the group and of its byte.
Bits == INSTANCE BitmapScheduler
          WITH bm <- [group |-> BitsOf(ready_group),
                      table |-> [y \in 0..7 |-> BitsOf(ready_table[y])]]
BytesAreBitmap == Bits!Spec
=============================================================================
