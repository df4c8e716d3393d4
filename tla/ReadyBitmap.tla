---------------------------- MODULE ReadyBitmap ----------------------------
(***************************************************************************)
(* The two-level ready bitmap of the eOS scheduler, core/scheduler.c.      *)
(* A priority p \in 0..63 is the bit p & 7 of the byte p >> 3 of           *)
(* _os_ready_table; bit y of _os_ready_group says that byte y is not 0.    *)
(* A byte is represented by the set of its 1 bits; module ReadyBytes keeps *)
(* the bytes themselves and implements this one.                           *)
(***************************************************************************)
EXTENDS Integers

Byte == 0..7                        \* bit positions, and indices of the table
Priorities == 0..63                 \* 0.._LOWEST_PRIORITY

Bitmaps == [group : SUBSET Byte, table : [Byte -> SUBSET Byte]]

EmptyBitmap == [group |-> {}, table |-> [y \in Byte |-> {}]]

\* _os_set_ready
SetReady(bm, p) ==
  [group |-> bm.group \cup {p \div 8},
   table |-> [bm.table EXCEPT ![p \div 8] = @ \cup {p % 8}]]

\* Mutant: the group bit is never cleared
UnsetKeepsGroup(bm, p) ==
  [group |-> bm.group, table |-> [bm.table EXCEPT ![p \div 8] = @ \ {p % 8}]]

\* _os_unset_ready: the group bit is cleared when the byte becomes 0
UnsetReady(bm, p) ==
  LET rest == bm.table[p \div 8] \ {p % 8}
  IN  [group |-> IF rest = {} THEN bm.group \ {p \div 8} ELSE bm.group,
       table |-> [bm.table EXCEPT ![p \div 8] = rest]]

\* Mutant: the highest bit
UnmapHighest(bits) ==
  IF bits = {} THEN 0 ELSE CHOOSE b \in bits : \A c \in bits : b >= c

\* _os_unmap_table: the lowest bit of a byte, 0 for the byte 0
Unmap(bits) ==
  IF bits = {} THEN 0 ELSE CHOOSE b \in bits : \A c \in bits : b <= c

\* _os_get_highest_priority
HighestPriority(bm) ==
  LET y == Unmap(bm.group) IN 8 * y + Unmap(bm.table[y])

-----------------------------------------------------------------------------
\* The priorities whose bit is set in the table.
ReadySet(bm) == {p \in Priorities : p % 8 \in bm.table[p \div 8]}

\* The group byte agrees with the table.
GroupAgrees(bm) == bm.group = {y \in Byte : bm.table[y] # {}}
=============================================================================
