----------------------------- MODULE HashTable ------------------------------
(***************************************************************************)
(* hash_table.hpp: open addressing with linear or quadratic probing, slots *)
(* marked empty and removed (tombstones), doubling above half load.  get   *)
(* passes tombstones; put and remove stop at them, so that put stores a    *)
(* key that the table holds behind one a second time, and remove refuses   *)
(* it.  Careful says which of the two are not called for such a key.       *)
(***************************************************************************)
EXTENDS Integers, FiniteSetsExt

CONSTANTS Keys,            \* the ints that DefaultHashFunc maps to themselves
          Values, None,
          Probings,        \* a subset of {"linear", "quadratic"}
          InitialSize,     \* INITIAL_TABLE_SIZE, 64 in the code
          MaxSize,         \* the model stores no key that could need more slots
          Careful          \* a subset of {"put", "remove"}

VARIABLES probing,         \* LinearProbeHashTable or QuadProbeHashTable
          table,           \* slots 0..table_size - 1
          size, returned
vars == <<probing, table, size, returned>>

EmptySlot == [key |-> None, value |-> None, empty |-> TRUE, removed |-> FALSE]
EmptyTable(n) == [i \in 0..n - 1 |-> EmptySlot]
table_size(t) == Cardinality(DOMAIN t)

Init == /\ probing \in Probings
        /\ table = EmptyTable(InitialSize)
        /\ size = 0
        /\ returned = None

\* The slot that get_next_pos(get_pos(k), step) probes
Probe(t, k, step) ==
  LET steps == IF probing = "linear" THEN step ELSE (step * (step + 1)) \div 2
  IN  ((k % table_size(t)) + steps) % table_size(t)

\* The slots that the probing for k goes through, in order
Probed(t, k) == [s \in 0..table_size(t) - 1 |-> t[Probe(t, k, s)]]

\* Probing ends at the first of those steps, or at the last probe there is.
Position(t, k, steps) == Probe(t, k, Min(steps \cup {table_size(t) - 1}))

Holds(slot, k) == ~slot.empty /\ slot.key = k

\* Mutant: get stops at tombstones as well
PositionToGetStopping(t, k) ==
  LET slot == Probed(t, k)
  IN  Position(t, k, {s \in DOMAIN slot : slot[s].empty \/ slot[s].key = k})

\* A tombstone keeps its key, so get ends at a tombstone of its own key too.
PositionToGet(t, k) ==
  LET slot == Probed(t, k)
  IN  Position(t, k, {s \in DOMAIN slot : (slot[s].empty /\ ~slot[s].removed) \/ slot[s].key = k})

PositionToPut(t, k) ==
  LET slot == Probed(t, k)
  IN  Position(t, k, {s \in DOMAIN slot : slot[s].empty \/ slot[s].key = k})

\* The table after put(k, v), before any enlarging: as it was unless the
\* probing ended at an empty slot.
Filled(t, k, v) ==
  LET pos == PositionToPut(t, k)
      slot == [key |-> k, value |-> v, empty |-> FALSE, removed |-> FALSE]
  IN  IF t[pos].empty THEN [t EXCEPT ![pos] = slot] ELSE t

\* enlarge_table(): the used slots, in order, put into a table twice as large.
\* At half load or less there, none of these puts enlarges it again.
Enlarged(t) ==
  LET moved[i \in 0..table_size(t)] ==       \* after i turns of the loop
        IF i = 0 THEN EmptyTable(2 * table_size(t))
        ELSE IF t[i - 1].empty THEN moved[i - 1]
        ELSE Filled(moved[i - 1], t[i - 1].key, t[i - 1].value)
  IN  moved[table_size(t)]

Stored(t) == {i \in DOMAIN t : ~t[i].empty}
StoredKeys == {table[i].key : i \in Stored(table)}

put(k, v) ==
  LET filled == Filled(table, k, v)
      fits == 2 * (size + 1) <= table_size(table)
  IN  /\ \/ /\ filled # table
            /\ 2 * (size + 1) <= MaxSize
            /\ table' = IF fits THEN filled ELSE Enlarged(filled)
            /\ size' = size + 1
            /\ returned' = <<"put", k, TRUE>>
         \/ filled = table /\ returned' = <<"put", k, FALSE>> /\ UNCHANGED <<table, size>>
      /\ UNCHANGED probing

remove(k) ==
  LET pos == PositionToPut(table, k)
  IN  /\ \/ /\ Holds(table[pos], k)
            /\ table' = [table EXCEPT ![pos].empty = TRUE, ![pos].removed = TRUE]
            /\ size' = size - 1
            /\ returned' = <<"remove", k, TRUE>>
         \/ /\ ~Holds(table[pos], k)
            /\ returned' = <<"remove", k, FALSE>>
            /\ UNCHANGED <<table, size>>
      /\ UNCHANGED probing

get(k) ==
  LET slot == table[PositionToGet(table, k)]
  IN  /\ returned' = <<"get", k, IF Holds(slot, k) THEN slot.value ELSE None>>
      /\ UNCHANGED <<probing, table, size>>

\* If the table holds k, not behind a tombstone: the probing of put meets it.
Met(k) == k \in StoredKeys => Holds(table[PositionToPut(table, k)], k)

Next == \E k \in Keys :
  \/ ("put" \in Careful => Met(k)) /\ \E v \in Values : put(k, v)
  \/ ("remove" \in Careful => Met(k)) /\ remove(k)
  \/ get(k)

Spec == Init /\ [][Next]_vars
-----------------------------------------------------------------------------
\* The table implements a partial map, for callers that are careful with both:
\* whatever was stored, removed and moved by enlarging, get finds exactly the keys
\* stored, with their values.
ValueOf(k) == table[CHOOSE i \in Stored(table) : table[i].key = k].value
Contents == [k \in StoredKeys |-> ValueOf(k)]
D == INSTANCE Dictionary WITH map <- Contents
TableIsMap == D!Spec

\* A key that remove refuses and put accepts right after it is not in the table:
\* remove removes the key it is given, and put refuses a key that exists.  It is
\* what README.md of 05-hashtable says of any caller.
RefusedKeyIsAbsent ==
  [][\A k \in Keys :
       returned = <<"remove", k, FALSE>> /\ returned' = <<"put", k, TRUE>> => k \notin StoredKeys]_vars
=============================================================================
