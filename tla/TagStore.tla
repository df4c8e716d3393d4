------------------------------ MODULE TagStore ------------------------------
(***************************************************************************)
(* cache_base/cache_base.cc: a set-associative tag store.  A store maps a  *)
(* set's index to its entries and to its LRU list, the most recent way     *)
(* first.  An address is its line number, the offset within a line being   *)
(* ignored by every operation; line 0 is also the code's "no victim".      *)
(* Statistics are left out.                                                *)
(***************************************************************************)
EXTENDS Integers, Sequences, FiniteSets, SequencesExt

NoVictim == 0

EmptyStore(sets, assoc) ==
  [s \in 0..sets - 1 |->
     [entry |-> [w \in 0..assoc - 1 |->
                   [valid |-> FALSE, dirty |-> FALSE, line |-> 0]],
      lru |-> <<>>]]

SetOf(store, line) == store[line % Cardinality(DOMAIN store)]

Holders(set, line) == {w \in DOMAIN set.entry :
                         set.entry[w].valid /\ set.entry[w].line = line}

Invalid(set) == {w \in DOMAIN set.entry : ~set.entry[w].valid}

\* A hit moves the way to the front, except for a write-back, and a write or
\* a write-back dirties the entry.
HitIn(set, way, type) ==
  [entry |-> [set.entry EXCEPT ![way].dirty = @ \/ type \in {"store", "wb"}],
   lru   |-> IF type = "wb" THEN set.lru ELSE <<way>> \o RemoveFirst(set.lru, way)]

\* Mutant: the way keeps its place in the LRU list when it is filled.
FillWithoutTouch(set, line, type) ==
  LET free == Invalid(set)
      way  == IF free # {} THEN Max(free) ELSE Last(set.lru)
      old  == set.entry[way]
  IN  [set |-> [entry |-> [set.entry EXCEPT ![way] =
                             [valid |-> TRUE, dirty |-> type = "store", line |-> line]],
                lru |-> IF free # {} THEN <<way>> \o set.lru ELSE Front(set.lru)],
       victim  |-> IF free = {} THEN old.line ELSE NoVictim,
       dvictim |-> IF free = {} /\ old.dirty THEN old.line ELSE NoVictim]

\* A miss of a fill takes the last invalid way, or else evicts the last of
\* the LRU list; a write-back that misses leaves the line clean.
FillIn(set, line, type) ==
  LET free == Invalid(set)
      way  == IF free # {} THEN Max(free) ELSE Last(set.lru)
      old  == set.entry[way]
  IN  [set |-> [entry |-> [set.entry EXCEPT ![way] =
                             [valid |-> TRUE, dirty |-> type = "store", line |-> line]],
                lru |-> <<way>> \o (IF free # {} THEN set.lru ELSE Front(set.lru))],
       victim  |-> IF free = {} THEN old.line ELSE NoVictim,
       dvictim |-> IF free = {} /\ old.dirty THEN old.line ELSE NoVictim]

\* cache_base_c::access
AccessStore(store, line, type, isFill) ==
  LET s   == line % Cardinality(DOMAIN store)
      hit == Holders(store[s], line)
      new == FillIn(store[s], line, type)
  IN  CASE hit # {} ->
             [hit |-> TRUE, victim |-> NoVictim, dvictim |-> NoVictim,
              store |-> [store EXCEPT ![s] = HitIn(@, Min(hit), type)]]
        [] hit = {} /\ isFill ->
             [hit |-> FALSE, victim |-> new.victim, dvictim |-> new.dvictim,
              store |-> [store EXCEPT ![s] = new.set]]
        [] OTHER ->
             [hit |-> FALSE, victim |-> NoVictim, dvictim |-> NoVictim,
              store |-> store]

Dirty(store, line) ==
  \E w \in Holders(SetOf(store, line), line) : SetOf(store, line).entry[w].dirty

Holds(store, line) == Holders(SetOf(store, line), line) # {}

\* cache_base_c::back_invalidation: the line is no longer valid or dirty; its
\* way stays in the LRU list.
BackInvalidate(store, line) ==
  [store EXCEPT ![line % Cardinality(DOMAIN store)].entry =
     [w \in DOMAIN @ |-> IF @[w].valid /\ @[w].line = line
                         THEN [@[w] EXCEPT !.valid = FALSE, !.dirty = FALSE]
                         ELSE @[w]]]
=============================================================================
