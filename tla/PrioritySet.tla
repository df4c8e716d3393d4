---------------------------- MODULE PrioritySet ----------------------------
(***************************************************************************)
(* What the ready bitmap of core/scheduler.c promises: a set of priorities *)
(* with insertion, removal and a query for the most urgent member (the     *)
(* smallest number).                                                       *)
(***************************************************************************)
EXTENDS Integers

CONSTANT Universe      \* the priorities that are ever made ready

VARIABLES ready,       \* the set of ready priorities
          highest      \* the answer of the last query, -1 before the first

Init == ready = {} /\ highest = -1

Add(p)    == ready' = ready \cup {p} /\ UNCHANGED highest
Remove(p) == ready' = ready \ {p}    /\ UNCHANGED highest

\* Only a non-empty set has a most urgent member.
Query ==
  \E p \in ready : /\ \A q \in ready : p <= q
                   /\ highest' = p
                   /\ UNCHANGED ready

Next == (\E p \in Universe : Add(p) \/ Remove(p)) \/ Query

Spec == Init /\ [][Next]_<<ready, highest>>
=============================================================================
