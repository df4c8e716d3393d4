-------------------------- MODULE BitmapScheduler --------------------------
(***************************************************************************)
(* The ready bitmap as a state machine: every sequence of calls of         *)
(* _os_set_ready, _os_unset_ready and _os_get_highest_priority.            *)
(***************************************************************************)
EXTENDS ReadyBitmap

CONSTANT Universe      \* the priorities passed to the operations
UniverseInPriorities == Universe \subseteq Priorities

VARIABLES bm,          \* _os_ready_group and _os_ready_table
          highest      \* what the last _os_get_highest_priority returned
vars == <<bm, highest>>

Init == bm = EmptyBitmap /\ highest = -1      \* _os_init_scheduler

Set(p)   == bm' = SetReady(bm, p)   /\ UNCHANGED highest
Unset(p) == bm' = UnsetReady(bm, p) /\ UNCHANGED highest

\* The kernel asks only while something is ready (the idle task always is).
Highest == /\ ReadySet(bm) # {}
           /\ highest' = HighestPriority(bm)
           /\ UNCHANGED bm

Next == (\E p \in Universe : Set(p) \/ Unset(p)) \/ Highest

Spec == Init /\ [][Next]_vars
-----------------------------------------------------------------------------
\* The group byte and the table agree after every call, so that
\* _os_get_highest_priority never follows a group bit to an empty byte and
\* never misses a byte (scheduler.c, _os_set_ready and _os_unset_ready).
GroupMatchesTable == bm \in Bitmaps /\ GroupAgrees(bm)

\* The bitmap implements a set of priorities with minimum.
Abstract == INSTANCE PrioritySet WITH ready <- ReadySet(bm)
ImplementsPrioritySet == Abstract!Spec

=============================================================================
