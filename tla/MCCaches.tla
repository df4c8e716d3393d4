------------------------------ MODULE MCCaches -----------------------------
(***************************************************************************)
(* One set per cache, of two ways, and of one in the first of two levels:  *)
(* three lines conflict in every cache, so that lines are evicted dirty,   *)
(* clean, and from below, and a dirty line leaves l1d for an l2 that still *)
(* has it.  One request at a time has two lines stored to and one that is  *)
(* also code; requests that overlap use each line in one way.              *)
(***************************************************************************)
EXTENDS MemoryHierarchy

MCAccesses == [s \in BOOLEAN |->
                 IF s THEN {<<1, "store">>, <<2, "store">>, <<3, "fetch">>, <<1, "ifetch">>}
                 ELSE {<<1, "store">>, <<2, "fetch">>, <<3, "ifetch">>}]
MCModes    == {"dram", "single", "multi"}
MCSets     == [c \in Caches |-> 1]
MCAssoc    == [l1u |-> 2, l1d |-> 1, l1i |-> 1, l2 |-> 2]
MCLatency  == [l1u |-> 1, l1d |-> 1, l1i |-> 1, l2 |-> 2, dram |-> 2]
MCMaxLru   == [s \in BOOLEAN |-> IF s THEN 3 ELSE 2]
=============================================================================
