---------------------------- MODULE TracedProgram ---------------------------
(***************************************************************************)
(* What a user of the debugger expects to look at: the program by itself,  *)
(* whose instructions run as written, and whose memory and instruction     *)
(* pointer change only by them and by the user's own commands.             *)
(***************************************************************************)
EXTENDS Integers, Sequences

CONSTANTS Goes(_, _), Halt

VARIABLES text, pc, ended

Run == /\ ~ended /\ text[pc] # Halt
       /\ pc' \in Goes(text[pc], pc)
       /\ UNCHANGED <<text, ended>>

End == /\ ~ended /\ text[pc] = Halt
       /\ ended' = TRUE
       /\ UNCHANGED <<text, pc>>

SetPc == pc' \in DOMAIN text /\ ~ended /\ UNCHANGED <<text, ended>>

\* A write changes the bytes from a on to the given ones, and nothing else.
Write(a, bytes) ==
  /\ ~ended
  /\ text' = [x \in DOMAIN text |-> IF x \in a..a + Len(bytes) - 1 THEN bytes[x - a + 1] ELSE text[x]]
  /\ UNCHANGED <<pc, ended>>
=============================================================================
