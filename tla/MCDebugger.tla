----------------------------- MODULE MCDebugger -----------------------------
(***************************************************************************)
(* A loop with a two-byte instruction, a one-byte one and a branch, which  *)
(* ends at 5; the user may replace the one-byte instruction by a jump to   *)
(* the start, and uses at most two breakpoints, in words of two bytes.     *)
(***************************************************************************)
EXTENDS Debugger

MCText == [x \in 0..9 |-> CASE x = 0 -> "mov" [] x = 2 -> "nop" [] x = 3 -> "jne"
                            [] x = 5 -> "hlt" [] OTHER -> "data"]
MCGoes(byte, x) == CASE byte = "mov" -> {x + 2}
                     [] byte = "nop" -> {x + 1}
                     [] byte = "jne" -> {0, x + 2}
                     [] OTHER        -> {0}
MCPlaces == {0, 2, 3, 5}
MCWrites == {<<2, <<"jmp">>>>, <<2, <<"nop">>>>, <<5, <<"hlt", "new">>>>, <<6, <<"data">>>>}
=============================================================================
