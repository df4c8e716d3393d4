------------------------------ MODULE Debugger ------------------------------
(***************************************************************************)
(* The debugger snudbg (snudbg.c) and the process it traces.  The tracee   *)
(* is its memory of bytes and its instruction pointer; a byte is the name  *)
(* of an instruction, or anything for one that is never executed.  The     *)
(* kernel's part (ptrace, wait) is in the actions of the commands that     *)
(* call it.  Commands that only show something are left out, and so are    *)
(* addresses less than two words before the end of the mapped memory.      *)
(***************************************************************************)
EXTENDS Integers, Sequences, FiniteSetsExt

CONSTANTS
  Text,          \* the mapped memory at the start: 0..n-1 -> bytes
  Goes(_, _),    \* where control may go after an instruction, by place
  Trap, Halt,    \* the bytes of int3 (0xcc) and of the end of the program
  Word,          \* sizeof(long)
  MAX_BPS,
  Places,        \* where the user sets breakpoints
  Landings,      \* what the user sets rip to
  Writes         \* the writes of the user: pairs of an address and bytes

ASSUME TextAssumption == /\ Text = [x \in DOMAIN Text |-> Text[x]]
                         /\ DOMAIN Text \subseteq Int
                         /\ \A x \in DOMAIN Text : Text[x] # Trap
                         /\ Places \subseteq DOMAIN Text
ASSUME SizeAssumption == Word \in Nat \ {0} /\ MAX_BPS \in Nat
ASSUME WritesAssumption ==
  \A w \in Writes : /\ w[1] \in DOMAIN Text /\ Len(w[2]) \in Nat
                    /\ \A i \in 1..Len(w[2]) : w[2][i] # Trap

\* The bytes that may be at a place: the program's and the user's
BytesAt(x) == {Text[x]} \cup {w[2][x - w[1] + 1] : w \in {v \in Writes : x \in v[1]..v[1] + Len(v[2]) - 1}}

\* Control stays in the mapped memory, and comes to the byte behind a breakpoint
\* only from the place of the breakpoint.
ASSUME FlowAssumption ==
  /\ Trap # Halt /\ 0 \in DOMAIN Text /\ Landings \subseteq DOMAIN Text
  /\ \A x \in DOMAIN Text : \A b \in BytesAt(x) \ {Halt} :
       Goes(b, x) \subseteq {y \in DOMAIN Text : y - 1 \in Places => y - 1 = x}

VARIABLES
  mem, rip,      \* the tracee
  state,         \* "step", "run": the tracee runs; "stopped": the tracer is
                 \* to handle a stop; "prompt"; "exited", "quit"
  bps,           \* bps[0..num_bps-1], records [addr, orig_value]
  trapped        \* history: the stop is one of a trap, not of a single step

vars == <<mem, rip, state, bps, trapped>>

Listed(addr) == \E i \in DOMAIN bps : bps[i].addr = addr

-----------------------------------------------------------------------------
\* tracer begins with a single step.
Init == /\ mem = Text /\ rip = 0
        /\ state = "step"
        /\ bps = <<>>
        /\ trapped = FALSE

\* The tracee executes an instruction; a single step stops it.
Execute ==
  /\ state \in {"step", "run"} /\ mem[rip] \notin {Trap, Halt}
  /\ rip' \in Goes(mem[rip], rip)
  /\ state' = IF state = "step" THEN "stopped" ELSE "run"
  /\ UNCHANGED <<mem, bps, trapped>>

ExecuteTrap ==
  /\ state \in {"step", "run"} /\ mem[rip] = Trap
  /\ rip' = rip + 1
  /\ state' = "stopped"
  /\ trapped' = TRUE
  /\ UNCHANGED <<mem, bps>>

Exit == /\ state \in {"step", "run"} /\ mem[rip] = Halt
        /\ state' = "exited"
        /\ UNCHANGED <<mem, rip, bps, trapped>>

-----------------------------------------------------------------------------
\* The table when the entries behind i have moved up
Without(i) == [j \in 1..Len(bps) - 1 |-> IF j < i THEN bps[j] ELSE bps[j + 1]]

\* Mutant: rip is left behind the trap.
handle_break_post_behind ==
  LET hit == {i \in DOMAIN bps : rip = bps[i].addr + 1}
  IN  IF hit = {} THEN UNCHANGED <<mem, rip, bps>>
      ELSE LET i == Min(hit)
           IN  /\ mem' = [mem EXCEPT ![bps[i].addr] = bps[i].orig_value]
               /\ bps' = Without(i)
               /\ UNCHANGED rip

\* Mutant: the last entry is dropped instead of the one that fired.
handle_break_post_last ==
  LET hit == {i \in DOMAIN bps : rip = bps[i].addr + 1}
  IN  IF hit = {} THEN UNCHANGED <<mem, rip, bps>>
      ELSE LET i == Min(hit)
           IN  /\ rip' = bps[i].addr
               /\ mem' = [mem EXCEPT ![bps[i].addr] = bps[i].orig_value]
               /\ bps' = Without(Len(bps))

\* After any stop: the first breakpoint that rip is just behind, if any, has
\* fired; its byte is restored and the breakpoint is gone.
handle_break_post ==
  LET hit == {i \in DOMAIN bps : rip = bps[i].addr + 1}
  IN  IF hit = {} THEN UNCHANGED <<mem, rip, bps>>
      ELSE LET i == Min(hit)
           IN  /\ rip' = bps[i].addr
               /\ mem' = [mem EXCEPT ![bps[i].addr] = bps[i].orig_value]
               /\ bps' = Without(i)

\* tracer: wait returns, the stop is handled and the user is asked
Stop == /\ state = "stopped"
        /\ handle_break_post
        /\ state' = "prompt"
        /\ trapped' = FALSE

\* prompt_user: the commands that change something
Step     == state = "prompt" /\ state' = "step" /\ UNCHANGED <<mem, rip, bps, trapped>>
Continue == state = "prompt" /\ state' = "run"  /\ UNCHANGED <<mem, rip, bps, trapped>>
Quit     == state = "prompt" /\ state' = "quit" /\ UNCHANGED <<mem, rip, bps, trapped>>

\* handle_set of rip
Set(value) == /\ state = "prompt"
              /\ rip' = value
              /\ UNCHANGED <<mem, state, bps, trapped>>

\* handle_break: the byte at addr is kept, and int3 put in its place.
Break(addr) ==
  /\ state = "prompt"
  /\ Len(bps) < MAX_BPS
  /\ bps' = Append(bps, [addr |-> addr, orig_value |-> mem[addr]])
  /\ mem' = [mem EXCEPT ![addr] = Trap]
  /\ UNCHANGED <<rip, state, trapped>>

\* handle_write: the bytes are filled up with those behind them to whole
\* words, and to one word more if they are whole words.
Write(addr, bytes) ==
  LET len == Len(bytes)
      buf == [x \in addr..addr + Word * (len \div Word + 1) - 1 |->
                IF x < addr + len THEN bytes[x - addr + 1] ELSE mem[x]]
  IN  /\ state = "prompt"
      /\ mem' = [x \in DOMAIN mem |-> IF x \in DOMAIN buf THEN buf[x] ELSE mem[x]]
      /\ UNCHANGED <<rip, state, bps, trapped>>

\* How a careful user uses it: a place has one breakpoint, and bytes under a
\* breakpoint are not written.
Careful(addr, n) == \A x \in addr..addr + n - 1 : ~Listed(x)

Over == state \in {"exited", "quit"}

Next == \/ Execute \/ ExecuteTrap \/ Exit \/ Stop
        \/ Step \/ Continue \/ Quit
        \/ \E value \in Landings : Set(value)
        \/ \E addr \in Places : Careful(addr, 1) /\ Break(addr)
        \/ \E w \in Writes : Careful(w[1], Len(w[2])) /\ Write(w[1], w[2])
        \/ Over /\ UNCHANGED vars

Spec == Init /\ [][Next]_vars

-----------------------------------------------------------------------------
\* What the program looks like under the breakpoints: the bytes they replace
\* are those of the program, and a trap has not happened.
textBar == [x \in DOMAIN mem |->
              IF Listed(x) THEN bps[Min({i \in DOMAIN bps : bps[i].addr = x})].orig_value
              ELSE mem[x]]
pcBar   == IF trapped THEN rip - 1 ELSE rip

Program == INSTANCE TracedProgram
             WITH text <- textBar, pc <- pcBar, ended <- state = "exited"

\* The breakpoints in the table are those in memory: each has its trap in
\* place and is there once, and no trap is without an entry to undo it.
BreakpointsArmed ==
  /\ \A x \in DOMAIN mem : mem[x] = Trap <=> Listed(x)
  /\ \A i, j \in DOMAIN bps : bps[i].addr = bps[j].addr => i = j

\* The debugger does not show through: whatever is stepped, continued and
\* broken into, the tracee runs the instructions that the program has, each
\* once, and only write changes its bytes and only set its pointer.
ProgramStep == \/ Program!Run \/ Program!End
               \/ state = "prompt" /\ Program!SetPc
               \/ state = "prompt" /\ \E w \in Writes : Program!Write(w[1], w[2])
ImplementsProgram == [][ProgramStep]_<<textBar, pcBar, state = "exited">>
=============================================================================
