------------------------------ MODULE Machine -------------------------------
(***************************************************************************)
(* What a processor promises: it executes its program one instruction      *)
(* after the other.                                                        *)
(***************************************************************************)
EXTENDS Rv32

CONSTANTS Regs, Data           \* the registers and the data memory at first

VARIABLES inst_memory,         \* the program
          pc, regs, data
vars == <<inst_memory, pc, regs, data>>

Init == pc = 0 /\ regs = Regs /\ data = Data

Execute ==
  LET i == inst_memory[pc]
      a == regs[i.rs1]
      b == regs[i.rs2]
      address == AluResult(i, a, b)
  IN  /\ regs' = Written(regs, i, IF Jump(i) THEN Plus(pc, 1)
                                  ELSE IF MemRead(i) THEN data[address % Cells]
                                  ELSE address)
      /\ data' = Stored(data, i, address, b)
      /\ pc' = IF i.op = "jalr" THEN Plus(a, i.imm)
               ELSE IF Jump(i) \/ Taken(i, a, b) THEN Plus(pc, i.imm)
               ELSE Plus(pc, 1)
      /\ UNCHANGED inst_memory

Spec == Init /\ [][Execute]_vars
=============================================================================
