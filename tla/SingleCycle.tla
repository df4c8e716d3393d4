---------------------------- MODULE SingleCycle -----------------------------
(***************************************************************************)
(* The processor of Lab1.  A clock writes the register file and the data   *)
(* memory at its falling edge and the program counter at its rising edge,  *)
(* half a cycle later, when the register file already shows the new value. *)
(***************************************************************************)
EXTENDS Rv32

CONSTANTS Regs, Data
VARIABLES inst_memory, PC, reg_array, mem_array
vars == <<inst_memory, PC, reg_array, mem_array>>

Init == PC = 0 /\ reg_array = Regs /\ mem_array = Data

\* NEXT_PC, from what the register file shows at the rising edge
NEXT_PC(i, regs) ==
  IF i.op = "jalr" THEN Plus(regs[i.rs1], i.imm)
  ELSE IF Jump(i) \/ Taken(i, regs[i.rs1], regs[i.rs2]) THEN Plus(PC, i.imm)
  ELSE Plus(PC, 1)

Clock ==
  LET i == inst_memory[PC]
      alu_out == AluResult(i, reg_array[i.rs1], reg_array[i.rs2])
      write_data == IF Jump(i) THEN Plus(PC, 1)
                    ELSE IF MemRead(i) THEN mem_array[alu_out % Cells] ELSE alu_out
  IN  /\ reg_array' = Written(reg_array, i, write_data)
      /\ mem_array' = Stored(mem_array, i, alu_out, reg_array[i.rs2])
      /\ PC' = NEXT_PC(i, reg_array')
      /\ UNCHANGED inst_memory

Spec == Init /\ [][Clock]_vars
-----------------------------------------------------------------------------
\* The processor executes one instruction after the other: what a falling edge
\* writes does not disturb the rest of the cycle.
M == INSTANCE Machine WITH pc <- PC, regs <- reg_array, data <- mem_array
ImplementsMachine == M!Spec
=============================================================================
