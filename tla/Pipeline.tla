------------------------------ MODULE Pipeline ------------------------------
(***************************************************************************)
(* The pipelined processors of Lab2 and Lab3: fetch, decode, execute,      *)
(* memory and write back, with the pipeline registers between them.  Lab2  *)
(* resolves a branch in EX; Lab3 predicts in IF and resolves in MEM.       *)
(*                                                                         *)
(* A step is a clock.  The register file and the data memory are written   *)
(* at its falling edge, everything else at its rising edge.  Operators     *)
(* named like wires are what these wires carry at the rising edge.         *)
(*                                                                         *)
(* The direction a predictor says is arbitrary.  The branch target buffer  *)
(* is the code's: its targets decide how a misprediction is noticed.       *)
(***************************************************************************)
EXTENDS Rv32

CONSTANTS Regs, Data,
          BtbSize             \* NUM_ENTRIES of the branch target buffer

VARIABLES inst_memory,
          predicting,         \* TRUE for Lab3
          PC,
          ifid, idex, exmem, memwb,   \* the pipeline registers
          reg_array, mem_array,
          BTB                 \* by index: the PC a target is stored for, and the target
vars == <<inst_memory, predicting, PC, ifid, idex, exmem, memwb, reg_array, mem_array, BTB>>

Zero == [op |-> "none", rd |-> 0, rs1 |-> 0, rs2 |-> 0, imm |-> 0, bit30 |-> FALSE]
NoTarget == [pc |-> -1, target |-> 0]

Init == /\ PC = 0
        /\ ifid = [PC |-> 0, instr |-> Zero, predict |-> 0]
        /\ idex = [PC |-> 0, instr |-> Zero, data1 |-> 0, data2 |-> 0, predict |-> 0]
        /\ exmem = [PC |-> 0, instr |-> Zero, target |-> 0, taken |-> FALSE,
                    result |-> 0, writedata |-> 0, predict |-> 0]
        /\ memwb = [PC |-> 0, instr |-> Zero, readdata |-> 0, result |-> 0]
        /\ reg_array = Regs /\ mem_array = Data
        /\ BTB = [k \in 0..BtbSize - 1 |-> NoTarget]
-----------------------------------------------------------------------------
(* Write back, memory and execute *)

write_data == IF Jump(memwb.instr) THEN Plus(memwb.PC, 1)
              ELSE IF MemRead(memwb.instr) THEN memwb.readdata
              ELSE memwb.result

\* The two memories behind the falling edge
RegsNow == Written(reg_array, memwb.instr, write_data)
DataNow == Stored(mem_array, exmem.instr, exmem.result, exmem.writedata)

\* Mutant: an older result wins over a newer one
ForwardedOldest(r, readdata) ==
  IF r # 0 /\ r = memwb.instr.rd /\ RegWrite(memwb.instr) THEN write_data
  ELSE IF r # 0 /\ r = exmem.instr.rd /\ RegWrite(exmem.instr) THEN exmem.result
  ELSE readdata

\* The forwarding unit: the value of register r in EX, read from the file as readdata
Forwarded(r, readdata) ==
  IF r # 0 /\ r = exmem.instr.rd /\ RegWrite(exmem.instr) THEN exmem.result
  ELSE IF r # 0 /\ r = memwb.instr.rd /\ RegWrite(memwb.instr) THEN write_data
  ELSE readdata

ex_forwardedA == Forwarded(idex.instr.rs1, idex.data1)
ex_forwardedB == Forwarded(idex.instr.rs2, idex.data2)
ex_alu_result == AluResult(idex.instr, ex_forwardedA, ex_forwardedB)
ex_pc_target  == IF idex.instr.op = "jalr" THEN ex_alu_result ELSE Plus(idex.PC, idex.instr.imm)
ex_taken      == Taken(idex.instr, ex_forwardedA, ex_forwardedB)
-----------------------------------------------------------------------------
(* Hazards *)

\* Lab3: a prediction, in MEM, that was wrong in either way
NotFollowed == (Jump(exmem.instr) \/ exmem.taken) /\ exmem.target # exmem.predict
mem_false_taken == /\ Branch(exmem.instr) /\ ~exmem.taken
                   /\ exmem.target = exmem.predict

flush == IF predicting THEN NotFollowed \/ mem_false_taken ELSE Jump(idex.instr) \/ ex_taken
recovery == IF ~predicting THEN ex_pc_target
            ELSE IF NotFollowed THEN exmem.target ELSE Plus(exmem.PC, 1)

\* Mutant: a bubble stalls the decoder as long as it has the same registers
stallWhoever == ~flush /\ idex.instr.rd \in {ifid.instr.rs1, ifid.instr.rs2}
stall == ~flush /\ idex.instr.rd \in {ifid.instr.rs1, ifid.instr.rs2} /\ MemRead(idex.instr)

instruction == inst_memory[PC]
hit == BTB[PC % BtbSize].pc = PC

NEXT_PC(pred) == IF flush THEN recovery
                 ELSE IF stall THEN PC
                 ELSE IF predicting /\ (Jump(instruction) \/ (Branch(instruction) /\ pred)) /\ hit
                      THEN BTB[PC % BtbSize].target
                 ELSE Plus(PC, 1)

-----------------------------------------------------------------------------
(* What the pipeline registers and the branch target buffer take over *)

ifid_reg(pred) ==
  IF flush THEN [PC |-> PC, instr |-> Zero, predict |-> NEXT_PC(pred)]
  ELSE IF stall THEN ifid
  ELSE [PC |-> PC, instr |-> instruction, predict |-> NEXT_PC(pred)]

idex_reg ==
  [PC |-> ifid.PC,
   instr |-> IF flush \/ stall THEN Nothing(ifid.instr) ELSE ifid.instr,
   data1 |-> RegsNow[ifid.instr.rs1], data2 |-> RegsNow[ifid.instr.rs2],
   predict |-> ifid.predict]

\* Lab2 has resolved the branch in EX and lets it go on; Lab3 flushes EX, too.
exmem_reg ==
  [PC |-> idex.PC,
   instr |-> IF predicting /\ flush THEN Nothing(idex.instr) ELSE idex.instr,
   target |-> ex_pc_target,
   taken |-> ~(predicting /\ flush) /\ ex_taken,
   result |-> IF predicting /\ Jump(idex.instr) THEN Plus(idex.PC, 1) ELSE ex_alu_result,
   writedata |-> ex_forwardedB,
   predict |-> idex.predict]

memwb_reg ==
  [PC |-> exmem.PC, instr |-> exmem.instr,
   readdata |-> IF MemRead(exmem.instr) THEN DataNow[exmem.result % Cells] ELSE 0,
   result |-> exmem.result]

BTBNext == IF predicting /\ (Jump(exmem.instr) \/ exmem.taken)
           THEN [BTB EXCEPT ![exmem.PC % BtbSize] = [pc |-> exmem.PC, target |-> exmem.target]]
           ELSE BTB

Clock ==
  /\ \E pred \in BOOLEAN : PC' = NEXT_PC(pred) /\ ifid' = ifid_reg(pred)
  /\ idex' = idex_reg /\ exmem' = exmem_reg /\ memwb' = memwb_reg
  /\ reg_array' = RegsNow /\ mem_array' = DataNow
  /\ BTB' = BTBNext
  /\ UNCHANGED <<inst_memory, predicting>>

Spec == Init /\ [][Clock]_vars
-----------------------------------------------------------------------------
(* Properties *)

\* An instruction counts as executed when it leaves MEM: the next one to execute
\* is the oldest that has not, and the registers are those behind the write back.
NextToExecute == IF Real(exmem.instr) THEN exmem.PC
                 ELSE IF Real(idex.instr) THEN idex.PC
                 ELSE IF Real(ifid.instr) THEN ifid.PC
                 ELSE PC

\* Whatever depends on what, and whatever the predictor says, the pipeline executes
\* the program one instruction after the other: no forwarded value is stale, and
\* nothing behind a wrong prediction leaves a trace.
M == INSTANCE Machine WITH pc <- NextToExecute, regs <- RegsNow, data <- mem_array
ImplementsMachine == M!Spec

\* Stalls and flushes end: instructions keep leaving the pipeline.
InstructionsComplete == []<>Real(memwb.instr)
=============================================================================
