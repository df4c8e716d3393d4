-------------------------- MODULE ProcessorProofs ---------------------------
(***************************************************************************)
(* The processors implement the machine, for every program of the          *)
(* instructions modelled, word size, register file, memory, branch target  *)
(* buffer and predictor.                                                   *)
(***************************************************************************)
EXTENDS MCProcessors, TLAPS

Program == inst_memory \in [Words -> Pool[lab] \cup {Nop}] /\ lab \in Labs

LEMMA Remainder ==
  ASSUME NEW x \in Int, NEW m \in Nat, m >= 1
  PROVE  x % m \in 0..m - 1
  OBVIOUS

LEMMA Numbers ==
  /\ Wrap \in Nat /\ Wrap >= 1 /\ Cells \in Nat /\ Cells >= 1 /\ BtbSize \in Nat /\ BtbSize >= 1
  /\ 0 \in Words /\ \A a \in Words : a \in Int
  /\ \A a \in Int : a % Wrap \in Words /\ a % Cells \in 0..Cells - 1 /\ a % BtbSize \in 0..BtbSize - 1
<1>1. Wrap \in Nat /\ Wrap >= 1 /\ Cells \in Nat /\ Cells >= 1 /\ BtbSize \in Nat /\ BtbSize >= 1
  BY ProcessorAssumption
<1>2. \A a \in Int : a % Wrap \in Words /\ a % Cells \in 0..Cells - 1 /\ a % BtbSize \in 0..BtbSize - 1
  BY <1>1, Remainder DEF Words
<1>. QED
  BY <1>1, <1>2 DEF Words

\* Sums and results are words.
LEMMA Sums ==
  ASSUME NEW a \in Words, NEW b \in Words, NEW i, i.imm \in Words
  PROVE  /\ L1!Plus(a, b) \in Words /\ L1!Plus(a, 1) \in Words /\ L1!AluResult(i, a, b) \in Words
         /\ L3!Plus(a, b) \in Words /\ L3!Plus(a, 1) \in Words /\ L3!AluResult(i, a, b) \in Words
<1>1. \A x, y \in Words : (x + y) % Wrap \in Words /\ (x - y) % Wrap \in Words
  <2>1. \A x, y \in Words : x + y \in Int /\ x - y \in Int
    BY Numbers
  <2>. QED BY <2>1, Numbers
<1>2. (a + 1) % Wrap \in Words
  <2>1. a + 1 \in Int
    BY Numbers
  <2>. QED BY <2>1, Numbers
<1>. QED
  BY <1>1, <1>2 DEF L1!Plus, L1!Minus, L1!AluResult, L3!Plus, L3!Minus, L3!AluResult

\* What a program is made of
LEMMA Fetches ==
  ASSUME Program, NEW pc \in Words
  PROVE  /\ inst_memory[pc] \in Instructions
         /\ inst_memory[pc].op = "jalr" =>
              /\ lab = 1 => inst_memory[pc].rd = 0 \/ inst_memory[pc].rd # inst_memory[pc].rs1
              /\ lab # 1 => ~inst_memory[pc].bit30
<1>1. PICK i : i = inst_memory[pc]
  OBVIOUS
<1>2. i \in Pool[lab] \/ i = Nop
  BY <1>1 DEF Program
<1>3. CASE i = Nop
  <2>1. Nop \in Instructions /\ Nop.op # "jalr"
    BY ProcessorAssumption, Numbers DEF Nop, Instructions, Registers
  <2>. QED BY <1>1, <1>3, <2>1
<1>4. CASE i \in Pool[lab]
  <2>1. lab \in Labs
    BY DEF Program
  <2>2. i \in Instructions
    BY <1>4, <2>1, ProcessorAssumption
  <2>3. i.op = "jalr" => IF lab = 1 THEN i.rd = 0 \/ i.rd # i.rs1 ELSE ~i.bit30
    BY <1>4, <2>1, JalrAssumption
  <2>. QED BY <1>1, <2>2, <2>3
<1>. QED
  BY <1>2, <1>3, <1>4

-----------------------------------------------------------------------------
(* Lab1 *)

SingleOK == /\ Program
            /\ lab = 1 => /\ pc1 \in Words
                          /\ regs1 \in [Registers -> Words]
                          /\ data1 \in [0..Cells - 1 -> Words]

LEMMA SingleStep ==
  ASSUME SingleOK, lab = 1, L1!Clock
  PROVE  L1!M!Execute /\ pc1' \in Words /\ regs1' \in [Registers -> Words] /\ data1' \in [0..Cells - 1 -> Words]
<1>1. PICK i : i = inst_memory[pc1]
  OBVIOUS
<1>2. pc1 \in Words /\ regs1 \in [Registers -> Words] /\ data1 \in [0..Cells - 1 -> Words]
  BY DEF SingleOK
<1>3. i \in Instructions /\ (i.op = "jalr" => i.rd = 0 \/ i.rd # i.rs1)
  BY <1>1, <1>2, Fetches DEF SingleOK
<1>4. i.rd \in Registers /\ i.rs1 \in Registers /\ i.rs2 \in Registers /\ i.imm \in Words
  BY <1>3 DEF Instructions
<1>5. PICK a : a = regs1[i.rs1]
  OBVIOUS
<1>6. PICK b : b = regs1[i.rs2]
  OBVIOUS
<1>7. a \in Words /\ b \in Words
  BY <1>2, <1>4, <1>5, <1>6
<1>8. PICK address : address = L1!AluResult(i, a, b)
  OBVIOUS
<1>9. address \in Words
  BY <1>4, <1>7, <1>8, Sums
<1>10. PICK value : value = IF L1!Jump(i) THEN L1!Plus(pc1, 1) ELSE IF L1!MemRead(i) THEN data1[address % Cells] ELSE address
  OBVIOUS
<1>11. value \in Words
  <2>1. L1!Plus(pc1, 1) \in Words
    BY <1>2, <1>4, Sums
  <2>2. data1[address % Cells] \in Words
    BY <1>2, <1>9, Numbers
  <2>. QED BY <1>9, <1>10, <2>1, <2>2
<1>12. /\ regs1' = L1!Written(regs1, i, value)
       /\ data1' = L1!Stored(data1, i, address, b)
       /\ pc1' = L1!NEXT_PC(i, regs1')
       /\ UNCHANGED inst_memory
  BY <1>1, <1>5, <1>6, <1>8, <1>10 DEF L1!Clock
<1>13. i.op = "jalr" => regs1'[i.rs1] = a
  BY <1>2, <1>3, <1>4, <1>5, <1>12 DEF L1!Written
<1>14. i.op \in {"beq", "bne"} => regs1' = regs1
  BY <1>12 DEF L1!Written, L1!RegWrite
<1>15. pc1' = IF i.op = "jalr" THEN L1!Plus(a, i.imm)
              ELSE IF L1!Jump(i) \/ L1!Taken(i, a, b) THEN L1!Plus(pc1, i.imm) ELSE L1!Plus(pc1, 1)
  BY <1>5, <1>6, <1>12, <1>13, <1>14 DEF L1!NEXT_PC, L1!Taken
<1>16. L1!M!Execute
  BY <1>1, <1>5, <1>6, <1>8, <1>10, <1>12, <1>15
     DEF L1!M!Execute, L1!M!AluResult, L1!M!Plus, L1!M!Minus, L1!M!Jump, L1!M!MemRead, L1!M!MemWrite, L1!M!Taken,
         L1!M!Written, L1!M!Stored, L1!M!RegWrite, L1!M!Subtracts,
         L1!AluResult, L1!Plus, L1!Minus, L1!Jump, L1!MemRead, L1!MemWrite, L1!Taken, L1!Written, L1!Stored,
         L1!RegWrite, L1!Subtracts
<1>17. pc1' \in Words
  <2>1. L1!Plus(a, i.imm) \in Words /\ L1!Plus(pc1, i.imm) \in Words /\ L1!Plus(pc1, 1) \in Words
    BY <1>2, <1>4, <1>7, Sums
  <2>. QED BY <1>15, <2>1
<1>18. regs1' \in [Registers -> Words]
  BY <1>2, <1>4, <1>11, <1>12 DEF L1!Written
<1>19. data1' \in [0..Cells - 1 -> Words]
  BY <1>2, <1>7, <1>9, <1>12, Numbers DEF L1!Stored
<1>. QED
  BY <1>16, <1>17, <1>18, <1>19

-----------------------------------------------------------------------------
(* The pipelines: the invariant *)

\* An instruction, or what a flush or a stall has left of one
InFlight ==
  [op : {"add", "sub", "addi", "lw", "sw", "beq", "bne", "jal", "jalr", "none"},
   rd : Registers, rs1 : Registers, rs2 : Registers, imm : Words, bit30 : BOOLEAN]

PipeTypes ==
  /\ predicting \in BOOLEAN /\ PC \in Words
  /\ ifid \in [PC : Words, instr : InFlight, predict : Words]
  /\ idex \in [PC : Words, instr : InFlight, data1 : Words, data2 : Words, predict : Words]
  /\ exmem \in [PC : Words, instr : InFlight, target : Words, taken : BOOLEAN,
                result : Words, writedata : Words, predict : Words]
  /\ memwb \in [PC : Words, instr : InFlight, readdata : Words, result : Words]
  /\ reg_array \in [Registers -> Words] /\ mem_array \in [0..Cells - 1 -> Words]
  /\ BTB \in [0..BtbSize - 1 -> [pc : Int, target : Words]]

\* What is in the pipeline comes from the program.
Fetched ==
  /\ L3!Real(ifid.instr) => ifid.instr = inst_memory[ifid.PC]
  /\ L3!Real(idex.instr) => idex.instr = inst_memory[idex.PC]
  /\ L3!Real(exmem.instr) => exmem.instr = inst_memory[exmem.PC]

\* The instruction behind the one in EX, and behind the one in MEM
BehindEx == IF L3!Real(ifid.instr) THEN ifid.PC ELSE PC
BehindMem == IF L3!Real(idex.instr) THEN idex.PC ELSE BehindEx

\* Where the instruction in MEM leads
Leads == IF L3!Jump(exmem.instr) \/ exmem.taken THEN exmem.target ELSE L3!Plus(exmem.PC, 1)

\* Behind each instruction is the one that was predicted, but in Lab2, which
\* has set right what follows the one in MEM.
InLine ==
  /\ L3!Real(ifid.instr) => PC = ifid.predict
  /\ L3!Real(idex.instr) => BehindEx = idex.predict
  /\ L3!Real(exmem.instr) => BehindMem = IF predicting THEN exmem.predict ELSE Leads

\* A prediction is one of the two ways of a branch, or the only way of an
\* instruction that is neither branch nor jump.
Guess(predicts, i, pc, guess) ==
  guess = L3!Plus(pc, 1) \/ (predicts /\ L3!Jump(i)) \/ (predicts /\ L3!Branch(i) /\ guess = L3!Plus(pc, i.imm))

Guesses ==
  /\ L3!Real(ifid.instr) => Guess(predicting, ifid.instr, ifid.PC, ifid.predict)
  /\ L3!Real(idex.instr) => Guess(predicting, idex.instr, idex.PC, idex.predict)
  /\ L3!Real(exmem.instr) /\ predicting => Guess(TRUE, exmem.instr, exmem.PC, exmem.predict)

\* The buffer's target of a branch is the branch's.
Targets ==
  \A k \in 0..BtbSize - 1 : BTB[k].pc \in Words /\ L3!Branch(inst_memory[BTB[k].pc]) =>
    BTB[k].target = L3!Plus(BTB[k].pc, inst_memory[BTB[k].pc].imm)

\* What is in EX has read the register file as it is; what it has not seen there
\* can be forwarded, for no load stands right before it that it depends on, and no
\* jump of Lab2.
Operands ==
  L3!Real(idex.instr) =>
    /\ idex.data1 = reg_array[idex.instr.rs1] /\ idex.data2 = reg_array[idex.instr.rs2]
    /\ L3!MemRead(exmem.instr) => exmem.instr.rd \notin {idex.instr.rs1, idex.instr.rs2}
    /\ L3!Jump(exmem.instr) => predicting

\* What is in MEM was computed from the registers as they are when it is its turn.
Computed(predicts, i, pc, regs, target, taken, result, writedata) ==
  /\ target = IF i.op = "jalr" THEN L3!Plus(regs[i.rs1], i.imm) ELSE L3!Plus(pc, i.imm)
  /\ taken <=> L3!Taken(i, regs[i.rs1], regs[i.rs2])
  /\ result = IF predicts /\ L3!Jump(i) THEN L3!Plus(pc, 1) ELSE L3!AluResult(i, regs[i.rs1], regs[i.rs2])
  /\ writedata = regs[i.rs2]

Results ==
  /\ exmem.taken => L3!Branch(exmem.instr)
  /\ L3!Real(exmem.instr) =>
       Computed(predicting, exmem.instr, exmem.PC, L3!RegsNow, exmem.target, exmem.taken, exmem.result, exmem.writedata)

PipeOK == /\ Program
          /\ lab # 1 => /\ PipeTypes /\ Fetched /\ InLine /\ Guesses /\ Targets /\ Operands /\ Results

-----------------------------------------------------------------------------
(* A clock of a pipeline *)

\* What the wires carry are words.
LEMMA Wires ==
  ASSUME PipeTypes
  PROVE  /\ L3!write_data \in Words /\ L3!RegsNow \in [Registers -> Words]
         /\ L3!DataNow \in [0..Cells - 1 -> Words]
         /\ L3!ex_forwardedA \in Words /\ L3!ex_forwardedB \in Words
         /\ L3!ex_alu_result \in Words /\ L3!ex_pc_target \in Words /\ L3!recovery \in Words
         /\ \A pred \in BOOLEAN : L3!NEXT_PC(pred) \in Words
<1>1. /\ PC \in Words
      /\ ifid.PC \in Words /\ ifid.instr \in InFlight
      /\ idex.PC \in Words /\ idex.instr \in InFlight /\ idex.data1 \in Words /\ idex.data2 \in Words
      /\ exmem.PC \in Words /\ exmem.instr \in InFlight /\ exmem.target \in Words /\ exmem.result \in Words
      /\ exmem.writedata \in Words
      /\ memwb.PC \in Words /\ memwb.instr \in InFlight /\ memwb.readdata \in Words /\ memwb.result \in Words
      /\ reg_array \in [Registers -> Words] /\ mem_array \in [0..Cells - 1 -> Words]
      /\ BTB \in [0..BtbSize - 1 -> [pc : Int, target : Words]]
  BY DEF PipeTypes
<1>2. idex.instr.imm \in Words /\ memwb.instr.rd \in Registers
  BY <1>1 DEF InFlight
<1>3. L3!Plus(memwb.PC, 1) \in Words /\ L3!Plus(exmem.PC, 1) \in Words /\ L3!Plus(PC, 1) \in Words
      /\ L3!Plus(idex.PC, idex.instr.imm) \in Words
  BY <1>1, <1>2, Sums
<1>4. L3!write_data \in Words
  BY <1>1, <1>3 DEF L3!write_data
<1>5. L3!RegsNow \in [Registers -> Words]
  BY <1>1, <1>2, <1>4 DEF L3!RegsNow, L3!Written
<1>6. L3!DataNow \in [0..Cells - 1 -> Words]
  BY <1>1, Numbers DEF L3!DataNow, L3!Stored
<1>7. L3!ex_forwardedA \in Words /\ L3!ex_forwardedB \in Words
  BY <1>1, <1>4 DEF L3!ex_forwardedA, L3!ex_forwardedB, L3!Forwarded
<1>8. L3!ex_alu_result \in Words
  BY <1>2, <1>7, Sums DEF L3!ex_alu_result
<1>9. L3!ex_pc_target \in Words
  BY <1>3, <1>8 DEF L3!ex_pc_target
<1>10. L3!recovery \in Words
  BY <1>1, <1>3, <1>9 DEF L3!recovery
<1>11. BTB[PC % BtbSize].target \in Words
  BY <1>1, Numbers
<1>12. \A pred \in BOOLEAN : L3!NEXT_PC(pred) \in Words
  BY <1>1, <1>3, <1>10, <1>11 DEF L3!NEXT_PC
<1>. QED
  BY <1>4, <1>5, <1>6, <1>7, <1>8, <1>9, <1>10, <1>12

\* The pipeline registers behind a clock, field by field; next is the new PC.
Clocked(next) ==
  /\ UNCHANGED <<inst_memory, predicting>>
  /\ next \in Words /\ PC' = next
  /\ L3!flush => next = L3!recovery
  /\ ~L3!flush /\ L3!stall => next = PC
  /\ ~L3!flush /\ ~L3!stall =>
       \/ next = L3!Plus(PC, 1)
       \/ /\ predicting /\ (L3!Jump(inst_memory[PC]) \/ L3!Branch(inst_memory[PC]))
          /\ BTB[PC % BtbSize].pc = PC /\ next = BTB[PC % BtbSize].target
  /\ L3!flush => ifid' = [PC |-> PC, instr |-> L3!Zero, predict |-> next]
  /\ ~L3!flush /\ L3!stall => ifid' = ifid
  /\ ~L3!flush /\ ~L3!stall => ifid' = [PC |-> PC, instr |-> inst_memory[PC], predict |-> next]
  /\ idex'.PC = ifid.PC /\ idex'.predict = ifid.predict
  /\ L3!flush \/ L3!stall => idex'.instr = L3!Nothing(ifid.instr)
  /\ ~(L3!flush \/ L3!stall) => idex'.instr = ifid.instr
  /\ idex'.data1 = L3!RegsNow[ifid.instr.rs1] /\ idex'.data2 = L3!RegsNow[ifid.instr.rs2]
  /\ exmem'.PC = idex.PC /\ exmem'.predict = idex.predict /\ exmem'.target = L3!ex_pc_target
  /\ predicting /\ L3!flush => exmem'.instr = L3!Nothing(idex.instr) /\ ~exmem'.taken
  /\ ~(predicting /\ L3!flush) => exmem'.instr = idex.instr /\ (exmem'.taken <=> L3!ex_taken)
  /\ exmem'.result = IF predicting /\ L3!Jump(idex.instr) THEN L3!Plus(idex.PC, 1) ELSE L3!ex_alu_result
  /\ exmem'.writedata = L3!ex_forwardedB
  /\ memwb'.PC = exmem.PC /\ memwb'.instr = exmem.instr /\ memwb'.result = exmem.result
  /\ memwb'.readdata = IF L3!MemRead(exmem.instr) THEN L3!DataNow[exmem.result % Cells] ELSE 0
  /\ reg_array' = L3!RegsNow /\ mem_array' = L3!DataNow /\ BTB' = L3!BTBNext

LEMMA ClockIs ==
  ASSUME PipeTypes, L3!Clock
  PROVE  \E next : Clocked(next)
<1>1. PICK pred \in BOOLEAN : PC' = L3!NEXT_PC(pred) /\ ifid' = L3!ifid_reg(pred)
  BY DEF L3!Clock
<1>2. PICK next : next = L3!NEXT_PC(pred)
  OBVIOUS
<1>3. next \in Words
  BY <1>2, Wires
<1>4. /\ L3!flush => next = L3!recovery
      /\ ~L3!flush /\ L3!stall => next = PC
      /\ ~L3!flush /\ ~L3!stall =>
           \/ next = L3!Plus(PC, 1)
           \/ /\ predicting /\ (L3!Jump(inst_memory[PC]) \/ L3!Branch(inst_memory[PC]))
              /\ BTB[PC % BtbSize].pc = PC /\ next = BTB[PC % BtbSize].target
  BY <1>2 DEF L3!NEXT_PC, L3!instruction, L3!hit
<1>5. /\ L3!flush => ifid' = [PC |-> PC, instr |-> L3!Zero, predict |-> next]
      /\ ~L3!flush /\ L3!stall => ifid' = ifid
      /\ ~L3!flush /\ ~L3!stall => ifid' = [PC |-> PC, instr |-> inst_memory[PC], predict |-> next]
  BY <1>1, <1>2 DEF L3!ifid_reg, L3!instruction
<1>6. idex' = L3!idex_reg /\ exmem' = L3!exmem_reg /\ memwb' = L3!memwb_reg
      /\ reg_array' = L3!RegsNow /\ mem_array' = L3!DataNow /\ BTB' = L3!BTBNext
      /\ UNCHANGED <<inst_memory, predicting>>
  BY DEF L3!Clock
<1>7. /\ idex'.PC = ifid.PC /\ idex'.predict = ifid.predict
      /\ L3!flush \/ L3!stall => idex'.instr = L3!Nothing(ifid.instr)
      /\ ~(L3!flush \/ L3!stall) => idex'.instr = ifid.instr
      /\ idex'.data1 = L3!RegsNow[ifid.instr.rs1] /\ idex'.data2 = L3!RegsNow[ifid.instr.rs2]
  BY <1>6 DEF L3!idex_reg
<1>8. /\ exmem'.PC = idex.PC /\ exmem'.predict = idex.predict /\ exmem'.target = L3!ex_pc_target
      /\ predicting /\ L3!flush => exmem'.instr = L3!Nothing(idex.instr) /\ ~exmem'.taken
      /\ ~(predicting /\ L3!flush) => exmem'.instr = idex.instr /\ (exmem'.taken <=> L3!ex_taken)
      /\ exmem'.result = IF predicting /\ L3!Jump(idex.instr) THEN L3!Plus(idex.PC, 1) ELSE L3!ex_alu_result
      /\ exmem'.writedata = L3!ex_forwardedB
  BY <1>6 DEF L3!exmem_reg
<1>9. /\ memwb'.PC = exmem.PC /\ memwb'.instr = exmem.instr /\ memwb'.result = exmem.result
      /\ memwb'.readdata = IF L3!MemRead(exmem.instr) THEN L3!DataNow[exmem.result % Cells] ELSE 0
  BY <1>6 DEF L3!memwb_reg
<1>. QED
  BY <1>1, <1>2, <1>3, <1>4, <1>5, <1>6, <1>7, <1>8, <1>9 DEF Clocked

LEMMA TypesKept ==
  ASSUME Program, PipeTypes, L3!Clock
  PROVE  PipeTypes'
<1>1. PICK next : Clocked(next)
  BY ClockIs
<1>2. inst_memory[PC] \in InFlight /\ L3!Zero \in InFlight
      /\ L3!Nothing(ifid.instr) \in InFlight /\ L3!Nothing(idex.instr) \in InFlight
      /\ ifid.instr \in InFlight /\ idex.instr \in InFlight
  <2>1. PC \in Words /\ ifid.instr \in InFlight /\ idex.instr \in InFlight
    BY DEF PipeTypes
  <2>2. inst_memory[PC] \in Instructions
    BY <2>1, Fetches
  <2>3. 0 \in Registers /\ 0 \in Words
    BY ProcessorAssumption, Numbers
  <2>4. \A i \in InFlight : L3!Nothing(i) \in InFlight
    BY DEF InFlight, L3!Nothing
  <2>. QED BY <2>1, <2>2, <2>3, <2>4 DEF Instructions, InFlight, L3!Zero
<1>3. predicting' \in BOOLEAN /\ PC' \in Words
  BY <1>1 DEF Clocked, PipeTypes
<1>4. ifid' \in [PC : Words, instr : InFlight, predict : Words]
  BY <1>1, <1>2 DEF Clocked, PipeTypes
<1>5. L3!idex_reg \in [PC : Words, instr : InFlight, data1 : Words, data2 : Words, predict : Words]
  <2>1. ifid.PC \in Words /\ ifid.predict \in Words
    BY DEF PipeTypes
  <2>2. ifid.instr.rs1 \in Registers /\ ifid.instr.rs2 \in Registers
    BY <1>2 DEF InFlight
  <2>3. L3!RegsNow[ifid.instr.rs1] \in Words /\ L3!RegsNow[ifid.instr.rs2] \in Words
    BY <2>2, Wires
  <2>4. (IF L3!flush \/ L3!stall THEN L3!Nothing(ifid.instr) ELSE ifid.instr) \in InFlight
    BY <1>2
  <2>. QED BY <2>1, <2>3, <2>4 DEF L3!idex_reg
<1>6. L3!exmem_reg \in [PC : Words, instr : InFlight, target : Words, taken : BOOLEAN,
                        result : Words, writedata : Words, predict : Words]
  <2>1. idex.PC \in Words /\ idex.predict \in Words
    BY DEF PipeTypes
  <2>2. (IF predicting /\ L3!flush THEN L3!Nothing(idex.instr) ELSE idex.instr) \in InFlight
    BY <1>2
  <2>3. idex.instr.imm \in Words
    BY <1>2 DEF InFlight
  <2>4. (IF predicting /\ L3!Jump(idex.instr) THEN L3!Plus(idex.PC, 1) ELSE L3!ex_alu_result) \in Words
    BY <2>1, <2>3, Wires, Sums
  <2>. QED BY <2>1, <2>2, <2>4, Wires DEF L3!exmem_reg
<1>7. L3!memwb_reg \in [PC : Words, instr : InFlight, readdata : Words, result : Words]
  <2>1. exmem.PC \in Words /\ exmem.instr \in InFlight /\ exmem.result \in Words
    BY DEF PipeTypes
  <2>2. (IF L3!MemRead(exmem.instr) THEN L3!DataNow[exmem.result % Cells] ELSE 0) \in Words
    <3>1. exmem.result % Cells \in 0..Cells - 1 /\ 0 \in Words
      BY <2>1, Numbers
    <3>. QED BY <3>1, Wires
  <2>. QED BY <2>1, <2>2 DEF L3!memwb_reg
<1>8. L3!BTBNext \in [0..BtbSize - 1 -> [pc : Int, target : Words]]
  <2>1. exmem.PC \in Words /\ exmem.PC \in Int /\ exmem.target \in Words /\ BTB \in [0..BtbSize - 1 -> [pc : Int, target : Words]]
    BY Numbers DEF PipeTypes
  <2>2. [pc |-> exmem.PC, target |-> exmem.target] \in [pc : Int, target : Words]
    BY <2>1
  <2>. QED BY <2>1, <2>2, Numbers DEF L3!BTBNext
<1>9. idex' = L3!idex_reg /\ exmem' = L3!exmem_reg /\ memwb' = L3!memwb_reg
      /\ reg_array' = L3!RegsNow /\ mem_array' = L3!DataNow /\ BTB' = L3!BTBNext
  BY DEF L3!Clock
<1>. QED
  BY <1>3, <1>4, <1>5, <1>6, <1>7, <1>8, <1>9, Wires DEF PipeTypes

\* Which instructions are real, by what they do
LEMMA Kinds ==
  ASSUME NEW i
  PROVE  /\ L3!Jump(i) \/ L3!Branch(i) \/ L3!MemRead(i) \/ L3!MemWrite(i) \/ L3!RegWrite(i) => L3!Real(i)
         /\ L3!Branch(i) => ~L3!Jump(i) /\ i.op # "jalr"
         /\ L3!MemRead(i) => ~L3!Jump(i) /\ ~L3!MemWrite(i) /\ ~L3!Branch(i)
         /\ L3!MemWrite(i) => ~L3!Jump(i)
         /\ \A a, b : L3!Taken(i, a, b) => L3!Branch(i)
         /\ ~L3!Real(L3!Zero)
  BY DEF L3!Jump, L3!Branch, L3!MemRead, L3!MemWrite, L3!RegWrite, L3!Real, L3!Taken, L3!Zero

LEMMA NothingIsLeft ==
  ASSUME NEW i \in InFlight
  PROVE  ~L3!Real(L3!Nothing(i))
  BY DEF L3!Real, L3!Nothing, InFlight

\* The register file one write back later
Done == IF L3!Jump(exmem.instr) THEN L3!Plus(exmem.PC, 1)
        ELSE IF L3!MemRead(exmem.instr) THEN L3!DataNow[exmem.result % Cells]
        ELSE exmem.result

LEMMA NextRegs ==
  ASSUME PipeTypes, NEW next, Clocked(next)
  PROVE  /\ L3!RegsNow' = L3!Written(L3!RegsNow, exmem.instr, Done)
         /\ \A r \in Registers : L3!RegsNow'[r] =
              IF r # 0 /\ r = exmem.instr.rd /\ L3!RegWrite(exmem.instr) THEN Done ELSE L3!RegsNow[r]
         /\ \A r \in Registers : L3!RegsNow[r] =
              IF r # 0 /\ r = memwb.instr.rd /\ L3!RegWrite(memwb.instr) THEN L3!write_data ELSE reg_array[r]
<1>1. L3!write_data' = IF L3!Jump(exmem.instr) \/ L3!MemRead(exmem.instr) \/ L3!RegWrite(exmem.instr) THEN Done
                       ELSE L3!write_data'
  BY DEF Clocked, Done, L3!write_data, L3!Jump, L3!MemRead
<1>2. L3!RegsNow' = L3!Written(L3!RegsNow, exmem.instr, L3!write_data')
  BY DEF Clocked, L3!RegsNow, L3!Written, L3!RegWrite
<1>3. L3!RegsNow' = L3!Written(L3!RegsNow, exmem.instr, Done)
  BY <1>1, <1>2 DEF L3!Written
<1>4. \A r \in Registers : L3!RegsNow'[r] =
        IF r # 0 /\ r = exmem.instr.rd /\ L3!RegWrite(exmem.instr) THEN Done ELSE L3!RegsNow[r]
  BY <1>3, Wires DEF L3!Written
<1>5. \A r \in Registers : L3!RegsNow[r] =
        IF r # 0 /\ r = memwb.instr.rd /\ L3!RegWrite(memwb.instr) THEN L3!write_data ELSE reg_array[r]
  BY DEF L3!RegsNow, L3!Written, PipeTypes
<1>. QED
  BY <1>3, <1>4, <1>5

\* Forwarding gives an instruction in EX the registers as they will be when it
\* is in MEM.
LEMMA Forwards ==
  ASSUME PipeTypes, Operands, Results, L3!Real(idex.instr), NEW next, Clocked(next)
  PROVE  /\ L3!ex_forwardedA = L3!RegsNow'[idex.instr.rs1]
         /\ L3!ex_forwardedB = L3!RegsNow'[idex.instr.rs2]
<1>1. /\ idex.data1 = reg_array[idex.instr.rs1] /\ idex.data2 = reg_array[idex.instr.rs2]
      /\ L3!MemRead(exmem.instr) => exmem.instr.rd \notin {idex.instr.rs1, idex.instr.rs2}
      /\ L3!Jump(exmem.instr) => predicting
  BY DEF Operands
<1>2. idex.instr.rs1 \in Registers /\ idex.instr.rs2 \in Registers
  BY DEF PipeTypes, InFlight
<1>3. L3!Jump(exmem.instr) => exmem.result = L3!Plus(exmem.PC, 1)
  BY <1>1, Kinds DEF Results, Computed
<1>4. ASSUME NEW r \in Registers, r \in {idex.instr.rs1, idex.instr.rs2}
      PROVE  L3!Forwarded(r, reg_array[r]) = L3!RegsNow'[r]
  <2>1. L3!RegsNow'[r] = IF r # 0 /\ r = exmem.instr.rd /\ L3!RegWrite(exmem.instr) THEN Done ELSE L3!RegsNow[r]
    BY NextRegs
  <2>2. L3!RegsNow[r] = IF r # 0 /\ r = memwb.instr.rd /\ L3!RegWrite(memwb.instr) THEN L3!write_data ELSE reg_array[r]
    BY NextRegs
  <2>3. r = exmem.instr.rd => Done = exmem.result
    BY <1>1, <1>3, <1>4 DEF Done
  <2>. QED BY <2>1, <2>2, <2>3 DEF L3!Forwarded
<1>. QED
  BY <1>1, <1>2, <1>4 DEF L3!ex_forwardedA, L3!ex_forwardedB

\* Every word of the program is an instruction.
LEMMA FetchesReal ==
  ASSUME Program, PipeTypes
  PROVE  L3!Real(inst_memory[PC])
<1>1. inst_memory[PC] \in Instructions
  BY Fetches DEF PipeTypes
<1>. QED
  BY <1>1 DEF Instructions, L3!Real

\* What is left in the pipeline after a clock
LEMMA Left ==
  ASSUME Program, PipeTypes, NEW next, Clocked(next)
  PROVE  /\ L3!flush => ~L3!Real(ifid'.instr) /\ ~L3!Real(idex'.instr)
         /\ predicting /\ L3!flush => ~L3!Real(exmem'.instr)
         /\ ~L3!flush /\ ~L3!stall =>
              /\ ifid'.instr = inst_memory[PC] /\ ifid'.PC = PC /\ ifid'.predict = next
              /\ L3!Real(ifid'.instr) /\ idex'.instr = ifid.instr
         /\ ~L3!flush /\ L3!stall => ~L3!Real(idex'.instr) /\ ifid' = ifid
         /\ ~(predicting /\ L3!flush) => exmem'.instr = idex.instr
<1>1. ifid.instr \in InFlight /\ idex.instr \in InFlight
  BY DEF PipeTypes
<1>2. ~L3!Real(L3!Zero) /\ ~L3!Real(L3!Nothing(ifid.instr)) /\ ~L3!Real(L3!Nothing(idex.instr))
  BY <1>1, Kinds, NothingIsLeft
<1>. QED
  BY <1>2, FetchesReal DEF Clocked

\* Only an instruction in MEM makes Lab3 flush, only one in EX makes Lab2 flush
\* and either stall.
LEMMA Causes ==
  ASSUME Results
  PROVE  /\ predicting /\ L3!flush => L3!Real(exmem.instr)
         /\ ~predicting /\ L3!flush => L3!Real(idex.instr) /\ (L3!Jump(idex.instr) \/ L3!ex_taken)
         /\ ~predicting /\ ~L3!flush => ~L3!Jump(idex.instr) /\ ~L3!ex_taken
         /\ L3!stall => ~L3!flush /\ L3!Real(idex.instr)
         /\ ~L3!flush /\ ~L3!stall /\ L3!MemRead(idex.instr) =>
              idex.instr.rd \notin {ifid.instr.rs1, ifid.instr.rs2}
         /\ L3!ex_taken => L3!Branch(idex.instr)
<1>1. predicting /\ L3!flush => L3!Real(exmem.instr)
  BY Kinds DEF Results, L3!flush, L3!NotFollowed, L3!mem_false_taken
<1>2. L3!ex_taken => L3!Branch(idex.instr)
  BY Kinds DEF L3!ex_taken
<1>. QED
  BY <1>1, <1>2, Kinds DEF L3!flush, L3!stall

\* Where what is in the pipeline behind a clock was before
LEMMA Moves ==
  ASSUME Program, PipeTypes, Results, NEW next, Clocked(next)
  PROVE  /\ L3!Real(ifid'.instr) =>
              \/ ~L3!flush /\ ~L3!stall /\ ifid'.instr = inst_memory[PC] /\ ifid'.PC = PC /\ ifid'.predict = next
              \/ ~L3!flush /\ L3!stall /\ ifid' = ifid /\ next = PC
         /\ L3!Real(idex'.instr) =>
              /\ ~L3!flush /\ ~L3!stall /\ L3!Real(ifid.instr)
              /\ idex'.instr = ifid.instr /\ idex'.PC = ifid.PC /\ idex'.predict = ifid.predict
         /\ L3!Real(exmem'.instr) =>
              /\ ~(predicting /\ L3!flush) /\ L3!Real(idex.instr)
              /\ exmem'.instr = idex.instr /\ exmem'.PC = idex.PC /\ exmem'.predict = idex.predict
         /\ PC' = next /\ predicting' = predicting /\ inst_memory' = inst_memory
<1>1. ~L3!flush /\ L3!stall => next = PC
  BY DEF Clocked
<1>2. /\ idex'.PC = ifid.PC /\ idex'.predict = ifid.predict /\ exmem'.PC = idex.PC /\ exmem'.predict = idex.predict
      /\ PC' = next /\ predicting' = predicting /\ inst_memory' = inst_memory
  BY DEF Clocked
<1>. QED
  BY <1>1, <1>2, Left

LEMMA FetchedKept ==
  ASSUME Program, PipeTypes, Results, Fetched, NEW next, Clocked(next)
  PROVE  Fetched'
<1>. QED
  BY Moves DEF Fetched, L3!Real

LEMMA OperandsKept ==
  ASSUME Program, PipeTypes, Results, NEW next, Clocked(next)
  PROVE  Operands'
<1>. SUFFICES ASSUME L3!Real(idex'.instr)
              PROVE  /\ idex'.data1 = reg_array'[idex'.instr.rs1] /\ idex'.data2 = reg_array'[idex'.instr.rs2]
                     /\ L3!MemRead(exmem'.instr) => exmem'.instr.rd \notin {idex'.instr.rs1, idex'.instr.rs2}
                     /\ L3!Jump(exmem'.instr) => predicting'
  BY DEF Operands, L3!Real, L3!MemRead, L3!Jump
<1>1. ~L3!flush /\ ~L3!stall /\ idex'.instr = ifid.instr /\ predicting' = predicting
  BY Moves
<1>2. exmem'.instr = idex.instr
  BY <1>1, Left
<1>3. idex'.data1 = L3!RegsNow[ifid.instr.rs1] /\ idex'.data2 = L3!RegsNow[ifid.instr.rs2] /\ reg_array' = L3!RegsNow
  BY DEF Clocked
<1>4. L3!MemRead(idex.instr) => idex.instr.rd \notin {ifid.instr.rs1, ifid.instr.rs2}
  BY <1>1, Causes
<1>5. ~predicting => ~L3!Jump(idex.instr)
  BY <1>1, Causes
<1>. QED
  BY <1>1, <1>2, <1>3, <1>4, <1>5

LEMMA ResultsKept ==
  ASSUME Program, lab # 1, PipeTypes, Fetched, Operands, Results, NEW next, Clocked(next)
  PROVE  Results'
<1>1. exmem'.taken => L3!Branch(exmem'.instr)
  <2>1. exmem'.taken => L3!ex_taken /\ exmem'.instr = idex.instr
    BY DEF Clocked
  <2>. QED BY <2>1, Causes
<1>2. ASSUME L3!Real(exmem'.instr)
      PROVE  Computed(predicting', exmem'.instr, exmem'.PC, L3!RegsNow', exmem'.target, exmem'.taken,
                      exmem'.result, exmem'.writedata)
  <2>1. /\ ~(predicting /\ L3!flush) /\ L3!Real(idex.instr) /\ exmem'.instr = idex.instr /\ exmem'.PC = idex.PC
        /\ predicting' = predicting
    BY <1>2, Moves
  <2>2. /\ exmem'.target = L3!ex_pc_target /\ (exmem'.taken <=> L3!ex_taken) /\ exmem'.writedata = L3!ex_forwardedB
        /\ exmem'.result = IF predicting /\ L3!Jump(idex.instr) THEN L3!Plus(idex.PC, 1) ELSE L3!ex_alu_result
    BY <2>1 DEF Clocked
  <2>3. L3!ex_forwardedA = L3!RegsNow'[idex.instr.rs1] /\ L3!ex_forwardedB = L3!RegsNow'[idex.instr.rs2]
    BY <2>1, Forwards
  <2>4. idex.instr.op = "jalr" => ~L3!Subtracts(idex.instr)
    <3>1. idex.instr = inst_memory[idex.PC]
      BY <2>1 DEF Fetched
    <3>2. idex.PC \in Words
      BY DEF PipeTypes
    <3>3. idex.instr.op = "jalr" => ~idex.instr.bit30
      BY <3>1, <3>2, Fetches
    <3>. QED BY <3>3 DEF L3!Subtracts
  <2>5. idex.instr.op = "jalr" => L3!ex_alu_result = L3!Plus(L3!ex_forwardedA, idex.instr.imm)
    BY <2>4 DEF L3!ex_alu_result, L3!AluResult
  <2>6. L3!ex_pc_target = IF idex.instr.op = "jalr" THEN L3!Plus(L3!ex_forwardedA, idex.instr.imm)
                          ELSE L3!Plus(idex.PC, idex.instr.imm)
    BY <2>5 DEF L3!ex_pc_target
  <2>. QED BY <2>1, <2>2, <2>3, <2>6 DEF Computed, L3!ex_taken, L3!ex_alu_result
<1>. QED
  BY <1>1, <1>2 DEF Results, L3!Real, L3!Branch

LEMMA InLineKept ==
  ASSUME Program, PipeTypes, Results, InLine, Guesses, NEW next, Clocked(next)
  PROVE  InLine'
<1>1. L3!Real(ifid'.instr) => PC' = ifid'.predict
  BY Moves DEF InLine
<1>2. L3!Real(idex'.instr) => BehindEx' = idex'.predict
  <2>. HAVE L3!Real(idex'.instr)
  <2>1. ~L3!flush /\ ~L3!stall /\ L3!Real(ifid.instr) /\ idex'.predict = ifid.predict
    BY Moves
  <2>2. L3!Real(ifid'.instr) /\ ifid'.PC = PC
    BY <2>1, Left
  <2>3. PC = ifid.predict
    BY <2>1 DEF InLine
  <2>. QED BY <2>1, <2>2, <2>3 DEF BehindEx, L3!Real
<1>3. L3!Real(exmem'.instr) => BehindMem' = IF predicting' THEN exmem'.predict ELSE Leads'
  <2>. HAVE L3!Real(exmem'.instr)
  <2>1. /\ ~(predicting /\ L3!flush) /\ L3!Real(idex.instr) /\ exmem'.instr = idex.instr /\ exmem'.PC = idex.PC
        /\ exmem'.predict = idex.predict /\ predicting' = predicting /\ PC' = next
    BY Moves
  <2>2. (exmem'.taken <=> L3!ex_taken) /\ exmem'.target = L3!ex_pc_target
    BY <2>1 DEF Clocked
  <2>3. Leads' = IF L3!Jump(idex.instr) \/ L3!ex_taken THEN L3!ex_pc_target ELSE L3!Plus(idex.PC, 1)
    BY <2>1, <2>2 DEF Leads, L3!Jump, L3!Plus
  <2>4. CASE L3!flush
    <3>1. ~predicting /\ (L3!Jump(idex.instr) \/ L3!ex_taken)
      BY <2>1, <2>4, Causes
    <3>2. ~L3!Real(ifid'.instr) /\ ~L3!Real(idex'.instr)
      BY <2>4, Left
    <3>3. next = L3!ex_pc_target
      BY <2>4, <3>1 DEF Clocked, L3!recovery
    <3>4. BehindMem' = next
      BY <2>1, <3>2 DEF BehindMem, BehindEx, L3!Real
    <3>. QED BY <2>1, <2>3, <3>1, <3>3, <3>4
  <2>5. CASE ~L3!flush
    <3>1. BehindMem' = BehindEx
      <4>1. CASE L3!stall
        <5>1. ~L3!Real(idex'.instr) /\ ifid' = ifid /\ next = PC
          BY <2>5, <4>1, Left DEF Clocked
        <5>. QED BY <2>1, <5>1 DEF BehindMem, BehindEx, L3!Real
      <4>2. CASE ~L3!stall
        <5>1. L3!Real(ifid'.instr) /\ ifid'.PC = PC /\ idex'.instr = ifid.instr /\ idex'.PC = ifid.PC
          BY <2>5, <4>2, Left DEF Clocked
        <5>. QED BY <5>1 DEF BehindMem, BehindEx, L3!Real
      <4>. QED BY <4>1, <4>2
    <3>2. BehindEx = idex.predict
      BY <2>1 DEF InLine
    <3>3. ~predicting => ~L3!Jump(idex.instr) /\ ~L3!ex_taken
      BY <2>5, Causes
    <3>4. ~predicting => idex.predict = L3!Plus(idex.PC, 1)
      BY <2>1 DEF Guesses, Guess
    <3>. QED BY <2>1, <2>3, <3>1, <3>2, <3>3, <3>4
  <2>. QED BY <2>4, <2>5
<1>. QED
  BY <1>1, <1>2, <1>3 DEF InLine, L3!Real

LEMMA GuessesKept ==
  ASSUME Program, PipeTypes, Results, Guesses, Targets, NEW next, Clocked(next)
  PROVE  Guesses'
<1>1. ~L3!flush /\ ~L3!stall => Guess(predicting, inst_memory[PC], PC, next)
  <2>. HAVE ~L3!flush /\ ~L3!stall
  <2>1. \/ next = L3!Plus(PC, 1)
        \/ /\ predicting /\ (L3!Jump(inst_memory[PC]) \/ L3!Branch(inst_memory[PC]))
           /\ BTB[PC % BtbSize].pc = PC /\ next = BTB[PC % BtbSize].target
    BY DEF Clocked
  <2>2. PC % BtbSize \in 0..BtbSize - 1 /\ PC \in Words
    BY Numbers DEF PipeTypes
  <2>3. L3!Branch(inst_memory[PC]) /\ BTB[PC % BtbSize].pc = PC =>
          BTB[PC % BtbSize].target = L3!Plus(PC, inst_memory[PC].imm)
    BY <2>2 DEF Targets
  <2>. QED BY <2>1, <2>3 DEF Guess
<1>2. L3!Real(ifid'.instr) => Guess(predicting, ifid'.instr, ifid'.PC, ifid'.predict)
  BY <1>1, Moves DEF Guesses
<1>3. L3!Real(idex'.instr) => Guess(predicting, idex'.instr, idex'.PC, idex'.predict)
  BY Moves DEF Guesses
<1>4. L3!Real(exmem'.instr) /\ predicting => Guess(TRUE, exmem'.instr, exmem'.PC, exmem'.predict)
  BY Moves DEF Guesses, Guess
<1>5. predicting' = predicting
  BY Moves
<1>. QED
  BY <1>2, <1>3, <1>4, <1>5 DEF Guesses, Guess, L3!Real, L3!Plus, L3!Jump, L3!Branch

LEMMA TargetsKept ==
  ASSUME PipeTypes, Results, Fetched, Targets, NEW next, Clocked(next)
  PROVE  Targets'
<1>1. BTB' = L3!BTBNext /\ inst_memory' = inst_memory
  BY DEF Clocked
<1>2. SUFFICES ASSUME NEW k \in 0..BtbSize - 1, BTB'[k].pc \in Words, L3!Branch(inst_memory[BTB'[k].pc])
               PROVE  BTB'[k].target = L3!Plus(BTB'[k].pc, inst_memory[BTB'[k].pc].imm)
  BY <1>1 DEF Targets, L3!Branch, L3!Plus
<1>3. CASE BTB'[k] = BTB[k]
  BY <1>2, <1>3 DEF Targets
<1>4. CASE BTB'[k] # BTB[k]
  <2>1. BTB'[k] = [pc |-> exmem.PC, target |-> exmem.target] /\ (L3!Jump(exmem.instr) \/ exmem.taken)
    BY <1>1, <1>4 DEF L3!BTBNext, PipeTypes
  <2>2. L3!Real(exmem.instr)
    BY <2>1, Kinds DEF Results
  <2>3. exmem.instr = inst_memory[exmem.PC]
    BY <2>2 DEF Fetched
  <2>4. exmem.instr.op # "jalr"
    BY <1>2, <2>1, <2>3, Kinds
  <2>5. exmem.target = L3!Plus(exmem.PC, exmem.instr.imm)
    BY <2>2, <2>4 DEF Results, Computed
  <2>. QED BY <2>1, <2>3, <2>5
<1>. QED
  BY <1>3, <1>4

\* What is behind the instruction in MEM comes next, unless Lab3 flushes it.
LEMMA Follows ==
  ASSUME Program, PipeTypes, Results, NEW next, Clocked(next)
  PROVE  /\ predicting /\ L3!flush => L3!NextToExecute' = L3!recovery
         /\ ~(predicting /\ L3!flush) => L3!NextToExecute' = BehindMem
<1>1. CASE predicting /\ L3!flush
  <2>1. ~L3!Real(ifid'.instr) /\ ~L3!Real(idex'.instr) /\ ~L3!Real(exmem'.instr)
    BY <1>1, Left
  <2>2. PC' = L3!recovery
    BY <1>1 DEF Clocked
  <2>. QED BY <1>1, <2>1, <2>2 DEF L3!NextToExecute, L3!Real
<1>2. CASE ~(predicting /\ L3!flush)
  <2>1. exmem'.instr = idex.instr /\ exmem'.PC = idex.PC
    BY <1>2, Left DEF Clocked
  <2>2. CASE L3!Real(idex.instr)
    BY <1>2, <2>1, <2>2 DEF L3!NextToExecute, BehindMem, L3!Real
  <2>3. CASE ~L3!Real(idex.instr)
    <3>1. ~L3!flush /\ ~L3!stall
      BY <1>2, <2>3, Causes
    <3>2. L3!Real(ifid'.instr) /\ ifid'.PC = PC /\ idex'.instr = ifid.instr /\ idex'.PC = ifid.PC
      BY <3>1, Left DEF Clocked
    <3>. QED BY <1>2, <2>1, <2>3, <3>2 DEF L3!NextToExecute, BehindMem, BehindEx, L3!Real
  <2>. QED BY <2>2, <2>3
<1>. QED
  BY <1>1, <1>2

\* After the instruction in MEM comes the one it leads to: a prediction that is
\* wrong is noticed.
LEMMA NextIsRight ==
  ASSUME Program, PipeTypes, InLine, Guesses, Results, NEW next, Clocked(next), L3!Real(exmem.instr)
  PROVE  L3!NextToExecute' = Leads
<1>1. CASE predicting /\ L3!flush
  <2>1. L3!NextToExecute' = IF L3!NotFollowed THEN exmem.target ELSE L3!Plus(exmem.PC, 1)
    BY <1>1, Follows DEF L3!recovery
  <2>2. L3!NotFollowed => L3!Jump(exmem.instr) \/ exmem.taken
    BY DEF L3!NotFollowed
  <2>3. ~L3!NotFollowed => ~L3!Jump(exmem.instr) /\ ~exmem.taken
    BY <1>1, Kinds DEF L3!flush, L3!mem_false_taken
  <2>. QED BY <2>1, <2>2, <2>3 DEF Leads
<1>2. CASE predicting /\ ~L3!flush
  <2>1. L3!NextToExecute' = exmem.predict
    BY <1>2, Follows DEF InLine
  <2>2. CASE L3!Jump(exmem.instr) \/ exmem.taken
    BY <1>2, <2>1, <2>2 DEF L3!flush, L3!NotFollowed, Leads
  <2>3. CASE ~L3!Jump(exmem.instr) /\ ~exmem.taken
    <3>1. Guess(TRUE, exmem.instr, exmem.PC, exmem.predict)
      BY <1>2 DEF Guesses
    <3>2. L3!Branch(exmem.instr) => exmem.target = L3!Plus(exmem.PC, exmem.instr.imm)
      BY Kinds DEF Results, Computed
    <3>3. exmem.predict = L3!Plus(exmem.PC, 1)
      BY <1>2, <2>3, <3>1, <3>2 DEF Guess, L3!flush, L3!mem_false_taken
    <3>. QED BY <2>1, <2>3, <3>3 DEF Leads
  <2>. QED BY <2>2, <2>3
<1>3. CASE ~predicting
  BY <1>3, Follows DEF InLine
<1>. QED
  BY <1>1, <1>2, <1>3

\* A clock that completes an instruction executes it, any other changes nothing
\* of the machine.
LEMMA PipelineStep ==
  ASSUME Program, PipeTypes, Fetched, InLine, Guesses, Results, L3!Clock
  PROVE  [L3!M!Execute]_L3!M!vars
<1>1. PICK next : Clocked(next)
  BY ClockIs
<1>2. mem_array' = L3!DataNow /\ inst_memory' = inst_memory
  BY <1>1 DEF Clocked
<1>3. L3!RegsNow' = L3!Written(L3!RegsNow, exmem.instr, Done)
  BY <1>1, NextRegs
<1>4. CASE ~L3!Real(exmem.instr)
  <2>1. L3!NextToExecute' = L3!NextToExecute
    <3>1. ~(predicting /\ L3!flush)
      BY <1>4, Causes
    <3>. QED BY <1>1, <1>4, <3>1, Follows DEF L3!NextToExecute, BehindMem, BehindEx
  <2>2. ~L3!RegWrite(exmem.instr) /\ ~L3!MemWrite(exmem.instr)
    BY <1>4, Kinds
  <2>3. L3!RegsNow' = L3!RegsNow /\ mem_array' = mem_array
    BY <1>2, <1>3, <2>2 DEF L3!Written, L3!DataNow, L3!Stored
  <2>. QED BY <1>2, <2>1, <2>3 DEF L3!M!vars
<1>5. CASE L3!Real(exmem.instr)
  <2>1. PICK i : i = exmem.instr
    OBVIOUS
  <2>2. PICK pc : pc = exmem.PC
    OBVIOUS
  <2>3. PICK a : a = L3!RegsNow[i.rs1]
    OBVIOUS
  <2>4. PICK b : b = L3!RegsNow[i.rs2]
    OBVIOUS
  <2>5. PICK address : address = L3!AluResult(i, a, b)
    OBVIOUS
  <2>6. L3!NextToExecute = pc /\ i = inst_memory[pc]
    BY <1>5, <2>1, <2>2 DEF L3!NextToExecute, Fetched
  <2>7. /\ exmem.target = IF i.op = "jalr" THEN L3!Plus(a, i.imm) ELSE L3!Plus(pc, i.imm)
        /\ exmem.taken <=> L3!Taken(i, a, b)
        /\ ~L3!Jump(i) => exmem.result = address
        /\ exmem.writedata = b
    BY <1>5, <2>1, <2>2, <2>3, <2>4, <2>5 DEF Results, Computed
  <2>8. mem_array' = L3!Stored(mem_array, i, address, b)
    BY <1>2, <2>1, <2>7, Kinds DEF L3!DataNow, L3!Stored
  <2>9. L3!MemRead(i) => L3!DataNow = mem_array
    BY <2>1, Kinds DEF L3!DataNow, L3!Stored
  <2>10. Done = IF L3!Jump(i) THEN L3!Plus(pc, 1) ELSE IF L3!MemRead(i) THEN mem_array[address % Cells] ELSE address
    BY <2>1, <2>2, <2>7, <2>9 DEF Done
  <2>11. L3!NextToExecute' = IF i.op = "jalr" THEN L3!Plus(a, i.imm)
                             ELSE IF L3!Jump(i) \/ L3!Taken(i, a, b) THEN L3!Plus(pc, i.imm)
                             ELSE L3!Plus(pc, 1)
    <3>1. L3!NextToExecute' = Leads
      BY <1>1, <1>5, NextIsRight
    <3>2. i.op = "jalr" => L3!Jump(i)
      BY DEF L3!Jump
    <3>. QED BY <2>1, <2>2, <2>7, <3>1, <3>2 DEF Leads
  <2>12. L3!RegsNow' = L3!Written(L3!RegsNow, i, IF L3!Jump(i) THEN L3!Plus(pc, 1)
                                                ELSE IF L3!MemRead(i) THEN mem_array[address % Cells] ELSE address)
    BY <1>3, <2>1, <2>10
  <2>13. L3!M!Execute
    BY <1>2, <2>3, <2>4, <2>5, <2>6, <2>8, <2>11, <2>12
       DEF L3!M!Execute, L3!M!AluResult, L3!M!Plus, L3!M!Minus, L3!M!Jump, L3!M!MemRead, L3!M!MemWrite, L3!M!Taken,
           L3!M!Written, L3!M!Stored, L3!M!RegWrite, L3!M!Subtracts,
           L3!AluResult, L3!Plus, L3!Minus, L3!Jump, L3!MemRead, L3!MemWrite, L3!Taken, L3!Written, L3!Stored,
           L3!RegWrite, L3!Subtracts
  <2>. QED BY <2>13
<1>. QED
  BY <1>4, <1>5

-----------------------------------------------------------------------------
(* The theorem *)

LEMMA InitOK ==
  ASSUME Init
  PROVE  SingleOK /\ PipeOK /\ L1!M!Init /\ L3!M!Init
<1>1. Program
  BY DEF Init, Program
<1>2. 0 \in Registers /\ 0 \in Words /\ Regs \in [Registers -> Words] /\ Regs[0] = 0
      /\ Data \in [0..Cells - 1 -> Words]
  BY ProcessorAssumption, Numbers
<1>3. pc1 = 0 /\ regs1 = Regs /\ data1 = Data
  BY DEF Init, L1!Init
<1>4. /\ predicting \in BOOLEAN /\ PC = 0
      /\ ifid = [PC |-> 0, instr |-> L3!Zero, predict |-> 0]
      /\ idex = [PC |-> 0, instr |-> L3!Zero, data1 |-> 0, data2 |-> 0, predict |-> 0]
      /\ exmem = [PC |-> 0, instr |-> L3!Zero, target |-> 0, taken |-> FALSE,
                  result |-> 0, writedata |-> 0, predict |-> 0]
      /\ memwb = [PC |-> 0, instr |-> L3!Zero, readdata |-> 0, result |-> 0]
      /\ reg_array = Regs /\ mem_array = Data
      /\ BTB = [k \in 0..BtbSize - 1 |-> L3!NoTarget]
  BY DEF Init, L3!Init
<1>5. L3!Zero \in InFlight /\ ~L3!Real(L3!Zero) /\ ~L3!RegWrite(L3!Zero)
  BY <1>2 DEF InFlight, L3!Zero, L3!Real, L3!RegWrite
<1>6. ~L3!Real(ifid.instr) /\ ~L3!Real(idex.instr) /\ ~L3!Real(exmem.instr) /\ ~exmem.taken
  BY <1>4, <1>5
<1>7. L3!RegsNow = Regs /\ L3!NextToExecute = 0
  BY <1>4, <1>5, <1>6 DEF L3!RegsNow, L3!Written, L3!NextToExecute
<1>8. PipeTypes
  <2>1. ifid \in [PC : Words, instr : InFlight, predict : Words]
    BY <1>2, <1>4, <1>5
  <2>2. idex \in [PC : Words, instr : InFlight, data1 : Words, data2 : Words, predict : Words]
    BY <1>2, <1>4, <1>5
  <2>3. exmem \in [PC : Words, instr : InFlight, target : Words, taken : BOOLEAN,
                   result : Words, writedata : Words, predict : Words]
    BY <1>2, <1>4, <1>5
  <2>4. memwb \in [PC : Words, instr : InFlight, readdata : Words, result : Words]
    BY <1>2, <1>4, <1>5
  <2>5. BTB \in [0..BtbSize - 1 -> [pc : Int, target : Words]]
    <3>1. L3!NoTarget \in [pc : Int, target : Words]
      BY <1>2 DEF L3!NoTarget
    <3>. QED BY <1>4, <3>1
  <2>. QED BY <1>2, <1>4, <2>1, <2>2, <2>3, <2>4, <2>5 DEF PipeTypes
<1>9. Targets
  <2>1. \A k \in 0..BtbSize - 1 : BTB[k].pc = -1
    BY <1>4 DEF L3!NoTarget
  <2>2. -1 \notin Words
    BY DEF Words
  <2>. QED BY <2>1, <2>2 DEF Targets
<1>10. Fetched /\ InLine /\ Guesses /\ Operands /\ Results
  BY <1>6 DEF Fetched, InLine, Guesses, Operands, Results
<1>11. SingleOK
  BY <1>1, <1>2, <1>3 DEF SingleOK
<1>12. L1!M!Init
  BY <1>3 DEF L1!M!Init
<1>13. L3!M!Init
  BY <1>4, <1>7 DEF L3!M!Init
<1>. QED
  BY <1>1, <1>8, <1>9, <1>10, <1>11, <1>12, <1>13 DEF PipeOK

LEMMA PipelineOK ==
  ASSUME PipeOK, lab # 1, L3!Clock
  PROVE  (PipeTypes /\ Fetched /\ InLine /\ Guesses /\ Targets /\ Operands /\ Results)' /\ [L3!M!Execute]_L3!M!vars
<1>1. Program /\ PipeTypes /\ Fetched /\ InLine /\ Guesses /\ Targets /\ Operands /\ Results
  BY DEF PipeOK
<1>2. PICK next : Clocked(next)
  BY <1>1, ClockIs
<1>3. PipeTypes'
  BY <1>1, TypesKept
<1>4. Fetched'
  BY <1>1, <1>2, FetchedKept
<1>5. InLine'
  BY <1>1, <1>2, InLineKept
<1>6. Guesses'
  BY <1>1, <1>2, GuessesKept
<1>7. Targets'
  BY <1>1, <1>2, TargetsKept
<1>8. Operands'
  BY <1>1, <1>2, OperandsKept
<1>9. Results'
  BY <1>1, <1>2, ResultsKept
<1>10. [L3!M!Execute]_L3!M!vars
  BY <1>1, PipelineStep
<1>. QED
  BY <1>3, <1>4, <1>5, <1>6, <1>7, <1>8, <1>9, <1>10

\* A processor that does not run stands still.
LEMMA StandsStill ==
  ASSUME UNCHANGED <<inst_memory, PC, ifid, idex, exmem, memwb, reg_array, mem_array>>
  PROVE  L3!RegsNow' = L3!RegsNow /\ UNCHANGED L3!M!vars
<1>1. L3!write_data' = L3!write_data
  BY DEF L3!write_data, L3!Jump, L3!MemRead, L3!Plus
<1>2. L3!RegsNow' = L3!RegsNow
  BY <1>1 DEF L3!RegsNow, L3!Written, L3!RegWrite
<1>3. L3!NextToExecute' = L3!NextToExecute
  BY DEF L3!NextToExecute, L3!Real
<1>. QED
  BY <1>2, <1>3 DEF L3!M!vars

LEMMA NothingMoves ==
  ASSUME UNCHANGED <<inst_memory, predicting, PC, ifid, idex, exmem, memwb, reg_array, mem_array, BTB>>,
         PipeTypes /\ Fetched /\ InLine /\ Guesses /\ Targets /\ Operands /\ Results
  PROVE  (PipeTypes /\ Fetched /\ InLine /\ Guesses /\ Targets /\ Operands /\ Results)'
<1>1. PipeTypes'
  BY DEF PipeTypes
<1>2. Fetched'
  BY DEF Fetched, L3!Real
<1>3. BehindEx' = BehindEx
  BY DEF BehindEx, L3!Real
<1>4. BehindMem' = BehindMem
  BY <1>3 DEF BehindMem, L3!Real
<1>5. Leads' = Leads
  BY DEF Leads, L3!Jump, L3!Plus
<1>6. InLine'
  BY <1>3, <1>4, <1>5 DEF InLine, L3!Real
<1>7. Guesses'
  BY DEF Guesses, Guess, L3!Real, L3!Plus, L3!Jump, L3!Branch
<1>8. Targets'
  BY DEF Targets, L3!Branch, L3!Plus
<1>9. Operands'
  BY DEF Operands, L3!Real, L3!MemRead, L3!Jump
<1>10. Results'
  BY StandsStill DEF Results, Computed, L3!Real, L3!Branch, L3!Plus, L3!Taken, L3!Jump, L3!AluResult, L3!Subtracts, L3!Minus
<1>. QED
  BY <1>1, <1>2, <1>6, <1>7, <1>8, <1>9, <1>10

LEMMA ProcessorsStep ==
  ASSUME SingleOK, PipeOK, [Next]_vars
  PROVE  SingleOK' /\ PipeOK' /\ [L1!M!Execute]_L1!M!vars /\ [L3!M!Execute]_L3!M!vars
<1>1. UNCHANGED lab /\ UNCHANGED inst_memory
  BY DEF Next, vars, L1!Clock, L3!Clock
<1>2. Program'
  BY <1>1 DEF SingleOK, Program
<1>3. CASE lab = 1
  <2>1. L1!M!Execute \/ UNCHANGED <<pc1, regs1, data1>>
    BY <1>3, SingleStep DEF Next, vars, singleVars
  <2>2. [L1!M!Execute]_L1!M!vars
    BY <1>1, <2>1 DEF L1!M!vars
  <2>3. pc1' \in Words /\ regs1' \in [Registers -> Words] /\ data1' \in [0..Cells - 1 -> Words]
    BY <1>3, SingleStep DEF Next, vars, singleVars, SingleOK
  <2>4. UNCHANGED <<PC, ifid, idex, exmem, memwb, reg_array, mem_array>>
    BY <1>3 DEF Next, vars, pipeVars
  <2>5. UNCHANGED L3!M!vars
    BY <1>1, <2>4, StandsStill
  <2>. QED BY <1>1, <1>2, <1>3, <2>2, <2>3, <2>5 DEF SingleOK, PipeOK
<1>4. CASE lab # 1
  <2>1. PipeTypes /\ Fetched /\ InLine /\ Guesses /\ Targets /\ Operands /\ Results
    BY <1>4 DEF PipeOK
  <2>2. CASE L3!Clock
    <3>1. UNCHANGED L1!M!vars
      BY <1>1, <1>4 DEF Next, vars, singleVars, L1!M!vars
    <3>. QED BY <1>1, <1>2, <1>4, <2>2, <3>1, PipelineOK DEF SingleOK, PipeOK
  <2>3. CASE ~L3!Clock
    <3>1. UNCHANGED <<inst_memory, predicting, PC, ifid, idex, exmem, memwb, reg_array, mem_array, BTB>>
      BY <1>4, <2>3 DEF Next, vars, pipeVars
    <3>2. (PipeTypes /\ Fetched /\ InLine /\ Guesses /\ Targets /\ Operands /\ Results)'
      BY <2>1, <3>1, NothingMoves
    <3>3. UNCHANGED L3!M!vars
      BY <3>1, StandsStill
    <3>4. UNCHANGED L1!M!vars
      BY <1>1, <1>4, <2>3 DEF Next, vars, singleVars, L1!M!vars
    <3>. QED BY <1>1, <1>2, <1>4, <3>2, <3>3, <3>4 DEF SingleOK, PipeOK
  <2>. QED BY <2>2, <2>3
<1>. QED
  BY <1>3, <1>4

\* ProcessorsImplementMachine: each of the three processors executes its program
\* one instruction after the other, whatever the program, the words, the memories,
\* the branch target buffer's size and what the predictor says.  JalrAssumption
\* keeps out of the program what its lab gets wrong: in Lab1 a jalr that overwrites
\* its base, in Lab2 and Lab3 a jalr whose offset has bit 10 set.
THEOREM ProcessorsAreMachines == Spec => ProcessorsImplementMachine
<1>1. Init => SingleOK /\ PipeOK /\ L1!M!Init /\ L3!M!Init
  BY InitOK
<1>2. SingleOK /\ PipeOK /\ [Next]_vars => SingleOK' /\ PipeOK' /\ [L1!M!Execute]_L1!M!vars /\ [L3!M!Execute]_L3!M!vars
  BY ProcessorsStep
<1>. QED
  BY <1>1, <1>2, PTL DEF Spec, ProcessorsImplementMachine, L1!ImplementsMachine, L3!ImplementsMachine, L1!M!Spec, L3!M!Spec
=============================================================================
