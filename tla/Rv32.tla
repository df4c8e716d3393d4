-------------------------------- MODULE Rv32 --------------------------------
(***************************************************************************)
(* What the instructions of the processors compute (control, ALU control,  *)
(* ALU and branch control of Lab1, Lab2 and Lab3): one kind of instruction *)
(* for each path through the data path.  An instruction is a record with   *)
(* every field, those that its format gives to the immediate included,     *)
(* because the hazard and forwarding units compare them all the same, and  *)
(* the ALU control looks at bit 30 of every one.                           *)
(***************************************************************************)
EXTENDS Integers

CONSTANTS Wrap,       \* words are 0..Wrap - 1: 2^32 in the code; an address counts words
          Cells       \* the words of the data memory; addresses wrap around it

Plus(a, b)  == (a + b) % Wrap
Minus(a, b) == (a - b) % Wrap

RegWrite(i) == i.op \in {"add", "sub", "addi", "lw", "jal", "jalr"}
Branch(i)   == i.op \in {"beq", "bne"}
Jump(i)     == i.op \in {"jal", "jalr"}
MemRead(i)  == i.op = "lw"
MemWrite(i) == i.op = "sw"

\* An all-zero word, or controls that a flush or stall has cleared
Nothing(i)  == [i EXCEPT !.op = "none"]
Real(i)     == i.op # "none"

\* jalr has the alu_op of R-types, which take funct7[5], bit 30 of an instruction,
\* for a subtraction; in jalr that is bit 10 of the offset.
Subtracts(i) == i.op = "sub" \/ (i.op = "jalr" /\ i.bit30)

AluResult(i, a, b) ==
  LET in_b == IF i.op \in {"addi", "lw", "sw", "jalr"} THEN i.imm ELSE b
  IN  IF Subtracts(i) THEN Minus(a, in_b) ELSE Plus(a, in_b)

Taken(i, a, b) == (i.op = "beq" /\ a = b) \/ (i.op = "bne" /\ a # b)

\* A register write, with x0 zero whatever is written to it
Written(regs, i, value) == IF RegWrite(i) /\ i.rd # 0 THEN [regs EXCEPT ![i.rd] = value] ELSE regs
Stored(data, i, address, value) ==
  IF MemWrite(i) THEN [data EXCEPT ![address % Cells] = value] ELSE data
=============================================================================
