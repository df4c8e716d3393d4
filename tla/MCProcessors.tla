---------------------------- MODULE MCProcessors ----------------------------
(***************************************************************************)
(* The processors of Lab1, Lab2 and Lab3 run every program of three        *)
(* instructions behind the nop that each inst.mem starts with.  The last   *)
(* instruction is followed by the first, so that programs go on and every  *)
(* instruction comes behind every other at every distance.                 *)
(***************************************************************************)
EXTENDS Integers

CONSTANTS Wrap, Cells, BtbSize, Regs, Data,
          Labs,            \* which processors
          Pool             \* the instructions of each lab's programs

Words == 0..Wrap - 1
Registers == DOMAIN Regs
Nop == [op |-> "addi", rd |-> 0, rs1 |-> 0, rs2 |-> 0, imm |-> 0, bit30 |-> FALSE]
Instructions ==
  [op : {"add", "sub", "addi", "lw", "sw", "beq", "bne", "jal", "jalr"},
   rd : Registers, rs1 : Registers, rs2 : Registers, imm : Words, bit30 : BOOLEAN]

ASSUME ProcessorAssumption ==
  /\ {Wrap, Cells, BtbSize} \subseteq Nat \ {0}
  /\ Labs \subseteq {1, 2, 3}
  /\ Regs \in [Registers -> Words] /\ 0 \in Registers /\ Regs[0] = 0
  /\ Data \in [0..Cells - 1 -> Words]
  /\ \A l \in Labs : Pool[l] \subseteq Instructions

\* Lab1 mistakes the target of a jalr that overwrites its base, Lab2 and Lab3 that
\* of a jalr whose offset has bit 10 set: the programs of each have none of these.
ASSUME JalrAssumption ==
  \A l \in Labs : \A i \in Pool[l] : i.op = "jalr" =>
    IF l = 1 THEN i.rd = 0 \/ i.rd # i.rs1 ELSE ~i.bit30

VARIABLES lab, inst_memory,
          pc1, regs1, data1,
          predicting, PC, ifid, idex, exmem, memwb, reg_array, mem_array, BTB

L1 == INSTANCE SingleCycle WITH PC <- pc1, reg_array <- regs1, mem_array <- data1
L3 == INSTANCE Pipeline

singleVars == <<pc1, regs1, data1>>
pipeVars   == <<PC, ifid, idex, exmem, memwb, reg_array, mem_array, BTB>>
vars == <<lab, inst_memory, predicting, singleVars, pipeVars>>

Init == /\ lab \in Labs
        /\ predicting = (lab = 3)
        /\ inst_memory \in {f \in [Words -> Pool[lab] \cup {Nop}] : f[0] = Nop}
        /\ L1!Init /\ L3!Init

Next == /\ UNCHANGED lab
        /\ \/ lab = 1 /\ L1!Clock /\ UNCHANGED <<predicting, pipeVars>>
           \/ lab # 1 /\ L3!Clock /\ UNCHANGED singleVars

Spec == Init /\ [][Next]_vars /\ WF_vars(Next)
-----------------------------------------------------------------------------
\* The three processors execute programs one instruction after the other.
ProcessorsImplementMachine == L1!ImplementsMachine /\ L3!ImplementsMachine

\* The pipelines never stop completing instructions.
InstructionsComplete == lab # 1 => L3!InstructionsComplete
-----------------------------------------------------------------------------
\* Instructions as their formats encode them: the fields a format does not have
\* hold bits of the immediate.  Bit 30 is set in sub; an offset that is one of the
\* few words here need not have it set.
Fields(op, rd, rs1, rs2, imm) ==
  [op |-> op, rd |-> rd, rs1 |-> rs1, rs2 |-> rs2, imm |-> imm, bit30 |-> op = "sub"]
R(op, rd, rs1, rs2)   == Fields(op, rd, rs1, rs2, 0)
I(op, rd, rs1, imm)   == Fields(op, rd, rs1, imm, imm)
SB(op, rs1, rs2, imm) == Fields(op, imm, rs1, rs2, imm)
J(rd, imm)            == Fields("jal", rd, 0, imm, imm)

MCRegs == [r \in 0..3 |-> r]
MCData == [c \in 0..1 |-> c + 2]

Common == { R("add", 1, 1, 2), R("sub", 2, 1, 2), I("addi", 1, 1, 1), I("addi", 0, 1, 1),
            I("lw", 1, 2, 0), I("lw", 2, 1, 1), I("lw", 0, 1, 0),
            SB("sw", 1, 2, 0), SB("sw", 2, 1, 1),
            SB("beq", 1, 2, 2), SB("bne", 1, 2, 3), SB("bne", 2, 0, 2),
            J(1, 2), J(0, 3), I("jalr", 2, 1, 0) }

\* What JalrAssumption leaves
MCPool == LET pipelined == Common \cup {I("jalr", 1, 1, 3)}
          IN  <<Common \cup {[I("jalr", 1, 2, 3) EXCEPT !.bit30 = TRUE]}, pipelined, pipelined>>
=============================================================================
