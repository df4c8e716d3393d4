SPECIFICATION Spec
CONSTANTS
  Wrap = 4
  Cells = 2
  BtbSize = 2
  Regs <- MCRegs
  Data <- MCData
  Labs = {1, 2, 3}
  Pool <- MCPool
PROPERTIES ProcessorsImplementMachine InstructionsComplete
