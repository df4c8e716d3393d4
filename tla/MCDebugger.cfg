SPECIFICATION Spec
CONSTANTS
  Text <- MCText
  Goes <- MCGoes
  Trap = "int3"
  Halt = "hlt"
  Word = 2
  MAX_BPS = 2
  Places <- MCPlaces
  Landings = {0, 3}
  Writes <- MCWrites
INVARIANT BreakpointsArmed
PROPERTY ImplementsProgram
