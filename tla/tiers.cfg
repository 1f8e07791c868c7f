SPECIFICATION Spec
CONSTANTS
  Bits <- MCBits
  AddressSpace = 32
  Programs <- MCPrograms
  Machines <- MCMachines
INVARIANTS SimpleIsStep FastIsStep TraceIsStep FastInWindow
CHECK_DEADLOCK FALSE
