SPECIFICATION Spec
CONSTANTS
  Bits <- MCBits
  AddressSpace = 32
  Programs <- MCPrograms
  Machines <- MCMachines
INVARIANT FastBusComplete
CHECK_DEADLOCK FALSE
