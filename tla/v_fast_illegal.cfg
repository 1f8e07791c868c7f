SPECIFICATION Spec
CONSTANTS
  Models <- MCModels
  Opcodes <- MCOpcodes
  Streams <- MCStreams
  Native = FALSE

INVARIANT IllegalWordsTrap
