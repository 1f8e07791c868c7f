SPECIFICATION Spec
CONSTANTS
  Models <- MCModels
  Opcodes <- MCOpcodes
  Streams <- MCStreams
  Native = FALSE
INVARIANTS
    DecodersAgree
    EntryCurrent
    SnapshotSkippedSafely
