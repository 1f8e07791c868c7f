SPECIFICATION Spec
CONSTANTS
  Scenarios <- SafetyScenarios
  MaxDepth = 200
INVARIANTS
    TypeOK
    LatchClear
    QueueCoherent
    FaultsSettled
    InterruptsTaken
    StacksBalanced
    GuestCountersInStep
PROPERTIES
    HaltedUntilReset
