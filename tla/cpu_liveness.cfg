SPECIFICATION FairSpec
CONSTANTS
  Scenarios <- LivenessScenarios
  MaxDepth = 200
PROPERTIES
    TracedAndProgressing
    StopWakes
