SPECIFICATION Spec
CONSTANTS
  Payloads <- MCCut
  Kinds = {"Text"}
  Bodies = {}
  Status <- MCStatus
  Refusal <- MCRefusal
  NoKey = NoKey
  Fronts <- MCFronts
  MaxMessageSize = 5
INVARIANTS
  ReturnsFullMessages
