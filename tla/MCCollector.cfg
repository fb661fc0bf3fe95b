SPECIFICATION Spec
CONSTANTS
  Payloads <- MCPayloads
  Kinds = {"Text", "Binary"}
  Bodies <- MCBodies
  Status <- MCStatus
  Refusal <- MCRefusal
  NoKey = NoKey
  Fronts <- MCFronts
  MaxMessageSize = 5
INVARIANTS
  TypeOK
  ReturnedTextIsUtf8
  HeldIsLimited
PROPERTIES
  CollectsMessages
