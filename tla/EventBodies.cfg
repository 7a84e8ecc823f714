SPECIFICATION Spec
CONSTANTS
  MaxNidIndex = 1030
  MaxBlockPayload = 2
  MaxXBlockChildren = 2
  Configs <- LongBodyConfig
  IpmRowsInHeap = 2
  MaxBlocks = 37
  MaxNodes = 37
INVARIANT PromotedPropertiesStored
