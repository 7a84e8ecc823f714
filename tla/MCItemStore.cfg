SPECIFICATION Spec
CONSTANTS
  MaxNidIndex = 1030
  MaxBlockPayload = 2
  MaxXBlockChildren = 2
  Configs <- MCConfigs
  IpmRowsInHeap = 2
  MaxBlocks = 37
  MaxNodes = 37
INVARIANTS TypeOK StoreComplete
PROPERTIES ImplementsStoreNodes
