SPECIFICATION Spec
CONSTANTS
  MaxNidIndex = 1030
  MaxBlockPayload = 2
  MaxXBlockChildren = 2
  Configs <- CollidingConfig
  RowsInHeap = 1
  RowsPromoted = 3
  RowSize = 2
  IpmRowsInHeap = 2
  MaxBlocks = 60
  MaxNodes = 39
INVARIANT SubnodeNidsUnique
