SPECIFICATION Spec
CONSTANTS
  HeaderSize = 3
  IbAMap = 8
  PageSize = 4
  Coverage = 20
  BbtLeafMax = 3
  NbtLeafMax = 2
  BtMax = 3
  MaxB = 10
  MaxN = 7
  MaxBlockPayload = 7
  MaxXChildren = 11
  XBlockPages = 12
  LooseNextP = 5
  Calls <- MCCalls
  WalkFails <- MCWalkFails
INVARIANTS TypeOK PlacedWhereComputed ReadableWhereRoom PageBidsDistinct NothingAfterAShortWrite InspectorTells
