CONSTANTS
    OffsetRange = 65536
    BlockBody = 172
    AllocMax = 3580
    Schemas <- MCSchemas
    RowIds = {3, 5, 8}
    CellSizes = {0, 23}
    FirstNids = {0, 64, 65}
    MaxRows = 3
SPECIFICATION Spec
INVARIANTS
    TypeOK
    RowsReadBack
    EstimateExact
    WalkAccepts
