CONSTANTS
    OffsetRange = 65536
    BlockBody = 8176
    AllocMax = 3580
    Tags = {1, 5}
    Numbers = {37, 96}
    Sizes = {0, 5, 3580, 3582}
    Descriptors <- MCDescriptors
    FirstNids = {65, 64}
    MaxProps = 3
SPECIFICATION FairSpec
INVARIANTS
    TypeOK
    ReadsBack
    SubnodeNidsDistinct
    OversizeRefused
PROPERTY
    ReadingEnds
