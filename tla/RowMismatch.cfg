CONSTANTS
    WordRange = 65536
    Families <- ContactFolders
SPECIFICATION MCSpec
INVARIANT
    RowMatchesSubObject
