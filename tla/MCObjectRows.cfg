CONSTANTS
    WordRange = 65536
    Families <- MCFamilies
SPECIFICATION MCSpec
INVARIANTS
    TypeOK
    RowsMatchObjects
    CellsHaveColumns
    TablesWellLaidOut
    PropertiesWritable
    TextsSurvive
    FiletimesExact
