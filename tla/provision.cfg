CONSTANTS
    None = None
    Digits = 3
    Provisioners = {p1, p2}
    Readers = {r}
    Requests <- Rivals
SPECIFICATION Spec
INVARIANTS RowMatchesTable KeptStaysTrue VerifiedUnlessOvertaken RecoveredIsNoOp InSyncIsNoOp
    ColumnsNameLevels FileKeepsDeclaration
