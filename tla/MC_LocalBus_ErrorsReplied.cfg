CONSTANTS
    r1 = r1
    r2 = r2
    Ids <- MC_Ids
    Requests <- MC_Requests
    Tables = 2
SPECIFICATION Spec
INVARIANT ErrorsReplied
