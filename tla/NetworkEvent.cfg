CONSTANTS
    v1 = v1
    v2 = v2
    none = none
    None <- none
    Parts <- MCParts
    Values <- MCValues
    MaxChanges = 3
SPECIFICATION FairSpec
INVARIANTS
    BroadcastOnlyChanges
PROPERTIES
    FinalStateBroadcast
