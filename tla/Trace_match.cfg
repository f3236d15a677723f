SPECIFICATION Spec
CONSTANTS
    Purses <- MCPurses
    MaxVout = 2
    MaxCalls = 4
    MaxDepth = 3
    MaxOut = 1
    AmountMax = 100
    Exact = 2
    Units <- MCUnits
INVARIANTS SwapsExact LiquidityExact SubfrostExact InspectAgrees
CHECK_DEADLOCK FALSE
