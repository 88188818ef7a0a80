SPECIFICATION NumbersSpec
CONSTANTS
    DigT1 = 27504
    DigT2 = 26435
    T3Word = 64536
    Bytes <- MCBytes
    Pressures <- MCPressures
    Stores <- MCStores
    Numbers <- MCNumbers
    Tails <- MCTails
INVARIANT LoggedIsMeasured
