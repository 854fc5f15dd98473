SPECIFICATION Spec
CONSTANTS
    Prices <- MCPrices
    Fills <- MCFills
    Sizes = {2}
    Risk = 4
    Reward = 12
    MaxPositions = 1
    MaxHeld = 4
    Scenarios <- MCRestarts
INVARIANT AdoptedStaysBounded
