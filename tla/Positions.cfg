SPECIFICATION Spec
CONSTANTS
    Prices <- MCPrices
    Fills <- MCFills
    Sizes = {4}
    Risk = 4
    Reward = 12
    MaxPositions = 1
    MaxHeld = 4
    Scenarios <- MCScenarios
INVARIANTS TypeOK ProfitLocked 
PROPERTIES StopNeverLoosens ReconciledMatchesBroker
