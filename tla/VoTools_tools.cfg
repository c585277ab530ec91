SPECIFICATION MCSpec
CONSTANTS
    Pristine <- MCPristine
    Disassemblies <- MCDisassemblies
    PatchTables <- MCPatchTables
    RegionTables <- MCRegionTables
    Equates <- MCEquates
    Shims <- MCShims
    Tails <- MCTails
    Vectors = 6
    Low = 3
    High = 2
    Mask = 4
    Beeps <- MCBeeps
    Hands = {"hit", "reset"}
    MaxTicks = 6
    MaxSkew = 1
    MaxStalls = 1
    MaxBroken = 2
    RECOVER_TAIL = 2
    REPAIR_BOUND = 1
    GAP = 1
    MinFrames = 2
CHECK_DEADLOCK FALSE
INVARIANT ToolsInv EveryByteHome ShipsThePatch NothingLost
INVARIANT CorrectPairPasses PassMeansRepaired QuickRepairPasses
PROPERTY FollowsStock
