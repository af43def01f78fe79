SPECIFICATION ToolSpec
CONSTANTS
    Fns = {"f", "g", "h", "x", "k"}
    Externs = {"x"}
    NotSend = {"x", "k"}
    Cells <- Globals
    SharedFields = {"wakeups"}
    Cpus = {c1, c2}
    Graphs <- CallGraphs
    Roots <- RootSets
    Touches <- TouchedBodies
    Bodies <- Awaits
    Main = "outer"
    Foreign = {"ext"}
    MaxPending = 1
    MaxPolls = 3
    Root = "app"
    Trees <- PackageTrees
    Broken <- BrokenSets
    Headers <- EntryHeaders
    ByteBits = 2
    IntBits = 4
    WideBits = 6
    MaxEvents = 8
    Programs = {"Arithmetic", "Conditions", "While", "For", "Loop", "Alias", "Struct", "Slice", "Globals", "Scopes", "Bits", "Masks", "Shifts", "Missing", "Twice"}
    Literals = {0, 1, 2, 3}
    Inputs <- InputRange
    Levels = {0, 1, 2}
    Modes = {"Auto", "Strict"}
INVARIANTS PropagatesToAll NoPlainRace
           FramesHeld RunsOnce NoFrameLeaks
           SameBehaviour ValidCode
           OnlySendCrosses SendIsStructural
           ParsedAsLaidOut FormatPreserves
           BuildsEachOnce LockNamesBuild
PROPERTIES PropagationEnds BlockOnEnds ParsingEnds ToolCommandsEnd
CHECK_DEADLOCK FALSE
