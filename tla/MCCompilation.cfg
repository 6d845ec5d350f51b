SPECIFICATION FairSpec
CONSTANTS
    c1 = c1
    c2 = c2
    c3 = c3
    p1 = p1
    p2 = p2
    None = None
    Calls = {c1, c2, c3}
    Guarded = {c1}
    Plugins = {p1, p2}
    PluginOf <- TwoPlugins
    MaxCompiling = 2
CHECK_DEADLOCK FALSE
INVARIANTS
    PermitsAccounted
    OwnProvider
    NothingLeftBehind
PROPERTIES
    CallReturns
    CompilationEnds
