SPECIFICATION FairSpec
CONSTANTS
    MaxAddr = 7
    Regs = 3
    Vector = 4
    Written <- MCWritten
    CpuTypes = {1}
    Boots <- MCBoots
    Patches <- MCPatches
    Entries <- MCEntries
    Calls <- MCCalls
    CacheSize = 2
    SkipWays = 2
    TRACE_MAX_OPS = 5
    TRACE_MIN_OPS = 2
    TRACE_MIN_SELF_LOOP_OPS = 2
    TRACE_MIN_INDIRECT_JSR_OPS = 3
    SALVAGE_MIN_OPS = 3
    TRACE_HOT_THRESHOLD = 2
    TRACE_LINEAR_HOT_THRESHOLD = 3
    TRACE_TRAP_SEGMENT_HOT_THRESHOLD = 3
    HitCap = 3
    TRACE_EXIT_CHAIN_BUDGET = 2
    TRACE_ADAPT_WINDOW = 3
    TRACE_ADAPT_MISMATCHES = 2
    TRACE_MAX_ADAPTIVE_RERECORDS = 1
    NO_TERMINAL_STRIKE_LIMIT = 2
    CALL_THROUGH_MAX_SPAN = 4
    MAX_SKIP_OPS = 2
    Envs <- MCEnvs
PROPERTY
    CallReturns
