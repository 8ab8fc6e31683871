\* A container of two chunks that may be puffed to three, launched with no
\* swap, two chunks of it, or no limit but the workload's.  The ratio is scaled
\* so that a swap of two chunks is saturated at one already and can still move.
CONSTANTS
    LaunchMax = 2
    MaxLimit = 3
    SwapMaxes = {0, 2, Unlimited}
    SwapHeadroom = 1
    Saturating = 1
    Whole = 2
    Unlimited = Unlimited
    MaxAllocation = 4
    MaxPolls = 2
    Timeout = 2
SPECIFICATION Spec
INVARIANTS TypeOK PreflightProvesSwap AbAccounts
PROPERTIES
    SaturationIsThrottled ThrashingIsThrottled OcmReachesSuspend WatchersEnd
    PreflightEnds
CHECK_DEADLOCK FALSE
