\* Sweeps over three containers that outlive them.  Any command of suspend()
\* succeeds; any other step of a program may fail, or the program be killed.
CONSTANTS
    p1 = p1
    p2 = p2
    c1 = c1
    c2 = c2
    c3 = c3
    cu = cu
    None = None
    Torn = Torn
    Callers = {p1}
    Containers = {c1, c2, c3}
    Uncapped = {}
    Mortal = {}
    Operated = {}
    NameReuse = FALSE
    Faults <- NotInSuspend
    Unread = {}
    HostTotal = 760
    Requests = {200}
    Targets = {100}
    Amounts = {None}
    Growth = {200}
    Release = {}
    MaxLaunch = 3
    MaxLimit = 760
SPECIFICATION Spec
SYMMETRY ContainerSymmetry
INVARIANT NothingLeftAtTrigger
PROPERTIES OvercommitOnlyWhenExhausted EarliestJobFirst SweepTakesWhatIsMissing ReclaimedAreThrottled
