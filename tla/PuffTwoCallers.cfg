\* Two programs interleave step by step, fail anywhere, and go on without the
\* limit or the creation time of a container that does not answer.
CONSTANTS
    p1 = p1
    p2 = p2
    c1 = c1
    c2 = c2
    c3 = c3
    cu = cu
    None = None
    Torn = Torn
    Callers = {p1, p2}
    Containers = {c1}
    Uncapped = {}
    Mortal = {c1}
    Operated = {}
    NameReuse = FALSE
    Faults <- Everywhere
    Unread = {c1}
    HostTotal = 400
    Requests = {300}
    Targets = {}
    Amounts = {None}
    Growth = {150}
    Release = {150}
    MaxLaunch = 1
    MaxLimit = 320
SPECIFICATION Spec
SYMMETRY CallerSymmetry
PROPERTY KeepsLaunchMemory
