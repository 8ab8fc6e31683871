\* Two jobs, whose executor e1 is relaunched as e2 or, in a second attempt of
\* the application, as l1.  Three lines of log after those of an earlier run:
\* enough for a slacking line, its update and a second one, or for lines before
\* and after a stop.
CONSTANTS
    top = top
    middle = middle
    base = base
    b1 = b1
    b2 = b2
    e1 = e1
    e2 = e2
    l1 = l1
    None = None
    Torn = Torn
    Layers <- MCLayers
    N = 2
    Boxes = {e1, e2, l1}
    FirstAttempt = {e1, e2}
    Earlier <- EarlierRun
    Events <- SomeEvents
    MaxLog = 3
SPECIFICATION Spec
INVARIANTS TypeOK BlobsVerified ImageFaithful AppIdsInOrder MetricsCount PlotFindsShrinks
PROPERTIES RetriesSucceed ScriptEnds
CHECK_DEADLOCK FALSE
