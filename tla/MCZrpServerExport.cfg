CONSTANTS
    c1 = c1  c2 = c2  w1 = w1  w2 = w2  f1 = f1  f2 = f2  f3 = f3  e1 = e1
    Settings <- OneSetting
    Slots = {1}
    FIDS = 2
    DONE_CACHE = 3
    WORKERS_MAX = 2
    QUEUE_MAX = 2
    Worker = {w1, w2}
    Sfid = {f1, f2, f3}
    Export = {e1}
    MaxGeneration = 2
SPECIFICATION Spec
INVARIANT
    ExportFreedOnce
CHECK_DEADLOCK FALSE
