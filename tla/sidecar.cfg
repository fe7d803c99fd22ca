SPECIFICATION MCSpec
CONSTANTS
    Threads = {c1, t1}
    consumer = c1
    Helpers = {h1}
    Slots = {1, 3}
    root0 = 0
    MaxRollbacks = 1
    UpdateSlots = {3}
    MaxPublished = 1
INVARIANTS  ViewsAgree
PROPERTIES ShutdownCompletes
CHECK_DEADLOCK FALSE
