SPECIFICATION FairSpec
CONSTANTS
    Procs = {p1, p2}
    External = {p1}
    NoProc = noproc
    Restarters = {r}
    Switchers = {s}
    Ensurers = {e}
    Monitor = monitor
    NoOne = noone
    Faults = {"crash", "hang", "boot"}
INVARIANTS TypeOK OneServer NoLockout
PROPERTIES OwnRestartApplies ComesBack
CHECK_DEADLOCK FALSE
