SPECIFICATION Spec
CONSTANTS
    Profile = {p1, p2, p3}
    Torn = Torn
    NoFile = NoFile
    Failures = {"store", "flush", "load", "kill"}
INVARIANTS DiskIsWhole RemovedIsGone DowngradeIsTold
