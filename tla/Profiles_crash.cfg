SPECIFICATION Spec
CONSTANTS
    Profile = {p1, p2, p3}
    Torn = Torn
    NoFile = NoFile
    Failures = {"store", "clear", "load", "kill"}
INVARIANTS TypeOK ToldIsUsable
PROPERTIES IsVault
