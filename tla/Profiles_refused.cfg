SPECIFICATION Spec
CONSTANTS
    Profile = {p1, p2}
    Torn = Torn
    NoFile = NoFile
    Failures = {"flush"}
INVARIANTS RefusedStaysOut
