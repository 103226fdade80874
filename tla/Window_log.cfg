SPECIFICATION WSpec
CONSTANTS
    Run = {r1, r2}
    NoRun = NoRun
    STARTUP_GRACE = 0
    HANDSHAKE_TIMEOUT = 1
    STALE_HANDSHAKE_AGE = 0
    RECENT_TRAFFIC_WINDOW = 1
    MaxLines = 1
    Escapes = {}
    Profile = {p1}
    NoProfile = NoProfile
PROPERTIES FailureKeepsLog
