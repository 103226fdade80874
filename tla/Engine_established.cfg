SPECIFICATION Spec
CONSTANTS
    Run = {r1, r2}
    NoRun = NoRun
    STARTUP_GRACE = 1
    HANDSHAKE_TIMEOUT = 2
    STALE_HANDSHAKE_AGE = 1
    RECENT_TRAFFIC_WINDOW = 1
    MaxLines = 1
    Escapes = {}
PROPERTIES EstablishedNotTimedOut
