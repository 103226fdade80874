SPECIFICATION WSpec
CONSTANTS
    Run = {r1}
    NoRun = NoRun
    STARTUP_GRACE = 0
    HANDSHAKE_TIMEOUT = 1
    STALE_HANDSHAKE_AGE = 0
    RECENT_TRAFFIC_WINDOW = 1
    MaxLines = 1
    Escapes = {"OSError"}
    Profile = {p1, p2}
    NoProfile = NoProfile
INVARIANTS Watched
PROPERTIES HandlersReturn StalledTunnelIsStopped DeadEngineIsNoticed
