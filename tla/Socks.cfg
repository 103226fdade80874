SPECIFICATION Spec
CONSTANTS
    Answers <- MCAnswers
    Hosts <- MCHosts
    OK <- MCOK
    EOL <- MCEOL
    MAX_BYTES = 5
    CHUNK = 3
INVARIANTS TypeOK PiecesDoNotMatter OSErrorIsEarned SocketIsReleased
PROPERTIES CallEnds
\* A call returns once; then there is nothing left to do.
CHECK_DEADLOCK FALSE
