SPECIFICATION Spec
CONSTANTS
    Run = {r1, r2}
    NoRun = NoRun
    Worker = {w1, w2}
    MaxLines = 2
    PipeCapacity = 1
    MaxOutput = 4
    Blank = {2}
INVARIANTS TypeOK LogIsTail TestingIsTrue
PROPERTIES OutputFlows ReadersEnd TestsAreReported
