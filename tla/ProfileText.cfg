SPECIFICATION Spec
CONSTANTS
    Drafts <- MCDrafts
    Lines <- MCLines
    MaxEdits = 2
    MaxHeader = 6
    Empty = Empty
    Placeholder = Placeholder
    k1 = k1
    k2 = k2
    word = word
INVARIANTS TypeOK ComplaintIsExact KeyComesBack EngineGetsTheImport KeyLeavesTheText
