SPECIFICATION MCSpec
CONSTANTS
    Nodes <- MCNodes
    Words <- MCWords
    Abbrev <- MCAbbrev
    Shape <- MCShape
    IfNames <- MCIfNames
    CMD_ARGC_MAX = 3
    MaxWords = 3
    SessionWords <- MCSessionWords
    EnablePassword = TRUE
INVARIANTS
    MatchSound
    KeysAgree
    SessionServed
    LineShown
    LoopInOrder
PROPERTIES
    LineEdited
CHECK_DEADLOCK FALSE
