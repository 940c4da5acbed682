SPECIFICATION FairSpec
CONSTANTS
    b1 = b1
    c1 = c1
    Bills = {b1}
    Cmds = {}
    NoteOn <- MCNoteOn
    NoUrl = {}
    Loops = {loop}
    Testers = {tester}
    MaxTries = 2
    MaxFault = 1
INVARIANTS
    TypeOK
    ToldUnlessCrossed
    CallsBounded
PROPERTY EventuallyGone
CHECK_DEADLOCK FALSE
