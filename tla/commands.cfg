SPECIFICATION Spec
CONSTANTS
    b1 = b1
    c1 = c1
    Bills = {b1}
    Cmds = {c1}
    NoteOn <- MCNoteOn
    NoUrl = {b1}
    Loops = {loop}
    Testers = {}
    MaxTries = 2
    MaxFault = 1
INVARIANTS
    ToldUnlessCrossed
CHECK_DEADLOCK FALSE
