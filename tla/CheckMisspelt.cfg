SPECIFICATION Spec
CONSTANTS
    None = None
    p1 = p1
    p2 = p2
    px = px
    e1 = e1
    f1 = f1
    f2 = f2
    u1 = u1
    u2 = u2
    dir = dir
    systemdirs = systemdirs
    set = set
    SetNames <- MCSetNames
    Under <- MCUnder
    Keywords = {systemdirs}
    Escaped = {px}
    NameOrder <- MCNameOrder
    Contents <- MisspeltContents
    Edited <- MisspeltContents
    Start <- MCStart
    Events <- MCEvents
    Unreadable = {}
    MaxEdits = 1
INVARIANT AllowedIsTrue

CHECK_DEADLOCK FALSE
