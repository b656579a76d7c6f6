SPECIFICATION Spec
CONSTANTS
    None = None
    p1 = p1
    p2 = p2
    px = px
    e1 = e1
    f1 = f1
    f2 = f2
    u1 = u1
    u2 = u2
    dir = dir
    systemdirs = systemdirs
    set = set
    SetNames <- MCSetNames
    Under <- MCUnder
    Keywords = {systemdirs}
    Escaped = {px}
    NameOrder <- MCNameOrder
    Contents <- MCContents
    Edited <- MCEdited
    Start <- MCStart
    Events <- MCEvents
    Unreadable = {"10"}
    MaxEdits = 2
INVARIANTS TypeOK AllowedIsTrue DeniedIsTrue NothingProposed Decisive

CHECK_DEADLOCK FALSE
