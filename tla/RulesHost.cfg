SPECIFICATION Spec
CONSTANTS
    None = None
    e = e
    f = f
    ef = ef
    ax = ax
    ay = ay
    abz = abz
    abx = abx
    ux = ux
    uy = uy
    uz = uz
    tx = tx
    ty = ty
    tz = tz
    rx = rx
    sp = sp
    dA = dA
    dB = dB
    dAb = dAb
    dU = dU
    dT = dT
    bA = bA
    bB = bB
    bAb = bAb
    bU = bU
    bT = bT
    set = set
    u1 = u1
    u2 = u2
    Spelling <- MCSpelling
    Under <- MCUnder
    Shared <- MCShared
    WorldWritable <- MCWorldWritable
    SetNames <- MCSetNames
    Keywords = {}
    Escaped = {}
    Control = {}
    Split = {sp}
    Unencoded = "?"
    MaxPrefix = 999
    Hosts <- MCHosts
    Legacies <- MCLegacies
    Contents <- MCContents
    Names <- MCNames
    Accesses <- MCAccesses
    Tried <- MCTried
    Flags <- MCFlags
    MaxLog = 2
    Unreadable <- MCUnreadable
INVARIANTS Resolves NothingWider TotalOrder

CHECK_DEADLOCK FALSE
