SPECIFICATION Spec
CONSTANTS
    Absent = Absent
    MaxPayload = 32
    MaxFields = 7
    NoiseWords <- MCNoise
    Formats <- MCFormats
    Confs <- MCConfs
    Events = {}
    AuditEvents <- BackslashEvents
    Frames <- MCFrames
    Garbage <- MCGarbage
    Chatter <- MCChatter
    Enrichments <- MCEnrichments
INVARIANT ActedIsReal

CHECK_DEADLOCK FALSE
