SPECIFICATION Spec
CONSTANTS
    Absent = Absent
    MaxPayload = 32
    MaxFields = 7
    NoiseWords <- MCNoise
    Formats <- MCFormats
    Confs <- MCConfs
    Events <- MCEvents
    AuditEvents <- MCAuditEvents
    Frames <- MCFrames
    Garbage <- MCGarbage
    Chatter <- MCChatter
    Enrichments <- MCEnrichments
INVARIANTS ActedIsReal WholeIsActed

CHECK_DEADLOCK FALSE
