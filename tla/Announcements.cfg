CONSTANTS
    loop = loop
    sweeper = sweeper
    one = one
    two = two
    Nobody = Nobody
    Threads = {loop, sweeper}
    Process <- OneProcess
    Verifications = {v}
    Contents = {v, purged}
    MaxChanges = 2
    MaxEntries = 2
    MaxCrashes = 1
SPECIFICATION AnnouncementsSpec
INVARIANTS
    ChainIntact
    NothingUnrecorded
    RepeatsAreBounded
PROPERTIES
    EveryEventEnds
CHECK_DEADLOCK FALSE
