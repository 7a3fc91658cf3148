SPECIFICATION FairSpec
CONSTANTS
    TotalStudents = 5
    MaxConcurrent = 2
    SemSlot <- MCSemSlot
    Clobber <- MCClobber
INVARIANTS
    TurnOrder
    SeatAccounting
    LineAccounting
    AdmissionSafe
    RoomOutlivesThreads
    HangIsKnown
PROPERTIES
    OvertakenForever
    ImplementsVisits
    EveryoneArrives
    RoomEmpties
    ClosesUnlessRefused
