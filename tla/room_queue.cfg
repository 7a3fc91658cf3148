SPECIFICATION PunctualSpec
CONSTANTS
    TotalStudents = 7
    MaxConcurrent = 3
    SemSlot <- MCSemSlot
    Clobber <- MCClobber
INVARIANTS
    QueueOrder
    WaitsForBatch
    SeatsTaken
