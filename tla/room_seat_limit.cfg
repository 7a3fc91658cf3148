SPECIFICATION PunctualSpec
CONSTANTS
    TotalStudents = 5
    MaxConcurrent = 2
    SemSlot <- MCSemSlot
    Clobber <- MCClobber
INVARIANTS
    SeatLimit
