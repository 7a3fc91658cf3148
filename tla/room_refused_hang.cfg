SPECIFICATION FairPunctualSpec
CONSTANTS
    TotalStudents = 4
    MaxConcurrent = 2
    SemSlot <- MCSemSlot
    Clobber <- MCClobber
PROPERTIES
    RefusedGetIn
