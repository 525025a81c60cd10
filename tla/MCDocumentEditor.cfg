SPECIFICATION ViewSpec
CONSTANTS
    IntBits = 4
    LongBits = 23
    MinDate <- FirstDate
    MaxDate = 3456000
    DaysInMonth = 28
    Nows <- Moments
    Documents <- AllDocuments
    Typed <- Fragments
    Zone <- India
    MaxEdits = 2
    Results <- AllResults
    Use <- Uses
    Stamp <- Stamps
    MaxSelected = 2
INVARIANTS UnchangedIsSame EveryMemberKept ItemsShowTheirValue CopiedLeadsBack ActsOnSelected
