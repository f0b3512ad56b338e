SPECIFICATION BoundedSpec
CONSTANTS
    monday = monday
    mondayTuesday = mondayTuesday
    friday = friday
    Request = {r1, r2}
    Call = {c1, c2}
    Span = {monday, mondayTuesday, friday}
    DaysOf <- MCDaysOf
    Overlap <- MCOverlap
    Policy <- MCPolicy
    Total = {0, 2}
    Adjustment <- MCAdjustment
    AccrualPeriod = {p1}
    AccrualDays = 2
    MaxChanges = 1
    Date = {"mon"}
    DatesOf <- MCDatesOf
    MaxRunning = 2
SYMMETRY CallSymmetry
INVARIANTS
    SyncTypeOK
    BalanceIsSumOfRequests
    EffectMatchesStatus
    GhostLeaveIsPaidFor
    ApprovedLeaveShows
    NoApprovedDayForgotten
PROPERTIES
    SettledIsFinal
    ImplementsAccount
CHECK_DEADLOCK FALSE
