SPECIFICATION Spec
CONSTANTS
    monday = monday
    mondayTuesday = mondayTuesday
    friday = friday
    Request = {r1, r2}
    Call = {c1, c2}
    Span = {monday, mondayTuesday, friday}
    DaysOf <- MCDaysOf
    Overlap <- MCOverlap
    Policy <- MCStrict
    Total = {0, 2}
    Adjustment <- MCAdjustment
    AccrualPeriod = {p1}
    AccrualDays = 2
    MaxChanges = 0
INVARIANTS
    PendingWithinCeiling
CHECK_DEADLOCK FALSE
