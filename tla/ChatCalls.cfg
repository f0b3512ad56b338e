SPECIFICATION BoundedSpec
CONSTANTS
    User = {u1, u2, u3}
    Leaver = {u1, u2}
    Joiner = {u3}
    Call = {k1, k2}
    NoCall = NoCall
    twin = u2
    first = k1
    MaxInvitees = 3
INVARIANTS
    TypeOK
    OutcomesTellTheTruth
    EndIsAnnounced
PROPERTIES
    HistoryIsFinal
    RoomComesFree
CHECK_DEADLOCK FALSE
