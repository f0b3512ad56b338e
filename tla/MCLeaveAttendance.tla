------------------------- MODULE MCLeaveAttendance -------------------------
(* A small instance of LeaveAttendance: the periods of MCLeave, and the    *)
(* attendance record of the day that two of them share.                    *)
EXTENDS LeaveAttendance, LeaveAccounting, TLC

CONSTANTS monday, mondayTuesday, friday

MCDaysOf == (monday :> 1) @@ (mondayTuesday :> 2) @@ (friday :> 1)
MCOverlap == {<<s, t>> \in Span \X Span : s = t \/ friday \notin {s, t}}
MCDatesOf == (monday :> {"mon"}) @@ (mondayTuesday :> {"mon"}) @@ (friday :> {})

Rules(deduct, reserve, ceiling, typeAllows) ==
    [deduct |-> deduct, reserve |-> reserve, ceiling |-> ceiling,
     typeAllows |-> typeAllows]

\* No deduction; no reservation; strict; debt of one day.

Strict == Rules(TRUE, TRUE, 0, FALSE)
MCPolicy == {Rules(FALSE, FALSE, 0, FALSE), Rules(TRUE, FALSE, 0, FALSE), Strict,
             Rules(TRUE, TRUE, 1, TRUE)}
MCAdjustment == {-1, 1}

\* The records are written only in behaviours without changes by administrators
\* and under the strict policy, beside one call at a time; the employee
\* clocks in or out, and runs overlap, only while there is one request.
Apart ==
    /\ running # {} \/ recorded # {} \/ punch # NoPunch =>
          /\ changes = 0 /\ policy = Strict
          /\ \E c \in Call : \A b \in Call \ {c} : call[b] = Idle
    /\ changes > 0 => \A r \in Request : event[r] \in {"none", "owed"}
    /\ punch # NoPunch \/ Cardinality(running) > 1 =>
          \E r \in Request : status[r] = "Absent"
BoundedSpec == SyncInit /\ [][SyncNext /\ Apart']_syncVars

CallSymmetry == Permutations(Call) \cup Permutations(Request)
=============================================================================
