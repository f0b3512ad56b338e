------------------------------ MODULE MCLeave ------------------------------
(* Small instances of LeaveRequest: two periods that overlap and one apart *)
(* from both, of one and two days.                                         *)
EXTENDS LeaveRequest, TLC

CONSTANTS monday, mondayTuesday, friday

MCDaysOf == (monday :> 1) @@ (mondayTuesday :> 2) @@ (friday :> 1)
MCOverlap == {<<s, t>> \in Span \X Span : s = t \/ friday \notin {s, t}}

Rules(deduct, reserve, ceiling, typeAllows) ==
    [deduct |-> deduct, reserve |-> reserve, ceiling |-> ceiling,
     typeAllows |-> typeAllows]

\* No deduction; no reservation; strict; debt of one day.
Strict == Rules(TRUE, TRUE, 0, FALSE)
Debt == Rules(TRUE, TRUE, 1, TRUE)
MCPolicy == {Rules(FALSE, FALSE, 0, FALSE), Rules(TRUE, FALSE, 0, FALSE),
             Strict, Debt}
MCStrict == {Strict}
MCDebt == {Debt}
MCAdjustment == {-1, 1}

CallSymmetry == Permutations(Call) \cup Permutations(Request)
=============================================================================
