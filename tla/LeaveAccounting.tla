-------------------------- MODULE LeaveAccounting --------------------------
(***************************************************************************)
(* The leave workflow implements LeaveAccount, whatever the calls read in  *)
(* an earlier step and whatever administrators do to the total and to the  *)
(* policy meanwhile.                                                       *)
(***************************************************************************)
EXTENDS LeaveRequest

PhaseOf(s) == CASE s \in {"Absent", "Draft"} -> "open"
                [] s = "Pending" -> "pending"
                [] s = "Approved" -> "approved"
                [] OTHER -> "closed"

\* The days of the row that r has: reserved or used, and not given back.
DaysHeld(r) == IF effect[r] \in {"Reserved", "Used"} THEN Days(r) ELSE 0

Account == INSTANCE LeaveAccount WITH
    Size    <- {0} \cup {DaysOf[s] : s \in Span},
    phase   <- [r \in Request |-> PhaseOf(status[r])],
    days    <- [r \in Request |-> DaysHeld(r)],
    pending <- balance.pending,
    used    <- balance.used

\* Every step of a call, of a decision or of an administrator is a step of the
\* account or moves no days (updateRequestTx and the balance updates of each
\* handler).
ImplementsAccount == Account!Spec
=============================================================================
