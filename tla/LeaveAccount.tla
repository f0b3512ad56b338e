---------------------------- MODULE LeaveAccount ----------------------------
(***************************************************************************)
(* What the leave workflow promises of one balance row, without locks,     *)
(* calls, policies or administrators: a request takes its days once, when  *)
(* it is submitted; an approval turns exactly the days it holds into used  *)
(* days; and whatever closes a request gives back exactly what it has of   *)
(* the row, once and for good.  Every move of days is one step with its    *)
(* rows of the ledger, and nothing else moves any.                         *)
(***************************************************************************)
EXTENDS Integers, Sequences

CONSTANTS
    Request,  \* leave requests
    Size      \* days a request may take of the row; 0 if it takes none

VARIABLES
    phase,    \* phase[r]: "open", "pending", "approved" or "closed"
    days,     \* days[r]: the days of the row that r has
    pending,  \* pending days of the row
    used,     \* used days of the row
    ledger    \* ledger[r]: what was recorded for r

vars == <<phase, days, pending, used, ledger>>

Init ==
    /\ phase = [r \in Request |-> "open"]
    /\ days = [r \in Request |-> 0]
    /\ pending = 0
    /\ used = 0
    /\ ledger = [r \in Request |-> <<>>]

\* The rows that a move of the days of r adds to its ledger.
Record(r, d, rows) ==
    ledger' = IF d = 0 THEN ledger ELSE [ledger EXCEPT ![r] = @ \o rows]

Submit(r) ==
    /\ phase[r] = "open"
    /\ phase' = [phase EXCEPT ![r] = "pending"]
    /\ \E d \in Size : /\ days' = [days EXCEPT ![r] = d]
                      /\ pending' = pending + d
                      /\ Record(r, d, <<"RESERVE">>)
    /\ used' = used

Approve(r) ==
    /\ phase[r] = "pending"
    /\ phase' = [phase EXCEPT ![r] = "approved"]
    /\ days' = days
    /\ pending' = pending - days[r]
    /\ used' = used + days[r]
    /\ Record(r, days[r], <<"RELEASE", "USE">>)

GiveUp(r) ==
    /\ phase' = [phase EXCEPT ![r] = "closed"]
    /\ days' = [days EXCEPT ![r] = 0]

Release(r) ==
    /\ phase[r] \in {"open", "pending"}
    /\ GiveUp(r)
    /\ pending' = pending - days[r]
    /\ used' = used
    /\ Record(r, days[r], <<"RELEASE">>)

Refund(r) ==
    /\ phase[r] = "approved"
    /\ GiveUp(r)
    /\ pending' = pending
    /\ used' = used - days[r]
    /\ Record(r, days[r], <<"REFUND">>)

Next ==
    \E r \in Request : Submit(r) \/ Approve(r) \/ Release(r) \/ Refund(r)

Spec == Init /\ [][Next]_vars
=============================================================================
