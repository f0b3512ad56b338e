-------------------------- MODULE LeaveAttendance --------------------------
(***************************************************************************)
(* How approved leave reaches the attendance records of the employee of    *)
(* LeaveRequest (AttendanceLeaveSyncService) and leaves them again, while  *)
(* the employee clocks in and out (AttendanceService).                     *)
(*                                                                         *)
(* Approving marks the days of the request for synchronisation and         *)
(* enqueues leave.request.approved in its own transaction; a consumer of   *)
(* that event, or an administrator's recalculation, writes the records     *)
(* later in a transaction of its own, which locks nothing of the request.  *)
(* Cancelling or revoking an approved request takes the leave off the      *)
(* records within its own transaction.                                     *)
(*                                                                         *)
(* All days are whole working days, and the rule in force blocks clocking  *)
(* in and out on approved leave, as the default rule does.                 *)
(***************************************************************************)
EXTENDS LeaveRequest

CONSTANTS
    Date,       \* dates whose attendance records are looked at
    DatesOf,    \* DatesOf[s]: those of them that are working days of period s
    MaxRunning  \* synchronisations under way at once

ASSUME LeaveAttendanceAssumption ==
    /\ DatesOf \in [Span -> SUBSET Date]
    /\ \A s, t \in Span :
          DatesOf[s] \cap DatesOf[t] # {} => <<s, t>> \in Overlap
    /\ MaxRunning \in Nat

VARIABLES
    event,    \* event[r]: leave.request.approved of r, for the one consumer
    sync,     \* sync[r][d]: attendance_sync_status of the day d of r
    running,  \* runs that have read the days of a request as still to do
    recorded, \* dates with a row in attendance_records
    leaveOn,  \* leaveOn[d]: the request whose leave the record of d shows
    punch,    \* a clock-in or clock-out between its checks and its write
    raced     \* what each request has met, see Race

recordVars == <<recorded, leaveOn>>
attendanceVars == <<event, sync, running, recordVars, punch, raced>>
syncVars == <<vars, attendanceVars>>

\* What the event layer promises (EventDelivery): an event is owed until it is
\* delivered or buried as a dead letter, and may be delivered again meanwhile.
EventStatus == {"none", "owed", "done", "dead"}
SyncStatus == {"Not Required", "Pending", "Synced", "Failed", "Reverted"}
\* The consumer of the event, and POST /internal/v1/attendance/recalculate.
Run == {"event", "recalculate"}
NoPunch == [pc |-> "idle"]

\* A request is undone under a run of it, is approved under a punch on one of
\* its dates, or loses its leave to the undoing of another request.
Race == {"run", "punch", "overlap"}

Dates(r) == DatesOf[span[r]]
\* The dates of r whose day-rows have this status.
DatesIn(r, at) == {d \in Dates(r) : sync[r][d] = at}

SyncInit ==
    /\ Init
    /\ event = [r \in Request |-> "none"]
    /\ sync = [r \in Request |-> [d \in Date |-> "Not Required"]]
    /\ running = {}
    /\ recorded = {}
    /\ leaveOn = [d \in Date |-> {}]
    /\ punch = NoPunch
    /\ raced = {}

-----------------------------------------------------------------------------
(* What an approval and its undoing do beside the workflow.                *)

\* markDaysSyncPendingTx and outbox.enqueue.
PublishApproval(r) ==
    /\ sync' = [sync EXCEPT ![r] =
                  [d \in Date |-> IF d \in Dates(r) THEN "Pending" ELSE sync[r][d]]]
    /\ event' = [event EXCEPT ![r] = "owed"]
    /\ raced' = IF punch.pc = "write" /\ punch.date \in Dates(r)
                THEN raced \cup {<<r, "punch">>} ELSE raced
    /\ UNCHANGED <<running, recordVars, punch>>

\* revertRequestTx: the records of synchronised days lose their leave, whoever
\* wrote it; a Failed day is left as it is.  (RevertsPending looks for the wrong
\* status.)
Revert(r, from) ==
    LET undone == DatesIn(r, from)
        under == {q \in {r} : \E k \in Run : <<r, k>> \in running}
        beside == {q \in Request \ {r} : /\ status[q] = "Approved"
                                         /\ DatesIn(q, "Synced") \cap undone # {}} IN
    /\ sync' = [sync EXCEPT ![r] =
                  [d \in Date |-> IF d \in undone THEN "Reverted" ELSE sync[r][d]]]
    /\ leaveOn' = [d \in Date |-> IF d \in undone THEN {} ELSE leaveOn[d]]
    /\ raced' = raced \cup (under \X {"run"}) \cup (beside \X {"overlap"})
    /\ UNCHANGED <<event, running, recorded, punch>>
RevertsPending(r) == Revert(r, "Pending")
RevertDays(r) == Revert(r, "Synced")

Approve(c) == CommitApprove(c) /\ PublishApproval(call[c].req)
CancelLeave(c) == CancelApproved(c) /\ RevertDays(call[c].req)
RevokeLeave(r) == Revoke(r) /\ RevertDays(r)

-----------------------------------------------------------------------------
(* syncApprovedRequestTx                                                   *)

\* findSyncableDaysTx: the days are Active as long as the request is Approved,
\* and wait together, since a run ends the wait of all of them.
ToDo(r) == status[r] = "Approved" /\ DatesIn(r, "Pending") # {}

StartRun(r, k) ==
    /\ ToDo(r)
    /\ k = "event" => event[r] = "owed"
    /\ <<r, k>> \notin running
    /\ Cardinality(running) < MaxRunning
    /\ running' = running \cup {<<r, k>>}
    /\ UNCHANGED <<vars, event, sync, recordVars, punch, raced>>

\* The handler returns; the worker may die before it notes that.
Deliver(r) ==
    \E e \in {"owed", "done"} : event' = [event EXCEPT ![r] = e]

\* The event finds nothing to do: it was handled before, or the request undone.
NothingToDo(r) ==
    /\ event[r] = "owed" /\ <<r, "event">> \notin running
    /\ ~ToDo(r)
    /\ Deliver(r)
    /\ UNCHANGED <<vars, sync, running, recordVars, punch, raced>>

\* A database error on one day aborts the transaction: what the catch block
\* writes fails too, the run rolls back and the event stays owed.
\* (SwallowsError reports success.)
SwallowsError(r, k) ==
    /\ <<r, k>> \in running
    /\ running' = running \ {<<r, k>>}
    /\ IF k = "event" THEN Deliver(r) ELSE event' = event
    /\ UNCHANGED <<vars, sync, recordVars, punch, raced>>
AbortRun(r, k) ==
    /\ <<r, k>> \in running
    /\ running' = running \ {<<r, k>>}
    /\ UNCHANGED <<vars, event, sync, recordVars, punch, raced>>

\* All records and days commit together; the days are updated by their ids,
\* whatever has become of the request.  The days in failed threw without an
\* error of the database (no user of the request is found, a write returns no
\* row): the catch block marks them, and no run takes them up again.
CommitRun(r, k) ==
    /\ <<r, k>> \in running
    /\ running' = running \ {<<r, k>>}
    /\ \E failed \in SUBSET Dates(r) :
          /\ sync' = [sync EXCEPT ![r] =
                [d \in Date |-> IF d \in failed THEN "Failed"
                               ELSE IF d \in Dates(r) THEN "Synced" ELSE sync[r][d]]]
          /\ recorded' = recorded \cup (Dates(r) \ failed)
          /\ leaveOn' = [d \in Date |-> IF d \in Dates(r) \ failed THEN {r}
                                       ELSE leaveOn[d]]
    /\ IF k = "event" THEN Deliver(r) ELSE event' = event
    /\ UNCHANGED <<vars, punch, raced>>

\* The worker gives up on an event.
Bury(r) ==
    /\ event[r] = "owed" /\ <<r, "event">> \notin running
    /\ event' = [event EXCEPT ![r] = "dead"]
    /\ UNCHANGED <<vars, sync, running, recordVars, punch, raced>>

-----------------------------------------------------------------------------
(* AttendanceService.checkIn and checkOut                                  *)

\* The checks end with: no approved leave on the date.  (PunchesOnLeave drops
\* assertNotOnApprovedLeave.)
BeginPunch(d) ==
    /\ punch.pc = "idle"
    /\ punch' = [pc |-> "write", date |-> d, found |-> d \in recorded]
    /\ UNCHANGED <<vars, event, sync, running, recordVars, raced>>
PunchesOnLeave(d) == BeginPunch(d)
StartPunch(d) ==
    /\ BeginPunch(d)
    /\ \A r \in Request : status[r] = "Approved" => d \notin Dates(r)

\* The record found is overwritten; if none was found one is inserted, unless
\* somebody else has inserted it meanwhile.
CommitPunch ==
    LET d == punch.date IN
    /\ punch.pc = "write"
    /\ punch.found \/ d \notin recorded
    /\ punch' = NoPunch
    /\ recorded' = recorded \cup {d}
    /\ leaveOn' = [leaveOn EXCEPT ![d] = {}]
    /\ UNCHANGED <<vars, event, sync, running, raced>>

AbortPunch ==
    /\ punch.pc = "write"
    /\ punch' = NoPunch
    /\ UNCHANGED <<vars, event, sync, running, recordVars, raced>>

-----------------------------------------------------------------------------
LeaveStep ==
    \/ PlainStep /\ UNCHANGED attendanceVars
    \/ \E c \in Call : Approve(c) \/ CancelLeave(c)
    \/ \E r \in Request : RevokeLeave(r)

RunStep(r) ==
    \/ \E k \in Run : StartRun(r, k) \/ CommitRun(r, k) \/ AbortRun(r, k)
    \/ NothingToDo(r) \/ Bury(r)

PunchStep == (\E d \in Date : StartPunch(d)) \/ CommitPunch \/ AbortPunch

SyncNext == LeaveStep \/ (\E r \in Request : RunStep(r)) \/ PunchStep

SyncSpec == SyncInit /\ [][SyncNext]_syncVars

-----------------------------------------------------------------------------
(* Properties                                                              *)

\* Every variable keeps its type, those of the workflow included.
SyncTypeOK ==
    /\ TypeOK
    /\ event \in [Request -> EventStatus]
    /\ sync \in [Request -> [Date -> SyncStatus]]
    /\ running \subseteq Request \X Run
    /\ recorded \subseteq Date
    /\ leaveOn \in [Date -> SUBSET Request]
    /\ punch \in {NoPunch} \cup [pc: {"write"}, date: Date, found: BOOLEAN]
    /\ raced \subseteq Request \X Race

Undone(r) == status[r] \in {"Cancelled", "Revoked"}

\* A cancelled or revoked request has left the attendance records: its leave
\* shows there only if a run was writing it at the moment it was undone
\* (undoApprovedTx reverts in the same transaction; the run does not look at
\* the request again), or if a second run, which had read the day before the
\* first one committed, has marked it Failed.
GhostLeaveIsPaidFor ==
    \A r \in Request, d \in Date :
        r \in leaveOn[d] /\ Undone(r) =>
            <<r, "run">> \in raced \/ sync[r][d] = "Failed"

\* The days of an approved request that count as synchronised are on leave in
\* the attendance records, unless the employee was clocking in or out there
\* when it was approved (assertNotOnApprovedLeave blocks every later clock-in),
\* or another request for one of the dates was undone since.
ApprovedLeaveShows ==
    \A r \in Request : status[r] = "Approved" =>
        \/ \A d \in DatesIn(r, "Synced") : leaveOn[d] # {}
        \/ <<r, "punch">> \in raced \/ <<r, "overlap">> \in raced

\* No day of an approved request is dropped in silence: it is synchronised, or
\* stands as Failed for somebody to look at (no run takes it again), or the
\* event of the request is still owed to the consumer or a dead letter.
NoApprovedDayForgotten ==
    \A r \in Request : status[r] = "Approved" =>
        \A d \in Dates(r) :
            \/ sync[r][d] \in {"Synced", "Failed"}
            \/ sync[r][d] = "Pending" /\ event[r] \in {"owed", "dead"}
=============================================================================
