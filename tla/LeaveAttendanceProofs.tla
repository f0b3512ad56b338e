------------------------ MODULE LeaveAttendanceProofs ------------------------
(***************************************************************************)
(* Proofs about LeaveAttendance, for any number of requests, calls, dates  *)
(* and runs.  The composition implements the workflow of LeaveRequest, so  *)
(* that what is proved there holds here; the inductive invariant says      *)
(* which traces a request may have left in the days and the records at     *)
(* each stage, and what it has met if a run or a punch is under way.       *)
(***************************************************************************)
EXTENDS LeaveAttendance, LeaveRequestProofs

(* Only requests that were approved have anything to synchronise, runs or  *)
(* leave on the records, and that only on dates of theirs that a run ended.*)
WasApproved(r) == status[r] \in {"Approved", "Cancelled", "Revoked"}
DaysFit ==
    \A r \in Request, d \in Date : sync[r][d] # "Not Required" => WasApproved(r)
RunsFit ==
    \A r \in Request, k \in Run : <<r, k>> \in running => WasApproved(r)
LeaveFits ==
    \A r \in Request, d \in Date : r \in leaveOn[d] =>
        sync[r][d] \in {"Synced", "Failed"} /\ d \in Dates(r)

(* A run that works on an undone request was under way when it was undone. *)
RunsAreRaced ==
    \A r \in Request, k \in Run :
        <<r, k>> \in running /\ Undone(r) => <<r, "run">> \in raced

(* A punch that will write on an approved day began before the approval.   *)
PunchesAreRaced ==
    \A r \in Request :
        /\ punch.pc = "write" /\ status[r] = "Approved"
        /\ punch.date \in Dates(r)
        => <<r, "punch">> \in raced

Traces ==
    /\ SyncTypeOK
    /\ DaysFit
    /\ RunsFit
    /\ LeaveFits
    /\ RunsAreRaced
    /\ PunchesAreRaced
    /\ GhostLeaveIsPaidFor
    /\ ApprovedLeaveShows
    /\ NoApprovedDayForgotten

-----------------------------------------------------------------------------
(* The composition implements the workflow.                                *)

LEMMA SyncStepIsStep == ASSUME [SyncNext]_syncVars PROVE [Next]_vars
<1>1. CASE LeaveStep
  BY <1>1 DEF LeaveStep, Next, Approve, CancelLeave, RevokeLeave
<1>2. CASE \E r \in Request : RunStep(r)
  BY <1>2 DEF RunStep, StartRun, CommitRun, AbortRun, NothingToDo, Bury
<1>3. CASE PunchStep
  BY <1>3 DEF PunchStep, StartPunch, BeginPunch, CommitPunch, AbortPunch
<1>4. CASE UNCHANGED syncVars
  BY <1>4 DEF syncVars
<1>5. QED  BY <1>1, <1>2, <1>3, <1>4 DEF SyncNext

(* Runs, punches and what approvals do to the days never disturb the       *)
(* workflow of requests: every behaviour with attendance is a behaviour of *)
(* LeaveRequest.                                                           *)
THEOREM AttendanceKeepsWorkflow == SyncSpec => Spec
<1>1. SyncInit => Init
  BY DEF SyncInit
<1>2. [SyncNext]_syncVars => [Next]_vars
  BY SyncStepIsStep
<1>3. QED  BY <1>1, <1>2, PTL DEF SyncSpec, Spec

-----------------------------------------------------------------------------
(* What the steps of the workflow do to the statuses.                      *)

LEMMA PlainApproves ==
    ASSUME LeaveInv, PlainStep, NEW q \in Request
    PROVE  status'[q] = "Approved" <=> status[q] = "Approved"
<1>0. TypeOK
  BY DEF LeaveInv
<1>1. ASSUME NEW c \in Call, OpenStep(c)
      PROVE  status'[q] = "Approved" <=> status[q] = "Approved"
  <2>1. ASSUME CommitSubmit(c) PROVE status'[q] = "Approved" <=> status[q] = "Approved"
    <3>1. call[c].req \in Request
      BY <1>0, <2>1, CallFields DEF CommitSubmit
    <3>2. status[call[c].req] \in {"Absent", "Draft"}
      BY <2>1 DEF CommitSubmit, LeaveInv, StatusHeld, Submitting
    <3>3. QED  BY <1>0, <2>1, <3>1, <3>2 DEF CommitSubmit, TypeOK
  <2>2. ASSUME CancelOpen(c) PROVE status'[q] = "Approved" <=> status[q] = "Approved"
    BY <1>0, <2>2 DEF CancelOpen, TypeOK
  <2>3. ASSUME UNCHANGED requestVars
        PROVE  status'[q] = "Approved" <=> status[q] = "Approved"
    BY <2>3 DEF requestVars
  <2>4. QED  BY <1>1, <2>1, <2>2, <2>3
             DEF OpenStep, StartSubmit, StartApprove, PeekCancel, CheckOverlap,
                 ReadBalance, Abort
<1>2. ASSUME NEW r \in Request, NEW s \in Span, CreateDraft(r, s) \/ UpdateDraft(r, s)
      PROVE  status'[q] = "Approved" <=> status[q] = "Approved"
  BY <1>0, <1>2 DEF CreateDraft, UpdateDraft, TypeOK
<1>3. ASSUME NEW r \in Request, Reject(r)
      PROVE  status'[q] = "Approved" <=> status[q] = "Approved"
  BY <1>0, <1>3 DEF Reject, TypeOK
<1>4. ASSUME UNCHANGED requestVars
      PROVE  status'[q] = "Approved" <=> status[q] = "Approved"
  BY <1>4 DEF requestVars
<1>5. QED  BY <1>1, <1>2, <1>3, <1>4
           DEF PlainStep, UpsertBalance, AdjustBalance, Accrue, EditPolicy

(* A request that was once approved keeps its dates and is never open      *)
(* again.                                                                  *)
LEMMA ApprovedStays ==
    ASSUME LeaveInv, [Next]_vars, NEW q \in Request,
           status[q] \in {"Approved", "Cancelled", "Revoked"}
    PROVE  /\ status'[q] \in {"Approved", "Cancelled", "Revoked"}
           /\ span'[q] = span[q]
           /\ status[q] # "Approved" => status'[q] = status[q]
<1>1. Final(q)
  BY FinalStep
<1>2. QED  BY <1>1 DEF Final, Settled, Active

LEMMA ApproveStatus ==
    ASSUME LeaveInv, NEW c \in Call, CommitApprove(c)
    PROVE  /\ call[c].req \in Request /\ status[call[c].req] = "Pending"
           /\ status' = [status EXCEPT ![call[c].req] = "Approved"]
           /\ span' = span
<1>1. TypeOK /\ StatusHeld
  BY DEF LeaveInv
<1>2. call[c].req \in Request
  BY <1>1, CallFields DEF CommitApprove
<1>3. QED  BY <1>1, <1>2 DEF CommitApprove, StatusHeld

-----------------------------------------------------------------------------
(* Steps of the workflow.                                                  *)

LEMMA PlainTraces ==
    ASSUME LeaveInv, LeaveInv', Traces, PlainStep, UNCHANGED attendanceVars
    PROVE  Traces'
<1>1. [Next]_vars /\ TypeOK'
  BY DEF Next, LeaveInv
<1>2. /\ event' = event /\ sync' = sync /\ running' = running
      /\ recorded' = recorded /\ leaveOn' = leaveOn /\ punch' = punch /\ raced' = raced
  BY DEF attendanceVars, recordVars
<1>3. \A q \in Request : status'[q] = "Approved" <=> status[q] = "Approved"
  BY PlainApproves
<1>4. \A q \in Request : status[q] \in {"Approved", "Cancelled", "Revoked"} =>
          /\ status'[q] \in {"Approved", "Cancelled", "Revoked"}
          /\ span'[q] = span[q]
          /\ status[q] # "Approved" => status'[q] = status[q]
  BY <1>1, ApprovedStays
<1>5. SyncTypeOK'
  BY <1>1, <1>2 DEF Traces, SyncTypeOK
<1>6. DaysFit' /\ RunsFit' /\ LeaveFits'
  <2>1. \A q \in Request : WasApproved(q) => WasApproved(q)' /\ Dates(q)' = Dates(q)
    BY <1>4 DEF WasApproved, Dates
  <2>2. DaysFit' /\ RunsFit'
    BY <1>2, <2>1 DEF Traces, DaysFit, RunsFit
  <2>3. LeaveFits'
    BY <1>2, <2>1 DEF Traces, DaysFit, LeaveFits
  <2>4. QED  BY <2>2, <2>3
<1>7. \A q \in Request : WasApproved(q) /\ Undone(q)' => Undone(q)
  <2> SUFFICES ASSUME NEW q \in Request, WasApproved(q), Undone(q)'
               PROVE  Undone(q)
    OBVIOUS
  <2>1. CASE status[q] = "Approved"
    <3>1. status'[q] = "Approved"
      BY <1>3, <2>1
    <3>2. QED  BY <3>1 DEF Undone
  <2>2. QED  BY <2>1 DEF Undone, WasApproved
<1>8. RunsAreRaced'
  BY <1>2, <1>7 DEF Traces, RunsFit, RunsAreRaced
<1>9. GhostLeaveIsPaidFor'
  BY <1>2, <1>7 DEF Traces, DaysFit, LeaveFits, GhostLeaveIsPaidFor
<1>10. \A q \in Request : status[q] = "Approved" => Dates(q)' = Dates(q)
  BY <1>4 DEF Dates
<1>11. PunchesAreRaced' /\ ApprovedLeaveShows' /\ NoApprovedDayForgotten'
  BY <1>2, <1>3, <1>10
  DEF Traces, PunchesAreRaced, ApprovedLeaveShows, NoApprovedDayForgotten, DatesIn
<1>12. QED  BY <1>5, <1>6, <1>8, <1>9, <1>11 DEF Traces

LEMMA ApproveTraces ==
    ASSUME LeaveInv, LeaveInv', Traces, NEW c \in Call, Approve(c)
    PROVE  Traces'
<1>1. PICK r \in Request : r = call[c].req
  BY ApproveStatus DEF Approve
<1>2. /\ status[r] = "Pending"
      /\ status' = [status EXCEPT ![r] = "Approved"] /\ span' = span
  BY <1>1, ApproveStatus DEF Approve
<1>3. /\ sync' = [sync EXCEPT ![r] =
             [d \in Date |-> IF d \in Dates(r) THEN "Pending" ELSE sync[r][d]]]
      /\ event' = [event EXCEPT ![r] = "owed"]
      /\ running' = running /\ recorded' = recorded /\ leaveOn' = leaveOn
      /\ punch' = punch
      /\ raced' = IF punch.pc = "write" /\ punch.date \in Dates(r)
                  THEN raced \cup {<<r, "punch">>} ELSE raced
  BY <1>1 DEF Approve, PublishApproval, recordVars
<1>4. SyncTypeOK /\ TypeOK' /\ status \in [Request -> Status]
  BY DEF Traces, SyncTypeOK, TypeOK, LeaveInv
<1>5. /\ \A d \in Date : sync[r][d] = "Not Required" /\ r \notin leaveOn[d]
      /\ \A k \in Run : <<r, k>> \notin running
  BY <1>2 DEF Traces, DaysFit, RunsFit, LeaveFits, WasApproved
<1>6. /\ status'[r] = "Approved" /\ event'[r] = "owed"
      /\ \A q \in Request \ {r} : /\ status'[q] = status[q] /\ sync'[q] = sync[q]
                                  /\ event'[q] = event[q]
      /\ \A q \in Request : Dates(q)' = Dates(q)
      /\ raced \subseteq raced'
  BY <1>2, <1>3, <1>4 DEF SyncTypeOK, Dates
<1>7. /\ sync'[r] \in [Date -> SyncStatus]
      /\ \A d \in Dates(r) : d \in Date /\ sync'[r][d] = "Pending"
  <2>1. Dates(r) \subseteq Date
    BY <1>2, <1>4, LeaveAttendanceAssumption DEF Dates, SyncTypeOK, TypeOK
  <2>2. sync'[r] = [d \in Date |-> IF d \in Dates(r) THEN "Pending" ELSE sync[r][d]]
    BY <1>2, <1>3, <1>4 DEF SyncTypeOK
  <2>3. sync[r] \in [Date -> SyncStatus]
    BY <1>2, <1>4 DEF SyncTypeOK
  <2>4. QED  BY <2>1, <2>2, <2>3 DEF SyncStatus
<1>8. SyncTypeOK'
  <2>1. raced' \subseteq Request \X Race
    BY <1>2, <1>3, <1>4 DEF SyncTypeOK, Race
  <2>2. event' \in [Request -> EventStatus]
    BY <1>2, <1>3, <1>4 DEF SyncTypeOK, EventStatus
  <2>3. sync' \in [Request -> [Date -> SyncStatus]]
    <3> DEFINE new == [d \in Date |-> IF d \in Dates(r) THEN "Pending" ELSE sync[r][d]]
    <3>1. sync' = [sync EXCEPT ![r] = new] /\ sync \in [Request -> [Date -> SyncStatus]]
      BY <1>3, <1>4 DEF SyncTypeOK
    <3> HIDE DEF new
    <3>2. sync'[r] = new
      BY <1>2, <3>1
    <3>3. QED  BY <1>7, <3>1, <3>2
  <2>4. QED  BY <1>3, <1>4, <2>1, <2>2, <2>3 DEF SyncTypeOK
<1>9. DaysFit' /\ RunsFit' /\ LeaveFits'
  <2>1. WasApproved(r)' /\ \A q \in Request : WasApproved(q) => WasApproved(q)'
    BY <1>2, <1>6 DEF WasApproved
  <2>2. DaysFit'
    BY <1>6, <2>1 DEF Traces, DaysFit
  <2>3. RunsFit'
    BY <1>3, <2>1 DEF Traces, RunsFit
  <2>4. ASSUME NEW q \in Request, NEW d \in Date, q \in leaveOn[d]
        PROVE  sync'[q][d] \in {"Synced", "Failed"} /\ d \in Dates(q)'
    <3>1. q # r
      BY <1>5, <2>4
    <3>2. sync[q][d] \in {"Synced", "Failed"} /\ d \in Dates(q)
      BY <2>4 DEF Traces, LeaveFits
    <3>3. QED  BY <1>6, <3>1, <3>2
  <2>5. LeaveFits'
    BY <1>3, <2>4 DEF LeaveFits
  <2>6. QED  BY <2>2, <2>3, <2>5
<1>10. RunsAreRaced' /\ GhostLeaveIsPaidFor'
  BY <1>2, <1>3, <1>6 DEF Traces, RunsAreRaced, GhostLeaveIsPaidFor, Undone
<1>11. PunchesAreRaced'
  BY <1>2, <1>3, <1>6 DEF Traces, PunchesAreRaced
<1>12. ApprovedLeaveShows' /\ NoApprovedDayForgotten'
  <2>1. DatesIn(r, "Synced")' = {}
    BY <1>6, <1>7 DEF DatesIn
  <2>2. \A q \in Request \ {r} : DatesIn(q, "Synced")' = DatesIn(q, "Synced")
    BY <1>6 DEF DatesIn
  <2>3. ApprovedLeaveShows'
    BY <1>3, <1>6, <2>1, <2>2 DEF Traces, ApprovedLeaveShows
  <2>4. NoApprovedDayForgotten'
    BY <1>6, <1>7 DEF Traces, NoApprovedDayForgotten
  <2>5. QED  BY <2>3, <2>4
<1>13. QED  BY <1>8, <1>9, <1>10, <1>11, <1>12 DEF Traces

LEMMA UndoTraces ==
    ASSUME LeaveInv, LeaveInv', Traces, NEW r \in Request,
           NEW to \in {"Cancelled", "Revoked"},
           UndoApproved(r, to), span' = span, RevertDays(r)
    PROVE  Traces'
<1> DEFINE undone == DatesIn(r, "Synced")
           under == {q \in {r} : \E k \in Run : <<r, k>> \in running}
           beside == {q \in Request \ {r} : /\ status[q] = "Approved"
                                            /\ DatesIn(q, "Synced") \cap undone # {}}
<1>1. status[r] = "Approved" /\ status' = [status EXCEPT ![r] = to]
  BY DEF UndoApproved
<1>2. SyncTypeOK /\ TypeOK' /\ status \in [Request -> Status]
  BY DEF Traces, SyncTypeOK, TypeOK, LeaveInv
<1>3. /\ event' = event /\ running' = running /\ recorded' = recorded /\ punch' = punch
      /\ sync' = [sync EXCEPT ![r] =
             [d \in Date |-> IF d \in undone THEN "Reverted" ELSE sync[r][d]]]
      /\ leaveOn' = [d \in Date |-> IF d \in undone THEN {} ELSE leaveOn[d]]
      /\ raced' = raced \cup (under \X {"run"}) \cup (beside \X {"overlap"})
  BY DEF RevertDays, Revert
<1>4. /\ status'[r] = to
      /\ \A q \in Request \ {r} : status'[q] = status[q]
      /\ \A q \in Request : Dates(q)' = Dates(q)
  BY <1>1, <1>2 DEF Dates
<1>5. /\ raced \subseteq raced'
      /\ \A k \in Run : <<r, k>> \in running => <<r, "run">> \in raced'
      /\ \A q \in beside : <<q, "overlap">> \in raced'
  BY <1>3
<1>6. \A d \in undone : d \in Dates(r) /\ sync[r][d] = "Synced"
  BY DEF DatesIn
<1>7. sync[r] \in [Date -> SyncStatus]
  BY <1>2 DEF SyncTypeOK
<1>8. /\ \A q \in Request \ {r} : sync'[q] = sync[q]
      /\ \A d \in Date : sync'[r][d] = IF d \in undone THEN "Reverted" ELSE sync[r][d]
  BY <1>2, <1>3 DEF SyncTypeOK
<1>9. /\ \A d \in Date, q \in Request : q \in leaveOn'[d] => q \in leaveOn[d]
      /\ \A d \in Date : d \notin undone => leaveOn'[d] = leaveOn[d]
      /\ \A d \in undone \cap Date : leaveOn'[d] = {}
  BY <1>3
<1>10. \A d \in Date : r \in leaveOn'[d] => sync'[r][d] = "Failed" /\ d \in Dates(r)
  <2> SUFFICES ASSUME NEW d \in Date, r \in leaveOn'[d]
               PROVE  sync'[r][d] = "Failed" /\ d \in Dates(r)
    OBVIOUS
  <2>1. d \notin undone /\ r \in leaveOn[d]
    BY <1>9
  <2>2. d \in Dates(r) /\ sync[r][d] \in {"Synced", "Failed"}
    BY <2>1 DEF Traces, LeaveFits
  <2>3. sync[r][d] # "Synced"
    BY <2>1, <2>2 DEF DatesIn
  <2>4. QED  BY <1>8, <2>1, <2>2, <2>3
<1>11. SyncTypeOK'
  <2>1. raced' \subseteq Request \X Race
    BY <1>2, <1>3 DEF SyncTypeOK, Race
  <2>2. leaveOn' \in [Date -> SUBSET Request]
    BY <1>2, <1>3 DEF SyncTypeOK
  <2>3. sync' \in [Request -> [Date -> SyncStatus]]
    <3> DEFINE new == [d \in Date |-> IF d \in undone THEN "Reverted" ELSE sync[r][d]]
    <3>1. new \in [Date -> SyncStatus]
      BY <1>7 DEF SyncStatus
    <3>2. sync' = [sync EXCEPT ![r] = new] /\ sync \in [Request -> [Date -> SyncStatus]]
      BY <1>2, <1>3 DEF SyncTypeOK
    <3> HIDE DEF new
    <3>3. QED  BY <3>1, <3>2
  <2>4. QED  BY <1>2, <1>3, <2>1, <2>2, <2>3 DEF SyncTypeOK
<1> HIDE DEF under, undone
<1>12. DaysFit' /\ RunsFit' /\ LeaveFits'
  <2>1. WasApproved(r)' /\ \A q \in Request : WasApproved(q) => WasApproved(q)'
    BY <1>4 DEF WasApproved
  <2>2. DaysFit'
    BY <1>8, <2>1 DEF Traces, DaysFit
  <2>3. RunsFit'
    BY <1>3, <2>1 DEF Traces, RunsFit
  <2>4. LeaveFits'
    BY <1>4, <1>8, <1>9, <1>10 DEF Traces, LeaveFits
  <2>5. QED  BY <2>2, <2>3, <2>4
<1>13. RunsAreRaced'
  BY <1>3, <1>4, <1>5 DEF Traces, RunsAreRaced, Undone
<1>14. GhostLeaveIsPaidFor'
  <2> SUFFICES ASSUME NEW q \in Request, NEW d \in Date, q \in leaveOn'[d], Undone(q)'
               PROVE  <<q, "run">> \in raced' \/ sync'[q][d] = "Failed"
    BY DEF GhostLeaveIsPaidFor
  <2>1. CASE q = r
    BY <1>10, <2>1
  <2>2. CASE q # r
    BY <1>4, <1>5, <1>8, <1>9, <2>2 DEF Traces, GhostLeaveIsPaidFor, Undone
  <2>3. QED  BY <2>1, <2>2
<1>15. PunchesAreRaced' /\ NoApprovedDayForgotten'
  BY <1>3, <1>4, <1>5, <1>8 DEF Traces, PunchesAreRaced, NoApprovedDayForgotten
<1>16. ApprovedLeaveShows'
  <2> SUFFICES ASSUME NEW q \in Request, status'[q] = "Approved",
                      <<q, "punch">> \notin raced', <<q, "overlap">> \notin raced',
                      NEW d \in DatesIn(q, "Synced")'
               PROVE  leaveOn'[d] # {}
    BY DEF ApprovedLeaveShows
  <2>1. q # r /\ status[q] = "Approved" /\ d \in DatesIn(q, "Synced")
    BY <1>4, <1>8 DEF DatesIn
  <2>2. d \in Date
    BY <1>2, <2>1, LeaveAttendanceAssumption DEF DatesIn, Dates, SyncTypeOK, TypeOK
  <2>3. leaveOn[d] # {}
    BY <1>5, <2>1 DEF Traces, ApprovedLeaveShows
  <2>4. d \notin undone
    BY <1>5, <2>1
  <2>5. QED  BY <1>9, <2>2, <2>3, <2>4
<1>17. QED  BY <1>11, <1>12, <1>13, <1>14, <1>15, <1>16 DEF Traces

LEMMA LeaveTraces ==
    ASSUME LeaveInv, LeaveInv', Traces, LeaveStep
    PROVE  Traces'
<1>1. ASSUME PlainStep, UNCHANGED attendanceVars PROVE Traces'
  BY <1>1, PlainTraces
<1>2. ASSUME NEW c \in Call, Approve(c) PROVE Traces'
  BY <1>2, ApproveTraces
<1>3. ASSUME NEW c \in Call, CancelLeave(c) PROVE Traces'
  <2>1. call[c].req \in Request
    BY <1>3, CallFields DEF CancelLeave, CancelApproved, LeaveInv
  <2>2. /\ UndoApproved(call[c].req, "Cancelled") /\ span' = span
        /\ RevertDays(call[c].req)
    BY <1>3 DEF CancelLeave, CancelApproved
  <2>3. QED  BY <2>1, <2>2, UndoTraces
<1>4. ASSUME NEW r \in Request, RevokeLeave(r) PROVE Traces'
  <2>1. UndoApproved(r, "Revoked") /\ span' = span /\ RevertDays(r)
    BY <1>4 DEF RevokeLeave, Revoke
  <2>2. QED  BY <2>1, UndoTraces
<1>5. QED  BY <1>1, <1>2, <1>3, <1>4 DEF LeaveStep

-----------------------------------------------------------------------------
(* Runs and punches: the workflow stands still.                            *)

LEMMA WorkflowStands ==
    ASSUME UNCHANGED vars
    PROVE  /\ status' = status /\ span' = span
           /\ \A q \in Request : Dates(q)' = Dates(q)
           /\ TypeOK => TypeOK'
<1>1. /\ status' = status /\ span' = span /\ effect' = effect /\ ledger' = ledger
      /\ balance' = balance /\ policy' = policy /\ accrued' = accrued
      /\ call' = call /\ changes' = changes
  BY DEF vars, requestVars
<1>2. QED  BY <1>1 DEF Dates, TypeOK

LEMMA StartTraces ==
    ASSUME Traces, NEW r \in Request, NEW k \in Run, StartRun(r, k)
    PROVE  Traces'
<1>1. /\ status' = status /\ \A q \in Request : Dates(q)' = Dates(q)
      /\ TypeOK'
  BY WorkflowStands DEF StartRun, Traces, SyncTypeOK
<1>2. /\ running' = running \cup {<<r, k>>} /\ event' = event /\ sync' = sync
      /\ recorded' = recorded /\ leaveOn' = leaveOn /\ punch' = punch /\ raced' = raced
      /\ status[r] = "Approved"
  BY DEF StartRun, recordVars, ToDo
<1>3. SyncTypeOK'
  BY <1>1, <1>2 DEF Traces, SyncTypeOK
<1>4. DaysFit' /\ RunsFit' /\ LeaveFits' /\ RunsAreRaced'
  BY <1>1, <1>2 DEF Traces, DaysFit, RunsFit, LeaveFits, RunsAreRaced,
                    Undone, WasApproved
<1>5. /\ PunchesAreRaced' /\ GhostLeaveIsPaidFor' /\ ApprovedLeaveShows'
      /\ NoApprovedDayForgotten'
  BY <1>1, <1>2 DEF Traces, PunchesAreRaced, GhostLeaveIsPaidFor, Undone,
                    ApprovedLeaveShows, NoApprovedDayForgotten, DatesIn
<1>6. QED  BY <1>3, <1>4, <1>5 DEF Traces

(* A step that ends runs without a trace, and moves events of requests     *)
(* that have nothing to do, or buries one.                                 *)
LEMMA QuietTraces ==
    ASSUME Traces, UNCHANGED vars, running' \subseteq running,
           UNCHANGED <<sync, recordVars, punch, raced>>,
           event' \in [Request -> EventStatus],
           \A q \in Request : ToDo(q) => event'[q] \in {event[q], "dead"}
    PROVE  Traces'
<1>1. /\ status' = status /\ \A q \in Request : Dates(q)' = Dates(q)
      /\ TypeOK'
  BY WorkflowStands DEF Traces, SyncTypeOK
<1>2. /\ sync' = sync /\ recorded' = recorded /\ leaveOn' = leaveOn
      /\ punch' = punch /\ raced' = raced
  BY DEF recordVars
<1>3. SyncTypeOK'
  BY <1>1, <1>2 DEF Traces, SyncTypeOK
<1>4. DaysFit' /\ RunsFit' /\ LeaveFits' /\ RunsAreRaced'
  BY <1>1, <1>2 DEF Traces, DaysFit, RunsFit, LeaveFits, RunsAreRaced,
                    Undone, WasApproved
<1>5. PunchesAreRaced' /\ GhostLeaveIsPaidFor' /\ ApprovedLeaveShows'
  BY <1>1, <1>2 DEF Traces, PunchesAreRaced, GhostLeaveIsPaidFor, Undone,
                    ApprovedLeaveShows, DatesIn
<1>6. NoApprovedDayForgotten'
  BY <1>1, <1>2 DEF Traces, NoApprovedDayForgotten, ToDo, DatesIn
<1>7. QED  BY <1>3, <1>4, <1>5, <1>6 DEF Traces

LEMMA CommitTraces ==
    ASSUME Traces, NEW r \in Request, NEW k \in Run, CommitRun(r, k)
    PROVE  Traces'
<1>1. /\ status' = status /\ span' = span /\ \A q \in Request : Dates(q)' = Dates(q)
      /\ TypeOK'
  BY WorkflowStands DEF CommitRun, Traces, SyncTypeOK
<1>2. /\ <<r, k>> \in running /\ running' = running \ {<<r, k>>}
      /\ punch' = punch /\ raced' = raced
  BY DEF CommitRun
<1>3. PICK failed \in SUBSET Dates(r) :
         /\ sync' = [sync EXCEPT ![r] =
               [d \in Date |-> IF d \in failed THEN "Failed"
                              ELSE IF d \in Dates(r) THEN "Synced" ELSE sync[r][d]]]
         /\ recorded' = recorded \cup (Dates(r) \ failed)
         /\ leaveOn' = [d \in Date |-> IF d \in Dates(r) \ failed THEN {r}
                                      ELSE leaveOn[d]]
  BY Zenon DEF CommitRun
<1>4. /\ event' \in [Request -> EventStatus]
      /\ \A q \in Request \ {r} : event'[q] = event[q]
  <2>1. event \in [Request -> EventStatus]
    BY DEF Traces, SyncTypeOK
  <2>2. CASE k = "event"
    <3>1. Deliver(r)
      BY <2>2 DEF CommitRun
    <3>2. QED  BY <2>1, <3>1 DEF Deliver, EventStatus
  <2>3. CASE k # "event"
    <3>1. event' = event
      BY <2>3 DEF CommitRun
    <3>2. QED  BY <2>1, <3>1
  <2>4. QED  BY <2>2, <2>3
<1>5. Dates(r) \subseteq Date
  BY LeaveAttendanceAssumption DEF Dates, Traces, SyncTypeOK, TypeOK
<1>6. /\ \A q \in Request \ {r} : sync'[q] = sync[q]
      /\ \A d \in failed : sync'[r][d] = "Failed"
      /\ \A d \in Dates(r) \ failed : sync'[r][d] = "Synced"
      /\ \A d \in Date \ Dates(r) : sync'[r][d] = sync[r][d]
  BY <1>3, <1>5 DEF Traces, SyncTypeOK
<1>7. /\ \A d \in Dates(r) \ failed : leaveOn'[d] = {r}
      /\ \A d \in Date \ (Dates(r) \ failed) : leaveOn'[d] = leaveOn[d]
  BY <1>3, <1>5
<1>8. SyncTypeOK'
  <2>1. leaveOn' \in [Date -> SUBSET Request] /\ recorded' \subseteq Date
    BY <1>3, <1>5 DEF Traces, SyncTypeOK
  <2>2. sync' \in [Request -> [Date -> SyncStatus]]
    <3> DEFINE new == [d \in Date |-> IF d \in failed THEN "Failed"
                        ELSE IF d \in Dates(r) THEN "Synced" ELSE sync[r][d]]
    <3>1. sync[r] \in [Date -> SyncStatus]
      BY DEF Traces, SyncTypeOK
    <3>2. new \in [Date -> SyncStatus]
      BY <3>1 DEF SyncStatus
    <3>3. sync' = [sync EXCEPT ![r] = new] /\ sync \in [Request -> [Date -> SyncStatus]]
      BY <1>3 DEF Traces, SyncTypeOK
    <3> HIDE DEF new
    <3>4. QED  BY <3>2, <3>3
  <2>3. QED  BY <1>1, <1>2, <1>4, <2>1, <2>2 DEF Traces, SyncTypeOK
<1>9. DaysFit' /\ RunsFit' /\ LeaveFits'
  <2>1. WasApproved(r) /\ \A q \in Request : WasApproved(q)' <=> WasApproved(q)
    BY <1>1, <1>2 DEF Traces, RunsFit, WasApproved
  <2>2. DaysFit'
    BY <1>6, <2>1 DEF Traces, DaysFit
  <2>3. RunsFit'
    BY <1>2, <2>1 DEF Traces, RunsFit
  <2>4. ASSUME NEW d \in Date, r \in leaveOn'[d]
        PROVE  sync'[r][d] \in {"Synced", "Failed"} /\ d \in Dates(r)
    <3>1. CASE d \in Dates(r)
      BY <1>6, <3>1
    <3>2. CASE d \notin Dates(r)
      BY <1>7, <2>4, <3>2 DEF Traces, LeaveFits
    <3>3. QED  BY <3>1, <3>2
  <2>5. ASSUME NEW q \in Request, q # r, NEW d \in Date, q \in leaveOn'[d]
        PROVE  sync'[q][d] \in {"Synced", "Failed"} /\ d \in Dates(q)
    <3>1. q \in leaveOn[d]
      BY <1>7, <2>5
    <3>2. QED  BY <1>6, <2>5, <3>1 DEF Traces, LeaveFits
  <2>6. LeaveFits'
    BY <1>1, <2>4, <2>5 DEF LeaveFits
  <2>7. QED  BY <2>2, <2>3, <2>6
<1>10. RunsAreRaced' /\ PunchesAreRaced'
  BY <1>1, <1>2 DEF Traces, RunsAreRaced, PunchesAreRaced, Undone
<1>11. GhostLeaveIsPaidFor'
  <2> SUFFICES ASSUME NEW q \in Request, NEW d \in Date, q \in leaveOn'[d], Undone(q)
               PROVE  <<q, "run">> \in raced' \/ sync'[q][d] = "Failed"
    BY <1>1 DEF GhostLeaveIsPaidFor, Undone
  <2>1. CASE q = r
    BY <1>2, <2>1 DEF Traces, RunsAreRaced
  <2>2. CASE q # r
    <3>1. q \in leaveOn[d]
      BY <1>7, <2>2
    <3>2. QED  BY <1>2, <1>6, <2>2, <3>1 DEF Traces, GhostLeaveIsPaidFor
  <2>3. QED  BY <2>1, <2>2
<1>12. ApprovedLeaveShows'
  <2> SUFFICES ASSUME NEW q \in Request, status[q] = "Approved",
                      <<q, "punch">> \notin raced, <<q, "overlap">> \notin raced,
                      NEW d \in Dates(q), sync'[q][d] = "Synced"
               PROVE  leaveOn'[d] # {}
    BY <1>1, <1>2 DEF ApprovedLeaveShows, DatesIn
  <2>1. d \in Date
    BY LeaveAttendanceAssumption DEF Dates, Traces, SyncTypeOK, TypeOK
  <2>2. CASE d \in Dates(r) \ failed
    BY <1>7, <2>2
  <2>3. CASE d \notin Dates(r) \ failed
    <3>1. sync[q][d] = "Synced"
      BY <1>6, <2>1, <2>3
    <3>2. leaveOn[d] # {}
      BY <3>1 DEF Traces, ApprovedLeaveShows, DatesIn
    <3>3. QED  BY <1>7, <2>1, <2>3, <3>2
  <2>4. QED  BY <2>2, <2>3
<1>13. NoApprovedDayForgotten'
  <2> SUFFICES ASSUME NEW q \in Request, status[q] = "Approved", NEW d \in Dates(q)
               PROVE  \/ sync'[q][d] \in {"Synced", "Failed"}
                      \/ sync'[q][d] = "Pending" /\ event'[q] \in {"owed", "dead"}
    BY <1>1 DEF NoApprovedDayForgotten
  <2>1. CASE q = r
    BY <1>6, <2>1
  <2>2. CASE q # r
    BY <1>4, <1>6, <2>2 DEF Traces, NoApprovedDayForgotten
  <2>3. QED  BY <2>1, <2>2
<1>14. QED  BY <1>8, <1>9, <1>10, <1>11, <1>12, <1>13 DEF Traces

LEMMA RunTraces ==
    ASSUME Traces, NEW r \in Request, RunStep(r)
    PROVE  Traces'
<1>1. ASSUME NEW k \in Run, AbortRun(r, k) PROVE Traces'
  <2>1. /\ UNCHANGED vars /\ running' \subseteq running /\ event' = event
        /\ UNCHANGED <<sync, recordVars, punch, raced>>
    BY <1>1 DEF AbortRun
  <2>2. QED  BY <2>1, QuietTraces DEF Traces, SyncTypeOK
<1>2. ASSUME NothingToDo(r) PROVE Traces'
  <2>1. /\ UNCHANGED vars /\ running' = running
        /\ UNCHANGED <<sync, recordVars, punch, raced>> /\ ~ToDo(r)
    BY <1>2 DEF NothingToDo
  <2>2. PICK e \in {"owed", "done"} : event' = [event EXCEPT ![r] = e]
    BY <1>2 DEF NothingToDo, Deliver
  <2>3. /\ event' \in [Request -> EventStatus]
        /\ \A q \in Request \ {r} : event'[q] = event[q]
    BY <2>2 DEF Traces, SyncTypeOK, EventStatus
  <2>4. QED  BY <2>1, <2>3, QuietTraces
<1>3. ASSUME Bury(r) PROVE Traces'
  <2>1. /\ UNCHANGED vars /\ running' = running
        /\ UNCHANGED <<sync, recordVars, punch, raced>>
        /\ event' = [event EXCEPT ![r] = "dead"]
    BY <1>3 DEF Bury
  <2>2. /\ event' \in [Request -> EventStatus]
        /\ \A q \in Request : event'[q] \in {event[q], "dead"}
    BY <2>1 DEF Traces, SyncTypeOK, EventStatus
  <2>3. QED  BY <2>1, <2>2, QuietTraces
<1>4. QED  BY <1>1, <1>2, <1>3, StartTraces, CommitTraces DEF RunStep

LEMMA StartPunchTraces ==
    ASSUME Traces, NEW d \in Date, StartPunch(d)
    PROVE  Traces'
<1>1. /\ status' = status /\ \A q \in Request : Dates(q)' = Dates(q)
      /\ TypeOK'
  BY WorkflowStands DEF StartPunch, BeginPunch, Traces, SyncTypeOK
<1>2. /\ punch' = [pc |-> "write", date |-> d, found |-> d \in recorded]
      /\ event' = event /\ sync' = sync /\ running' = running
      /\ recorded' = recorded /\ leaveOn' = leaveOn /\ raced' = raced
      /\ \A q \in Request : status[q] = "Approved" => d \notin Dates(q)
  BY DEF StartPunch, BeginPunch, recordVars
<1>3. SyncTypeOK'
  <2>1. punch' \in [pc: {"write"}, date: Date, found: BOOLEAN]
    BY <1>2
  <2>2. QED  BY <1>1, <1>2, <2>1 DEF Traces, SyncTypeOK
<1>4. PunchesAreRaced'
  BY <1>1, <1>2 DEF PunchesAreRaced
<1>5. DaysFit' /\ RunsFit' /\ LeaveFits' /\ RunsAreRaced'
  BY <1>1, <1>2 DEF Traces, DaysFit, RunsFit, LeaveFits, RunsAreRaced,
                    Undone, WasApproved
<1>6. GhostLeaveIsPaidFor' /\ ApprovedLeaveShows' /\ NoApprovedDayForgotten'
  BY <1>1, <1>2 DEF Traces, GhostLeaveIsPaidFor, Undone, ApprovedLeaveShows,
                    NoApprovedDayForgotten, DatesIn
<1>7. QED  BY <1>3, <1>4, <1>5, <1>6 DEF Traces

(* The record that the punch overwrites loses a leave only if the request  *)
(* was approved under the punch.                                           *)
LEMMA CommitPunchTraces == ASSUME Traces, CommitPunch PROVE Traces'
<1>1. /\ status' = status /\ \A q \in Request : Dates(q)' = Dates(q)
      /\ TypeOK'
  BY WorkflowStands DEF CommitPunch, Traces, SyncTypeOK
<1>2. /\ punch.pc = "write" /\ punch' = NoPunch
      /\ recorded' = recorded \cup {punch.date}
      /\ leaveOn' = [leaveOn EXCEPT ![punch.date] = {}]
      /\ event' = event /\ sync' = sync /\ running' = running /\ raced' = raced
  BY DEF CommitPunch
<1>3. punch.date \in Date
  BY <1>2 DEF Traces, SyncTypeOK, NoPunch
<1>4. /\ leaveOn'[punch.date] = {}
      /\ \A d \in Date \ {punch.date} : leaveOn'[d] = leaveOn[d]
  BY <1>2, <1>3 DEF Traces, SyncTypeOK
<1>5. SyncTypeOK'
  BY <1>1, <1>2, <1>3 DEF Traces, SyncTypeOK
<1>6. PunchesAreRaced'
  BY <1>2 DEF PunchesAreRaced, NoPunch
<1>7. DaysFit' /\ RunsFit' /\ LeaveFits' /\ RunsAreRaced'
  <2>1. DaysFit' /\ RunsFit' /\ RunsAreRaced'
    BY <1>1, <1>2 DEF Traces, DaysFit, RunsFit, RunsAreRaced, Undone, WasApproved
  <2>2. \A q \in Request, e \in Date : q \in leaveOn'[e] => q \in leaveOn[e]
    BY <1>4
  <2>3. LeaveFits'
    BY <1>1, <1>2, <2>2 DEF Traces, LeaveFits
  <2>4. QED  BY <2>1, <2>3
<1>8. GhostLeaveIsPaidFor' /\ NoApprovedDayForgotten'
  BY <1>1, <1>2, <1>4 DEF Traces, GhostLeaveIsPaidFor, Undone,
                          NoApprovedDayForgotten, DatesIn
<1>9. ApprovedLeaveShows'
  <2> SUFFICES ASSUME NEW q \in Request, status[q] = "Approved",
                      <<q, "punch">> \notin raced, <<q, "overlap">> \notin raced,
                      NEW d \in Dates(q), sync[q][d] = "Synced"
               PROVE  leaveOn'[d] # {}
    BY <1>1, <1>2 DEF ApprovedLeaveShows, DatesIn
  <2>1. d \in Date
    BY LeaveAttendanceAssumption DEF Dates, Traces, SyncTypeOK, TypeOK
  <2>2. d # punch.date
    BY <1>1, <1>2 DEF Traces, PunchesAreRaced
  <2>3. leaveOn[d] # {}
    BY DEF Traces, ApprovedLeaveShows, DatesIn
  <2>4. QED  BY <1>4, <2>1, <2>2, <2>3
<1>10. QED  BY <1>5, <1>6, <1>7, <1>8, <1>9 DEF Traces

LEMMA AbortPunchTraces == ASSUME Traces, AbortPunch PROVE Traces'
<1>1. /\ status' = status /\ \A q \in Request : Dates(q)' = Dates(q)
      /\ TypeOK'
  BY WorkflowStands DEF AbortPunch, Traces, SyncTypeOK
<1>2. /\ punch' = NoPunch /\ event' = event /\ sync' = sync /\ running' = running
      /\ recorded' = recorded /\ leaveOn' = leaveOn /\ raced' = raced
  BY DEF AbortPunch, recordVars
<1>3. SyncTypeOK'
  BY <1>1, <1>2 DEF Traces, SyncTypeOK
<1>4. PunchesAreRaced'
  BY <1>2 DEF PunchesAreRaced, NoPunch
<1>5. DaysFit' /\ RunsFit' /\ LeaveFits' /\ RunsAreRaced'
  BY <1>1, <1>2 DEF Traces, DaysFit, RunsFit, LeaveFits, RunsAreRaced,
                    Undone, WasApproved
<1>6. GhostLeaveIsPaidFor' /\ ApprovedLeaveShows' /\ NoApprovedDayForgotten'
  BY <1>1, <1>2 DEF Traces, GhostLeaveIsPaidFor, Undone, ApprovedLeaveShows,
                    NoApprovedDayForgotten, DatesIn
<1>7. QED  BY <1>3, <1>4, <1>5, <1>6 DEF Traces

-----------------------------------------------------------------------------
(* The theorems.                                                           *)

LEMMA TracesInvariant == SyncSpec => []Traces
<1>1. SyncInit => Traces
  <2> SUFFICES ASSUME SyncInit PROVE Traces
    OBVIOUS
  <2>1. TypeOK /\ \A r \in Request : status[r] = "Absent"
    BY TypeInit DEF SyncInit, Init
  <2>2. SyncTypeOK
    BY <2>1 DEF SyncInit, SyncTypeOK, EventStatus, SyncStatus
  <2>3. DaysFit /\ RunsFit /\ LeaveFits /\ RunsAreRaced /\ PunchesAreRaced
    BY DEF SyncInit, DaysFit, RunsFit, LeaveFits, RunsAreRaced, PunchesAreRaced, NoPunch
  <2>4. GhostLeaveIsPaidFor /\ ApprovedLeaveShows /\ NoApprovedDayForgotten
    BY <2>1 DEF SyncInit, GhostLeaveIsPaidFor, ApprovedLeaveShows,
                NoApprovedDayForgotten
  <2>5. QED  BY <2>2, <2>3, <2>4 DEF Traces
<1>2. LeaveInv /\ LeaveInv' /\ Traces /\ [SyncNext]_syncVars => Traces'
  <2> SUFFICES ASSUME LeaveInv, LeaveInv', Traces, [SyncNext]_syncVars
               PROVE  Traces'
    OBVIOUS
  <2>1. CASE LeaveStep
    BY <2>1, LeaveTraces
  <2>2. CASE \E r \in Request : RunStep(r)
    BY <2>2, RunTraces
  <2>3. CASE PunchStep
    BY <2>3, StartPunchTraces, CommitPunchTraces, AbortPunchTraces DEF PunchStep
  <2>4. CASE UNCHANGED syncVars
    <3>1. /\ UNCHANGED vars /\ event' = event /\ running' = running
          /\ UNCHANGED <<sync, recordVars, punch, raced>>
      BY <2>4 DEF syncVars, attendanceVars
    <3>2. QED  BY <3>1, QuietTraces DEF Traces, SyncTypeOK
  <2>5. QED  BY <2>1, <2>2, <2>3, <2>4 DEF SyncNext
<1>3. QED
  BY <1>1, <1>2, AttendanceKeepsWorkflow, LeaveInvariant, PTL DEF SyncSpec

(* Every variable keeps its type, those of the workflow included.          *)
THEOREM SyncTypeCorrect == SyncSpec => []SyncTypeOK
<1>1. Traces => SyncTypeOK
  BY DEF Traces
<1>2. QED  BY <1>1, TracesInvariant, PTL

(* A cancelled or revoked request shows on the attendance records only if  *)
(* a run was writing it when it was undone, or had marked the day Failed.  *)
THEOREM UndoneLeaveIsGone == SyncSpec => []GhostLeaveIsPaidFor
<1>1. Traces => GhostLeaveIsPaidFor
  BY DEF Traces
<1>2. QED  BY <1>1, TracesInvariant, PTL

(* The synchronised days of an approved request are on leave, unless a     *)
(* punch raced its approval or another request for the date was undone.    *)
THEOREM SynchronisedLeaveShows == SyncSpec => []ApprovedLeaveShows
<1>1. Traces => ApprovedLeaveShows
  BY DEF Traces
<1>2. QED  BY <1>1, TracesInvariant, PTL

(* A day of an approved request is synchronised, marked Failed, or waits   *)
(* for an event that is owed to the consumer or has become a dead letter.  *)
THEOREM ApprovedDaysAreAccountedFor == SyncSpec => []NoApprovedDayForgotten
<1>1. Traces => NoApprovedDayForgotten
  BY DEF Traces
<1>2. QED  BY <1>1, TracesInvariant, PTL

(* The finality of decisions survives the composition with attendance.     *)
THEOREM SettledStaysSettledWithAttendance == SyncSpec => SettledIsFinal
BY AttendanceKeepsWorkflow, SettledStaysSettled, PTL

(* So does the balance: the synchronisation of attendance never makes the  *)
(* row disagree with the requests.                                         *)
THEOREM BalanceIsExactWithAttendance == SyncSpec => []BalanceIsSumOfRequests
BY AttendanceKeepsWorkflow, BalanceIsExact, PTL

(* And so does the refinement: with the synchronisation and the punches,   *)
(* the row still moves only as LeaveAccount says.                          *)
THEOREM AttendanceImplementsAccount == SyncSpec => ImplementsAccount
BY AttendanceKeepsWorkflow, WorkflowImplementsAccount, PTL
=============================================================================
