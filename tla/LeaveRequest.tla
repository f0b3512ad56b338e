---------------------------- MODULE LeaveRequest ----------------------------
(***************************************************************************)
(* Leave requests of one employee for one leave type and year, and the     *)
(* row of leave_balances they draw on: LeaveRequestService (create, edit,  *)
(* submit, cancel), LeaveApprovalService (approve, reject),                *)
(* LeaveRevokeService (cancel or revoke an approved request), and the      *)
(* administration that moves the total under them.                         *)
(*                                                                         *)
(* A call that reads before it writes takes several steps of one           *)
(* transaction under READ COMMITTED; it holds the row of its request from  *)
(* SELECT ... FOR UPDATE to its commit, and nothing else.  A call whose    *)
(* writes depend on nothing but rows it holds is one step.  Days are       *)
(* counted in the unit the columns store, a tenth of a day.                *)
(***************************************************************************)
EXTENDS Integers, Sequences, FiniteSets

CONSTANTS
    Request,       \* leave requests
    Call,          \* HTTP calls that submit, approve or cancel a request
    Span,          \* periods a request may cover
    DaysOf,        \* DaysOf[s]: the working days of period s
    Overlap,       \* pairs of periods that share a date
    Policy,        \* settings of type and policy, see PolicyType
    Total,         \* values an administrator may set the total to
    Adjustment,    \* days an administrator may add to the total, or take off
    AccrualPeriod, \* periods of the accrual job
    AccrualDays,   \* days granted for each of them
    MaxChanges     \* changes of policy and total by administrators

PolicyType ==
    [deduct: BOOLEAN,     \* leave_types.deduct_balance
     reserve: BOOLEAN,    \* reserve_balance_on_pending, resolved
     ceiling: Nat,        \* max_negative_days, resolved; 0 if not allowed
     typeAllows: BOOLEAN] \* leave_types.allow_negative_balance

ASSUME LeaveAssumption ==
    /\ IsFiniteSet(Request)
    /\ Span # {}
    /\ DaysOf \in [Span -> Nat \ {0}]
    /\ Overlap \subseteq Span \X Span
    /\ \A s \in Span : <<s, s>> \in Overlap
    /\ \A s, t \in Span : <<s, t>> \in Overlap => <<t, s>> \in Overlap
    /\ Policy \subseteq PolicyType
    /\ Total \subseteq Nat /\ Adjustment \subseteq Int /\ AccrualDays \in Nat
    /\ MaxChanges \in Nat

VARIABLES
    status,   \* status[r]: leave_requests.status; "Absent" before the insert
    span,     \* span[r]: the period of r
    effect,   \* effect[r]: leave_requests.balance_effect_status
    ledger,   \* ledger[r]: rows of leave_balance_transactions for r
    balance,  \* the row of leave_balances
    policy,   \* the leave type and its policy
    accrued,  \* accrual periods already granted
    call,     \* call[c]: the next step of c, and its local variables
    changes   \* changes by administrators so far

requestVars == <<status, span, effect, ledger>>
vars == <<requestVars, balance, policy, accrued, call, changes>>

Status == {"Absent", "Draft", "Pending", "Approved", "Rejected",
           "Cancelled", "Revoked"}
Effect == {"None", "Reserved", "Released", "Used", "Refunded"}

(* req: the request a call works on; want: the period it submits; rules:   *)
(* the policy as it has read it; hold: the effect it is about to give.     *)
Idle == [pc |-> "idle"]
CallType ==
    {Idle}
    \cup [pc: {"checkOverlap", "readBalance"}, req: Request, want: Span,
          rules: Policy]
    \cup [pc: {"submit"}, req: Request, want: Span, hold: {"None", "Reserved"}]
    \cup [pc: {"approve"}, req: Request, rules: Policy]
    \cup [pc: {"cancelOpen", "cancelApproved"}, req: Request]

(* Rows of the ledger that each effect has left behind.                    *)
LedgerOf(e) ==
    CASE e = "None"     -> <<>>
      [] e = "Reserved" -> <<"RESERVE">>
      [] e = "Released" -> <<"RESERVE", "RELEASE">>
      [] e = "Used"     -> <<"RESERVE", "RELEASE", "USE">>
      [] e = "Refunded" -> <<"RESERVE", "RELEASE", "USE", "REFUND">>

-----------------------------------------------------------------------------
(* findRequestForUpdateTx: the row of r is held by a transaction.          *)
Holding == {"checkOverlap", "readBalance", "submit", "approve"}
NeverLocked(r) == FALSE            \* mutant of Locked: no FOR UPDATE
Locked(r) == \E c \in Call : call[c].pc \in Holding /\ call[c].req = r

Days(r) == DaysOf[span[r]]
Active(r) == status[r] \in {"Pending", "Approved"}

Init ==
    /\ status = [r \in Request |-> "Absent"]
    /\ span = [r \in Request |-> CHOOSE s \in Span : TRUE]  \* not used yet
    /\ effect = [r \in Request |-> "None"]
    /\ ledger = [r \in Request |-> <<>>]
    /\ balance = [exists |-> FALSE, total |-> 0, used |-> 0, pending |-> 0,
                  linked |-> FALSE]
    /\ policy \in Policy
    /\ accrued = {}
    /\ call = [c \in Call |-> Idle]
    /\ changes = 0

-----------------------------------------------------------------------------
(* Drafts.                                                                 *)

CreateDraft(r, s) ==
    /\ status[r] = "Absent" /\ ~Locked(r)
    /\ status' = [status EXCEPT ![r] = "Draft"]
    /\ span' = [span EXCEPT ![r] = s]
    /\ UNCHANGED <<effect, ledger, balance, policy, accrued, call, changes>>

UpdateDraft(r, s) ==
    /\ status[r] = "Draft" /\ ~Locked(r)
    /\ span' = [span EXCEPT ![r] = s]
    /\ UNCHANGED <<status, effect, ledger, balance, policy, accrued, call,
                   changes>>

-----------------------------------------------------------------------------
(* Submit: lock the draft and read the policy, look for overlaps, read the *)
(* balance, write.  With submitNow the draft is inserted by the same       *)
(* transaction, so that nobody else sees it before the commit.             *)

StartSubmit(c, r, s) ==
    /\ call[c].pc = "idle" /\ ~Locked(r)
    /\ \/ status[r] = "Draft" /\ s = span[r]
       \/ status[r] = "Absent"
    /\ call' = [call EXCEPT ![c] = [pc |-> "checkOverlap", req |-> r,
                                    want |-> s, rules |-> policy]]
    /\ UNCHANGED <<requestVars, balance, policy, accrued, changes>>

CheckOverlap(c) ==
    /\ call[c].pc = "checkOverlap"
    /\ \A q \in Request \ {call[c].req} :
          Active(q) => <<span[q], call[c].want>> \notin Overlap
    /\ call' = [call EXCEPT ![c].pc = "readBalance"]
    /\ UNCHANGED <<requestVars, balance, policy, accrued, changes>>

(* The limit check of reserveIfNeeded, and whether it will reserve.        *)
WithinLimit(d, p) ==
    d + balance.used + balance.pending <= balance.total + p.ceiling

ReadBalance(c) ==
    LET p == call[c].rules
        reserves == p.deduct /\ p.reserve /\ balance.exists IN
    /\ call[c].pc = "readBalance"
    /\ p.deduct => WithinLimit(DaysOf[call[c].want], p)
    /\ call' = [call EXCEPT ![c] =
                  [pc |-> "submit", req |-> @.req, want |-> @.want,
                   hold |-> IF reserves THEN "Reserved" ELSE "None"]]
    /\ UNCHANGED <<requestVars, balance, policy, accrued, changes>>

Reserve(r, d) ==
    /\ balance' = [balance EXCEPT !.pending = @ + d]
    /\ ledger' = [ledger EXCEPT ![r] = Append(@, "RESERVE")]

CommitSubmit(c) ==
    LET r == call[c].req IN
    /\ call[c].pc = "submit"
    /\ IF call[c].hold = "Reserved" THEN Reserve(r, DaysOf[call[c].want])
                                    ELSE UNCHANGED <<balance, ledger>>
    /\ status' = [status EXCEPT ![r] = "Pending"]
    /\ span' = [span EXCEPT ![r] = call[c].want]
    /\ effect' = [effect EXCEPT ![r] = call[c].hold]
    /\ call' = [call EXCEPT ![c] = Idle]
    /\ UNCHANGED <<policy, accrued, changes>>

-----------------------------------------------------------------------------
(* Decisions.                                                              *)

StartApprove(c, r) ==
    /\ call[c].pc = "idle" /\ ~Locked(r)
    /\ status[r] = "Pending"
    /\ call' = [call EXCEPT ![c] = [pc |-> "approve", req |-> r,
                                    rules |-> policy]]
    /\ UNCHANGED <<requestVars, balance, policy, accrued, changes>>

(* The WHERE clause of convertReserveToUseByBalanceIdTx, and the CHECK     *)
(* constraint leave_bal_used_check that the update must satisfy as well.   *)
WhereApprove(d, p) == balance.used + d <= balance.total + p.ceiling
CheckUsed(b) == b.used <= b.total

ConvertReserveToUsed(r, d, p) ==
    /\ WhereApprove(d, p)
    /\ balance' = [balance EXCEPT !.used = @ + d, !.pending = @ - d]
    /\ CheckUsed(balance')
    /\ ledger' = [ledger EXCEPT ![r] = Append(Append(@, "RELEASE"), "USE")]
    /\ effect' = [effect EXCEPT ![r] = "Used"]

CommitApprove(c) ==
    LET r == call[c].req IN
    /\ call[c].pc = "approve"
    /\ IF effect[r] = "Reserved"
         THEN ConvertReserveToUsed(r, Days(r), call[c].rules)
         ELSE UNCHANGED <<balance, ledger, effect>>
    /\ status' = [status EXCEPT ![r] = "Approved"]
    /\ call' = [call EXCEPT ![c] = Idle]
    /\ UNCHANGED <<span, policy, accrued, changes>>

\* Mutant of ReleaseIfReserved: forgets to set balance_effect_status.
ReleaseKeepsEffect(r) ==
    /\ balance' = IF effect[r] = "Reserved"
                    THEN [balance EXCEPT !.pending = @ - Days(r)] ELSE balance
    /\ UNCHANGED <<ledger, effect>>

(* releaseReserve, or nothing when the request holds no days.              *)
ReleaseIfReserved(r) ==
    IF effect[r] = "Reserved"
      THEN /\ balance' = [balance EXCEPT !.pending = @ - Days(r)]
           /\ ledger' = [ledger EXCEPT ![r] = Append(@, "RELEASE")]
           /\ effect' = [effect EXCEPT ![r] = "Released"]
      ELSE UNCHANGED <<balance, ledger, effect>>

Reject(r) ==
    /\ status[r] = "Pending" /\ ~Locked(r)
    /\ ReleaseIfReserved(r)
    /\ status' = [status EXCEPT ![r] = "Rejected"]
    /\ UNCHANGED <<span, policy, accrued, call, changes>>

-----------------------------------------------------------------------------
(* Cancel looks at the status in a transaction of its own, and then runs   *)
(* one of two transactions that look at it again.                          *)

PeekCancel(c, r) ==
    /\ call[c].pc = "idle" /\ ~Locked(r)
    /\ status[r] # "Absent"
    /\ call' = [call EXCEPT ![c] =
                  [pc |-> IF status[r] = "Approved" THEN "cancelApproved"
                                                    ELSE "cancelOpen",
                   req |-> r]]
    /\ UNCHANGED <<requestVars, balance, policy, accrued, changes>>

\* Mutant of CancelOpen: trusts the status that PeekCancel saw.
CancelUnchecked(c) ==
    LET r == call[c].req IN
    /\ call[c].pc = "cancelOpen" /\ ~Locked(r)
    /\ ReleaseIfReserved(r)
    /\ status' = [status EXCEPT ![r] = "Cancelled"]
    /\ call' = [call EXCEPT ![c] = Idle]
    /\ UNCHANGED <<span, policy, accrued, changes>>

CancelOpen(c) ==
    LET r == call[c].req IN
    /\ call[c].pc = "cancelOpen" /\ ~Locked(r)
    /\ status[r] \in {"Draft", "Pending"}
    /\ ReleaseIfReserved(r)
    /\ status' = [status EXCEPT ![r] = "Cancelled"]
    /\ call' = [call EXCEPT ![c] = Idle]
    /\ UNCHANGED <<span, policy, accrued, changes>>

\* Mutant of RefundIfUsed: the refund depends on the status alone.
RefundAlways(r) ==
    /\ balance' = [balance EXCEPT !.used = @ - Days(r)]
    /\ ledger' = [ledger EXCEPT ![r] = Append(@, "REFUND")]
    /\ effect' = [effect EXCEPT ![r] = "Refunded"]

(* refundUsed; when its WHERE clause fails the effect stays as it is.      *)
RefundIfUsed(r) ==
    IF effect[r] = "Used" /\ balance.used >= Days(r)
      THEN /\ balance' = [balance EXCEPT !.used = @ - Days(r)]
           /\ ledger' = [ledger EXCEPT ![r] = Append(@, "REFUND")]
           /\ effect' = [effect EXCEPT ![r] = "Refunded"]
      ELSE UNCHANGED <<balance, ledger, effect>>

UndoApproved(r, to) ==
    /\ status[r] = "Approved" /\ ~Locked(r)
    /\ RefundIfUsed(r)
    /\ status' = [status EXCEPT ![r] = to]

CancelApproved(c) ==
    /\ call[c].pc = "cancelApproved"
    /\ UndoApproved(call[c].req, "Cancelled")
    /\ call' = [call EXCEPT ![c] = Idle]
    /\ UNCHANGED <<span, policy, accrued, changes>>

Revoke(r) ==
    /\ UndoApproved(r, "Revoked")
    /\ UNCHANGED <<span, policy, accrued, call, changes>>

(* A check of the call fails, or its connection does: the transaction is   *)
(* rolled back.                                                            *)
Abort(c) ==
    /\ call[c].pc # "idle"
    /\ call' = [call EXCEPT ![c] = Idle]
    /\ UNCHANGED <<requestVars, balance, policy, accrued, changes>>

-----------------------------------------------------------------------------
(* Administration of the balance and of the policy.                        *)

Change == changes < MaxChanges /\ changes' = changes + 1

(* upsertBalance: sets the total, with neither link nor ledger row.        *)
UpsertBalance(t) ==
    /\ Change
    /\ balance' = [balance EXCEPT !.exists = TRUE, !.total = t]
    /\ CheckUsed(balance')
    /\ UNCHANGED <<requestVars, policy, accrued, call>>

(* adjustBalance.  The type's flag, not the policy's, lifts the guard; the *)
(* CHECK constraints stay.                                                 *)
AdjustBalance(a) ==
    /\ Change
    /\ balance.exists /\ balance.linked
    /\ balance.total + a >= 0
    /\ policy.typeAllows \/ balance.total + a >= balance.used + balance.pending
    /\ balance' = [balance EXCEPT !.total = @ + a]
    /\ CheckUsed(balance')
    /\ UNCHANGED <<requestVars, policy, accrued, call>>

(* The accrual job grants a period once and links the row.                 *)
Accrue(p) ==
    /\ p \notin accrued
    /\ accrued' = accrued \cup {p}
    /\ balance' = [balance EXCEPT !.exists = TRUE, !.linked = TRUE,
                                  !.total = @ + AccrualDays]
    /\ UNCHANGED <<requestVars, policy, call, changes>>

EditPolicy(p) ==
    /\ Change
    /\ p # policy
    /\ policy' = p
    /\ UNCHANGED <<requestVars, balance, accrued, call>>

-----------------------------------------------------------------------------
(* The steps that neither approve a request nor undo an approval.          *)
OpenStep(c) ==
    \/ \E r \in Request : \/ \E s \in Span : StartSubmit(c, r, s)
                          \/ StartApprove(c, r)
                          \/ PeekCancel(c, r)
    \/ CheckOverlap(c) \/ ReadBalance(c) \/ CommitSubmit(c)
    \/ CancelOpen(c)
    \/ Abort(c)

PlainStep ==
    \/ \E c \in Call : OpenStep(c)
    \/ \E r \in Request, s \in Span : CreateDraft(r, s) \/ UpdateDraft(r, s)
    \/ \E r \in Request : Reject(r)
    \/ \E t \in Total : UpsertBalance(t)
    \/ \E a \in Adjustment : AdjustBalance(a)
    \/ \E p \in AccrualPeriod : Accrue(p)
    \/ \E p \in Policy : EditPolicy(p)

Next ==
    \/ PlainStep
    \/ \E c \in Call : CommitApprove(c) \/ CancelApproved(c)
    \/ \E r \in Request : Revoke(r)

Spec == Init /\ [][Next]_vars

-----------------------------------------------------------------------------
(* Every variable keeps its type; in particular the used days never go     *)
(* below zero, whatever is refunded.                                       *)
TypeOK ==
    /\ status \in [Request -> Status]
    /\ span \in [Request -> Span]
    /\ effect \in [Request -> Effect]
    /\ ledger \in [Request -> Seq({"RESERVE", "RELEASE", "USE", "REFUND"})]
    /\ balance \in [exists: BOOLEAN, total: Nat, used: Nat, pending: Int,
                    linked: BOOLEAN]
    /\ policy \in Policy
    /\ accrued \subseteq AccrualPeriod
    /\ call \in [Call -> CallType]
    /\ changes \in 0 .. MaxChanges

(* The days of the requests R, one by one; what requests with a status and *)
(* an effect hold together.                                                *)
DaysOfEach(R) == UNION {{r} \X (1 .. Days(r)) : r \in R}
With(st, e) == {r \in Request : status[r] = st /\ effect[r] = e}
DaysOfAll(st, e) == Cardinality(DaysOfEach(With(st, e)))

(* The balance row agrees with the requests: the pending days are those of *)
(* the pending requests that hold a reservation, and the used days those   *)
(* of the approved requests that were deducted; whatever calls interleave  *)
(* and whatever administrators change meanwhile, no reservation is         *)
(* released or converted twice, and no deduction is refunded twice or lost *)
(* (reserveIfNeeded, convertReserveToUsed, releaseReserve, refundUsed).    *)
BalanceIsSumOfRequests ==
    /\ balance.pending = DaysOfAll("Pending", "Reserved")
    /\ balance.used = DaysOfAll("Approved", "Used")

(* What a request did to the balance fits its status: days are reserved    *)
(* only while it is Pending, released only without an approval, deducted   *)
(* only while it is Approved, and refunded only after that: the WHERE      *)
(* clause of a refund never fails, which would keep the days for good      *)
(* (updateRequestTx of each handler writes both columns).                  *)
EffectMatchesStatus ==
    \A r \in Request :
        /\ effect[r] = "Reserved" => status[r] = "Pending"
        /\ effect[r] = "Released" => status[r] \in {"Rejected", "Cancelled"}
        /\ effect[r] = "Used" => status[r] = "Approved"
        /\ effect[r] = "Refunded" => status[r] \in {"Cancelled", "Revoked"}

(* The append-only ledger of a request tells exactly how it came to hold   *)
(* what it holds: each row once, and in order.                             *)
LedgerMatchesEffect == \A r \in Request : ledger[r] = LedgerOf(effect[r])

Settled(r) == status[r] \in {"Rejected", "Cancelled", "Revoked"}

(* A request that was decided against is never touched again, whichever    *)
(* call was about to act on it; an approved one can only be cancelled or   *)
(* revoked; and the dates of a request are frozen once it was submitted.   *)
SettledIsFinal ==
    [][\A r \in Request :
          /\ Settled(r) => <<status[r], span[r], effect[r], ledger[r]>>' =
                           <<status[r], span[r], effect[r], ledger[r]>>
          /\ status[r] = "Approved" =>
                status'[r] \in {"Approved", "Cancelled", "Revoked"}
          /\ Active(r) => span'[r] = span[r]]_vars

(* Until an administrator changes the rules, what is used and reserved     *)
(* stays within the total and the debt ceiling, also when two requests are *)
(* submitted in parallel (reserveIfNeeded).                                *)
PendingWithinCeiling ==
    changes = 0 /\ balance.exists =>
        balance.used + balance.pending <= balance.total + policy.ceiling

(* A reservation within the debt ceiling that approve resolves can be      *)
(* converted: no other check of the row stops it.                          *)
DebtIsApprovable ==
    \A c \in Call : call[c].pc = "approve" =>
        LET r == call[c].req IN
        effect[r] = "Reserved" /\ WhereApprove(Days(r), call[c].rules) =>
            CheckUsed([balance EXCEPT !.used = @ + Days(r)])
=============================================================================
