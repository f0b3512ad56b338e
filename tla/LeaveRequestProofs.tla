------------------------- MODULE LeaveRequestProofs -------------------------
(***************************************************************************)
(* Proofs about LeaveRequest, for any number of requests and calls.  The   *)
(* inductive invariant adds to the properties what the row lock is for:    *)
(* one call holds a request at a time, and until it ends the request stays *)
(* in the status in which the call found it.                               *)
(***************************************************************************)
EXTENDS LeaveAccounting, FiniteSetTheorems, SequenceTheorems, TLAPS

Row == {"RESERVE", "RELEASE", "USE", "REFUND"}
Submitting == {"checkOverlap", "readBalance", "submit"}

(* At most one call holds the row of a request.                            *)
OneHolder ==
    \A c, d \in Call :
        /\ call[c].pc \in Holding /\ call[d].pc \in Holding
        /\ call[c].req = call[d].req
        => c = d

(* The status of a request is frozen under the call that holds it.         *)
StatusHeld ==
    \A c \in Call :
        /\ call[c].pc \in Submitting => status[call[c].req] \in {"Absent", "Draft"}
        /\ call[c].pc = "approve" => status[call[c].req] = "Pending"

LeaveInv ==
    /\ TypeOK
    /\ OneHolder
    /\ StatusHeld
    /\ EffectMatchesStatus
    /\ LedgerMatchesEffect
    /\ BalanceIsSumOfRequests

-----------------------------------------------------------------------------
(* Sequences given by their elements.                                      *)
LEMMA AppendToOne ==
    ASSUME NEW S, NEW x \in S, NEW y \in S
    PROVE  Append(<<x>>, y) = <<x, y>>
<1>1. <<x>> \in Seq(S) /\ <<x, y>> \in Seq(S)
  OBVIOUS
<1>2. Append(<<x>>, y) \in Seq(S) /\ Len(Append(<<x>>, y)) = 2
  BY <1>1
<1>3. \A i \in 1 .. 2 : Append(<<x>>, y)[i] = <<x, y>>[i]
  BY <1>1
<1>4. QED  BY <1>1, <1>2, <1>3, SeqEqual

LEMMA AppendToTwo ==
    ASSUME NEW S, NEW x \in S, NEW y \in S, NEW z \in S
    PROVE  Append(<<x, y>>, z) = <<x, y, z>>
<1>1. <<x, y>> \in Seq(S) /\ <<x, y, z>> \in Seq(S)
  OBVIOUS
<1>2. Append(<<x, y>>, z) \in Seq(S) /\ Len(Append(<<x, y>>, z)) = 3
  BY <1>1
<1>3. \A i \in 1 .. 3 : Append(<<x, y>>, z)[i] = <<x, y, z>>[i]
  BY <1>1
<1>4. QED  BY <1>1, <1>2, <1>3, SeqEqual

LEMMA AppendToThree ==
    ASSUME NEW S, NEW w \in S, NEW x \in S, NEW y \in S, NEW z \in S
    PROVE  Append(<<w, x, y>>, z) = <<w, x, y, z>>
<1>1. <<w, x, y>> \in Seq(S) /\ <<w, x, y, z>> \in Seq(S)
  OBVIOUS
<1>2. Append(<<w, x, y>>, z) \in Seq(S) /\ Len(Append(<<w, x, y>>, z)) = 4
  BY <1>1
<1>3. \A i \in 1 .. 4 : Append(<<w, x, y>>, z)[i] = <<w, x, y, z>>[i]
  BY <1>1
<1>4. QED  BY <1>1, <1>2, <1>3, SeqEqual

(* What the ledger says after each step of the workflow.                   *)
LEMMA LedgerSteps ==
    /\ Append(LedgerOf("None"), "RESERVE") = LedgerOf("Reserved")
    /\ Append(LedgerOf("Reserved"), "RELEASE") = LedgerOf("Released")
    /\ Append(Append(LedgerOf("Reserved"), "RELEASE"), "USE") = LedgerOf("Used")
    /\ Append(LedgerOf("Used"), "REFUND") = LedgerOf("Refunded")
<1>1. Append(LedgerOf("None"), "RESERVE") = LedgerOf("Reserved")
  BY DEF LedgerOf
<1>2. LedgerOf("Reserved") = <<"RESERVE">>
  BY DEF LedgerOf
<1>3. LedgerOf("Released") = <<"RESERVE", "RELEASE">>
  BY DEF LedgerOf
<1>4. LedgerOf("Used") = <<"RESERVE", "RELEASE", "USE">>
  BY DEF LedgerOf
<1>5. LedgerOf("Refunded") = <<"RESERVE", "RELEASE", "USE", "REFUND">>
  BY DEF LedgerOf
<1>6. "RESERVE" \in Row /\ "RELEASE" \in Row /\ "USE" \in Row /\ "REFUND" \in Row
  BY DEF Row
<1>7. Append(LedgerOf("Reserved"), "RELEASE") = LedgerOf("Released")
  BY <1>2, <1>3, <1>6, AppendToOne
<1>8. Append(LedgerOf("Released"), "USE") = LedgerOf("Used")
  BY <1>3, <1>4, <1>6, AppendToTwo
<1>9. Append(LedgerOf("Used"), "REFUND") = LedgerOf("Refunded")
  BY <1>4, <1>5, <1>6, AppendToThree
<1>10. QED  BY <1>1, <1>7, <1>8, <1>9

-----------------------------------------------------------------------------
(* Types.                                                                  *)

LEMMA CallFields ==
    ASSUME TypeOK, NEW c \in Call
    PROVE  /\ call[c] \in CallType
           /\ call[c].pc # "idle" => call[c].req \in Request
           /\ call[c].pc \in Submitting => call[c].want \in Span
           /\ call[c].pc \in {"checkOverlap", "readBalance", "approve"} =>
                 call[c].rules \in Policy
           /\ call[c].pc = "submit" => call[c].hold \in {"None", "Reserved"}
BY DEF TypeOK, CallType, Idle, Submitting

LEMMA TypeInit == ASSUME Init PROVE TypeOK
<1>1. (CHOOSE s \in Span : TRUE) \in Span
  BY LeaveAssumption
<1>2. QED  BY <1>1, LeaveAssumption DEF Init, TypeOK, Status, Effect, CallType, Idle

LEMMA DaysAreNat == ASSUME TypeOK, NEW r \in Request PROVE Days(r) \in Nat
BY LeaveAssumption DEF TypeOK, Days

LEMMA LedgerGrows ==
    ASSUME TypeOK, NEW r \in Request, NEW x \in Row
    PROVE  [ledger EXCEPT ![r] = Append(@, x)] \in [Request -> Seq(Row)]
<1>1. ledger \in [Request -> Seq(Row)]
  BY DEF TypeOK, Row
<1>2. Append(ledger[r], x) \in Seq(Row)
  BY <1>1
<1>3. QED  BY <1>1, <1>2

(* The parts of the workflow that move days keep the types.                *)
LEMMA MoveTypes ==
    ASSUME TypeOK, NEW r \in Request
    PROVE  /\ ReleaseIfReserved(r) =>
                 /\ balance' \in [exists: BOOLEAN, total: Nat, used: Nat,
                                 pending: Int, linked: BOOLEAN]
                 /\ ledger' \in [Request -> Seq(Row)]
                 /\ effect' \in [Request -> Effect]
           /\ RefundIfUsed(r) =>
                 /\ balance' \in [exists: BOOLEAN, total: Nat, used: Nat,
                                 pending: Int, linked: BOOLEAN]
                 /\ ledger' \in [Request -> Seq(Row)]
                 /\ effect' \in [Request -> Effect]
<1>1. Days(r) \in Nat
  BY DaysAreNat
<1>2. /\ balance \in [exists: BOOLEAN, total: Nat, used: Nat, pending: Int,
                     linked: BOOLEAN]
      /\ ledger \in [Request -> Seq(Row)] /\ effect \in [Request -> Effect]
  BY DEF TypeOK, Row
<1>3. /\ [ledger EXCEPT ![r] = Append(@, "RELEASE")] \in [Request -> Seq(Row)]
      /\ [ledger EXCEPT ![r] = Append(@, "REFUND")] \in [Request -> Seq(Row)]
  BY LedgerGrows DEF Row
<1>4. ASSUME ReleaseIfReserved(r)
      PROVE  balance' \in [exists: BOOLEAN, total: Nat, used: Nat, pending: Int,
                           linked: BOOLEAN]
  <2>1. CASE effect[r] = "Reserved"
    <3>1. balance' = [balance EXCEPT !.pending = @ - Days(r)]
      BY <1>4, <2>1 DEF ReleaseIfReserved
    <3>2. balance.pending - Days(r) \in Int
      BY <1>1, <1>2
    <3>3. QED  BY <1>2, <3>1, <3>2
  <2>2. CASE effect[r] # "Reserved"
    BY <1>2, <1>4, <2>2 DEF ReleaseIfReserved
  <2>3. QED  BY <2>1, <2>2
<1>5. ASSUME ReleaseIfReserved(r)
      PROVE  ledger' \in [Request -> Seq(Row)] /\ effect' \in [Request -> Effect]
  <2>1. CASE effect[r] = "Reserved"
    <3>1. /\ ledger' = [ledger EXCEPT ![r] = Append(@, "RELEASE")]
          /\ effect' = [effect EXCEPT ![r] = "Released"]
      BY <1>5, <2>1 DEF ReleaseIfReserved
    <3>2. effect' \in [Request -> Effect]
      BY <1>2, <3>1 DEF Effect
    <3>3. QED  BY <1>3, <3>1, <3>2
  <2>2. CASE effect[r] # "Reserved"
    BY <1>2, <1>5, <2>2 DEF ReleaseIfReserved
  <2>3. QED  BY <2>1, <2>2
<1>6. ASSUME RefundIfUsed(r)
      PROVE  balance' \in [exists: BOOLEAN, total: Nat, used: Nat, pending: Int,
                           linked: BOOLEAN]
  <2>1. CASE effect[r] = "Used" /\ balance.used >= Days(r)
    <3>1. balance' = [balance EXCEPT !.used = @ - Days(r)]
      BY <1>6, <2>1 DEF RefundIfUsed
    <3>2. balance.used - Days(r) \in Nat
      BY <1>1, <1>2, <2>1
    <3>3. QED  BY <1>2, <3>1, <3>2
  <2>2. CASE ~(effect[r] = "Used" /\ balance.used >= Days(r))
    BY <1>2, <1>6, <2>2 DEF RefundIfUsed
  <2>3. QED  BY <2>1, <2>2
<1>7. ASSUME RefundIfUsed(r)
      PROVE  ledger' \in [Request -> Seq(Row)] /\ effect' \in [Request -> Effect]
  <2>1. CASE effect[r] = "Used" /\ balance.used >= Days(r)
    <3>1. /\ ledger' = [ledger EXCEPT ![r] = Append(@, "REFUND")]
          /\ effect' = [effect EXCEPT ![r] = "Refunded"]
      BY <1>7, <2>1 DEF RefundIfUsed
    <3>2. effect' \in [Request -> Effect]
      BY <1>2, <3>1 DEF Effect
    <3>3. QED  BY <1>3, <3>1, <3>2
  <2>2. CASE ~(effect[r] = "Used" /\ balance.used >= Days(r))
    BY <1>2, <1>7, <2>2 DEF RefundIfUsed
  <2>3. QED  BY <2>1, <2>2
<1>8. QED  BY <1>4, <1>5, <1>6, <1>7

(* The balance keeps its type when a reservation or a grant is added.      *)
LEMMA BalanceGrows ==
    ASSUME TypeOK, NEW d \in Nat
    PROVE  /\ [balance EXCEPT !.pending = @ + d] \in
                 [exists: BOOLEAN, total: Nat, used: Nat, pending: Int, linked: BOOLEAN]
           /\ [balance EXCEPT !.used = @ + d, !.pending = @ - d] \in
                 [exists: BOOLEAN, total: Nat, used: Nat, pending: Int, linked: BOOLEAN]
<1>1. balance \in [exists: BOOLEAN, total: Nat, used: Nat, pending: Int,
                   linked: BOOLEAN]
  BY DEF TypeOK
<1>2. balance.pending + d \in Int /\ balance.pending - d \in Int /\ balance.used + d \in Nat
  BY <1>1
<1>3. QED  BY <1>1, <1>2

(* Every step keeps the types.                                             *)
LEMMA TypeStep == ASSUME TypeOK, [Next]_vars PROVE TypeOK'
<1>0. Idle \in CallType
  BY DEF CallType
<1>1. ASSUME NEW r \in Request, NEW s \in Span, CreateDraft(r, s) PROVE TypeOK'
  BY <1>1 DEF TypeOK, CreateDraft, Status
<1>2. ASSUME NEW r \in Request, NEW s \in Span, UpdateDraft(r, s) PROVE TypeOK'
  BY <1>2 DEF TypeOK, UpdateDraft
<1>3. ASSUME NEW c \in Call, NEW r \in Request, NEW s \in Span, StartSubmit(c, r, s)
      PROVE  TypeOK'
  <2>1. [pc |-> "checkOverlap", req |-> r, want |-> s, rules |-> policy] \in CallType
    BY DEF TypeOK, CallType
  <2>2. call' \in [Call -> CallType]
    BY <1>3, <2>1 DEF TypeOK, StartSubmit
  <2>3. QED  BY <1>3, <2>2 DEF TypeOK, StartSubmit, requestVars
<1>4. ASSUME NEW c \in Call, CheckOverlap(c) PROVE TypeOK'
  <2>1. [call[c] EXCEPT !.pc = "readBalance"] \in CallType
    <3>1. call[c] \in [pc: {"checkOverlap", "readBalance"}, req: Request, want: Span,
                       rules: Policy]
      <4>1. call[c] \in CallType /\ call[c].pc = "checkOverlap"
        BY <1>4 DEF TypeOK, CheckOverlap
      <4>2. QED  BY <4>1 DEF CallType, Idle
    <3>2. [call[c] EXCEPT !.pc = "readBalance"] \in
             [pc: {"checkOverlap", "readBalance"}, req: Request, want: Span, rules: Policy]
      BY <3>1
    <3>3. QED  BY <3>2 DEF CallType
  <2>2. call' \in [Call -> CallType]
    BY <1>4, <2>1 DEF TypeOK, CheckOverlap
  <2>3. QED  BY <1>4, <2>2 DEF TypeOK, CheckOverlap, requestVars
<1>5. ASSUME NEW c \in Call, ReadBalance(c) PROVE TypeOK'
  <2>1. call[c].req \in Request /\ call[c].want \in Span
    BY <1>5, CallFields DEF ReadBalance, Submitting
  <2>2. \A h \in {"None", "Reserved"} :
           [pc |-> "submit", req |-> call[c].req, want |-> call[c].want, hold |-> h]
             \in CallType
    BY <2>1 DEF CallType
  <2>3. call' \in [Call -> CallType]
    BY <1>5, <2>2 DEF TypeOK, ReadBalance
  <2>4. QED  BY <1>5, <2>3 DEF TypeOK, ReadBalance, requestVars
<1>6. ASSUME NEW c \in Call, CommitSubmit(c) PROVE TypeOK'
  <2>1. /\ call[c].req \in Request /\ call[c].want \in Span
        /\ call[c].hold \in {"None", "Reserved"}
    BY <1>6, CallFields DEF CommitSubmit, Submitting
  <2>2. DaysOf[call[c].want] \in Nat
    BY <2>1, LeaveAssumption
  <2>3. /\ balance' \in [exists: BOOLEAN, total: Nat, used: Nat, pending: Int,
                        linked: BOOLEAN]
        /\ ledger' \in [Request -> Seq(Row)]
    <3>1. "RESERVE" \in Row
      BY DEF Row
    <3>2. CASE call[c].hold = "Reserved"
      <4>1. balance' = [balance EXCEPT !.pending = @ + DaysOf[call[c].want]]
        BY <1>6, <3>2 DEF CommitSubmit, Reserve
      <4>2. ledger' = [ledger EXCEPT ![call[c].req] = Append(@, "RESERVE")]
        BY <1>6, <3>2 DEF CommitSubmit, Reserve
      <4>3. QED  BY <2>1, <2>2, <3>1, <4>1, <4>2, BalanceGrows, LedgerGrows
    <3>3. CASE call[c].hold # "Reserved"
      BY <1>6, <3>3 DEF CommitSubmit, TypeOK, Row
    <3>4. QED  BY <3>2, <3>3
  <2>4. /\ status' \in [Request -> Status] /\ span' \in [Request -> Span]
        /\ effect' \in [Request -> Effect] /\ call' \in [Call -> CallType]
    BY <1>0, <1>6, <2>1 DEF CommitSubmit, TypeOK, Status, Effect
  <2>5. QED  BY <1>6, <2>3, <2>4 DEF CommitSubmit, TypeOK, Row
<1>7. ASSUME NEW c \in Call, NEW r \in Request, StartApprove(c, r) PROVE TypeOK'
  <2>1. [pc |-> "approve", req |-> r, rules |-> policy] \in CallType
    BY DEF TypeOK, CallType
  <2>2. call' \in [Call -> CallType]
    BY <1>7, <2>1 DEF TypeOK, StartApprove
  <2>3. QED  BY <1>7, <2>2 DEF TypeOK, StartApprove, requestVars
<1>8. ASSUME NEW c \in Call, CommitApprove(c) PROVE TypeOK'
  <2>1. call[c].req \in Request /\ Days(call[c].req) \in Nat
    BY <1>8, CallFields, DaysAreNat DEF CommitApprove
  <2>2. /\ balance' \in [exists: BOOLEAN, total: Nat, used: Nat, pending: Int,
                        linked: BOOLEAN]
        /\ effect' \in [Request -> Effect]
    BY <1>8, <2>1, BalanceGrows DEF CommitApprove, ConvertReserveToUsed, TypeOK, Effect
  <2>3. ledger' \in [Request -> Seq(Row)]
    <3>1. ledger \in [Request -> Seq(Row)]
      BY DEF TypeOK, Row
    <3>2. Append(Append(ledger[call[c].req], "RELEASE"), "USE") \in Seq(Row)
      BY <2>1, <3>1 DEF Row
    <3>3. QED  BY <1>8, <3>1, <3>2 DEF CommitApprove, ConvertReserveToUsed
  <2>4. status' \in [Request -> Status] /\ call' \in [Call -> CallType]
    BY <1>0, <1>8, <2>1 DEF CommitApprove, TypeOK, Status
  <2>5. QED  BY <1>8, <2>2, <2>3, <2>4 DEF CommitApprove, TypeOK, Row
<1>9. ASSUME NEW r \in Request, Reject(r) PROVE TypeOK'
  BY <1>9, MoveTypes DEF Reject, TypeOK, Row, Status
<1>10. ASSUME NEW c \in Call, NEW r \in Request, PeekCancel(c, r) PROVE TypeOK'
  <2>1. call' \in [Call -> CallType]
    BY <1>10 DEF TypeOK, PeekCancel, CallType
  <2>2. QED  BY <1>10, <2>1 DEF TypeOK, PeekCancel, requestVars
<1>11. ASSUME NEW c \in Call, CancelOpen(c) PROVE TypeOK'
  <2>1. call[c].req \in Request
    BY <1>11, CallFields DEF CancelOpen
  <2>2. status' \in [Request -> Status] /\ call' \in [Call -> CallType]
    BY <1>0, <1>11, <2>1 DEF CancelOpen, TypeOK, Status
  <2>3. QED  BY <1>11, <2>1, <2>2, MoveTypes DEF CancelOpen, TypeOK, Row
<1>12. ASSUME NEW c \in Call, CancelApproved(c) PROVE TypeOK'
  <2>1. call[c].req \in Request
    BY <1>12, CallFields DEF CancelApproved
  <2>2. status' \in [Request -> Status] /\ call' \in [Call -> CallType]
    BY <1>0, <1>12, <2>1 DEF CancelApproved, UndoApproved, TypeOK, Status
  <2>3. QED  BY <1>12, <2>1, <2>2, MoveTypes DEF CancelApproved, UndoApproved, TypeOK, Row
<1>13. ASSUME NEW r \in Request, Revoke(r) PROVE TypeOK'
  <2>1. status' \in [Request -> Status]
    BY <1>13 DEF Revoke, UndoApproved, TypeOK, Status
  <2>2. QED  BY <1>13, <2>1, MoveTypes DEF Revoke, UndoApproved, TypeOK, Row
<1>14. ASSUME NEW c \in Call, Abort(c) PROVE TypeOK'
  BY <1>0, <1>14 DEF Abort, TypeOK, requestVars
<1>15. ASSUME NEW t \in Total, UpsertBalance(t) PROVE TypeOK'
  <2>1. t \in Nat
    BY LeaveAssumption
  <2>2. balance' \in [exists: BOOLEAN, total: Nat, used: Nat, pending: Int,
                     linked: BOOLEAN]
    BY <1>15, <2>1 DEF UpsertBalance, TypeOK
  <2>3. QED  BY <1>15, <2>2, LeaveAssumption DEF UpsertBalance, Change, TypeOK, requestVars
<1>16. ASSUME NEW a \in Adjustment, AdjustBalance(a) PROVE TypeOK'
  <2>1. balance.total + a \in Nat
    BY <1>16, LeaveAssumption DEF AdjustBalance, TypeOK
  <2>2. balance' \in [exists: BOOLEAN, total: Nat, used: Nat, pending: Int,
                     linked: BOOLEAN]
    BY <1>16, <2>1 DEF AdjustBalance, TypeOK
  <2>3. QED  BY <1>16, <2>2, LeaveAssumption DEF AdjustBalance, Change, TypeOK, requestVars
<1>17. ASSUME NEW p \in AccrualPeriod, Accrue(p) PROVE TypeOK'
  <2>1. balance.total + AccrualDays \in Nat
    BY LeaveAssumption DEF TypeOK
  <2>2. balance' \in [exists: BOOLEAN, total: Nat, used: Nat, pending: Int,
                     linked: BOOLEAN]
    BY <1>17, <2>1 DEF Accrue, TypeOK
  <2>3. QED  BY <1>17, <2>2 DEF Accrue, TypeOK, requestVars
<1>18. ASSUME NEW p \in Policy, EditPolicy(p) PROVE TypeOK'
  BY <1>18, LeaveAssumption DEF EditPolicy, Change, TypeOK, requestVars
<1>19. CASE UNCHANGED vars
  BY <1>19 DEF TypeOK, vars, requestVars
<1>20. QED
  BY <1>1, <1>2, <1>3, <1>4, <1>5, <1>6, <1>7, <1>8, <1>9, <1>10, <1>11, <1>12,
     <1>13, <1>14, <1>15, <1>16, <1>17, <1>18, <1>19 DEF Next, PlainStep, OpenStep

-----------------------------------------------------------------------------
(* The row lock.                                                           *)

(* A step of call c, or of none, that changes the status of requests that  *)
(* nobody else holds, and gives c at most a request nobody held.           *)
LEMMA LockKept ==
    ASSUME TypeOK, OneHolder, StatusHeld, NEW c \in Call, NEW k,
           call' = [call EXCEPT ![c] = k],
           k.pc \in Holding =>
              \/ call[c].pc \in Holding /\ k.req = call[c].req
              \/ ~Locked(k.req),
           k.pc \in Submitting => status'[k.req] \in {"Absent", "Draft"},
           k.pc = "approve" => status'[k.req] = "Pending",
           \A d \in Call \ {c} : call[d].pc \in Holding =>
              status'[call[d].req] = status[call[d].req]
    PROVE  OneHolder' /\ StatusHeld'
<1>1. call'[c] = k /\ \A d \in Call \ {c} : call'[d] = call[d]
  BY DEF TypeOK
<1>2. OneHolder'
  <2>1. SUFFICES ASSUME NEW d \in Call, NEW e \in Call,
                        call'[d].pc \in Holding, call'[e].pc \in Holding,
                        call'[d].req = call'[e].req, d # e
                 PROVE  FALSE
    BY DEF OneHolder
  <2>2. CASE d # c /\ e # c
    BY <1>1, <2>1, <2>2 DEF OneHolder
  <2>3. CASE d = c
    BY <1>1, <2>1, <2>3 DEF OneHolder, Locked
  <2>4. CASE e = c
    BY <1>1, <2>1, <2>4 DEF OneHolder, Locked
  <2>5. QED  BY <2>2, <2>3, <2>4
<1>3. StatusHeld'
  <2>1. SUFFICES ASSUME NEW d \in Call
                 PROVE  /\ call'[d].pc \in Submitting =>
                              status'[call'[d].req] \in {"Absent", "Draft"}
                        /\ call'[d].pc = "approve" => status'[call'[d].req] = "Pending"
    BY DEF StatusHeld
  <2>2. CASE d = c
    BY <1>1, <2>2
  <2>3. CASE d # c
    BY <1>1, <2>3 DEF StatusHeld, Holding, Submitting
  <2>4. QED  BY <2>2, <2>3
<1>4. QED  BY <1>2, <1>3

(* A step of no call that changes the status of a request nobody holds.    *)
LEMMA LockUntouched ==
    ASSUME OneHolder, StatusHeld, UNCHANGED call,
           \A d \in Call : call[d].pc \in Holding =>
              status'[call[d].req] = status[call[d].req]
    PROVE  OneHolder' /\ StatusHeld'
BY DEF OneHolder, StatusHeld, Holding, Submitting

LEMMA LockStep ==
    ASSUME TypeOK, OneHolder, StatusHeld, [Next]_vars
    PROVE  OneHolder' /\ StatusHeld'
<1>0. Idle.pc \notin Holding /\ Idle.pc \notin Submitting /\ Idle.pc # "approve"
  BY DEF Idle, Holding, Submitting
<1>1. ASSUME NEW r \in Request, NEW s \in Span, CreateDraft(r, s)
      PROVE  OneHolder' /\ StatusHeld'
  <2>1. \A d \in Call : call[d].pc \in Holding =>
           status'[call[d].req] = status[call[d].req]
    BY <1>1 DEF CreateDraft, Locked, TypeOK
  <2>2. QED  BY <1>1, <2>1, LockUntouched DEF CreateDraft
<1>2. ASSUME NEW r \in Request, NEW s \in Span, UpdateDraft(r, s)
      PROVE  OneHolder' /\ StatusHeld'
  BY <1>2, LockUntouched DEF UpdateDraft
<1>3. ASSUME NEW c \in Call, NEW r \in Request, NEW s \in Span, StartSubmit(c, r, s)
      PROVE  OneHolder' /\ StatusHeld'
  <2> DEFINE k == [pc |-> "checkOverlap", req |-> r, want |-> s, rules |-> policy]
  <2>1. k.pc = "checkOverlap" /\ k.req = r
    OBVIOUS
  <2>2. call' = [call EXCEPT ![c] = k] /\ ~Locked(r) /\ status' = status
    BY <1>3 DEF StartSubmit, requestVars
  <2>3. status[r] \in {"Absent", "Draft"}
    BY <1>3 DEF StartSubmit
  <2> HIDE DEF k
  <2>4. QED  BY <2>1, <2>2, <2>3, LockKept DEF Holding, Submitting
<1>4. ASSUME NEW c \in Call, CheckOverlap(c) PROVE OneHolder' /\ StatusHeld'
  <2> DEFINE k == [call[c] EXCEPT !.pc = "readBalance"]
  <2>1. k.pc = "readBalance" /\ k.req = call[c].req /\ call[c].pc = "checkOverlap"
    BY <1>4 DEF CheckOverlap, TypeOK, CallType, Idle
  <2>2. call' = [call EXCEPT ![c] = k] /\ status' = status
    BY <1>4 DEF CheckOverlap, requestVars, TypeOK
  <2> HIDE DEF k
  <2>3. QED  BY <2>1, <2>2, LockKept DEF Holding, Submitting, StatusHeld
<1>5. ASSUME NEW c \in Call, ReadBalance(c) PROVE OneHolder' /\ StatusHeld'
  <2>1. PICK h : call' = [call EXCEPT ![c] =
                    [pc |-> "submit", req |-> call[c].req, want |-> call[c].want,
                     hold |-> h]]
    BY <1>5 DEF ReadBalance, TypeOK
  <2> DEFINE k == [pc |-> "submit", req |-> call[c].req, want |-> call[c].want,
                   hold |-> h]
  <2>2. k.pc = "submit" /\ k.req = call[c].req /\ call[c].pc = "readBalance"
    BY <1>5 DEF ReadBalance
  <2>3. call' = [call EXCEPT ![c] = k] /\ status' = status
    BY <1>5, <2>1 DEF ReadBalance, requestVars
  <2> HIDE DEF k
  <2>4. QED  BY <2>2, <2>3, LockKept DEF Holding, Submitting, StatusHeld
<1>6. ASSUME NEW c \in Call, CommitSubmit(c) PROVE OneHolder' /\ StatusHeld'
  <2>1. call[c].pc \in Holding
    BY <1>6 DEF CommitSubmit, Holding
  <2>2. \A d \in Call \ {c} : call[d].pc \in Holding =>
           status'[call[d].req] = status[call[d].req]
    BY <1>6, <2>1 DEF CommitSubmit, OneHolder, TypeOK
  <2>3. QED  BY <1>0, <1>6, <2>2, LockKept DEF CommitSubmit
<1>7. ASSUME NEW c \in Call, NEW r \in Request, StartApprove(c, r)
      PROVE  OneHolder' /\ StatusHeld'
  <2> DEFINE k == [pc |-> "approve", req |-> r, rules |-> policy]
  <2>1. k.pc = "approve" /\ k.req = r
    OBVIOUS
  <2>2. /\ call' = [call EXCEPT ![c] = k] /\ ~Locked(r)
        /\ status' = status /\ status[r] = "Pending"
    BY <1>7 DEF StartApprove, requestVars
  <2> HIDE DEF k
  <2>3. QED  BY <2>1, <2>2, LockKept DEF Holding, Submitting
<1>8. ASSUME NEW c \in Call, CommitApprove(c) PROVE OneHolder' /\ StatusHeld'
  <2>1. call[c].pc \in Holding
    BY <1>8 DEF CommitApprove, Holding
  <2>2. \A d \in Call \ {c} : call[d].pc \in Holding =>
           status'[call[d].req] = status[call[d].req]
    BY <1>8, <2>1 DEF CommitApprove, OneHolder, TypeOK
  <2>3. QED  BY <1>0, <1>8, <2>2, LockKept DEF CommitApprove
<1>9. ASSUME NEW r \in Request, Reject(r) PROVE OneHolder' /\ StatusHeld'
  <2>1. \A d \in Call : call[d].pc \in Holding =>
           status'[call[d].req] = status[call[d].req]
    BY <1>9 DEF Reject, Locked, TypeOK
  <2>2. QED  BY <1>9, <2>1, LockUntouched DEF Reject
<1>10. ASSUME NEW c \in Call, NEW r \in Request, PeekCancel(c, r)
       PROVE  OneHolder' /\ StatusHeld'
  <2> DEFINE k == [pc |-> IF status[r] = "Approved" THEN "cancelApproved"
                                                   ELSE "cancelOpen",
                   req |-> r]
  <2>1. k.pc \notin Holding /\ k.pc \notin Submitting /\ k.pc # "approve"
    BY DEF Holding, Submitting
  <2>2. call' = [call EXCEPT ![c] = k] /\ status' = status
    BY <1>10 DEF PeekCancel, requestVars
  <2> HIDE DEF k
  <2>3. QED  BY <2>1, <2>2, LockKept
<1>11. ASSUME NEW c \in Call, CancelOpen(c) PROVE OneHolder' /\ StatusHeld'
  <2>1. \A d \in Call \ {c} : call[d].pc \in Holding =>
           status'[call[d].req] = status[call[d].req]
    BY <1>11 DEF CancelOpen, Locked, TypeOK
  <2>2. QED  BY <1>0, <1>11, <2>1, LockKept DEF CancelOpen
<1>12. ASSUME NEW c \in Call, CancelApproved(c) PROVE OneHolder' /\ StatusHeld'
  <2>1. \A d \in Call \ {c} : call[d].pc \in Holding =>
           status'[call[d].req] = status[call[d].req]
    BY <1>12 DEF CancelApproved, UndoApproved, Locked, TypeOK
  <2>2. QED  BY <1>0, <1>12, <2>1, LockKept DEF CancelApproved
<1>13. ASSUME NEW r \in Request, Revoke(r) PROVE OneHolder' /\ StatusHeld'
  <2>1. \A d \in Call : call[d].pc \in Holding =>
           status'[call[d].req] = status[call[d].req]
    BY <1>13 DEF Revoke, UndoApproved, Locked, TypeOK
  <2>2. QED  BY <1>13, <2>1, LockUntouched DEF Revoke
<1>14. ASSUME NEW c \in Call, Abort(c) PROVE OneHolder' /\ StatusHeld'
  BY <1>0, <1>14, LockKept DEF Abort, requestVars
<1>15. ASSUME UNCHANGED <<requestVars, call>> PROVE OneHolder' /\ StatusHeld'
  BY <1>15, LockUntouched DEF requestVars
<1>16. QED
  BY <1>1, <1>2, <1>3, <1>4, <1>5, <1>6, <1>7, <1>8, <1>9, <1>10, <1>11, <1>12,
     <1>13, <1>14, <1>15
  DEF Next, PlainStep, OpenStep, UpsertBalance, AdjustBalance, Accrue, EditPolicy, vars

-----------------------------------------------------------------------------
(* The balance as a sum.                                                   *)

(* A request that is not yet submitted has done nothing to the balance,    *)
(* and a pending one has reserved days at most.                            *)
LEMMA EffectSoFar ==
    ASSUME LeaveInv, NEW r \in Request
    PROVE  /\ status[r] \in {"Absent", "Draft"} => effect[r] = "None"
           /\ status[r] = "Pending" => effect[r] \in {"None", "Reserved"}
           /\ status[r] = "Approved" => effect[r] \in {"None", "Used"}
           /\ ledger[r] = LedgerOf(effect[r])
BY DEF LeaveInv, TypeOK, Effect, EffectMatchesStatus, LedgerMatchesEffect

(* The days of the requests S, one by one, when x has w[x] of them.        *)
Units(w, S) == UNION {{x} \X (1 .. w[x]) : x \in S}

LEMMA UnitsOfOne ==
    ASSUME NEW x, NEW n \in Nat
    PROVE  IsFiniteSet({x} \X (1 .. n)) /\ Cardinality({x} \X (1 .. n)) = n
<1>1. IsFiniteSet({x}) /\ Cardinality({x}) = 1
  BY FS_Singleton
<1>2. IsFiniteSet(1 .. n) /\ Cardinality(1 .. n) = n
  BY FS_Interval
<1>3. /\ IsFiniteSet({x} \X (1 .. n))
      /\ Cardinality({x} \X (1 .. n)) = Cardinality({x}) * Cardinality(1 .. n)
  BY <1>1, <1>2, FS_Product
<1>4. 1 * n = n
  OBVIOUS
<1>5. QED  BY <1>1, <1>2, <1>3, <1>4

LEMMA UnitsFinite ==
    ASSUME NEW S, IsFiniteSet(S), NEW w, \A x \in S : w[x] \in Nat
    PROVE  IsFiniteSet(Units(w, S))
<1> DEFINE f == [x \in S |-> {x} \X (1 .. w[x])]
           T == {{x} \X (1 .. w[x]) : x \in S}
<1>1. f \in Surjection(S, T)
  BY DEF Surjection
<1>2. IsFiniteSet(T)
  BY <1>1, FS_Surjection
<1>3. ASSUME NEW U \in T PROVE IsFiniteSet(U)
  <2>1. PICK x \in S : U = {x} \X (1 .. w[x])
    OBVIOUS
  <2>2. w[x] \in Nat
    OBVIOUS
  <2>3. IsFiniteSet({x} \X (1 .. w[x]))
    BY <2>2, UnitsOfOne
  <2>4. QED  BY <2>1, <2>3
<1> HIDE DEF T
<1>4. IsFiniteSet(UNION T)
  BY <1>2, <1>3, FS_UNION
<1>5. QED  BY <1>4 DEF Units, T

(* What a request adds to the days of the others.                          *)
LEMMA UnitsSplit ==
    ASSUME NEW S, IsFiniteSet(S), NEW w, \A x \in S : w[x] \in Nat, NEW r
    PROVE  /\ Cardinality(Units(w, S \ {r})) \in Nat
           /\ Cardinality(Units(w, S)) =
                 Cardinality(Units(w, S \ {r})) + (IF r \in S THEN w[r] ELSE 0)
<1> DEFINE Others == Units(w, S \ {r})
           Own == {r} \X (1 .. w[r])
<1>1. IsFiniteSet(S \ {r})
  BY FS_RemoveElement
<1>2. IsFiniteSet(Others)
  BY <1>1, UnitsFinite
<1>3. Cardinality(Others) \in Nat
  BY <1>2, FS_CardinalityType
<1>4. CASE r \in S
  <2>1. IsFiniteSet(Own) /\ Cardinality(Own) = w[r]
    BY <1>4, UnitsOfOne
  <2>2. Units(w, S) = Others \cup Own
    BY <1>4 DEF Units
  <2>3. Others \cap Own = {}
    BY DEF Units
  <2>4. w[r] \in Nat
    BY <1>4
  <2> HIDE DEF Others, Own
  <2>5. Cardinality(Others \cup Own) =
           Cardinality(Others) + Cardinality(Own) - Cardinality(Others \cap Own)
    BY <1>2, <2>1, FS_Union
  <2>6. Cardinality(Others \cap Own) = 0
    BY <2>3, FS_EmptySet
  <2>7. Cardinality(Units(w, S)) = Cardinality(Others) + w[r]
    BY <1>3, <2>1, <2>2, <2>4, <2>5, <2>6
  <2>8. QED  BY <1>3, <1>4, <2>7 DEF Others
<1>5. CASE r \notin S
  <2>1. S \ {r} = S
    BY <1>5
  <2>2. QED  BY <1>3, <1>5, <2>1
<1>6. QED  BY <1>4, <1>5

(* The weights of S decide.                                                *)
LEMMA UnitsSame ==
    ASSUME NEW S, NEW v, NEW w, \A x \in S : v[x] = w[x]
    PROVE  Units(v, S) = Units(w, S)
BY DEF Units

(* What requests hold is a number.                                         *)
LEMMA SumIsNat == ASSUME TypeOK, NEW st, NEW e PROVE DaysOfAll(st, e) \in Nat
<1> DEFINE w == [q \in Request |-> DaysOf[span[q]]]
           S == {q \in Request : status[q] = st /\ effect[q] = e}
<1>1. IsFiniteSet(S)
  BY LeaveAssumption, FS_Subset
<1>2. \A q \in S : w[q] \in Nat
  BY LeaveAssumption DEF TypeOK
<1>3. DaysOfEach(S) = Units(w, S)
  BY DEF DaysOfEach, Units, Days
<1> HIDE DEF w
<1>4. Cardinality(Units(w, S)) \in Nat
  BY <1>1, <1>2, UnitsFinite, FS_CardinalityType
<1>5. QED  BY <1>3, <1>4 DEF DaysOfAll, With

(* How a sum moves when one request r changes and no other does.           *)
Share(r, st, e) == IF status[r] = st /\ effect[r] = e THEN Days(r) ELSE 0

LEMMA SumMoves ==
    ASSUME TypeOK, TypeOK', NEW r \in Request,
           \A q \in Request \ {r} :
              status'[q] = status[q] /\ effect'[q] = effect[q] /\ span'[q] = span[q],
           NEW st, NEW e
    PROVE  /\ DaysOfAll(st, e) \in Nat /\ DaysOfAll(st, e)' \in Nat
           /\ Share(r, st, e) \in Nat /\ Share(r, st, e)' \in Nat
           /\ Share(r, st, e) <= DaysOfAll(st, e)
           /\ DaysOfAll(st, e)' = DaysOfAll(st, e) - Share(r, st, e) + Share(r, st, e)'
<1> DEFINE w == [q \in Request |-> DaysOf[span[q]]]
           v == [q \in Request |-> DaysOf[span'[q]]]
           S == {q \in Request : status[q] = st /\ effect[q] = e}
           T == {q \in Request : status'[q] = st /\ effect'[q] = e}
<1>1. IsFiniteSet(S) /\ IsFiniteSet(T)
  BY LeaveAssumption, FS_Subset
<1>2. (\A q \in Request : w[q] \in Nat) /\ (\A q \in Request : v[q] \in Nat)
  BY LeaveAssumption DEF TypeOK
<1>3. DaysOfAll(st, e) = Cardinality(Units(w, S))
  <2>1. DaysOfEach(S) = Units(w, S)
    BY DEF DaysOfEach, Units, Days
  <2>2. QED  BY <2>1 DEF DaysOfAll, With
<1>4. DaysOfAll(st, e)' = Cardinality(Units(v, T))
  <2>1. UNION {{q} \X (1 .. DaysOf[span'[q]]) : q \in T} = Units(v, T)
    BY DEF Units
  <2>2. QED  BY <2>1 DEF DaysOfAll, DaysOfEach, With, Days
<1>5. S \ {r} = T \ {r} /\ \A q \in S \ {r} : w[q] = v[q]
  OBVIOUS
<1>6. Share(r, st, e) = IF r \in S THEN w[r] ELSE 0
  BY DEF Share, Days
<1>7. Share(r, st, e)' = IF r \in T THEN v[r] ELSE 0
  BY DEF Share, Days
<1> HIDE DEF w, v
<1> DEFINE rest == Cardinality(Units(w, S \ {r}))
<1>8. rest \in Nat /\ DaysOfAll(st, e) = rest + Share(r, st, e)
  BY <1>1, <1>2, <1>3, <1>6, UnitsSplit
<1>9. DaysOfAll(st, e)' = rest + Share(r, st, e)'
  <2>1. Units(w, S \ {r}) = Units(v, T \ {r})
    BY <1>5, UnitsSame
  <2> HIDE DEF S, T
  <2>2. T \subseteq Request
    BY DEF T
  <2>3. Cardinality(Units(v, T)) =
           Cardinality(Units(v, T \ {r})) + (IF r \in T THEN v[r] ELSE 0)
    BY <1>1, <1>2, <2>2, UnitsSplit
  <2>4. QED  BY <1>4, <1>7, <2>1, <2>3
<1>10. Share(r, st, e) \in Nat /\ Share(r, st, e)' \in Nat
  BY <1>2, <1>6, <1>7
<1> HIDE DEF rest
<1>11. QED  BY <1>8, <1>9, <1>10

(* A step of one request that moves its own days and no others.            *)
LEMMA SumKept ==
    ASSUME TypeOK, TypeOK', BalanceIsSumOfRequests, NEW r \in Request,
           \A q \in Request \ {r} :
              status'[q] = status[q] /\ effect'[q] = effect[q] /\ span'[q] = span[q],
           balance'.pending = balance.pending - Share(r, "Pending", "Reserved")
                                 + Share(r, "Pending", "Reserved")',
           balance'.used = balance.used - Share(r, "Approved", "Used")
                              + Share(r, "Approved", "Used")'
    PROVE  BalanceIsSumOfRequests'
<1>1. DaysOfAll("Pending", "Reserved")' = balance'.pending
  BY SumMoves DEF BalanceIsSumOfRequests
<1>2. DaysOfAll("Approved", "Used")' = balance'.used
  BY SumMoves DEF BalanceIsSumOfRequests
<1>3. QED  BY <1>1, <1>2 DEF BalanceIsSumOfRequests

(* An approved request that was deducted has its days among the used ones, *)
(* so that the WHERE clause of the refund holds.                           *)
LEMMA RefundFits ==
    ASSUME TypeOK, BalanceIsSumOfRequests, NEW r \in Request,
           status[r] = "Approved", effect[r] = "Used"
    PROVE  balance.used >= Days(r)
<1> DEFINE w == [q \in Request |-> DaysOf[span[q]]]
           S == {q \in Request : status[q] = "Approved" /\ effect[q] = "Used"}
<1>1. IsFiniteSet(S)
  BY LeaveAssumption, FS_Subset
<1>2. \A q \in Request : w[q] \in Nat
  BY LeaveAssumption DEF TypeOK
<1>3. balance.used = Cardinality(Units(w, S))
  <2>1. DaysOfEach(S) = Units(w, S)
    BY DEF DaysOfEach, Units, Days
  <2>2. QED  BY <2>1 DEF DaysOfAll, With, BalanceIsSumOfRequests
<1>4. r \in S /\ w[r] = Days(r)
  BY DEF Days
<1> HIDE DEF w
<1>5. /\ Cardinality(Units(w, S \ {r})) \in Nat
      /\ Cardinality(Units(w, S)) = Cardinality(Units(w, S \ {r})) + w[r]
  BY <1>1, <1>2, <1>4, UnitsSplit
<1>6. w[r] \in Nat
  BY <1>2
<1>7. QED  BY <1>3, <1>4, <1>5, <1>6

LEMMA ReleaseSum ==
    ASSUME LeaveInv, TypeOK', NEW r \in Request,
           NEW to \in {"Rejected", "Cancelled"},
           status[r] \in {"Draft", "Pending"}, ReleaseIfReserved(r),
           status' = [status EXCEPT ![r] = to], span' = span
    PROVE  BalanceIsSumOfRequests'
<1>0. TypeOK /\ BalanceIsSumOfRequests /\ Days(r) \in Int
  BY DaysAreNat DEF LeaveInv
<1>1. status'[r] = to
  BY <1>0 DEF TypeOK
<1>2. \A q \in Request \ {r} :
         status'[q] = status[q] /\ effect'[q] = effect[q] /\ span'[q] = span[q]
  BY <1>0 DEF TypeOK, ReleaseIfReserved
<1>3. /\ Share(r, "Pending", "Reserved")' = 0
      /\ Share(r, "Approved", "Used") = 0 /\ Share(r, "Approved", "Used")' = 0
  BY <1>1 DEF Share
<1>4. /\ balance'.pending = balance.pending - Share(r, "Pending", "Reserved")
      /\ balance'.used = balance.used
      /\ balance.pending \in Int /\ balance.used \in Int
      /\ Share(r, "Pending", "Reserved") \in Int
  <2>1. CASE effect[r] = "Reserved"
    <3>1. status[r] = "Pending"
      BY <2>1 DEF LeaveInv, EffectMatchesStatus
    <3>2. QED  BY <1>0, <2>1, <3>1 DEF ReleaseIfReserved, Share, TypeOK
  <2>2. CASE effect[r] # "Reserved"
    BY <1>0, <2>2 DEF ReleaseIfReserved, Share, TypeOK
  <2>3. QED  BY <2>1, <2>2
<1>5. QED  BY <1>0, <1>2, <1>3, <1>4, SumKept

LEMMA UndoSum ==
    ASSUME LeaveInv, TypeOK', NEW r \in Request,
           NEW to \in {"Cancelled", "Revoked"}, UndoApproved(r, to), span' = span
    PROVE  BalanceIsSumOfRequests'
<1>0. TypeOK /\ BalanceIsSumOfRequests /\ Days(r) \in Int
  BY DaysAreNat DEF LeaveInv
<1>1. status[r] = "Approved" /\ status'[r] = to
  BY <1>0 DEF TypeOK, UndoApproved
<1>2. \A q \in Request \ {r} :
         status'[q] = status[q] /\ effect'[q] = effect[q] /\ span'[q] = span[q]
  BY <1>0 DEF TypeOK, UndoApproved, RefundIfUsed
<1>3. /\ Share(r, "Approved", "Used")' = 0
      /\ Share(r, "Pending", "Reserved") = 0 /\ Share(r, "Pending", "Reserved")' = 0
  BY <1>1 DEF Share
<1>4. /\ balance'.used = balance.used - Share(r, "Approved", "Used")
      /\ balance'.pending = balance.pending
      /\ balance.pending \in Int /\ balance.used \in Int
      /\ Share(r, "Approved", "Used") \in Int
  <2>1. CASE effect[r] = "Used"
    <3>1. balance.used >= Days(r)
      BY <1>0, <1>1, <2>1, RefundFits
    <3>2. QED  BY <1>0, <1>1, <2>1, <3>1
               DEF UndoApproved, RefundIfUsed, Share, TypeOK
  <2>2. CASE effect[r] # "Used"
    BY <1>0, <2>2 DEF UndoApproved, RefundIfUsed, Share, TypeOK
  <2>3. QED  BY <2>1, <2>2
<1>5. QED  BY <1>0, <1>2, <1>3, <1>4, SumKept

LEMMA SumStep ==
    ASSUME LeaveInv, [Next]_vars
    PROVE  BalanceIsSumOfRequests'
<1>0. TypeOK /\ TypeOK' /\ BalanceIsSumOfRequests
  BY TypeStep DEF LeaveInv
<1>1. ASSUME NEW r \in Request, NEW s \in Span, CreateDraft(r, s) \/ UpdateDraft(r, s)
      PROVE  BalanceIsSumOfRequests'
  <2>1. \A q \in Request \ {r} :
           status'[q] = status[q] /\ effect'[q] = effect[q] /\ span'[q] = span[q]
    BY <1>0, <1>1 DEF CreateDraft, UpdateDraft, TypeOK
  <2>2. status[r] \in {"Absent", "Draft"} /\ status'[r] \in {"Absent", "Draft"}
    BY <1>0, <1>1 DEF CreateDraft, UpdateDraft, TypeOK
  <2>3. /\ Share(r, "Pending", "Reserved") = 0 /\ Share(r, "Pending", "Reserved")' = 0
        /\ Share(r, "Approved", "Used") = 0 /\ Share(r, "Approved", "Used")' = 0
    BY <2>2 DEF Share
  <2>4. balance' = balance /\ balance.pending \in Int /\ balance.used \in Int
    BY <1>0, <1>1 DEF CreateDraft, UpdateDraft, TypeOK
  <2>5. QED  BY <1>0, <2>1, <2>3, <2>4, SumKept
<1>2. ASSUME NEW c \in Call, CommitSubmit(c) PROVE BalanceIsSumOfRequests'
  <2>1. /\ call[c].req \in Request /\ call[c].want \in Span
        /\ call[c].hold \in {"None", "Reserved"}
    BY <1>0, <1>2, CallFields DEF CommitSubmit, Submitting
  <2>2. PICK r \in Request : r = call[c].req
    BY <2>1
  <2>3. PICK d \in Nat : d = DaysOf[call[c].want]
    BY <2>1, LeaveAssumption
  <2>4. /\ status[r] \in {"Absent", "Draft"}
        /\ status'[r] = "Pending" /\ effect'[r] = call[c].hold
        /\ span'[r] = call[c].want
    BY <1>0, <1>2, <2>2 DEF CommitSubmit, TypeOK, LeaveInv, StatusHeld, Submitting
  <2>5. \A q \in Request \ {r} :
           status'[q] = status[q] /\ effect'[q] = effect[q] /\ span'[q] = span[q]
    BY <1>0, <1>2, <2>2 DEF CommitSubmit, TypeOK
  <2>6. /\ Share(r, "Pending", "Reserved") = 0
        /\ Share(r, "Approved", "Used") = 0 /\ Share(r, "Approved", "Used")' = 0
    BY <2>4 DEF Share
  <2>7. Share(r, "Pending", "Reserved")' = IF call[c].hold = "Reserved" THEN d ELSE 0
    BY <2>3, <2>4 DEF Share, Days
  <2>8. /\ balance'.used = balance.used
        /\ balance'.pending =
              balance.pending + (IF call[c].hold = "Reserved" THEN d ELSE 0)
        /\ balance.pending \in Int /\ balance.used \in Int
    BY <1>0, <1>2, <2>3 DEF CommitSubmit, Reserve, TypeOK
  <2>9. QED  BY <1>0, <2>5, <2>6, <2>7, <2>8, SumKept
<1>3. ASSUME NEW c \in Call, CommitApprove(c) PROVE BalanceIsSumOfRequests'
  <2>1. PICK r \in Request : r = call[c].req
    BY <1>0, <1>3, CallFields DEF CommitApprove
  <2>2. PICK d \in Nat : d = Days(r)
    BY <1>0, DaysAreNat
  <2>3. /\ status[r] = "Pending" /\ effect[r] \in {"None", "Reserved"}
        /\ status'[r] = "Approved" /\ span' = span
    BY <1>0, <1>3, <2>1, EffectSoFar DEF CommitApprove, TypeOK, LeaveInv, StatusHeld
  <2>4. \A q \in Request \ {r} :
           status'[q] = status[q] /\ effect'[q] = effect[q] /\ span'[q] = span[q]
    BY <1>0, <1>3, <2>1 DEF CommitApprove, ConvertReserveToUsed, TypeOK
  <2>5. Share(r, "Approved", "Used") = 0 /\ Share(r, "Pending", "Reserved")' = 0
    BY <2>3 DEF Share
  <2>6. /\ Share(r, "Pending", "Reserved") = IF effect[r] = "Reserved" THEN d ELSE 0
        /\ Share(r, "Approved", "Used")' = IF effect[r] = "Reserved" THEN d ELSE 0
        /\ balance'.pending = balance.pending - (IF effect[r] = "Reserved" THEN d ELSE 0)
        /\ balance'.used = balance.used + (IF effect[r] = "Reserved" THEN d ELSE 0)
        /\ balance.pending \in Int /\ balance.used \in Int
    <3>1. CASE effect[r] = "Reserved"
      <4>1. ConvertReserveToUsed(r, d, call[c].rules)
        BY <1>3, <2>1, <2>2, <3>1 DEF CommitApprove
      <4>2. /\ balance' = [balance EXCEPT !.used = @ + d, !.pending = @ - d]
            /\ effect'[r] = "Used" /\ Days(r)' = d
        BY <1>0, <2>2, <2>3, <4>1 DEF ConvertReserveToUsed, TypeOK, Days
      <4>3. QED  BY <1>0, <2>2, <2>3, <3>1, <4>2 DEF Share, TypeOK
    <3>2. CASE effect[r] # "Reserved"
      BY <1>0, <1>3, <2>1, <2>3, <3>2 DEF CommitApprove, Share, TypeOK
    <3>3. QED  BY <3>1, <3>2
  <2>7. QED  BY <1>0, <2>4, <2>5, <2>6, SumKept
<1>4. ASSUME NEW r \in Request, Reject(r) PROVE BalanceIsSumOfRequests'
  BY <1>0, <1>4, ReleaseSum DEF Reject
<1>5. ASSUME NEW c \in Call, CancelOpen(c) PROVE BalanceIsSumOfRequests'
  <2>1. call[c].req \in Request
    BY <1>0, <1>5, CallFields DEF CancelOpen
  <2>2. QED  BY <1>0, <1>5, <2>1, ReleaseSum DEF CancelOpen
<1>6. ASSUME NEW c \in Call, CancelApproved(c) PROVE BalanceIsSumOfRequests'
  <2>1. call[c].req \in Request
    BY <1>0, <1>6, CallFields DEF CancelApproved
  <2>2. QED  BY <1>0, <1>6, <2>1, UndoSum DEF CancelApproved
<1>7. ASSUME NEW r \in Request, Revoke(r) PROVE BalanceIsSumOfRequests'
  BY <1>0, <1>7, UndoSum DEF Revoke
<1>8. ASSUME UNCHANGED requestVars, balance'.pending = balance.pending,
             balance'.used = balance.used
      PROVE  BalanceIsSumOfRequests'
  BY <1>0, <1>8 DEF BalanceIsSumOfRequests, DaysOfAll, DaysOfEach, With, Days, requestVars
<1>9. ASSUME (\E t \in Total : UpsertBalance(t)) \/ (\E a \in Adjustment : AdjustBalance(a))
                \/ (\E p \in AccrualPeriod : Accrue(p))
      PROVE  BalanceIsSumOfRequests'
  BY <1>0, <1>8, <1>9 DEF UpsertBalance, AdjustBalance, Accrue, TypeOK
<1>10. QED
  BY <1>1, <1>2, <1>3, <1>4, <1>5, <1>6, <1>7, <1>8, <1>9
  DEF Next, PlainStep, OpenStep, StartSubmit, CheckOverlap, ReadBalance,
      StartApprove, PeekCancel, Abort, EditPolicy, vars

(* The sums hold at first, when no request holds anything.                 *)
LEMMA SumInit == ASSUME Init PROVE BalanceIsSumOfRequests
<1>1. With("Pending", "Reserved") = {} /\ With("Approved", "Used") = {}
  BY DEF Init, With
<1>2. DaysOfEach({}) = {}
  BY DEF DaysOfEach
<1>3. Cardinality({}) = 0
  BY FS_EmptySet
<1>4. QED  BY <1>1, <1>2, <1>3 DEF Init, BalanceIsSumOfRequests, DaysOfAll

-----------------------------------------------------------------------------
(* Effects and ledgers.                                                    *)

(* A step that touches request r alone.                                    *)
LEMMA EffectKept ==
    ASSUME TypeOK, EffectMatchesStatus, LedgerMatchesEffect, NEW r \in Request,
           \A q \in Request \ {r} :
              status'[q] = status[q] /\ effect'[q] = effect[q] /\ ledger'[q] = ledger[q],
           ledger'[r] = LedgerOf(effect'[r]),
           effect'[r] = "Reserved" => status'[r] = "Pending",
           effect'[r] = "Released" => status'[r] \in {"Rejected", "Cancelled"},
           effect'[r] = "Used" => status'[r] = "Approved",
           effect'[r] = "Refunded" => status'[r] \in {"Cancelled", "Revoked"}
    PROVE  EffectMatchesStatus' /\ LedgerMatchesEffect'
<1>1. \A q \in Request : ledger'[q] = LedgerOf(effect'[q])
  BY DEF LedgerMatchesEffect
<1>2. QED  BY <1>1 DEF EffectMatchesStatus, LedgerMatchesEffect

LEMMA ReleaseEffect ==
    ASSUME LeaveInv, NEW r \in Request, NEW to \in {"Rejected", "Cancelled"},
           status[r] \in {"Draft", "Pending"}, ReleaseIfReserved(r),
           status' = [status EXCEPT ![r] = to]
    PROVE  EffectMatchesStatus' /\ LedgerMatchesEffect'
<1>1. CASE effect[r] = "Reserved"
  <2>1. effect'[r] = "Released" /\ ledger'[r] = Append(ledger[r], "RELEASE")
    BY <1>1 DEF ReleaseIfReserved, LeaveInv, TypeOK
  <2>2. ledger'[r] = LedgerOf(effect'[r])
    BY <1>1, <2>1, LedgerSteps, EffectSoFar
  <2>3. \A q \in Request \ {r} :
           status'[q] = status[q] /\ effect'[q] = effect[q] /\ ledger'[q] = ledger[q]
    BY <1>1 DEF ReleaseIfReserved, LeaveInv, TypeOK
  <2>4. status'[r] = to
    BY DEF LeaveInv, TypeOK
  <2>5. QED  BY <2>1, <2>2, <2>3, <2>4, EffectKept DEF LeaveInv
<1>2. CASE effect[r] # "Reserved"
  <2>1. effect' = effect /\ ledger' = ledger
    BY <1>2 DEF ReleaseIfReserved
  <2>2. effect[r] = "None" /\ ledger[r] = LedgerOf(effect[r])
    BY <1>2, EffectSoFar
  <2>3. \A q \in Request \ {r} : status'[q] = status[q]
    BY DEF LeaveInv, TypeOK
  <2>4. QED  BY <2>1, <2>2, <2>3, EffectKept DEF LeaveInv
<1>3. QED  BY <1>1, <1>2

LEMMA UndoEffect ==
    ASSUME LeaveInv, NEW r \in Request, NEW to \in {"Cancelled", "Revoked"},
           UndoApproved(r, to)
    PROVE  EffectMatchesStatus' /\ LedgerMatchesEffect'
<1>1. /\ status[r] = "Approved" /\ RefundIfUsed(r)
      /\ status'[r] = to /\ \A q \in Request \ {r} : status'[q] = status[q]
  BY DEF UndoApproved, LeaveInv, TypeOK
<1>2. CASE effect[r] = "Used" /\ balance.used >= Days(r)
  <2>1. effect'[r] = "Refunded" /\ ledger'[r] = Append(ledger[r], "REFUND")
    BY <1>1, <1>2 DEF RefundIfUsed, LeaveInv, TypeOK
  <2>2. ledger'[r] = LedgerOf(effect'[r])
    BY <1>2, <2>1, LedgerSteps, EffectSoFar
  <2>3. \A q \in Request \ {r} : effect'[q] = effect[q] /\ ledger'[q] = ledger[q]
    BY <1>1, <1>2 DEF RefundIfUsed, LeaveInv, TypeOK
  <2>4. QED  BY <1>1, <2>1, <2>2, <2>3, EffectKept DEF LeaveInv
<1>3. CASE ~(effect[r] = "Used" /\ balance.used >= Days(r))
  <2>1. effect' = effect /\ ledger' = ledger
    BY <1>1, <1>3 DEF RefundIfUsed
  <2>2. effect[r] # "Used"
    BY <1>1, <1>3, RefundFits DEF LeaveInv
  <2>3. effect[r] = "None" /\ ledger[r] = LedgerOf(effect[r])
    BY <1>1, <2>2, EffectSoFar
  <2>4. QED  BY <1>1, <2>1, <2>3, EffectKept DEF LeaveInv
<1>4. QED  BY <1>2, <1>3

LEMMA EffectStep ==
    ASSUME LeaveInv, [Next]_vars
    PROVE  EffectMatchesStatus' /\ LedgerMatchesEffect'
<1>0. TypeOK
  BY DEF LeaveInv
<1>1. ASSUME NEW r \in Request, NEW s \in Span, CreateDraft(r, s)
      PROVE  EffectMatchesStatus' /\ LedgerMatchesEffect'
  <2>1. /\ effect' = effect /\ ledger' = ledger /\ effect[r] = "None"
        /\ \A q \in Request \ {r} : status'[q] = status[q]
    BY <1>1, EffectSoFar DEF CreateDraft, LeaveInv, TypeOK
  <2>2. QED  BY <2>1, EffectKept, EffectSoFar DEF LeaveInv
<1>2. ASSUME NEW c \in Call, CommitSubmit(c)
      PROVE  EffectMatchesStatus' /\ LedgerMatchesEffect'
  <2> DEFINE r == call[c].req
  <2>1. r \in Request /\ call[c].hold \in {"None", "Reserved"}
    BY <1>0, <1>2, CallFields DEF CommitSubmit
  <2>2. effect[r] = "None" /\ ledger[r] = LedgerOf("None")
    BY <1>2, <2>1, EffectSoFar DEF CommitSubmit, LeaveInv, StatusHeld, Submitting
  <2>3. /\ status'[r] = "Pending" /\ effect'[r] = call[c].hold
        /\ \A q \in Request \ {r} : status'[q] = status[q] /\ effect'[q] = effect[q]
    BY <1>0, <1>2, <2>1 DEF CommitSubmit, TypeOK
  <2>4. /\ ledger'[r] = LedgerOf(call[c].hold)
        /\ \A q \in Request \ {r} : ledger'[q] = ledger[q]
    <3>1. CASE call[c].hold = "Reserved"
      <4>1. ledger' = [ledger EXCEPT ![r] = Append(@, "RESERVE")]
        BY <1>2, <3>1 DEF CommitSubmit, Reserve
      <4>2. QED  BY <1>0, <2>1, <2>2, <3>1, <4>1, LedgerSteps DEF TypeOK
    <3>2. CASE call[c].hold = "None"
      <4>1. ledger' = ledger
        BY <1>2, <3>2 DEF CommitSubmit
      <4>2. QED  BY <2>2, <3>2, <4>1
    <3>3. QED  BY <2>1, <3>1, <3>2
  <2> HIDE DEF r
  <2>5. QED  BY <2>1, <2>3, <2>4, EffectKept DEF LeaveInv
<1>3. ASSUME NEW c \in Call, CommitApprove(c)
      PROVE  EffectMatchesStatus' /\ LedgerMatchesEffect'
  <2> DEFINE r == call[c].req
  <2>1. r \in Request
    BY <1>0, <1>3, CallFields DEF CommitApprove
  <2>2. effect[r] \in {"None", "Reserved"} /\ ledger[r] = LedgerOf(effect[r])
    BY <1>3, <2>1, EffectSoFar DEF CommitApprove, LeaveInv, StatusHeld
  <2>3. /\ status'[r] = "Approved"
        /\ \A q \in Request \ {r} : status'[q] = status[q]
    BY <1>0, <1>3, <2>1 DEF CommitApprove, TypeOK
  <2>4. CASE effect[r] = "Reserved"
    <3>1. /\ effect' = [effect EXCEPT ![r] = "Used"]
          /\ ledger' = [ledger EXCEPT ![r] = Append(Append(@, "RELEASE"), "USE")]
      BY <1>3, <2>4 DEF CommitApprove, ConvertReserveToUsed
    <3>2. effect'[r] = "Used" /\ ledger'[r] = LedgerOf("Used")
      BY <1>0, <2>1, <2>2, <2>4, <3>1, LedgerSteps DEF TypeOK
    <3>3. \A q \in Request \ {r} : effect'[q] = effect[q] /\ ledger'[q] = ledger[q]
      BY <1>0, <3>1 DEF TypeOK
    <3> HIDE DEF r
    <3>4. QED  BY <2>1, <2>3, <3>2, <3>3, EffectKept DEF LeaveInv
  <2>5. CASE effect[r] = "None"
    <3>1. effect' = effect /\ ledger' = ledger
      BY <1>3, <2>5 DEF CommitApprove
    <3> HIDE DEF r
    <3>2. QED  BY <2>1, <2>2, <2>3, <2>5, <3>1, EffectKept DEF LeaveInv
  <2>6. QED  BY <2>2, <2>4, <2>5
<1>4. ASSUME NEW r \in Request, Reject(r)
      PROVE  EffectMatchesStatus' /\ LedgerMatchesEffect'
  BY <1>4, ReleaseEffect DEF Reject
<1>5. ASSUME NEW c \in Call, CancelOpen(c)
      PROVE  EffectMatchesStatus' /\ LedgerMatchesEffect'
  <2>1. call[c].req \in Request
    BY <1>0, <1>5, CallFields DEF CancelOpen
  <2>2. QED  BY <1>5, <2>1, ReleaseEffect DEF CancelOpen
<1>6. ASSUME NEW c \in Call, CancelApproved(c)
      PROVE  EffectMatchesStatus' /\ LedgerMatchesEffect'
  <2>1. call[c].req \in Request
    BY <1>0, <1>6, CallFields DEF CancelApproved
  <2>2. QED  BY <1>6, <2>1, UndoEffect DEF CancelApproved
<1>7. ASSUME NEW r \in Request, Revoke(r)
      PROVE  EffectMatchesStatus' /\ LedgerMatchesEffect'
  BY <1>7, UndoEffect DEF Revoke
<1>8. ASSUME UNCHANGED <<status, effect, ledger>>
      PROVE  EffectMatchesStatus' /\ LedgerMatchesEffect'
  BY <1>8 DEF LeaveInv, EffectMatchesStatus, LedgerMatchesEffect
<1>9. QED
  BY <1>1, <1>2, <1>3, <1>4, <1>5, <1>6, <1>7, <1>8
  DEF Next, PlainStep, OpenStep, UpdateDraft, StartSubmit, CheckOverlap, ReadBalance,
      StartApprove, PeekCancel, Abort, UpsertBalance, AdjustBalance, Accrue,
      EditPolicy, vars, requestVars

-----------------------------------------------------------------------------
(* The theorems.                                                           *)

LEMMA LeaveInvariant == Spec => []LeaveInv
<1>1. Init => LeaveInv
  <2> SUFFICES ASSUME Init PROVE LeaveInv
    OBVIOUS
  <2>2. TypeOK
    BY TypeInit
  <2>3. OneHolder /\ StatusHeld
    BY DEF Init, OneHolder, StatusHeld, Idle, Holding, Submitting
  <2>4. EffectMatchesStatus /\ LedgerMatchesEffect
    BY DEF Init, EffectMatchesStatus, LedgerMatchesEffect, LedgerOf
  <2>5. QED  BY <2>2, <2>3, <2>4, SumInit DEF LeaveInv
<1>2. LeaveInv /\ [Next]_vars => LeaveInv'
  <2> SUFFICES ASSUME LeaveInv, [Next]_vars PROVE LeaveInv'
    OBVIOUS
  <2>2. TypeOK'
    BY TypeStep DEF LeaveInv
  <2>3. OneHolder' /\ StatusHeld'
    BY LockStep DEF LeaveInv
  <2>4. EffectMatchesStatus' /\ LedgerMatchesEffect'
    BY EffectStep
  <2>5. BalanceIsSumOfRequests'
    BY SumStep
  <2>6. QED  BY <2>2, <2>3, <2>4, <2>5 DEF LeaveInv
<1>3. QED  BY <1>1, <1>2, PTL DEF Spec

(* Every variable keeps its type; the used days never go below zero.       *)
THEOREM TypeCorrect == Spec => []TypeOK
<1>1. LeaveInv => TypeOK
  BY DEF LeaveInv
<1>2. QED  BY <1>1, LeaveInvariant, PTL

(* What a request did to the balance fits its status, for any number of    *)
(* requests and of calls that act on them at once.                         *)
THEOREM EffectsFitStatus == Spec => []EffectMatchesStatus
<1>1. LeaveInv => EffectMatchesStatus
  BY DEF LeaveInv
<1>2. QED  BY <1>1, LeaveInvariant, PTL

(* Every ledger holds each row of its request's history once, in order.    *)
THEOREM LedgersAreExact == Spec => []LedgerMatchesEffect
<1>1. LeaveInv => LedgerMatchesEffect
  BY DEF LeaveInv
<1>2. QED  BY <1>1, LeaveInvariant, PTL

(* The pending and the used days of the balance row are the sums over the  *)
(* requests that hold them, for any number of requests and of calls that   *)
(* act on them at once, and whatever administrators change meanwhile.      *)
THEOREM BalanceIsExact == Spec => []BalanceIsSumOfRequests
<1>1. LeaveInv => BalanceIsSumOfRequests
  BY DEF LeaveInv
<1>2. QED  BY <1>1, LeaveInvariant, PTL

(* Releases and conversions never take more than was reserved, although    *)
(* neither the code nor a constraint of the table looks at the sign.       *)
THEOREM PendingNeverNegative == Spec => [](balance.pending >= 0)
<1>1. ASSUME LeaveInv PROVE balance.pending >= 0
  <2>1. balance.pending = DaysOfAll("Pending", "Reserved")
    BY <1>1 DEF LeaveInv, BalanceIsSumOfRequests
  <2>2. DaysOfAll("Pending", "Reserved") \in Nat
    BY <1>1, SumIsNat DEF LeaveInv
  <2>3. QED  BY <2>1, <2>2
<1>2. QED  BY <1>1, LeaveInvariant, PTL

-----------------------------------------------------------------------------
(* Finality.  Every step but those that move the status leaves a settled   *)
(* or active request alone; each of these has checked the status under the *)
(* lock.                                                                   *)

Final(r) ==
    /\ Settled(r) => <<status[r], span[r], effect[r], ledger[r]>>' =
                     <<status[r], span[r], effect[r], ledger[r]>>
    /\ status[r] = "Approved" => status'[r] \in {"Approved", "Cancelled", "Revoked"}
    /\ Active(r) => span'[r] = span[r]

(* A step that touches one request alone, and that one only if it is not   *)
(* settled.                                                                *)
LEMMA FinalKept ==
    ASSUME NEW r \in Request,
           \A q \in Request \ {r} :
              /\ status'[q] = status[q] /\ span'[q] = span[q]
              /\ effect'[q] = effect[q] /\ ledger'[q] = ledger[q],
           \/ status[r] \in {"Absent", "Draft"}
           \/ status[r] = "Pending" /\ span'[r] = span[r]
           \/ /\ status[r] = "Approved" /\ span'[r] = span[r]
              /\ status'[r] \in {"Cancelled", "Revoked"}
    PROVE  \A q \in Request : Final(q)
<1>1. \A q \in Request \ {r} : Final(q)
  BY DEF Final, Settled, Active
<1>2. Final(r)
  BY DEF Final, Settled, Active
<1>3. QED  BY <1>1, <1>2

LEMMA FinalStep == ASSUME LeaveInv, [Next]_vars PROVE \A q \in Request : Final(q)
<1>0. TypeOK
  BY DEF LeaveInv
<1>1. ASSUME NEW r \in Request, NEW s \in Span, CreateDraft(r, s) \/ UpdateDraft(r, s)
      PROVE  \A q \in Request : Final(q)
  BY <1>0, <1>1, FinalKept DEF CreateDraft, UpdateDraft, TypeOK
<1>2. ASSUME NEW c \in Call, CommitSubmit(c) PROVE \A q \in Request : Final(q)
  <2>1. call[c].req \in Request
    BY <1>0, <1>2, CallFields DEF CommitSubmit
  <2>2. status[call[c].req] \in {"Absent", "Draft"}
    BY <1>2 DEF CommitSubmit, LeaveInv, StatusHeld, Submitting
  <2>3. \A q \in Request \ {call[c].req} :
              /\ status'[q] = status[q] /\ span'[q] = span[q]
              /\ effect'[q] = effect[q] /\ ledger'[q] = ledger[q]
    BY <1>0, <1>2, <2>1 DEF CommitSubmit, Reserve, TypeOK
  <2>4. QED  BY <2>1, <2>2, <2>3, FinalKept
<1>3. ASSUME NEW c \in Call, CommitApprove(c) PROVE \A q \in Request : Final(q)
  <2>1. call[c].req \in Request
    BY <1>0, <1>3, CallFields DEF CommitApprove
  <2>2. status[call[c].req] = "Pending" /\ span' = span
    BY <1>3 DEF CommitApprove, LeaveInv, StatusHeld
  <2>3. \A q \in Request \ {call[c].req} :
              /\ status'[q] = status[q]
              /\ effect'[q] = effect[q] /\ ledger'[q] = ledger[q]
    BY <1>0, <1>3, <2>1 DEF CommitApprove, ConvertReserveToUsed, TypeOK
  <2>4. QED  BY <2>1, <2>2, <2>3, FinalKept
<1>4. ASSUME NEW r \in Request, NEW to \in Status, status[r] \in {"Draft", "Pending"},
             ReleaseIfReserved(r), status' = [status EXCEPT ![r] = to], span' = span
      PROVE  \A q \in Request : Final(q)
  <2>1. \A q \in Request \ {r} :
              /\ status'[q] = status[q]
              /\ effect'[q] = effect[q] /\ ledger'[q] = ledger[q]
    BY <1>0, <1>4 DEF ReleaseIfReserved, TypeOK
  <2>2. QED  BY <1>4, <2>1, FinalKept
<1>5. ASSUME NEW r \in Request, Reject(r) PROVE \A q \in Request : Final(q)
  BY <1>4, <1>5 DEF Reject, Status
<1>6. ASSUME NEW c \in Call, CancelOpen(c) PROVE \A q \in Request : Final(q)
  <2>1. call[c].req \in Request
    BY <1>0, <1>6, CallFields DEF CancelOpen
  <2>2. QED  BY <1>4, <1>6, <2>1 DEF CancelOpen, Status
<1>7. ASSUME NEW r \in Request, NEW to \in {"Cancelled", "Revoked"},
             UndoApproved(r, to), span' = span
      PROVE  \A q \in Request : Final(q)
  <2>1. /\ status[r] = "Approved" /\ status'[r] = to
        /\ \A q \in Request \ {r} :
              /\ status'[q] = status[q]
              /\ effect'[q] = effect[q] /\ ledger'[q] = ledger[q]
    BY <1>0, <1>7 DEF UndoApproved, RefundIfUsed, TypeOK
  <2>2. QED  BY <1>7, <2>1, FinalKept
<1>8. ASSUME NEW c \in Call, CancelApproved(c) PROVE \A q \in Request : Final(q)
  <2>1. call[c].req \in Request
    BY <1>0, <1>8, CallFields DEF CancelApproved
  <2>2. QED  BY <1>7, <1>8, <2>1 DEF CancelApproved
<1>9. ASSUME NEW r \in Request, Revoke(r) PROVE \A q \in Request : Final(q)
  BY <1>7, <1>9 DEF Revoke
<1>10. ASSUME UNCHANGED requestVars PROVE \A q \in Request : Final(q)
  <2>1. status' = status /\ span' = span /\ effect' = effect /\ ledger' = ledger
    BY <1>10 DEF requestVars
  <2>2. QED  BY <2>1 DEF Final
<1>11. QED
  BY <1>1, <1>2, <1>3, <1>5, <1>6, <1>8, <1>9, <1>10
  DEF Next, PlainStep, OpenStep, StartSubmit, CheckOverlap, ReadBalance, StartApprove,
      PeekCancel, Abort, UpsertBalance, AdjustBalance, Accrue, EditPolicy, vars

(* Rejected, cancelled and revoked requests are never touched again, and   *)
(* the dates of a request are frozen once it is submitted, although calls  *)
(* act on what they read in an earlier step.                               *)
THEOREM SettledStaysSettled == Spec => SettledIsFinal
<1>1. LeaveInv /\ [Next]_vars =>
         [\A r \in Request :
            /\ Settled(r) => <<status[r], span[r], effect[r], ledger[r]>>' =
                             <<status[r], span[r], effect[r], ledger[r]>>
            /\ status[r] = "Approved" =>
                  status'[r] \in {"Approved", "Cancelled", "Revoked"}
            /\ Active(r) => span'[r] = span[r]]_vars
  BY FinalStep DEF Final
<1>2. QED  BY <1>1, LeaveInvariant, PTL DEF Spec, SettledIsFinal
-----------------------------------------------------------------------------
(* The ceiling.  The check of a submission and its reservation are steps   *)
(* apart: what follows holds as long as no two submissions stand between   *)
(* the two at once.                                                        *)

OneReservation ==
    \A c, d \in Call : call[c].pc = "submit" /\ call[d].pc = "submit" => c = d

Reserving(c) == call[c].pc = "submit" /\ call[c].hold = "Reserved"

(* Only a balance that exists is reserved or used.                         *)
RowBehindEffects ==
    ~balance.exists => /\ \A r \in Request : effect[r] = "None"
                       /\ \A c \in Call : ~Reserving(c)

(* Until an administrator changes them, the rules are those a call read.   *)
FreshRules ==
    changes = 0 => \A c \in Call :
        call[c].pc \in {"checkOverlap", "readBalance"} => call[c].rules = policy

(* There is room for a reservation that passed the check.                  *)
RoomToReserve ==
    changes = 0 => \A c \in Call : Reserving(c) =>
        DaysOf[call[c].want] + balance.used + balance.pending
           <= balance.total + policy.ceiling

CeilingInv ==
    /\ RowBehindEffects
    /\ FreshRules
    /\ RoomToReserve
    /\ PendingWithinCeiling

LEMMA BalanceNumbers ==
    ASSUME TypeOK
    PROVE  /\ balance.total \in Nat /\ balance.used \in Nat
           /\ balance.pending \in Int /\ policy.ceiling \in Nat
BY LeaveAssumption DEF TypeOK, PolicyType

LEMMA NothingWithoutRow ==
    ASSUME LeaveInv, RowBehindEffects, ~balance.exists
    PROVE  balance.used = 0 /\ balance.pending = 0
<1>1. With("Pending", "Reserved") = {} /\ With("Approved", "Used") = {}
  BY DEF RowBehindEffects, With
<1>2. DaysOfEach({}) = {} /\ Cardinality({}) = 0
  BY FS_EmptySet DEF DaysOfEach
<1>3. QED  BY <1>1, <1>2 DEF LeaveInv, BalanceIsSumOfRequests, DaysOfAll

(* The row stays once it is there; only requests that touched it before    *)
(* or that found it change their effect.                                   *)
LEMMA RowStep ==
    ASSUME LeaveInv, RowBehindEffects, [Next]_vars
    PROVE  RowBehindEffects'
<1>0. TypeOK
  BY DEF LeaveInv
<1>1. SUFFICES ASSUME ~balance'.exists
               PROVE  /\ \A r \in Request : effect'[r] = "None"
                      /\ \A c \in Call : ~Reserving(c)'
  BY DEF RowBehindEffects
<1>2. ASSUME ~balance.exists, UNCHANGED effect,
             \A c \in Call : Reserving(c)' => Reserving(c)
      PROVE  /\ \A r \in Request : effect'[r] = "None"
             /\ \A c \in Call : ~Reserving(c)'
  BY <1>2 DEF RowBehindEffects
<1>3. ASSUME UNCHANGED <<balance, effect, call>>
      PROVE  /\ \A r \in Request : effect'[r] = "None"
             /\ \A c \in Call : ~Reserving(c)'
  BY <1>1, <1>3 DEF RowBehindEffects, Reserving
<1>4. ASSUME UNCHANGED <<balance, effect>>, NEW c \in Call, NEW k,
             call' = [call EXCEPT ![c] = k], k.pc # "submit"
      PROVE  /\ \A r \in Request : effect'[r] = "None"
             /\ \A d \in Call : ~Reserving(d)'
  <2>1. \A d \in Call : Reserving(d)' => Reserving(d)
    BY <1>0, <1>4 DEF Reserving, TypeOK
  <2>2. QED  BY <1>1, <1>2, <1>4, <2>1
<1>5. Idle.pc # "submit"
  BY DEF Idle
<1>6. ASSUME NEW r \in Request, NEW s \in Span, CreateDraft(r, s) \/ UpdateDraft(r, s)
      PROVE  RowBehindEffects'
  BY <1>3, <1>6 DEF CreateDraft, UpdateDraft, RowBehindEffects
<1>7. ASSUME NEW c \in Call, NEW r \in Request, NEW s \in Span, StartSubmit(c, r, s)
      PROVE  RowBehindEffects'
  <2> DEFINE k == [pc |-> "checkOverlap", req |-> r, want |-> s, rules |-> policy]
  <2>1. k.pc # "submit" /\ UNCHANGED <<balance, effect>>
    BY <1>7 DEF StartSubmit, requestVars
  <2>2. call' = [call EXCEPT ![c] = k]
    BY <1>7 DEF StartSubmit
  <2> HIDE DEF k
  <2>3. QED  BY <1>4, <2>1, <2>2 DEF RowBehindEffects
<1>8. ASSUME NEW c \in Call, CheckOverlap(c) PROVE RowBehindEffects'
  <2> DEFINE k == [call[c] EXCEPT !.pc = "readBalance"]
  <2>1. k.pc = "readBalance" /\ UNCHANGED <<balance, effect>>
    BY <1>0, <1>8 DEF CheckOverlap, requestVars, TypeOK, CallType, Idle
  <2>2. call' = [call EXCEPT ![c] = k]
    BY <1>0, <1>8 DEF CheckOverlap, TypeOK
  <2> HIDE DEF k
  <2>3. QED  BY <1>4, <2>1, <2>2 DEF RowBehindEffects
<1>9. ASSUME NEW c \in Call, ReadBalance(c) PROVE RowBehindEffects'
  <2>1. UNCHANGED <<balance, effect>> /\ ~balance.exists
    BY <1>1, <1>9 DEF ReadBalance, requestVars
  <2>2. call'[c].hold = "None" /\ \A d \in Call \ {c} : call'[d] = call[d]
    BY <1>0, <1>9, <2>1 DEF ReadBalance, TypeOK
  <2>3. \A d \in Call : Reserving(d)' => Reserving(d)
    BY <2>2 DEF Reserving
  <2>4. QED  BY <1>2, <2>1, <2>3 DEF RowBehindEffects
<1>10. ASSUME NEW c \in Call, CommitSubmit(c) PROVE RowBehindEffects'
  <2>1. balance'.exists = balance.exists /\ call[c].req \in Request
    BY <1>0, <1>10, CallFields DEF CommitSubmit, Reserve, TypeOK
  <2>2. call[c].hold # "Reserved" /\ call[c].hold \in {"None", "Reserved"}
    BY <1>0, <1>1, <1>10, <2>1, CallFields DEF CommitSubmit, RowBehindEffects, Reserving
  <2>3. UNCHANGED effect
    BY <1>0, <1>1, <1>10, <2>1, <2>2 DEF CommitSubmit, RowBehindEffects, TypeOK
  <2>4. UNCHANGED balance
    BY <1>10, <2>2 DEF CommitSubmit
  <2>5. QED  BY <1>4, <1>5, <1>10, <2>3, <2>4 DEF CommitSubmit, RowBehindEffects
<1>11. ASSUME NEW c \in Call, NEW r \in Request, StartApprove(c, r)
       PROVE  RowBehindEffects'
  <2> DEFINE k == [pc |-> "approve", req |-> r, rules |-> policy]
  <2>1. k.pc # "submit" /\ UNCHANGED <<balance, effect>>
    BY <1>11 DEF StartApprove, requestVars
  <2>2. call' = [call EXCEPT ![c] = k]
    BY <1>11 DEF StartApprove
  <2> HIDE DEF k
  <2>3. QED  BY <1>4, <2>1, <2>2 DEF RowBehindEffects
<1>12. ASSUME NEW c \in Call, CommitApprove(c) PROVE RowBehindEffects'
  <2>1. balance'.exists = balance.exists /\ call[c].req \in Request
    BY <1>0, <1>12, CallFields DEF CommitApprove, ConvertReserveToUsed, TypeOK
  <2>2. effect[call[c].req] = "None"
    BY <1>1, <2>1 DEF RowBehindEffects
  <2>3. UNCHANGED <<balance, effect>>
    BY <1>12, <2>2 DEF CommitApprove
  <2>4. QED  BY <1>4, <1>5, <1>12, <2>3 DEF CommitApprove, RowBehindEffects
<1>13. ASSUME NEW r \in Request, ReleaseIfReserved(r) \/ RefundIfUsed(r)
       PROVE  UNCHANGED <<balance, effect>>
  <2>1. balance'.exists = balance.exists
    BY <1>0, <1>13 DEF ReleaseIfReserved, RefundIfUsed, TypeOK
  <2>2. effect[r] = "None"
    BY <1>1, <2>1 DEF RowBehindEffects
  <2>3. QED  BY <1>13, <2>2 DEF ReleaseIfReserved, RefundIfUsed
<1>14. ASSUME NEW r \in Request, Reject(r) \/ Revoke(r) PROVE RowBehindEffects'
  BY <1>3, <1>13, <1>14 DEF Reject, Revoke, UndoApproved, RowBehindEffects
<1>15. ASSUME NEW c \in Call, NEW r \in Request, PeekCancel(c, r) PROVE RowBehindEffects'
  <2> DEFINE k == [pc |-> IF status[r] = "Approved" THEN "cancelApproved"
                                                   ELSE "cancelOpen",
                   req |-> r]
  <2>1. k.pc # "submit" /\ UNCHANGED <<balance, effect>>
    BY <1>15 DEF PeekCancel, requestVars
  <2>2. call' = [call EXCEPT ![c] = k]
    BY <1>15 DEF PeekCancel
  <2> HIDE DEF k
  <2>3. QED  BY <1>4, <2>1, <2>2 DEF RowBehindEffects
<1>16. ASSUME NEW c \in Call, CancelOpen(c) \/ CancelApproved(c) PROVE RowBehindEffects'
  <2>1. call[c].req \in Request
    BY <1>0, <1>16, CallFields DEF CancelOpen, CancelApproved
  <2>2. UNCHANGED <<balance, effect>>
    BY <1>13, <1>16, <2>1 DEF CancelOpen, CancelApproved, UndoApproved
  <2>3. QED  BY <1>4, <1>5, <1>16, <2>2 DEF CancelOpen, CancelApproved, RowBehindEffects
<1>17. ASSUME NEW c \in Call, Abort(c) PROVE RowBehindEffects'
  <2>1. UNCHANGED <<balance, effect>>
    BY <1>17 DEF Abort, requestVars
  <2>2. QED  BY <1>4, <1>5, <1>17, <2>1 DEF Abort, RowBehindEffects
<1>18. ASSUME (\E t \in Total : UpsertBalance(t)) \/ (\E p \in AccrualPeriod : Accrue(p))
       PROVE  RowBehindEffects'
  BY <1>0, <1>1, <1>18 DEF UpsertBalance, Accrue, TypeOK
<1>19. ASSUME NEW a \in Adjustment, AdjustBalance(a) PROVE RowBehindEffects'
  BY <1>0, <1>1, <1>19 DEF AdjustBalance, TypeOK
<1>20. ASSUME NEW p \in Policy, EditPolicy(p) PROVE RowBehindEffects'
  BY <1>3, <1>20 DEF EditPolicy, requestVars, RowBehindEffects
<1>21. ASSUME UNCHANGED vars PROVE RowBehindEffects'
  BY <1>3, <1>21 DEF vars, requestVars, RowBehindEffects
<1>22. RowBehindEffects'
  BY <1>6, <1>7, <1>8, <1>9, <1>10, <1>11, <1>12, <1>14, <1>15, <1>16, <1>17, <1>18,
     <1>19, <1>20, <1>21 DEF Next, PlainStep, OpenStep
<1>23. QED  BY <1>1, <1>22 DEF RowBehindEffects

LEMMA NoChangeYet ==
    ASSUME TypeOK, [Next]_vars, changes' = 0
    PROVE  changes = 0 /\ UNCHANGED policy /\ ~Change
<1>1. Change \/ UNCHANGED <<policy, changes>>
  <2>1. ASSUME NEW c \in Call, OpenStep(c) PROVE UNCHANGED <<policy, changes>>
    BY <2>1 DEF OpenStep, StartSubmit, CheckOverlap, ReadBalance, CommitSubmit,
                StartApprove, PeekCancel, CancelOpen, Abort
  <2>2. ASSUME PlainStep PROVE Change \/ UNCHANGED <<policy, changes>>
    BY <2>1, <2>2 DEF PlainStep, CreateDraft, UpdateDraft, Reject, UpsertBalance,
                      AdjustBalance, Accrue, EditPolicy
  <2>3. QED
    BY <2>2 DEF Next, CommitApprove, CancelApproved, Revoke, vars
<1>2. changes \in Nat
  BY DEF TypeOK
<1>3. ~Change
  BY <1>2 DEF Change
<1>4. QED  BY <1>1, <1>3

LEMMA RulesStep == ASSUME LeaveInv, FreshRules, [Next]_vars PROVE FreshRules'
<1>0. TypeOK
  BY DEF LeaveInv
<1>1. ASSUME changes' = 0 PROVE changes = 0 /\ UNCHANGED policy
  BY <1>0, <1>1, NoChangeYet
<1>2. ASSUME NEW c \in Call,
             call'[c].pc \in {"checkOverlap", "readBalance"}, call'[c] # call[c]
      PROVE  \/ call'[c].rules = policy
             \/ call[c].pc = "checkOverlap" /\ call'[c].rules = call[c].rules
  <2>1. ASSUME NEW d \in Call, NEW r \in Request, NEW s \in Span, StartSubmit(d, r, s)
        PROVE  call'[c].rules = policy
    BY <1>0, <1>2, <2>1 DEF StartSubmit, TypeOK
  <2>2. ASSUME NEW d \in Call, CheckOverlap(d)
        PROVE  call[c].pc = "checkOverlap" /\ call'[c].rules = call[c].rules
    BY <1>0, <1>2, <2>2 DEF CheckOverlap, TypeOK, CallType, Idle
  <2>3. ASSUME NEW d \in Call, NEW k, call' = [call EXCEPT ![d] = k],
               k.pc \notin {"checkOverlap", "readBalance"}
        PROVE  FALSE
    BY <1>0, <1>2, <2>3 DEF TypeOK
  <2>4. ASSUME NEW d \in Call, ReadBalance(d) PROVE FALSE
    <3>1. PICK h : call' = [call EXCEPT ![d] =
                      [pc |-> "submit", req |-> call[d].req, want |-> call[d].want,
                       hold |-> h]]
      BY <1>0, <2>4 DEF ReadBalance, TypeOK
    <3>2. [pc |-> "submit", req |-> call[d].req, want |-> call[d].want, hold |-> h].pc
             = "submit"
      OBVIOUS
    <3>3. QED  BY <1>0, <1>2, <3>1, <3>2 DEF TypeOK
  <2>5. ASSUME NEW d \in Call, NEW r \in Request, StartApprove(d, r) \/ PeekCancel(d, r)
        PROVE  FALSE
    BY <1>0, <1>2, <2>5 DEF StartApprove, PeekCancel, TypeOK
  <2>6. ASSUME NEW d \in Call, call' = [call EXCEPT ![d] = Idle] PROVE FALSE
    BY <2>3, <2>6 DEF Idle
  <2>7. UNCHANGED call => FALSE
    BY <1>2
  <2>8. QED
    BY <2>1, <2>2, <2>4, <2>5, <2>6, <2>7
    DEF Next, PlainStep, OpenStep, CreateDraft, UpdateDraft, CommitSubmit,
        CommitApprove, Reject, CancelOpen, CancelApproved, Revoke, Abort,
        UpsertBalance, AdjustBalance, Accrue, EditPolicy, vars
<1>3. QED  BY <1>1, <1>2 DEF FreshRules

(* Until an administrator interferes, only a reservation uses up room, and *)
(* a call that is about to reserve has just found it.                      *)
Roomier ==
    /\ balance'.used + balance'.pending <= balance.used + balance.pending
    /\ balance.total <= balance'.total
    /\ balance.exists => balance'.exists

Checked(c) ==
    /\ UNCHANGED balance
    /\ DaysOf[call'[c].want] + balance.used + balance.pending
          <= balance.total + policy.ceiling

LEMMA RoomMoves ==
    ASSUME LeaveInv, FreshRules, [Next]_vars, changes' = 0
    PROVE  /\ changes = 0 /\ UNCHANGED policy
           /\ \/ \E c \in Call : CommitSubmit(c) /\ Reserving(c)
              \/ /\ Roomier
                 /\ \A c \in Call : Reserving(c)' =>
                       \/ Reserving(c) /\ call'[c].want = call[c].want
                       \/ Checked(c)
<1>0. /\ TypeOK /\ changes \in Nat
      /\ balance.total \in Nat /\ balance.used \in Nat /\ balance.pending \in Int
  BY BalanceNumbers DEF LeaveInv, TypeOK
<1>1. changes = 0 /\ UNCHANGED policy /\ ~Change
  BY <1>0, NoChangeYet
<1> DEFINE Kept == \A c \in Call : Reserving(c)' =>
                       \/ Reserving(c) /\ call'[c].want = call[c].want
                       \/ Checked(c)
<1>2. UNCHANGED balance => Roomier
  BY <1>0 DEF Roomier
<1>3. UNCHANGED call => Kept
  BY DEF Reserving
<1>4. ASSUME NEW c \in Call, NEW k, call' = [call EXCEPT ![c] = k], k.pc # "submit"
      PROVE  Kept
  BY <1>0, <1>4 DEF Reserving, TypeOK
<1>5. Idle.pc # "submit"
  BY DEF Idle
<1> HIDE DEF Kept
<1>6. ASSUME NEW r \in Request, NEW s \in Span, CreateDraft(r, s) \/ UpdateDraft(r, s)
      PROVE  Roomier /\ Kept
  BY <1>2, <1>3, <1>6 DEF CreateDraft, UpdateDraft
<1>7. ASSUME NEW c \in Call, NEW r \in Request, NEW s \in Span, StartSubmit(c, r, s)
      PROVE  Roomier /\ Kept
  <2> DEFINE k == [pc |-> "checkOverlap", req |-> r, want |-> s, rules |-> policy]
  <2>1. k.pc # "submit" /\ call' = [call EXCEPT ![c] = k] /\ UNCHANGED balance
    BY <1>7 DEF StartSubmit
  <2> HIDE DEF k
  <2>2. QED  BY <1>2, <1>4, <2>1
<1>8. ASSUME NEW c \in Call, CheckOverlap(c) PROVE Roomier /\ Kept
  <2> DEFINE k == [call[c] EXCEPT !.pc = "readBalance"]
  <2>1. k.pc = "readBalance"
    BY <1>0, <1>8 DEF CheckOverlap, TypeOK, CallType, Idle
  <2>2. call' = [call EXCEPT ![c] = k] /\ UNCHANGED balance
    BY <1>0, <1>8 DEF CheckOverlap, TypeOK
  <2> HIDE DEF k
  <2>3. QED  BY <1>2, <1>4, <2>1, <2>2
<1>9. ASSUME NEW c \in Call, ReadBalance(c) PROVE Roomier /\ Kept
  <2>1. UNCHANGED balance
    BY <1>9 DEF ReadBalance
  <2>2. call[c].rules = policy
    BY <1>1, <1>9 DEF ReadBalance, FreshRules
  <2>3. call'[c].hold = "Reserved" => Checked(c)
    <3>1. call'[c].want = call[c].want
      BY <1>0, <1>9 DEF ReadBalance, TypeOK
    <3>2. ASSUME call'[c].hold = "Reserved" PROVE policy.deduct
      BY <1>0, <1>9, <2>2, <3>2 DEF ReadBalance, TypeOK
    <3>3. policy.deduct => WithinLimit(DaysOf[call[c].want], policy)
      BY <1>9, <2>2 DEF ReadBalance
    <3>4. QED  BY <2>1, <3>1, <3>2, <3>3 DEF Checked, WithinLimit
  <2>4. \A d \in Call \ {c} : call'[d] = call[d]
    BY <1>0, <1>9 DEF ReadBalance, TypeOK
  <2>5. Kept
    BY <2>3, <2>4 DEF Reserving, Kept
  <2>6. QED  BY <1>2, <2>1, <2>5
<1>10. ASSUME NEW c \in Call, CommitSubmit(c), ~Reserving(c) PROVE Roomier /\ Kept
  <2>1. UNCHANGED balance /\ call' = [call EXCEPT ![c] = Idle]
    BY <1>10 DEF CommitSubmit, Reserving
  <2>2. QED  BY <1>2, <1>4, <1>5, <2>1
<1>11. ASSUME NEW c \in Call, NEW r \in Request, StartApprove(c, r)
       PROVE  Roomier /\ Kept
  <2> DEFINE k == [pc |-> "approve", req |-> r, rules |-> policy]
  <2>1. k.pc # "submit" /\ call' = [call EXCEPT ![c] = k] /\ UNCHANGED balance
    BY <1>11 DEF StartApprove
  <2> HIDE DEF k
  <2>2. QED  BY <1>2, <1>4, <2>1
<1>12. ASSUME NEW c \in Call, CommitApprove(c) PROVE Roomier /\ Kept
  <2>1. PICK d \in Nat : d = Days(call[c].req)
    BY <1>0, <1>12, CallFields, DaysAreNat DEF CommitApprove
  <2>2. \/ UNCHANGED balance
        \/ balance' = [balance EXCEPT !.used = @ + d, !.pending = @ - d]
    BY <1>12, <2>1 DEF CommitApprove, ConvertReserveToUsed
  <2>3. Roomier
    <3>1. ASSUME balance' = [balance EXCEPT !.used = @ + d, !.pending = @ - d]
          PROVE  /\ balance'.used = balance.used + d
                 /\ balance'.pending = balance.pending - d
                 /\ balance'.total = balance.total /\ balance'.exists = balance.exists
      BY <1>0, <3>1 DEF TypeOK
    <3>2. QED  BY <1>0, <1>2, <2>2, <3>1 DEF Roomier
  <2>4. QED  BY <1>4, <1>5, <1>12, <2>3 DEF CommitApprove
<1>13. ASSUME NEW r \in Request, ReleaseIfReserved(r) \/ RefundIfUsed(r)
       PROVE  Roomier
  <2>1. PICK d \in Nat : d = Days(r)
    BY <1>0, DaysAreNat
  <2>2. \/ UNCHANGED balance
        \/ balance' = [balance EXCEPT !.pending = @ - d]
        \/ balance' = [balance EXCEPT !.used = @ - d]
    BY <1>13, <2>1 DEF ReleaseIfReserved, RefundIfUsed
  <2>3. ASSUME balance' = [balance EXCEPT !.pending = @ - d] PROVE Roomier
    <3>1. /\ balance'.used = balance.used /\ balance'.pending = balance.pending - d
          /\ balance'.total = balance.total /\ balance'.exists = balance.exists
      BY <1>0, <2>3 DEF TypeOK
    <3>2. QED  BY <1>0, <3>1 DEF Roomier
  <2>4. ASSUME balance' = [balance EXCEPT !.used = @ - d] PROVE Roomier
    <3>1. /\ balance'.used = balance.used - d /\ balance'.pending = balance.pending
          /\ balance'.total = balance.total /\ balance'.exists = balance.exists
      BY <1>0, <2>4 DEF TypeOK
    <3>2. QED  BY <1>0, <3>1 DEF Roomier
  <2>5. QED  BY <1>2, <2>2, <2>3, <2>4
<1>14. ASSUME NEW r \in Request, Reject(r) \/ Revoke(r) PROVE Roomier /\ Kept
  BY <1>3, <1>13, <1>14 DEF Reject, Revoke, UndoApproved
<1>15. ASSUME NEW c \in Call, NEW r \in Request, PeekCancel(c, r) PROVE Roomier /\ Kept
  <2> DEFINE k == [pc |-> IF status[r] = "Approved" THEN "cancelApproved"
                                                   ELSE "cancelOpen",
                   req |-> r]
  <2>1. k.pc # "submit" /\ call' = [call EXCEPT ![c] = k] /\ UNCHANGED balance
    BY <1>15 DEF PeekCancel
  <2> HIDE DEF k
  <2>2. QED  BY <1>2, <1>4, <2>1
<1>16. ASSUME NEW c \in Call, CancelOpen(c) \/ CancelApproved(c) PROVE Roomier /\ Kept
  <2>1. call[c].req \in Request
    BY <1>0, <1>16, CallFields DEF CancelOpen, CancelApproved
  <2>2. Roomier
    BY <1>13, <1>16, <2>1 DEF CancelOpen, CancelApproved, UndoApproved
  <2>3. QED  BY <1>4, <1>5, <1>16, <2>2 DEF CancelOpen, CancelApproved
<1>17. ASSUME NEW c \in Call, Abort(c) PROVE Roomier /\ Kept
  BY <1>2, <1>4, <1>5, <1>17 DEF Abort
<1>18. ASSUME NEW p \in AccrualPeriod, Accrue(p) PROVE Roomier /\ Kept
  <2>1. balance' = [balance EXCEPT !.exists = TRUE, !.linked = TRUE,
                                   !.total = @ + AccrualDays]
    BY <1>18 DEF Accrue
  <2>2. Roomier
    BY <1>0, <2>1, LeaveAssumption DEF Roomier, TypeOK
  <2>3. QED  BY <1>3, <1>18, <2>2 DEF Accrue
<1>19. ASSUME UNCHANGED vars PROVE Roomier /\ Kept
  BY <1>2, <1>3, <1>19 DEF vars
<1>20. \/ \E c \in Call : CommitSubmit(c) /\ Reserving(c)
       \/ Roomier /\ Kept
  BY <1>1, <1>6, <1>7, <1>8, <1>9, <1>10, <1>11, <1>12, <1>14, <1>15, <1>16, <1>17,
     <1>18, <1>19 DEF Next, PlainStep, OpenStep, UpsertBalance, AdjustBalance, EditPolicy
<1>21. QED  BY <1>1, <1>20 DEF Kept

LEMMA CeilingStep ==
    ASSUME LeaveInv, LeaveInv', CeilingInv, OneReservation, [Next]_vars
    PROVE  CeilingInv'
<1>0. /\ TypeOK /\ TypeOK'
      /\ RowBehindEffects /\ FreshRules /\ RoomToReserve /\ PendingWithinCeiling
  BY DEF LeaveInv, CeilingInv
<1>1. RowBehindEffects' /\ FreshRules'
  BY <1>0, RowStep, RulesStep
<1>2. ASSUME changes' = 0 PROVE RoomToReserve' /\ PendingWithinCeiling'
  <2>1. changes = 0 /\ UNCHANGED policy
    BY <1>0, <1>2, RoomMoves
  <2>2. /\ balance.total \in Nat /\ balance.used \in Nat
        /\ balance.pending \in Int /\ policy.ceiling \in Nat
        /\ balance'.total \in Nat /\ balance'.used \in Nat /\ balance'.pending \in Int
    BY <1>0, BalanceNumbers DEF TypeOK
  <2>3. balance.used + balance.pending <= balance.total + policy.ceiling
    <3>1. CASE balance.exists
      BY <1>0, <2>1, <3>1 DEF PendingWithinCeiling
    <3>2. CASE ~balance.exists
      <4>1. balance.used = 0 /\ balance.pending = 0
        BY <1>0, <3>2, NothingWithoutRow
      <4>2. QED  BY <2>2, <4>1
    <3>3. QED  BY <3>1, <3>2
  <2>4. CASE \E c \in Call : CommitSubmit(c) /\ Reserving(c)
    <3>1. PICK c \in Call : CommitSubmit(c) /\ Reserving(c)
      BY <2>4
    <3>2. PICK d \in Nat : d = DaysOf[call[c].want]
      BY <1>0, <3>1, CallFields, LeaveAssumption DEF Reserving, Submitting
    <3>3. balance' = [balance EXCEPT !.pending = @ + d]
      BY <3>1, <3>2 DEF CommitSubmit, Reserve, Reserving
    <3>4. d + balance.used + balance.pending <= balance.total + policy.ceiling
      BY <1>0, <2>1, <3>1, <3>2 DEF RoomToReserve
    <3>5. /\ balance'.pending = balance.pending + d
          /\ balance'.used = balance.used /\ balance'.total = balance.total
      BY <1>0, <3>3 DEF TypeOK
    <3>6. PendingWithinCeiling'
      BY <2>1, <2>2, <3>4, <3>5 DEF PendingWithinCeiling
    <3>7. \A b \in Call : ~Reserving(b)'
      <4>1. call' = [call EXCEPT ![c] = Idle] /\ Idle.pc # "submit"
        BY <3>1 DEF CommitSubmit, Idle
      <4>2. \A b \in Call \ {c} : call[b].pc # "submit"
        BY <3>1 DEF OneReservation, Reserving
      <4>3. QED  BY <1>0, <4>1, <4>2 DEF Reserving, TypeOK
    <3>8. QED  BY <3>6, <3>7 DEF RoomToReserve
  <2>5. CASE /\ Roomier
             /\ \A c \in Call : Reserving(c)' =>
                   \/ Reserving(c) /\ call'[c].want = call[c].want
                   \/ Checked(c)
    <3>1. PendingWithinCeiling'
      BY <2>1, <2>2, <2>3, <2>5 DEF Roomier, PendingWithinCeiling
    <3>2. ASSUME NEW c \in Call, Reserving(c)'
          PROVE  DaysOf[call'[c].want] + balance'.used + balance'.pending
                    <= balance'.total + policy'.ceiling
      <4>1. PICK d \in Nat : d = DaysOf[call'[c].want]
        <5>1. call'[c] \in CallType /\ call'[c].pc = "submit"
          BY <1>0, <3>2 DEF Reserving, TypeOK
        <5>2. call'[c].want \in Span
          BY <5>1 DEF CallType, Idle
        <5>3. QED  BY <5>2, LeaveAssumption
      <4>2. d + balance.used + balance.pending <= balance.total + policy.ceiling
        BY <1>0, <2>1, <2>5, <3>2, <4>1 DEF RoomToReserve, Checked
      <4>3. QED  BY <2>1, <2>2, <2>5, <4>1, <4>2 DEF Roomier
    <3>3. QED  BY <3>1, <3>2 DEF RoomToReserve
  <2>6. QED  BY <1>0, <1>2, <2>4, <2>5, RoomMoves
<1>3. ASSUME changes' # 0 PROVE RoomToReserve' /\ PendingWithinCeiling'
  BY <1>3 DEF RoomToReserve, PendingWithinCeiling
<1>4. QED  BY <1>1, <1>2, <1>3 DEF CeilingInv

(* The limit holds whenever no two submissions of the employee stand       *)
(* between the check and the reservation at once: what breaks it is that   *)
(* window, and nothing else the calls, the decisions or the accrual do     *)
(* (reserveIfNeeded).                                                      *)
THEOREM SerialSubmitsStayWithinCeiling ==
    Spec /\ []OneReservation => []PendingWithinCeiling
<1>1. Init => CeilingInv
  BY LeaveAssumption
  DEF Init, CeilingInv, RowBehindEffects, FreshRules, RoomToReserve, Reserving, Idle,
      PendingWithinCeiling
<1>2. LeaveInv /\ LeaveInv' /\ CeilingInv /\ OneReservation /\ [Next]_vars => CeilingInv'
  BY CeilingStep
<1>3. CeilingInv => PendingWithinCeiling
  BY DEF CeilingInv
<1>4. QED  BY <1>1, <1>2, <1>3, LeaveInvariant, PTL DEF Spec

(* Where no policy permits debt, the two limits on an approval agree, and  *)
(* whatever passes the WHERE clause also passes the CHECK constraint.      *)
THEOREM StrictApprovalsFit ==
    ASSUME \A p \in Policy : p.ceiling = 0
    PROVE  Spec => []DebtIsApprovable
<1>1. ASSUME TypeOK PROVE DebtIsApprovable
  <2>1. SUFFICES ASSUME NEW c \in Call, call[c].pc = "approve",
                        WhereApprove(Days(call[c].req), call[c].rules)
                 PROVE  CheckUsed([balance EXCEPT !.used = @ + Days(call[c].req)])
    BY DEF DebtIsApprovable
  <2>2. call[c].rules \in Policy /\ call[c].req \in Request
    BY <1>1, <2>1, CallFields
  <2>3. PICK d \in Nat : d = Days(call[c].req)
    BY <1>1, <2>2, DaysAreNat
  <2>4. balance.used + d <= balance.total
    BY <1>1, <2>1, <2>2, <2>3, BalanceNumbers DEF WhereApprove
  <2>5. QED  BY <1>1, <2>3, <2>4 DEF CheckUsed, TypeOK
<1>2. QED  BY <1>1, TypeCorrect, PTL
-----------------------------------------------------------------------------
(* Refinement.  A step that moves the days of one request is a move of the *)
(* account; every other leaves phases, days and row as they are.           *)

Phases == [q \in Request |-> PhaseOf(status[q])]
DaysOfRow == [q \in Request |-> DaysHeld(q)]

LEMMA AccountStands ==
    ASSUME \A q \in Request : /\ PhaseOf(status'[q]) = PhaseOf(status[q])
                              /\ DaysHeld(q)' = DaysHeld(q),
           balance'.pending = balance.pending, balance'.used = balance.used,
           ledger' = ledger
    PROVE  UNCHANGED Account!vars
<1>1. Phases' = Phases /\ DaysOfRow' = DaysOfRow
  BY DEF Phases, DaysOfRow
<1>2. QED  BY <1>1 DEF Account!vars, Phases, DaysOfRow

(* A step of request r alone, seen in the account.                         *)
LEMMA AccountMoves ==
    ASSUME NEW r \in Request,
           \A q \in Request \ {r} :
              status'[q] = status[q] /\ effect'[q] = effect[q] /\ span'[q] = span[q]
    PROVE  /\ Phases' = [Phases EXCEPT ![r] = PhaseOf(status'[r])]
           /\ DaysOfRow' = [DaysOfRow EXCEPT ![r] = DaysHeld(r)']
<1>1. \A q \in Request \ {r} : DaysHeld(q)' = DaysHeld(q)
  BY DEF DaysHeld, Days
<1>2. QED  BY <1>1 DEF Phases, DaysOfRow

(* What the effect of a request says of the days it has of the row.        *)
LEMMA HeldDays ==
    ASSUME TypeOK, NEW r \in Request
    PROVE  /\ DaysHeld(r) \in Nat
           /\ effect[r] \in {"Reserved", "Used"} => DaysHeld(r) = Days(r) /\ Days(r) # 0
           /\ effect[r] \notin {"Reserved", "Used"} => DaysHeld(r) = 0
<1>1. Days(r) \in Nat \ {0}
  BY LeaveAssumption DEF TypeOK, Days
<1>2. QED  BY <1>1 DEF DaysHeld

LEMMA LedgerAppends ==
    ASSUME TypeOK, NEW r \in Request
    PROVE  /\ \A x \in Row : ledger[r] \o <<x>> = Append(ledger[r], x)
           /\ ledger[r] \o <<"RELEASE", "USE">> =
                 Append(Append(ledger[r], "RELEASE"), "USE")
<1>1. ledger[r] \in Seq(Row)
  BY DEF TypeOK, Row
<1>2. \A x \in Row : ledger[r] \o <<x>> = Append(ledger[r], x)
  BY <1>1, AppendIsConcat
<1>3. "RELEASE" \in Row /\ "USE" \in Row
  BY DEF Row
<1>4. <<"RELEASE">> \in Seq(Row) /\ <<"USE">> \in Seq(Row)
  BY <1>3
<1>5. ledger[r] \o <<"RELEASE">> \in Seq(Row)
  BY <1>1, <1>4
<1>6. Append(Append(ledger[r], "RELEASE"), "USE") =
         (ledger[r] \o <<"RELEASE">>) \o <<"USE">>
  BY <1>2, <1>3, <1>5, AppendIsConcat
<1>7. (ledger[r] \o <<"RELEASE">>) \o <<"USE">> =
         ledger[r] \o (<<"RELEASE">> \o <<"USE">>)
  BY <1>1, <1>4, ConcatAssociative
<1>8. <<"RELEASE">> \o <<"USE">> = <<"RELEASE", "USE">>
  <2>1. <<"RELEASE">> \o <<"USE">> = Append(<<"RELEASE">>, "USE")
    BY <1>3, <1>4, AppendIsConcat
  <2>2. QED  BY <1>3, <2>1, AppendToOne
<1>9. QED  BY <1>2, <1>6, <1>7, <1>8

LEMMA AccountSubmit ==
    ASSUME LeaveInv, TypeOK', NEW c \in Call, CommitSubmit(c)
    PROVE  Account!Next
<1>0. TypeOK
  BY DEF LeaveInv
<1>1. /\ call[c].req \in Request /\ call[c].want \in Span
      /\ call[c].hold \in {"None", "Reserved"}
  BY <1>0, CallFields DEF CommitSubmit, Submitting
<1>2. PICK r \in Request : r = call[c].req
  BY <1>1
<1>3. PICK n \in Nat \ {0} : n = DaysOf[call[c].want]
  BY <1>1, LeaveAssumption
<1> DEFINE d == IF call[c].hold = "Reserved" THEN n ELSE 0
<1>4. status[r] \in {"Absent", "Draft"} /\ status'[r] = "Pending"
  BY <1>0, <1>2 DEF CommitSubmit, TypeOK, LeaveInv, StatusHeld, Submitting
<1>5. DaysHeld(r)' = d
  BY <1>0, <1>1, <1>2, <1>3 DEF CommitSubmit, DaysHeld, Days, TypeOK
<1>6. \A q \in Request \ {r} :
         status'[q] = status[q] /\ effect'[q] = effect[q] /\ span'[q] = span[q]
  BY <1>0, <1>2 DEF CommitSubmit, TypeOK
<1>7. /\ Phases' = [Phases EXCEPT ![r] = "pending"]
      /\ DaysOfRow' = [DaysOfRow EXCEPT ![r] = d]
      /\ Phases[r] = "open"
  BY <1>4, <1>5, <1>6, AccountMoves DEF PhaseOf, Phases
<1>8. balance'.pending = balance.pending + d /\ balance'.used = balance.used
  BY <1>0, <1>3 DEF CommitSubmit, Reserve, TypeOK
<1>9. ledger' = IF d = 0 THEN ledger ELSE [ledger EXCEPT ![r] = @ \o <<"RESERVE">>]
  <2>1. ledger[r] \o <<"RESERVE">> = Append(ledger[r], "RESERVE")
    BY <1>0, LedgerAppends DEF Row
  <2>2. CASE call[c].hold = "Reserved"
    BY <1>2, <1>3, <2>1, <2>2 DEF CommitSubmit, Reserve
  <2>3. CASE call[c].hold # "Reserved"
    BY <2>3 DEF CommitSubmit
  <2>4. QED  BY <2>2, <2>3
<1>10. d \in {0} \cup {DaysOf[s] : s \in Span}
  BY <1>1, <1>3
<1> HIDE DEF d
<1>11. Account!Submit(r)
  BY <1>7, <1>8, <1>9, <1>10 DEF Account!Submit, Account!Record, Phases, DaysOfRow
<1>12. QED  BY <1>11 DEF Account!Next

LEMMA AccountApprove ==
    ASSUME LeaveInv, TypeOK', NEW c \in Call, CommitApprove(c)
    PROVE  Account!Next
<1>0. TypeOK
  BY DEF LeaveInv
<1>1. PICK r \in Request : r = call[c].req
  BY <1>0, CallFields DEF CommitApprove
<1>2. PICK d \in Nat : d = DaysHeld(r)
  BY <1>0, HeldDays
<1>3. /\ status[r] = "Pending" /\ effect[r] \in {"None", "Reserved"}
      /\ status'[r] = "Approved" /\ span' = span
  BY <1>0, <1>1, EffectSoFar DEF CommitApprove, TypeOK, LeaveInv, StatusHeld
<1>4. \A q \in Request \ {r} :
         status'[q] = status[q] /\ effect'[q] = effect[q] /\ span'[q] = span[q]
  BY <1>0, <1>1 DEF CommitApprove, ConvertReserveToUsed, TypeOK
<1>5. /\ DaysHeld(r)' = d
      /\ balance'.pending = balance.pending - d /\ balance'.used = balance.used + d
      /\ ledger' = IF d = 0 THEN ledger
                   ELSE [ledger EXCEPT ![r] = @ \o <<"RELEASE", "USE">>]
  <2>1. CASE effect[r] = "Reserved"
    <3>1. d = Days(r) /\ d # 0
      BY <1>0, <1>2, <2>1, HeldDays
    <3>2. ConvertReserveToUsed(r, d, call[c].rules)
      BY <1>1, <2>1, <3>1 DEF CommitApprove
    <3>3. /\ balance' = [balance EXCEPT !.used = @ + d, !.pending = @ - d]
          /\ effect'[r] = "Used" /\ Days(r)' = d
      BY <1>0, <1>3, <3>1, <3>2 DEF ConvertReserveToUsed, TypeOK, Days
    <3>4. DaysHeld(r)' = d
      BY <3>3 DEF DaysHeld
    <3>5. ledger' = [ledger EXCEPT ![r] = @ \o <<"RELEASE", "USE">>]
      BY <1>0, <3>2, LedgerAppends DEF ConvertReserveToUsed
    <3>6. balance'.pending = balance.pending - d /\ balance'.used = balance.used + d
      BY <1>0, <3>3 DEF TypeOK
    <3>7. QED  BY <3>1, <3>4, <3>5, <3>6
  <2>2. CASE effect[r] = "None"
    <3>1. d = 0
      BY <1>0, <1>2, <2>2, HeldDays
    <3>2. UNCHANGED <<balance, ledger, effect>>
      BY <1>1, <2>2 DEF CommitApprove
    <3>3. DaysHeld(r)' = 0
      BY <2>2, <3>2 DEF DaysHeld
    <3>4. balance.pending \in Int /\ balance.used \in Int
      BY <1>0 DEF TypeOK
    <3>5. QED  BY <3>1, <3>2, <3>3, <3>4
  <2>3. QED  BY <1>3, <2>1, <2>2
<1>6. /\ Phases' = [Phases EXCEPT ![r] = "approved"]
      /\ DaysOfRow' = [DaysOfRow EXCEPT ![r] = d]
      /\ Phases[r] = "pending" /\ DaysOfRow[r] = d
  BY <1>2, <1>3, <1>4, <1>5, AccountMoves DEF PhaseOf, Phases, DaysOfRow
<1>7. DaysOfRow' = DaysOfRow
  BY <1>6 DEF DaysOfRow
<1>8. Account!Approve(r)
  BY <1>5, <1>6, <1>7 DEF Account!Approve, Account!Record, Phases, DaysOfRow
<1>9. QED  BY <1>8 DEF Account!Next

LEMMA AccountRelease ==
    ASSUME LeaveInv, TypeOK', NEW r \in Request, NEW to \in {"Rejected", "Cancelled"},
           status[r] \in {"Draft", "Pending"}, ReleaseIfReserved(r),
           status' = [status EXCEPT ![r] = to], span' = span
    PROVE  Account!Next
<1>0. TypeOK /\ effect[r] \in {"None", "Reserved"} /\ status'[r] = to
  BY EffectSoFar DEF LeaveInv, TypeOK
<1>1. PICK d \in Nat : d = DaysHeld(r)
  BY <1>0, HeldDays
<1>2. \A q \in Request \ {r} :
         status'[q] = status[q] /\ effect'[q] = effect[q] /\ span'[q] = span[q]
  BY <1>0 DEF TypeOK, ReleaseIfReserved
<1>3. /\ DaysHeld(r)' = 0
      /\ balance'.pending = balance.pending - d /\ balance'.used = balance.used
      /\ ledger' = IF d = 0 THEN ledger
                   ELSE [ledger EXCEPT ![r] = @ \o <<"RELEASE">>]
  <2>1. CASE effect[r] = "Reserved"
    <3>1. d = Days(r) /\ d # 0
      BY <1>0, <1>1, <2>1, HeldDays
    <3>2. /\ balance' = [balance EXCEPT !.pending = @ - d] /\ effect'[r] = "Released"
      BY <1>0, <2>1, <3>1 DEF ReleaseIfReserved, TypeOK
    <3>3. ledger' = [ledger EXCEPT ![r] = @ \o <<"RELEASE">>]
      BY <1>0, <2>1, LedgerAppends DEF ReleaseIfReserved, Row
    <3>4. DaysHeld(r)' = 0
      BY <3>2 DEF DaysHeld
    <3>5. balance'.pending = balance.pending - d /\ balance'.used = balance.used
      BY <1>0, <3>2 DEF TypeOK
    <3>6. QED  BY <3>1, <3>3, <3>4, <3>5
  <2>2. CASE effect[r] = "None"
    <3>1. d = 0
      BY <1>0, <1>1, <2>2, HeldDays
    <3>2. UNCHANGED <<balance, ledger, effect>>
      BY <2>2 DEF ReleaseIfReserved
    <3>3. DaysHeld(r)' = 0
      BY <2>2, <3>2 DEF DaysHeld
    <3>4. balance.pending \in Int /\ balance.used \in Int
      BY <1>0 DEF TypeOK
    <3>5. QED  BY <3>1, <3>2, <3>3, <3>4
  <2>3. QED  BY <1>0, <2>1, <2>2
<1>4. /\ Phases' = [Phases EXCEPT ![r] = "closed"]
      /\ DaysOfRow' = [DaysOfRow EXCEPT ![r] = 0]
      /\ Phases[r] \in {"open", "pending"} /\ DaysOfRow[r] = d
  BY <1>0, <1>1, <1>2, <1>3, AccountMoves DEF PhaseOf, Phases, DaysOfRow
<1>5. Account!Release(r)
  BY <1>3, <1>4
  DEF Account!Release, Account!GiveUp, Account!Record, Phases, DaysOfRow
<1>6. QED  BY <1>5 DEF Account!Next

LEMMA AccountRefund ==
    ASSUME LeaveInv, TypeOK', NEW r \in Request, NEW to \in {"Cancelled", "Revoked"},
           UndoApproved(r, to), span' = span
    PROVE  Account!Next
<1>0. /\ TypeOK /\ effect[r] \in {"None", "Used"}
      /\ status[r] = "Approved" /\ status'[r] = to
  BY EffectSoFar DEF LeaveInv, TypeOK, UndoApproved
<1>1. PICK d \in Nat : d = DaysHeld(r)
  BY <1>0, HeldDays
<1>2. \A q \in Request \ {r} :
         status'[q] = status[q] /\ effect'[q] = effect[q] /\ span'[q] = span[q]
  BY <1>0 DEF TypeOK, UndoApproved, RefundIfUsed
<1>3. /\ DaysHeld(r)' = 0
      /\ balance'.pending = balance.pending /\ balance'.used = balance.used - d
      /\ ledger' = IF d = 0 THEN ledger
                   ELSE [ledger EXCEPT ![r] = @ \o <<"REFUND">>]
  <2>1. CASE effect[r] = "Used"
    <3>1. d = Days(r) /\ d # 0
      BY <1>0, <1>1, <2>1, HeldDays
    <3>2. balance.used >= Days(r)
      BY <1>0, <2>1, RefundFits DEF LeaveInv
    <3>3. /\ balance' = [balance EXCEPT !.used = @ - d] /\ effect'[r] = "Refunded"
      BY <1>0, <2>1, <3>1, <3>2 DEF UndoApproved, RefundIfUsed, TypeOK
    <3>4. ledger' = [ledger EXCEPT ![r] = @ \o <<"REFUND">>]
      BY <1>0, <2>1, <3>2, LedgerAppends DEF UndoApproved, RefundIfUsed, Row
    <3>5. DaysHeld(r)' = 0
      BY <3>3 DEF DaysHeld
    <3>6. balance'.pending = balance.pending /\ balance'.used = balance.used - d
      BY <1>0, <3>3 DEF TypeOK
    <3>7. QED  BY <3>1, <3>4, <3>5, <3>6
  <2>2. CASE effect[r] = "None"
    <3>1. d = 0
      BY <1>0, <1>1, <2>2, HeldDays
    <3>2. UNCHANGED <<balance, ledger, effect>>
      BY <2>2 DEF UndoApproved, RefundIfUsed
    <3>3. DaysHeld(r)' = 0
      BY <2>2, <3>2 DEF DaysHeld
    <3>4. balance.pending \in Int /\ balance.used \in Int
      BY <1>0 DEF TypeOK
    <3>5. QED  BY <3>1, <3>2, <3>3, <3>4
  <2>3. QED  BY <1>0, <2>1, <2>2
<1>4. /\ Phases' = [Phases EXCEPT ![r] = "closed"]
      /\ DaysOfRow' = [DaysOfRow EXCEPT ![r] = 0]
      /\ Phases[r] = "approved" /\ DaysOfRow[r] = d
  BY <1>0, <1>1, <1>2, <1>3, AccountMoves DEF PhaseOf, Phases, DaysOfRow
<1>5. Account!Refund(r)
  BY <1>3, <1>4
  DEF Account!Refund, Account!GiveUp, Account!Record, Phases, DaysOfRow
<1>6. QED  BY <1>5 DEF Account!Next

LEMMA StepAccount ==
    ASSUME LeaveInv, [Next]_vars
    PROVE  [Account!Next]_(Account!vars)
<1>0. TypeOK /\ TypeOK'
  BY TypeStep DEF LeaveInv
<1>1. ASSUME NEW r \in Request, NEW s \in Span, CreateDraft(r, s) \/ UpdateDraft(r, s)
      PROVE  UNCHANGED Account!vars
  <2>1. /\ status[r] \in {"Absent", "Draft"} /\ status'[r] = "Draft"
        /\ effect[r] = "None" /\ UNCHANGED <<effect, ledger, balance>>
    BY <1>0, <1>1, EffectSoFar DEF CreateDraft, UpdateDraft, TypeOK
  <2>2. \A q \in Request \ {r} : status'[q] = status[q] /\ span'[q] = span[q]
    BY <1>0, <1>1 DEF CreateDraft, UpdateDraft, TypeOK
  <2>3. PhaseOf(status'[r]) = PhaseOf(status[r]) /\ DaysHeld(r)' = DaysHeld(r)
    BY <2>1 DEF PhaseOf, DaysHeld
  <2>4. \A q \in Request \ {r} : DaysHeld(q)' = DaysHeld(q)
    BY <2>1, <2>2 DEF DaysHeld, Days
  <2>5. QED  BY <2>1, <2>2, <2>3, <2>4, AccountStands
<1>2. ASSUME NEW c \in Call, CommitSubmit(c) PROVE Account!Next
  BY <1>0, <1>2, AccountSubmit
<1>3. ASSUME NEW c \in Call, CommitApprove(c) PROVE Account!Next
  BY <1>0, <1>3, AccountApprove
<1>4. ASSUME NEW r \in Request, Reject(r) PROVE Account!Next
  BY <1>0, <1>4, AccountRelease DEF Reject
<1>5. ASSUME NEW c \in Call, CancelOpen(c) PROVE Account!Next
  <2>1. call[c].req \in Request
    BY <1>0, <1>5, CallFields DEF CancelOpen
  <2>2. QED  BY <1>0, <1>5, <2>1, AccountRelease DEF CancelOpen
<1>6. ASSUME NEW c \in Call, CancelApproved(c) PROVE Account!Next
  <2>1. call[c].req \in Request
    BY <1>0, <1>6, CallFields DEF CancelApproved
  <2>2. QED  BY <1>0, <1>6, <2>1, AccountRefund DEF CancelApproved
<1>7. ASSUME NEW r \in Request, Revoke(r) PROVE Account!Next
  BY <1>0, <1>7, AccountRefund DEF Revoke
<1>8. ASSUME UNCHANGED requestVars, balance'.pending = balance.pending,
             balance'.used = balance.used
      PROVE  UNCHANGED Account!vars
  <2>1. \A q \in Request : DaysHeld(q)' = DaysHeld(q)
    BY <1>8 DEF DaysHeld, Days, requestVars
  <2>2. QED  BY <1>8, <2>1, AccountStands DEF requestVars
<1>9. ASSUME (\E t \in Total : UpsertBalance(t)) \/ (\E a \in Adjustment : AdjustBalance(a))
                \/ (\E p \in AccrualPeriod : Accrue(p))
      PROVE  UNCHANGED Account!vars
  BY <1>0, <1>8, <1>9 DEF UpsertBalance, AdjustBalance, Accrue, TypeOK
<1>10. QED
  BY <1>1, <1>2, <1>3, <1>4, <1>5, <1>6, <1>7, <1>8, <1>9
  DEF Next, PlainStep, OpenStep, StartSubmit, CheckOverlap, ReadBalance,
      StartApprove, PeekCancel, Abort, EditPolicy, vars

(* The workflow implements the account: every move of days is one step     *)
(* with its rows of the ledger, made once, and takes or gives back exactly *)
(* what the request has.                                                   *)
THEOREM WorkflowImplementsAccount == Spec => ImplementsAccount
<1>1. Init => Account!Init
  BY DEF Init, Account!Init, PhaseOf, DaysHeld
<1>2. LeaveInv /\ [Next]_vars => [Account!Next]_(Account!vars)
  BY StepAccount
<1>3. QED  BY <1>1, <1>2, LeaveInvariant, PTL DEF Spec, ImplementsAccount, Account!Spec
=============================================================================
