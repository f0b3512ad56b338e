--------------------------- MODULE SequenceProofs ---------------------------
(* Theorems about SequenceCounter, for any number of requests, PATCHes,     *)
(* formats, increments, periods, edits and failures.                        *)
EXTENDS SequenceCounter, TLAPS

-----------------------------------------------------------------------------
(* How often a request calls nextCode, and what it knows when it calls      *)
(* again.                                                                   *)

EnsureInv ==
    \A r \in Request :
        /\ pc[r] \in {"readConfig", "find", "insert", "commitInsert"} => tries[r] = 1
        /\ pc[r] = "new" => tries[r] \in {0, 1} /\ (tries[r] = 1 => exists)
        /\ pc[r] = "lock" => tries[r] \in {1, 2} /\ (tries[r] = 2 => exists)
        /\ pc[r] # "notFound"

TypeInv == TypeOK /\ EnsureInv

LEMMA InitTypeInv == Init => TypeInv
  BY SequenceCounterAssumption
  DEF Init, TypeInv, TypeOK, EnsureInv, Proc, Period, Config, Counter, Row, NoCode,
      Stage, TxStage, Ended, NewCounter, Seeded

LEMMA NewCounterType == \A c \in Config : NewCounter(c) \in Counter
  BY SequenceCounterAssumption DEF Config, Counter, NewCounter, Period

LEMMA NextTypeInv == TypeInv /\ [Next]_vars => TypeInv'
<1> SUFFICES ASSUME TypeInv, [Next]_vars PROVE TypeInv'
  OBVIOUS
<1> USE SequenceCounterAssumption
    DEF TypeInv, TypeOK, EnsureInv, Proc, Stage, TxStage, Ended
<1>1. CASE NextPeriod
  BY <1>1 DEF NextPeriod, callVars, Period
<1>2. CASE UpdateSequence
  <2>1. counter' \in Counter
    <3>1. PICK c \in Config, n \in Increment :
             counter' = [counter EXCEPT !.fmt = c.fmt, !.active = c.active, !.inc = n]
      BY <1>2 DEF UpdateSequence
    <3>2. QED
      BY <3>1 DEF Config, Counter
  <2>2. edits' \in 0..MaxEdits
    BY <1>2 DEF UpdateSequence
  <2>3. QED
    BY <1>2, <2>1, <2>2 DEF UpdateSequence, callVars
<1>3. ASSUME NEW r \in Request, RequestStep(r) PROVE TypeInv'
  <2>1. CASE NextCode(r)
    BY <2>1 DEF NextCode, Goto, env
  <2>2. CASE LockRow(r)
    <3>1. row' \in [Request -> Row]
      BY <2>2 DEF LockRow, Read, Counter, Row
    <3>2. QED
      BY <2>2, <3>1 DEF LockRow, Goto, env
  <2>3. CASE RowMissing(r)
    BY <2>3 DEF RowMissing, Goto, callVars, env
  <2>4. CASE WriteValue(r)
    <3>1. NextValue(r) \in Nat
      BY <2>4 DEF WriteValue, NextValue, Row
    <3>2. counter' \in Counter
      <4> DEFINE d == IF StartsPeriod(r) THEN asked[r] ELSE counter.reset
      <4>1. d \in Period
        BY DEF Counter
      <4>2. counter' = [counter EXCEPT !.value = NextValue(r), !.reset = d]
        BY <2>4 DEF WriteValue
      <4> HIDE DEF d
      <4>3. QED
        BY <3>1, <4>1, <4>2 DEF Counter
    <3>3. issued' \in [Request -> [date: Period, value: Nat]]
      <4>1. CodeDate(r) \in Period
        BY DEF CodeDate, Period
      <4>2. QED
        BY <2>4, <3>1, <4>1 DEF WriteValue
    <3>4. QED
      BY <2>4, <3>2, <3>3 DEF WriteValue, Goto, env
  <2>5. CASE ReadConfig(r)
    BY <2>5 DEF ReadConfig, Goto, callVars, env
  <2>6. CASE FindCounter(r)
    BY <2>6 DEF FindCounter, AfterEnsure, Goto, callVars, env
  <2>7. CASE InsertRow(r)
    BY <2>7 DEF InsertRow, AfterEnsure, Goto, callVars, env
  <2>8. CASE CommitEnsure(r)
    BY <2>8, NewCounterType DEF CommitEnsure, Goto, callVars, env
  <2>9. QED
    BY <1>3, <2>1, <2>2, <2>3, <2>4, <2>5, <2>6, <2>7, <2>8 DEF RequestStep
<1>4. ASSUME NEW a \in Admin, AdminStep(a) PROVE TypeInv'
  <2>1. CASE PatchConfig(a)
    BY <2>1 DEF PatchConfig, Goto, callVars, env
  <2>2. CASE SyncCounter(a)
    BY <2>2 DEF SyncCounter, Goto, callVars, env
  <2>3. CASE UpdateRow(a)
    BY <2>3 DEF UpdateRow, Goto, callVars, env
  <2>4. CASE FindCounter(a)
    BY <2>4 DEF FindCounter, AfterEnsure, Goto, callVars, env
  <2>5. CASE InsertRow(a)
    BY <2>5 DEF InsertRow, AfterEnsure, Goto, callVars, env
  <2>6. CASE CommitPatch(a)
    <3>1. counter' \in Counter
      <4>1. draft[a] \in Config
        OBVIOUS
      <4>2. [counter EXCEPT !.fmt = draft[a].fmt, !.active = draft[a].active] \in Counter
        BY <4>1 DEF Config, Counter
      <4>3. QED
        BY <2>6, <4>1, <4>2, NewCounterType DEF CommitPatch
    <3>2. QED
      BY <2>6, <3>1 DEF CommitPatch, Goto, callVars, env
  <2>7. QED
    BY <1>4, <2>1, <2>2, <2>3, <2>4, <2>5, <2>6 DEF AdminStep
<1>5. ASSUME NEW p \in Proc, Abort(p) PROVE TypeInv'
  BY <1>5 DEF Abort, Goto, callVars
<1>6. CASE UNCHANGED vars
  BY <1>6 DEF vars, callVars
<1>7. QED
  BY <1>1, <1>2, <1>3, <1>4, <1>5, <1>6 DEF Next

\* What the counter was like at first is remembered.
LEMMA StartIsKept == [Next]_vars => start' = start
  BY DEF Next, NextPeriod, UpdateSequence, RequestStep, AdminStep, Abort, NextCode,
         LockRow, RowMissing, WriteValue, ReadConfig, FindCounter, InsertRow,
         CommitEnsure, PatchConfig, SyncCounter, UpdateRow, CommitPatch, env, vars

LEMMA TypeInvariant == Spec => []TypeInv
  BY InitTypeInv, NextTypeInv, PTL DEF Spec

\* Every variable keeps its type; a request calls nextCode at most twice.
THEOREM TypeCorrect == Spec => []TypeOK
<1>1. TypeInv => TypeOK
  BY DEF TypeInv
<1>2. QED
  BY TypeInvariant, <1>1, PTL

\* Provisioning the counter and calling nextCode once more is enough.
THEOREM EnsuringSuffices == Spec => []EnsureIsEnough
<1>1. TypeInv => EnsureIsEnough
  BY DEF TypeInv, EnsureInv, EnsureIsEnough
<1>2. QED
  BY TypeInvariant, <1>1, PTL

-----------------------------------------------------------------------------
(* The row lock: who holds it, and what nobody can change meanwhile.        *)

Holds(p) == pc[p] \in {"write", "commitInsert", "commitUpdate"}

LockInv ==
    /\ \A p \in Proc : p \in rowLock <=> Holds(p)
    /\ \A p, q \in rowLock : p = q
    /\ \A r \in Request : pc[r] = "write" =>
          /\ exists /\ counter.active
          /\ row[r] = [inc |-> counter.inc, value |-> counter.value,
                       reset |-> counter.reset]
    /\ \A p \in Proc : pc[p] = "commitInsert" => ~exists

LEMMA InitLockInv == Init => LockInv
  BY DEF Init, LockInv, Holds, Proc

LEMMA NextLockInv == TypeInv /\ LockInv /\ [Next]_vars => LockInv'
<1> SUFFICES ASSUME TypeInv, LockInv, [Next]_vars PROVE LockInv'
  OBVIOUS
<1>0. /\ rowLock \subseteq Proc /\ pc \in [Proc -> Stage] /\ Request \subseteq Proc
      /\ Admin \subseteq Proc /\ row \in [Request -> Row] /\ counter \in Counter
      /\ Request \cap Admin = {}
  BY SequenceCounterAssumption DEF TypeInv, TypeOK, Proc
<1> USE <1>0 DEF LockInv, Holds
<1>1. CASE NextPeriod
  BY <1>1 DEF NextPeriod, callVars
<1>2. CASE UpdateSequence
  BY <1>2 DEF UpdateSequence, callVars
<1>3. ASSUME NEW r \in Request, RequestStep(r) PROVE LockInv'
  <2>1. CASE NextCode(r)
    BY <2>1 DEF NextCode, Goto, env
  <2>2. CASE LockRow(r)
    BY <2>2 DEF LockRow, Read, Goto, env
  <2>3. CASE RowMissing(r)
    BY <2>3 DEF RowMissing, Goto, callVars, env
  <2>4. CASE WriteValue(r)
    <3>1. \A p \in Proc : p # r => ~Holds(p) /\ pc'[p] = pc[p]
      BY <2>4 DEF WriteValue, Goto
    <3>2. rowLock' = {} /\ pc'[r] = "served"
      BY <2>4 DEF WriteValue, Goto
    <3>3. QED
      BY <3>1, <3>2
  <2>5. CASE ReadConfig(r)
    BY <2>5 DEF ReadConfig, Goto, callVars, env
  <2>6. CASE FindCounter(r)
    BY <2>6 DEF FindCounter, AfterEnsure, Goto, callVars, env
  <2>7. CASE InsertRow(r)
    BY <2>7 DEF InsertRow, AfterEnsure, Goto, callVars, env
  <2>8. CASE CommitEnsure(r)
    <3>1. \A p \in Proc : p # r => ~Holds(p) /\ pc'[p] = pc[p]
      BY <2>8 DEF CommitEnsure, Goto
    <3>2. rowLock' = {} /\ pc'[r] = "new"
      BY <2>8 DEF CommitEnsure, Goto
    <3>3. QED
      BY <3>1, <3>2
  <2>9. QED
    BY <1>3, <2>1, <2>2, <2>3, <2>4, <2>5, <2>6, <2>7, <2>8 DEF RequestStep
<1>4. ASSUME NEW a \in Admin, AdminStep(a) PROVE LockInv'
  <2>1. CASE PatchConfig(a)
    BY <2>1 DEF PatchConfig, Goto, callVars, env
  <2>2. CASE SyncCounter(a)
    BY <2>2 DEF SyncCounter, Goto, callVars, env
  <2>3. CASE UpdateRow(a)
    BY <2>3 DEF UpdateRow, Goto, callVars, env
  <2>4. CASE FindCounter(a)
    BY <2>4 DEF FindCounter, AfterEnsure, Goto, callVars, env
  <2>5. CASE InsertRow(a)
    BY <2>5 DEF InsertRow, AfterEnsure, Goto, callVars, env
  <2>6. CASE CommitPatch(a)
    <3>1. pc' = [pc EXCEPT ![a] = "done"] /\ rowLock' = rowLock \ {a} /\ row' = row
      BY <2>6 DEF CommitPatch, Goto, callVars
    <3>2. CASE pc[a] = "commit"
      BY <2>6, <3>1, <3>2 DEF CommitPatch
    <3>3. CASE pc[a] # "commit"
      <4>1. \A p \in Proc : p # a => ~Holds(p) /\ pc'[p] = pc[p]
        BY <2>6, <3>1, <3>3 DEF CommitPatch
      <4>2. rowLock' = {} /\ pc'[a] = "done"
        BY <2>6, <3>1, <3>3 DEF CommitPatch
      <4>3. QED
        BY <4>1, <4>2
    <3>4. QED
      BY <3>2, <3>3
  <2>7. QED
    BY <1>4, <2>1, <2>2, <2>3, <2>4, <2>5, <2>6 DEF AdminStep
<1>5. ASSUME NEW p \in Proc, Abort(p) PROVE LockInv'
  BY <1>5 DEF Abort, Goto, callVars
<1>6. CASE UNCHANGED vars
  BY <1>6 DEF vars, callVars
<1>7. QED
  BY <1>1, <1>2, <1>3, <1>4, <1>5, <1>6 DEF Next

LEMMA LockInvariant == Spec => [](TypeInv /\ LockInv)
  BY InitTypeInv, NextTypeInv, InitLockInv, NextLockInv, PTL DEF Spec

\* A request takes its number from a counter that is switched on at that very
\* step, although it looked at the status earlier.
THEOREM NoCodeAfterSwitchOff == Spec => NoCodeFromInactive
<1> DEFINE Kept == \A r \in Request : issued'[r] # issued[r] => exists /\ counter.active
<1>1. TypeInv /\ LockInv /\ [Next]_vars => Kept
  <2> SUFFICES ASSUME TypeInv, LockInv, [Next]_vars, NEW r \in Request,
                      issued'[r] # issued[r]
               PROVE  exists /\ counter.active
    OBVIOUS
  <2>1. \E s \in Request : WriteValue(s)
    <3> SUFFICES ASSUME \A s \in Request : ~WriteValue(s) PROVE issued' = issued
      OBVIOUS
    <3>1. CASE NextPeriod \/ UpdateSequence \/ UNCHANGED vars
      BY <3>1 DEF NextPeriod, UpdateSequence, vars, callVars
    <3>2. ASSUME NEW s \in Request, RequestStep(s) PROVE issued' = issued
      BY <3>2 DEF RequestStep, NextCode, LockRow, RowMissing, ReadConfig, FindCounter,
                  InsertRow, CommitEnsure, callVars
    <3>3. ASSUME NEW a \in Admin, AdminStep(a) PROVE issued' = issued
      BY <3>3 DEF AdminStep, PatchConfig, SyncCounter, UpdateRow, FindCounter,
                  InsertRow, CommitPatch, callVars
    <3>4. ASSUME NEW p \in Proc, Abort(p) PROVE issued' = issued
      BY <3>4 DEF Abort, callVars
    <3>5. QED
      BY <3>1, <3>2, <3>3, <3>4 DEF Next
  <2>2. QED
    BY <2>1 DEF WriteValue, LockInv
<1>2. QED
  BY LockInvariant, <1>1, PTL DEF Spec, NoCodeFromInactive, Kept

-----------------------------------------------------------------------------
(* The numbers already issued: all lie below the counter, or in an earlier  *)
(* period.                                                                  *)

Below(r) ==
    IF Periodic
    THEN /\ issued[r].date <= counter.reset
         /\ issued[r].date = counter.reset => issued[r].value <= counter.value
    ELSE issued[r].date = 0 /\ issued[r].value <= counter.value

CodeInv ==
    /\ counter.reset <= clock
    /\ \A r \in Request : Periodic /\ r \in Waiting => asked[r] = clock
    /\ \A r \in Request : Served(r) => exists /\ Below(r)
    /\ NoDuplicateCode

LEMMA InitCodeInv == Init => CodeInv
  BY SequenceCounterAssumption
  DEF Init, CodeInv, Waiting, Served, NoDuplicateCode, NewCounter, Proc

\* A step that leaves the counter's number, the clock and the issued codes
\* alone, and serves nobody.
CodeStutter ==
    /\ counter'.value = counter.value /\ counter'.reset = counter.reset
    /\ clock' = clock /\ issued' = issued /\ start' = start
    /\ exists => exists'
    /\ \A r \in Request :
          /\ pc'[r] = "served" => pc[r] = "served"
          /\ r \in Waiting' => asked'[r] = clock \/ (r \in Waiting /\ asked'[r] = asked[r])

LEMMA CodeStutterKeepsInv == CodeInv /\ CodeStutter => CodeInv'
  BY DEF CodeInv, CodeStutter, Served, Below, NoDuplicateCode, Periodic

\* The counter is created: nothing has been issued yet.
LEMMA CreationKeepsInv ==
  ASSUME TypeInv, CodeInv, NEW c \in Config, ~exists, counter' = NewCounter(c),
         clock' = clock, issued' = issued, asked' = asked, start' = start,
         \A r \in Request : /\ pc'[r] = "served" => pc[r] = "served"
                            /\ r \in Waiting' => r \in Waiting
  PROVE  CodeInv'
<1>1. \A r \in Request : ~Served(r) /\ ~Served(r)'
  BY DEF CodeInv, Served
<1>2. counter'.reset = 0 /\ 0 <= clock
  BY DEF NewCounter, TypeInv, TypeOK, Period
<1>3. QED
  BY <1>1, <1>2 DEF CodeInv, NoDuplicateCode, Periodic

LEMMA WriteKeepsInv ==
  ASSUME TypeInv, LockInv, CodeInv, NEW r \in Request, WriteValue(r)
  PROVE  CodeInv'
<1>0. Periodic' <=> Periodic
  BY DEF WriteValue, env, Periodic
<1>1. /\ counter.inc \in Nat \ {0} /\ counter.value \in Nat /\ counter.reset \in Nat
      /\ clock \in Nat /\ asked[r] \in Nat
  <2>1. counter \in Counter /\ clock \in Period /\ asked[r] \in Period
    BY DEF TypeInv, TypeOK
  <2>2. \A n \in Period : n \in Nat
    BY DEF Period
  <2>3. Increment \subseteq Nat \ {0}
    BY SequenceCounterAssumption
  <2>4. QED
    BY <2>1, <2>2, <2>3 DEF Counter
<1>2. \A s \in Request : issued[s].date \in Nat /\ issued[s].value \in Nat
  BY DEF TypeInv, TypeOK, Period
<1>3. /\ exists /\ row[r].inc = counter.inc /\ row[r].value = counter.value
      /\ row[r].reset = counter.reset
  BY DEF WriteValue, LockInv
<1>4. Periodic => asked[r] = clock
  BY DEF WriteValue, CodeInv, Waiting
<1>5. /\ counter'.value = NextValue(r) /\ clock' = clock /\ exists' = exists
      /\ counter'.reset = IF StartsPeriod(r) THEN asked[r] ELSE counter.reset
      /\ asked' = asked
  BY DEF WriteValue, TypeInv, TypeOK, Counter
<1>6. /\ issued'[r] = [date |-> CodeDate(r), value |-> NextValue(r)]
      /\ \A s \in Request : s # r => issued'[s] = issued[s]
  BY DEF WriteValue, TypeInv, TypeOK
<1>7. \A s \in Request : s # r => (Served(s)' <=> Served(s)) /\ (s \in Waiting' <=> s \in Waiting)
  BY DEF WriteValue, Goto, Served, Waiting, TypeInv, TypeOK, Proc
<1>8. r \notin Waiting'
  BY DEF WriteValue, Goto, Waiting, TypeInv, TypeOK, Proc
<1>9. counter'.reset <= clock'
  BY <1>1, <1>4, <1>5 DEF CodeInv, StartsPeriod
<1>10. Below(r)'
  <2>1. CASE Periodic
    <3>1. CodeDate(r) = counter'.reset
      BY <1>3, <1>5, <2>1 DEF CodeDate, StartsPeriod
    <3>2. NextValue(r) \in Nat /\ counter'.reset \in Nat
      BY <1>1, <1>3, <1>5 DEF NextValue
    <3>3. QED
      BY <1>0, <1>5, <1>6, <2>1, <3>1, <3>2 DEF Below
  <2>2. CASE ~Periodic
    <3>1. NextValue(r) \in Nat
      BY <1>1, <1>3 DEF NextValue
    <3>2. QED
      BY <1>0, <1>5, <1>6, <2>2, <3>1 DEF Below, CodeDate
  <2>3. QED
    BY <2>1, <2>2
\* Everything issued before lies strictly below, or in an earlier period.
<1>11. \A s \in Request : s # r /\ Served(s) =>
          /\ Below(s)'
          /\ issued[s] # [date |-> CodeDate(r), value |-> NextValue(r)]
  <2> SUFFICES ASSUME NEW s \in Request, s # r, Served(s)
               PROVE  /\ Below(s)'
                      /\ issued[s] # [date |-> CodeDate(r), value |-> NextValue(r)]
    OBVIOUS
  <2>1. Below(s) /\ issued'[s] = issued[s]
    BY <1>6 DEF CodeInv
  <2>2. CASE StartsPeriod(r)
    <3>1. Periodic /\ counter'.reset = clock /\ counter.reset < clock
      BY <1>1, <1>3, <1>4, <1>5, <2>2 DEF StartsPeriod, CodeInv
    <3>2. issued[s].date < clock
      BY <1>1, <1>2, <2>1, <3>1 DEF Below
    <3>3. CodeDate(r) = clock
      BY <1>4, <3>1 DEF CodeDate
    <3>4. issued[s].date # CodeDate(r)
      BY <1>1, <1>2, <3>2, <3>3
    <3>5. issued'[s].date < counter'.reset
      BY <2>1, <3>1, <3>2
    <3>6. Below(s)'
      BY <1>0, <1>1, <1>2, <2>1, <3>1, <3>5 DEF Below
    <3>7. QED
      BY <3>4, <3>6
  <2>3. CASE ~StartsPeriod(r)
    <3>1. /\ NextValue(r) = counter.value + counter.inc
          /\ counter'.reset = counter.reset
          /\ counter'.value = counter.value + counter.inc
      BY <1>1, <1>3, <1>5, <2>3 DEF NextValue
    <3>2. Below(s)'
      <4>1. issued[s].value <= counter.value => issued'[s].value <= counter'.value
        BY <1>1, <1>2, <2>1, <3>1
      <4>2. QED
        BY <1>0, <2>1, <3>1, <4>1 DEF Below
    <3>3. CodeDate(r) = IF Periodic THEN counter.reset ELSE 0
      BY <1>3, <2>3 DEF CodeDate, StartsPeriod
    <3>4. issued[s].date = CodeDate(r) => issued[s].value < NextValue(r)
      BY <1>1, <1>2, <2>1, <3>1, <3>3 DEF Below
    <3>5. issued[s].date # CodeDate(r) \/ issued[s].value # NextValue(r)
      BY <1>1, <1>2, <3>1, <3>4
    <3>6. QED
      BY <3>2, <3>5
  <2>4. QED
    BY <2>2, <2>3
<1>12. NoDuplicateCode'
  BY <1>6, <1>7, <1>11 DEF NoDuplicateCode, CodeInv
<1>13. \A s \in Request : Periodic /\ s \in Waiting' => asked'[s] = clock'
  BY <1>0, <1>5, <1>7, <1>8 DEF CodeInv
<1>14. \A s \in Request : Served(s)' => exists' /\ Below(s)'
  BY <1>3, <1>5, <1>7, <1>10, <1>11
<1>15. QED
  BY <1>0, <1>9, <1>12, <1>13, <1>14 DEF CodeInv

\* The clock moves on while nobody waits: later numbers get a later period.
LEMMA PeriodKeepsInv ==
  ASSUME "periodic" \in Start => MaxStraddles = 0, TypeInv, CodeInv, NextPeriod
  PROVE  CodeInv'
<1>1. counter.reset <= clock /\ clock \in Nat /\ counter.reset \in Nat
  BY DEF CodeInv, TypeInv, TypeOK, Counter, Period
<1>2. counter' = counter /\ clock' = clock + 1 /\ issued' = issued /\ pc' = pc
      /\ asked' = asked /\ exists' = exists /\ start' = start
  BY DEF NextPeriod, callVars
<1>3. Periodic => Waiting = {}
  BY SequenceCounterAssumption DEF NextPeriod, TypeInv, TypeOK, Periodic
<1>4. Waiting' = Waiting
  BY <1>2 DEF Waiting
<1>5. QED
  BY <1>1, <1>2, <1>3, <1>4 DEF CodeInv, Served, Below, NoDuplicateCode, Periodic

LEMMA NextCodeInv ==
  ASSUME "periodic" \in Start => MaxStraddles = 0
  PROVE  TypeInv /\ LockInv /\ CodeInv /\ [Next]_vars => CodeInv'
<1> SUFFICES ASSUME TypeInv, LockInv, CodeInv, [Next]_vars PROVE CodeInv'
  OBVIOUS
<1>0. pc \in [Proc -> Stage] /\ asked \in [Request -> Period] /\ Request \subseteq Proc
      /\ Admin \subseteq Proc /\ Request \cap Admin = {} /\ counter \in Counter
      /\ draft \in [Proc -> Config] /\ start' = start
  BY SequenceCounterAssumption, StartIsKept DEF TypeInv, TypeOK, Proc
<1>1. CASE NextPeriod
  BY <1>1, PeriodKeepsInv
<1>2. CASE UpdateSequence
  <2>1. counter'.value = counter.value /\ counter'.reset = counter.reset
    BY <1>0, <1>2 DEF UpdateSequence, Counter
  <2>2. CodeStutter
    BY <1>2, <2>1 DEF UpdateSequence, CodeStutter, callVars, Waiting
  <2>3. QED
    BY <2>2, CodeStutterKeepsInv
<1>3. ASSUME NEW r \in Request, RequestStep(r) PROVE CodeInv'
  <2>1. CASE WriteValue(r)
    BY <2>1, WriteKeepsInv
  <2>2. CASE CommitEnsure(r)
    <3>1. ~exists /\ draft[r] \in Config
      BY <1>0, <2>2 DEF CommitEnsure, LockInv
    <3>2. /\ counter' = NewCounter(draft[r]) /\ clock' = clock /\ issued' = issued
          /\ asked' = asked /\ pc' = [pc EXCEPT ![r] = "new"]
      BY <2>2 DEF CommitEnsure, Goto, callVars
    <3>3. \A s \in Request : /\ pc'[s] = "served" => pc[s] = "served"
                             /\ s \in Waiting' => s \in Waiting
      BY <1>0, <3>2 DEF Waiting
    <3>4. QED
      BY <1>0, <3>1, <3>2, <3>3, CreationKeepsInv
  <2>3. CASE NextCode(r)
    <3>1. CodeStutter
      BY <1>0, <2>3 DEF NextCode, Goto, env, CodeStutter, Waiting
    <3>2. QED
      BY <3>1, CodeStutterKeepsInv
  <2>4. CASE LockRow(r) \/ RowMissing(r) \/ ReadConfig(r) \/ FindCounter(r) \/ InsertRow(r)
    <3>1. /\ counter' = counter /\ clock' = clock /\ issued' = issued /\ asked' = asked
          /\ exists' = exists
      BY <2>4 DEF LockRow, RowMissing, ReadConfig, FindCounter, InsertRow, callVars
    <3>2. /\ \A s \in Request : s # r => pc'[s] = pc[s]
          /\ pc'[r] # "served" /\ (pc'[r] \in {"lock", "write"} => pc[r] = "lock")
      BY <1>0, <2>4 DEF LockRow, RowMissing, ReadConfig, FindCounter, InsertRow, Goto,
                        AfterEnsure
    <3>3. CodeStutter
      BY <1>0, <3>1, <3>2 DEF CodeStutter, Waiting
    <3>4. QED
      BY <3>3, CodeStutterKeepsInv
  <2>5. QED
    BY <1>3, <2>1, <2>2, <2>3, <2>4 DEF RequestStep
<1>4. ASSUME NEW a \in Admin, AdminStep(a) PROVE CodeInv'
  <2>1. \A s \in Request : pc'[s] = pc[s]
    BY <1>0, <1>4 DEF AdminStep, PatchConfig, SyncCounter, UpdateRow, FindCounter,
                      InsertRow, CommitPatch, Goto
  <2>2. clock' = clock /\ issued' = issued /\ asked' = asked
    BY <1>4 DEF AdminStep, PatchConfig, SyncCounter, UpdateRow, FindCounter,
                InsertRow, CommitPatch, callVars
  <2>3. CASE pc[a] = "commitInsert" /\ CommitPatch(a)
    <3>1. ~exists /\ draft[a] \in Config /\ counter' = NewCounter(draft[a])
      BY <1>0, <2>3 DEF CommitPatch, LockInv
    <3>2. QED
      BY <1>0, <2>1, <2>2, <3>1, CreationKeepsInv DEF Waiting
  <2>4. CASE ~(pc[a] = "commitInsert" /\ CommitPatch(a))
    <3>1. /\ counter'.value = counter.value /\ counter'.reset = counter.reset
          /\ exists' = exists
      BY <1>0, <1>4, <2>4 DEF AdminStep, PatchConfig, SyncCounter, UpdateRow,
         FindCounter, InsertRow, CommitPatch, Counter
    <3>2. CodeStutter
      BY <1>0, <2>1, <2>2, <3>1 DEF CodeStutter, Waiting
    <3>3. QED
      BY <3>2, CodeStutterKeepsInv
  <2>5. QED
    BY <2>3, <2>4
<1>5. ASSUME NEW p \in Proc, Abort(p) PROVE CodeInv'
  <2>1. CodeStutter
    BY <1>0, <1>5 DEF Abort, Goto, callVars, CodeStutter, Waiting
  <2>2. QED
    BY <2>1, CodeStutterKeepsInv
<1>6. CASE UNCHANGED vars
  <2>1. CodeStutter
    BY <1>6 DEF vars, callVars, CodeStutter, Waiting
  <2>2. QED
    BY <2>1, CodeStutterKeepsInv
<1>7. QED
  BY <1>1, <1>2, <1>3, <1>4, <1>5, <1>6 DEF Next

\* N concurrent requests never get the same code: always when the counter does
\* not reset, and for a counter that resets if no period ends between the
\* moment a request reads the time and its commit.
THEOREM NumbersAreUnique ==
  ASSUME "periodic" \in Start => MaxStraddles = 0
  PROVE  Spec => []NoDuplicateCode
<1>1. CodeInv => NoDuplicateCode
  BY DEF CodeInv
<1>2. TypeInv /\ LockInv /\ CodeInv /\ [Next]_vars => CodeInv'
  BY NextCodeInv
<1>3. QED
  BY LockInvariant, InitCodeInv, <1>1, <1>2, PTL DEF Spec

-----------------------------------------------------------------------------
(* The counter and its config.                                              *)

ConfigInv ==
    Seeded /\ edits = 0 =>
        /\ exists
        /\ counter.fmt = config.fmt /\ counter.active = config.active
        /\ \A p \in Proc :
              pc[p] \notin {"readConfig", "find", "insert", "commitInsert", "commit"}

LEMMA NextConfigInv == TypeInv /\ ConfigInv /\ [Next]_vars => ConfigInv'
<1> SUFFICES ASSUME TypeInv, ConfigInv, [Next]_vars, Seeded', edits' = 0
             PROVE  ConfigInv'
  BY DEF ConfigInv
<1>0. /\ pc \in [Proc -> Stage] /\ Request \subseteq Proc /\ Admin \subseteq Proc
      /\ counter \in Counter /\ Seeded /\ edits \in Nat
  BY SequenceCounterAssumption, StartIsKept DEF TypeInv, TypeOK, Proc, Seeded
<1>2. ~UpdateSequence
  <2>1. edits + 1 # 0
    BY <1>0
  <2>2. UpdateSequence => edits' = edits + 1
    BY DEF UpdateSequence
  <2>3. QED
    BY <2>1, <2>2
<1>8. edits = 0
  BY <1>2
  DEF Next, NextPeriod, UpdateSequence, RequestStep, AdminStep, Abort, NextCode,
      LockRow, RowMissing, WriteValue, ReadConfig, FindCounter, InsertRow,
      CommitEnsure, PatchConfig, SyncCounter, UpdateRow, CommitPatch, env, vars
<1> USE <1>0, <1>2, <1>8 DEF ConfigInv
<1>1. CASE NextPeriod
  BY <1>1 DEF NextPeriod, callVars
<1>3. ASSUME NEW r \in Request, RequestStep(r) PROVE ConfigInv'
  <2>1. CASE WriteValue(r)
    <3>1. counter'.fmt = counter.fmt /\ counter'.active = counter.active
      BY <2>1 DEF WriteValue, Counter
    <3>2. QED
      BY <2>1, <3>1 DEF WriteValue, Goto, env
  <2>2. CASE NextCode(r) \/ LockRow(r)
    BY <2>2 DEF NextCode, LockRow, Goto, env
  <2>3. ~(RowMissing(r) \/ ReadConfig(r) \/ FindCounter(r) \/ InsertRow(r) \/ CommitEnsure(r))
    BY DEF RowMissing, ReadConfig, FindCounter, InsertRow, CommitEnsure
  <2>4. QED
    BY <1>3, <2>1, <2>2, <2>3 DEF RequestStep
<1>4. ASSUME NEW a \in Admin, AdminStep(a) PROVE ConfigInv'
  <2>1. CASE CommitPatch(a)
    <3>1. /\ counter' = [counter EXCEPT !.fmt = draft[a].fmt, !.active = draft[a].active]
          /\ exists' = exists /\ config' = draft[a]
      BY <2>1 DEF CommitPatch
    <3>2. counter'.fmt = config'.fmt /\ counter'.active = config'.active
      BY <3>1 DEF Counter
    <3>3. QED
      BY <2>1, <3>1, <3>2 DEF CommitPatch, Goto
  <2>2. CASE PatchConfig(a) \/ SyncCounter(a) \/ UpdateRow(a)
    BY <2>2 DEF PatchConfig, SyncCounter, UpdateRow, Goto, callVars, env
  <2>3. ~(FindCounter(a) \/ InsertRow(a))
    BY DEF FindCounter, InsertRow
  <2>4. QED
    BY <1>4, <2>1, <2>2, <2>3 DEF AdminStep
<1>5. ASSUME NEW p \in Proc, Abort(p) PROVE ConfigInv'
  BY <1>5 DEF Abort, Goto, callVars
<1>6. CASE UNCHANGED vars
  BY <1>6 DEF vars, callVars
<1>7. QED
  BY <1>1, <1>3, <1>4, <1>5, <1>6 DEF Next

\* A counter that exists before anyone uses it, and is edited through the
\* config only, renders what the config says between PATCHes.
THEOREM SeededCounterFollowsConfig == Spec => []SeededFollowsConfig
<1>1. Init => ConfigInv
  BY DEF Init, ConfigInv, NewCounter, Proc
<1>2. TypeInv /\ ConfigInv /\ [Next]_vars => ConfigInv'
  BY NextConfigInv
<1>3. ConfigInv => SeededFollowsConfig
  BY DEF ConfigInv, SeededFollowsConfig, CounterFollowsConfig
<1>4. QED
  BY TypeInvariant, <1>1, <1>2, <1>3, PTL DEF Spec
-----------------------------------------------------------------------------
(* Waiting.  A call waits for the counter row, or for the config row; what  *)
(* makes waiting safe is the order: a PATCH takes the config row first, and *)
(* who holds the counter row never waits for anything.                      *)

ConfigLockInv ==
    /\ configLock \subseteq Admin
    /\ \A a \in Admin : a \in configLock <=> pc[a] \in TxStage
    /\ \A a, b \in configLock : a = b

LEMMA InitConfigLockInv == Init => ConfigLockInv
  BY DEF Init, ConfigLockInv, Proc, TxStage

LEMMA NextConfigLockInv == TypeInv /\ ConfigLockInv /\ [Next]_vars => ConfigLockInv'
<1> SUFFICES ASSUME TypeInv, ConfigLockInv, [Next]_vars PROVE ConfigLockInv'
  OBVIOUS
<1>0. /\ pc \in [Proc -> Stage] /\ Request \subseteq Proc /\ Admin \subseteq Proc
      /\ Request \cap Admin = {}
  BY SequenceCounterAssumption DEF TypeInv, TypeOK, Proc
<1> USE <1>0 DEF ConfigLockInv, TxStage
<1>1. CASE NextPeriod \/ UpdateSequence \/ UNCHANGED vars
  BY <1>1 DEF NextPeriod, UpdateSequence, vars
<1>2. ASSUME NEW r \in Request, RequestStep(r) PROVE ConfigLockInv'
  <2>1. configLock' = configLock /\ \A a \in Admin : pc'[a] = pc[a]
    BY <1>2 DEF RequestStep, NextCode, LockRow, RowMissing, WriteValue, ReadConfig, FindCounter,
                InsertRow, CommitEnsure, Goto
  <2>2. QED
    BY <2>1
<1>3. ASSUME NEW a \in Admin, AdminStep(a) PROVE ConfigLockInv'
  <2>1. CASE PatchConfig(a)
    BY <2>1 DEF PatchConfig, Goto
  <2>2. CASE SyncCounter(a) \/ UpdateRow(a) \/ FindCounter(a) \/ InsertRow(a)
    <3>1. a \notin Request
      OBVIOUS
    <3>2. QED
      BY <2>2, <3>1 DEF SyncCounter, UpdateRow, FindCounter, InsertRow, AfterEnsure, Goto
  <2>3. CASE CommitPatch(a)
    BY <2>3 DEF CommitPatch, Goto
  <2>4. QED
    BY <1>3, <2>1, <2>2, <2>3 DEF AdminStep
<1>4. ASSUME NEW p \in Proc, Abort(p) PROVE ConfigLockInv'
  BY <1>4 DEF Abort, Goto
<1>5. QED
  BY <1>1, <1>2, <1>3, <1>4 DEF Next

NeedsRow(p) == pc[p] \in {"insert", "updateRow"} \/ (pc[p] = "lock" /\ exists)
NeedsConfig(p) == p \in Admin /\ pc[p] = "new"
Blocked(p) == (NeedsRow(p) /\ rowLock # {}) \/ (NeedsConfig(p) /\ configLock # {})

NoCircularWait ==
    \A p \in Proc : Blocked(p) =>
        \E q \in rowLock \cup configLock : pc[q] \in TxStage /\ ~Blocked(q)

\* Whenever a call waits, somebody who holds a row is in the middle of a
\* transaction and waits for nobody: requests and PATCHes never wait for each
\* other in a circle, however many there are (the safety half of EveryCallEnds).
THEOREM NobodyWaitsInACircle == Spec => []NoCircularWait
<1>1. ASSUME TypeInv, LockInv, ConfigLockInv PROVE NoCircularWait
  <2> SUFFICES ASSUME NEW p \in Proc, Blocked(p)
               PROVE  \E q \in rowLock \cup configLock : pc[q] \in TxStage /\ ~Blocked(q)
    BY DEF NoCircularWait
  <2>1. CASE rowLock # {}
    <3>1. PICK q \in rowLock : TRUE
      BY <2>1
    <3>2. pc[q] \in {"write", "commitInsert", "commitUpdate"}
      BY <1>1, <3>1 DEF TypeInv, TypeOK, LockInv, Holds
    <3>3. QED
      BY <3>1, <3>2 DEF TxStage, Blocked, NeedsRow, NeedsConfig
  <2>2. CASE rowLock = {}
    <3>1. PICK q \in configLock : TRUE
      BY <2>2 DEF Blocked
    <3>2. pc[q] \in TxStage
      BY <1>1, <3>1 DEF ConfigLockInv
    <3>3. ~Blocked(q)
      BY <2>2, <3>2 DEF TxStage, Blocked, NeedsConfig
    <3>4. QED
      BY <3>1, <3>2, <3>3
  <2>3. QED
    BY <2>1, <2>2
<1>2. QED
  BY LockInvariant, InitConfigLockInv, NextConfigLockInv, <1>1, PTL DEF Spec

\* The most statements that p may still execute.
StatementsLeft(p) ==
    CASE pc[p] = "new" -> IF p \in Request /\ tries[p] = 1 THEN 3 ELSE 9
      [] pc[p] = "lock" -> IF tries[p] = 2 THEN 2 ELSE 8
      [] pc[p] = "findRow" -> 8
      [] pc[p] \in {"readConfig", "updateRow"} -> 7
      [] pc[p] = "find" -> 6
      [] pc[p] = "insert" -> 5
      [] pc[p] = "commitInsert" -> 4
      [] pc[p] \in {"commit", "commitUpdate"} -> 3
      [] pc[p] = "write" -> 1
      [] OTHER -> 0

StatementsAreFinite ==
    [][\A p \in Proc : pc'[p] # pc[p] => StatementsLeft(p)' < StatementsLeft(p)]_vars

LEMMA OneCallMoves ==
  ASSUME TypeInv, NEW p \in Proc, NEW stage, Goto(p, stage),
         StatementsLeft(p)' < StatementsLeft(p)
  PROVE  \A q \in Proc : pc'[q] # pc[q] => StatementsLeft(q)' < StatementsLeft(q)
  BY DEF TypeInv, TypeOK, Goto

LEMMA MovesCount ==
  ASSUME TypeInv, [Next]_vars
  PROVE  \A p \in Proc : pc'[p] # pc[p] => StatementsLeft(p)' < StatementsLeft(p)
<1> DEFINE Goal == \A p \in Proc : pc'[p] # pc[p] => StatementsLeft(p)' < StatementsLeft(p)
<1>0. /\ pc \in [Proc -> Stage] /\ Request \subseteq Proc /\ Admin \subseteq Proc
      /\ Request \cap Admin = {} /\ tries \in [Request -> 0..2] /\ EnsureInv
  BY SequenceCounterAssumption DEF TypeInv, TypeOK, Proc
<1>1. CASE NextPeriod \/ UpdateSequence \/ UNCHANGED vars
  BY <1>1 DEF NextPeriod, UpdateSequence, vars
<1>2. ASSUME NEW r \in Request, RequestStep(r) PROVE Goal
  <2>1. /\ pc[r] = "new" => tries[r] \in {0, 1}
        /\ pc[r] = "lock" => tries[r] \in {1, 2}
        /\ pc[r] \in {"readConfig", "find", "insert", "commitInsert"} => tries[r] = 1
        /\ pc[r] = "lock" /\ tries[r] = 2 => exists
    BY <1>0 DEF EnsureInv
  <2>2. CASE NextCode(r)
    <3>1. pc[r] = "new" /\ pc'[r] = "lock" /\ tries'[r] = tries[r] + 1 /\ Goto(r, "lock")
      BY <1>0, <2>2 DEF NextCode, Goto
    <3>2. StatementsLeft(r)' < StatementsLeft(r)
      BY <2>1, <3>1 DEF StatementsLeft
    <3>3. QED
      BY <1>0, <3>1, <3>2, OneCallMoves
  <2>3. CASE ~NextCode(r)
    <3>1. tries' = tries /\ pc' = [pc EXCEPT ![r] = pc'[r]]
      BY <1>0, <1>2, <2>3 DEF RequestStep, LockRow, RowMissing, WriteValue, ReadConfig,
         FindCounter, InsertRow, CommitEnsure, Goto, callVars
    <3>2. \/ pc[r] = "lock" /\ pc'[r] \in {"write", "inactive"}
          \/ pc[r] = "lock" /\ tries[r] = 1 /\ pc'[r] = "readConfig"
          \/ pc[r] = "write" /\ pc'[r] = "served"
          \/ pc[r] = "readConfig" /\ pc'[r] = "find"
          \/ pc[r] = "find" /\ pc'[r] \in {"new", "insert"}
          \/ pc[r] = "insert" /\ pc'[r] \in {"new", "commitInsert"}
          \/ pc[r] = "commitInsert" /\ pc'[r] = "new"
      BY <1>0, <1>2, <2>1, <2>3 DEF RequestStep, LockRow, RowMissing, WriteValue, ReadConfig,
         FindCounter, InsertRow, CommitEnsure, AfterEnsure, Goto
    <3>3. StatementsLeft(r)' < StatementsLeft(r)
      BY <2>1, <3>1, <3>2 DEF StatementsLeft
    <3>4. QED
      BY <1>0, <3>1, <3>3, OneCallMoves DEF Goto
  <2>4. QED
    BY <2>2, <2>3
<1>3. ASSUME NEW a \in Admin, AdminStep(a) PROVE Goal
  <2>1. a \notin Request /\ pc' = [pc EXCEPT ![a] = pc'[a]]
    BY <1>0, <1>3 DEF AdminStep, PatchConfig, SyncCounter, UpdateRow, FindCounter, InsertRow,
       CommitPatch, Goto
  <2>2. \/ pc[a] = "new" /\ pc'[a] = "findRow"
        \/ pc[a] = "findRow" /\ pc'[a] \in {"updateRow", "find"}
        \/ pc[a] = "updateRow" /\ pc'[a] = "commitUpdate"
        \/ pc[a] = "find" /\ pc'[a] \in {"commit", "insert"}
        \/ pc[a] = "insert" /\ pc'[a] \in {"commit", "commitInsert"}
        \/ pc[a] \in {"commitInsert", "commitUpdate", "commit"} /\ pc'[a] = "done"
    BY <1>0, <1>3, <2>1 DEF AdminStep, PatchConfig, SyncCounter, UpdateRow, FindCounter,
       InsertRow, CommitPatch, AfterEnsure, Goto
  <2>3. StatementsLeft(a)' < StatementsLeft(a)
    BY <2>1, <2>2 DEF StatementsLeft
  <2>4. QED
    BY <1>0, <2>1, <2>3, OneCallMoves DEF Goto
<1>4. ASSUME NEW p \in Proc, Abort(p) PROVE Goal
  <2>1. pc[p] \in TxStage /\ Goto(p, "failed") /\ pc'[p] = "failed"
    BY <1>0, <1>4 DEF Abort, Goto
  <2>2. StatementsLeft(p)' < StatementsLeft(p)
    BY <2>1 DEF TxStage, StatementsLeft
  <2>3. QED
    BY <1>0, <2>1, <2>2, OneCallMoves
<1>5. QED
  BY <1>1, <1>2, <1>3, <1>4 DEF Next

\* No call runs for ever: each of its statements leaves it with fewer to go, at
\* most nine in all, also when it misses the counter and provisions it (the
\* loop of ensure-on-miss turns once).
THEOREM EveryCallIsShort == Spec => StatementsAreFinite
<1>1. TypeInv /\ [Next]_vars =>
        [\A p \in Proc : pc'[p] # pc[p] => StatementsLeft(p)' < StatementsLeft(p)]_vars
  BY MovesCount
<1>2. QED
  BY TypeInvariant, <1>1, PTL DEF Spec, StatementsAreFinite

-----------------------------------------------------------------------------
(* Why a provisioned counter may disagree with its config: only because a   *)
(* request, which does not hold the config row, provisions it.              *)

NoRequestProvisions == \A r \in Request : pc[r] # "commitInsert"

DriftInv ==
    edits = 0 =>
        /\ exists => counter.fmt = config.fmt /\ counter.active = config.active
        /\ \A a \in Admin : /\ pc[a] # "commit"
                            /\ pc[a] \in {"find", "insert", "commitInsert"} => ~exists

LEMMA NextDriftInv ==
  ASSUME TypeInv, ConfigLockInv, NoRequestProvisions, DriftInv, [Next]_vars
  PROVE  DriftInv'
<1> SUFFICES ASSUME edits' = 0 PROVE DriftInv'
  BY DEF DriftInv
<1>0. /\ pc \in [Proc -> Stage] /\ Request \subseteq Proc /\ Admin \subseteq Proc
      /\ counter \in Counter /\ edits \in Nat /\ Request \cap Admin = {}
      /\ draft \in [Proc -> Config]
  BY SequenceCounterAssumption DEF TypeInv, TypeOK, Proc
<1>1. ~UpdateSequence
  <2>1. edits + 1 # 0
    BY <1>0
  <2>2. UpdateSequence => edits' = edits + 1
    BY DEF UpdateSequence
  <2>3. QED
    BY <2>1, <2>2
<1>2. edits = 0
  BY <1>1
  DEF Next, NextPeriod, UpdateSequence, RequestStep, AdminStep, Abort, NextCode,
      LockRow, RowMissing, WriteValue, ReadConfig, FindCounter, InsertRow,
      CommitEnsure, PatchConfig, SyncCounter, UpdateRow, CommitPatch, env, vars
<1>3. CASE NextPeriod \/ UNCHANGED vars
  BY <1>2, <1>3 DEF NextPeriod, vars, DriftInv
<1>4. ASSUME NEW r \in Request, RequestStep(r) PROVE DriftInv'
  <2>1. ~CommitEnsure(r)
    BY DEF CommitEnsure, NoRequestProvisions
  <2>2. /\ counter'.fmt = counter.fmt /\ counter'.active = counter.active
        /\ config' = config /\ exists' = exists /\ \A a \in Admin : pc'[a] = pc[a]
    BY <1>0, <1>4, <2>1 DEF RequestStep, NextCode, LockRow, RowMissing, WriteValue, ReadConfig,
       FindCounter, InsertRow, Goto, Counter
  <2>3. QED
    BY <1>2, <2>2 DEF DriftInv
<1>5. ASSUME NEW a \in Admin, AdminStep(a) PROVE DriftInv'
  <2>1. \A b \in Admin : b # a => pc'[b] = pc[b]
    BY <1>0, <1>5 DEF AdminStep, PatchConfig, SyncCounter, UpdateRow, FindCounter, InsertRow,
       CommitPatch, Goto
  <2>2. CASE ~CommitPatch(a)
    <3>1. UNCHANGED <<counter, config, exists>>
      BY <1>5, <2>2 DEF AdminStep, PatchConfig, SyncCounter, UpdateRow, FindCounter, InsertRow
    <3>2. /\ pc'[a] # "commit"
          /\ pc'[a] \in {"find", "insert", "commitInsert"} => ~exists
      BY <1>0, <1>2, <1>5, <2>2 DEF AdminStep, PatchConfig, SyncCounter, UpdateRow, FindCounter,
         InsertRow, AfterEnsure, Goto, DriftInv
    <3>3. QED
      BY <1>2, <2>1, <3>1, <3>2 DEF DriftInv
  <2>3. CASE CommitPatch(a)
    <3>1. pc[a] # "commit" /\ pc[a] \in TxStage /\ pc'[a] = "done"
      BY <1>0, <1>2, <2>3 DEF CommitPatch, Goto, DriftInv, TxStage
    <3>2. /\ config' = draft[a]
          /\ \/ counter' = NewCounter(draft[a])
             \/ counter' = [counter EXCEPT !.fmt = draft[a].fmt, !.active = draft[a].active]
      BY <2>3, <3>1 DEF CommitPatch
    <3>3. counter'.fmt = config'.fmt /\ counter'.active = config'.active
      <4>1. CASE counter' = NewCounter(draft[a])
        BY <3>2, <4>1 DEF NewCounter
      <4>2. CASE counter' = [counter EXCEPT !.fmt = draft[a].fmt, !.active = draft[a].active]
        BY <1>0, <3>2, <4>2 DEF Counter
      <4>3. QED
        BY <3>2, <4>1, <4>2
    <3>4. \A b \in Admin : pc'[b] \notin TxStage
      BY <2>1, <3>1 DEF ConfigLockInv, TxStage
    <3>5. QED
      BY <3>3, <3>4 DEF DriftInv, TxStage
  <2>4. QED
    BY <2>2, <2>3
<1>6. ASSUME NEW p \in Proc, Abort(p) PROVE DriftInv'
  BY <1>0, <1>2, <1>6 DEF Abort, Goto, DriftInv
<1>7. QED
  BY <1>1, <1>3, <1>4, <1>5, <1>6 DEF Next

\* As long as the counter is provisioned by PATCHes only, it renders what the
\* config says between PATCHes, also when it did not exist at first: the drift
\* comes from requests that provision what they read of the config before a
\* PATCH (ensureEmployeeCodeCounterFromConfig takes no lock).
THEOREM OnlyRequestsCauseDrift ==
  Spec /\ []NoRequestProvisions => [](edits = 0 => CounterFollowsConfig)
<1>1. Init => DriftInv
  BY DEF Init, DriftInv, NewCounter, Proc
<1>2. DriftInv => (edits = 0 => CounterFollowsConfig)
  BY DEF DriftInv, CounterFollowsConfig
<1>3. TypeInv /\ ConfigLockInv /\ NoRequestProvisions /\ DriftInv /\ [Next]_vars => DriftInv'
  BY NextDriftInv
<1>4. QED
  BY TypeInvariant, InitConfigLockInv, NextConfigLockInv, <1>1, <1>2, <1>3, PTL DEF Spec
=============================================================================
