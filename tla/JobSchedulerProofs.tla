------------------------- MODULE JobSchedulerProofs -------------------------
(***************************************************************************)
(* Proofs about the system-job scheduler for any number of instances,      *)
(* jobs and tenants, any TTL and any number of crashes, failing            *)
(* statements and overruns.                                                *)
(***************************************************************************)
EXTENDS JobScheduler, FiniteSetTheorems, TLAPS

USE JobSchedulerAssumption

-----------------------------------------------------------------------------
(* Type correctness. *)

LEMMA InitTypeOK == Init => TypeOK
  BY DEF Init, TypeOK, Job, Stage, RunStage, TerminalStatus

LEMMA JobFacts ==
  1 \in Job /\ \A j \in Job : j < NumJobs => j + 1 \in Job
  BY DEF Job

\* The handler loop goes on to a job of the list.
LEMMA NextJobType ==
  ASSUME TypeOK, NEW i \in Instance, NextJob(i)
  PROVE  /\ pc' \in [Instance -> Stage]
         /\ job' \in [Instance -> Job]
         /\ lease' \in [Instance -> 0..Ttl]
<1>1. job[i] \in Job
  BY DEF TypeOK
<1>2. pc' \in [Instance -> Stage] /\ lease' \in [Instance -> 0..Ttl]
  BY DEF NextJob, TypeOK, Stage
<1>3. job' \in [Instance -> Job]
  BY <1>1, JobFacts DEF NextJob, TypeOK
<1>4. QED
  BY <1>2, <1>3

LEMMA NextTypeOK == TypeOK /\ [Next]_vars => TypeOK'
<1> SUFFICES ASSUME TypeOK, [Next]_vars PROVE TypeOK'
  OBVIOUS
<1> USE DEF TypeOK
<1>1. CASE Clock
  BY <1>1 DEF Clock, Decrement, runVars
<1>2. ASSUME NEW i \in Instance, StartRound(i) PROVE TypeOK'
  BY <1>2, JobFacts DEF StartRound, Stage, lockVars, runVars
<1>3. ASSUME NEW i \in Instance, Acquire(i) PROVE TypeOK'
  BY <1>3 DEF Acquire, TakeLock, Stage, RunStage, lockVars, runVars
<1>4. ASSUME NEW i \in Instance, Skip(i) PROVE TypeOK'
  BY <1>4, NextJobType DEF Skip, lockVars, runVars
<1>5. ASSUME NEW i \in Instance, AcquireError(i) PROVE TypeOK'
  <2>1. until' \in [Job -> 0..Ttl] /\ lockedBy' \in [Job -> Instance]
    BY <1>5 DEF AcquireError, TakeLock, lockVars
  <2>2. QED
    BY <1>5, <2>1, NextJobType DEF AcquireError, Fails, runVars
<1>6. ASSUME NEW i \in Instance, Release(i) PROVE TypeOK'
  BY <1>6, NextJobType, SMTT(20) DEF Release, FreeLock, Fails, Succeeds, lockVars, runVars
<1>7. ASSUME NEW i \in Instance, List(i) PROVE TypeOK'
  BY <1>7 DEF List, Stage, RunStage, Fails, Succeeds, lockVars, runVars
<1>8. ASSUME NEW i \in Instance, Start(i) PROVE TypeOK'
  BY <1>8 DEF Start, Stage, RunStage, lockVars
<1>9. ASSUME NEW i \in Instance, StartError(i) PROVE TypeOK'
  BY <1>9 DEF StartError, Stage, RunStage, Fails, lockVars
<1>10. ASSUME NEW i \in Instance, HandlerReturns(i) PROVE TypeOK'
  BY <1>10 DEF HandlerReturns, Stage, RunStage, TerminalStatus, lockVars
<1>11. ASSUME NEW i \in Instance, HandlerThrows(i) PROVE TypeOK'
  BY <1>11 DEF HandlerThrows, Stage, RunStage, TerminalStatus, lockVars
<1>12. ASSUME NEW i \in Instance, Finish(i) PROVE TypeOK'
  BY <1>12 DEF Finish, FinishRow, NextTenant, Stage, RunStage, TerminalStatus, Fails, Succeeds, lockVars
<1>13. ASSUME NEW i \in Instance, FinishFailed(i) PROVE TypeOK'
  BY <1>13 DEF FinishFailed, FinishRow, NextTenant, Stage, RunStage, Fails, Succeeds, lockVars
<1>14. ASSUME NEW i \in Instance, Crash(i) PROVE TypeOK'
  BY <1>14 DEF Crash, Stage, lockVars
<1>15. ASSUME NEW i \in Instance, Restart(i) PROVE TypeOK'
  BY <1>15 DEF Restart, Stage, lockVars, runVars
<1>16. CASE UNCHANGED vars
  BY <1>16 DEF vars, lockVars, runVars
<1>17. QED
  BY <1>1, <1>2, <1>3, <1>4, <1>5, <1>6, <1>7, <1>8, <1>9, <1>10, <1>11, <1>12,
     <1>13, <1>14, <1>15, <1>16 DEF Next, Step

\* Every variable keeps its type.
THEOREM TypeCorrect == Spec => []TypeOK
  BY InitTypeOK, NextTypeOK, PTL DEF Spec

-----------------------------------------------------------------------------
(* The run log. *)

\* What an instance in the middle of runForTenant knows of its row.
RowKnowledge(i) ==
    /\ pc[i] = "handle" => row[i] = "Running"
    /\ pc[i] = "finish" => verdict[i] = outcome[i]
    /\ pc[i] = "finishFailed" =>
          verdict[i] = "Failed" /\ (outcome[i] = "threw" \/ errors > 0)

LogInv == (\A i \in Instance : RowKnowledge(i)) /\ RowIsTruthful /\ NoForgottenRun

LEMMA InitLogInv == Init => LogInv
  BY DEF Init, LogInv, RowKnowledge, RowIsTruthful, NoForgottenRun, TerminalStatus

LEMMA NextLogInv == TypeOK /\ LogInv /\ [Next]_vars => LogInv'
<1> SUFFICES ASSUME TypeOK, LogInv, [Next]_vars PROVE LogInv'
  OBVIOUS
<1> USE DEF TypeOK, LogInv, RowKnowledge, RowIsTruthful, NoForgottenRun,
            TerminalStatus
<1>1. CASE Clock
  BY <1>1 DEF Clock, runVars
<1>2. ASSUME NEW i \in Instance, StartRound(i) PROVE LogInv'
  BY <1>2 DEF StartRound, lockVars, runVars
<1>3. ASSUME NEW i \in Instance, Acquire(i) PROVE LogInv'
  BY <1>3 DEF Acquire, TakeLock, lockVars, runVars
<1>4. ASSUME NEW i \in Instance, Skip(i) PROVE LogInv'
  BY <1>4 DEF Skip, NextJob, lockVars, runVars
<1>5. ASSUME NEW i \in Instance, AcquireError(i) PROVE LogInv'
  BY <1>5 DEF AcquireError, NextJob, Fails, runVars
<1>6. ASSUME NEW i \in Instance, Release(i) PROVE LogInv'
  BY <1>6 DEF Release, NextJob, Fails, Succeeds, runVars
<1>7. ASSUME NEW i \in Instance, List(i) PROVE LogInv'
  BY <1>7 DEF List, Fails, Succeeds, runVars
<1>8. ASSUME NEW i \in Instance, Start(i) PROVE LogInv'
  BY <1>8 DEF Start
<1>9. ASSUME NEW i \in Instance, StartError(i) PROVE LogInv'
  BY <1>9 DEF StartError, Fails
<1>10. ASSUME NEW i \in Instance, HandlerReturns(i) PROVE LogInv'
  BY <1>10 DEF HandlerReturns
<1>11. ASSUME NEW i \in Instance, HandlerThrows(i) PROVE LogInv'
  BY <1>11 DEF HandlerThrows
<1>12. ASSUME NEW i \in Instance, Finish(i) PROVE LogInv'
  <2>1. /\ row' = [row EXCEPT ![i] = IF @ = "Running" THEN verdict[i] ELSE @] \/ row' = row
        /\ outcome' = outcome /\ orphaned' = orphaned /\ crashes' = crashes
        /\ \A k \in Instance : k # i => pc'[k] = pc[k] /\ verdict'[k] = verdict[k]
        /\ errors' >= errors /\ errors' \in Nat
    BY <1>12 DEF Finish, FinishRow, NextTenant, Fails, Succeeds
  <2>2. CASE Succeeds /\ FinishRow(i) /\ NextTenant(i) /\ verdict' = verdict
    BY <1>12, <2>1, <2>2 DEF FinishRow, NextTenant, Succeeds, Finish
  <2>3. CASE /\ Fails
             /\ verdict' = [verdict EXCEPT ![i] = "Failed"]
             /\ pc' = [pc EXCEPT ![i] = "finishFailed"]
    BY <1>12, <2>1, <2>3 DEF Fails, Finish
  <2>4. QED
    BY <1>12, <2>2, <2>3 DEF Finish
<1>13. ASSUME NEW i \in Instance, FinishFailed(i) PROVE LogInv'
  BY <1>13, SMTT(20) DEF FinishFailed, FinishRow, NextTenant, Fails, Succeeds
<1>14. ASSUME NEW i \in Instance, Crash(i) PROVE LogInv'
  BY <1>14 DEF Crash
<1>15. ASSUME NEW i \in Instance, Restart(i) PROVE LogInv'
  BY <1>15 DEF Restart, runVars
<1>16. CASE UNCHANGED vars
  BY <1>16 DEF vars, runVars
<1>17. QED
  BY <1>1, <1>2, <1>3, <1>4, <1>5, <1>6, <1>7, <1>8, <1>9, <1>10, <1>11, <1>12,
     <1>13, <1>14, <1>15, <1>16 DEF Next, Step

LEMMA LogInvariant == Spec => [](TypeOK /\ LogInv)
  BY InitTypeOK, NextTypeOK, InitLogInv, NextLogInv, PTL DEF Spec

\* The run log never claims a success that no handler returned, and a false
\* failure only after a statement failed.
THEOREM LogIsTruthful == Spec => []RowIsTruthful
<1>1. LogInv => RowIsTruthful
  BY DEF LogInv
<1>2. QED
  BY LogInvariant, <1>1, PTL

\* Without crashes and failing statements no row stays 'Running' for ever.
THEOREM NoRunIsForgotten == Spec => []NoForgottenRun
<1>1. LogInv => NoForgottenRun
  BY DEF LogInv
<1>2. QED
  BY LogInvariant, <1>1, PTL

\* finish is done once: a terminal status is never overwritten.
THEOREM StatusesAreFinal == Spec => RunStatusIsFinal
<1> DEFINE Kept == \A i \in Instance :
      row[i] \in TerminalStatus /\ row'[i] # row[i] => pc[i] = "start"
<1>1. TypeOK /\ [Next]_vars => Kept
  <2> SUFFICES ASSUME TypeOK, [Next]_vars PROVE Kept
    OBVIOUS
  <2> USE DEF TypeOK, TerminalStatus
  <2>1. ASSUME NEW i \in Instance, Start(i) PROVE Kept
    BY <2>1 DEF Start
  <2>2. ASSUME NEW i \in Instance, Finish(i) PROVE Kept
    BY <2>2 DEF Finish, FinishRow
  <2>3. ASSUME NEW i \in Instance, FinishFailed(i) PROVE Kept
    BY <2>3 DEF FinishFailed, FinishRow
  <2>4. ASSUME row' = row PROVE Kept
    BY <2>4
  <2>5. ASSUME NEW i \in Instance, Step(i) \/ Crash(i) \/ Restart(i),
               ~(Start(i) \/ Finish(i) \/ FinishFailed(i))
        PROVE  row' = row
    BY <2>5 DEF Step, StartRound, Acquire, Skip, AcquireError, Release, List,
                StartError, HandlerReturns, HandlerThrows, Crash, Restart, runVars
  <2>6. CASE Clock \/ UNCHANGED vars
    BY <2>4, <2>6 DEF Clock, vars, runVars
  <2>7. QED
    BY <2>1, <2>2, <2>3, <2>4, <2>5, <2>6 DEF Next
<1>2. QED
  BY TypeCorrect, <1>1, PTL DEF Spec, RunStatusIsFinal, Kept

-----------------------------------------------------------------------------
(* Leases and overlaps. *)

\* The instance that the row in force names, if it still runs the job, has as
\* much of its lease left as the row says.
HolderKnowsLease ==
    \A j \in Job :
        until[j] > 0 /\ lockedBy[j] \in Runners(j) => lease[lockedBy[j]] = until[j]

\* Runners that the row in force does not name.
Holder(j) == IF until[j] > 0 THEN {lockedBy[j]} ELSE {}
Intruders(j) == Runners(j) \ Holder(j)

\* Every intruder stands for an overrun.  OverlapIsPaidFor alone is not
\* inductive: it forgets that a row may name an instance that has gone.
OverlapInv ==
    HolderKnowsLease /\ \A j \in Job : Cardinality(Intruders(j)) <= overruns

LEMMA IntrudersFinite ==
  \A j : IsFiniteSet(Intruders(j)) /\ Cardinality(Intruders(j)) \in Nat
<1> TAKE j
<1>1. Intruders(j) \in SUBSET Instance
  BY DEF Intruders, Runners
<1>2. QED
  BY <1>1, FS_Subset, FS_CardinalityType

LEMMA CardOfPart ==
  ASSUME NEW S, IsFiniteSet(S), NEW T, T \subseteq S
  PROVE  Cardinality(T) <= Cardinality(S)
  BY FS_Subset

LEMMA CardOfPlusOne ==
  ASSUME NEW S, IsFiniteSet(S), NEW x, NEW T, T \subseteq S \cup {x}
  PROVE  Cardinality(T) <= Cardinality(S) + 1
<1>1. Cardinality(S) \in Nat
  BY FS_CardinalityType
<1>2. IsFiniteSet(S \cup {x}) /\ Cardinality(S \cup {x}) <= Cardinality(S) + 1
  <2>1. /\ IsFiniteSet(S \cup {x})
        /\ Cardinality(S \cup {x}) = IF x \in S THEN Cardinality(S) ELSE Cardinality(S) + 1
    BY FS_AddElement
  <2>2. QED
    BY <1>1, <2>1
<1>3. IsFiniteSet(T) /\ Cardinality(T) <= Cardinality(S \cup {x})
  BY <1>2, FS_Subset
<1>4. Cardinality(T) \in Nat /\ Cardinality(S \cup {x}) \in Nat
  BY <1>2, <1>3, FS_CardinalityType
<1>5. QED
  BY <1>1, <1>2, <1>3, <1>4

LEMMA CardOfExchange ==
  ASSUME NEW S, IsFiniteSet(S), NEW x, NEW y \in S, NEW T,
         T \subseteq (S \ {y}) \cup {x}
  PROVE  Cardinality(T) <= Cardinality(S)
<1>1. IsFiniteSet(S \ {y}) /\ Cardinality(S \ {y}) = Cardinality(S) - 1
  BY FS_RemoveElement
<1>2. Cardinality(T) <= Cardinality(S \ {y}) + 1
  BY <1>1, CardOfPlusOne
<1>3. Cardinality(S) \in Nat /\ Cardinality(T) \in Nat
  <2>1. IsFiniteSet((S \ {y}) \cup {x})
    BY <1>1, FS_AddElement
  <2>2. IsFiniteSet(T)
    BY <2>1, FS_Subset
  <2>3. QED
    BY <2>2, FS_CardinalityType
<1>4. QED
  BY <1>1, <1>2, <1>3

LEMMA InitOverlapInv == Init => OverlapInv
<1> SUFFICES ASSUME Init PROVE OverlapInv
  OBVIOUS
<1>1. \A j \in Job : until[j] = 0 /\ Intruders(j) = {}
  BY DEF Init, Intruders, Runners, Running, RunStage
<1>2. overruns = 0
  BY DEF Init
<1>3. QED
  BY <1>1, <1>2, FS_EmptySet DEF OverlapInv, HolderKnowsLease

\* Steps that neither touch a row nor let an instance begin a run.
QuietStep ==
    /\ UNCHANGED <<until, lockedBy, overruns>>
    /\ \A j \in Job : /\ Runners(j)' \subseteq Runners(j)
                      /\ \A i \in Runners(j)' : lease'[i] = lease[i]

LEMMA QuietStepKeepsInv ==
  ASSUME TypeOK, OverlapInv, QuietStep
  PROVE  OverlapInv'
<1>1. HolderKnowsLease'
  BY DEF HolderKnowsLease, OverlapInv, QuietStep
<1>2. ASSUME NEW j \in Job PROVE Cardinality(Intruders(j)') <= overruns'
  <2>1. Intruders(j)' \subseteq Intruders(j)
    BY DEF QuietStep, Intruders, Holder
  <2>2. Cardinality(Intruders(j)') <= Cardinality(Intruders(j))
    BY <2>1, IntrudersFinite, CardOfPart
  <2>3. Cardinality(Intruders(j)) <= overruns /\ overruns' = overruns /\ overruns \in Nat
    BY DEF OverlapInv, QuietStep, TypeOK
  <2>4. Cardinality(Intruders(j)) \in Nat /\ Cardinality(Intruders(j)') \in Nat
    <3>1. IsFiniteSet(Intruders(j)')
      BY <2>1, IntrudersFinite, FS_Subset
    <3>2. QED
      BY <3>1, IntrudersFinite, FS_CardinalityType
  <2>5. QED
    BY <2>2, <2>3, <2>4
<1>3. QED
  BY <1>1, <1>2 DEF OverlapInv

LEMMA QuietActions ==
  ASSUME TypeOK, NEW i \in Instance,
         \/ StartRound(i) \/ Skip(i) \/ List(i) \/ Start(i) \/ StartError(i)
         \/ HandlerReturns(i) \/ HandlerThrows(i) \/ Finish(i) \/ FinishFailed(i)
         \/ Crash(i) \/ Restart(i)
         \/ (AcquireError(i) \/ Release(i)) /\ UNCHANGED lockVars
  PROVE  QuietStep
<1> USE DEF TypeOK
<1>1. UNCHANGED <<until, lockedBy, overruns>>
  BY DEF StartRound, Skip, List, Start, StartError, HandlerReturns, HandlerThrows,
         Finish, FinishFailed, Crash, Restart, AcquireError, Release, lockVars, runVars
<1>2. /\ \A k \in Instance : k # i => pc'[k] = pc[k] /\ job'[k] = job[k]
                                    /\ lease'[k] = lease[k]
      /\ pc'[i] \in RunStage => /\ pc[i] \in RunStage
                               /\ job'[i] = job[i] /\ lease'[i] = lease[i]
  <2>1. CASE StartRound(i) \/ Restart(i) \/ Crash(i)
    BY <2>1 DEF StartRound, Restart, Crash, RunStage
  <2>2. CASE Skip(i) \/ AcquireError(i) \/ Release(i)
    BY <2>2 DEF Skip, AcquireError, Release, NextJob, RunStage
  <2>3. CASE List(i) \/ Start(i) \/ StartError(i) \/ HandlerReturns(i) \/ HandlerThrows(i)
    BY <2>3 DEF List, Start, StartError, HandlerReturns, HandlerThrows, RunStage
  <2>4. CASE Finish(i) \/ FinishFailed(i)
    BY <2>4 DEF Finish, FinishFailed, NextTenant, RunStage
  <2>5. QED
    BY <2>1, <2>2, <2>3, <2>4
<1>3. QED
  BY <1>1, <1>2 DEF QuietStep, Runners, Running

\* Whoever takes the row finds it expired: all earlier runners are intruders,
\* and it does not become one itself.
LEMMA TakingKeepsInv ==
  ASSUME TypeOK, OverlapInv, NEW i \in Instance,
         Acquire(i) \/ (AcquireError(i) /\ TakeLock(i))
  PROVE  OverlapInv'
<1> USE DEF TypeOK
<1>1. /\ pc[i] = "acquire"
      /\ until[job[i]] = 0
      /\ until' = [until EXCEPT ![job[i]] = Ttl]
      /\ lockedBy' = [lockedBy EXCEPT ![job[i]] = i]
      /\ overruns' = overruns
  BY DEF Acquire, AcquireError, TakeLock, Expired
<1>2. /\ \A k \in Instance : k # i => pc'[k] = pc[k] /\ job'[k] = job[k]
                                    /\ lease'[k] = lease[k]
      /\ pc'[i] \in RunStage => job'[i] = job[i] /\ lease'[i] = Ttl
  BY DEF Acquire, AcquireError, NextJob, RunStage
<1>3. pc[i] \notin RunStage
  BY <1>1 DEF RunStage
<1>4. HolderKnowsLease'
  <2> SUFFICES ASSUME NEW j \in Job, until'[j] > 0, lockedBy'[j] \in Runners(j)'
               PROVE  lease'[lockedBy'[j]] = until'[j]
    BY DEF HolderKnowsLease
  <2>1. CASE j = job[i]
    BY <1>1, <1>2, <2>1 DEF Runners, Running
  <2>2. CASE j # job[i]
    <3>1. until'[j] = until[j] /\ lockedBy'[j] = lockedBy[j]
      BY <1>1, <2>2
    <3>2. lockedBy[j] # i /\ lockedBy[j] \in Runners(j)
      BY <1>2, <1>3, <2>2, <3>1 DEF Runners, Running
    <3>3. QED
      BY <1>2, <3>1, <3>2 DEF OverlapInv, HolderKnowsLease
  <2>3. QED
    BY <2>1, <2>2
<1>5. ASSUME NEW j \in Job PROVE Intruders(j)' \subseteq Intruders(j)
  <2>1. CASE j = job[i]
    <3>1. Intruders(j) = Runners(j)
      BY <1>1, <2>1 DEF Intruders, Holder
    <3>2. Holder(j)' = {i}
      BY <1>1, <2>1 DEF Holder
    <3>3. QED
      BY <1>2, <3>1, <3>2 DEF Intruders, Runners, Running
  <2>2. CASE j # job[i]
    BY <1>1, <1>2, <2>2 DEF Intruders, Holder, Runners, Running
  <2>3. QED
    BY <2>1, <2>2
<1>6. ASSUME NEW j \in Job PROVE Cardinality(Intruders(j)') <= overruns'
  <2>1. Cardinality(Intruders(j)') <= Cardinality(Intruders(j))
    BY <1>5, IntrudersFinite, CardOfPart
  <2>2. IsFiniteSet(Intruders(j)')
    BY <1>5, IntrudersFinite, FS_Subset
  <2>3. Cardinality(Intruders(j)') \in Nat /\ Cardinality(Intruders(j)) \in Nat
    BY <2>2, IntrudersFinite, FS_CardinalityType
  <2>4. QED
    BY <1>1, <2>1, <2>3 DEF OverlapInv
<1>7. QED
  BY <1>4, <1>6 DEF OverlapInv

\* A release of a row that names somebody else makes that instance an intruder
\* in place of the one that releases and goes.
LEMMA ReleaseKeepsInv ==
  ASSUME TypeOK, OverlapInv, NEW i \in Instance, Release(i), FreeLock(i)
  PROVE  OverlapInv'
<1> USE DEF TypeOK
<1>1. /\ pc[i] = "release" /\ pc'[i] \notin RunStage
      /\ until' = [until EXCEPT ![job[i]] = 0]
      /\ lockedBy' = lockedBy /\ overruns' = overruns
      /\ \A k \in Instance : k # i => pc'[k] = pc[k] /\ job'[k] = job[k]
                                    /\ lease'[k] = lease[k]
  BY DEF Release, FreeLock, NextJob, RunStage
<1>2. HolderKnowsLease'
  <2> SUFFICES ASSUME NEW j \in Job, until'[j] > 0, lockedBy'[j] \in Runners(j)'
               PROVE  lease'[lockedBy'[j]] = until'[j]
    BY DEF HolderKnowsLease
  <2>1. until'[j] = until[j] /\ lockedBy'[j] # i /\ lockedBy'[j] \in Runners(j)
    BY <1>1 DEF Runners, Running
  <2>2. QED
    BY <1>1, <2>1 DEF OverlapInv, HolderKnowsLease
<1>3. ASSUME NEW j \in Job PROVE Cardinality(Intruders(j)') <= overruns'
  <2>1. Runners(j)' \subseteq Runners(j) \ {i}
    BY <1>1 DEF Runners, Running
  <2>2. Cardinality(Intruders(j)') <= Cardinality(Intruders(j))
    <3>1. CASE j # job[i]
      <4>1. Intruders(j)' \subseteq Intruders(j)
        BY <1>1, <2>1, <3>1 DEF Intruders, Holder
      <4>2. QED
        BY <4>1, IntrudersFinite, CardOfPart
    <3>2. CASE j = job[i] /\ i \in Intruders(j)
      <4>1. Intruders(j)' \subseteq (Intruders(j) \ {i}) \cup {lockedBy[j]}
        BY <2>1 DEF Intruders, Holder
      <4>2. QED
        BY <3>2, <4>1, IntrudersFinite, CardOfExchange
    <3>3. CASE j = job[i] /\ i \notin Intruders(j)
      <4>1. i \in Runners(j)
        BY <1>1, <3>3 DEF Runners, Running, RunStage
      <4>2. Holder(j) = {i}
        BY <3>3, <4>1 DEF Intruders, Holder
      <4>3. Intruders(j)' \subseteq Intruders(j)
        BY <2>1, <4>2 DEF Intruders
      <4>4. QED
        BY <4>3, IntrudersFinite, CardOfPart
    <3>4. QED
      BY <3>1, <3>2, <3>3
  <2>3. IsFiniteSet(Intruders(j)')
    <3>1. Intruders(j)' \subseteq Instance
      BY <2>1 DEF Intruders, Runners
    <3>2. QED
      BY <3>1, FS_Subset
  <2>4. Cardinality(Intruders(j)') \in Nat /\ Cardinality(Intruders(j)) \in Nat
    BY <2>3, IntrudersFinite, FS_CardinalityType
  <2>5. QED
    BY <1>1, <2>2, <2>4 DEF OverlapInv
<1>4. QED
  BY <1>2, <1>3 DEF OverlapInv

\* When a row expires under its holder, that is an overrun, and the holder
\* becomes an intruder.
LEMMA ClockKeepsInv ==
  ASSUME TypeOK, OverlapInv, Clock
  PROVE  OverlapInv'
<1> USE DEF TypeOK
<1>1. /\ lockedBy' = lockedBy /\ pc' = pc /\ job' = job
      /\ \A j \in Job : until'[j] = Decrement(until[j])
      /\ \A i \in Instance : lease'[i] = Decrement(lease[i])
      /\ overruns' \in Nat
      /\ overruns' >= overruns
      /\ Late # {} => overruns' = overruns + 1
  BY DEF Clock
<1>2. \A j : Runners(j)' = Runners(j)
  BY <1>1 DEF Runners, Running
<1>3. HolderKnowsLease'
  <2> SUFFICES ASSUME NEW j \in Job, until'[j] > 0, lockedBy'[j] \in Runners(j)'
               PROVE  lease'[lockedBy'[j]] = until'[j]
    BY DEF HolderKnowsLease
  <2>1. until[j] \in Nat /\ until[j] > 0
    BY <1>1 DEF Decrement
  <2>2. lease[lockedBy[j]] = until[j]
    BY <1>1, <1>2, <2>1 DEF OverlapInv, HolderKnowsLease
  <2>3. QED
    BY <1>1, <2>2 DEF Decrement
<1>4. ASSUME NEW j \in Job PROVE Cardinality(Intruders(j)') <= overruns'
  <2>1. Cardinality(Intruders(j)') \in Nat /\ Cardinality(Intruders(j)) \in Nat
    <3>1. Intruders(j)' \subseteq Instance
      BY <1>2 DEF Intruders, Runners
    <3>2. IsFiniteSet(Intruders(j)')
      BY <3>1, FS_Subset
    <3>3. QED
      BY <3>2, IntrudersFinite, FS_CardinalityType
  <2>2. CASE Holder(j)' = Holder(j) \/ lockedBy[j] \notin Runners(j)
    <3>1. Intruders(j)' \subseteq Intruders(j)
      BY <1>1, <1>2, <2>2 DEF Intruders, Holder
    <3>2. Cardinality(Intruders(j)') <= Cardinality(Intruders(j))
      BY <3>1, IntrudersFinite, CardOfPart
    <3>3. QED
      BY <1>1, <2>1, <3>2 DEF OverlapInv
  <2>3. CASE Holder(j)' # Holder(j) /\ lockedBy[j] \in Runners(j)
    <3>1. until[j] = 1
      <4>1. until[j] \in Nat /\ until'[j] = Decrement(until[j])
        BY <1>1
      <4>2. until[j] > 0 /\ ~(until'[j] > 0)
        BY <1>1, <2>3, <4>1 DEF Holder, Decrement
      <4>3. QED
        BY <4>1, <4>2 DEF Decrement
    <3>2. lockedBy[j] \in Late
      BY <2>3, <3>1 DEF OverlapInv, HolderKnowsLease, Late, Runners
    <3>3. Intruders(j)' \subseteq Intruders(j) \cup {lockedBy[j]}
      BY <1>2 DEF Intruders, Holder
    <3>4. Cardinality(Intruders(j)') <= Cardinality(Intruders(j)) + 1
      BY <3>3, IntrudersFinite, CardOfPlusOne
    <3>5. QED
      BY <1>1, <2>1, <3>2, <3>4 DEF OverlapInv
  <2>4. QED
    BY <2>2, <2>3
<1>5. QED
  BY <1>3, <1>4 DEF OverlapInv

LEMMA NextOverlapInv == TypeOK /\ OverlapInv /\ [Next]_vars => OverlapInv'
<1> SUFFICES ASSUME TypeOK, OverlapInv, [Next]_vars PROVE OverlapInv'
  OBVIOUS
<1>1. CASE Clock
  BY <1>1, ClockKeepsInv
<1>2. ASSUME NEW i \in Instance, Acquire(i) PROVE OverlapInv'
  BY <1>2, TakingKeepsInv
<1>3. ASSUME NEW i \in Instance, AcquireError(i) PROVE OverlapInv'
  <2>1. TakeLock(i) \/ UNCHANGED lockVars
    BY <1>3 DEF AcquireError
  <2>2. QED
    BY <1>3, <2>1, TakingKeepsInv, QuietActions, QuietStepKeepsInv
<1>4. ASSUME NEW i \in Instance, Release(i) PROVE OverlapInv'
  <2>1. FreeLock(i) \/ UNCHANGED lockVars
    BY <1>4 DEF Release
  <2>2. QED
    BY <1>4, <2>1, ReleaseKeepsInv, QuietActions, QuietStepKeepsInv
<1>5. ASSUME NEW i \in Instance, Step(i) \/ Crash(i) \/ Restart(i),
             ~Acquire(i), ~AcquireError(i), ~Release(i)
      PROVE  OverlapInv'
  BY <1>5, QuietActions, QuietStepKeepsInv DEF Step
<1>6. CASE UNCHANGED vars
  <2>1. QuietStep
    BY <1>6 DEF vars, lockVars, QuietStep, Runners, Running
  <2>2. QED
    BY <2>1, QuietStepKeepsInv
<1>7. QED
  BY <1>1, <1>2, <1>3, <1>4, <1>5, <1>6 DEF Next

\* However often runs outlive their lease, the number of instances in the same
\* job never exceeds the number of overruns, plus one while a row is in force.
THEOREM OverlapsArePaidFor == Spec => []OverlapIsPaidFor
<1>1. TypeOK /\ OverlapInv => OverlapIsPaidFor
  <2> SUFFICES ASSUME TypeOK, OverlapInv, NEW j \in Job
               PROVE Cardinality(Runners(j)) <= overruns + (IF until[j] > 0 THEN 1 ELSE 0)
    BY DEF OverlapIsPaidFor
  <2>1. overruns \in Nat /\ Cardinality(Intruders(j)) <= overruns
    BY DEF OverlapInv, TypeOK
  <2>2. Cardinality(Intruders(j)) \in Nat
    BY IntrudersFinite
  <2>3. Cardinality(Runners(j)) \in Nat
    <3>1. Runners(j) \subseteq Instance
      BY DEF Runners
    <3>2. QED
      BY <3>1, FS_Subset, FS_CardinalityType
  <2>4. CASE until[j] > 0
    <3>1. Runners(j) \subseteq Intruders(j) \cup {lockedBy[j]}
      BY DEF Intruders, Holder
    <3>2. Cardinality(Runners(j)) <= Cardinality(Intruders(j)) + 1
      BY <3>1, IntrudersFinite, CardOfPlusOne
    <3>3. QED
      BY <2>1, <2>2, <2>3, <2>4, <3>2
  <2>5. CASE ~(until[j] > 0)
    <3>1. Runners(j) = Intruders(j)
      BY <2>5 DEF Intruders, Holder
    <3>2. QED
      BY <2>1, <2>5, <3>1
  <2>6. QED
    BY <2>4, <2>5
<1>2. QED
  BY InitTypeOK, NextTypeOK, InitOverlapInv, NextOverlapInv, <1>1, PTL DEF Spec

LEMMA OneRunnerAtATime ==
  TypeOK /\ OverlapIsPaidFor /\ overruns = 0 => SingleActive
<1> SUFFICES ASSUME TypeOK, OverlapIsPaidFor, overruns = 0, NEW i \in Instance,
                    NEW k \in Instance, i # k, Running(i), Running(k), job[i] = job[k]
             PROVE  FALSE
  BY DEF SingleActive
<1>1. job[i] \in Job
  BY DEF TypeOK
<1>2. IsFiniteSet(Runners(job[i])) /\ Cardinality(Runners(job[i])) \in Nat
  <2>1. Runners(job[i]) \subseteq Instance
    BY DEF Runners
  <2>2. QED
    BY <2>1, FS_Subset, FS_CardinalityType
<1>3. Cardinality(Runners(job[i])) <= 1
  BY <1>1, <1>2 DEF OverlapIsPaidFor
<1>4. i \in Runners(job[i]) /\ k \in Runners(job[i])
  BY DEF Runners
<1>5. Cardinality(Runners(job[i])) \in {0, 1}
  BY <1>2, <1>3
<1>6. QED
  BY <1>2, <1>4, <1>5, FS_EmptySet, FS_Singleton

\* While every run ends within its TTL, no job is run by two instances at once.
THEOREM JobsAreSingleActive ==
  ASSUME MaxOverruns = 0
  PROVE  Spec => []SingleActive
<1>1. TypeOK => overruns = 0
  BY DEF TypeOK
<1>2. QED
  BY TypeCorrect, OverlapsArePaidFor, OneRunnerAtATime, <1>1, PTL

\* Until a run outlives its lease, a run within its lease is alone with the job,
\* whatever crashes and lost answers do to the row: only an overrun sets off the
\* overlaps of fresh runs that release without an owner check allows.
THEOREM FreshRunsExcludeUntilAnOverrun == Spec => [](overruns = 0 => FreshRunsExclude)
<1>1. SingleActive => FreshRunsExclude
  BY DEF SingleActive, FreshRunsExclude
<1>2. QED
  BY TypeCorrect, OverlapsArePaidFor, OneRunnerAtATime, <1>1, PTL

-----------------------------------------------------------------------------
(* Locks. *)

\* A run of job j goes on under the same row.
RunGoesOn(j) == until'[j] > 0 => until[j] > 0 /\ Runners(j) \subseteq Runners(j)'

LEMMA GoesOnKeepsReason ==
  ASSUME LockedForAReason, crashes' + errors' > 0 \/ crashes' + errors' = crashes + errors,
         \A j \in Job : RunGoesOn(j)
  PROVE  LockedForAReason'
  BY DEF LockedForAReason, RunGoesOn

LEMMA NextLockedForAReason ==
  TypeOK /\ LockedForAReason /\ [Next]_vars => LockedForAReason'
<1> SUFFICES ASSUME TypeOK, LockedForAReason, [Next]_vars PROVE LockedForAReason'
  OBVIOUS
<1> USE DEF TypeOK
<1>1. CASE Clock
  <2>1. \A j \in Job : until'[j] > 0 => until[j] > 0
    BY <1>1 DEF Clock, Decrement
  <2>2. \A j \in Job : Runners(j)' = Runners(j)
    BY <1>1 DEF Clock, Runners, Running
  <2>3. QED
    BY <1>1, <2>1, <2>2, GoesOnKeepsReason DEF Clock, RunGoesOn
\* A statement that fails, or a crash, is a reason.
<1>2. ASSUME crashes' + errors' > 0 PROVE LockedForAReason'
  BY <1>2 DEF LockedForAReason
<1>3. ASSUME NEW i \in Instance, Acquire(i) PROVE LockedForAReason'
  <2>1. \A j \in Job : j = job[i] => i \in Runners(j)'
    BY <1>3 DEF Acquire, Runners, Running, RunStage
  <2>2. \A j \in Job : Runners(j) \subseteq Runners(j)'
    BY <1>3 DEF Acquire, Runners, Running, RunStage
  <2>3. \A j \in Job : j # job[i] => until'[j] = until[j]
    BY <1>3 DEF Acquire, TakeLock
  <2>4. crashes' = crashes /\ errors' = errors
    BY <1>3 DEF Acquire
  <2>5. ASSUME NEW j \in Job, until'[j] > 0
        PROVE  Runners(j)' # {} \/ crashes' + errors' > 0
    <3>1. CASE j = job[i]
      BY <2>1, <3>1
    <3>2. CASE j # job[i]
      BY <2>2, <2>3, <2>4, <2>5, <3>2 DEF LockedForAReason
    <3>3. QED
      BY <3>1, <3>2
  <2>6. QED
    BY <2>5 DEF LockedForAReason
<1>4. ASSUME NEW i \in Instance, Release(i), errors' = errors PROVE LockedForAReason'
  <2>1. until' = [until EXCEPT ![job[i]] = 0] /\ crashes' = crashes
    <3>1. errors \in Nat
      OBVIOUS
    <3>2. ~Fails
      BY <1>4, <3>1 DEF Fails
    <3>3. (Succeeds /\ FreeLock(i)) \/ Fails
      BY <1>4 DEF Release
    <3>4. crashes' = crashes
      BY <1>4 DEF Release
    <3>5. QED
      BY <3>2, <3>3, <3>4 DEF FreeLock
  <2>2. \A k \in Instance : k # i => pc'[k] = pc[k] /\ job'[k] = job[k]
    BY <1>4 DEF Release, NextJob
  <2>3. \A j \in Job : RunGoesOn(j)
    BY <2>1, <2>2 DEF RunGoesOn, Runners, Running
  <2>4. QED
    BY <1>4, <2>1, <2>3, GoesOnKeepsReason
<1>5. ASSUME NEW i \in Instance, errors' = errors, crashes' = crashes,
             \/ StartRound(i) \/ Skip(i) \/ List(i) \/ Start(i) \/ HandlerReturns(i)
             \/ HandlerThrows(i) \/ Finish(i) \/ FinishFailed(i) \/ Restart(i)
      PROVE  LockedForAReason'
  <2>1. until' = until
    BY <1>5 DEF StartRound, Skip, List, Start, HandlerReturns, HandlerThrows, Finish,
                FinishFailed, Restart, lockVars
  <2>2. /\ \A k \in Instance : k # i => pc'[k] = pc[k] /\ job'[k] = job[k]
        /\ pc[i] \in RunStage => pc'[i] \in RunStage /\ job'[i] = job[i]
    <3>1. CASE StartRound(i) \/ Skip(i) \/ Restart(i)
      BY <3>1 DEF StartRound, Skip, NextJob, Restart, RunStage
    <3>2. CASE List(i) \/ Start(i) \/ HandlerReturns(i) \/ HandlerThrows(i)
      BY <3>2 DEF List, Start, HandlerReturns, HandlerThrows, RunStage
    <3>3. CASE Finish(i) \/ FinishFailed(i)
      BY <3>3 DEF Finish, FinishFailed, NextTenant, RunStage
    <3>4. QED
      BY <1>5, <3>1, <3>2, <3>3
  <2>3. \A j \in Job : RunGoesOn(j)
    BY <2>1, <2>2 DEF RunGoesOn, Runners, Running
  <2>4. QED
    BY <1>5, <2>3, GoesOnKeepsReason
<1>6. ASSUME NEW i \in Instance, Crash(i) PROVE LockedForAReason'
  BY <1>2, <1>6 DEF Crash
<1>7. ASSUME NEW i \in Instance, AcquireError(i) \/ StartError(i) PROVE LockedForAReason'
  BY <1>2, <1>7 DEF AcquireError, StartError, Fails
<1>8. CASE UNCHANGED vars
  <2>1. \A j \in Job : RunGoesOn(j)
    BY <1>8 DEF vars, lockVars, RunGoesOn, Runners, Running
  <2>2. QED
    BY <1>8, <2>1, GoesOnKeepsReason DEF vars
<1>9. ASSUME NEW i \in Instance,
             Release(i) \/ List(i) \/ Finish(i) \/ FinishFailed(i), errors' # errors
      PROVE  LockedForAReason'
  BY <1>2, <1>9 DEF Release, List, Finish, FinishFailed, Fails, Succeeds
<1>10. ASSUME NEW i \in Instance,
              \/ StartRound(i) \/ Skip(i) \/ Start(i) \/ HandlerReturns(i)
              \/ HandlerThrows(i) \/ Restart(i)
       PROVE  errors' = errors /\ crashes' = crashes
  BY <1>10 DEF StartRound, Skip, Start, HandlerReturns, HandlerThrows, Restart
<1>11. ASSUME NEW i \in Instance, List(i) \/ Finish(i) \/ FinishFailed(i)
       PROVE  crashes' = crashes
  BY <1>11 DEF List, Finish, FinishFailed
<1>12. QED
  BY <1>1, <1>3, <1>4, <1>5, <1>6, <1>7, <1>8, <1>9, <1>10, <1>11 DEF Next, Step

\* As long as nobody dies and no statement fails, no tick of a job is skipped
\* for a run that is over.
THEOREM LocksHaveReasons == Spec => []LockedForAReason
<1>1. Init => LockedForAReason
  BY DEF Init, LockedForAReason
<1>2. QED
  BY InitTypeOK, NextTypeOK, <1>1, NextLockedForAReason, PTL DEF Spec
=============================================================================
