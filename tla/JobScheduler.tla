---------------------------- MODULE JobScheduler ----------------------------
(***************************************************************************)
(* The system-jobs tick of the API: in every instance a timer starts a     *)
(* round over the discovered jobs (WorkerSchedulerService), each of which  *)
(* runs under a lease in system_job_locks (JobLockService), once per       *)
(* tenant (JobRunner), with a row per tenant in system_job_runs            *)
(* (JobRunLogger).                                                         *)
(*                                                                         *)
(* Jobs are numbered in discovery order, tenants in the order of the       *)
(* enumeration; the list of companies does not change during a run.  One   *)
(* step is one SQL statement or one handler call.  A statement may fail,   *)
(* and then it may or may not have been applied (the answer was lost).     *)
(*                                                                         *)
(* Leases are kept as ages: until[j] is locked_until - now() in ticks, 0   *)
(* when the lease is in the past.  A clock tick that takes the last tick   *)
(* of the lease an instance is still running under is an overrun;          *)
(* MaxOverruns = 0 says that every round ends within its TTL.              *)
(***************************************************************************)
EXTENDS Naturals, FiniteSets

CONSTANTS
    Instance,     \* API instances
    NumJobs,      \* discovered job handlers
    NumTenants,   \* active companies
    Ttl,          \* DEFAULT_LOCK_TTL_MS in ticks
    MaxCrashes,   \* how often an instance may die
    MaxErrors,    \* how many SQL statements may fail
    MaxOverruns   \* how often a run may outlive its lease

ASSUME JobSchedulerAssumption ==
    /\ Instance # {} /\ IsFiniteSet(Instance)
    /\ NumJobs \in Nat \ {0}
    /\ NumTenants \in Nat
    /\ Ttl \in Nat \ {0}
    /\ MaxCrashes \in Nat
    /\ MaxErrors \in Nat
    /\ MaxOverruns \in Nat

VARIABLES
    until,        \* until[j]: ticks left of the row of system_job_locks
    lockedBy,     \* lockedBy[j]: locked_by of that row
    pc, job, tenant,  \* the tick, runJob and runForTenant of each instance
    lease,        \* lease[i]: ticks left since i acquired, whatever the row says
    row,          \* row[i]: status of the last system_job_runs row of i
    outcome,      \* outcome[i]: what the last handler call of i did
    verdict,      \* verdict[i]: the status finish is about to write
    orphaned,     \* <<job, tenant>> with a 'Running' row nobody will finish
    crashes, errors, overruns

lockVars == <<until, lockedBy>>
runVars  == <<row, outcome, verdict, orphaned>>
vars == <<lockVars, pc, job, tenant, lease, runVars, crashes, errors, overruns>>

Job == 1..NumJobs
TerminalStatus == {"Success", "Partial", "Failed"}
\* Stages of an instance that holds, or believes it holds, the lock.
RunStage == {"list", "start", "handle", "finish", "finishFailed", "release"}
Stage == RunStage \cup {"idle", "acquire", "down"}

Running(i) == pc[i] \in RunStage
Runners(j) == {i \in Instance : Running(i) /\ job[i] = j}

TypeOK ==
    /\ until \in [Job -> 0..Ttl]
    /\ lockedBy \in [Job -> Instance]
    /\ pc \in [Instance -> Stage]
    /\ job \in [Instance -> Job]
    /\ tenant \in [Instance -> Nat]
    /\ lease \in [Instance -> 0..Ttl]
    /\ row \in [Instance -> TerminalStatus \cup {"none", "Running"}]
    /\ outcome \in [Instance -> TerminalStatus \cup {"none", "threw"}]
    /\ verdict \in [Instance -> TerminalStatus]
    /\ orphaned \subseteq Job \X Nat
    /\ crashes \in 0..MaxCrashes
    /\ errors \in 0..MaxErrors
    /\ overruns \in 0..MaxOverruns

Init ==
    /\ until = [j \in Job |-> 0]
    /\ lockedBy \in [Job -> Instance]   \* no row yet: nobody reads it
    /\ pc = [i \in Instance |-> "idle"]
    /\ job = [i \in Instance |-> 1]
    /\ tenant = [i \in Instance |-> 1]
    /\ lease = [i \in Instance |-> 0]
    /\ row = [i \in Instance |-> "none"]
    /\ outcome = [i \in Instance |-> "none"]
    /\ verdict = [i \in Instance |-> "Failed"]
    /\ orphaned = {}
    /\ crashes = 0
    /\ errors = 0
    /\ overruns = 0

\* A statement fails; the answer may have been lost after it was applied.
Fails == errors < MaxErrors /\ errors' = errors + 1
Succeeds == errors' = errors

-----------------------------------------------------------------------------
(* WorkerSchedulerService *)

\* tick: the timer fires; while a round of this instance runs it is ignored.
StartsAtZero(i) ==
    /\ pc[i] = "idle"
    /\ pc' = [pc EXCEPT ![i] = "acquire"]
    /\ job' = [job EXCEPT ![i] = 0]
    /\ UNCHANGED <<lockVars, tenant, lease, runVars, crashes, errors, overruns>>
StartRound(i) ==
    /\ pc[i] = "idle"
    /\ pc' = [pc EXCEPT ![i] = "acquire"]
    /\ job' = [job EXCEPT ![i] = 1]
    /\ UNCHANGED <<lockVars, tenant, lease, runVars, crashes, errors, overruns>>

\* runSystemJobs: runJob returned or threw, the next handler has its turn.
NextJob(i) ==
    /\ lease' = [lease EXCEPT ![i] = 0]
    /\ \/ /\ job[i] < NumJobs
          /\ job' = [job EXCEPT ![i] = @ + 1]
          /\ pc' = [pc EXCEPT ![i] = "acquire"]
       \/ /\ job[i] = NumJobs
          /\ job' = job
          /\ pc' = [pc EXCEPT ![i] = "idle"]

-----------------------------------------------------------------------------
(* JobLockService *)

\* acquire: insert the row, or take it over when locked_until < now().
ExpiresEarly(j) == until[j] <= 1
Expired(j) == until[j] = 0

TakeLock(i) ==
    /\ Expired(job[i])
    /\ until' = [until EXCEPT ![job[i]] = Ttl]
    /\ lockedBy' = [lockedBy EXCEPT ![job[i]] = i]

Acquire(i) ==
    /\ pc[i] = "acquire"
    /\ TakeLock(i)
    /\ lease' = [lease EXCEPT ![i] = Ttl]
    /\ pc' = [pc EXCEPT ![i] = "list"]
    /\ UNCHANGED <<job, tenant, runVars, crashes, errors, overruns>>

\* No row came back: skipped.
Skip(i) ==
    /\ pc[i] = "acquire"
    /\ ~Expired(job[i])
    /\ NextJob(i)
    /\ UNCHANGED <<lockVars, tenant, runVars, crashes, errors, overruns>>

\* acquire throws out of runJob before its try block: nothing is released.
AcquireError(i) ==
    /\ pc[i] = "acquire"
    /\ Fails
    /\ NextJob(i)
    /\ TakeLock(i) \/ UNCHANGED lockVars
    /\ UNCHANGED <<tenant, runVars, crashes, overruns>>

\* release: locked_until goes to the past, whoever holds the row.
KeepsLock(i) == UNCHANGED lockVars
FreeLock(i) ==
    /\ until' = [until EXCEPT ![job[i]] = 0]
    /\ lockedBy' = lockedBy

\* The finally block of runJob; a failing release is logged and swallowed.
Release(i) ==
    /\ pc[i] = "release"
    /\ \/ Succeeds /\ FreeLock(i)
       \/ Fails /\ (FreeLock(i) \/ UNCHANGED lockVars)
    /\ NextJob(i)
    /\ UNCHANGED <<tenant, runVars, crashes, overruns>>

-----------------------------------------------------------------------------
(* JobRunner.runJob and runForTenant, JobRunLogger *)

\* enumerateCompanyIds, materialized before the first handler call.
List(i) ==
    /\ pc[i] = "list"
    /\ \/ /\ Succeeds
          /\ pc' = [pc EXCEPT ![i] = IF NumTenants > 0 THEN "start" ELSE "release"]
       \/ /\ Fails
          /\ pc' = [pc EXCEPT ![i] = "release"]
    /\ tenant' = [tenant EXCEPT ![i] = 1]
    /\ UNCHANGED <<lockVars, job, lease, runVars, crashes, overruns>>

\* JobRunLogger.start inserts a 'Running' row.
Start(i) ==
    /\ pc[i] = "start"
    /\ row' = [row EXCEPT ![i] = "Running"]
    /\ outcome' = [outcome EXCEPT ![i] = "none"]
    /\ pc' = [pc EXCEPT ![i] = "handle"]
    /\ UNCHANGED <<lockVars, job, tenant, lease, verdict, orphaned,
                   crashes, errors, overruns>>

\* start is outside the try block of runForTenant: its error ends the run.
StartError(i) ==
    /\ pc[i] = "start"
    /\ Fails
    /\ orphaned' \in {orphaned, orphaned \cup {<<job[i], tenant[i]>>}}
    /\ pc' = [pc EXCEPT ![i] = "release"]
    /\ UNCHANGED <<lockVars, job, tenant, lease, row, outcome, verdict,
                   crashes, overruns>>

\* handler.run returns its counts, from which deriveStatus makes a status.
HandlerReturns(i) ==
    /\ pc[i] = "handle"
    /\ \E s \in TerminalStatus :
          /\ outcome' = [outcome EXCEPT ![i] = s]
          /\ verdict' = [verdict EXCEPT ![i] = s]
    /\ pc' = [pc EXCEPT ![i] = "finish"]
    /\ UNCHANGED <<lockVars, job, tenant, lease, row, orphaned,
                   crashes, errors, overruns>>

ThrowEndsRun(i) ==
    /\ pc[i] = "handle"
    /\ outcome' = [outcome EXCEPT ![i] = "threw"]
    /\ row' = [row EXCEPT ![i] = "Failed"]
    /\ pc' = [pc EXCEPT ![i] = "release"]
    /\ UNCHANGED <<lockVars, job, tenant, lease, verdict, orphaned,
                   crashes, errors, overruns>>
ThrowKeepsVerdict(i) ==
    /\ pc[i] = "handle"
    /\ outcome' = [outcome EXCEPT ![i] = "threw"]
    /\ pc' = [pc EXCEPT ![i] = "finishFailed"]
    /\ UNCHANGED <<lockVars, job, tenant, lease, row, verdict, orphaned,
                   crashes, errors, overruns>>
HandlerThrows(i) ==
    /\ pc[i] = "handle"
    /\ outcome' = [outcome EXCEPT ![i] = "threw"]
    /\ verdict' = [verdict EXCEPT ![i] = "Failed"]
    /\ pc' = [pc EXCEPT ![i] = "finishFailed"]
    /\ UNCHANGED <<lockVars, job, tenant, lease, row, orphaned,
                   crashes, errors, overruns>>

\* UPDATE ... WHERE id = runId AND status = 'Running'.
FinishAnyRow(i) == row' = [row EXCEPT ![i] = verdict[i]]
FinishRow(i) ==
    row' = [row EXCEPT ![i] = IF @ = "Running" THEN verdict[i] ELSE @]

NextTenant(i) ==
    \/ /\ tenant[i] < NumTenants
       /\ tenant' = [tenant EXCEPT ![i] = @ + 1]
       /\ pc' = [pc EXCEPT ![i] = "start"]
    \/ /\ tenant[i] >= NumTenants
       /\ tenant' = tenant
       /\ pc' = [pc EXCEPT ![i] = "release"]

\* finish in the try block; when it throws, the catch block finishes again.
Finish(i) ==
    /\ pc[i] = "finish"
    /\ \/ Succeeds /\ FinishRow(i) /\ NextTenant(i) /\ verdict' = verdict
       \/ /\ Fails
          /\ FinishRow(i) \/ row' = row
          /\ verdict' = [verdict EXCEPT ![i] = "Failed"]
          /\ pc' = [pc EXCEPT ![i] = "finishFailed"]
          /\ tenant' = tenant
    /\ UNCHANGED <<lockVars, job, lease, outcome, orphaned, crashes, overruns>>

\* finish('Failed') in the catch block; its own error is logged only.
CatchOnlyLogs(i) ==
    /\ pc[i] = "finishFailed"
    /\ NextTenant(i)
    /\ orphaned' = orphaned \cup {<<job[i], tenant[i]>>}
    /\ UNCHANGED <<lockVars, job, lease, row, outcome, verdict,
                   crashes, errors, overruns>>
FinishFailed(i) ==
    /\ pc[i] = "finishFailed"
    /\ \/ Succeeds /\ FinishRow(i)
       \/ Fails /\ (FinishRow(i) \/ row' = row)
    /\ NextTenant(i)
    /\ orphaned' = IF row'[i] = "Running"
                   THEN orphaned \cup {<<job[i], tenant[i]>>} ELSE orphaned
    /\ UNCHANGED <<lockVars, job, lease, outcome, verdict, crashes, overruns>>

-----------------------------------------------------------------------------
(* The environment *)

Crash(i) ==
    /\ pc[i] # "down"
    /\ crashes < MaxCrashes
    /\ crashes' = crashes + 1
    /\ orphaned' = IF pc[i] \in {"handle", "finish", "finishFailed"}
                      /\ row[i] = "Running"
                   THEN orphaned \cup {<<job[i], tenant[i]>>} ELSE orphaned
    /\ pc' = [pc EXCEPT ![i] = "down"]
    /\ lease' = [lease EXCEPT ![i] = 0]
    /\ UNCHANGED <<lockVars, job, tenant, row, outcome, verdict, errors, overruns>>

Restart(i) ==
    /\ pc[i] = "down"
    /\ pc' = [pc EXCEPT ![i] = "idle"]
    /\ UNCHANGED <<lockVars, job, tenant, lease, runVars, crashes, errors, overruns>>

Decrement(n) == IF n > 0 THEN n - 1 ELSE 0

\* Instances whose lease ends with the next clock tick while they run.
Late == {i \in Instance : Running(i) /\ lease[i] = 1}

Clock ==
    /\ \/ Late = {} /\ overruns' = overruns
       \/ Late # {} /\ overruns < MaxOverruns /\ overruns' = overruns + 1
    /\ until' = [j \in Job |-> Decrement(until[j])]
    /\ lease' = [i \in Instance |-> Decrement(lease[i])]
    /\ UNCHANGED <<lockedBy, pc, job, tenant, runVars, crashes, errors>>

\* What an instance does by itself.
Step(i) ==
    \/ StartRound(i) \/ Acquire(i) \/ Skip(i) \/ AcquireError(i) \/ Release(i)
    \/ List(i) \/ Start(i) \/ StartError(i) \/ HandlerReturns(i)
    \/ HandlerThrows(i) \/ Finish(i) \/ FinishFailed(i)

Next == Clock \/ \E i \in Instance : Step(i) \/ Crash(i) \/ Restart(i)

\* Timers fire, calls return, and a dead instance is started again.
Fairness ==
    /\ WF_vars(Clock)
    /\ \A i \in Instance : WF_vars(Step(i)) /\ WF_vars(Restart(i))

Spec == Init /\ [][Next]_vars /\ Fairness

-----------------------------------------------------------------------------
(* Properties *)

\* While every run ends within its TTL no job is run by two instances at
\* once (JobLockService: a job does not run twice between instances).
SingleActive ==
    \A i, k \in Instance :
        i # k /\ Running(i) /\ Running(k) => job[i] # job[k]

\* Two instances run a job at the same time only after an overrun, and each
\* overrun admits one more: release without an owner check cannot make the
\* number of concurrent runs grow by itself.
OverlapIsPaidFor ==
    \A j \in Job :
        Cardinality(Runners(j)) <= overruns + (IF until[j] > 0 THEN 1 ELSE 0)

\* A lock row in force belongs to a run in progress, unless an instance died
\* or a statement failed: no tick is skipped for a run that is over.
LockedForAReason ==
    \A j \in Job :
        until[j] > 0 => Runners(j) # {} \/ crashes + errors > 0

\* A system_job_runs row that reached a terminal status keeps it until the
\* instance starts another run: finish is done once, although the catch block
\* may call it a second time after the answer of the first was lost.
RunStatusIsFinal ==
    [][\A i \in Instance :
          row[i] \in TerminalStatus /\ row'[i] # row[i] => pc[i] = "start"]_vars

\* The recorded status is what the handler did: success is recorded only for
\* a handler that returned it, and a failure that did not happen only after a
\* statement failed.
RowIsTruthful ==
    \A i \in Instance : row[i] \in TerminalStatus =>
        \/ row[i] = outcome[i]
        \/ row[i] = "Failed" /\ (outcome[i] = "threw" \/ errors > 0)

\* A row stays 'Running' without an instance working on it only after an
\* instance died or a statement failed.
NoForgottenRun ==
    crashes + errors = 0 =>
        /\ orphaned = {}
        /\ \A i \in Instance : row[i] = "Running" =>
               pc[i] \in {"handle", "finish", "finishFailed"}

\* Every job is run for every tenant again and again: handlers that throw,
\* crashed lock holders, lost answers and skipped ticks do not starve a tenant.
Serves(j, t) ==
    \E i \in Instance :
        job[i] = j /\ tenant[i] = t /\ (HandlerReturns(i) \/ HandlerThrows(i))
EveryTenantIsServed ==
    \A j \in Job, t \in 1..NumTenants : []<><<Serves(j, t)>>_vars

\* A run that is still within its own lease is alone with the job
\* (S6-LEAVE-ACCRUAL-1: one instance runs at a time).
FreshRunsExclude ==
    \A i, k \in Instance :
        i # k /\ Running(i) /\ Running(k) /\ lease[i] > 0 /\ lease[k] > 0
            => job[i] # job[k]
=============================================================================
