-------------------------- MODULE SequenceCounter --------------------------
(***************************************************************************)
(* One counter of sequence_counters (SequenceService) and the callers that *)
(* create, use and configure it: requests that allocate a code with        *)
(* ensure-on-miss (HrWriteService.allocateEmployeeCode and its mirrors),   *)
(* PATCHes of the employee-code config that are synchronised into the      *)
(* counter (EmployeeCodeConfigService.updateConfig), and direct edits of   *)
(* the counter (SequenceService.updateSequence).                           *)
(*                                                                         *)
(* A step is one statement of a transaction under READ COMMITTED: a plain  *)
(* read sees the committed row, and FOR UPDATE, UPDATE and INSERT wait     *)
(* until nobody else holds the row.                                        *)
(*                                                                         *)
(* Prefix, suffix, date pattern and padding are one Format.  For a given   *)
(* format the rendered code determines the number, because the number is   *)
(* never cut, and the period, because a counter that is reset renders its  *)
(* period (in digits of fixed width).                                      *)
(***************************************************************************)
EXTENDS Naturals, FiniteSets

CONSTANTS
    Request,       \* calls that allocate one code each
    Admin,         \* PATCHes of the employee-code config
    Format,        \* renderings an admin may configure
    Increment,     \* values of increment_by an admin may configure
    Start,         \* kinds of counter a behaviour may start with, see below
    MaxPeriod,     \* last period of the reset policy
    MaxStraddles,  \* how often a period may end under a waiting request
    MaxEdits,      \* direct edits of the counter
    MaxAborts      \* transactions that fail or lose their connection

ASSUME SequenceCounterAssumption ==
    /\ Request \cap Admin = {}
    /\ Format # {}
    /\ Increment \subseteq Nat \ {0} /\ 1 \in Increment
    /\ Start \subseteq {"missing", "plain", "periodic"}
    /\ MaxPeriod \in Nat /\ MaxStraddles \in Nat
    /\ MaxEdits \in Nat /\ MaxAborts \in Nat

VARIABLES
    start,        \* what the counter was like before the first request
    clock,        \* the current period, in the company's time zone
    exists,       \* the counter row is committed
    counter,      \* the committed row
    config,       \* the committed row of employee_code_configs
    rowLock,      \* transactions that hold the counter row (at most one)
    configLock,   \* transactions that hold the config row
    pc,           \* the next statement of each caller
    row,          \* row[r]: the counter as r has read it
    asked,        \* asked[r]: the period of `now`, read before the transaction
    tries,        \* tries[r]: calls of nextCode so far
    draft,        \* draft[p]: the config p is about to write, or has read
    issued,       \* issued[r]: the code returned to r
    straddles, edits, aborts

callVars == <<row, asked, tries, issued>>
vars == <<start, clock, exists, counter, config, rowLock, configLock, pc, callVars,
          draft, straddles, edits, aborts>>

\* The counter exists, and its reset_policy is not 'Never'.  What is provisioned
\* on a miss is 'Never'; nothing here changes the policy afterwards.
Seeded == start # "missing"
Periodic == start = "periodic"

Proc == Request \cup Admin
Period == 0..MaxPeriod
Config == [fmt: Format, active: BOOLEAN]
Counter == [fmt: Format, active: BOOLEAN, inc: Increment, value: Nat, reset: Period]
Row == [inc: Increment, value: Nat, reset: Period]
NoCode == [date |-> 0, value |-> 0]

\* Stages inside a transaction.
TxStage == {"write", "find", "insert", "commitInsert", "findRow",
            "updateRow", "commitUpdate", "commit"}
Ended == {"served", "inactive", "notFound", "failed", "done"}
Stage == {"new", "lock", "readConfig"} \cup TxStage \cup Ended

TypeOK ==
    /\ start \in Start
    /\ clock \in Period
    /\ exists \in BOOLEAN
    /\ counter \in Counter
    /\ config \in Config
    /\ rowLock \subseteq Proc
    /\ configLock \subseteq Admin
    /\ pc \in [Proc -> Stage]
    /\ row \in [Request -> Row]
    /\ asked \in [Request -> Period]
    /\ tries \in [Request -> 0..2]
    /\ draft \in [Proc -> Config]
    /\ issued \in [Request -> [date: Period, value: Nat]]
    /\ straddles \in 0..MaxStraddles
    /\ edits \in 0..MaxEdits
    /\ aborts \in 0..MaxAborts

\* The row that ensureCounterTx inserts.  Its last_reset_at is NULL, which
\* gives the same numbers as a reset in period 0.
NewCounter(c) ==
    [fmt |-> c.fmt, active |-> c.active, inc |-> 1, value |-> 0, reset |-> 0]

Init ==
    /\ start \in Start
    /\ clock = 0
    /\ exists = Seeded
    /\ config \in Config
    /\ counter = NewCounter(config)
    /\ rowLock = {} /\ configLock = {}
    /\ pc = [p \in Proc |-> "new"]
    /\ row = [r \in Request |-> [inc |-> 1, value |-> 0, reset |-> 0]]
    /\ asked = [r \in Request |-> 0]
    /\ tries = [r \in Request |-> 0]
    /\ draft = [p \in Proc |-> config]
    /\ issued = [r \in Request |-> NoCode]
    /\ straddles = 0 /\ edits = 0 /\ aborts = 0

Goto(p, stage) == pc' = [pc EXCEPT ![p] = stage]
env == <<start, straddles, edits, aborts>>

-----------------------------------------------------------------------------
(* SequenceService.nextCode *)

\* `now` is taken first; the transaction is opened and waits afterwards.
NextCode(r) ==
    /\ pc[r] = "new"
    /\ asked' = [asked EXCEPT ![r] = clock]
    /\ tries' = [tries EXCEPT ![r] = @ + 1]
    /\ Goto(r, "lock")
    /\ UNCHANGED <<clock, exists, counter, config, rowLock, configLock, row,
                   draft, issued, env>>

\* lockCounterForUpdateTx: wait for the row, then look at its status.
\* (ReadsWithoutLock drops FOR UPDATE; PollsWhenInactive waits until
\* the counter is active again.)
Read(r) ==
    row' = [row EXCEPT ![r] = [inc |-> counter.inc, value |-> counter.value,
                               reset |-> counter.reset]]
ReadsWithoutLock(r) ==
    /\ pc[r] = "lock"
    /\ exists
    /\ Read(r)
    /\ Goto(r, IF counter.active THEN "write" ELSE "inactive")
    /\ UNCHANGED <<clock, exists, counter, config, rowLock, configLock, asked,
                   tries, issued, draft, env>>
PollsWhenInactive(r) ==
    /\ pc[r] = "lock"
    /\ exists
    /\ rowLock = {}
    /\ IF counter.active
       THEN Read(r) /\ Goto(r, "write") /\ rowLock' = {r}
       ELSE UNCHANGED <<row, pc, rowLock>>
    /\ UNCHANGED <<clock, exists, counter, config, configLock, asked, tries,
                   issued, draft, env>>
LockRow(r) ==
    /\ pc[r] = "lock"
    /\ exists
    /\ rowLock = {}
    /\ Read(r)
    /\ IF counter.active
       THEN Goto(r, "write") /\ rowLock' = {r}
       ELSE Goto(r, "inactive") /\ rowLock' = rowLock
    /\ UNCHANGED <<clock, exists, counter, config, configLock, asked, tries,
                   issued, draft, env>>

\* SequenceNotFoundError: provision once, give up the second time.
\* (RetriesAtOnce calls nextCode again without either.)
RetriesAtOnce(r) ==
    /\ pc[r] = "lock"
    /\ ~exists
    /\ Goto(r, "new")
    /\ UNCHANGED <<clock, exists, counter, config, rowLock, configLock,
                   callVars, draft, env>>
RowMissing(r) ==
    /\ pc[r] = "lock"
    /\ ~exists
    /\ Goto(r, IF tries[r] = 1 THEN "readConfig" ELSE "notFound")
    /\ UNCHANGED <<clock, exists, counter, config, rowLock, configLock,
                   callVars, draft, env>>

\* computeNextValue: a counter whose last reset was in another period starts
\* again from the increment.  (StartsAgain has the comparison the wrong
\* way round.)
StartsAgain(r) == Periodic /\ row[r].reset = asked[r]
StartsPeriod(r) == Periodic /\ row[r].reset # asked[r]
NextValue(r) ==
    IF StartsPeriod(r) THEN row[r].inc ELSE row[r].value + row[r].inc
CodeDate(r) == IF Periodic THEN asked[r] ELSE 0

\* updateCounterValueTx and commit.
WriteValue(r) ==
    /\ pc[r] = "write"
    /\ counter' = [counter EXCEPT !.value = NextValue(r),
                                  !.reset = IF StartsPeriod(r) THEN asked[r] ELSE @]
    /\ issued' = [issued EXCEPT ![r] = [date |-> CodeDate(r), value |-> NextValue(r)]]
    /\ rowLock' = rowLock \ {r}
    /\ Goto(r, "served")
    /\ UNCHANGED <<clock, exists, config, configLock, row, asked, tries, draft,
                   env>>

-----------------------------------------------------------------------------
(* ensureCounterTx, called by a request that missed the counter and by a    *)
(* PATCH that found none.                                                   *)

\* ensureEmployeeCodeCounterFromConfig reads the committed config.
ReadConfig(r) ==
    /\ pc[r] = "readConfig"
    /\ draft' = [draft EXCEPT ![r] = config]
    /\ Goto(r, "find")
    /\ UNCHANGED <<clock, exists, counter, config, rowLock, configLock,
                   callVars, env>>

\* Where ensureCounterTx returns to: a request tries nextCode once more, a
\* PATCH goes on to its commit.
AfterEnsure(p) == IF p \in Request THEN "new" ELSE "commit"

\* findCounterTx: an existing row is left as it is.
FindCounter(p) ==
    /\ pc[p] = "find"
    /\ Goto(p, IF exists THEN AfterEnsure(p) ELSE "insert")
    /\ UNCHANGED <<clock, exists, counter, config, rowLock, configLock,
                   callVars, draft, env>>

\* (InsertGivesWay does not wait for the transaction it conflicts with.)
InsertGivesWay(p) ==
    /\ pc[p] = "insert"
    /\ IF exists \/ rowLock # {}
       THEN Goto(p, AfterEnsure(p)) /\ rowLock' = rowLock
       ELSE Goto(p, "commitInsert") /\ rowLock' = {p}
    /\ UNCHANGED <<clock, exists, counter, config, configLock, callVars, draft,
                   env>>

\* INSERT within the savepoint, which waits for a concurrent insert; on a
\* unique violation the row that won is read again and left as it is.
InsertRow(p) ==
    /\ pc[p] = "insert"
    /\ rowLock = {}
    /\ IF exists
       THEN Goto(p, AfterEnsure(p)) /\ rowLock' = rowLock
       ELSE Goto(p, "commitInsert") /\ rowLock' = {p}
    /\ UNCHANGED <<clock, exists, counter, config, configLock, callVars, draft,
                   env>>

-----------------------------------------------------------------------------
(* Ends of transactions *)

\* A request commits the row it provisioned and calls nextCode again.
CommitEnsure(r) ==
    /\ pc[r] = "commitInsert"
    /\ exists' = TRUE
    /\ counter' = NewCounter(draft[r])
    /\ rowLock' = rowLock \ {r}
    /\ Goto(r, "new")
    /\ UNCHANGED <<clock, config, configLock, callVars, draft, env>>

\* A PATCH commits its config row together with what it did to the counter.
\* (CommitsFormatOnly forgets the status.)
CommitsFormatOnly(a) ==
    /\ pc[a] \in {"commitInsert", "commitUpdate", "commit"}
    /\ exists' = (exists \/ pc[a] = "commitInsert")
    /\ counter' = [counter EXCEPT !.fmt = draft[a].fmt]
    /\ config' = draft[a]
    /\ rowLock' = rowLock \ {a}
    /\ configLock' = configLock \ {a}
    /\ Goto(a, "done")
    /\ UNCHANGED <<clock, callVars, draft, env>>
CommitPatch(a) ==
    /\ \/ /\ pc[a] = "commitInsert"
          /\ exists' = TRUE
          /\ counter' = NewCounter(draft[a])
       \/ /\ pc[a] = "commitUpdate"
          /\ counter' = [counter EXCEPT !.fmt = draft[a].fmt,
                                        !.active = draft[a].active]
          /\ exists' = exists
       \/ /\ pc[a] = "commit"
          /\ UNCHANGED <<exists, counter>>
    /\ config' = draft[a]
    /\ rowLock' = rowLock \ {a}
    /\ configLock' = configLock \ {a}
    /\ Goto(a, "done")
    /\ UNCHANGED <<clock, callVars, draft, env>>

\* An error or a lost connection rolls the transaction back.
Abort(p) ==
    /\ pc[p] \in TxStage
    /\ aborts < MaxAborts
    /\ aborts' = aborts + 1
    /\ rowLock' = rowLock \ {p}
    /\ configLock' = configLock \ {p}
    /\ Goto(p, "failed")
    /\ UNCHANGED <<start, clock, exists, counter, config, callVars, draft,
                   straddles, edits>>

-----------------------------------------------------------------------------
(* EmployeeCodeConfigService.updateConfig and syncCounterConfigTx *)

\* UPDATE of the config row; the new values are visible to others at commit.
PatchConfig(a) ==
    /\ pc[a] = "new"
    /\ configLock = {}
    /\ configLock' = {a}
    /\ \E c \in Config : draft' = [draft EXCEPT ![a] = c]
    /\ Goto(a, "findRow")
    /\ UNCHANGED <<clock, exists, counter, config, rowLock, callVars, env>>

\* The first read of syncCounterConfigTx decides between update and ensure.
SyncCounter(a) ==
    /\ pc[a] = "findRow"
    /\ Goto(a, IF exists THEN "updateRow" ELSE "find")
    /\ UNCHANGED <<clock, exists, counter, config, rowLock, configLock,
                   callVars, draft, env>>

\* updateConfigTx: prefix, padding and status only; the number is kept.
\* (UpdatesWithoutWaiting does not take the row.)
UpdatesWithoutWaiting(a) ==
    /\ pc[a] = "updateRow"
    /\ Goto(a, "commitUpdate")
    /\ UNCHANGED <<clock, exists, counter, config, rowLock, configLock,
                   callVars, draft, env>>
UpdateRow(a) ==
    /\ pc[a] = "updateRow"
    /\ rowLock = {}
    /\ rowLock' = {a}
    /\ Goto(a, "commitUpdate")
    /\ UNCHANGED <<clock, exists, counter, config, configLock, callVars, draft,
                   env>>

\* SequenceService.updateSequence: a direct edit of the counter.
UpdateSequence ==
    /\ exists
    /\ rowLock = {}
    /\ edits < MaxEdits
    /\ edits' = edits + 1
    /\ \E c \in Config, n \in Increment :
          counter' = [counter EXCEPT !.fmt = c.fmt, !.active = c.active, !.inc = n]
    /\ UNCHANGED <<clock, exists, config, rowLock, configLock, pc, callVars,
                   draft, start, straddles, aborts>>

-----------------------------------------------------------------------------
\* Requests between reading `now` and their commit.
Waiting == {r \in Request : pc[r] \in {"lock", "write"}}

NextPeriod ==
    /\ clock < MaxPeriod
    /\ clock' = clock + 1
    /\ \/ Waiting = {} /\ straddles' = straddles
       \/ Waiting # {} /\ straddles < MaxStraddles /\ straddles' = straddles + 1
    /\ UNCHANGED <<exists, counter, config, rowLock, configLock, pc, callVars,
                   draft, start, edits, aborts>>

RequestStep(r) ==
    \/ NextCode(r) \/ LockRow(r) \/ RowMissing(r) \/ WriteValue(r)
    \/ ReadConfig(r) \/ FindCounter(r) \/ InsertRow(r) \/ CommitEnsure(r)

AdminStep(a) ==
    \/ PatchConfig(a) \/ SyncCounter(a) \/ UpdateRow(a)
    \/ FindCounter(a) \/ InsertRow(a) \/ CommitPatch(a)

AllEnded == \A p \in Proc : pc[p] \in Ended

Next ==
    \/ NextPeriod
    \/ UpdateSequence
    \/ \E r \in Request : RequestStep(r)
    \/ \E a \in Admin : AdminStep(a)
    \/ \E p \in Proc : Abort(p)
    \/ AllEnded /\ UNCHANGED vars   \* every call has been answered

\* The server answers every call it has accepted.
Fairness ==
    /\ \A r \in Request : WF_vars(RequestStep(r))
    /\ \A a \in Admin : WF_vars(AdminStep(a))

Spec == Init /\ [][Next]_vars /\ Fairness

-----------------------------------------------------------------------------
(* Properties *)

Served(r) == pc[r] = "served"

\* No two requests get the same number of the same period (SequenceService:
\* N concurrent requests, 0 duplicate codes).
NoDuplicateCode ==
    \A r, s \in Request :
        r # s /\ Served(r) /\ Served(s) => issued[r] # issued[s]

\* Provisioning and retrying once is enough: no request is told that the
\* counter is missing, whoever provisions it at the same time.
EnsureIsEnough == \A r \in Request : pc[r] # "notFound"

\* A request never takes a number from a counter that has been switched off,
\* not even when that happens between its lock and its commit.
NoCodeFromInactive ==
    [][\A r \in Request : issued'[r] # issued[r] => exists /\ counter.active]_vars

\* Between PATCHes the counter renders what the config says: the sync writes
\* both or neither.
CounterFollowsConfig ==
    configLock = {} /\ exists =>
        counter.fmt = config.fmt /\ counter.active = config.active

\* It does so for every counter that exists before its first PATCH and is
\* edited through the config only.
SeededFollowsConfig == Seeded /\ edits = 0 => CounterFollowsConfig

\* Every allocation and every PATCH is answered: waiting for the config row
\* and for the counter row never turns into waiting in a circle.
EveryCallEnds == \A p \in Proc : <>(pc[p] \in Ended)
=============================================================================
