------------------------------- MODULE Outbox -------------------------------
(***************************************************************************)
(* The transactional outbox of the API: OutboxService.enqueue writes an    *)
(* event in the business transaction, and the OutboxWorker of every        *)
(* running instance reaps, claims and dispatches events to the consumers   *)
(* the EventBus registers for the event's type.                            *)
(*                                                                         *)
(* One step is one SQL statement or one consumer call, because nothing     *)
(* else separates the interleavings of two instances: processBatch runs    *)
(* outside any transaction.                                                *)
(*                                                                         *)
(* Time is kept as ages: a row that is being processed grows older with    *)
(* every Tick and is stale at StaleAfter; a row put back for a retry waits *)
(* Backoff ticks.  A Tick that would make a row stale while a live worker  *)
(* still holds it is a stall; MaxStalls bounds their number, and           *)
(* MaxStalls = 0 says that every batch is done within the reaper's limit.  *)
(* The order within a batch (available_at, created_at, id) is abstracted:  *)
(* a batch is any set of claimable events of the right size, dispatched    *)
(* in any order.                                                           *)
(***************************************************************************)
EXTENDS Naturals, FiniteSets

CONSTANTS
    Event,        \* outbox events that may be enqueued
    Consumer,     \* consumer names known to the EventBus
    Worker,       \* API instances running the outbox tick
    Subs,         \* Subs[e]: the consumers registered for the type of e
    Rank,         \* Rank[c]: when c registered; the EventBus keeps that order
    MaxAttempts,  \* OutboxWorker.MAX_ATTEMPTS (5 in the code)
    BatchSize,    \* batchSize of processBatch (20 in the code)
    StaleAfter,   \* STALE_PROCESSING_MS in ticks
    Backoff,      \* RETRY_BACKOFF_MS in ticks
    MaxCrashes,   \* how often an instance may die or abandon a batch
    MaxStalls,    \* how often a batch may outlive StaleAfter
    MaxSinkErrors \* how many alerts may throw in the sink

ASSUME SubsAssumption ==
    /\ Event # {}
    /\ Consumer # {}
    /\ Subs \in [Event -> SUBSET Consumer]
    /\ Rank \in [Consumer -> Nat]
ASSUME LimitsAssumption ==
    /\ MaxAttempts \in Nat \ {0}
    /\ BatchSize \in Nat \ {0}
    /\ StaleAfter \in Nat \ {0}
    /\ Backoff \in Nat
    /\ MaxCrashes \in Nat
    /\ MaxStalls \in Nat
    /\ MaxSinkErrors \in Nat

VARIABLES
    \* rows of outbox_events
    status,       \* status[e]; "absent" until the business transaction commits
    attempts,     \* attempts[e]
    age,          \* now() - updated_at of a row being processed, in ticks
    backoff,      \* available_at - now() of a pending row, in ticks
    \* rows of processed_events, dead_letter_events
    processed,
    dead,
    \* local state of processBatch of each instance
    pc,
    batch,        \* claimed events not yet dispatched, with the attempts read
    cur,          \* the claimed event being dispatched
    todo,         \* its consumers not yet visited
    cons,         \* the consumer being served
    allOk,
    \* what the outside world has seen
    handled,      \* handled[e, c]: completed calls of consumer.handle
    failures,     \* failures[e, c]: failed visits, up to MaxAttempts
    alerted,      \* dead letters reported to the alert sink
    logged,       \* dead letters whose alert threw and was only logged
    \* budgets
    crashes,
    stalls

rowVars  == <<status, attempts, age, backoff>>
jobVars  == <<pc, batch, cur, todo, cons, allOk>>
seenVars == <<handled, failures, alerted, logged>>
vars == <<rowVars, processed, dead, jobVars, seenVars, crashes, stalls>>

Pair == Event \X Consumer
Status == {"absent", "pending", "processing", "done", "failed"}
PC == {"idle", "claim", "pick", "scan", "handle", "mark", "bury", "alert",
       "markDead"}
Claim == [ev: Event, attempts: 0..(MaxAttempts - 1)]

NoConsumer == CHOOSE c \in Consumer : TRUE
NoClaim == [ev |-> CHOOSE e \in Event : TRUE, attempts |-> 0]

TypeOK ==
    /\ status \in [Event -> Status]
    /\ attempts \in [Event -> 0..MaxAttempts]
    /\ age \in [Event -> 0..StaleAfter]
    /\ backoff \in [Event -> 0..Backoff]
    /\ processed \subseteq Pair
    /\ dead \subseteq Pair
    /\ pc \in [Worker -> PC]
    /\ batch \in [Worker -> SUBSET Claim]
    /\ cur \in [Worker -> Claim]
    /\ todo \in [Worker -> SUBSET Consumer]
    /\ cons \in [Worker -> Consumer]
    /\ allOk \in [Worker -> BOOLEAN]
    /\ handled \in [Pair -> Nat]
    /\ failures \in [Pair -> 0..MaxAttempts]
    /\ alerted \subseteq Pair
    /\ logged \subseteq Pair
    /\ crashes \in 0..MaxCrashes
    /\ stalls \in 0..MaxStalls

Init ==
    /\ status = [e \in Event |-> "absent"]
    /\ attempts = [e \in Event |-> 0]
    /\ age = [e \in Event |-> 0]
    /\ backoff = [e \in Event |-> 0]
    /\ processed = {}
    /\ dead = {}
    /\ pc = [w \in Worker |-> "idle"]
    /\ batch = [w \in Worker |-> {}]
    /\ cur = [w \in Worker |-> NoClaim]
    /\ todo = [w \in Worker |-> {}]
    /\ cons = [w \in Worker |-> NoConsumer]
    /\ allOk = [w \in Worker |-> TRUE]
    /\ handled = [p \in Pair |-> 0]
    /\ failures = [p \in Pair |-> 0]
    /\ alerted = {}
    /\ logged = {}
    /\ crashes = 0
    /\ stalls = 0

-----------------------------------------------------------------------------
(* Producers and time. *)

\* The business transaction commits: its outbox row becomes visible.  A
\* rolled-back transaction leaves the event absent.
Enqueue(e) ==
    /\ status[e] = "absent"
    /\ status' = [status EXCEPT ![e] = "pending"]
    /\ UNCHANGED <<attempts, age, backoff, processed, dead, jobVars, seenVars,
                   crashes, stalls>>

\* The event a worker is dispatching, if any, and those it has claimed for later.
Dispatching(w) == IF pc[w] \in {"idle", "claim", "pick"} THEN {} ELSE {cur[w].ev}
Held(w) == Dispatching(w) \cup {k.ev : k \in batch[w]}

\* Rows that one more tick makes stale under a worker that still holds them.
Late == {e \in Event : /\ status[e] = "processing"
                       /\ age[e] + 1 = StaleAfter
                       /\ \E w \in Worker : e \in Held(w)}

Tick ==
    /\ \/ Late = {} /\ UNCHANGED stalls
       \/ Late # {} /\ stalls < MaxStalls /\ stalls' = stalls + 1
    /\ age' = [e \in Event |->
                 IF status[e] = "processing" /\ age[e] < StaleAfter
                 THEN age[e] + 1 ELSE age[e]]
    /\ backoff' = [e \in Event |-> IF backoff[e] > 0 THEN backoff[e] - 1 ELSE 0]
    /\ UNCHANGED <<status, attempts, processed, dead, jobVars, seenVars, crashes>>

-----------------------------------------------------------------------------
(* OutboxWorker.processBatch. *)

\* Faulty variants, for the mutation runs.
StaleAtAnyAge(e) == status[e] = "processing"
NeverStale(e) == FALSE

\* The reaper's WHERE clause.
IsStale(e) == status[e] = "processing" /\ age[e] = StaleAfter

\* The reaper: every row that has been 'processing' for too long is pending again.
Reap(w) ==
    /\ pc[w] = "idle"
    /\ LET stale == {e \in Event : IsStale(e)}
       IN /\ status' = [e \in Event |-> IF e \in stale THEN "pending" ELSE status[e]]
          /\ age' = [e \in Event |-> IF e \in stale THEN 0 ELSE age[e]]
    /\ pc' = [pc EXCEPT ![w] = "claim"]
    /\ UNCHANGED <<attempts, backoff, processed, dead, batch, cur, todo, cons, allOk,
                   seenVars, crashes, stalls>>

ClaimableUnlessDone == {e \in Event : status[e] \in {"pending", "failed"} /\ backoff[e] = 0}

Claimable == {e \in Event : status[e] = "pending" /\ backoff[e] = 0}

\* FOR UPDATE SKIP LOCKED ... LIMIT: as many claimable rows as fit the batch.
FullBatch(S) ==
    /\ S \subseteq Claimable
    /\ \/ S = Claimable /\ Cardinality(S) <= BatchSize
       \/ Cardinality(S) = BatchSize

ClaimBatch(w) ==
    /\ pc[w] = "claim"
    /\ \E S \in SUBSET Event :
         /\ FullBatch(S)
         /\ status' = [e \in Event |-> IF e \in S THEN "processing" ELSE status[e]]
         /\ age' = [e \in Event |-> IF e \in S THEN 0 ELSE age[e]]
         /\ batch' = [batch EXCEPT ![w] = {[ev |-> e, attempts |-> attempts[e]] : e \in S}]
         /\ pc' = [pc EXCEPT ![w] = IF S = {} THEN "idle" ELSE "pick"]
    /\ UNCHANGED <<attempts, backoff, processed, dead, cur, todo, cons, allOk, seenVars,
                   crashes, stalls>>

\* processEvent starts: the consumers are looked up.
PickEvent(w) ==
    /\ pc[w] = "pick"
    /\ \E k \in batch[w] :
         /\ batch' = [batch EXCEPT ![w] = @ \ {k}]
         /\ cur' = [cur EXCEPT ![w] = k]
         /\ todo' = [todo EXCEPT ![w] = Subs[k.ev]]
    /\ allOk' = [allOk EXCEPT ![w] = TRUE]
    /\ pc' = [pc EXCEPT ![w] = "scan"]
    /\ UNCHANGED <<rowVars, processed, dead, cons, seenVars, crashes, stalls>>

NothingIsProcessed(w, c) == FALSE

IsProcessed(w, c) == <<cur[w].ev, c>> \in processed

\* The next consumer in the order of registration: one already served is
\* skipped, another one is called.
VisitConsumer(w) ==
    /\ pc[w] = "scan"
    /\ \E c \in todo[w] :
         /\ \A d \in todo[w] : Rank[c] <= Rank[d]
         /\ todo' = [todo EXCEPT ![w] = @ \ {c}]
         /\ \/ /\ IsProcessed(w, c)
               /\ UNCHANGED <<pc, cons>>
            \/ /\ ~IsProcessed(w, c)
               /\ cons' = [cons EXCEPT ![w] = c]
               /\ pc' = [pc EXCEPT ![w] = "handle"]
    /\ UNCHANGED <<rowVars, processed, dead, batch, cur, allOk, seenVars, crashes, stalls>>

Serving(w) == <<cur[w].ev, cons[w]>>

HandleOk(w) ==
    /\ pc[w] = "handle"
    /\ handled' = [handled EXCEPT ![Serving(w)] = @ + 1]
    /\ pc' = [pc EXCEPT ![w] = "mark"]
    /\ UNCHANGED <<rowVars, processed, dead, batch, cur, todo, cons, allOk, failures,
                   alerted, logged, crashes, stalls>>

GivesUpLate(w) == cur[w].attempts + 1 > MaxAttempts
GivesUpEarly(w) == cur[w].attempts + 2 >= MaxAttempts

GivesUp(w) == cur[w].attempts + 1 >= MaxAttempts

MarksWithoutBurying(w) == IF GivesUp(w) THEN "markDead" ELSE "scan"

AfterCatch(w) == IF GivesUp(w) THEN "bury" ELSE "scan"

\* The catch of processEvent, for a throw of the handler or of markProcessed.
\* The INSERT of markProcessed may have committed with its answer lost: then the
\* row is there although the visit counts as failed.
CatchError(w) ==
    /\ pc[w] \in {"handle", "mark"}
    /\ \/ UNCHANGED processed
       \/ pc[w] = "mark" /\ processed' = processed \cup {Serving(w)}
    /\ allOk' = [allOk EXCEPT ![w] = FALSE]
    /\ failures' = [failures EXCEPT ![Serving(w)] = IF @ < MaxAttempts THEN @ + 1 ELSE @]
    /\ pc' = [pc EXCEPT ![w] = AfterCatch(w)]
    /\ UNCHANGED <<rowVars, dead, batch, cur, todo, cons, handled, alerted, logged,
                   crashes, stalls>>

\* INSERT INTO processed_events ... ON CONFLICT DO NOTHING.
MarkProcessed(w) ==
    /\ pc[w] \in {"mark", "markDead"}
    /\ processed' = processed \cup {Serving(w)}
    /\ pc' = [pc EXCEPT ![w] = "scan"]
    /\ UNCHANGED <<rowVars, dead, batch, cur, todo, cons, allOk, seenVars, crashes, stalls>>

AlertsOnConflict(w) ==
    /\ pc[w] = "bury"
    /\ dead' = dead \cup {Serving(w)}
    /\ pc' = [pc EXCEPT ![w] = IF Serving(w) \in dead THEN "alert" ELSE "markDead"]
    /\ UNCHANGED <<rowVars, processed, batch, cur, todo, cons, allOk, seenVars, crashes,
                   stalls>>

\* INSERT INTO dead_letter_events ... ON CONFLICT DO NOTHING: only the inserting
\* call goes on to the alert.
DeadLetter(w) ==
    /\ pc[w] = "bury"
    /\ dead' = dead \cup {Serving(w)}
    /\ pc' = [pc EXCEPT ![w] = IF Serving(w) \in dead THEN "markDead" ELSE "alert"]
    /\ UNCHANGED <<rowVars, processed, batch, cur, todo, cons, allOk, seenVars, crashes,
                   stalls>>

\* The sink is told once; if it throws, the catch logs the error and goes on.
Alert(w) ==
    /\ pc[w] = "alert"
    /\ \/ alerted' = alerted \cup {Serving(w)} /\ UNCHANGED logged
       \/ /\ Cardinality(logged) < MaxSinkErrors
          /\ logged' = logged \cup {Serving(w)}
          /\ UNCHANGED alerted
    /\ pc' = [pc EXCEPT ![w] = "markDead"]
    /\ UNCHANGED <<rowVars, processed, dead, batch, cur, todo, cons, allOk, handled,
                   failures, crashes, stalls>>

RetriesForEver(w) == ~allOk[w]

Retries(w) == ~allOk[w] /\ cur[w].attempts + 1 < MaxAttempts

\* finalizeStatus: an UPDATE by id alone, whatever the row holds by now.
Finalize(w) ==
    LET e == cur[w].ev
        next == cur[w].attempts + 1
    IN  /\ pc[w] = "scan"
        /\ todo[w] = {}
        /\ status' = [status EXCEPT ![e] = IF allOk[w] THEN "done"
                                           ELSE IF Retries(w) THEN "pending" ELSE "failed"]
        /\ attempts' = [attempts EXCEPT ![e] = IF allOk[w] THEN @ ELSE next]
        /\ age' = [age EXCEPT ![e] = 0]
        /\ backoff' = [backoff EXCEPT ![e] = IF Retries(w) THEN Backoff ELSE 0]
        /\ pc' = [pc EXCEPT ![w] = IF batch[w] = {} THEN "idle" ELSE "pick"]
        /\ cur' = [cur EXCEPT ![w] = NoClaim]
        /\ cons' = [cons EXCEPT ![w] = NoConsumer]
        /\ allOk' = [allOk EXCEPT ![w] = TRUE]
        /\ UNCHANGED <<processed, dead, batch, todo, seenVars, crashes, stalls>>

\* The instance dies, or a statement outside the try fails and the exception
\* leaves processBatch: the rest of the batch stays 'processing'.
Abandon(w) ==
    /\ pc[w] # "idle"
    /\ crashes < MaxCrashes
    /\ crashes' = crashes + 1
    /\ pc' = [pc EXCEPT ![w] = "idle"]
    /\ batch' = [batch EXCEPT ![w] = {}]
    /\ cur' = [cur EXCEPT ![w] = NoClaim]
    /\ todo' = [todo EXCEPT ![w] = {}]
    /\ cons' = [cons EXCEPT ![w] = NoConsumer]
    /\ allOk' = [allOk EXCEPT ![w] = TRUE]
    /\ UNCHANGED <<rowVars, processed, dead, seenVars, stalls>>

-----------------------------------------------------------------------------
ProcessBatch(w) ==
    \/ Reap(w) \/ ClaimBatch(w) \/ PickEvent(w) \/ VisitConsumer(w) \/ HandleOk(w)
    \/ CatchError(w) \/ MarkProcessed(w) \/ DeadLetter(w) \/ Alert(w) \/ Finalize(w)

Next ==
    \/ \E e \in Event : Enqueue(e)
    \/ Tick
    \/ \E w \in Worker : ProcessBatch(w) \/ Abandon(w)

Spec == Init /\ [][Next]_vars

\* The scheduler runs the tick of every instance again and again, a handler
\* returns or throws, and time passes.  Enqueue and Abandon are not fair.
FairSpec == Spec /\ WF_vars(Tick) /\ \A w \in Worker : WF_vars(ProcessBatch(w))

-----------------------------------------------------------------------------
(* Safety. *)

\* No consumer is lost: an event is done or failed only when every consumer of
\* its type has its processed_events row (processEvent before finalizeStatus),
\* also when several instances dispatch the same event after a stall.
NoConsumerSkipped ==
    \A e \in Event : status[e] \in {"done", "failed"} =>
        \A c \in Subs[e] : <<e, c>> \in processed

\* A processed_events row is never written for nothing: the consumer's handler
\* completed or the event is in dead_letter_events for it.
ProcessedIsAccountedFor ==
    \A p \in processed : handled[p] > 0 \/ p \in dead

\* MAX_ATTEMPTS counts events, not consumers; still, nobody is dead-lettered
\* before failing MaxAttempts times for that very consumer, whatever crashes and
\* stalls do to the attempts column.
DeadLetterOnlyAfterMaxFailures ==
    \A p \in dead : failures[p] = MaxAttempts

\* An event is 'failed' only if somebody can find out why: it has a dead letter.
FailedHasDeadLetter ==
    \A e \in Event : status[e] = "failed" => \E c \in Subs[e] : <<e, c>> \in dead

\* A consumer is served by two instances at once only after a stall: claims are
\* exclusive (FOR UPDATE SKIP LOCKED) and the reaper frees only what nobody holds.
ExclusiveDispatch ==
    stalls = 0 =>
        \A v, w \in Worker : v # w => Held(v) \cap Held(w) = {}

\* At-least-once stays close to once: without a stall every repeated call of a
\* handler that had completed is paid for by a crash or by a failed visit.
DuplicatesArePaidFor ==
    stalls = 0 => \A p \in Pair : handled[p] <= 1 + crashes + failures[p]

\* Without a stall a terminal event stays terminal and attempts never decrease
\* (setStatus and finalizeStatus have no guard on the row's current status).
TerminalIsFinal ==
    [][\A e \in Event :
        stalls = 0 =>
          /\ status[e] \in {"done", "failed"} => status'[e] = status[e]
          /\ attempts'[e] >= attempts[e]]_vars

\* The unit test of the worker says of a throwing handler that the event is
\* never silently set to 'done' (outbox-worker.spec.ts).
NoSilentDone ==
    \A e \in Event : status[e] = "done" => \A c \in Subs[e] : handled[<<e, c>>] > 0

\* Dead letters nobody hears of: the sink was not told, no failure of the sink
\* was logged, and no instance is about to tell it.
SilentDeadLetters ==
    {p \in dead \ (alerted \cup logged) :
        \A w \in Worker : pc[w] = "alert" => Serving(w) # p}

\* The schema says of dead_letter_events that a row raises an alert (outbox.ts),
\* and deadLetter that an alert's failure is not swallowed in silence.  Only the
\* call that inserts the row tells the sink, once: a throwing sink leaves a log
\* line, and one crash can make one dead letter silent for good.  Concurrent
\* dispatch of the same event, retries and lost answers make none silent.
SilentDeadLettersCostCrashes == Cardinality(SilentDeadLetters) <= crashes

-----------------------------------------------------------------------------
(* Liveness. *)

\* Every committed event ends up done or failed, crashes and stalls included,
\* as long as they are finite in number.
EveryEventTerminates ==
    \A e \in Event : status[e] # "absent" ~> status[e] \in {"done", "failed"}
=============================================================================
