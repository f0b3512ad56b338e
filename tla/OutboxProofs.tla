---------------------------- MODULE OutboxProofs ----------------------------
(***************************************************************************)
(* Proofs about the outbox for any number of events, consumers, instances, *)
(* attempts, crashes and stalls.                                           *)
(***************************************************************************)
EXTENDS OutboxDelivery, TLAPS

USE SubsAssumption, LimitsAssumption

-----------------------------------------------------------------------------
(* Type correctness. *)

\* A row that can still be claimed, or is claimed, has attempts left.
AttemptsLeft ==
    \A e \in Event : status[e] \in {"absent", "pending", "processing"} =>
        attempts[e] \in 0..(MaxAttempts - 1)

TypeInv == TypeOK /\ AttemptsLeft

LEMMA NoClaimType == NoClaim \in Claim /\ NoConsumer \in Consumer
  BY DEF NoClaim, NoConsumer, Claim

LEMMA InitTypeInv == Init => TypeInv
  BY NoClaimType DEF Init, TypeInv, TypeOK, AttemptsLeft, Status, PC, Pair

LEMMA ServingType ==
  ASSUME TypeOK, NEW w \in Worker
  PROVE  /\ cur[w] \in Claim /\ cur[w].ev \in Event /\ cur[w].attempts \in 0..(MaxAttempts - 1)
         /\ Serving(w) \in Pair
  BY DEF TypeOK, Claim, Serving, Pair

\* Every step keeps every variable in its type; the attempts that finalizeStatus
\* writes stay within MaxAttempts because only rows with attempts left are claimed.
LEMMA NextTypeInv == TypeInv /\ [Next]_vars => TypeInv'
<1> SUFFICES ASSUME TypeInv, [Next]_vars PROVE TypeInv'
  OBVIOUS
<1> USE DEF TypeInv
<1>1. ASSUME NEW e \in Event, Enqueue(e) PROVE TypeInv'
  BY <1>1 DEF Enqueue, TypeOK, AttemptsLeft, Status, jobVars, seenVars
<1>2. CASE Tick
  BY <1>2 DEF Tick, TypeOK, AttemptsLeft, jobVars, seenVars
<1>3. ASSUME NEW w \in Worker, Reap(w) PROVE TypeInv'
  BY <1>3 DEF Reap, TypeOK, AttemptsLeft, Status, PC, seenVars, IsStale
<1>4. ASSUME NEW w \in Worker, ClaimBatch(w) PROVE TypeInv'
  <2>1. PICK S \in SUBSET Event :
          /\ FullBatch(S)
          /\ status' = [e \in Event |-> IF e \in S THEN "processing" ELSE status[e]]
          /\ age' = [e \in Event |-> IF e \in S THEN 0 ELSE age[e]]
          /\ batch' = [batch EXCEPT ![w] = {[ev |-> e, attempts |-> attempts[e]] : e \in S}]
          /\ pc' = [pc EXCEPT ![w] = IF S = {} THEN "idle" ELSE "pick"]
    BY <1>4 DEF ClaimBatch
  <2>2. \A e \in S : status[e] = "pending"
    BY <2>1 DEF FullBatch, Claimable
  <2>3. {[ev |-> e, attempts |-> attempts[e]] : e \in S} \in SUBSET Claim
    BY <2>2 DEF Claim, AttemptsLeft
  <2>4. QED
    BY <1>4, <2>1, <2>2, <2>3 DEF ClaimBatch, TypeOK, AttemptsLeft, Status, PC, seenVars
<1>5. ASSUME NEW w \in Worker, PickEvent(w) PROVE TypeInv'
  BY <1>5 DEF PickEvent, TypeOK, AttemptsLeft, PC, rowVars, seenVars, Claim
<1>6. ASSUME NEW w \in Worker, VisitConsumer(w) PROVE TypeInv'
  BY <1>6 DEF VisitConsumer, TypeOK, AttemptsLeft, PC, rowVars, seenVars
<1>7. ASSUME NEW w \in Worker, HandleOk(w) PROVE TypeInv'
  BY <1>7, ServingType DEF HandleOk, TypeOK, AttemptsLeft, PC, rowVars
<1>8. ASSUME NEW w \in Worker, CatchError(w) PROVE TypeInv'
  BY <1>8, ServingType DEF CatchError, TypeOK, AttemptsLeft, PC, rowVars, AfterCatch
<1>9. ASSUME NEW w \in Worker, MarkProcessed(w) PROVE TypeInv'
  BY <1>9, ServingType DEF MarkProcessed, TypeOK, AttemptsLeft, PC, rowVars, seenVars
<1>10. ASSUME NEW w \in Worker, DeadLetter(w) PROVE TypeInv'
  BY <1>10, ServingType DEF DeadLetter, TypeOK, AttemptsLeft, PC, rowVars, seenVars
<1>11. ASSUME NEW w \in Worker, Alert(w) PROVE TypeInv'
  BY <1>11, ServingType DEF Alert, TypeOK, AttemptsLeft, PC, rowVars
<1>12. ASSUME NEW w \in Worker, Finalize(w) PROVE TypeInv'
  BY <1>12, ServingType, NoClaimType
     DEF Finalize, Retries, TypeOK, AttemptsLeft, Status, PC, seenVars
<1>13. ASSUME NEW w \in Worker, Abandon(w) PROVE TypeInv'
  BY <1>13, NoClaimType DEF Abandon, TypeOK, AttemptsLeft, PC, rowVars, seenVars
<1>14. CASE UNCHANGED vars
  BY <1>14 DEF vars, rowVars, jobVars, seenVars, TypeOK, AttemptsLeft
<1>15. QED
  BY <1>1, <1>2, <1>3, <1>4, <1>5, <1>6, <1>7, <1>8, <1>9, <1>10, <1>11, <1>12, <1>13,
     <1>14 DEF Next, ProcessBatch

\* Every variable of the outbox keeps its type, whatever the number of events,
\* instances, crashes and stalls.
THEOREM TypeCorrect == Spec => []TypeOK
<1>1. TypeInv => TypeOK
  BY DEF TypeInv
<1>2. QED
  BY InitTypeInv, NextTypeInv, <1>1, PTL DEF Spec

-----------------------------------------------------------------------------
(* What a worker in the middle of a dispatch knows.  The facts survive other *)
(* workers because processed, dead, handled and failures only grow.          *)

InDispatch(w) == pc[w] \notin {"idle", "claim", "pick"}
InService(w)  == pc[w] \in {"handle", "mark", "bury", "alert", "markDead"}

\* Consumers of the current event that this pass has already dealt with.
Visited(w) == {c \in Subs[cur[w].ev] : c \notin todo[w] /\ (InService(w) => c # cons[w])}

HasDeadLetter(e) == \E c \in Subs[e] : <<e, c>> \in dead

PassKnowledge(w) ==
    InDispatch(w) =>
      /\ todo[w] \subseteq Subs[cur[w].ev]
      /\ InService(w) => cons[w] \in Subs[cur[w].ev]
      /\ allOk[w] \/ GivesUp(w) =>
            \A c \in Visited(w) : <<cur[w].ev, c>> \in processed
      /\ ~allOk[w] /\ GivesUp(w) /\ pc[w] # "bury" => HasDeadLetter(cur[w].ev)

ServiceKnowledge(w) ==
    /\ pc[w] = "mark" => handled[Serving(w)] > 0
    /\ pc[w] \in {"bury", "alert", "markDead"} => ~allOk[w] /\ GivesUp(w)
    /\ pc[w] \in {"alert", "markDead"} => Serving(w) \in dead

OutcomeInv ==
    /\ \A w \in Worker : PassKnowledge(w) /\ ServiceKnowledge(w)
    /\ NoConsumerSkipped
    /\ ProcessedIsAccountedFor
    /\ FailedHasDeadLetter

LEMMA InitOutcomeInv == Init => OutcomeInv
  BY DEF Init, OutcomeInv, PassKnowledge, ServiceKnowledge, InDispatch, InService,
         NoConsumerSkipped, ProcessedIsAccountedFor, FailedHasDeadLetter

\* The worker that did not move keeps what it knows.
LEMMA OthersKeepKnowledge ==
  ASSUME TypeOK, NEW w \in Worker, PassKnowledge(w), ServiceKnowledge(w),
         pc'[w] = pc[w], cur'[w] = cur[w], todo'[w] = todo[w], cons'[w] = cons[w],
         allOk'[w] = allOk[w],
         processed \subseteq processed', dead \subseteq dead',
         \A p \in Pair : handled[p] > 0 => handled'[p] > 0
  PROVE  PassKnowledge(w)' /\ ServiceKnowledge(w)'
<1>1. PassKnowledge(w)'
  BY DEF PassKnowledge, InDispatch, InService, Visited, GivesUp, HasDeadLetter
<1>2. ServiceKnowledge(w)'
  BY ServingType DEF ServiceKnowledge, Serving, GivesUp
<1>3. QED
  BY <1>1, <1>2

LEMMA NextOutcomeInv == TypeInv /\ OutcomeInv /\ [Next]_vars => OutcomeInv'
<1> SUFFICES ASSUME TypeOK, OutcomeInv, [Next]_vars PROVE OutcomeInv'
  BY DEF TypeInv
<1> USE DEF OutcomeInv
<1>1. ASSUME NEW e \in Event, Enqueue(e) PROVE OutcomeInv'
  BY <1>1 DEF Enqueue, TypeOK, jobVars, seenVars, PassKnowledge, ServiceKnowledge,
     InDispatch, InService, Visited, GivesUp, HasDeadLetter, Serving,
     NoConsumerSkipped, ProcessedIsAccountedFor, FailedHasDeadLetter
<1>2. CASE Tick
  BY <1>2 DEF Tick, jobVars, seenVars, PassKnowledge, ServiceKnowledge,
     InDispatch, InService, Visited, GivesUp, HasDeadLetter, Serving,
     NoConsumerSkipped, ProcessedIsAccountedFor, FailedHasDeadLetter
<1>3. ASSUME NEW w \in Worker, ProcessBatch(w) \/ Abandon(w) PROVE OutcomeInv'
  <2> DEFINE Kept == /\ processed \subseteq processed'
                     /\ dead \subseteq dead'
                     /\ \A p \in Pair : handled[p] > 0 => handled'[p] > 0
             Rest == \A v \in Worker \ {w} :
                        /\ pc'[v] = pc[v] /\ cur'[v] = cur[v] /\ todo'[v] = todo[v]
                        /\ cons'[v] = cons[v] /\ allOk'[v] = allOk[v]
             Mine == PassKnowledge(w)' /\ ServiceKnowledge(w)'
             Rows == NoConsumerSkipped' /\ FailedHasDeadLetter'
  <2>0. ASSUME Kept, Rest, Mine, Rows, ProcessedIsAccountedFor' PROVE OutcomeInv'
    <3>1. \A v \in Worker \ {w} : PassKnowledge(v)' /\ ServiceKnowledge(v)'
      BY <2>0, OthersKeepKnowledge
    <3>2. QED
      BY <2>0, <3>1
  <2>1. CASE Reap(w)
    <3>1. /\ pc'[w] = "claim" /\ UNCHANGED <<processed, dead, handled>>
          /\ \A e \in Event : status'[e] \in {status[e], "pending"}
      BY <2>1 DEF Reap, TypeOK, seenVars
    <3>2. Kept /\ Rest
      BY <2>1 DEF Reap, TypeOK, seenVars
    <3>3. Rows /\ ProcessedIsAccountedFor'
      BY <3>1 DEF NoConsumerSkipped, FailedHasDeadLetter, HasDeadLetter,
         ProcessedIsAccountedFor
    <3>4. QED
      BY <2>0, <3>1, <3>2, <3>3 DEF PassKnowledge, ServiceKnowledge, InDispatch
  <2>2. CASE ClaimBatch(w)
    <3>1. /\ pc'[w] \in {"idle", "pick"} /\ UNCHANGED <<processed, dead, handled>>
          /\ \A e \in Event : status'[e] \in {status[e], "processing"}
      BY <2>2 DEF ClaimBatch, TypeOK, seenVars
    <3>2. Kept /\ Rest
      BY <2>2 DEF ClaimBatch, TypeOK, seenVars
    <3>3. Rows /\ ProcessedIsAccountedFor'
      BY <3>1 DEF NoConsumerSkipped, FailedHasDeadLetter, HasDeadLetter,
         ProcessedIsAccountedFor
    <3>4. QED
      BY <2>0, <3>1, <3>2, <3>3 DEF PassKnowledge, ServiceKnowledge, InDispatch
  <2>3. CASE PickEvent(w)
    <3>1. PICK k \in batch[w] : cur'[w] = k /\ todo'[w] = Subs[k.ev]
      BY <2>3 DEF PickEvent, TypeOK
    <3>2. /\ pc'[w] = "scan" /\ allOk'[w] /\ k \in Claim
          /\ UNCHANGED <<status, processed, dead, handled>>
      BY <2>3 DEF PickEvent, TypeOK, rowVars, seenVars
    <3>3. Kept /\ Rest /\ Rows /\ ProcessedIsAccountedFor'
      BY <2>3, <3>2 DEF PickEvent, TypeOK, NoConsumerSkipped, ProcessedIsAccountedFor,
         FailedHasDeadLetter
    <3>4. Visited(w)' = {}
      BY <3>1, <3>2 DEF Visited, InService
    <3>5. PassKnowledge(w)' /\ ServiceKnowledge(w)'
      BY <3>1, <3>2, <3>4 DEF PassKnowledge, ServiceKnowledge, InService
    <3>6. QED
      BY <2>0, <3>3, <3>5
  <2>4. CASE VisitConsumer(w)
    <3>1. Kept /\ Rest /\ Rows /\ ProcessedIsAccountedFor'
      BY <2>4 DEF VisitConsumer, rowVars, seenVars, TypeOK, NoConsumerSkipped,
         FailedHasDeadLetter, ProcessedIsAccountedFor
    <3>2. PICK c \in todo[w] :
             /\ todo' = [todo EXCEPT ![w] = @ \ {c}]
             /\ \/ IsProcessed(w, c) /\ UNCHANGED <<pc, cons>>
                \/ /\ ~IsProcessed(w, c)
                   /\ cons' = [cons EXCEPT ![w] = c]
                   /\ pc' = [pc EXCEPT ![w] = "handle"]
      BY <2>4 DEF VisitConsumer
    <3>3. /\ pc[w] = "scan" /\ pc'[w] \in {"scan", "handle"} /\ cur' = cur /\ allOk' = allOk
          /\ UNCHANGED <<processed, dead>> /\ todo'[w] = todo[w] \ {c}
          /\ c \in Subs[cur[w].ev]
      BY <2>4, <3>2 DEF VisitConsumer, TypeOK, PassKnowledge, InDispatch
    <3>4. \A d \in Visited(w)' : d \in Visited(w) \/ <<cur[w].ev, d>> \in processed
      BY <3>2, <3>3 DEF Visited, InService, IsProcessed, TypeOK
    <3>5. PassKnowledge(w)'
      BY <3>2, <3>3, <3>4 DEF PassKnowledge, InDispatch, InService, GivesUp, HasDeadLetter, TypeOK
    <3>6. ServiceKnowledge(w)'
      BY <3>3 DEF ServiceKnowledge
    <3>7. QED
      BY <2>0, <3>1, <3>5, <3>6
  <2>5. CASE HandleOk(w)
    <3>1. /\ \A p \in Pair : handled[p] > 0 => handled'[p] > 0
          /\ handled'[Serving(w)] > 0
      BY <2>5, ServingType DEF HandleOk, TypeOK
    <3>2. Kept /\ Rest /\ Rows
      BY <2>5, <3>1 DEF HandleOk, rowVars, TypeOK, NoConsumerSkipped, FailedHasDeadLetter
    <3>3. ProcessedIsAccountedFor'
      BY <2>5, <3>1 DEF HandleOk, TypeOK, ProcessedIsAccountedFor
    <3>4. pc[w] = "handle" /\ pc'[w] = "mark" /\ Serving(w)' = Serving(w)
      BY <2>5 DEF HandleOk, TypeOK, Serving
    <3>5. PassKnowledge(w)'
      BY <2>5, <3>4 DEF HandleOk, PassKnowledge, InDispatch, InService, Visited, GivesUp,
         HasDeadLetter
    <3>6. ServiceKnowledge(w)'
      BY <3>1, <3>4 DEF ServiceKnowledge
    <3>7. QED
      BY <2>0, <3>2, <3>3, <3>5, <3>6
  <2>6. CASE CatchError(w)
    <3>1. /\ pc[w] \in {"handle", "mark"} /\ ~allOk'[w]
          /\ pc'[w] = IF GivesUp(w) THEN "bury" ELSE "scan"
          /\ UNCHANGED <<status, dead, cur, todo, cons, handled>>
          /\ processed \subseteq processed'
          /\ \A p \in processed' : p \in processed \/ (pc[w] = "mark" /\ p = Serving(w))
      BY <2>6 DEF CatchError, AfterCatch, TypeOK, rowVars
    <3>2. Kept /\ Rest /\ Rows
      BY <2>6, <3>1 DEF CatchError, TypeOK, NoConsumerSkipped, FailedHasDeadLetter
    <3>3. ProcessedIsAccountedFor'
      BY <3>1 DEF ProcessedIsAccountedFor, ServiceKnowledge
    <3>4. GivesUp(w)' <=> GivesUp(w)
      BY <3>1 DEF GivesUp
    <3>5. GivesUp(w) => Visited(w)' = Visited(w)
      BY <3>1 DEF Visited, InService
    <3>6. PassKnowledge(w)'
      BY <3>1, <3>4, <3>5 DEF PassKnowledge, InDispatch, InService, HasDeadLetter
    <3>7. ServiceKnowledge(w)'
      BY <3>1, <3>4 DEF ServiceKnowledge
    <3>8. QED
      BY <2>0, <3>2, <3>3, <3>6, <3>7
  <2>7. CASE MarkProcessed(w)
    <3>1. /\ pc[w] \in {"mark", "markDead"} /\ pc'[w] = "scan"
          /\ UNCHANGED <<rowVars, dead, cur, todo, cons, allOk, handled>>
          /\ processed' = processed \cup {Serving(w)}
      BY <2>7 DEF MarkProcessed, TypeOK, seenVars
    <3>2. Kept /\ Rest /\ Rows
      BY <2>7, <3>1 DEF MarkProcessed, rowVars, TypeOK, NoConsumerSkipped, FailedHasDeadLetter
    <3>3. ProcessedIsAccountedFor'
      BY <3>1 DEF ProcessedIsAccountedFor, ServiceKnowledge
    <3>4. \A c \in Visited(w)' : c \in Visited(w) \/ <<cur[w].ev, c>> = Serving(w)
      BY <3>1 DEF Visited, InService, Serving
    <3>5. PassKnowledge(w)'
      BY <3>1, <3>4 DEF PassKnowledge, InDispatch, InService, GivesUp, HasDeadLetter
    <3>6. ServiceKnowledge(w)'
      BY <3>1 DEF ServiceKnowledge
    <3>7. QED
      BY <2>0, <3>2, <3>3, <3>5, <3>6
  <2>8. CASE DeadLetter(w)
    <3>1. /\ pc[w] = "bury" /\ pc'[w] \in {"alert", "markDead"}
          /\ UNCHANGED <<status, processed, cur, todo, cons, allOk, handled>>
          /\ dead' = dead \cup {Serving(w)}
      BY <2>8 DEF DeadLetter, TypeOK, rowVars, seenVars
    <3>2. Kept /\ Rest
      BY <2>8, <3>1 DEF DeadLetter, TypeOK
    <3>3. Rows /\ ProcessedIsAccountedFor'
      BY <3>1 DEF NoConsumerSkipped, FailedHasDeadLetter, HasDeadLetter,
         ProcessedIsAccountedFor
    <3>4. GivesUp(w)' = GivesUp(w) /\ Visited(w)' = Visited(w) /\ Serving(w)' = Serving(w)
      BY <3>1 DEF GivesUp, Visited, InService, Serving
    <3>5. PassKnowledge(w)'
      <4>1. HasDeadLetter(cur[w].ev)'
        BY <3>1 DEF HasDeadLetter, Serving, PassKnowledge, InDispatch, InService
      <4>2. QED
        BY <3>1, <3>4, <4>1 DEF PassKnowledge, InDispatch, InService
    <3>6. ServiceKnowledge(w)'
      BY <3>1, <3>4 DEF ServiceKnowledge
    <3>7. QED
      BY <2>0, <3>2, <3>3, <3>5, <3>6
  <2>9. CASE Alert(w)
    <3>1. /\ pc[w] = "alert" /\ pc'[w] = "markDead"
          /\ UNCHANGED <<status, processed, dead, cur, todo, cons, allOk, handled>>
      BY <2>9 DEF Alert, TypeOK, rowVars
    <3>2. Kept /\ Rest
      BY <2>9, <3>1 DEF Alert, TypeOK
    <3>3. Rows /\ ProcessedIsAccountedFor'
      BY <3>1 DEF NoConsumerSkipped, FailedHasDeadLetter, HasDeadLetter,
         ProcessedIsAccountedFor
    <3>4. GivesUp(w)' = GivesUp(w) /\ Visited(w)' = Visited(w) /\ Serving(w)' = Serving(w)
      BY <3>1 DEF GivesUp, Visited, InService, Serving
    <3>5. PassKnowledge(w)'
      BY <3>1, <3>4 DEF PassKnowledge, InDispatch, InService, HasDeadLetter
    <3>6. ServiceKnowledge(w)'
      BY <3>1, <3>4 DEF ServiceKnowledge
    <3>7. QED
      BY <2>0, <3>2, <3>3, <3>5, <3>6
  <2>10. CASE Finalize(w)
    <3>1. /\ UNCHANGED <<processed, dead, handled>>
          /\ pc[w] = "scan" /\ todo[w] = {} /\ pc'[w] \in {"idle", "pick"}
      BY <2>10 DEF Finalize, TypeOK, seenVars
    <3>2. Kept /\ Rest /\ ProcessedIsAccountedFor'
      BY <2>10, <3>1 DEF Finalize, TypeOK, ProcessedIsAccountedFor
    <3>3. Mine
      BY <3>1 DEF PassKnowledge, ServiceKnowledge, InDispatch
    <3>4. /\ allOk[w] \/ ~Retries(w) => \A c \in Subs[cur[w].ev] : <<cur[w].ev, c>> \in processed
          /\ ~allOk[w] /\ ~Retries(w) => HasDeadLetter(cur[w].ev)
      BY <3>1, ServingType
         DEF PassKnowledge, InDispatch, InService, Visited, Retries, GivesUp
    <3>5. \A e \in Event : e # cur[w].ev => status'[e] = status[e]
      BY <2>10 DEF Finalize, TypeOK
    <3>6. status'[cur[w].ev] = IF allOk[w] THEN "done" ELSE IF Retries(w) THEN "pending"
                               ELSE "failed"
      BY <2>10, ServingType DEF Finalize, TypeOK
    <3>7. Rows
      BY <3>1, <3>4, <3>5, <3>6 DEF NoConsumerSkipped, FailedHasDeadLetter, HasDeadLetter
    <3>8. QED
      BY <2>0, <3>2, <3>3, <3>7
  <2>11. CASE Abandon(w)
    <3>1. pc'[w] = "idle" /\ UNCHANGED <<status, processed, dead, handled>>
      BY <2>11 DEF Abandon, TypeOK, rowVars, seenVars
    <3>2. Kept /\ Rest
      BY <2>11 DEF Abandon, TypeOK, seenVars
    <3>3. Rows /\ ProcessedIsAccountedFor'
      BY <3>1 DEF NoConsumerSkipped, FailedHasDeadLetter, HasDeadLetter,
         ProcessedIsAccountedFor
    <3>4. QED
      BY <2>0, <3>1, <3>2, <3>3 DEF PassKnowledge, ServiceKnowledge, InDispatch
  <2>12. QED
    BY <1>3, <2>1, <2>2, <2>3, <2>4, <2>5, <2>6, <2>7, <2>8, <2>9, <2>10, <2>11 DEF ProcessBatch
<1>4. CASE UNCHANGED vars
  BY <1>4 DEF vars, rowVars, jobVars, seenVars, PassKnowledge, ServiceKnowledge,
     InDispatch, InService, Visited, GivesUp, HasDeadLetter, Serving,
     NoConsumerSkipped, ProcessedIsAccountedFor, FailedHasDeadLetter
<1>5. QED
  BY <1>1, <1>2, <1>3, <1>4 DEF Next

\* No consumer of an event that is done or failed was skipped, even if several
\* instances dispatched the event at the same time.
THEOREM NothingSkipped == Spec => []NoConsumerSkipped
<1>1. OutcomeInv => NoConsumerSkipped
  BY DEF OutcomeInv
<1>2. QED
  BY InitTypeInv, NextTypeInv, InitOutcomeInv, NextOutcomeInv, <1>1, PTL DEF Spec

\* A processed_events row stands for a completed handler or a dead letter.
THEOREM ProcessedAccounted == Spec => []ProcessedIsAccountedFor
<1>1. OutcomeInv => ProcessedIsAccountedFor
  BY DEF OutcomeInv
<1>2. QED
  BY InitTypeInv, NextTypeInv, InitOutcomeInv, NextOutcomeInv, <1>1, PTL DEF Spec

\* A failed event has a dead letter that tells why.
THEOREM FailedExplained == Spec => []FailedHasDeadLetter
<1>1. OutcomeInv => FailedHasDeadLetter
  BY DEF OutcomeInv
<1>2. QED
  BY InitTypeInv, NextTypeInv, InitOutcomeInv, NextOutcomeInv, <1>1, PTL DEF Spec

-----------------------------------------------------------------------------
(* Attempts count events, failures count visits of a consumer.  A consumer   *)
(* without a processed_events row has failed at least as often as the row's  *)
(* attempts say, and at least as often as any worker's snapshot of them.     *)

RowFailures ==
    \A e \in Event : \A c \in Subs[e] :
        <<e, c>> \notin processed => failures[<<e, c>>] >= attempts[e]

BatchFailures(w) ==
    \A k \in batch[w] : \A c \in Subs[k.ev] :
        <<k.ev, c>> \notin processed => failures[<<k.ev, c>>] >= k.attempts

PassFailures(w) ==
    InDispatch(w) =>
      /\ \A c \in Subs[cur[w].ev] :
            <<cur[w].ev, c>> \notin processed =>
                failures[<<cur[w].ev, c>>] >= cur[w].attempts
      /\ \A c \in Visited(w) :
            <<cur[w].ev, c>> \notin processed =>
                failures[<<cur[w].ev, c>>] >= cur[w].attempts + 1
      /\ InService(w) => failures[Serving(w)] >= cur[w].attempts
      /\ pc[w] \in {"bury", "alert", "markDead"} =>
            failures[Serving(w)] >= cur[w].attempts + 1

FailureInv ==
    /\ RowFailures
    /\ \A w \in Worker : BatchFailures(w) /\ PassFailures(w)
    /\ DeadLetterOnlyAfterMaxFailures

LEMMA InitFailureInv == Init => FailureInv
  BY SMTT(20) DEF Init, FailureInv, RowFailures, BatchFailures, PassFailures, InDispatch,
     DeadLetterOnlyAfterMaxFailures, Pair

\* Growing processed and failures disturb no worker that did not move.
LEMMA OthersKeepFailures ==
  ASSUME TypeOK, TypeOK', NEW w \in Worker, BatchFailures(w), PassFailures(w), PassKnowledge(w),
         pc'[w] = pc[w], cur'[w] = cur[w], todo'[w] = todo[w], cons'[w] = cons[w],
         batch'[w] = batch[w], processed \subseteq processed',
         \A p \in Pair : failures'[p] >= failures[p]
  PROVE  BatchFailures(w)' /\ PassFailures(w)'
<1>1. \A k \in Claim : \A c \in Subs[k.ev] : <<k.ev, c>> \in Pair
  BY DEF Claim, Pair
<1>2. BatchFailures(w)'
  BY <1>1 DEF BatchFailures, TypeOK, Claim
<1>3. PassFailures(w)'
  BY <1>1, ServingType DEF PassFailures, InDispatch, InService, Visited, Serving, TypeOK, Claim
<1>4. QED
  BY <1>2, <1>3

LEMMA NextFailureInv ==
  TypeInv /\ TypeInv' /\ OutcomeInv /\ FailureInv /\ [Next]_vars => FailureInv'
<1> SUFFICES ASSUME TypeOK, TypeOK', OutcomeInv, FailureInv, [Next]_vars PROVE FailureInv'
  BY DEF TypeInv
<1> USE DEF FailureInv
<1>1. ASSUME NEW e \in Event, Enqueue(e) PROVE FailureInv'
  BY <1>1 DEF Enqueue, jobVars, seenVars, RowFailures, BatchFailures, PassFailures,
     InDispatch, InService, Visited, Serving, DeadLetterOnlyAfterMaxFailures
<1>2. CASE Tick
  BY <1>2 DEF Tick, jobVars, seenVars, RowFailures, BatchFailures, PassFailures,
     InDispatch, InService, Visited, Serving, DeadLetterOnlyAfterMaxFailures
<1>3. ASSUME NEW w \in Worker, ProcessBatch(w) \/ Abandon(w) PROVE FailureInv'
  <2> DEFINE Kept == processed \subseteq processed' /\ \A p \in Pair : failures'[p] >= failures[p]
             Rest == \A v \in Worker \ {w} :
                        /\ pc'[v] = pc[v] /\ cur'[v] = cur[v] /\ todo'[v] = todo[v]
                        /\ cons'[v] = cons[v] /\ batch'[v] = batch[v]
             Mine == BatchFailures(w)' /\ PassFailures(w)'
             Rows == RowFailures' /\ DeadLetterOnlyAfterMaxFailures'
  <2>0. ASSUME Kept, Rest, Mine, Rows PROVE FailureInv'
    <3>1. \A v \in Worker \ {w} : BatchFailures(v)' /\ PassFailures(v)'
      BY <2>0, OthersKeepFailures DEF OutcomeInv
    <3>2. QED
      BY <2>0, <3>1
  <2>1. CASE Reap(w)
    <3>1. pc'[w] = "claim" /\ UNCHANGED <<attempts, processed, dead, failures, batch>>
      BY <2>1 DEF Reap, TypeOK, seenVars
    <3>2. Kept /\ Rest
      BY <2>1, <3>1 DEF Reap, TypeOK
    <3>3. Rows /\ BatchFailures(w)'
      BY <3>1 DEF RowFailures, BatchFailures, DeadLetterOnlyAfterMaxFailures
    <3>4. QED
      BY <2>0, <3>1, <3>2, <3>3 DEF PassFailures, InDispatch
  <2>2. CASE ClaimBatch(w)
    <3>1. /\ pc'[w] \in {"idle", "pick"}
          /\ UNCHANGED <<attempts, processed, dead, failures>>
      BY <2>2 DEF ClaimBatch, TypeOK, seenVars
    <3>2. Kept /\ Rest
      BY <2>2, <3>1 DEF ClaimBatch, TypeOK
    <3>3. PICK S \in SUBSET Event :
             batch'[w] = {[ev |-> e, attempts |-> attempts[e]] : e \in S}
      BY <2>2 DEF ClaimBatch, TypeOK
    <3>4. Rows /\ BatchFailures(w)'
      BY <3>1, <3>3 DEF RowFailures, BatchFailures, DeadLetterOnlyAfterMaxFailures
    <3>5. QED
      BY <2>0, <3>1, <3>2, <3>4 DEF PassFailures, InDispatch
  <2>3. CASE PickEvent(w)
    <3>1. PICK k \in batch[w] : cur'[w] = k /\ todo'[w] = Subs[k.ev]
      BY <2>3 DEF PickEvent, TypeOK
    <3>2. /\ pc'[w] = "scan" /\ batch'[w] \subseteq batch[w]
          /\ UNCHANGED <<attempts, processed, dead, failures>>
      BY <2>3 DEF PickEvent, TypeOK, rowVars, seenVars
    <3>3. Kept /\ Rest
      BY <2>3, <3>2 DEF PickEvent, TypeOK
    <3>4. Rows /\ BatchFailures(w)'
      BY <3>2 DEF RowFailures, BatchFailures, DeadLetterOnlyAfterMaxFailures
    <3>5. Visited(w)' = {}
      BY <3>1, <3>2 DEF Visited, InService
    <3>6. PassFailures(w)'
      BY <3>1, <3>2, <3>5 DEF PassFailures, BatchFailures, InService
    <3>7. QED
      BY <2>0, <3>3, <3>4, <3>6
  <2>4. CASE VisitConsumer(w)
    <3>1. PICK c \in todo[w] :
             /\ todo' = [todo EXCEPT ![w] = @ \ {c}]
             /\ \/ IsProcessed(w, c) /\ UNCHANGED <<pc, cons>>
                \/ /\ ~IsProcessed(w, c)
                   /\ cons' = [cons EXCEPT ![w] = c]
                   /\ pc' = [pc EXCEPT ![w] = "handle"]
      BY <2>4 DEF VisitConsumer
    <3>2. /\ pc[w] = "scan" /\ pc'[w] \in {"scan", "handle"}
          /\ UNCHANGED <<rowVars, processed, dead, failures, batch, cur>>
          /\ todo'[w] = todo[w] \ {c} /\ c \in Subs[cur[w].ev]
      BY <2>4, <3>1 DEF VisitConsumer, TypeOK, seenVars, OutcomeInv, PassKnowledge, InDispatch
    <3>3. Kept /\ Rest /\ Rows /\ BatchFailures(w)'
      BY <2>4, <3>1, <3>2 DEF rowVars, TypeOK, RowFailures, DeadLetterOnlyAfterMaxFailures,
         BatchFailures
    <3>4. \A d \in Visited(w)' : d \in Visited(w) \/ <<cur[w].ev, d>> \in processed
      BY <3>1, <3>2 DEF Visited, InService, IsProcessed, TypeOK
    <3>5. InService(w)' => Serving(w)' = <<cur[w].ev, c>> /\ <<cur[w].ev, c>> \notin processed
      BY <3>1, <3>2 DEF InService, IsProcessed, Serving, TypeOK
    <3>6. PassFailures(w)'
      BY <3>2, <3>4, <3>5 DEF PassFailures, InDispatch
    <3>7. QED
      BY <2>0, <3>3, <3>6
  <2>5. CASE HandleOk(w)
    <3>1. /\ pc[w] = "handle" /\ pc'[w] = "mark"
          /\ UNCHANGED <<attempts, processed, dead, failures, batch, cur, todo, cons>>
      BY <2>5 DEF HandleOk, TypeOK, rowVars
    <3>2. Kept /\ Rest
      BY <2>5, <3>1 DEF HandleOk, TypeOK
    <3>3. Rows /\ BatchFailures(w)'
      BY <3>1 DEF RowFailures, BatchFailures, DeadLetterOnlyAfterMaxFailures
    <3>4. PassFailures(w)'
      BY <3>1 DEF PassFailures, InDispatch, InService, Visited, Serving
    <3>5. QED
      BY <2>0, <3>2, <3>3, <3>4
  <2>6. CASE CatchError(w)
    <3>1. /\ pc[w] \in {"handle", "mark"} /\ pc'[w] \in {"bury", "scan"}
          /\ UNCHANGED <<rowVars, dead, batch, cur, todo, cons>>
          /\ processed \subseteq processed'
          /\ Serving(w) \in Pair /\ Serving(w)' = Serving(w)
          /\ failures' = [failures EXCEPT ![Serving(w)] = IF @ < MaxAttempts THEN @ + 1 ELSE @]
      BY <2>6, ServingType DEF CatchError, AfterCatch, TypeOK, Serving
    <3>2. \A p \in Pair : failures'[p] >= failures[p] /\ failures[p] \in 0..MaxAttempts
      <4>1. \A p \in Pair : failures[p] \in 0..MaxAttempts
        BY DEF TypeOK
      <4>2. \A p \in Pair : failures'[p] = IF p = Serving(w) /\ failures[p] < MaxAttempts
                                         THEN failures[p] + 1 ELSE failures[p]
        BY <3>1 DEF TypeOK
      <4>3. QED
        BY <4>1, <4>2
    <3>3. failures'[Serving(w)] >= cur[w].attempts + 1
      <4>1. failures[Serving(w)] >= cur[w].attempts
        BY <3>1 DEF PassFailures, InDispatch, InService
      <4>2. QED
        BY <3>1, <3>2, <4>1, ServingType DEF TypeOK
    <3>4. Kept /\ Rest
      BY <2>6, <3>1, <3>2 DEF CatchError, TypeOK
    <3>5. /\ \A k \in Claim : \A c \in Subs[k.ev] : <<k.ev, c>> \in Pair
          /\ \A e \in Event : \A c \in Subs[e] : <<e, c>> \in Pair
      BY DEF Claim, Pair
    <3>6. Rows
      <4>1. RowFailures'
        <5>1. SUFFICES ASSUME NEW e \in Event, NEW c \in Subs[e], <<e, c>> \notin processed
                       PROVE  failures'[<<e, c>>] >= attempts[e]
          BY <3>1 DEF rowVars, RowFailures
        <5>2. failures[<<e, c>>] >= attempts[e] /\ attempts[e] \in Nat
          BY <5>1 DEF RowFailures, TypeOK
        <5>3. failures'[<<e, c>>] >= failures[<<e, c>>] /\ failures[<<e, c>>] \in Nat
              /\ failures'[<<e, c>>] \in Nat
          BY <3>2, <3>5, <5>1 DEF TypeOK
        <5>4. QED
          BY <5>2, <5>3
      <4>2. DeadLetterOnlyAfterMaxFailures'
        BY <3>1, <3>2 DEF DeadLetterOnlyAfterMaxFailures, TypeOK
      <4>3. QED
        BY <4>1, <4>2
    <3>7. BatchFailures(w)'
      <4>1. SUFFICES ASSUME NEW k \in batch[w], NEW c \in Subs[k.ev],
                            <<k.ev, c>> \notin processed
                     PROVE  failures'[<<k.ev, c>>] >= k.attempts
        BY <3>1 DEF BatchFailures
      <4>2. k \in Claim /\ k.attempts \in Nat
        BY DEF TypeOK, Claim
      <4>3. failures[<<k.ev, c>>] >= k.attempts
        BY <4>1 DEF BatchFailures
      <4>4. failures'[<<k.ev, c>>] >= failures[<<k.ev, c>>] /\ failures[<<k.ev, c>>] \in Nat
            /\ failures'[<<k.ev, c>>] \in Nat
        BY <3>2, <3>5, <4>2 DEF TypeOK
      <4>5. QED
        BY <4>2, <4>3, <4>4
    <3>8. PassFailures(w)'
      <4>1. \A c \in Subs[cur[w].ev] : <<cur[w].ev, c>> \notin processed =>
               failures'[<<cur[w].ev, c>>] >= cur[w].attempts
        <5>1. \A c \in Subs[cur[w].ev] : <<cur[w].ev, c>> \notin processed =>
                 failures[<<cur[w].ev, c>>] >= cur[w].attempts
          BY <3>1 DEF PassFailures, InDispatch
        <5>2. \A c \in Subs[cur[w].ev] :
                 /\ failures[<<cur[w].ev, c>>] \in Nat /\ failures'[<<cur[w].ev, c>>] \in Nat
                 /\ failures'[<<cur[w].ev, c>>] >= failures[<<cur[w].ev, c>>]
          BY <3>2, <3>5, ServingType DEF TypeOK
        <5>3. QED
          BY <5>1, <5>2, ServingType
      <4>2. \A c \in Visited(w) : <<cur[w].ev, c>> \notin processed =>
               failures'[<<cur[w].ev, c>>] >= cur[w].attempts + 1
        <5>1. \A c \in Visited(w) : <<cur[w].ev, c>> \notin processed =>
                 failures[<<cur[w].ev, c>>] >= cur[w].attempts + 1
          BY <3>1 DEF PassFailures, InDispatch
        <5>2. \A c \in Visited(w) :
                 /\ failures[<<cur[w].ev, c>>] \in Nat /\ failures'[<<cur[w].ev, c>>] \in Nat
                 /\ failures'[<<cur[w].ev, c>>] >= failures[<<cur[w].ev, c>>]
          BY <3>2, <3>5, ServingType DEF TypeOK, Visited
        <5>3. QED
          BY <5>1, <5>2, ServingType
      <4>3. \A c \in Visited(w)' : c \in Visited(w) \/ <<cur[w].ev, c>> = Serving(w)
        BY <3>1 DEF Visited, InService, Serving
      <4>4. QED
        BY <3>1, <3>2, <3>3, <4>1, <4>2, <4>3, ServingType DEF PassFailures, InDispatch, InService
    <3>9. QED
      BY <2>0, <3>4, <3>6, <3>7, <3>8
  <2>7. CASE MarkProcessed(w)
    <3>1. /\ pc[w] \in {"mark", "markDead"} /\ pc'[w] = "scan"
          /\ UNCHANGED <<attempts, dead, failures, batch, cur, todo, cons>>
          /\ processed' = processed \cup {Serving(w)}
      BY <2>7 DEF MarkProcessed, TypeOK, rowVars, seenVars
    <3>2. Kept /\ Rest
      BY <2>7, <3>1 DEF MarkProcessed, TypeOK
    <3>3. Rows /\ BatchFailures(w)'
      BY <3>1 DEF RowFailures, BatchFailures, DeadLetterOnlyAfterMaxFailures
    <3>4. \A c \in Visited(w)' : c \in Visited(w) \/ <<cur[w].ev, c>> \in processed'
      BY <3>1 DEF Visited, InService, Serving
    <3>5. PassFailures(w)'
      BY <3>1, <3>4 DEF PassFailures, InDispatch, InService
    <3>6. QED
      BY <2>0, <3>2, <3>3, <3>5
  <2>8. CASE DeadLetter(w)
    <3>1. /\ pc[w] = "bury" /\ pc'[w] \in {"alert", "markDead"}
          /\ UNCHANGED <<rowVars, processed, failures, batch, cur, todo, cons>>
          /\ dead' = dead \cup {Serving(w)}
          /\ Serving(w) \in Pair /\ Serving(w)' = Serving(w)
      BY <2>8, ServingType DEF DeadLetter, TypeOK, seenVars, Serving
    <3>2. Kept /\ Rest /\ RowFailures' /\ BatchFailures(w)'
      BY <2>8, <3>1 DEF DeadLetter, rowVars, TypeOK, RowFailures, BatchFailures
    <3>3. failures[Serving(w)] = MaxAttempts
      <4>1. failures[Serving(w)] >= cur[w].attempts + 1
        BY <3>1 DEF PassFailures, InDispatch
      <4>2. cur[w].attempts + 1 >= MaxAttempts
        BY <3>1 DEF OutcomeInv, ServiceKnowledge, GivesUp
      <4>3. failures[Serving(w)] \in 0..MaxAttempts
        BY <3>1 DEF TypeOK
      <4>4. QED
        BY <4>1, <4>2, <4>3, ServingType
    <3>4. DeadLetterOnlyAfterMaxFailures'
      BY <3>1, <3>3 DEF DeadLetterOnlyAfterMaxFailures
    <3>5. PassFailures(w)'
      BY <3>1 DEF PassFailures, InDispatch, InService, Visited
    <3>6. QED
      BY <2>0, <3>2, <3>4, <3>5
  <2>9. CASE Alert(w)
    <3>1. /\ pc[w] = "alert" /\ pc'[w] = "markDead"
          /\ UNCHANGED <<attempts, processed, dead, failures, batch, cur, todo, cons>>
      BY <2>9 DEF Alert, TypeOK, rowVars
    <3>2. Kept /\ Rest
      BY <2>9, <3>1 DEF Alert, TypeOK
    <3>3. Rows /\ BatchFailures(w)'
      BY <3>1 DEF RowFailures, BatchFailures, DeadLetterOnlyAfterMaxFailures
    <3>4. PassFailures(w)'
      BY <3>1 DEF PassFailures, InDispatch, InService, Visited, Serving
    <3>5. QED
      BY <2>0, <3>2, <3>3, <3>4
  <2>10. CASE Finalize(w)
    <3>1. /\ pc[w] = "scan" /\ todo[w] = {} /\ pc'[w] \in {"idle", "pick"}
          /\ UNCHANGED <<processed, dead, failures, batch>>
      BY <2>10 DEF Finalize, TypeOK, seenVars
    <3>2. Kept /\ Rest
      BY <2>10, <3>1 DEF Finalize, TypeOK
    <3>3. DeadLetterOnlyAfterMaxFailures' /\ BatchFailures(w)'
      BY <3>1 DEF BatchFailures, DeadLetterOnlyAfterMaxFailures
    <3>4. /\ cur[w].ev \in Event
          /\ attempts'[cur[w].ev] \in {attempts[cur[w].ev], cur[w].attempts + 1}
          /\ allOk[w] => attempts'[cur[w].ev] = attempts[cur[w].ev]
          /\ \A e \in Event : e # cur[w].ev => attempts'[e] = attempts[e]
      BY <2>10, ServingType DEF Finalize, TypeOK
    <3>5. \A c \in Subs[cur[w].ev] : <<cur[w].ev, c>> \notin processed =>
             failures[<<cur[w].ev, c>>] >= cur[w].attempts + 1
      BY <3>1 DEF PassFailures, InDispatch, InService, Visited
    <3>6. RowFailures'
      BY <3>1, <3>4, <3>5 DEF RowFailures
    <3>7. QED
      BY <2>0, <3>1, <3>2, <3>3, <3>6 DEF PassFailures, InDispatch
  <2>11. CASE Abandon(w)
    <3>1. /\ pc'[w] = "idle" /\ batch'[w] = {}
          /\ UNCHANGED <<attempts, processed, dead, failures>>
      BY <2>11 DEF Abandon, TypeOK, rowVars, seenVars
    <3>2. Kept /\ Rest
      BY <2>11, <3>1 DEF Abandon, TypeOK
    <3>3. Rows
      BY <3>1 DEF RowFailures, DeadLetterOnlyAfterMaxFailures
    <3>4. QED
      BY <2>0, <3>1, <3>2, <3>3 DEF PassFailures, BatchFailures, InDispatch
  <2>12. QED
    BY <1>3, <2>1, <2>2, <2>3, <2>4, <2>5, <2>6, <2>7, <2>8, <2>9, <2>10, <2>11
       DEF ProcessBatch
<1>4. CASE UNCHANGED vars
  BY <1>4 DEF vars, rowVars, jobVars, seenVars, RowFailures, BatchFailures, PassFailures,
     InDispatch, InService, Visited, Serving, DeadLetterOnlyAfterMaxFailures
<1>5. QED
  BY <1>1, <1>2, <1>3, <1>4 DEF Next

\* Whatever crashes and stalls do to the attempts column, a consumer gets its
\* dead letter only after failing MaxAttempts times itself.
THEOREM DeadLettersEarned == Spec => []DeadLetterOnlyAfterMaxFailures
<1>1. FailureInv => DeadLetterOnlyAfterMaxFailures
  BY DEF FailureInv
<1>2. QED
  BY InitTypeInv, NextTypeInv, InitOutcomeInv, NextOutcomeInv, InitFailureInv, NextFailureInv,
     <1>1, PTL DEF Spec

-----------------------------------------------------------------------------
(* Exclusive claims.  Until the first stall a worker owns what it holds: the *)
(* row is 'processing', not stale, its attempts are those of the snapshot,   *)
(* and nobody else holds it.                                                 *)

HeldClaims(w) == batch[w] \cup (IF InDispatch(w) THEN {cur[w]} ELSE {})

\* The handler is running, or its row is being inserted.
IsCalling(w) == pc[w] \in {"handle", "mark"}

Owns(w) ==
    /\ pc[w] \in {"idle", "claim"} => batch[w] = {}
    /\ \A k \in HeldClaims(w) : /\ status[k.ev] = "processing"
                                /\ age[k.ev] < StaleAfter
                                /\ k.attempts = attempts[k.ev]
    /\ InDispatch(w) => \A k \in batch[w] : k.ev # cur[w].ev
    /\ IsCalling(w) => Serving(w) \notin processed

OwnershipInv == stalls = 0 => (\A w \in Worker : Owns(w)) /\ ExclusiveDispatch

LEMMA HeldEvents ==
  ASSUME TypeOK, NEW w \in Worker
  PROVE  /\ Held(w) = {k.ev : k \in HeldClaims(w)}
         /\ Held(w) \subseteq Event
  BY DEF Held, Dispatching, HeldClaims, InDispatch, TypeOK, Claim

LEMMA InitOwnershipInv == Init => OwnershipInv
  BY DEF Init, OwnershipInv, Owns, HeldClaims, InDispatch, InService, IsCalling, ExclusiveDispatch, Held,
     Dispatching

\* A worker that did not move still owns what it holds if nobody touched the rows
\* it holds or marked its events.
LEMMA OthersKeepOwning ==
  ASSUME TypeOK, NEW w \in Worker, Owns(w),
         pc'[w] = pc[w], cur'[w] = cur[w], cons'[w] = cons[w], batch'[w] = batch[w],
         \A e \in Held(w) : /\ status'[e] = status[e] /\ age'[e] = age[e]
                            /\ attempts'[e] = attempts[e]
                            /\ \A c \in Consumer : <<e, c>> \in processed' => <<e, c>> \in processed
  PROVE  Owns(w)' /\ Held(w)' = Held(w)
<1>1. Held(w)' = Held(w) /\ HeldClaims(w)' = HeldClaims(w)
  BY DEF Held, Dispatching, HeldClaims, InDispatch
<1>2. \A k \in HeldClaims(w) : k.ev \in Held(w)
  BY HeldEvents
<1>3. InService(w) => cur[w].ev \in Held(w)
  BY DEF InService, Held, Dispatching
<1>4. Owns(w)'
  BY <1>1, <1>2, <1>3 DEF Owns, InDispatch, InService, IsCalling, Serving, TypeOK
<1>5. QED
  BY <1>1, <1>4

LEMMA NextOwnershipInv == TypeInv /\ OwnershipInv /\ [Next]_vars => OwnershipInv'
<1> SUFFICES ASSUME TypeOK, OwnershipInv, [Next]_vars, stalls' = 0 PROVE OwnershipInv'
  BY DEF TypeInv, OwnershipInv
<1>0. stalls = 0
  BY DEF Next, vars, Enqueue, Tick, ProcessBatch, Reap, ClaimBatch, PickEvent, VisitConsumer,
     HandleOk, CatchError, MarkProcessed, DeadLetter, Alert, Finalize, Abandon, TypeOK
<1>a. /\ \A w \in Worker : Owns(w)
      /\ \A v, w \in Worker : v # w => Held(v) \cap Held(w) = {}
  BY <1>0 DEF OwnershipInv, ExclusiveDispatch
<1>b. ASSUME \A w \in Worker : Owns(w)',
             \A v, w \in Worker : v # w => Held(v)' \cap Held(w)' = {}
      PROVE  OwnershipInv'
  BY <1>b DEF OwnershipInv, ExclusiveDispatch
<1>c. \A w \in Worker : \A e \in Held(w) :
         e \in Event /\ status[e] = "processing" /\ age[e] < StaleAfter /\ age[e] # StaleAfter
  BY <1>a, HeldEvents DEF Owns, TypeOK
<1>d. \A w \in Worker : \A k \in HeldClaims(w) :
         k.ev \in Event /\ k.ev \in Held(w)
  BY HeldEvents
<1>1. ASSUME NEW e \in Event, Enqueue(e) PROVE OwnershipInv'
  <2>1. \A w \in Worker : e \notin Held(w)
    BY <1>c, <1>1 DEF Enqueue
  <2>2. \A w \in Worker : Owns(w)' /\ Held(w)' = Held(w)
    BY <1>a, <1>1, <2>1, OthersKeepOwning, HeldEvents DEF Enqueue, jobVars, TypeOK
  <2>3. QED
    BY <1>a, <1>b, <2>2
<1>2. CASE Tick
  <2>1. Late = {}
    BY <1>0, <1>2 DEF Tick, TypeOK
  <2>2. \A w \in Worker : \A e \in Held(w) : age'[e] < StaleAfter
    <3>1. SUFFICES ASSUME NEW w \in Worker, NEW e \in Held(w) PROVE age'[e] < StaleAfter
      OBVIOUS
    <3>2. e \notin Late /\ age[e] \in 0..StaleAfter
      BY <1>c, <2>1 DEF TypeOK
    <3>3. age[e] + 1 # StaleAfter
      BY <1>c, <3>2 DEF Late
    <3>4. age'[e] = age[e] + 1
      BY <1>c, <1>2 DEF Tick
    <3>5. QED
      BY <1>c, <3>2, <3>3, <3>4
  <2>3. \A w \in Worker : Held(w)' = Held(w) /\ HeldClaims(w)' = HeldClaims(w)
    BY <1>2 DEF Tick, jobVars, Held, Dispatching, HeldClaims, InDispatch
  <2>4. ASSUME NEW w \in Worker PROVE Owns(w)'
    <3>1. UNCHANGED <<status, attempts, processed, pc, batch, cur, cons>>
      BY <1>2 DEF Tick, jobVars
    <3>2. \A k \in HeldClaims(w) : age'[k.ev] < StaleAfter
      BY <1>d, <2>2
    <3>3. QED
      BY <1>a, <2>3, <3>1, <3>2 DEF Owns, InDispatch, InService, IsCalling, Serving
  <2>5. QED
    BY <1>a, <1>b, <2>3, <2>4
<1>3. ASSUME NEW w \in Worker, ProcessBatch(w) \/ Abandon(w) PROVE OwnershipInv'
  \* It is enough that w owns what it holds afterwards, that what it took was
  \* held by nobody, and that it left alone what the others hold.
  <2> DEFINE Untouched(e) == /\ status'[e] = status[e] /\ age'[e] = age[e]
                             /\ attempts'[e] = attempts[e]
                             /\ \A c \in Consumer : <<e, c>> \in processed' => <<e, c>> \in processed
             Rest == \A v \in Worker \ {w} :
                         /\ pc'[v] = pc[v] /\ cur'[v] = cur[v] /\ cons'[v] = cons[v]
                         /\ batch'[v] = batch[v]
  <2>a. ASSUME Rest, Owns(w)',
               \A v \in Worker \ {w} : (\A e \in Held(v) : Untouched(e)) /\ Held(v) \cap Held(w)' = {}
        PROVE OwnershipInv'
    <3>1. \A v \in Worker \ {w} : Owns(v)' /\ Held(v)' = Held(v)
      BY <1>a, <2>a, OthersKeepOwning
    <3>2. QED
      BY <1>a, <1>b, <2>a, <3>1
  \* Steps within the dispatch of one event hold on to the same claims.
  <2>b. ASSUME Rest, UNCHANGED <<rowVars, batch, cur>>, InDispatch(w), InDispatch(w)',
               processed' \subseteq processed \cup {Serving(w)},
               IsCalling(w)' => Serving(w)' \notin processed'
        PROVE OwnershipInv'
    <3>1. Held(w)' = Held(w) /\ HeldClaims(w)' = HeldClaims(w)
      BY <2>b DEF Held, Dispatching, HeldClaims, InDispatch
    <3>2. cur[w].ev \in Held(w)
      BY <2>b DEF Held, Dispatching, InDispatch
    <3>3. Owns(w)'
      BY <1>a, <2>b, <3>1 DEF Owns, rowVars, InDispatch
    <3>4. \A v \in Worker \ {w} : \A e \in Held(v) : Untouched(e)
      BY <1>a, <2>b, <3>2 DEF rowVars, Serving
    <3>5. QED
      BY <1>a, <2>a, <2>b, <3>1, <3>3, <3>4
  <2>1. CASE Reap(w)
    <3>1. Rest /\ UNCHANGED <<attempts, processed, batch, cur>> /\ pc[w] = "idle" /\ pc'[w] = "claim"
      BY <2>1 DEF Reap, TypeOK
    <3>2. \A v \in Worker : \A e \in Held(v) : Untouched(e)
      BY <1>c, <2>1 DEF Reap, IsStale
    <3>3. HeldClaims(w)' = {} /\ Held(w)' = {} /\ batch'[w] = {}
      BY <1>a, <3>1 DEF Owns, HeldClaims, Held, Dispatching, InDispatch
    <3>4. Owns(w)'
      BY <3>1, <3>3 DEF Owns, InDispatch, InService, IsCalling
    <3>5. QED
      BY <2>a, <3>1, <3>2, <3>3, <3>4
  <2>2. CASE ClaimBatch(w)
    <3>1. PICK S \in SUBSET Event :
            /\ FullBatch(S)
            /\ status' = [e \in Event |-> IF e \in S THEN "processing" ELSE status[e]]
            /\ age' = [e \in Event |-> IF e \in S THEN 0 ELSE age[e]]
            /\ batch' = [batch EXCEPT ![w] = {[ev |-> e, attempts |-> attempts[e]] : e \in S}]
            /\ pc' = [pc EXCEPT ![w] = IF S = {} THEN "idle" ELSE "pick"]
      BY <2>2 DEF ClaimBatch
    <3>2. Rest /\ UNCHANGED <<attempts, processed, cur>>
      BY <2>2, <3>1 DEF ClaimBatch, TypeOK
    <3>3. \A e \in S : status[e] = "pending"
      BY <3>1 DEF FullBatch, Claimable
    <3>4. \A v \in Worker : Held(v) \cap S = {}
      BY <1>c, <3>3
    <3>5. /\ HeldClaims(w)' = {[ev |-> e, attempts |-> attempts[e]] : e \in S}
          /\ Held(w)' = S
          /\ pc'[w] = IF S = {} THEN "idle" ELSE "pick"
      <4>1. /\ batch'[w] = {[ev |-> e, attempts |-> attempts[e]] : e \in S}
            /\ pc'[w] = IF S = {} THEN "idle" ELSE "pick"
            /\ ~InDispatch(w)' /\ Dispatching(w)' = {}
        BY <3>1 DEF InDispatch, Dispatching, TypeOK
      <4>2. {k.ev : k \in {[ev |-> e, attempts |-> attempts[e]] : e \in S}} = S
        <5> DEFINE snap(e) == [ev |-> e, attempts |-> attempts[e]]
                   B == {snap(e) : e \in S}
        <5>1. \A e \in S : snap(e) \in B /\ snap(e).ev = e
          OBVIOUS
        <5>2. \A k \in B : k.ev \in S
          OBVIOUS
        <5> HIDE DEF B, snap
        <5>3. {k.ev : k \in B} = S
          BY <5>1, <5>2
        <5>4. QED
          BY <5>3 DEF B, snap
      <4>3. Held(w)' = S
        BY <4>1, <4>2 DEF Held
      <4>4. HeldClaims(w)' = batch'[w]
        BY <4>1 DEF HeldClaims
      <4>5. QED
        BY <4>1, <4>3, <4>4
    <3>6. Owns(w)'
      BY <3>1, <3>2, <3>5 DEF Owns, InDispatch, InService, IsCalling, HeldClaims
    <3>7. \A v \in Worker : \A e \in Held(v) : Untouched(e)
      BY <1>c, <3>1, <3>2, <3>4
    <3>8. QED
      BY <2>a, <3>2, <3>4, <3>5, <3>6, <3>7
  <2>3. CASE PickEvent(w)
    <3>1. PICK k \in batch[w] : batch'[w] = batch[w] \ {k} /\ cur'[w] = k
      BY <2>3 DEF PickEvent, TypeOK
    <3>2. Rest /\ UNCHANGED <<rowVars, processed>> /\ pc[w] = "pick" /\ pc'[w] = "scan"
      BY <2>3 DEF PickEvent, TypeOK
    <3>3. HeldClaims(w)' = HeldClaims(w) /\ HeldClaims(w) = batch[w]
      BY <3>1, <3>2 DEF HeldClaims, InDispatch
    <3>4. Held(w)' = Held(w)
      BY <3>1, <3>2 DEF Held, Dispatching
    <3>5. ASSUME NEW j \in batch[w], j.ev = k.ev PROVE j = k
      <4>1. j \in Claim /\ k \in Claim
        BY DEF TypeOK
      <4>2. j.attempts = k.attempts
        BY <1>a, <3>3, <3>5 DEF Owns
      <4>3. QED
        BY <3>5, <4>1, <4>2 DEF Claim
    <3>6. Owns(w)'
      BY <1>a, <3>1, <3>2, <3>3, <3>5 DEF Owns, InDispatch, InService, IsCalling, rowVars
    <3>7. QED
      BY <1>a, <2>a, <3>2, <3>4, <3>6 DEF rowVars
  <2>4. CASE VisitConsumer(w)
    <3>1. Rest /\ UNCHANGED <<rowVars, processed, batch, cur>> /\ pc[w] = "scan"
          /\ pc'[w] \in {"scan", "handle"}
      BY <2>4 DEF VisitConsumer, TypeOK
    <3>2. IsCalling(w)' => Serving(w)' \notin processed
      BY <2>4 DEF VisitConsumer, IsCalling, IsProcessed, Serving, TypeOK
    <3>3. QED
      BY <2>b, <3>1, <3>2 DEF InDispatch
  <2>5. CASE HandleOk(w)
    <3>1. Rest /\ UNCHANGED <<rowVars, processed, batch, cur, cons>> /\ pc[w] = "handle"
          /\ pc'[w] = "mark"
      BY <2>5 DEF HandleOk, TypeOK
    <3>2. QED
      BY <1>a, <2>b, <3>1 DEF InDispatch, InService, IsCalling, Owns, Serving
  <2>6. CASE CatchError(w)
    <3>1. Rest /\ UNCHANGED <<rowVars, batch, cur, cons>> /\ pc[w] \in {"handle", "mark"}
          /\ pc'[w] \in {"bury", "scan"} /\ processed' \subseteq processed \cup {Serving(w)}
      BY <2>6 DEF CatchError, AfterCatch, TypeOK
    <3>2. QED
      BY <1>a, <2>b, <3>1 DEF InDispatch, InService, IsCalling, Owns, Serving
  <2>7. CASE MarkProcessed(w)
    <3>1. Rest /\ UNCHANGED <<rowVars, batch, cur, cons>> /\ pc[w] \in {"mark", "markDead"}
          /\ pc'[w] = "scan" /\ processed' = processed \cup {Serving(w)}
      BY <2>7 DEF MarkProcessed, TypeOK
    <3>2. QED
      BY <2>b, <3>1 DEF InDispatch, InService, IsCalling
  <2>8. CASE DeadLetter(w)
    <3>1. Rest /\ UNCHANGED <<rowVars, processed, batch, cur, cons>> /\ pc[w] = "bury"
          /\ pc'[w] \in {"alert", "markDead"}
      BY <2>8 DEF DeadLetter, TypeOK
    <3>2. QED
      BY <1>a, <2>b, <3>1 DEF InDispatch, InService, IsCalling, Owns, Serving
  <2>9. CASE Alert(w)
    <3>1. Rest /\ UNCHANGED <<rowVars, processed, batch, cur, cons>> /\ pc[w] = "alert"
          /\ pc'[w] = "markDead"
      BY <2>9 DEF Alert, TypeOK
    <3>2. QED
      BY <1>a, <2>b, <3>1 DEF InDispatch, InService, IsCalling, Owns, Serving
  <2>10. CASE Finalize(w)
    <3>1. Rest /\ UNCHANGED <<processed, batch>> /\ pc[w] = "scan"
          /\ pc'[w] = IF batch[w] = {} THEN "idle" ELSE "pick"
      BY <2>10 DEF Finalize, TypeOK
    <3>2. \A e \in Event \ {cur[w].ev} : Untouched(e)
      BY <2>10 DEF Finalize, TypeOK
    <3>3. /\ HeldClaims(w)' = batch[w] /\ HeldClaims(w) = batch[w] \cup {cur[w]}
          /\ Held(w) = Held(w)' \cup {cur[w].ev}
      BY <3>1 DEF HeldClaims, InDispatch, Held, Dispatching
    <3>4. Owns(w)'
      BY <1>a, <1>d, <3>1, <3>2, <3>3 DEF Owns, InDispatch, InService, IsCalling
    <3>5. \A v \in Worker \ {w} : \A e \in Held(v) : Untouched(e)
      BY <1>a, <1>c, <3>2, <3>3
    <3>6. QED
      BY <1>a, <2>a, <3>1, <3>3, <3>4, <3>5
  <2>11. CASE Abandon(w)
    <3>1. Rest /\ UNCHANGED <<rowVars, processed>> /\ pc'[w] = "idle" /\ batch'[w] = {}
      BY <2>11 DEF Abandon, TypeOK
    <3>2. HeldClaims(w)' = {} /\ Held(w)' = {}
      BY <3>1 DEF HeldClaims, InDispatch, Held, Dispatching
    <3>3. Owns(w)'
      BY <3>1, <3>2 DEF Owns, InDispatch, InService, IsCalling
    <3>4. QED
      BY <2>a, <3>1, <3>2, <3>3 DEF rowVars
  <2>12. QED
    BY <1>3, <2>1, <2>2, <2>3, <2>4, <2>5, <2>6, <2>7, <2>8, <2>9, <2>10, <2>11
       DEF ProcessBatch
<1>4. CASE UNCHANGED vars
  <2>1. \A w \in Worker : Held(w)' = Held(w) /\ HeldClaims(w)' = HeldClaims(w)
    BY <1>4 DEF vars, jobVars, Held, Dispatching, HeldClaims, InDispatch
  <2>2. \A w \in Worker : Owns(w)'
    BY <1>4, <1>a, <2>1 DEF vars, rowVars, jobVars, Owns, InDispatch, InService, IsCalling, Serving
  <2>3. QED
    BY <1>a, <1>b, <2>1, <2>2
<1>5. QED
  BY <1>1, <1>2, <1>3, <1>4 DEF Next

\* Until a batch outlives the reaper's limit no two instances hold the same event.
THEOREM ClaimsAreExclusive == Spec => []ExclusiveDispatch
<1>1. OwnershipInv => ExclusiveDispatch
  BY DEF OwnershipInv, ExclusiveDispatch
<1>2. QED
  BY InitTypeInv, NextTypeInv, InitOwnershipInv, NextOwnershipInv, <1>1, PTL DEF Spec

\* Until then a terminal status is final and attempts never decrease, although
\* neither setStatus nor finalizeStatus looks at the row's current status.
THEOREM TerminalStatesAreFinal == Spec => TerminalIsFinal
<1> DEFINE Stays == \A e \in Event : stalls = 0 =>
                      /\ status[e] \in {"done", "failed"} => status'[e] = status[e]
                      /\ attempts'[e] >= attempts[e]
<1>1. ASSUME TypeInv, OwnershipInv, [Next]_vars PROVE [Stays]_vars
  <2> SUFFICES ASSUME stalls = 0, NEW e \in Event
               PROVE  /\ status[e] \in {"done", "failed"} => status'[e] = status[e]
                      /\ attempts'[e] >= attempts[e]
    OBVIOUS
  <2> USE <1>1 DEF TypeInv
  <2>0. attempts[e] \in Nat
    BY DEF TypeOK
  <2>1. CASE \E f \in Event : Enqueue(f)
    BY <2>0, <2>1 DEF Enqueue, TypeOK
  <2>2. CASE Tick
    BY <2>0, <2>2 DEF Tick
  <2>3. ASSUME NEW w \in Worker, Finalize(w)
        PROVE  /\ status[e] \in {"done", "failed"} => status'[e] = status[e]
               /\ attempts'[e] >= attempts[e]
    <3>1. cur[w] \in HeldClaims(w)
      BY <2>3 DEF Finalize, HeldClaims, InDispatch
    <3>2. status[cur[w].ev] = "processing" /\ cur[w].attempts = attempts[cur[w].ev]
      BY <3>1 DEF OwnershipInv, Owns
    <3>3. QED
      BY <2>0, <2>3, <3>2, ServingType DEF Finalize, TypeOK
  <2>4. ASSUME NEW w \in Worker, ProcessBatch(w) \/ Abandon(w), ~Finalize(w)
        PROVE  /\ status[e] \in {"done", "failed"} => status'[e] = status[e]
               /\ attempts'[e] = attempts[e]
    BY <2>4 DEF ProcessBatch, Reap, IsStale, ClaimBatch, FullBatch, Claimable, PickEvent,
       VisitConsumer, HandleOk, CatchError, MarkProcessed, DeadLetter, Alert, Abandon,
       rowVars, TypeOK
  <2>5. CASE UNCHANGED vars
    BY <2>0, <2>5 DEF vars, rowVars
  <2>6. QED
    BY <2>0, <2>1, <2>2, <2>3, <2>4, <2>5 DEF Next
<1>2. QED
  BY InitTypeInv, NextTypeInv, InitOwnershipInv, NextOwnershipInv, <1>1, PTL
     DEF Spec, TerminalIsFinal

-----------------------------------------------------------------------------
(* Refinement: without stalls every step is a step of EventDelivery or       *)
(* leaves phase, heard, buried and settled as they are.                      *)

LEMMA InitDelivery == Init => Delivery!Init
  BY DEF Init, Delivery!Init, PhaseOf, Pair, Delivery!Pair

LEMMA StepDelivery ==
  ASSUME TypeOK, OutcomeInv, OwnershipInv, stalls = 0, [Next]_vars
  PROVE  [Delivery!Next]_(Delivery!vars)
<1> DEFINE AVars == Delivery!vars
           Invisible == UNCHANGED <<status, handled, dead, processed>>
<1>0. ASSUME Invisible PROVE [Delivery!Next]_AVars
  BY <1>0 DEF Delivery!vars
\* A worker that serves a consumer holds an open event, and while it calls the
\* handler the pair is not settled.
<1>a. ASSUME NEW w \in Worker, InService(w)
      PROVE  /\ cur[w].ev \in Event /\ cons[w] \in Subs[cur[w].ev] /\ cons[w] \in Consumer
             /\ Serving(w) \in Pair /\ Serving(w) = <<cur[w].ev, cons[w]>>
             /\ PhaseOf(status[cur[w].ev]) = "open"
             /\ IsCalling(w) => Serving(w) \notin processed
  <2>1. cur[w] \in HeldClaims(w) /\ InDispatch(w)
    BY <1>a DEF HeldClaims, InDispatch, InService
  <2>2. status[cur[w].ev] = "processing" /\ (IsCalling(w) => Serving(w) \notin processed)
    BY <1>a, <2>1 DEF OwnershipInv, Owns
  <2>3. cons[w] \in Subs[cur[w].ev]
    BY <1>a, <2>1 DEF OutcomeInv, PassKnowledge
  <2>4. cur[w].ev \in Event /\ cons[w] \in Consumer
    BY ServingType DEF TypeOK
  <2>5. QED
    BY <2>2, <2>3, <2>4, ServingType DEF PhaseOf, Serving
\* Inserting the row of a pair that was handled or buried settles the pair, or
\* was done before.
<1>b. ASSUME NEW w \in Worker, InService(w), UNCHANGED <<status, dead, handled>>,
             processed' = processed \cup {Serving(w)},
             handled[Serving(w)] > 0 \/ Serving(w) \in dead
      PROVE  [Delivery!Next]_AVars
  <2>1. CASE Serving(w) \in processed
    <3>1. processed' = processed
      BY <1>b, <2>1
    <3>2. QED
      BY <1>0, <1>b, <3>1
  <2>2. CASE Serving(w) \notin processed
    <3>1. Delivery!Owed(cur[w].ev, cons[w])
      BY <1>a, <1>b, <2>2 DEF Delivery!Owed
    <3>2. Delivery!Settle(cur[w].ev, cons[w])
      BY <1>a, <1>b, <3>1 DEF Delivery!Settle
    <3>3. QED
      BY <1>a, <1>b, <3>2 DEF Delivery!Next
  <2>3. QED
    BY <2>1, <2>2
<1>1. ASSUME NEW e \in Event, Enqueue(e) PROVE [Delivery!Next]_AVars
  <2>1. Delivery!Publish(e)
    BY <1>1 DEF Enqueue, Delivery!Publish, PhaseOf, seenVars, TypeOK
  <2>2. QED
    BY <2>1 DEF Delivery!Next
<1>2. CASE Tick
  BY <1>0, <1>2 DEF Tick, seenVars
<1>3. ASSUME NEW w \in Worker, Reap(w) \/ ClaimBatch(w) PROVE [Delivery!Next]_AVars
  <2>1. \A e \in Event : PhaseOf(status'[e]) = PhaseOf(status[e])
    BY <1>3 DEF Reap, IsStale, ClaimBatch, FullBatch, Claimable, PhaseOf, TypeOK
  <2>2. UNCHANGED <<handled, dead, processed>>
    BY <1>3 DEF Reap, ClaimBatch, seenVars
  <2>3. QED
    BY <2>1, <2>2 DEF Delivery!vars
<1>4. ASSUME NEW w \in Worker, PickEvent(w) \/ VisitConsumer(w) \/ Alert(w) \/ Abandon(w)
      PROVE  [Delivery!Next]_AVars
  BY <1>0, <1>4 DEF PickEvent, VisitConsumer, Alert, Abandon, rowVars, seenVars
<1>5. ASSUME NEW w \in Worker, HandleOk(w) PROVE [Delivery!Next]_AVars
  <2>1. InService(w) /\ IsCalling(w) /\ UNCHANGED <<status, dead, processed>>
    BY <1>5 DEF HandleOk, InService, IsCalling, rowVars
  <2>2. handled' = [handled EXCEPT ![<<cur[w].ev, cons[w]>>] = @ + 1]
    BY <1>5, <1>a, <2>1 DEF HandleOk
  <2>3. Delivery!Owed(cur[w].ev, cons[w])
    BY <1>a, <2>1 DEF Delivery!Owed
  <2>4. Delivery!Deliver(cur[w].ev, cons[w])
    BY <2>1, <2>2, <2>3 DEF Delivery!Deliver
  <2>5. QED
    BY <1>a, <2>1, <2>4 DEF Delivery!Next
<1>6. ASSUME NEW w \in Worker, MarkProcessed(w) PROVE [Delivery!Next]_AVars
  <2>1. /\ InService(w) /\ pc[w] \in {"mark", "markDead"}
        /\ UNCHANGED <<status, dead, handled>> /\ processed' = processed \cup {Serving(w)}
    BY <1>6 DEF MarkProcessed, InService, rowVars, seenVars
  <2>2. handled[Serving(w)] > 0 \/ Serving(w) \in dead
    BY <2>1 DEF OutcomeInv, ServiceKnowledge
  <2>3. QED
    BY <1>b, <2>1, <2>2
\* A throw that follows the commit of the row settles the pair, any other is
\* invisible.
<1>11. ASSUME NEW w \in Worker, CatchError(w) PROVE [Delivery!Next]_AVars
  <2>1. InService(w) /\ UNCHANGED <<status, dead, handled>>
    BY <1>11 DEF CatchError, InService, rowVars
  <2>2. CASE UNCHANGED processed
    BY <1>0, <2>1, <2>2
  <2>3. CASE pc[w] = "mark" /\ processed' = processed \cup {Serving(w)}
    <3>1. handled[Serving(w)] > 0
      BY <2>3 DEF OutcomeInv, ServiceKnowledge
    <3>2. QED
      BY <1>b, <2>1, <2>3, <3>1
  <2>4. QED
    BY <1>11, <2>2, <2>3 DEF CatchError
\* A pair that was settled behind the worker's back was handled, or is buried
\* already.
<1>7. ASSUME NEW w \in Worker, DeadLetter(w) PROVE [Delivery!Next]_AVars
  <2>1. InService(w) /\ UNCHANGED <<status, processed, handled>> /\ dead' = dead \cup {Serving(w)}
    BY <1>7 DEF DeadLetter, InService, rowVars, seenVars
  <2>2. CASE Serving(w) \in dead
    <3>1. dead' = dead
      BY <2>1, <2>2
    <3>2. QED
      BY <1>0, <2>1, <3>1
  <2>3. CASE Serving(w) \notin dead
    <3>1. Serving(w) \notin processed \/ handled[Serving(w)] > 0
      BY <2>3 DEF OutcomeInv, ProcessedIsAccountedFor
    <3>2. Delivery!Bury(cur[w].ev, cons[w])
      BY <1>a, <2>1, <3>1 DEF Delivery!Bury
    <3>3. QED
      BY <1>a, <2>1, <3>2 DEF Delivery!Next
  <2>4. QED
    BY <2>2, <2>3
<1>8. ASSUME NEW w \in Worker, Finalize(w) PROVE [Delivery!Next]_AVars
  <2> DEFINE e == cur[w].ev
  <2>1. /\ UNCHANGED <<processed, dead, handled>> /\ pc[w] = "scan" /\ todo[w] = {}
        /\ e \in Event /\ cur[w] \in HeldClaims(w) /\ InDispatch(w) /\ ~InService(w)
    BY <1>8, ServingType DEF Finalize, seenVars, HeldClaims, InDispatch, InService
  <2>2. status[e] = "processing"
    BY <2>1 DEF OwnershipInv, Owns
  <2>3. status' = [status EXCEPT ![e] = IF allOk[w] THEN "done"
                                        ELSE IF Retries(w) THEN "pending" ELSE "failed"]
    BY <1>8 DEF Finalize
  <2>4. CASE ~allOk[w] /\ Retries(w)
    <3>1. \A f \in Event : PhaseOf(status'[f]) = PhaseOf(status[f])
      BY <2>1, <2>2, <2>3, <2>4 DEF PhaseOf, TypeOK
    <3>2. QED
      BY <2>1, <3>1 DEF Delivery!vars
  <2>5. CASE allOk[w] \/ ~Retries(w)
    <3>1. \A c \in Subs[e] : <<e, c>> \in processed
      BY <2>1, <2>5, ServingType DEF OutcomeInv, PassKnowledge, Visited, Retries, GivesUp
    <3>2. /\ \A f \in Event \ {e} : status'[f] = status[f]
          /\ status'[e] \in {"done", "failed"}
      BY <2>1, <2>3, <2>5 DEF TypeOK, Retries
    <3>3. Delivery!Close(e)
      BY <2>1, <2>2, <3>1, <3>2 DEF Delivery!Close, PhaseOf
    <3>4. QED
      BY <2>1, <3>3 DEF Delivery!Next
  <2>6. QED
    BY <2>4, <2>5
<1>9. CASE UNCHANGED vars
  BY <1>0, <1>9 DEF vars, rowVars, seenVars
<1>10. QED
  BY <1>1, <1>2, <1>3, <1>4, <1>5, <1>6, <1>7, <1>8, <1>9, <1>11
     DEF Next, ProcessBatch

\* If no batch outlives the reaper's limit, the outbox keeps the promise of
\* EventDelivery whatever the handlers do and wherever instances crash.
THEOREM OutboxImplementsDelivery ==
  ASSUME MaxStalls = 0
  PROVE  Spec => ImplementsDelivery
<1>1. TypeInv => stalls = 0
  BY DEF TypeInv, TypeOK
<1>2. TypeInv /\ OutcomeInv /\ OwnershipInv /\ [Next]_vars => [Delivery!Next]_(Delivery!vars)
  BY <1>1, StepDelivery DEF TypeInv
<1>3. QED
  BY InitTypeInv, NextTypeInv, InitOutcomeInv, NextOutcomeInv, InitOwnershipInv,
     NextOwnershipInv, InitDelivery, <1>2, PTL DEF Spec, ImplementsDelivery, Delivery!Spec
=============================================================================
