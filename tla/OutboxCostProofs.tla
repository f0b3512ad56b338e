-------------------------- MODULE OutboxCostProofs --------------------------
(***************************************************************************)
(* What crashes cost the outbox, for any number of events, consumers and   *)
(* instances: each one silences at most one dead letter, and repeats at    *)
(* most one completed call of a handler per consumer; without a crash and  *)
(* without a stall no event is done that a consumer did not handle.        *)
(***************************************************************************)
EXTENDS OutboxProofs, FiniteSetTheorems

-----------------------------------------------------------------------------
(* Alerts. *)

AlertInv == IsFiniteSet(SilentDeadLetters) /\ Cardinality(SilentDeadLetters) <= crashes

LEMMA InitAlertInv == Init => AlertInv
<1> SUFFICES ASSUME Init PROVE AlertInv
  OBVIOUS
<1>1. SilentDeadLetters = {}
  BY DEF Init, SilentDeadLetters
<1>2. QED
  BY <1>1, FS_EmptySet DEF Init, AlertInv

\* A worker about to alert goes on, a row enters dead_letter_events only together
\* with a worker about to alert, and a throwing sink is logged: no step but a
\* crash makes a dead letter silent.
LEMMA OnlyCrashesSilence ==
  ASSUME TypeOK, [Next]_vars, \A w \in Worker : ~Abandon(w)
  PROVE  SilentDeadLetters' \subseteq SilentDeadLetters /\ crashes' = crashes
<1> DEFINE Goes(w) == pc[w] = "alert" => pc'[w] = "alert" /\ Serving(w)' = Serving(w)
<1>0. ASSUME dead' = dead, alerted' = alerted, logged' = logged,
             \A w \in Worker : Goes(w), crashes' = crashes
      PROVE  SilentDeadLetters' \subseteq SilentDeadLetters /\ crashes' = crashes
  BY <1>0 DEF SilentDeadLetters
<1>1. CASE (\E e \in Event : Enqueue(e)) \/ Tick \/ UNCHANGED vars
  BY <1>0, <1>1 DEF Enqueue, Tick, vars, jobVars, seenVars, Serving
<1>2. ASSUME NEW w \in Worker, Reap(w) \/ ClaimBatch(w)
      PROVE  SilentDeadLetters' \subseteq SilentDeadLetters /\ crashes' = crashes
  BY <1>0, <1>2 DEF Reap, ClaimBatch, seenVars, Serving, TypeOK
<1>3. ASSUME NEW w \in Worker,
             PickEvent(w) \/ VisitConsumer(w) \/ HandleOk(w) \/ CatchError(w)
             \/ MarkProcessed(w) \/ Finalize(w)
      PROVE  SilentDeadLetters' \subseteq SilentDeadLetters /\ crashes' = crashes
  <2>1. pc[w] # "alert" /\ UNCHANGED <<dead, alerted, logged, crashes>>
    BY <1>3 DEF PickEvent, VisitConsumer, HandleOk, CatchError, MarkProcessed, Finalize, seenVars
  <2>2. \A v \in Worker \ {w} : pc'[v] = pc[v] /\ cur'[v] = cur[v] /\ cons'[v] = cons[v]
    BY <1>3 DEF PickEvent, VisitConsumer, HandleOk, CatchError, MarkProcessed, Finalize, TypeOK
  <2>3. QED
    BY <1>0, <2>1, <2>2 DEF Serving
<1>4. ASSUME NEW w \in Worker, DeadLetter(w)
      PROVE  SilentDeadLetters' \subseteq SilentDeadLetters /\ crashes' = crashes
  <2>1. /\ pc[w] = "bury" /\ UNCHANGED <<alerted, logged, cur, cons, crashes>>
        /\ dead' = dead \cup {Serving(w)}
        /\ pc'[w] = IF Serving(w) \in dead THEN "markDead" ELSE "alert"
        /\ \A v \in Worker \ {w} : pc'[v] = pc[v]
    BY <1>4 DEF DeadLetter, seenVars, TypeOK
  <2>2. \A v \in Worker : Serving(v)' = Serving(v)
    BY <2>1 DEF Serving
  <2>3. QED
    BY <2>1, <2>2 DEF SilentDeadLetters
<1>5. ASSUME NEW w \in Worker, Alert(w)
      PROVE  SilentDeadLetters' \subseteq SilentDeadLetters /\ crashes' = crashes
  <2>1. /\ UNCHANGED <<dead, cur, cons, crashes>>
        /\ alerted' \cup logged' = alerted \cup logged \cup {Serving(w)}
        /\ \A v \in Worker \ {w} : pc'[v] = pc[v]
    BY <1>5 DEF Alert, TypeOK
  <2>2. \A v \in Worker : Serving(v)' = Serving(v)
    BY <2>1 DEF Serving
  <2>3. QED
    BY <2>1, <2>2 DEF SilentDeadLetters
<1>6. QED
  BY <1>1, <1>2, <1>3, <1>4, <1>5 DEF Next, ProcessBatch

LEMMA CrashSilencesOne ==
  ASSUME TypeOK, NEW w \in Worker, Abandon(w)
  PROVE  SilentDeadLetters' \subseteq SilentDeadLetters \cup {Serving(w)} /\ crashes' = crashes + 1
<1>1. UNCHANGED <<dead, alerted, logged>> /\ crashes' = crashes + 1
  BY DEF Abandon, seenVars
<1>2. \A v \in Worker \ {w} : pc'[v] = pc[v] /\ Serving(v)' = Serving(v)
  BY DEF Abandon, Serving, TypeOK
<1>3. QED
  BY <1>1, <1>2 DEF SilentDeadLetters

LEMMA NextAlertInv == TypeOK /\ AlertInv /\ [Next]_vars => AlertInv'
<1> SUFFICES ASSUME TypeOK, AlertInv, [Next]_vars PROVE AlertInv'
  OBVIOUS
<1>0. crashes \in Nat /\ Cardinality(SilentDeadLetters) \in Nat
  BY FS_CardinalityType DEF AlertInv, TypeOK
<1>1. CASE \A w \in Worker : ~Abandon(w)
  <2>1. SilentDeadLetters' \subseteq SilentDeadLetters /\ crashes' = crashes
    BY <1>1, OnlyCrashesSilence
  <2>2. IsFiniteSet(SilentDeadLetters') /\ Cardinality(SilentDeadLetters') <= Cardinality(SilentDeadLetters)
    BY <2>1, FS_Subset DEF AlertInv
  <2>3. Cardinality(SilentDeadLetters') \in Nat
    BY <2>2, FS_CardinalityType
  <2>4. QED
    BY <1>0, <2>1, <2>2, <2>3 DEF AlertInv
<1>2. ASSUME NEW w \in Worker, Abandon(w) PROVE AlertInv'
  <2> DEFINE More == SilentDeadLetters \cup {Serving(w)}
  <2>1. SilentDeadLetters' \subseteq More /\ crashes' = crashes + 1
    BY <1>2, CrashSilencesOne
  <2>2. /\ IsFiniteSet(More)
        /\ Cardinality(More) = IF Serving(w) \in SilentDeadLetters THEN Cardinality(SilentDeadLetters)
                               ELSE Cardinality(SilentDeadLetters) + 1
    BY FS_AddElement DEF AlertInv
  <2> HIDE DEF More
  <2>3. IsFiniteSet(SilentDeadLetters') /\ Cardinality(SilentDeadLetters') <= Cardinality(More)
    BY <2>1, <2>2, FS_Subset
  <2>4. Cardinality(SilentDeadLetters') \in Nat /\ Cardinality(More) \in Nat
    BY <2>2, <2>3, FS_CardinalityType
  <2>5. QED
    BY <1>0, <2>1, <2>2, <2>3, <2>4 DEF AlertInv
<1>3. QED
  BY <1>1, <1>2

\* Every crash makes at most one dead letter silent.  Nothing else makes any:
\* not a throwing sink, whose failure is logged, not a lost answer, not the
\* concurrent dispatch of the same event.
THEOREM DeadLettersAreHeard == Spec => []SilentDeadLettersCostCrashes
<1>1. AlertInv => SilentDeadLettersCostCrashes
  BY DEF AlertInv, SilentDeadLettersCostCrashes
<1>2. TypeInv => TypeOK
  BY DEF TypeInv
<1>3. QED
  BY InitTypeInv, NextTypeInv, InitAlertInv, NextAlertInv, <1>1, <1>2, PTL DEF Spec

-----------------------------------------------------------------------------
(* Repeated calls.  Within one pass over an event a handler is called once   *)
(* per consumer.  A pass that leaves a called consumer without its           *)
(* processed_events row either counts an attempt or dies, so the calls of an *)
(* unprocessed consumer are at most the attempts, the crashes, and the one   *)
(* of the pass under way.                                                    *)

\* Consumers of the current event whose turn in this pass has begun and whose
\* handler is not still running.
Tried(w) == {c \in Subs[cur[w].ev] : c \notin todo[w] /\ (pc[w] = "handle" => c # cons[w])}
InPass(e, c) == \E w \in Worker : InDispatch(w) /\ cur[w].ev = e /\ c \in Tried(w)

TurnsAreTaken == \A w \in Worker : InService(w) => cons[w] \notin todo[w]

CallBounds ==
    \A e \in Event, c \in Consumer :
        /\ <<e, c>> \notin processed =>
              handled[<<e, c>>] <= crashes + attempts[e] + (IF InPass(e, c) THEN 1 ELSE 0)
        /\ handled[<<e, c>>] <= 1 + crashes + failures[<<e, c>>]

CallInv == TurnsAreTaken /\ (stalls = 0 => CallBounds)

LEMMA InitCallInv == Init => CallInv
<1> SUFFICES ASSUME Init PROVE CallInv
  OBVIOUS
<1>1. TurnsAreTaken
  BY DEF Init, TurnsAreTaken, InService
<1>2. \A w \in Worker : ~InDispatch(w)
  BY DEF Init, InDispatch
<1>3. ASSUME NEW e \in Event, NEW c \in Consumer
      PROVE  /\ handled[<<e, c>>] = 0 /\ failures[<<e, c>>] = 0 /\ attempts[e] = 0
             /\ ~InPass(e, c)
  <2>1. <<e, c>> \in Pair
    BY DEF Pair
  <2>2. ~InPass(e, c)
    BY <1>2 DEF InPass
  <2>3. attempts[e] = 0
    BY DEF Init
  <2>4. \A p \in Pair : handled[p] = 0 /\ failures[p] = 0
    BY DEF Init
  <2>5. QED
    BY <2>1, <2>2, <2>3, <2>4
<1>4. CallBounds
  <2>1. crashes = 0
    BY DEF Init
  <2>2. ASSUME NEW e \in Event, NEW c \in Consumer
        PROVE  /\ <<e, c>> \notin processed =>
                      handled[<<e, c>>] <= crashes + attempts[e]
                                           + (IF InPass(e, c) THEN 1 ELSE 0)
               /\ handled[<<e, c>>] <= 1 + crashes + failures[<<e, c>>]
    <3>1. /\ handled[<<e, c>>] = 0 /\ failures[<<e, c>>] = 0 /\ attempts[e] = 0
          /\ ~InPass(e, c)
      BY <1>3
    <3>2. QED
      BY <2>1, <3>1
  <2>3. QED
    BY <2>2 DEF CallBounds
<1>5. QED
  BY <1>1, <1>4 DEF CallInv

LEMMA NextTurnsAreTaken == TypeOK /\ TurnsAreTaken /\ [Next]_vars => TurnsAreTaken'
<1> SUFFICES ASSUME TypeOK, TurnsAreTaken, [Next]_vars PROVE TurnsAreTaken'
  OBVIOUS
<1> USE DEF TurnsAreTaken, InService
<1>1. CASE (\E e \in Event : Enqueue(e)) \/ Tick \/ UNCHANGED vars
  BY <1>1 DEF Enqueue, Tick, vars, jobVars
<1>2. ASSUME NEW w \in Worker, Reap(w) \/ ClaimBatch(w) \/ PickEvent(w)
      PROVE  TurnsAreTaken'
  BY <1>2 DEF Reap, ClaimBatch, PickEvent, TypeOK
<1>3. ASSUME NEW w \in Worker, VisitConsumer(w) PROVE TurnsAreTaken'
  BY <1>3 DEF VisitConsumer, TypeOK
<1>4. ASSUME NEW w \in Worker,
             HandleOk(w) \/ CatchError(w) \/ MarkProcessed(w) \/ DeadLetter(w) \/ Alert(w)
      PROVE  TurnsAreTaken'
  BY <1>4 DEF HandleOk, CatchError, AfterCatch, MarkProcessed, DeadLetter, Alert, TypeOK
<1>5. ASSUME NEW w \in Worker, Finalize(w) \/ Abandon(w) PROVE TurnsAreTaken'
  BY <1>5 DEF Finalize, Abandon, TypeOK
<1>6. QED
  BY <1>1, <1>2, <1>3, <1>4, <1>5 DEF Next, ProcessBatch

\* A step that completes no call keeps the bounds if a pass that ends without
\* the processed_events row is paid for.
LEMMA PaidPassesKeepBounds ==
  ASSUME TypeOK, TypeOK', CallBounds, handled' = handled, processed \subseteq processed',
         crashes' >= crashes, \A p \in Pair : failures'[p] >= failures[p],
         \A e \in Event : attempts'[e] >= attempts[e],
         \A e \in Event, c \in Consumer :
            <<e, c>> \notin processed /\ InPass(e, c) /\ ~InPass(e, c)' =>
               crashes' + attempts'[e] >= crashes + attempts[e] + 1
  PROVE  CallBounds'
<1> SUFFICES ASSUME NEW e \in Event, NEW c \in Consumer
             PROVE  /\ <<e, c>> \notin processed' =>
                          handled[<<e, c>>] <= crashes' + attempts'[e]
                                               + (IF InPass(e, c)' THEN 1 ELSE 0)
                    /\ handled[<<e, c>>] <= 1 + crashes' + failures'[<<e, c>>]
  BY DEF CallBounds
<1> DEFINE before == IF InPass(e, c) THEN 1 ELSE 0
           after  == IF InPass(e, c)' THEN 1 ELSE 0
<1>0. <<e, c>> \in Pair
  BY DEF Pair
<1>1. /\ crashes \in Nat /\ crashes' \in Nat /\ attempts[e] \in Nat /\ attempts'[e] \in Nat
      /\ handled[<<e, c>>] \in Nat
      /\ failures[<<e, c>>] \in Nat /\ failures'[<<e, c>>] \in Nat
  BY <1>0 DEF TypeOK
<1>2. handled[<<e, c>>] <= 1 + crashes' + failures'[<<e, c>>]
  <2>1. /\ handled[<<e, c>>] <= 1 + crashes + failures[<<e, c>>]
        /\ failures'[<<e, c>>] >= failures[<<e, c>>]
    BY <1>0 DEF CallBounds
  <2>2. QED
    BY <1>1, <2>1
<1>3. ASSUME <<e, c>> \notin processed'
      PROVE  handled[<<e, c>>] <= crashes' + attempts'[e] + after
  <2>1. handled[<<e, c>>] <= crashes + attempts[e] + before
    BY <1>3 DEF CallBounds
  <2>2. before \in {0, 1} /\ after \in {0, 1} /\ attempts'[e] >= attempts[e]
    OBVIOUS
  <2>3. before = 1 /\ after = 0 => crashes' + attempts'[e] >= crashes + attempts[e] + 1
    BY <1>3
  <2> HIDE DEF before, after
  <2>4. QED
    BY <1>1, <2>1, <2>2, <2>3
<1>4. QED
  BY <1>2, <1>3

LEMMA NextCallBounds ==
  ASSUME TypeInv, TypeInv', OutcomeInv, FailureInv, OwnershipInv, CallInv, [Next]_vars,
         stalls = 0
  PROVE  CallBounds'
<1> USE DEF TypeInv
<1>a. /\ CallBounds /\ TurnsAreTaken /\ \A w \in Worker : Owns(w)
      /\ \A v, w \in Worker : v # w => Held(v) \cap Held(w) = {}
  BY DEF CallInv, OwnershipInv, ExclusiveDispatch
<1>b. /\ crashes \in Nat
      /\ \A e \in Event : attempts[e] \in Nat
      /\ \A p \in Pair : failures[p] \in Nat /\ handled[p] \in Nat
  BY DEF TypeOK
\* A worker stays in its pass, or is in none.
<1> DEFINE Stays(w) == InDispatch(w) =>
               InDispatch(w)' /\ cur'[w].ev = cur[w].ev /\ Tried(w) \subseteq Tried(w)'
           Still(w) == /\ pc'[w] = pc[w] /\ cur'[w] = cur[w] /\ todo'[w] = todo[w]
                       /\ cons'[w] = cons[w]
           Goal == CallBounds'
<1>c. ASSUME NEW w \in Worker, Still(w) PROVE Stays(w)
  BY <1>c DEF InDispatch, Tried
<1>d. ASSUME UNCHANGED <<handled, attempts, crashes>>, processed \subseteq processed',
             \A p \in Pair : failures'[p] >= failures[p], \A w \in Worker : Stays(w)
      PROVE  Goal
  <2>1. \A e \in Event, c \in Consumer : InPass(e, c) => InPass(e, c)'
    BY <1>d DEF InPass
  <2>2. QED
    BY <1>a, <1>b, <1>d, <2>1, PaidPassesKeepBounds
<1>1. CASE (\E e \in Event : Enqueue(e)) \/ Tick \/ UNCHANGED vars
  <2>1. UNCHANGED <<handled, processed, attempts, crashes, failures>> /\ \A w \in Worker : Still(w)
    BY <1>1 DEF Enqueue, Tick, vars, rowVars, jobVars, seenVars
  <2>2. QED
    BY <1>b, <1>c, <1>d, <2>1
<1>2. ASSUME NEW w \in Worker, Reap(w) \/ ClaimBatch(w) \/ PickEvent(w) PROVE Goal
  <2>1. /\ UNCHANGED <<handled, processed, attempts, crashes, failures>>
        /\ ~InDispatch(w) /\ \A v \in Worker \ {w} : Still(v)
    BY <1>2 DEF Reap, ClaimBatch, PickEvent, rowVars, seenVars, InDispatch, TypeOK
  <2>2. QED
    BY <1>b, <1>c, <1>d, <2>1
<1>3. ASSUME NEW w \in Worker, VisitConsumer(w) PROVE Goal
  <2>1. PICK c \in todo[w] :
           /\ todo' = [todo EXCEPT ![w] = @ \ {c}]
           /\ \/ IsProcessed(w, c) /\ UNCHANGED <<pc, cons>>
              \/ /\ ~IsProcessed(w, c)
                 /\ cons' = [cons EXCEPT ![w] = c]
                 /\ pc' = [pc EXCEPT ![w] = "handle"]
    BY <1>3 DEF VisitConsumer
  <2>2. /\ UNCHANGED <<handled, processed, attempts, crashes, failures, cur>>
        /\ pc[w] = "scan" /\ pc'[w] \in {"scan", "handle"}
        /\ \A v \in Worker \ {w} : Still(v)
    BY <1>3, <2>1 DEF VisitConsumer, rowVars, seenVars, TypeOK
  <2>3. Tried(w) \subseteq Tried(w)'
    BY <2>1, <2>2 DEF Tried, TypeOK
  <2>4. Stays(w)
    BY <2>2, <2>3 DEF InDispatch
  <2>5. QED
    BY <1>b, <1>c, <1>d, <2>2, <2>4
<1>4. ASSUME NEW w \in Worker, MarkProcessed(w) PROVE Goal
  <2>1. /\ UNCHANGED <<handled, attempts, crashes, failures, cur, todo>>
        /\ pc[w] \in {"mark", "markDead"} /\ pc'[w] = "scan"
        /\ processed \subseteq processed' /\ \A v \in Worker \ {w} : Still(v)
    BY <1>4 DEF MarkProcessed, rowVars, seenVars, TypeOK
  <2>2. Stays(w)
    BY <2>1 DEF InDispatch, Tried
  <2>3. \A e \in Event, c \in Consumer : InPass(e, c) => InPass(e, c)'
    BY <1>c, <2>1, <2>2 DEF InPass
  <2>4. QED
    BY <1>a, <1>b, <2>1, <2>3, PaidPassesKeepBounds
<1>5. ASSUME NEW w \in Worker, CatchError(w) \/ DeadLetter(w) \/ Alert(w) PROVE Goal
  <2>1. /\ UNCHANGED <<handled, attempts, crashes, cur, todo, cons>>
        /\ processed \subseteq processed' /\ InDispatch(w) /\ InDispatch(w)' /\ pc'[w] # "handle"
        /\ \A v \in Worker \ {w} : Still(v)
    BY <1>5 DEF CatchError, AfterCatch, DeadLetter, Alert, rowVars, seenVars, InDispatch, TypeOK
  <2>2. \A p \in Pair : failures'[p] >= failures[p]
    <3>1. CASE CatchError(w)
      <4>1. \A p \in Pair : failures'[p] = failures[p] \/ failures'[p] = failures[p] + 1
        BY <3>1, ServingType DEF CatchError, TypeOK
      <4>2. QED
        BY <1>b, <4>1
    <3>2. CASE DeadLetter(w) \/ Alert(w)
      BY <1>b, <3>2 DEF DeadLetter, Alert, seenVars
    <3>3. QED
      BY <1>5, <3>1, <3>2
  <2>3. Stays(w)
    BY <2>1 DEF Tried
  <2>4. QED
    BY <1>c, <1>d, <2>1, <2>2, <2>3
\* The call completes in a pass of its own: nobody else holds the event.
<1>6. ASSUME NEW w \in Worker, HandleOk(w) PROVE Goal
  <2> DEFINE e0 == cur[w].ev
             c0 == cons[w]
  <2>1. /\ UNCHANGED <<processed, attempts, crashes, failures, cur, todo, cons>>
        /\ pc[w] = "handle" /\ pc'[w] = "mark" /\ handled' = [handled EXCEPT ![Serving(w)] = @ + 1]
        /\ \A v \in Worker \ {w} : Still(v)
    BY <1>6 DEF HandleOk, rowVars, TypeOK
  <2>2. /\ e0 \in Event /\ c0 \in Consumer /\ Serving(w) = <<e0, c0>> /\ <<e0, c0>> \in Pair
        /\ c0 \in Subs[e0] /\ <<e0, c0>> \notin processed /\ c0 \notin todo[w]
    <3>1. InDispatch(w) /\ InService(w) /\ IsCalling(w)
      BY <2>1 DEF InDispatch, InService, IsCalling
    <3>2. e0 \in Event /\ c0 \in Consumer /\ Serving(w) = <<e0, c0>> /\ <<e0, c0>> \in Pair
      BY ServingType DEF Serving, TypeOK
    <3>3. c0 \in Subs[e0]
      BY <3>1 DEF OutcomeInv, PassKnowledge
    <3>4. <<e0, c0>> \notin processed
      BY <1>a, <3>1, <3>2 DEF Owns
    <3>5. c0 \notin todo[w]
      BY <1>a, <3>1 DEF TurnsAreTaken
    <3>6. QED
      BY <3>2, <3>3, <3>4, <3>5
  <2>3. ~InPass(e0, c0)
    <3>1. \A v \in Worker \ {w} : InDispatch(v) => cur[v].ev # e0
      <4>1. \A v \in Worker : InDispatch(v) => cur[v].ev \in Held(v)
        BY DEF InDispatch, Held, Dispatching
      <4>2. e0 \in Held(w)
        BY <2>1 DEF Held, Dispatching
      <4>3. QED
        BY <1>a, <4>1, <4>2
    <3>2. c0 \notin Tried(w)
      BY <2>1 DEF Tried
    <3>3. QED
      BY <3>1, <3>2 DEF InPass
  <2>4. \A e, c : e = e0 /\ c = c0 => InPass(e, c)'
    BY <2>1, <2>2 DEF InPass, InDispatch, Tried
  <2>5. \A e \in Event, c \in Consumer : InPass(e, c) => InPass(e, c)'
    <3>1. Stays(w)
      BY <2>1 DEF InDispatch, Tried
    <3>2. QED
      BY <1>c, <2>1, <3>1 DEF InPass
  <2>6. ASSUME NEW e \in Event, NEW c \in Consumer, <<e, c>> = <<e0, c0>>
        PROVE  /\ InPass(e, c)'
               /\ handled'[<<e, c>>] <= crashes' + attempts'[e] + 1
               /\ handled'[<<e, c>>] <= 1 + crashes' + failures'[<<e, c>>]
    <3>1. handled[<<e0, c0>>] <= crashes + attempts[e0]
      <4>1. handled[<<e0, c0>>] <= crashes + attempts[e0] + 0
        BY <1>a, <2>2, <2>3 DEF CallBounds
      <4>2. QED
        BY <1>b, <2>2, <4>1
    <3>2. handled'[<<e0, c0>>] = handled[<<e0, c0>>] + 1
      BY <2>1, <2>2 DEF TypeOK
    <3>3. failures[<<e0, c0>>] >= attempts[e0]
      BY <2>2 DEF FailureInv, RowFailures
    <3>4. e = e0 /\ c = c0
      BY <2>6
    <3>5. InPass(e, c)'
      BY <2>4, <3>4
    <3> HIDE DEF e0, c0
    <3>6. QED
      BY <1>b, <2>1, <2>2, <3>1, <3>2, <3>3, <3>4, <3>5
  <2>7. ASSUME NEW e \in Event, NEW c \in Consumer, <<e, c>> # <<e0, c0>>
        PROVE  /\ <<e, c>> \notin processed' =>
                      handled'[<<e, c>>] <= crashes' + attempts'[e]
                                            + (IF InPass(e, c)' THEN 1 ELSE 0)
               /\ handled'[<<e, c>>] <= 1 + crashes' + failures'[<<e, c>>]
    <3>1. handled'[<<e, c>>] = handled[<<e, c>>] /\ <<e, c>> \in Pair
      BY <2>1, <2>2, <2>7 DEF TypeOK, Pair
    <3>2. /\ <<e, c>> \notin processed =>
                handled[<<e, c>>] <= crashes + attempts[e] + (IF InPass(e, c) THEN 1 ELSE 0)
          /\ handled[<<e, c>>] <= 1 + crashes + failures[<<e, c>>]
      BY <1>a DEF CallBounds
    <3> DEFINE before == IF InPass(e, c) THEN 1 ELSE 0
               after  == IF InPass(e, c)' THEN 1 ELSE 0
    <3>3. before \in {0, 1} /\ after \in {0, 1} /\ before <= after
      BY <2>5
    <3>4. <<e, c>> \notin processed => handled[<<e, c>>] <= crashes + attempts[e] + before
      BY <3>2
    <3> HIDE DEF before, after
    <3>5. <<e, c>> \notin processed => handled[<<e, c>>] <= crashes + attempts[e] + after
      BY <1>b, <3>1, <3>3, <3>4
    <3>6. QED
      BY <2>1, <3>1, <3>2, <3>5 DEF after
  <2> HIDE DEF e0, c0
  <2>8. ASSUME NEW e \in Event, NEW c \in Consumer
        PROVE  /\ <<e, c>> \notin processed' =>
                      handled'[<<e, c>>] <= crashes' + attempts'[e]
                                            + (IF InPass(e, c)' THEN 1 ELSE 0)
               /\ handled'[<<e, c>>] <= 1 + crashes' + failures'[<<e, c>>]
    <3>1. CASE <<e, c>> = <<e0, c0>>
      BY <2>6, <3>1
    <3>2. CASE <<e, c>> # <<e0, c0>>
      BY <2>7, <3>2
    <3>3. QED
      BY <3>1, <3>2
  <2>9. QED
    BY <2>8 DEF CallBounds
\* A pass that ends with an unprocessed consumer counts an attempt.
<1>7. ASSUME NEW w \in Worker, Finalize(w) PROVE Goal
  <2> DEFINE e0 == cur[w].ev
  <2>1. /\ UNCHANGED <<handled, processed, crashes, failures>>
        /\ pc[w] = "scan" /\ todo[w] = {} /\ InDispatch(w) /\ ~InService(w) /\ e0 \in Event
        /\ \A v \in Worker \ {w} : Still(v)
    BY <1>7, ServingType DEF Finalize, seenVars, InDispatch, InService, TypeOK
  <2>2. /\ \A e \in Event : e # e0 => attempts'[e] = attempts[e]
        /\ attempts'[e0] = IF allOk[w] THEN attempts[e0] ELSE attempts[e0] + 1
    <3>1. cur[w].attempts = attempts[e0]
      BY <1>a, <2>1 DEF Owns, HeldClaims
    <3>2. QED
      BY <1>7, <2>1, <3>1 DEF Finalize, TypeOK
  <2>3. allOk[w] => \A c \in Subs[e0] : <<e0, c>> \in processed
    BY <2>1, ServingType DEF OutcomeInv, PassKnowledge, Visited
  <2>4. ASSUME NEW e \in Event, NEW c \in Consumer,
               <<e, c>> \notin processed, InPass(e, c), ~InPass(e, c)'
        PROVE  crashes' + attempts'[e] >= crashes + attempts[e] + 1
    <3>1. e = e0 /\ c \in Subs[e0]
      BY <1>c, <2>1, <2>4 DEF InPass, Tried
    <3>2. attempts'[e] = attempts[e] + 1
      BY <2>2, <2>3, <2>4, <3>1
    <3>3. QED
      BY <1>b, <2>1, <3>2
  <2>5. /\ crashes' >= crashes
        /\ \A p \in Pair : failures'[p] >= failures[p]
        /\ \A e \in Event : attempts'[e] >= attempts[e]
    <3>1. \A e \in Event : attempts'[e] = attempts[e] \/ attempts'[e] = attempts[e] + 1
      BY <2>2
    <3>2. \A e \in Event : attempts'[e] >= attempts[e]
      BY <1>b, <3>1
    <3>3. QED
      BY <1>b, <2>1, <3>2
  <2>6. QED
    BY <1>a, <2>1, <2>4, <2>5, PaidPassesKeepBounds
<1>8. ASSUME NEW w \in Worker, Abandon(w) PROVE Goal
  <2>1. /\ UNCHANGED <<handled, processed, attempts, failures>> /\ crashes' = crashes + 1
    BY <1>8 DEF Abandon, rowVars, seenVars
  <2>2. QED
    BY <1>a, <1>b, <2>1, PaidPassesKeepBounds
<1>9. QED
  BY <1>1, <1>2, <1>3, <1>4, <1>5, <1>6, <1>7, <1>8 DEF Next, ProcessBatch

LEMMA NextCallInv ==
  TypeInv /\ TypeInv' /\ OutcomeInv /\ FailureInv /\ OwnershipInv /\ CallInv /\ [Next]_vars
      => CallInv'
<1> SUFFICES ASSUME TypeInv, TypeInv', OutcomeInv, FailureInv, OwnershipInv, CallInv,
                    [Next]_vars
             PROVE  CallInv'
  OBVIOUS
<1>1. TurnsAreTaken'
  BY NextTurnsAreTaken DEF TypeInv, CallInv
<1>2. stalls' = 0 => stalls = 0
  BY DEF Next, vars, Enqueue, Tick, ProcessBatch, Reap, ClaimBatch, PickEvent, VisitConsumer,
     HandleOk, CatchError, MarkProcessed, DeadLetter, Alert, Finalize, Abandon, TypeOK, TypeInv
<1>3. stalls' = 0 => CallBounds'
  BY <1>2, NextCallBounds
<1>4. QED
  BY <1>1, <1>3 DEF CallInv

\* Without a stall a handler that completed is called again only for a crash or
\* a failed visit, each of which pays for one call.
THEOREM RepeatsArePaidFor == Spec => []DuplicatesArePaidFor
<1>1. CallInv => DuplicatesArePaidFor
  BY DEF CallInv, CallBounds, DuplicatesArePaidFor, Pair
<1>2. QED
  BY InitTypeInv, NextTypeInv, InitOutcomeInv, NextOutcomeInv, InitFailureInv, NextFailureInv,
     InitOwnershipInv, NextOwnershipInv, InitCallInv, NextCallInv, <1>1, PTL DEF Spec
-----------------------------------------------------------------------------
(* Events silently done.  markProcessed also runs for a consumer that was    *)
(* dead-lettered without ever completing.  The event then has to end failed, *)
(* and what makes it so is only local state of the instance: its allOk, and  *)
(* the attempts it read.                                                     *)

GivingUp(w) == InDispatch(w) /\ ~allOk[w] /\ GivesUp(w)
NeverServed(e, c) == <<e, c>> \in processed /\ handled[<<e, c>>] = 0
Condemned(e) == status[e] = "failed" \/ \E w \in Worker : GivingUp(w) /\ cur[w].ev = e

SilentInv ==
    crashes = 0 /\ stalls = 0 =>
        \A e \in Event, c \in Consumer : NeverServed(e, c) => Condemned(e)

LEMMA InitSilentInv == Init => SilentInv
  BY DEF Init, SilentInv, NeverServed

\* A step that serves nobody less, keeps failed rows failed and leaves whoever
\* is giving up giving up keeps every event condemned that has to be.
LEMMA CondemnedStays ==
  ASSUME SilentInv, crashes = 0, stalls = 0,
         \A e \in Event, c \in Consumer :
            NeverServed(e, c)' => NeverServed(e, c) \/ Condemned(e)',
         \A e \in Event : status[e] = "failed" => status'[e] = "failed",
         \A w \in Worker : GivingUp(w) => GivingUp(w)' /\ cur'[w] = cur[w]
  PROVE  SilentInv'
<1>1. \A e \in Event : Condemned(e) => Condemned(e)'
  BY DEF Condemned
<1>2. QED
  BY <1>1 DEF SilentInv

LEMMA NextSilentInv ==
  ASSUME TypeInv, OutcomeInv, OwnershipInv, SilentInv, [Next]_vars, crashes = 0, stalls = 0,
         crashes' = 0
  PROVE  SilentInv'
<1> USE DEF TypeInv
<1>a. (\A w \in Worker : Owns(w)) /\ \A v, w \in Worker : v # w => Held(v) \cap Held(w) = {}
  BY DEF OwnershipInv, ExclusiveDispatch
<1> DEFINE FailedStays == \A e \in Event : status[e] = "failed" => status'[e] = "failed"
           Still(w) == pc'[w] = pc[w] /\ cur'[w] = cur[w] /\ allOk'[w] = allOk[w]
           Holds(w) == GivingUp(w) => GivingUp(w)' /\ cur'[w] = cur[w]
<1>b. ASSUME NEW w \in Worker, Still(w) PROVE Holds(w)
  BY <1>b DEF GivingUp, InDispatch, GivesUp
<1>c. ASSUME UNCHANGED <<processed, handled>>, FailedStays, \A w \in Worker : Holds(w)
      PROVE  SilentInv'
  <2>1. \A e \in Event, c \in Consumer : NeverServed(e, c)' => NeverServed(e, c)
    BY <1>c DEF NeverServed
  <2>2. QED
    BY <1>c, <2>1, CondemnedStays
<1>1. ASSUME NEW e \in Event, Enqueue(e) PROVE SilentInv'
  <2>1. FailedStays /\ \A w \in Worker : Still(w)
    BY <1>1 DEF Enqueue, jobVars, TypeOK
  <2>2. UNCHANGED <<processed, handled>>
    BY <1>1 DEF Enqueue, seenVars
  <2>3. QED
    BY <1>b, <1>c, <2>1, <2>2
<1>2. CASE Tick \/ UNCHANGED vars
  BY <1>2, <1>b, <1>c DEF Tick, vars, rowVars, jobVars, seenVars
<1>3. ASSUME NEW w \in Worker, Reap(w) \/ ClaimBatch(w) \/ PickEvent(w) PROVE SilentInv'
  <2>1. FailedStays
    BY <1>3 DEF Reap, IsStale, ClaimBatch, FullBatch, Claimable, PickEvent, rowVars, TypeOK
  <2>2. /\ UNCHANGED <<processed, handled>> /\ ~InDispatch(w)
        /\ \A v \in Worker \ {w} : Still(v)
    BY <1>3 DEF Reap, ClaimBatch, PickEvent, seenVars, InDispatch, TypeOK
  <2>3. QED
    BY <1>b, <1>c, <2>1, <2>2 DEF GivingUp
<1>4. ASSUME NEW w \in Worker, VisitConsumer(w) \/ DeadLetter(w) \/ Alert(w) PROVE SilentInv'
  <2>1. /\ UNCHANGED <<status, processed, handled, cur, allOk>>
        /\ InDispatch(w) /\ InDispatch(w)' /\ \A v \in Worker \ {w} : Still(v)
    BY <1>4 DEF VisitConsumer, DeadLetter, Alert, rowVars, seenVars, InDispatch, TypeOK
  <2>2. Holds(w)
    BY <2>1 DEF GivingUp, GivesUp
  <2>3. QED
    BY <1>b, <1>c, <2>1, <2>2
<1>5. ASSUME NEW w \in Worker, HandleOk(w) PROVE SilentInv'
  <2>1. /\ UNCHANGED <<status, processed, cur, allOk>> /\ InDispatch(w) /\ InDispatch(w)'
        /\ \A v \in Worker \ {w} : Still(v)
    BY <1>5 DEF HandleOk, rowVars, InDispatch, TypeOK
  <2>2. \A p \in Pair : handled'[p] = handled[p] \/ handled'[p] = handled[p] + 1
    BY <1>5, ServingType DEF HandleOk, TypeOK
  <2>3. \A e \in Event, c \in Consumer : NeverServed(e, c)' => NeverServed(e, c)
    <3>1. \A p \in Pair : handled[p] \in Nat
      BY DEF TypeOK
    <3>2. \A p \in Pair : handled'[p] = 0 => handled[p] = 0
      BY <2>2, <3>1
    <3>3. QED
      BY <2>1, <3>2 DEF NeverServed, Pair
  <2>4. Holds(w)
    BY <2>1 DEF GivingUp, GivesUp
  <2>5. QED
    BY <1>b, <2>1, <2>3, <2>4, CondemnedStays
<1>6. ASSUME NEW w \in Worker, CatchError(w) PROVE SilentInv'
  <2>1. /\ UNCHANGED <<status, handled, cur>> /\ InDispatch(w)' /\ ~allOk'[w]
        /\ \A v \in Worker \ {w} : Still(v)
        /\ \A p \in processed' : p \in processed \/ (pc[w] = "mark" /\ p = Serving(w))
    BY <1>6 DEF CatchError, AfterCatch, rowVars, InDispatch, TypeOK
  <2>2. Holds(w)
    BY <2>1 DEF GivingUp, GivesUp
  <2>3. \A e \in Event, c \in Consumer : NeverServed(e, c)' => NeverServed(e, c)
    BY <2>1 DEF NeverServed, OutcomeInv, ServiceKnowledge
  <2>4. QED
    BY <1>b, <2>1, <2>2, <2>3, CondemnedStays
\* The row is written after a completed call, or by whoever is giving up.
<1>7. ASSUME NEW w \in Worker, MarkProcessed(w) PROVE SilentInv'
  <2>1. /\ UNCHANGED <<status, handled, cur, allOk>> /\ processed' = processed \cup {Serving(w)}
        /\ pc[w] \in {"mark", "markDead"} /\ InDispatch(w) /\ InDispatch(w)'
        /\ \A v \in Worker \ {w} : Still(v)
    BY <1>7 DEF MarkProcessed, rowVars, seenVars, InDispatch, TypeOK
  <2>2. Holds(w)
    BY <2>1 DEF GivingUp, GivesUp
  <2>3. ASSUME NEW e \in Event, NEW c \in Consumer, NeverServed(e, c)'
        PROVE  NeverServed(e, c) \/ Condemned(e)'
    <3>1. CASE <<e, c>> \in processed
      BY <2>1, <2>3, <3>1 DEF NeverServed
    <3>2. CASE <<e, c>> = Serving(w)
      <4>1. pc[w] = "markDead"
        BY <2>1, <2>3, <3>2 DEF OutcomeInv, ServiceKnowledge, NeverServed
      <4>2. GivingUp(w) /\ cur[w].ev = e
        BY <2>1, <3>2, <4>1 DEF OutcomeInv, ServiceKnowledge, GivingUp, Serving
      <4>3. GivingUp(w)' /\ cur'[w].ev = e
        BY <2>2, <4>2
      <4>4. QED
        BY <4>3 DEF Condemned
    <3>3. QED
      BY <2>1, <2>3, <3>1, <3>2 DEF NeverServed
  <2>4. QED
    BY <1>b, <2>1, <2>2, <2>3, CondemnedStays
\* The only instance that holds the event is the one that gives up on it.
<1>8. ASSUME NEW w \in Worker, Finalize(w) PROVE SilentInv'
  <2> DEFINE e0 == cur[w].ev
  <2>1. /\ UNCHANGED <<processed, handled>> /\ InDispatch(w) /\ e0 \in Event
        /\ status'[e0] = (IF allOk[w] THEN "done" ELSE IF Retries(w) THEN "pending" ELSE "failed")
        /\ \A e \in Event \ {e0} : status'[e] = status[e]
        /\ \A v \in Worker \ {w} : Still(v)
    BY <1>8, ServingType DEF Finalize, seenVars, InDispatch, TypeOK
  <2>2. status[e0] = "processing"
    BY <1>a, <2>1 DEF Owns, HeldClaims
  <2>3. \A v \in Worker \ {w} : InDispatch(v) => cur[v].ev # e0
    <3>1. \A v \in Worker : InDispatch(v) => cur[v].ev \in Held(v)
      BY DEF InDispatch, Held, Dispatching
    <3>2. QED
      BY <1>a, <2>1, <3>1
  <2> HIDE DEF e0
  <2>4. ASSUME NEW e \in Event, Condemned(e) PROVE Condemned(e)'
    <3>1. CASE e = e0
      <4>1. GivingUp(w)
        BY <2>2, <2>3, <2>4, <3>1 DEF Condemned, GivingUp
      <4>2. cur[w].attempts + 1 >= MaxAttempts /\ cur[w].attempts \in Nat /\ ~allOk[w]
        BY <4>1, ServingType DEF GivingUp, GivesUp
      <4>3. ~Retries(w)
        BY <4>2, LimitsAssumption DEF Retries
      <4>4. QED
        BY <2>1, <3>1, <4>2, <4>3 DEF Condemned
    <3>2. CASE e # e0
      <4>1. CASE status[e] = "failed"
        BY <2>1, <3>2, <4>1 DEF Condemned
      <4>2. ASSUME NEW v \in Worker, GivingUp(v), cur[v].ev = e PROVE Condemned(e)'
        <5>1. v # w
          BY <3>2, <4>2 DEF e0
        <5>2. Holds(v)
          BY <1>b, <2>1, <5>1
        <5>3. QED
          BY <4>2, <5>2 DEF Condemned
      <4>3. QED
        BY <2>4, <4>1, <4>2 DEF Condemned
    <3>3. QED
      BY <3>1, <3>2
  <2>5. QED
    BY <2>1, <2>4 DEF SilentInv, NeverServed
<1>9. ASSUME NEW w \in Worker, Abandon(w) PROVE SilentInv'
  BY <1>9 DEF Abandon
<1>10. QED
  BY <1>1, <1>2, <1>3, <1>4, <1>5, <1>6, <1>7, <1>8, <1>9 DEF Next, ProcessBatch

LEMMA StepSilentInv ==
  TypeInv /\ OutcomeInv /\ OwnershipInv /\ SilentInv /\ [Next]_vars => SilentInv'
<1> SUFFICES ASSUME TypeInv, OutcomeInv, OwnershipInv, SilentInv, [Next]_vars
             PROVE  SilentInv'
  OBVIOUS
<1>1. stalls' = 0 => stalls = 0
  BY DEF Next, vars, Enqueue, Tick, ProcessBatch, Reap, ClaimBatch, PickEvent, VisitConsumer,
     HandleOk, CatchError, MarkProcessed, DeadLetter, Alert, Finalize, Abandon, TypeOK, TypeInv
<1>2. crashes' = 0 => crashes = 0
  BY DEF Next, vars, Enqueue, Tick, ProcessBatch, Reap, ClaimBatch, PickEvent, VisitConsumer,
     HandleOk, CatchError, MarkProcessed, DeadLetter, Alert, Finalize, Abandon, TypeOK, TypeInv
<1>3. CASE crashes' = 0 /\ stalls' = 0
  BY <1>1, <1>2, <1>3, NextSilentInv
<1>4. CASE ~(crashes' = 0 /\ stalls' = 0)
  BY <1>4 DEF SilentInv
<1>5. QED
  BY <1>3, <1>4

\* What the worker's unit test says of a throwing handler holds until an instance
\* dies or a batch outlives the reaper's limit, whatever the handlers do and
\* however many instances run: a done event was handled by each of its consumers.
THEOREM SilentDoneNeedsACrashOrStall ==
  Spec => [](crashes = 0 /\ stalls = 0 => NoSilentDone)
<1>1. ASSUME TypeInv, OutcomeInv, OwnershipInv, SilentInv, crashes = 0, stalls = 0
      PROVE  NoSilentDone
  <2> SUFFICES ASSUME NEW e \in Event, status[e] = "done", NEW c \in Subs[e],
                      ~(handled[<<e, c>>] > 0)
               PROVE  FALSE
    BY DEF NoSilentDone
  <2>1. c \in Consumer /\ <<e, c>> \in Pair /\ handled[<<e, c>>] \in Nat
    BY <1>1, SubsAssumption DEF TypeInv, TypeOK, Pair
  <2>2. NeverServed(e, c)
    BY <1>1, <2>1 DEF OutcomeInv, NoConsumerSkipped, NeverServed
  <2>3. PICK w \in Worker : GivingUp(w) /\ cur[w].ev = e
    BY <1>1, <2>1, <2>2 DEF SilentInv, Condemned
  <2>4. status[e] = "processing"
    BY <1>1, <2>3 DEF OwnershipInv, Owns, HeldClaims, GivingUp
  <2>5. QED
    BY <2>4
<1>2. QED
  BY InitTypeInv, NextTypeInv, InitOutcomeInv, NextOutcomeInv, InitOwnershipInv,
     NextOwnershipInv, InitSilentInv, StepSilentInv, <1>1, PTL DEF Spec
=============================================================================
