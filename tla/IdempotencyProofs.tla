-------------------------- MODULE IdempotencyProofs --------------------------
(***************************************************************************)
(* Proofs about the calls of one Idempotency-Key, for any number of calls, *)
(* payloads, outages, crashes and uncached responses.                      *)
(***************************************************************************)
EXTENDS Idempotency, FiniteSetTheorems, TLAPS

USE IdempotencyAssumption

-----------------------------------------------------------------------------
(* Type correctness. *)

LEMMA InitType == Init => TypeOK
  BY DEF Init, TypeOK, Stage

\* Every step of a call, and of the environment, keeps every type.
LEMMA NextType == TypeOK /\ [Next]_vars => TypeOK'
<1> SUFFICES ASSUME TypeOK, [Next]_vars PROVE TypeOK'
  OBVIOUS
<1> USE DEF TypeOK, Stage, Goto, storeVars, outcome, counts
<1>1. CASE Expire
  BY <1>1 DEF Expire
<1>2. CASE Crash
  <2>1. PICK S \in SUBSET Active :
          pc' = [c \in Call |-> IF c \in S THEN "dead" ELSE pc[c]]
    BY <1>2 DEF Crash
  <2>2. pc' \in [Call -> Stage]
    BY <2>1 DEF Ended
  <2>3. QED
    BY <1>2, <2>2 DEF Crash
<1>3. ASSUME NEW c \in Call, Claim(c) PROVE TypeOK'
  BY <1>3 DEF Claim
<1>4. ASSUME NEW c \in Call, ClaimFails(c) PROVE TypeOK'
  BY <1>4 DEF ClaimFails, Outage
<1>5. ASSUME NEW c \in Call, Read(c) PROVE TypeOK'
  BY <1>5 DEF Read, Ended
<1>6. ASSUME NEW c \in Call, ReadFails(c) PROVE TypeOK'
  BY <1>6 DEF ReadFails, Outage
<1>7. ASSUME NEW c \in Call, Mark(c) PROVE TypeOK'
  BY <1>7 DEF Mark, Outage
<1>8. ASSUME NEW c \in Call, Commit(c) PROVE TypeOK'
  BY <1>8 DEF Commit
<1>9. ASSUME NEW c \in Call, Throw(c) PROVE TypeOK'
  BY <1>9 DEF Throw
<1>10. ASSUME NEW c \in Call, ThrowLate(c) PROVE TypeOK'
  BY <1>10 DEF ThrowLate, Uncached
<1>11. ASSUME NEW c \in Call, Respond(c) PROVE TypeOK'
  BY <1>11 DEF Respond
<1>12. ASSUME NEW c \in Call, Complete(c) PROVE TypeOK'
  BY <1>12 DEF Complete, Uncached, Outage, Ended
<1>13. ASSUME NEW c \in Call, Release(c) PROVE TypeOK'
  BY <1>13 DEF Release, Outage, Ended
<1>14. CASE UNCHANGED vars
  BY <1>14 DEF vars
<1>15. QED
  BY <1>1, <1>2, <1>3, <1>4, <1>5, <1>6, <1>7, <1>8, <1>9, <1>10, <1>11, <1>12,
     <1>13, <1>14 DEF Next, Step

\* Every variable stays in its type, for any number of calls.
THEOREM IdempotencyTypeOK == Spec => []TypeOK
  BY InitType, NextType, PTL DEF Spec

-----------------------------------------------------------------------------
(* Who has run and who may still run. *)

\* The run of a call is recorded in ran exactly when the handler has committed;
\* a stored response is that of a run.
RunsKnown ==
    /\ \A c \in Call : pc[c] \in {"new", "read", "mark", "run"} => c \notin ran
    /\ \A c \in Call : pc[c] \in {"respond", "complete"} => c \in ran
    /\ key = "stored" => record \in ran

LEMMA NextRunsKnown == TypeOK /\ RunsKnown /\ [Next]_vars => RunsKnown'
<1> SUFFICES ASSUME TypeOK, RunsKnown, [Next]_vars PROVE RunsKnown'
  OBVIOUS
<1> USE DEF TypeOK, RunsKnown, Goto, storeVars, outcome, counts
<1>1. CASE Expire
  BY <1>1 DEF Expire
<1>2. CASE Crash
  BY <1>2 DEF Crash
<1>3. ASSUME NEW c \in Call, Claim(c) PROVE RunsKnown'
  BY <1>3 DEF Claim
<1>4. ASSUME NEW c \in Call, ClaimFails(c) PROVE RunsKnown'
  BY <1>4 DEF ClaimFails
<1>5. ASSUME NEW c \in Call, Read(c) PROVE RunsKnown'
  BY <1>5 DEF Read
<1>6. ASSUME NEW c \in Call, ReadFails(c) PROVE RunsKnown'
  BY <1>6 DEF ReadFails
<1>7. ASSUME NEW c \in Call, Mark(c) PROVE RunsKnown'
  BY <1>7 DEF Mark
<1>8. ASSUME NEW c \in Call, Commit(c) PROVE RunsKnown'
  BY <1>8 DEF Commit
<1>9. ASSUME NEW c \in Call, Throw(c) PROVE RunsKnown'
  BY <1>9 DEF Throw
<1>10. ASSUME NEW c \in Call, ThrowLate(c) PROVE RunsKnown'
  BY <1>10 DEF ThrowLate
<1>11. ASSUME NEW c \in Call, Respond(c) PROVE RunsKnown'
  BY <1>11 DEF Respond
<1>12. ASSUME NEW c \in Call, Complete(c) PROVE RunsKnown'
  BY <1>12 DEF Complete
<1>13. ASSUME NEW c \in Call, Release(c) PROVE RunsKnown'
  BY <1>13 DEF Release
<1>14. CASE UNCHANGED vars
  BY <1>14 DEF vars
<1>15. QED
  BY <1>1, <1>2, <1>3, <1>4, <1>5, <1>6, <1>7, <1>8, <1>9, <1>10, <1>11, <1>12,
     <1>13, <1>14 DEF Next, Step

\* Calls that will run the command, or will free the key.
Pending == {c \in Call : pc[c] \in {"mark", "run", "release"}}
Free == IF key = "absent" THEN 1 ELSE 0

\* The charge: runs made, runs and releases to come, and the run a free key
\* would allow never exceed one by more than the lapses.
Charged == Cardinality(ran) + Cardinality(Pending) + Free <= 1 + Lapses

LEMMA SizesType ==
  ASSUME TypeOK
  PROVE  /\ IsFiniteSet(ran) /\ Cardinality(ran) \in Nat
         /\ IsFiniteSet(Pending) /\ Cardinality(Pending) \in Nat
         /\ Lapses \in Nat /\ Free \in {0, 1}
<1>1. ran \in SUBSET Call /\ Pending \in SUBSET Call
  BY DEF TypeOK, Pending
<1>2. QED
  BY <1>1, FS_Subset, FS_CardinalityType DEF TypeOK, Lapses, Free

\* One call moves: Pending gains it, loses it or stays.
LEMMA PendingMoves ==
  ASSUME TypeOK, NEW c \in Call, NEW s \in Stage, Goto(c, s)
  PROVE  Cardinality(Pending') =
           IF s \in {"mark", "run", "release"}
           THEN IF c \in Pending THEN Cardinality(Pending) ELSE Cardinality(Pending) + 1
           ELSE IF c \in Pending THEN Cardinality(Pending) - 1 ELSE Cardinality(Pending)
<1>1. CASE s \in {"mark", "run", "release"}
  <2>1. Pending' = Pending \cup {c}
    BY <1>1 DEF Goto, TypeOK, Pending
  <2>2. QED
    BY <1>1, <2>1, SizesType, FS_AddElement
<1>2. CASE s \notin {"mark", "run", "release"}
  <2>1. Pending' = Pending \ {c}
    BY <1>2 DEF Goto, TypeOK, Pending
  <2>2. QED
    BY <1>2, <2>1, SizesType, FS_RemoveElement
<1>3. QED
  BY <1>1, <1>2

LEMMA NextCharged == TypeOK /\ TypeOK' /\ RunsKnown /\ Charged /\ [Next]_vars => Charged'
<1> SUFFICES ASSUME TypeOK, TypeOK', RunsKnown, Charged, [Next]_vars PROVE Charged'
  OBVIOUS
<1> DEFINE R == Cardinality(ran)  P == Cardinality(Pending)
<1>a. R \in Nat /\ P \in Nat /\ Lapses \in Nat
  BY SizesType
<1>b. R + P + Free <= 1 + Lapses
  BY DEF Charged
<1>c. SUFFICES R' + P' + Free' <= 1 + Lapses'
  BY DEF Charged
<1>t. expiries \in Nat /\ vanished \in Nat /\ wiped \in Nat /\ outages \in Nat /\ uncached \in Nat
  BY DEF TypeOK
<1> HIDE DEF R, P
<1>same. ran' = ran => R' = R
  BY DEF R
<1>still. pc' = pc => P' = P
  BY DEF P, Pending
<1>moves. ASSUME NEW c \in Call, NEW s \in Stage, Goto(c, s)
          PROVE  P' = IF s \in {"mark", "run", "release"}
                      THEN IF pc[c] \in {"mark", "run", "release"} THEN P ELSE P + 1
                      ELSE IF pc[c] \in {"mark", "run", "release"} THEN P - 1 ELSE P
  BY <1>moves, PendingMoves DEF P, Pending
<1> USE DEF Lapses, Free, storeVars, outcome, counts, Stage
<1>1. CASE Expire
  BY <1>1, <1>a, <1>b, <1>t, <1>same, <1>still DEF Expire
<1>2. CASE Crash
  <2>1. PICK S \in SUBSET Active :
          pc' = [c \in Call |-> IF c \in S THEN "dead" ELSE pc[c]]
    BY <1>2 DEF Crash
  <2>2. Pending' \in SUBSET Pending
    BY <2>1 DEF Pending
  <2>3. P' <= P /\ P' \in Nat
    BY <2>2, SizesType, FS_Subset, FS_CardinalityType DEF P
  <2>4. QED
    BY <1>2, <2>3, <1>a, <1>b, <1>t, <1>same DEF Crash
<1>3. ASSUME NEW c \in Call, Claim(c) PROVE R' + P' + Free' <= 1 + Lapses'
  <2>1. CASE key = "absent"
    <3>1. P' = P + 1
      BY <1>3, <2>1, <1>moves DEF Claim
    <3>2. QED
      BY <1>3, <2>1, <3>1, <1>a, <1>b, <1>t, <1>same DEF Claim
  <2>2. CASE key # "absent"
    <3>1. P' = P
      BY <1>3, <2>2, <1>moves DEF Claim
    <3>2. QED
      BY <1>3, <2>2, <3>1, <1>a, <1>b, <1>t, <1>same DEF Claim
  <2>3. QED
    BY <2>1, <2>2
<1>4. ASSUME NEW c \in Call, ClaimFails(c) PROVE R' + P' + Free' <= 1 + Lapses'
  <2>1. P' = P + 1
    BY <1>4, <1>moves DEF ClaimFails
  <2>2. QED
    BY <1>4, <2>1, <1>a, <1>b, <1>t, <1>same DEF ClaimFails, Outage
<1>5. ASSUME NEW c \in Call, Read(c) PROVE R' + P' + Free' <= 1 + Lapses'
  <2>1. CASE key = "absent"
    <3>1. P' = P + 1
      BY <1>5, <2>1, <1>moves DEF Read, Replays
    <3>2. QED
      BY <1>5, <2>1, <3>1, <1>a, <1>b, <1>t, <1>same DEF Read, Replays
  <2>2. CASE key # "absent"
    <3>1. P' = P
      BY <1>5, <2>2, <1>moves DEF Read, Ended
    <3>2. QED
      BY <1>5, <2>2, <3>1, <1>a, <1>b, <1>t, <1>same DEF Read
  <2>3. QED
    BY <2>1, <2>2
<1>6. ASSUME NEW c \in Call, ReadFails(c) PROVE R' + P' + Free' <= 1 + Lapses'
  <2>1. P' = P + 1
    BY <1>6, <1>moves DEF ReadFails
  <2>2. QED
    BY <1>6, <2>1, <1>a, <1>b, <1>t, <1>same DEF ReadFails, Outage
<1>7. ASSUME NEW c \in Call, Mark(c) PROVE R' + P' + Free' <= 1 + Lapses'
  <2>1. P' = P
    BY <1>7, <1>moves DEF Mark
  <2>2. QED
    BY <1>7, <2>1, <1>a, <1>b, <1>t, <1>same DEF Mark, Outage
<1>8. ASSUME NEW c \in Call, Commit(c) PROVE R' + P' + Free' <= 1 + Lapses'
  <2>1. P' = P - 1
    BY <1>8, <1>moves DEF Commit
  <2>2. R' = R + 1
    BY <1>8, SizesType, FS_AddElement DEF Commit, RunsKnown, R
  <2>3. QED
    BY <1>8, <2>1, <2>2, <1>a, <1>b, <1>t DEF Commit
<1>9. ASSUME NEW c \in Call, Throw(c) PROVE R' + P' + Free' <= 1 + Lapses'
  <2>1. P' = P
    BY <1>9, <1>moves DEF Throw
  <2>2. QED
    BY <1>9, <2>1, <1>a, <1>b, <1>t, <1>same DEF Throw
<1>10. ASSUME NEW c \in Call, ThrowLate(c) PROVE R' + P' + Free' <= 1 + Lapses'
  <2>1. P' = P + 1
    BY <1>10, <1>moves DEF ThrowLate
  <2>2. QED
    BY <1>10, <2>1, <1>a, <1>b, <1>t, <1>same DEF ThrowLate, Uncached
<1>11. ASSUME NEW c \in Call, Respond(c) PROVE R' + P' + Free' <= 1 + Lapses'
  <2>1. P' = P
    BY <1>11, <1>moves DEF Respond
  <2>2. QED
    BY <1>11, <2>1, <1>a, <1>b, <1>t, <1>same DEF Respond
<1>12. ASSUME NEW c \in Call, Complete(c) PROVE R' + P' + Free' <= 1 + Lapses'
  <2>1. P' = P
    BY <1>12, <1>moves DEF Complete, Ended
  <2>2. QED
    BY <1>12, <2>1, <1>a, <1>b, <1>t, <1>same DEF Complete, Uncached, Outage
<1>13. ASSUME NEW c \in Call, Release(c) PROVE R' + P' + Free' <= 1 + Lapses'
  <2>1. P' = P - 1
    BY <1>13, <1>moves DEF Release, Ended
  <2>2. QED
    BY <1>13, <2>1, <1>a, <1>b, <1>t, <1>same DEF Release, Outage
<1>14. CASE UNCHANGED vars
  BY <1>14, <1>a, <1>b, <1>same, <1>still DEF vars
<1>15. QED
  BY <1>1, <1>2, <1>3, <1>4, <1>5, <1>6, <1>7, <1>8, <1>9, <1>10, <1>11, <1>12,
     <1>13, <1>14 DEF Next, Step

OnceInv == TypeOK /\ RunsKnown /\ Charged

LEMMA InitOnceInv == Init => OnceInv
<1> SUFFICES ASSUME Init PROVE OnceInv
  OBVIOUS
<1>1. RunsKnown
  BY DEF Init, RunsKnown
<1>2. ran = {} /\ Pending = {}
  BY DEF Init, Pending
<1>3. Charged
  BY <1>2, FS_EmptySet DEF Init, Charged, Free, Lapses
<1>4. QED
  BY <1>1, <1>3, InitType DEF OnceInv

LEMMA NextOnceInv == OnceInv /\ [Next]_vars => OnceInv'
  BY NextType, NextRunsKnown, NextCharged DEF OnceInv

-----------------------------------------------------------------------------
(* Once without lapses. *)

\* In a calm history the key is taken from the first claim on, and no call
\* has found it gone.
Calm ==
    /\ expiries + wiped + outages + uncached = 0
    /\ \A c \in Call : pc[c] # "failed"
CalmKeepsKey ==
    Calm => /\ vanished = 0
            /\ key = "absent" => \A c \in Call : pc[c] = "new"

LEMMA SumOfNaturals ==
  ASSUME NEW i \in Nat, NEW j \in Nat, NEW k \in Nat, NEW l \in Nat, i + j + k + l = 0
  PROVE  i = 0 /\ j = 0 /\ k = 0 /\ l = 0
  OBVIOUS

\* What ended stays ended, and nothing is ever uncounted: calm now means calm
\* before.
LEMMA CalmWasCalm ==
  ASSUME TypeOK, TypeOK', Next, Calm'
  PROVE  /\ Calm
         /\ expiries' = expiries /\ wiped' = wiped /\ outages' = outages
         /\ uncached' = uncached
<1>n. expiries \in Nat /\ wiped \in Nat /\ outages \in Nat /\ uncached \in Nat
  BY DEF TypeOK
<1>m. expiries' \in Nat /\ wiped' \in Nat /\ outages' \in Nat /\ uncached' \in Nat
  BY DEF TypeOK
<1>s. expiries' + wiped' + outages' + uncached' = 0
  BY DEF Calm
<1>t. expiries' = 0 /\ wiped' = 0 /\ outages' = 0 /\ uncached' = 0
  BY <1>m, <1>s, SumOfNaturals
<1> USE DEF TypeOK, Calm, Goto, storeVars, outcome, counts
<1>1. ASSUME Expire PROVE FALSE
  BY <1>1 DEF Expire
<1>2. CASE Crash
  <2>1. PICK S \in SUBSET Active :
          pc' = [c \in Call |-> IF c \in S THEN "dead" ELSE pc[c]]
    BY <1>2 DEF Crash
  <2>2. \A c \in Call : pc[c] # "failed"
    BY <2>1 DEF Active, Ended
  <2>3. wiped' = wiped \/ wiped' = wiped + 1
    BY <1>2 DEF Crash
  <2>4. UNCHANGED <<expiries, outages, uncached>>
    BY <1>2 DEF Crash
  <2>5. QED
    BY <1>n, <1>t, <2>2, <2>3, <2>4
<1>3. ASSUME NEW c \in Call, Step(c)
      PROVE  /\ Calm
             /\ expiries' = expiries /\ wiped' = wiped /\ outages' = outages
             /\ uncached' = uncached
  <2>1. pc[c] # "failed" /\ \A d \in Call : d # c => pc'[d] = pc[d]
    BY <1>3 DEF Step, Claim, ClaimFails, Read, ReadFails, Mark, Commit, Throw, ThrowLate,
                Respond, Complete, Release
  <2>2. /\ expiries' = expiries /\ wiped' = wiped
        /\ outages' = outages \/ outages' = outages + 1
        /\ uncached' = uncached \/ uncached' = uncached + 1
    BY <1>3 DEF Step, Claim, ClaimFails, Read, ReadFails, Mark, Commit, Throw, ThrowLate,
                Respond, Complete, Release, Outage, Uncached
  <2>3. \A d \in Call : pc[d] # "failed"
    BY <2>1
  <2>4. outages' = outages /\ uncached' = uncached
    BY <2>2, <1>n, <1>t
  <2>5. QED
    BY <2>2, <2>3, <2>4, <1>n, <1>t
<1>4. CASE UNCHANGED vars
  BY <1>4 DEF vars
<1>5. QED
  BY <1>1, <1>2, <1>3, <1>4 DEF Next

LEMMA NextCalmKeepsKey ==
  TypeOK /\ TypeOK' /\ CalmKeepsKey /\ [Next]_vars => CalmKeepsKey'
<1> SUFFICES ASSUME TypeOK, TypeOK', CalmKeepsKey, [Next]_vars, Calm' PROVE CalmKeepsKey'
  BY DEF CalmKeepsKey
<1>1. CASE Next
  <2>1. /\ Calm
        /\ expiries' = expiries /\ wiped' = wiped /\ outages' = outages
        /\ uncached' = uncached
    BY <1>1, CalmWasCalm
  <2>2. vanished = 0 /\ (key = "absent" => \A c \in Call : pc[c] = "new")
    BY <2>1 DEF CalmKeepsKey
  <2> USE DEF TypeOK, Calm, CalmKeepsKey, Goto, storeVars, outcome, counts
  <2>3. ASSUME Expire PROVE FALSE
    BY <2>3, <2>1 DEF Expire
  <2>4. CASE Crash
    BY <2>4, <2>1, <2>2 DEF Crash, Active
  <2>5. ASSUME NEW c \in Call, Step(c) PROVE CalmKeepsKey'
    <3>1. CASE Claim(c)
      BY <3>1, <2>2 DEF Claim
    <3>2. CASE Read(c)
      BY <3>2, <2>2 DEF Read
    <3>3. CASE Mark(c)
      BY <3>3, <2>2 DEF Mark, Outage
    <3>4. CASE Complete(c)
      BY <3>4, <2>1, <2>2 DEF Complete, Uncached, Outage
    <3>5. CASE Commit(c) \/ Throw(c) \/ Respond(c)
      BY <3>5, <2>2 DEF Commit, Throw, Respond
    <3>6. ASSUME ClaimFails(c) \/ ReadFails(c) \/ ThrowLate(c) PROVE FALSE
      BY <3>6, <2>1 DEF ClaimFails, ReadFails, ThrowLate, Outage, Uncached
    <3>7. ASSUME Release(c) PROVE FALSE
      BY <3>7 DEF Release
    <3>8. QED
      BY <2>5, <3>1, <3>2, <3>3, <3>4, <3>5, <3>6, <3>7 DEF Step
  <2>6. CASE UNCHANGED vars
    BY <2>6, <2>2 DEF vars
  <2>7. QED
    BY <1>1, <2>3, <2>4, <2>5, <2>6 DEF Next
<1>2. CASE UNCHANGED vars
  BY <1>2 DEF vars, CalmKeepsKey, Calm, storeVars, outcome, counts
<1>3. QED
  BY <1>1, <1>2

CalmInv == OnceInv /\ CalmKeepsKey

LEMMA InitCalmInv == Init => CalmInv
  BY InitOnceInv DEF Init, CalmInv, CalmKeepsKey

LEMMA NextCalmInv == CalmInv /\ [Next]_vars => CalmInv'
<1>1. OnceInv /\ [Next]_vars => OnceInv'
  BY NextOnceInv
<1>2. QED
  BY <1>1, NextCalmKeepsKey DEF CalmInv, OnceInv

\* No lapse means no second run: the charge of a calm history is one.
LEMMA CalmImpliesOnce == CalmInv => CalmMeansOnce
<1> SUFFICES ASSUME CalmInv, Calm PROVE Cardinality(ran) <= 1
  BY DEF CalmMeansOnce, Calm
<1>1. Lapses = 0
  BY DEF CalmInv, CalmKeepsKey, OnceInv, TypeOK, Calm, Lapses
<1>2. QED
  BY <1>1, SizesType DEF CalmInv, OnceInv, Charged

\* As long as the key is neither lost nor released by a failed handler, the
\* command runs at most once, for any number of calls and crashes.
THEOREM IdempotencyCalmMeansOnce == Spec => []CalmMeansOnce
  BY InitCalmInv, NextCalmInv, CalmImpliesOnce, PTL DEF Spec

-----------------------------------------------------------------------------
(* Refinement: every step is a step of CommandOnce, or invisible in it. *)

LEMMA InitOnce == Init => Once!Init
  BY DEF Init, Once!Init, Lapses

LEMMA RunStep ==
  ASSUME OnceInv, NEW c \in Call, Commit(c)
  PROVE  Once!Run(c)
<1>1. c \in Pending /\ c \notin ran
  BY DEF Commit, Pending, OnceInv, RunsKnown
<1>2. Cardinality(Pending) >= 1
  BY <1>1, SizesType, FS_EmptySet DEF OnceInv
<1>3. Cardinality(ran) <= Lapses
  BY <1>2, SizesType DEF OnceInv, Charged, Free
<1>4. answers' = answers /\ Lapses' = Lapses
  BY DEF Commit, counts, Lapses
<1>5. ran' = ran \cup {c}
  BY DEF Commit
<1>6. Once!Cardinality(ran) = Cardinality(ran)
  BY DEF Once!Cardinality, Cardinality
<1>7. QED
  BY <1>1, <1>3, <1>4, <1>5, <1>6 DEF Once!Run

LEMMA NextOnce == OnceInv /\ [Next]_vars => [Once!Next]_(Once!vars)
<1> SUFFICES ASSUME OnceInv, [Next]_vars PROVE Once!Next \/ UNCHANGED Once!vars
  OBVIOUS
<1> USE DEF OnceInv, TypeOK, storeVars, outcome, counts, Once!vars
<1>s. ASSUME UNCHANGED <<ran, answers, counts>> PROVE UNCHANGED Once!vars
  BY <1>s DEF Lapses
<1>l. ASSUME UNCHANGED <<ran, answers>>, Lapses' = Lapses + 1 PROVE Once!Next
  BY <1>l DEF Once!Next, Once!Lapse
<1>o. ASSUME UNCHANGED <<ran, answers>>, Outage PROVE Once!Next
  BY <1>o, <1>l DEF Outage, Lapses
<1>1. CASE Expire
  BY <1>1, <1>l DEF Expire, Lapses
<1>2. CASE Crash
  <2>1. UNCHANGED <<ran, answers>> /\ (wiped' = wiped \/ wiped' = wiped + 1)
    BY <1>2 DEF Crash
  <2>2. Lapses' = Lapses \/ Lapses' = Lapses + 1
    BY <1>2, <2>1 DEF Crash, Lapses
  <2>3. QED
    BY <2>1, <2>2, <1>l
<1>3. ASSUME NEW c \in Call, Claim(c) PROVE UNCHANGED Once!vars
  BY <1>3, <1>s DEF Claim
<1>4. ASSUME NEW c \in Call, ClaimFails(c) PROVE Once!Next
  BY <1>4, <1>o DEF ClaimFails
<1>5. ASSUME NEW c \in Call, Read(c) PROVE Once!Next \/ UNCHANGED Once!vars
  <2>1. CASE key = "absent"
    BY <1>5, <2>1, <1>l DEF Read, Replays, Lapses
  <2>2. CASE Replays(c)
    <3>1. /\ record \in ran /\ PayloadOf[record] = PayloadOf[c]
          /\ answers' = answers \cup {<<c, record>>}
          /\ UNCHANGED <<ran, Lapses>>
      BY <1>5, <2>2 DEF Read, Replays, RunsKnown, Lapses
    <3>2. Once!Answer(c)
      BY <3>1 DEF Once!Answer
    <3>3. QED
      BY <3>2 DEF Once!Next
  <2>3. CASE key # "absent" /\ ~Replays(c)
    BY <1>5, <2>3, <1>s DEF Read
  <2>4. QED
    BY <2>1, <2>2, <2>3
<1>6. ASSUME NEW c \in Call, ReadFails(c) PROVE Once!Next
  BY <1>6, <1>o DEF ReadFails
<1>7. ASSUME NEW c \in Call, Mark(c) PROVE Once!Next \/ UNCHANGED Once!vars
  BY <1>7, <1>s, <1>o DEF Mark
<1>8. ASSUME NEW c \in Call, Commit(c) PROVE Once!Next
  BY <1>8, RunStep DEF Once!Next
<1>9. ASSUME NEW c \in Call, Throw(c) PROVE UNCHANGED Once!vars
  BY <1>9, <1>s DEF Throw
<1>10. ASSUME NEW c \in Call, ThrowLate(c) PROVE Once!Next
  BY <1>10, <1>l DEF ThrowLate, Uncached, Lapses
<1>11. ASSUME NEW c \in Call, Respond(c) PROVE Once!Next
  <2>1. /\ c \in ran /\ answers' = answers \cup {<<c, c>>}
        /\ UNCHANGED <<ran, Lapses>>
    BY <1>11 DEF Respond, RunsKnown, Lapses
  <2>2. QED
    BY <2>1 DEF Once!Next, Once!Answer
<1>12. ASSUME NEW c \in Call, Complete(c) PROVE Once!Next \/ UNCHANGED Once!vars
  <2>1. CASE Outage
    BY <1>12, <2>1, <1>o DEF Complete
  <2>2. CASE UNCHANGED counts
    BY <1>12, <2>2, <1>s DEF Complete
  <2>3. CASE Uncached /\ UNCHANGED <<expiries, vanished, wiped, outages, crashes>>
    BY <1>12, <2>3, <1>l DEF Complete, Uncached, Lapses
  <2>4. QED
    BY <1>12, <2>1, <2>2, <2>3 DEF Complete
<1>13. ASSUME NEW c \in Call, Release(c) PROVE Once!Next \/ UNCHANGED Once!vars
  BY <1>13, <1>s, <1>o DEF Release
<1>14. CASE UNCHANGED vars
  BY <1>14, <1>s DEF vars
<1>15. QED
  BY <1>1, <1>2, <1>3, <1>4, <1>5, <1>6, <1>7, <1>8, <1>9, <1>10, <1>11, <1>12,
     <1>13, <1>14 DEF Next, Step

\* The interceptor and its store implement CommandOnce: a run beyond the first
\* is paid for by a lapse, and every answer is that of a run of the same body.
THEOREM IdempotencyImplementsOnce == Spec => ImplementsOnce
<1>1. OnceInv /\ [Next]_vars => [Once!Next]_(Once!vars)
  BY NextOnce
<1>2. QED
  BY InitOnceInv, NextOnceInv, InitOnce, <1>1, PTL DEF Spec, ImplementsOnce, Once!Spec
=============================================================================
