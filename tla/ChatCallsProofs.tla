-------------------------- MODULE ChatCallsProofs --------------------------
(***************************************************************************)
(* Theorems about the calls of a room, for any number of people and calls, *)
(* and any of them leaving or joining at any moment.                       *)
(***************************************************************************)
EXTENDS ChatCalls, TLAPS

(***************************************************************************)
(* Type correctness                                                        *)
(***************************************************************************)

\* A call is told of with an event of its own.
LEMMA ToldIsEvent ==
    ASSUME NEW c \in Call, NEW a \in Over
    PROVE Told(c, a) \in Event
BY DEF Told, Event

\* What becomes owed when calls end are events.
LEMMA TellType ==
    ASSUME TypeOK, NEW es \in SUBSET Event, Tell(es)
    PROVE owed' \subseteq Event /\ told' \subseteq Event /\ lost' \subseteq Event
BY DEF TypeOK, Tell

\* Settling the participants of a call with outcomes yields outcomes.
LEMMA SettleType ==
    ASSUME TypeOK, NEW c \in Call, NEW u \in User, NEW mine \in Outcome,
           NEW rest \in [User -> Outcome]
    PROVE Settle(c, u, mine, rest) \in [User -> Outcome]
BY DEF TypeOK, Settle

LEMMA EveryoneType ==
    ASSUME NEW o \in Outcome PROVE Everyone(o) \in [User -> Outcome]
BY DEF Everyone

\* The rows of a call that rang out.
LEMMA MissedType ==
    ASSUME TypeOK, NEW c \in Call PROVE MissedOutcome(c) \in [User -> Outcome]
BY DEF TypeOK, MissedOutcome, Outcome, Final

\* Writing one outcome changes one outcome.
LEMMA OneOutcome ==
    ASSUME TypeOK, NEW c \in Call, NEW u \in User, NEW o \in Outcome,
           NEW f, f = [outcome EXCEPT ![c][u] = o]
    PROVE /\ f \in [Call -> [User -> Outcome]]
          /\ \A d \in Call, v \in User :
                f[d][v] = IF d = c /\ v = u THEN o ELSE outcome[d][v]
<1>1. outcome \in [Call -> [User -> Outcome]]
  BY DEF TypeOK
<1> DEFINE g == [outcome[c] EXCEPT ![u] = o]
<1>2. g \in [User -> Outcome] /\ \A v \in User : g[v] = IF v = u THEN o ELSE outcome[c][v]
  BY <1>1
<1>3. f = [outcome EXCEPT ![c] = g]
  OBVIOUS
<1> HIDE DEF g
<1> QED BY <1>1, <1>2, <1>3

\* Every step keeps the types.
LEMMA TypeStep == TypeOK /\ [Next]_vars => TypeOK'
<1> USE ChatCallsAssumption
<1> SUFFICES ASSUME TypeOK, [Next]_vars PROVE TypeOK'
  OBVIOUS
<1>0. /\ members \subseteq User /\ late \subseteq User
      /\ status \in [Call -> Status] /\ initiator \in [Call -> User]
      /\ outcome \in [Call -> [User -> Outcome]]
      /\ joined \in [Call -> SUBSET User] /\ departed \in [Call -> SUBSET User]
  BY DEF TypeOK
<1>1. ASSUME NEW u \in User, Refused(u) PROVE TypeOK'
  BY <1>1 DEF TypeOK, Refused, rows, news
<1>2. ASSUME NEW u \in User, StartExit(u) PROVE TypeOK'
  <2>1. exit[u] = NoExit /\ exit \in [User -> Exit] /\ NoExit \in Exit
    BY <1>2 DEF StartExit, TypeOK, Exit, NoExit
  <2>2. exit' \in [User -> Exit]
    <3>1. [exit[u] EXCEPT !.on = TRUE] \in Exit
      BY <2>1 DEF Exit
    <3>2. ASSUME NEW c \in Call
          PROVE [on |-> TRUE, call |-> c, in |-> c \in answered /\ u \in joined[c]] \in Exit
      BY DEF Exit
    <3>3. \E e \in Exit : exit' = [exit EXCEPT ![u] = e]
      BY <1>2, <3>1, <3>2 DEF StartExit
    <3> QED BY <2>1, <3>3
  <2> QED BY <1>2, <2>2 DEF TypeOK, StartExit, rows, news
<1>3. ASSUME NEW u \in User, CommitExit(u) PROVE TypeOK'
  <2>1. exit[u] \in Exit /\ NoExit \in Exit
    BY DEF TypeOK, Exit, NoExit
  <2>2. exit' \in [User -> Exit]
    BY <1>3, <2>1 DEF CommitExit, TypeOK
  <2>9. members' \subseteq User /\ late' \subseteq User
        /\ UNCHANGED <<status, initiator, answered, joined, age, news>>
    BY <1>3, <1>0 DEF CommitExit
  <2>3. /\ outcome' \in [Call -> [User -> Outcome]]
        /\ departed' \in [Call -> SUBSET User] /\ exited' \in [Call -> SUBSET User]
    <3>1. CASE exit[u].call # NoCall /\ StillIn(exit[u].call, u)
      <4>1. exit[u].call \in Call
        BY <3>1, <2>1 DEF Exit
      <4>2. PICK o \in {"left", "missed"} :
              /\ outcome' = [outcome EXCEPT ![exit[u].call][u] = o]
              /\ departed' = [departed EXCEPT ![exit[u].call] =
                                IF exit[u].in THEN @ \cup {u} ELSE @]
              /\ exited' = [exited EXCEPT ![exit[u].call] = @ \cup {u}]
        BY <1>3, <3>1 DEF CommitExit
      <4>3. o \in Outcome
        BY DEF Outcome, Final
      <4>4. outcome' \in [Call -> [User -> Outcome]]
        BY <4>1, <4>2, <4>3, OneOutcome
      <4>5. /\ departed' \in [Call -> SUBSET User]
            /\ exited' \in [Call -> SUBSET User]
        BY <4>1, <4>2 DEF TypeOK
      <4> QED BY <4>4, <4>5
    <3>2. CASE ~(exit[u].call # NoCall /\ StillIn(exit[u].call, u))
      BY <1>3, <3>2 DEF CommitExit, TypeOK
    <3> QED BY <3>1, <3>2
  <2> QED BY <2>9, <2>2, <2>3 DEF TypeOK, news
<1>4. ASSUME NEW u \in User, AddMember(u) PROVE TypeOK'
  BY <1>4 DEF TypeOK, AddMember, rows, news
<1>5. ASSUME NEW u \in User, NEW c \in Call, Invite(u, c) PROVE TypeOK'
  <2> DEFINE es == {Told(d, "missed") : d \in RangTooLong}
  <2>1. InviteWith(u, c, es)
    BY <1>5 DEF Invite
  <2>2. es \subseteq Event
    BY ToldIsEvent DEF RangTooLong, Over
  <2> HIDE DEF es
  <2>3. status' \in [Call -> Status] /\ initiator' \in [Call -> User] /\ age' = Fresh
    BY <2>1, <1>0 DEF InviteWith, Status, Live, Over
  <2>4. PICK i \in Invitees(u) :
          /\ outcome' = [d \in Call |->
                IF d = c THEN [v \in User |-> IF v \in i THEN "open" ELSE "absent"]
                ELSE IF d \in RangTooLong THEN MissedOutcome(d)
                ELSE outcome[d]]
          /\ joined' = [joined EXCEPT ![c] = i \cap {u}]
    BY <2>1 DEF InviteWith
  <2>5. outcome' \in [Call -> [User -> Outcome]]
    <3>1. [v \in User |-> IF v \in i THEN "open" ELSE "absent"] \in [User -> Outcome]
      BY DEF Outcome
    <3> QED BY <2>4, <3>1, <1>0, MissedType
  <2>6. joined' \in [Call -> SUBSET User]
    BY <2>4, <1>0
  <2>7. late' \subseteq User /\ Tell(es)
    BY <2>1 DEF TypeOK, InviteWith, Admitted
  <2>9. owed' \subseteq Event /\ told' \subseteq Event /\ lost' \subseteq Event
    BY <2>2, <2>7, TellType
  <2>8. UNCHANGED <<members, answered, departed, exited, exit>>
    BY <2>1 DEF InviteWith
  <2> QED BY <2>3, <2>5, <2>6, <2>7, <2>8, <2>9 DEF TypeOK, Fresh, PastMax
<1>6. ASSUME NEW u \in User, NEW c \in Call, NEW from, NEW to \in Status,
             Transition(u, c, from, to)
      PROVE /\ members' \subseteq User /\ late' \subseteq User
            /\ status' \in [Call -> Status] /\ initiator' \in [Call -> User]
            /\ age' \in Fresh..PastMax
            /\ exited' \in [Call -> SUBSET User] /\ exit' \in [User -> Exit]
  BY <1>6 DEF TypeOK, Transition, Admitted, Fresh, PastMax
<1>7. ASSUME NEW u \in User, NEW c \in Call, Accept(u, c) PROVE TypeOK'
  <2>1. Transition(u, c, {"ringing"}, "active") /\ "active" \in Status
    BY <1>7 DEF Accept, Status, Live
  <2>2. outcome' \in [Call -> [User -> Outcome]] /\ joined' \in [Call -> SUBSET User]
    <3>1. "accepted" \in Outcome
      BY DEF Outcome
    <3>2. CASE StillIn(c, u)
      <4>1. /\ outcome' = [outcome EXCEPT ![c][u] = "accepted"]
            /\ joined' = [joined EXCEPT ![c] = @ \cup {u}]
        BY <1>7, <3>2 DEF Accept
      <4> QED BY <4>1, <3>1, OneOutcome, <1>0
    <3>3. CASE ~StillIn(c, u)
      BY <1>7, <3>3, <1>0 DEF Accept
    <3> QED BY <3>2, <3>3
  <2>3. answered' \subseteq Call /\ departed' \in [Call -> SUBSET User]
        /\ owed' \subseteq Event /\ told' \subseteq Event /\ lost' \subseteq Event
    BY <1>7 DEF TypeOK, Accept, news
  <2> QED BY <1>6, <2>1, <2>2, <2>3 DEF TypeOK
<1>8. ASSUME NEW u \in User, NEW c \in Call, Reject(u, c) PROVE TypeOK'
  <2>1. Transition(u, c, {"ringing"}, "rejected") /\ "rejected" \in Status
    BY <1>8 DEF Reject, Status, Over
  <2>2. Settle(c, u, "rejected", Everyone("missed")) \in [User -> Outcome]
    BY SettleType, EveryoneType DEF Outcome, Final
  <2>3. outcome' \in [Call -> [User -> Outcome]]
    BY <1>8, <1>0, <2>2 DEF Reject
  <2>4. answered' \subseteq Call /\ departed' \in [Call -> SUBSET User]
        /\ joined' \in [Call -> SUBSET User] /\ Tell({Told(c, "rejected")})
    BY <1>8 DEF TypeOK, Reject
  <2>5. owed' \subseteq Event /\ told' \subseteq Event /\ lost' \subseteq Event
    BY <2>4, ToldIsEvent, TellType DEF Over
  <2> QED BY <1>6, <2>1, <2>3, <2>4, <2>5 DEF TypeOK
<1>9. ASSUME NEW u \in User, NEW c \in Call, Cancel(u, c) PROVE TypeOK'
  <2>1. Transition(u, c, {"ringing"}, "cancelled") /\ "cancelled" \in Status
    BY <1>9 DEF Cancel, Status, Over
  <2>2. Settle(c, u, "cancelled", Everyone("cancelled")) \in [User -> Outcome]
    BY SettleType, EveryoneType DEF Outcome, Final
  <2>3. outcome' \in [Call -> [User -> Outcome]]
    BY <1>9, <1>0, <2>2 DEF Cancel
  <2>4. answered' \subseteq Call /\ departed' \in [Call -> SUBSET User]
        /\ joined' \in [Call -> SUBSET User] /\ Tell({Told(c, "cancelled")})
    BY <1>9 DEF TypeOK, Cancel
  <2>5. owed' \subseteq Event /\ told' \subseteq Event /\ lost' \subseteq Event
    BY <2>4, ToldIsEvent, TellType DEF Over
  <2> QED BY <1>6, <2>1, <2>3, <2>4, <2>5 DEF TypeOK
<1>10. ASSUME NEW u \in User, NEW c \in Call, Hangup(u, c) PROVE TypeOK'
  <2>1. Transition(u, c, Live, "ended") /\ "ended" \in Status
    BY <1>10 DEF Hangup, Status, Over
  <2>2. Promoted(c) \in [User -> Outcome]
    BY DEF Promoted, Outcome, Final
  <2>3. Settle(c, u, "left", Promoted(c)) \in [User -> Outcome]
    BY <2>2, SettleType DEF Outcome, Final
  <2>4. outcome' \in [Call -> [User -> Outcome]]
    BY <1>10, <1>0, <2>3 DEF Hangup
  <2>5. departed' \in [Call -> SUBSET User]
    BY <1>10, <1>0 DEF Hangup
  <2>6. answered' \subseteq Call /\ joined' \in [Call -> SUBSET User]
        /\ Tell({Told(c, "ended")})
    BY <1>10 DEF TypeOK, Hangup
  <2>7. owed' \subseteq Event /\ told' \subseteq Event /\ lost' \subseteq Event
    BY <2>6, ToldIsEvent, TellType DEF Over
  <2> QED BY <1>6, <2>1, <2>4, <2>5, <2>6, <2>7 DEF TypeOK
<1>11. CASE Grow
  BY <1>11 DEF TypeOK, Grow, rows, news, Fresh, PastMax
<1>12. CASE RingingTimeout
  <2>1. status' \in [Call -> Status] /\ outcome' \in [Call -> [User -> Outcome]]
    BY <1>12, <1>0, MissedType DEF RingingTimeout, Status, Over
  <2>2. owed' \subseteq Event /\ told' \subseteq Event /\ lost' \subseteq Event
    <3>1. {Told(c, "missed") : c \in RangTooLong} \in SUBSET Event
      BY ToldIsEvent DEF RangTooLong, Over
    <3> QED BY <1>12, <3>1, TellType DEF RingingTimeout
  <2> QED BY <1>12, <2>1, <2>2 DEF TypeOK, RingingTimeout, Fresh, PastMax
<1>13. CASE StaleActiveSweep
  <2>1. \A c \in Call : SweptOutcome(c) \in [User -> Outcome]
    BY <1>0 DEF SweptOutcome, Outcome, Final
  <2>2. status' \in [Call -> Status] /\ outcome' \in [Call -> [User -> Outcome]]
    BY <1>13, <1>0, <2>1 DEF StaleActiveSweep, Status, Over
  <2>3. departed' \in [Call -> SUBSET User]
    BY <1>13, <1>0 DEF StaleActiveSweep
  <2>4. owed' \subseteq Event /\ told' \subseteq Event /\ lost' \subseteq Event
    <3>1. {Told(c, "ended") : c \in StaleActive} \in SUBSET Event
      BY ToldIsEvent DEF StaleActive, Over
    <3> QED BY <1>13, <3>1, TellType DEF StaleActiveSweep
  <2> QED BY <1>13, <2>2, <2>3, <2>4 DEF TypeOK, StaleActiveSweep, Fresh, PastMax
<1>14. CASE UNCHANGED vars
  BY <1>14 DEF TypeOK, vars, rows, news
<1>15. ASSUME NEW u \in User, DerivedLeave(u) PROVE TypeOK'
  BY <1>15 DEF TypeOK, DerivedLeave, rows, news
<1>16. ASSUME NEW e \in owed, Emit(e) \/ Lose(e) PROVE TypeOK'
  BY <1>16 DEF TypeOK, Emit, Lose, rows
<1> QED
  BY <1>1, <1>2, <1>3, <1>4, <1>5, <1>7, <1>8, <1>9, <1>10, <1>11, <1>12, <1>13, <1>14,
     <1>15, <1>16
  DEF Next

LEMMA TypeInit == Init => TypeOK
<1> SUFFICES ASSUME Init PROVE TypeOK
  OBVIOUS
<1>1. (CHOOSE u \in User : TRUE) \in User
  BY ChatCallsAssumption
<1>2. NoExit \in Exit
  BY DEF NoExit, Exit
<1> QED BY <1>1, <1>2 DEF Init, TypeOK, Status, Outcome, Fresh, PastMax

\* Every variable of the calls keeps its type.
THEOREM ChatTypeCorrect == Spec => []TypeOK
BY TypeInit, TypeStep, PTL DEF Spec
-----------------------------------------------------------------------------
(***************************************************************************)
(* The inductive invariant                                                 *)
(***************************************************************************)

\* A call that does not exist has no participants.
UnbornIsBlank ==
    \A c \in Call, u \in User : status[c] = "unborn" => outcome[c][u] = "absent"

\* Nobody has answered a call that still rings.
AnsweredWasAccepted ==
    \A c \in Call : status[c] \in {"unborn", "ringing"} => c \notin answered

\* While a call is live only room exits decide an outcome.
FinalWhileLive ==
    \A c \in Call, u \in User :
        status[c] \in Live /\ outcome[c][u] \in Final => u \in exited[c]

\* Who was in an answered call when the exit looked has been in it since.
ExitReadIsTrue ==
    \A u \in User :
        exit[u].call # NoCall /\ exit[u].in =>
            exit[u].call \in answered /\ u \in joined[exit[u].call]

Tidy == UnbornIsBlank /\ AnsweredWasAccepted /\ FinalWhileLive /\ ExitReadIsTrue
ChatInv == TypeOK /\ OutcomesTellTheTruth /\ Tidy /\ EndIsAnnounced

LEMMA ChatInit == Init => ChatInv
<1> SUFFICES ASSUME Init PROVE ChatInv
  OBVIOUS
<1>1. TypeOK
  BY TypeInit
<1>2. OutcomesTellTheTruth
  BY DEF Init, OutcomesTellTheTruth, NobodyIsLeftOpen, LeftIsStamped,
         TalkersAreNotMissed, AnsweredBySomebody, Over
<1>3. Tidy
  BY DEF Init, Tidy, UnbornIsBlank, AnsweredWasAccepted, FinalWhileLive,
         ExitReadIsTrue, Live, NoExit
<1>4. EndIsAnnounced
  BY DEF Init, EndIsAnnounced, Over
<1> QED BY <1>1, <1>2, <1>3, <1>4 DEF ChatInv

(***************************************************************************)
(* What the actions write, call by call and person by person               *)
(***************************************************************************)

LEMMA SettleWrites ==
    ASSUME NEW c \in Call, NEW u \in User, NEW mine, NEW rest,
           TypeOK, outcome' = [outcome EXCEPT ![c] = Settle(c, u, mine, rest)]
    PROVE \A d \in Call, v \in User :
            outcome'[d][v] =
                IF d = c /\ v = u /\ StillIn(c, v) THEN mine
                ELSE IF d = c /\ v # u /\ outcome[c][v] = "open" THEN rest[v]
                ELSE outcome[d][v]
<1>1. outcome \in [Call -> [User -> Outcome]]
  BY DEF TypeOK
<1> DEFINE g == Settle(c, u, mine, rest)
<1>2. \A v \in User : g[v] = IF v = u /\ StillIn(c, v) THEN mine
                             ELSE IF v # u /\ outcome[c][v] = "open" THEN rest[v]
                             ELSE outcome[c][v]
  BY DEF Settle
<1>3. outcome' = [outcome EXCEPT ![c] = g]
  OBVIOUS
<1> HIDE DEF g
<1> QED BY <1>1, <1>2, <1>3

LEMMA TransitionWrites ==
    ASSUME NEW u \in User, NEW c \in Call, NEW from, NEW to,
           TypeOK, Transition(u, c, from, to)
    PROVE /\ status[c] \in from
          /\ \A d \in Call : status'[d] = IF d = c THEN to ELSE status[d]
          /\ UNCHANGED <<initiator, exited, exit>>
BY DEF TypeOK, Transition

(***************************************************************************)
(* One lemma per action: it keeps the outcomes true and the rows tidy      *)
(***************************************************************************)

\* Actions that end a ringing call: nobody is recorded as having been in it.
LEMMA EndsRinging ==
    ASSUME ChatInv, TypeOK',
           NEW E \in SUBSET Call, NEW s \in Over,
           \A c \in E : status[c] = "ringing",
           \A c \in Call : status'[c] = IF c \in E THEN s ELSE status[c],
           \A c \in Call, u \in User :
              /\ c \notin E => outcome'[c][u] = outcome[c][u]
              /\ c \in E => outcome'[c][u] # "open"
              /\ outcome'[c][u] # outcome[c][u] => outcome'[c][u] # "left"
              /\ outcome[c][u] = "left" => outcome'[c][u] = "left",
           UNCHANGED <<initiator, answered, joined, departed, exited, exit>>
    PROVE OutcomesTellTheTruth' /\ Tidy'
<1>1. UNCHANGED <<initiator, answered, joined, departed, exited, exit>>
  OBVIOUS
<1>2. \A c \in E : c \notin answered
  BY DEF ChatInv, Tidy, AnsweredWasAccepted
<1>3. NobodyIsLeftOpen'
  BY DEF ChatInv, OutcomesTellTheTruth, NobodyIsLeftOpen
<1>4. LeftIsStamped'
  <2> SUFFICES ASSUME NEW c \in Call, NEW u \in User
               PROVE /\ outcome'[c][u] = "left" <=> u \in departed[c]
                     /\ outcome'[c][u] = "left" /\ c \notin answered => status'[c] = "ended"
    BY <1>1 DEF LeftIsStamped
  <2>1. /\ outcome[c][u] = "left" <=> u \in departed[c]
        /\ outcome[c][u] = "left" /\ c \notin answered => status[c] = "ended"
    BY DEF ChatInv, OutcomesTellTheTruth, LeftIsStamped
  <2> QED BY <2>1
<1>5. TalkersAreNotMissed'
  BY <1>1, <1>2 DEF ChatInv, TypeOK, OutcomesTellTheTruth, TalkersAreNotMissed
<1>6. AnsweredBySomebody'
  BY <1>1 DEF ChatInv, OutcomesTellTheTruth, AnsweredBySomebody
<1>7. UnbornIsBlank'
  BY DEF ChatInv, Tidy, UnbornIsBlank, Over
<1>8. AnsweredWasAccepted'
  BY <1>1 DEF ChatInv, Tidy, AnsweredWasAccepted, Over
<1>9. FinalWhileLive'
  BY <1>1 DEF ChatInv, Tidy, FinalWhileLive, Over, Live
<1>10. ExitReadIsTrue'
  BY <1>1 DEF ChatInv, Tidy, ExitReadIsTrue
<1> QED BY <1>3, <1>4, <1>5, <1>6, <1>7, <1>8, <1>9, <1>10 DEF OutcomesTellTheTruth, Tidy

\* Actions that end a call somebody may have been in: who had joined an
\* answered call has left it.
LEMMA EndsLive ==
    ASSUME ChatInv, TypeOK', NEW E \in SUBSET Call,
           \A c \in E : status[c] \in Live,
           \A c \in Call : status'[c] = IF c \in E THEN "ended" ELSE status[c],
           \A c \in Call, u \in User :
              /\ c \notin E => outcome'[c][u] = outcome[c][u]
              /\ c \in E => outcome'[c][u] # "open"
              /\ outcome[c][u] = "left" => outcome'[c][u] = "left"
              /\ outcome'[c][u] = "missed" /\ c \in answered /\ u \in joined[c]
                    => outcome[c][u] = "missed",
           \A c \in Call, u \in User :
              u \in departed'[c] <=>
                u \in departed[c] \/ (outcome'[c][u] = "left" /\ outcome[c][u] # "left"),
           UNCHANGED <<initiator, answered, joined, exited, exit>>
    PROVE OutcomesTellTheTruth' /\ Tidy'
<1>1. UNCHANGED <<initiator, answered, joined, exited, exit>>
  OBVIOUS
<1>3. NobodyIsLeftOpen'
  BY DEF ChatInv, OutcomesTellTheTruth, NobodyIsLeftOpen
<1>4. LeftIsStamped'
  <2> SUFFICES ASSUME NEW c \in Call, NEW u \in User
               PROVE /\ outcome'[c][u] = "left" <=> u \in departed'[c]
                     /\ outcome'[c][u] = "left" /\ c \notin answered => status'[c] = "ended"
    BY <1>1 DEF LeftIsStamped
  <2>1. /\ outcome[c][u] = "left" <=> u \in departed[c]
        /\ outcome[c][u] = "left" /\ c \notin answered => status[c] = "ended"
    BY DEF ChatInv, OutcomesTellTheTruth, LeftIsStamped
  <2> QED BY <2>1
<1>5. TalkersAreNotMissed'
  BY <1>1 DEF ChatInv, TypeOK, OutcomesTellTheTruth, TalkersAreNotMissed
<1>6. AnsweredBySomebody'
  BY <1>1 DEF ChatInv, OutcomesTellTheTruth, AnsweredBySomebody
<1>7. UnbornIsBlank'
  BY DEF ChatInv, Tidy, UnbornIsBlank, Over
<1>8. AnsweredWasAccepted'
  BY <1>1 DEF ChatInv, Tidy, AnsweredWasAccepted, Over
<1>9. FinalWhileLive'
  BY <1>1 DEF ChatInv, Tidy, FinalWhileLive, Over, Live
<1>10. ExitReadIsTrue'
  BY <1>1 DEF ChatInv, Tidy, ExitReadIsTrue
<1> QED BY <1>3, <1>4, <1>5, <1>6, <1>7, <1>8, <1>9, <1>10 DEF OutcomesTellTheTruth, Tidy

LEMMA RejectKeeps ==
    ASSUME ChatInv, TypeOK', NEW u \in User, NEW c \in Call,
           Reject(u, c) \/ Cancel(u, c)
    PROVE OutcomesTellTheTruth' /\ Tidy'
<1>1. PICK s \in {"rejected", "cancelled"}, o \in {"missed", "cancelled"} :
        /\ Transition(u, c, {"ringing"}, s)
        /\ outcome' = [outcome EXCEPT ![c] = Settle(c, u, s, Everyone(o))]
        /\ UNCHANGED <<answered, joined, departed>>
  BY DEF Reject, Cancel
<1>2. TypeOK
  BY DEF ChatInv
<1>3. \A d \in Call, v \in User :
        outcome'[d][v] =
            IF d = c /\ v = u /\ StillIn(c, v) THEN s
            ELSE IF d = c /\ v # u /\ outcome[c][v] = "open" THEN o
            ELSE outcome[d][v]
  <2> DEFINE r == Everyone(o)
  <2>1. \A v \in User : r[v] = o
    BY DEF Everyone
  <2>2. outcome' = [outcome EXCEPT ![c] = Settle(c, u, s, r)]
    BY <1>1
  <2> HIDE DEF r
  <2>3. \A d \in Call, v \in User :
        outcome'[d][v] =
            IF d = c /\ v = u /\ StillIn(c, v) THEN s
            ELSE IF d = c /\ v # u /\ outcome[c][v] = "open" THEN r[v]
            ELSE outcome[d][v]
    <3> DEFINE g == Settle(c, u, s, r)
    <3>1. outcome \in [Call -> [User -> Outcome]]
      BY <1>2 DEF TypeOK
    <3>2. \A v \in User : g[v] = IF v = u /\ StillIn(c, v) THEN s
                                 ELSE IF v # u /\ outcome[c][v] = "open" THEN r[v]
                                 ELSE outcome[c][v]
      BY DEF Settle
    <3>3. outcome' = [outcome EXCEPT ![c] = g]
      BY <2>2
    <3> HIDE DEF g
    <3> QED BY <3>1, <3>2, <3>3
  <2> QED BY <2>1, <2>3
<1>4. /\ status[c] = "ringing"
      /\ \A d \in Call : status'[d] = IF d = c THEN s ELSE status[d]
      /\ UNCHANGED <<initiator, exited, exit>>
  BY <1>1, <1>2, TransitionWrites
<1>5. \A d \in Call, v \in User :
        /\ d \notin {c} => outcome'[d][v] = outcome[d][v]
        /\ d \in {c} => outcome'[d][v] # "open"
        /\ outcome'[d][v] # outcome[d][v] => outcome'[d][v] # "left"
        /\ outcome[d][v] = "left" => outcome'[d][v] = "left"
  BY <1>3 DEF StillIn
<1>6. s \in Over /\ {c} \in SUBSET Call
  BY DEF Over
<1> QED BY <1>1, <1>4, <1>5, <1>6, EndsRinging

LEMMA HangupKeeps ==
    ASSUME ChatInv, TypeOK', NEW u \in User, NEW c \in Call, Hangup(u, c)
    PROVE OutcomesTellTheTruth' /\ Tidy'
<1>1. /\ Transition(u, c, Live, "ended")
      /\ outcome' = [outcome EXCEPT ![c] = Settle(c, u, "left", Promoted(c))]
      /\ UNCHANGED <<answered, joined>>
  BY DEF Hangup
<1>2. TypeOK
  BY DEF ChatInv
<1>3. \A d \in Call, v \in User :
        outcome'[d][v] =
            IF d = c /\ v = u /\ StillIn(c, v) THEN "left"
            ELSE IF d = c /\ v # u /\ outcome[c][v] = "open"
                 THEN IF c \in answered /\ v \in joined[c] THEN "left" ELSE "missed"
            ELSE outcome[d][v]
  BY <1>1, <1>2, SettleWrites DEF Promoted
<1>4. /\ status[c] \in Live
      /\ \A d \in Call : status'[d] = IF d = c THEN "ended" ELSE status[d]
      /\ UNCHANGED <<initiator, exited, exit>>
  BY <1>1, <1>2, TransitionWrites
<1>5. \A d \in Call, v \in User :
        /\ d \notin {c} => outcome'[d][v] = outcome[d][v]
        /\ d \in {c} => outcome'[d][v] # "open"
        /\ outcome[d][v] = "left" => outcome'[d][v] = "left"
        /\ outcome'[d][v] = "missed" /\ d \in answered /\ v \in joined[d]
              => outcome[d][v] = "missed"
  BY <1>3 DEF StillIn
<1>6. \A d \in Call, v \in User :
        v \in departed'[d] <=>
          v \in departed[d] \/ (outcome'[d][v] = "left" /\ outcome[d][v] # "left")
  <2>1. departed' = [departed EXCEPT ![c] =
            @ \cup {v \in User : outcome'[c][v] = "left" /\ outcome[c][v] # "left"}]
    BY DEF Hangup
  <2>2. departed \in [Call -> SUBSET User]
    BY <1>2 DEF TypeOK
  <2>3. \A v \in User :
          v \in departed'[c] <=>
            v \in departed[c] \/ (outcome'[c][v] = "left" /\ outcome[c][v] # "left")
    BY <2>1, <2>2
  <2>4. \A d \in Call : d # c => departed'[d] = departed[d]
    BY <2>1, <2>2
  <2> TAKE d \in Call, v \in User
  <2>5. CASE d = c
    BY <2>3, <2>5
  <2>6. CASE d # c
    <3>1. outcome'[d][v] = outcome[d][v]
      BY <2>6, <1>5
    <3> QED BY <2>4, <2>6, <3>1
  <2> QED BY <2>5, <2>6
<1>7. /\ \A d \in {c} : status[d] \in Live
      /\ \A d \in Call : status'[d] = IF d \in {c} THEN "ended" ELSE status[d]
      /\ UNCHANGED <<initiator, answered, joined, exited, exit>>
  BY <1>1, <1>4
<1>8. {c} \in SUBSET Call
  OBVIOUS
<1> QED BY <1>5, <1>6, <1>7, <1>8, EndsLive

LEMMA RingingTimeoutKeeps ==
    ASSUME ChatInv, TypeOK', RingingTimeout
    PROVE OutcomesTellTheTruth' /\ Tidy'
<1>1. /\ \A c \in Call : status'[c] = IF c \in RangTooLong THEN "missed" ELSE status[c]
      /\ \A c \in Call, u \in User :
            outcome'[c][u] = IF c \in RangTooLong /\ outcome[c][u] = "open"
                             THEN "missed" ELSE outcome[c][u]
      /\ UNCHANGED <<initiator, answered, joined, departed, exited, exit>>
  BY DEF RingingTimeout, MissedOutcome
<1>2. /\ RangTooLong \in SUBSET Call /\ "missed" \in Over
      /\ \A c \in RangTooLong : status[c] = "ringing"
  BY DEF RangTooLong, Over
<1>3. \A c \in Call, u \in User :
        /\ c \notin RangTooLong => outcome'[c][u] = outcome[c][u]
        /\ c \in RangTooLong => outcome'[c][u] # "open"
        /\ outcome'[c][u] # outcome[c][u] => outcome'[c][u] # "left"
        /\ outcome[c][u] = "left" => outcome'[c][u] = "left"
  BY <1>1
<1> HIDE DEF RangTooLong
<1> QED BY <1>1, <1>2, <1>3, EndsRinging

LEMMA SweepKeeps ==
    ASSUME ChatInv, TypeOK', StaleActiveSweep
    PROVE OutcomesTellTheTruth' /\ Tidy'
<1>1. /\ \A c \in Call : status'[c] = IF c \in StaleActive THEN "ended" ELSE status[c]
      /\ \A c \in Call, u \in User :
            outcome'[c][u] = IF c \in StaleActive /\ StillIn(c, u)
                             THEN IF u \in joined[c] THEN "left" ELSE "missed"
                             ELSE outcome[c][u]
      /\ UNCHANGED <<initiator, answered, joined, exited, exit>>
  BY DEF StaleActiveSweep, SweptOutcome
<1>2. \A c \in Call, u \in User :
        u \in departed'[c] <=>
          u \in departed[c] \/ (c \in StaleActive /\ u \in joined[c] /\ StillIn(c, u))
  BY DEF StaleActiveSweep
<1>3. /\ StaleActive \in SUBSET Call
      /\ \A c \in StaleActive : status[c] \in Live
  BY DEF StaleActive, Live
<1>4. \A c \in Call, u \in User :
        /\ c \notin StaleActive => outcome'[c][u] = outcome[c][u]
        /\ c \in StaleActive => outcome'[c][u] # "open"
        /\ outcome[c][u] = "left" => outcome'[c][u] = "left"
        /\ outcome'[c][u] = "missed" /\ c \in answered /\ u \in joined[c]
              => outcome[c][u] = "missed"
  BY <1>1 DEF StillIn
<1>5. \A c \in Call, u \in User :
        u \in departed'[c] <=>
          u \in departed[c] \/ (outcome'[c][u] = "left" /\ outcome[c][u] # "left")
  BY <1>1, <1>2 DEF StillIn
<1> QED BY <1>1, <1>3, <1>4, <1>5, EndsLive

LEMMA InviteKeeps ==
    ASSUME ChatInv, TypeOK', NEW u \in User, NEW c \in Call, Invite(u, c)
    PROVE OutcomesTellTheTruth' /\ Tidy'
<1>1. /\ status[c] = "unborn"
      /\ UNCHANGED <<answered, departed, exited, exit>>
      /\ \A d \in Call : status'[d] = IF d = c THEN "ringing"
                                      ELSE IF d \in RangTooLong THEN "missed"
                                      ELSE status[d]
      /\ \A d \in Call : d # c => initiator'[d] = initiator[d]
  BY DEF Invite, InviteWith, ChatInv, TypeOK
<1>2. PICK i \in Invitees(u) :
        /\ outcome' = [d \in Call |->
              IF d = c THEN [v \in User |-> IF v \in i THEN "open" ELSE "absent"]
              ELSE IF d \in RangTooLong THEN MissedOutcome(d)
              ELSE outcome[d]]
        /\ joined' = [joined EXCEPT ![c] = i \cap {u}]
  BY DEF Invite, InviteWith
<1>3. /\ \A v \in User : outcome'[c][v] \in {"open", "absent"}
      /\ \A d \in Call, v \in User :
            d # c => outcome'[d][v] = IF d \in RangTooLong /\ outcome[d][v] = "open"
                                      THEN "missed" ELSE outcome[d][v]
      /\ \A d \in Call : d # c => joined'[d] = joined[d]
  BY <1>2 DEF MissedOutcome, ChatInv, TypeOK
<1>4. /\ c \notin answered /\ c \notin RangTooLong
      /\ \A d \in RangTooLong : status[d] = "ringing" /\ d \notin answered
      /\ \A v \in User : v \notin departed[c]
  BY <1>1 DEF RangTooLong, ChatInv, Tidy, AnsweredWasAccepted, UnbornIsBlank,
              OutcomesTellTheTruth, LeftIsStamped
<1> HIDE DEF RangTooLong
<1>5. NobodyIsLeftOpen'
  BY <1>1, <1>3 DEF ChatInv, OutcomesTellTheTruth, NobodyIsLeftOpen, Over
<1>6. LeftIsStamped'
  <2> SUFFICES ASSUME NEW d \in Call, NEW v \in User
               PROVE /\ outcome'[d][v] = "left" <=> v \in departed[d]
                     /\ outcome'[d][v] = "left" /\ d \notin answered => status'[d] = "ended"
    BY <1>1 DEF LeftIsStamped
  <2>1. /\ outcome[d][v] = "left" <=> v \in departed[d]
        /\ outcome[d][v] = "left" /\ d \notin answered => status[d] = "ended"
    BY DEF ChatInv, OutcomesTellTheTruth, LeftIsStamped
  <2> QED BY <2>1, <1>1, <1>3, <1>4
<1>7. TalkersAreNotMissed'
  BY <1>1, <1>3, <1>4 DEF ChatInv, TypeOK, OutcomesTellTheTruth, TalkersAreNotMissed
<1>8. AnsweredBySomebody'
  <2> SUFFICES ASSUME NEW d \in answered
               PROVE \E v \in User \ {initiator'[d]} : v \in joined'[d] \cup exited[d]
    BY <1>1 DEF AnsweredBySomebody
  <2>1. d \in Call /\ d # c
    BY <1>4 DEF ChatInv, TypeOK
  <2> QED BY <2>1, <1>1, <1>3 DEF ChatInv, OutcomesTellTheTruth, AnsweredBySomebody
<1>9. UnbornIsBlank'
  BY <1>1, <1>3, <1>4 DEF ChatInv, Tidy, UnbornIsBlank
<1>10. AnsweredWasAccepted'
  BY <1>1, <1>4 DEF ChatInv, Tidy, AnsweredWasAccepted
<1>11. FinalWhileLive'
  <2> SUFFICES ASSUME NEW d \in Call, NEW v \in User,
                      status'[d] \in Live, outcome'[d][v] \in Final
               PROVE v \in exited[d]
    BY <1>1 DEF FinalWhileLive
  <2>1. d # c /\ d \notin RangTooLong
    BY <1>1, <1>3 DEF Final, Live
  <2> QED BY <2>1, <1>1, <1>3 DEF ChatInv, Tidy, FinalWhileLive
<1>12. ExitReadIsTrue'
  <2> SUFFICES ASSUME NEW v \in User, exit[v].call # NoCall, exit[v].in
               PROVE exit[v].call \in answered /\ v \in joined'[exit[v].call]
    BY <1>1 DEF ExitReadIsTrue
  <2>1. exit[v].call \in answered /\ v \in joined[exit[v].call]
    BY DEF ChatInv, Tidy, ExitReadIsTrue
  <2>2. exit[v].call \in Call /\ exit[v].call # c
    BY <2>1, <1>4 DEF ChatInv, TypeOK
  <2> QED BY <2>1, <2>2, <1>3
<1> QED BY <1>5, <1>6, <1>7, <1>8, <1>9, <1>10, <1>11, <1>12 DEF OutcomesTellTheTruth, Tidy

LEMMA AcceptKeeps ==
    ASSUME ChatInv, TypeOK', NEW u \in User, NEW c \in Call, Accept(u, c)
    PROVE OutcomesTellTheTruth' /\ Tidy'
<1>1. /\ Transition(u, c, {"ringing"}, "active")
      /\ answered' = answered \cup {c}
      /\ departed' = departed
      /\ u # initiator[c] /\ outcome[c][u] # "absent"
  BY DEF Accept, Callee, Participants
<1>2. TypeOK
  BY DEF ChatInv
<1>3. /\ status[c] = "ringing"
      /\ \A d \in Call : status'[d] = IF d = c THEN "active" ELSE status[d]
      /\ UNCHANGED <<initiator, exited, exit>>
  BY <1>1, <1>2, TransitionWrites
<1>4. /\ \A d \in Call, v \in User :
            outcome'[d][v] = IF d = c /\ v = u /\ StillIn(c, u)
                             THEN "accepted" ELSE outcome[d][v]
      /\ \A d \in Call : joined[d] \subseteq joined'[d]
      /\ \A d \in Call, v \in User :
            v \in joined'[d] <=> v \in joined[d] \/ (d = c /\ v = u /\ StillIn(c, u))
  <2>1. CASE StillIn(c, u)
    <3>1. /\ outcome' = [outcome EXCEPT ![c][u] = "accepted"]
          /\ joined' = [joined EXCEPT ![c] = @ \cup {u}]
      BY <2>1 DEF Accept
    <3>2. "accepted" \in Outcome
      BY DEF Outcome
    <3>3. \A d \in Call, v \in User :
            outcome'[d][v] = IF d = c /\ v = u THEN "accepted" ELSE outcome[d][v]
      BY <3>1, <3>2, <1>2, OneOutcome
    <3>4. joined \in [Call -> SUBSET User]
      BY <1>2 DEF TypeOK
    <3> QED BY <2>1, <3>1, <3>3, <3>4
  <2>2. CASE ~StillIn(c, u)
    BY <2>2 DEF Accept
  <2> QED BY <2>1, <2>2
<1>5. \A v \in User : outcome[c][v] \in Final => v \in exited[c]
  BY <1>3 DEF ChatInv, Tidy, FinalWhileLive, Live
<1>6. NobodyIsLeftOpen'
  BY <1>3, <1>4 DEF ChatInv, OutcomesTellTheTruth, NobodyIsLeftOpen, Over
<1>7. LeftIsStamped'
  <2> SUFFICES ASSUME NEW d \in Call, NEW v \in User
               PROVE /\ outcome'[d][v] = "left" <=> v \in departed[d]
                     /\ outcome'[d][v] = "left" /\ d \notin answered' => status'[d] = "ended"
    BY <1>1 DEF LeftIsStamped
  <2>1. /\ outcome[d][v] = "left" <=> v \in departed[d]
        /\ outcome[d][v] = "left" /\ d \notin answered => status[d] = "ended"
    BY DEF ChatInv, OutcomesTellTheTruth, LeftIsStamped
  <2> QED BY <2>1, <1>1, <1>3, <1>4 DEF StillIn
<1>8. TalkersAreNotMissed'
  <2> SUFFICES ASSUME NEW d \in answered', NEW v \in User,
                      outcome'[d][v] = "missed", v \in joined'[d]
               PROVE v \in exited[d]
    BY <1>3 DEF TalkersAreNotMissed
  <2>1. d \in Call
    BY <1>1, <1>2 DEF TypeOK
  <2>2. outcome[d][v] = "missed"
    BY <2>1, <1>4
  <2>3. CASE d = c
    BY <2>2, <2>3, <1>5 DEF Final
  <2>4. CASE d # c
    BY <2>1, <2>2, <2>4, <1>1, <1>4 DEF ChatInv, OutcomesTellTheTruth, TalkersAreNotMissed
  <2> QED BY <2>3, <2>4
<1>9. AnsweredBySomebody'
  <2> SUFFICES ASSUME NEW d \in answered'
               PROVE \E v \in User \ {initiator[d]} : v \in joined'[d] \cup exited[d]
    BY <1>3 DEF AnsweredBySomebody
  <2>1. CASE d = c
    <3>1. StillIn(c, u) \/ outcome[c][u] \in Final
      BY <1>1, <1>2 DEF TypeOK, Outcome, StillIn
    <3>2. u \in joined'[c] \cup exited[c]
      BY <3>1, <1>4, <1>5
    <3> QED BY <2>1, <3>2, <1>1
  <2>2. CASE d # c
    <3>1. d \in answered /\ d \in Call
      BY <2>2, <1>1, <1>2 DEF TypeOK
    <3> QED BY <3>1, <1>4 DEF ChatInv, OutcomesTellTheTruth, AnsweredBySomebody
  <2> QED BY <2>1, <2>2
<1>10. UnbornIsBlank'
  BY <1>3, <1>4 DEF ChatInv, Tidy, UnbornIsBlank
<1>11. AnsweredWasAccepted'
  BY <1>1, <1>3 DEF ChatInv, Tidy, AnsweredWasAccepted
<1>12. FinalWhileLive'
  <2> SUFFICES ASSUME NEW d \in Call, NEW v \in User,
                      status'[d] \in Live, outcome'[d][v] \in Final
               PROVE v \in exited[d]
    BY <1>3 DEF FinalWhileLive
  <2>1. outcome[d][v] \in Final
    BY <1>4 DEF Final
  <2> QED BY <2>1, <1>3, <1>5 DEF ChatInv, Tidy, FinalWhileLive
<1>13. ExitReadIsTrue'
  <2> SUFFICES ASSUME NEW v \in User, exit[v].call # NoCall, exit[v].in
               PROVE exit[v].call \in answered' /\ v \in joined'[exit[v].call]
    BY <1>3 DEF ExitReadIsTrue
  <2>1. exit[v].call \in answered /\ v \in joined[exit[v].call]
    BY DEF ChatInv, Tidy, ExitReadIsTrue
  <2> QED BY <2>1, <1>1, <1>2, <1>4 DEF TypeOK
<1> QED BY <1>6, <1>7, <1>8, <1>9, <1>10, <1>11, <1>12, <1>13 DEF OutcomesTellTheTruth, Tidy

LEMMA ExitKeeps ==
    ASSUME ChatInv, TypeOK', NEW u \in User, CommitExit(u)
    PROVE OutcomesTellTheTruth' /\ Tidy'
<1> DEFINE k == exit[u].call
           writes == k # NoCall /\ StillIn(k, u)
<1>1. UNCHANGED <<status, initiator, answered, joined>> /\ TypeOK
  BY DEF CommitExit, ChatInv
<1>2. /\ writes => k \in Call
      /\ k # NoCall /\ exit[u].in => k \in answered
  BY DEF ChatInv, TypeOK, Exit, Tidy, ExitReadIsTrue
<1>3. \A d \in Call, v \in User :
        outcome'[d][v] = IF writes /\ d = k /\ v = u
                         THEN IF exit[u].in THEN "left" ELSE "missed"
                         ELSE outcome[d][v]
  <2>1. CASE writes
    <3>1. PICK o \in {"left", "missed"} :
            /\ o = IF exit[u].in THEN "left" ELSE "missed"
            /\ outcome' = [outcome EXCEPT ![k][u] = o]
      BY <2>1 DEF CommitExit
    <3>2. o \in Outcome
      BY DEF Outcome, Final
    <3> HIDE DEF k
    <3>3. \A d \in Call, v \in User :
            outcome'[d][v] = IF d = k /\ v = u THEN o ELSE outcome[d][v]
      BY <2>1, <1>1, <1>2, <3>1, <3>2, OneOutcome
    <3> QED BY <2>1, <3>1, <3>3
  <2>2. CASE ~writes
    BY <2>2 DEF CommitExit
  <2> QED BY <2>1, <2>2
<1>4. \A d \in Call, v \in User :
        /\ v \in departed'[d] <=>
              v \in departed[d] \/ (writes /\ d = k /\ v = u /\ exit[u].in)
        /\ v \in exited'[d] <=> v \in exited[d] \/ (writes /\ d = k /\ v = u)
  <2>1. departed \in [Call -> SUBSET User] /\ exited \in [Call -> SUBSET User]
    BY <1>1 DEF TypeOK
  <2>2. CASE writes
    <3>1. /\ departed' = [departed EXCEPT ![k] = IF exit[u].in THEN @ \cup {u} ELSE @]
          /\ exited' = [exited EXCEPT ![k] = @ \cup {u}]
      BY <2>2 DEF CommitExit
    <3> QED BY <2>1, <2>2, <3>1, <1>2
  <2>3. CASE ~writes
    BY <2>3 DEF CommitExit
  <2> QED BY <2>2, <2>3
<1>5. \A v \in User : exit'[v] = IF v = u THEN NoExit ELSE exit[v]
  BY <1>1 DEF CommitExit, TypeOK
<1>6. writes => outcome[k][u] \in {"open", "accepted"} /\ k # NoCall
  BY DEF StillIn
<1> HIDE DEF k, writes
<1>7. NobodyIsLeftOpen'
  BY <1>1, <1>3 DEF ChatInv, OutcomesTellTheTruth, NobodyIsLeftOpen
<1>8. LeftIsStamped'
  <2> SUFFICES ASSUME NEW d \in Call, NEW v \in User
               PROVE /\ outcome'[d][v] = "left" <=> v \in departed'[d]
                     /\ outcome'[d][v] = "left" /\ d \notin answered => status[d] = "ended"
    BY <1>1 DEF LeftIsStamped
  <2>1. /\ outcome[d][v] = "left" <=> v \in departed[d]
        /\ outcome[d][v] = "left" /\ d \notin answered => status[d] = "ended"
    BY DEF ChatInv, OutcomesTellTheTruth, LeftIsStamped
  <2> QED BY <2>1, <1>2, <1>3, <1>4, <1>6
<1>9. TalkersAreNotMissed'
  BY <1>1, <1>3, <1>4 DEF TypeOK, ChatInv, OutcomesTellTheTruth, TalkersAreNotMissed
<1>10. AnsweredBySomebody'
  <2> SUFFICES ASSUME NEW d \in answered
               PROVE \E v \in User \ {initiator[d]} : v \in joined[d] \cup exited'[d]
    BY <1>1 DEF AnsweredBySomebody
  <2>1. d \in Call
    BY <1>1 DEF TypeOK
  <2> QED BY <2>1, <1>4 DEF ChatInv, OutcomesTellTheTruth, AnsweredBySomebody
<1>11. UnbornIsBlank'
  BY <1>1, <1>3, <1>6 DEF ChatInv, Tidy, UnbornIsBlank
<1>12. AnsweredWasAccepted'
  BY <1>1 DEF ChatInv, Tidy, AnsweredWasAccepted
<1>13. FinalWhileLive'
  BY <1>1, <1>3, <1>4 DEF ChatInv, Tidy, FinalWhileLive
<1>14. ExitReadIsTrue'
  BY <1>1, <1>5 DEF ChatInv, Tidy, ExitReadIsTrue, NoExit
<1> QED BY <1>7, <1>8, <1>9, <1>10, <1>11, <1>12, <1>13, <1>14 DEF OutcomesTellTheTruth, Tidy

LEMMA StartExitKeeps ==
    ASSUME ChatInv, TypeOK', NEW u \in User, StartExit(u)
    PROVE OutcomesTellTheTruth' /\ Tidy'
<1>1. UNCHANGED rows
  BY DEF StartExit
<1>2. OutcomesTellTheTruth'
  BY <1>1 DEF rows, ChatInv, OutcomesTellTheTruth, NobodyIsLeftOpen, LeftIsStamped,
              TalkersAreNotMissed, AnsweredBySomebody
<1>3. UnbornIsBlank' /\ AnsweredWasAccepted' /\ FinalWhileLive'
  BY <1>1 DEF rows, ChatInv, Tidy, UnbornIsBlank, AnsweredWasAccepted, FinalWhileLive
<1>4. exit[u] = NoExit /\ exit \in [User -> Exit]
  BY DEF StartExit, ChatInv, TypeOK
<1>5. /\ \A v \in User : v # u => exit'[v] = exit[v]
      /\ exit'[u].call # NoCall /\ exit'[u].in =>
            exit'[u].call \in answered /\ u \in joined[exit'[u].call]
  BY <1>4 DEF StartExit, NoExit, Exit
<1>6. ExitReadIsTrue'
  BY <1>1, <1>5 DEF rows, ChatInv, Tidy, ExitReadIsTrue
<1> QED BY <1>2, <1>3, <1>6 DEF Tidy

\* Steps that touch neither the rows nor what the exits have read.
LEMMA OthersKeep ==
    ASSUME ChatInv, UNCHANGED <<rows, exit>>
    PROVE OutcomesTellTheTruth' /\ Tidy'
<1>1. OutcomesTellTheTruth'
  BY DEF rows, ChatInv, OutcomesTellTheTruth, NobodyIsLeftOpen, LeftIsStamped,
         TalkersAreNotMissed, AnsweredBySomebody
<1>2. Tidy'
  BY DEF rows, ChatInv, Tidy, UnbornIsBlank, AnsweredWasAccepted, FinalWhileLive,
         ExitReadIsTrue
<1> QED BY <1>1, <1>2

(***************************************************************************)
(* The end of a call and its announcement                                  *)
(***************************************************************************)

\* Calls end together with the event that says how, or nothing ends.
LEMMA AnnouncedTogether ==
    ASSUME EndIsAnnounced, NEW E \in SUBSET Call, NEW s \in Over,
           \A c \in E : status[c] \notin Over /\ status'[c] = s,
           \A c \in Call \ E : \/ status'[c] = status[c]
                               \/ {status[c], status'[c]} \cap Over = {},
           Tell({Told(c, s) : c \in E})
    PROVE EndIsAnnounced'
<1> DEFINE es == {Told(c, s) : c \in E}
<1>1. owed' = owed \cup es /\ told' = told /\ lost' = lost
  BY DEF Tell
<1>2. \A e \in es : e \notin owed \cup told \cup lost
  BY DEF EndIsAnnounced
<1>3. ASSUME NEW c \in Call, NEW a \in Over PROVE Told(c, a) \in es <=> c \in E /\ a = s
  BY DEF Told
<1> HIDE DEF es
<1>4. ASSUME NEW c \in Call, NEW a \in Over
      PROVE Told(c, a) \in owed' \cup told' \cup lost' <=> status'[c] = a
  <2>1. Told(c, a) \in owed \cup told \cup lost <=> status[c] = a
    BY DEF EndIsAnnounced
  <2> QED BY <1>1, <1>3, <2>1
<1>5. owed' \cap (told' \cup lost') = {} /\ told' \cap lost' = {}
  BY <1>1, <1>2 DEF EndIsAnnounced
<1> QED BY <1>4, <1>5 DEF EndIsAnnounced

LEMMA AnnounceStep ==
    ASSUME TypeOK, EndIsAnnounced, [Next]_vars PROVE EndIsAnnounced'
<1>1. ASSUME NEW u \in User, NEW c \in Call, Invite(u, c) PROVE EndIsAnnounced'
  <2> DEFINE E == RangTooLong
  <2>1. /\ status' = [d \in Call |-> IF d = c THEN "ringing"
                                    ELSE IF d \in E THEN "missed"
                                    ELSE status[d]]
        /\ status[c] = "unborn"
        /\ Tell({Told(d, "missed") : d \in E})
    BY <1>1 DEF Invite, InviteWith
  <2>2. E \in SUBSET Call /\ \A d \in E : status[d] = "ringing"
    BY DEF RangTooLong
  <2> HIDE DEF E
  <2>3. "missed" \in Over /\ "ringing" \notin Over /\ "unborn" \notin Over
    BY DEF Over
  <2>4. /\ \A d \in E : status[d] \notin Over /\ status'[d] = "missed"
        /\ \A d \in Call \ E : \/ status'[d] = status[d]
                             \/ {status[d], status'[d]} \cap Over = {}
    BY <2>1, <2>2, <2>3
  <2> QED BY <2>1, <2>2, <2>3, <2>4, AnnouncedTogether
<1>2. ASSUME NEW u \in User, NEW c \in Call, Accept(u, c) PROVE EndIsAnnounced'
  <2>1. Transition(u, c, {"ringing"}, "active") /\ UNCHANGED news
    BY <1>2 DEF Accept
  <2>2. /\ status[c] = "ringing"
        /\ \A d \in Call : status'[d] = IF d = c THEN "active" ELSE status[d]
    BY <2>1, TransitionWrites
  <2> QED BY <2>1, <2>2 DEF EndIsAnnounced, Told, Over, news
<1>3. ASSUME NEW u \in User, NEW c \in Call, NEW s \in Over,
             NEW from \in SUBSET {"ringing", "active"},
             Transition(u, c, from, s), Tell({Told(c, s)})
      PROVE EndIsAnnounced'
  <2> DEFINE E == {c}
  <2>1. /\ status[c] \notin Over
        /\ \A d \in Call : status'[d] = IF d = c THEN s ELSE status[d]
    BY <1>3, TransitionWrites DEF Over
  <2>2. {Told(d, s) : d \in E} = {Told(c, s)}
    OBVIOUS
  <2>3. /\ \A d \in E : status[d] \notin Over /\ status'[d] = s
        /\ \A d \in Call \ E : \/ status'[d] = status[d]
                             \/ {status[d], status'[d]} \cap Over = {}
        /\ Tell({Told(d, s) : d \in E}) /\ E \in SUBSET Call
    BY <1>3, <2>1, <2>2
  <2> HIDE DEF E
  <2> QED BY <2>3, AnnouncedTogether
<1>4. ASSUME NEW u \in User, NEW c \in Call, Reject(u, c) \/ Cancel(u, c) \/ Hangup(u, c)
      PROVE EndIsAnnounced'
  BY <1>3, <1>4 DEF Reject, Cancel, Hangup, Over, Live
<1>5. CASE RingingTimeout
  <2> DEFINE E == RangTooLong
  <2>1. /\ \A d \in Call : status'[d] = IF d \in E THEN "missed" ELSE status[d]
        /\ Tell({Told(d, "missed") : d \in E})
        /\ E \in SUBSET Call /\ \A d \in E : status[d] = "ringing"
    BY <1>5 DEF RingingTimeout, RangTooLong
  <2> HIDE DEF E
  <2>2. "missed" \in Over /\ "ringing" \notin Over
    BY DEF Over
  <2> QED BY <2>1, <2>2, AnnouncedTogether
<1>6. CASE StaleActiveSweep
  <2> DEFINE E == StaleActive
  <2>1. /\ \A d \in Call : status'[d] = IF d \in E THEN "ended" ELSE status[d]
        /\ Tell({Told(d, "ended") : d \in E})
        /\ E \in SUBSET Call /\ \A d \in E : status[d] = "active"
    BY <1>6 DEF StaleActiveSweep, StaleActive
  <2> HIDE DEF E
  <2>2. "ended" \in Over /\ "active" \notin Over
    BY DEF Over
  <2> QED BY <2>1, <2>2, AnnouncedTogether
<1>7. ASSUME UNCHANGED <<status, news>> PROVE EndIsAnnounced'
  BY <1>7 DEF EndIsAnnounced, news
<1>8. ASSUME NEW u \in User,
             Refused(u) \/ StartExit(u) \/ CommitExit(u) \/ DerivedLeave(u) \/ AddMember(u)
      PROVE EndIsAnnounced'
  BY <1>7, <1>8 DEF Refused, StartExit, CommitExit, DerivedLeave, AddMember, rows
<1>9. CASE Grow
  BY <1>7, <1>9 DEF Grow, rows
<1>10. CASE UNCHANGED vars
  BY <1>7, <1>10 DEF vars, rows
<1>11. ASSUME NEW e \in owed, Emit(e) \/ Lose(e) PROVE EndIsAnnounced'
  <2>1. /\ status' = status
        /\ owed' = owed \ {e}
        /\ \/ told' = told \cup {e} /\ lost' = lost
           \/ told' = told /\ lost' = lost \cup {e}
    BY <1>11 DEF Emit, Lose, rows
  <2>2. owed' \cup told' \cup lost' = owed \cup told \cup lost
    BY <2>1
  <2>3. owed' \cap (told' \cup lost') = {} /\ told' \cap lost' = {}
    BY <2>1 DEF EndIsAnnounced
  <2> QED BY <2>1, <2>2, <2>3 DEF EndIsAnnounced
<1> QED BY <1>1, <1>2, <1>4, <1>5, <1>6, <1>8, <1>9, <1>10, <1>11 DEF Next

-----------------------------------------------------------------------------
LEMMA ChatStep == ChatInv /\ [Next]_vars => ChatInv'
<1> SUFFICES ASSUME ChatInv, [Next]_vars PROVE ChatInv'
  OBVIOUS
<1>1. TypeOK'
  BY TypeStep DEF ChatInv
<1>2. EndIsAnnounced'
  BY AnnounceStep DEF ChatInv
<1>3. OutcomesTellTheTruth' /\ Tidy'
  <2>1. ASSUME NEW u \in User, Refused(u) \/ DerivedLeave(u) \/ AddMember(u)
        PROVE OutcomesTellTheTruth' /\ Tidy'
    BY <2>1, OthersKeep DEF Refused, DerivedLeave, AddMember
  <2>2. CASE Grow \/ UNCHANGED vars
    BY <2>2, OthersKeep DEF Grow, vars
  <2>3. ASSUME NEW u \in User, StartExit(u) \/ CommitExit(u)
        PROVE OutcomesTellTheTruth' /\ Tidy'
    BY <1>1, <2>3, StartExitKeeps, ExitKeeps
  <2>4. ASSUME NEW u \in User, NEW c \in Call,
               \/ Invite(u, c) \/ Accept(u, c)
               \/ Reject(u, c) \/ Cancel(u, c) \/ Hangup(u, c)
        PROVE OutcomesTellTheTruth' /\ Tidy'
    BY <1>1, <2>4, InviteKeeps, AcceptKeeps, RejectKeeps, HangupKeeps
  <2>5. CASE RingingTimeout \/ StaleActiveSweep
    BY <1>1, <2>5, RingingTimeoutKeeps, SweepKeeps
  <2>6. ASSUME NEW e \in owed, Emit(e) \/ Lose(e)
        PROVE OutcomesTellTheTruth' /\ Tidy'
    BY <2>6, OthersKeep DEF Emit, Lose
  <2> QED BY <2>1, <2>2, <2>3, <2>4, <2>5, <2>6 DEF Next
<1> QED BY <1>1, <1>2, <1>3 DEF ChatInv

LEMMA ChatAlways == Spec => []ChatInv
BY ChatInit, ChatStep, PTL DEF Spec

\* The rows of the participants tell how each call went, whoever leaves the
\* room with whatever it has read while calls are answered and end.
THEOREM ChatOutcomesTellTheTruth == Spec => []OutcomesTellTheTruth
<1>1. ChatInv => OutcomesTellTheTruth
  BY DEF ChatInv
<1> QED BY <1>1, ChatAlways, PTL

\* Every path that ends a call owes its participants one event that says how,
\* which is then emitted or lost, never both and never twice.
THEOREM ChatEndIsAnnounced == Spec => []EndIsAnnounced
<1>1. ChatInv => EndIsAnnounced
  BY DEF ChatInv
<1> QED BY <1>1, ChatAlways, PTL

\* What is over stays over, and no final outcome is ever written over.
THEOREM ChatHistoryIsFinal == Spec => HistoryIsFinal
<1> DEFINE Stays(c) ==
        /\ status[c] \in Over => status'[c] = status[c]
        /\ \A u \in User :
              outcome[c][u] \in Final =>
                /\ outcome'[c][u] = outcome[c][u]
                /\ u \in departed'[c] <=> u \in departed[c]
<1>1. ASSUME ChatInv, [Next]_vars, NEW c \in Call PROVE Stays(c)
  <2>0. TypeOK /\ outcome \in [Call -> [User -> Outcome]] /\ departed \in [Call -> SUBSET User]
    BY <1>1 DEF ChatInv, TypeOK
  <2>1. ASSUME NEW u \in User, NEW k \in Call, Invite(u, k) PROVE Stays(c)
    <3>1. /\ status[k] = "unborn" /\ departed' = departed
          /\ status' = [d \in Call |-> IF d = k THEN "ringing"
                                       ELSE IF d \in RangTooLong THEN "missed"
                                       ELSE status[d]]
      BY <2>1 DEF Invite, InviteWith
    <3>2. PICK i \in Invitees(u) :
          outcome' = [d \in Call |->
              IF d = k THEN [v \in User |-> IF v \in i THEN "open" ELSE "absent"]
              ELSE IF d \in RangTooLong THEN MissedOutcome(d)
              ELSE outcome[d]]
      BY <2>1 DEF Invite, InviteWith
    <3>3. CASE c = k
      BY <1>1, <3>1, <3>3 DEF ChatInv, Tidy, UnbornIsBlank, Over, Final
    <3>4. CASE c # k
      BY <3>1, <3>2, <3>4 DEF RangTooLong, MissedOutcome, Over, Final
    <3> QED BY <3>3, <3>4
  <2>2. ASSUME NEW u \in User, NEW k \in Call, Accept(u, k) PROVE Stays(c)
    <3>1. /\ Transition(u, k, {"ringing"}, "active") /\ departed' = departed
      BY <2>2 DEF Accept
    <3>2. /\ status[k] = "ringing"
          /\ \A d \in Call : status'[d] = IF d = k THEN "active" ELSE status[d]
      BY <2>0, <3>1, TransitionWrites
    <3>3. CASE StillIn(k, u)
      <4>1. outcome' = [outcome EXCEPT ![k][u] = "accepted"] /\ "accepted" \in Outcome
        BY <2>2, <3>3 DEF Accept, Outcome
      <4>2. \A v \in User :
              outcome'[c][v] = IF c = k /\ v = u THEN "accepted" ELSE outcome[c][v]
        BY <2>0, <4>1, OneOutcome
      <4> QED BY <3>1, <3>2, <3>3, <4>2 DEF StillIn, Over, Final
    <3>4. CASE ~StillIn(k, u)
      <4>1. outcome' = outcome
        BY <2>2, <3>4 DEF Accept
      <4> QED BY <3>1, <3>2, <4>1 DEF Over
    <3> QED BY <3>3, <3>4
  <2>3. ASSUME NEW u \in User, NEW k \in Call, NEW from \in SUBSET Live, NEW s,
               NEW mine, NEW rest, Transition(u, k, from, s),
               outcome' = [outcome EXCEPT ![k] = Settle(k, u, mine, rest)],
               \A d \in Call, v \in User : outcome'[d][v] = outcome[d][v] =>
                    (v \in departed'[d] <=> v \in departed[d])
        PROVE Stays(c)
    <3>1. /\ status[k] \notin Over
          /\ \A d \in Call : status'[d] = IF d = k THEN s ELSE status[d]
      BY <2>0, <2>3, TransitionWrites DEF Over, Live
    <3>2. \A v \in User : outcome[c][v] \in Final => outcome'[c][v] = outcome[c][v]
      BY <2>0, <2>3, SettleWrites DEF StillIn, Final
    <3> QED BY <2>3, <3>1, <3>2
  <2>4. ASSUME NEW u \in User, NEW k \in Call, Reject(u, k) \/ Cancel(u, k)
        PROVE Stays(c)
    <3>1. {"ringing"} \in SUBSET Live
      BY DEF Live
    <3> QED BY <2>3, <2>4, <3>1 DEF Reject, Cancel
  <2>5. ASSUME NEW u \in User, NEW k \in Call, Hangup(u, k) PROVE Stays(c)
    <3>1. /\ Transition(u, k, Live, "ended") /\ Live \in SUBSET Live
          /\ outcome' = [outcome EXCEPT ![k] = Settle(k, u, "left", Promoted(k))]
          /\ departed' = [departed EXCEPT ![k] =
                @ \cup {v \in User : outcome'[k][v] = "left" /\ outcome[k][v] # "left"}]
      BY <2>5 DEF Hangup
    <3>2. \A d \in Call, v \in User : outcome'[d][v] = outcome[d][v] =>
                    (v \in departed'[d] <=> v \in departed[d])
      BY <3>1, <2>0
    <3> QED BY <2>3, <3>1, <3>2
  <2>6. ASSUME NEW u \in User, CommitExit(u) PROVE Stays(c)
    <3> DEFINE k == exit[u].call
    <3>1. status' = status
      BY <2>6 DEF CommitExit
    <3>2. CASE k # NoCall /\ StillIn(k, u)
      <4>1. k \in Call /\ outcome[k][u] \notin Final
        BY <2>0, <3>2 DEF TypeOK, Exit, StillIn, Final
      <4>2. PICK o \in {"left", "missed"} :
              /\ outcome' = [outcome EXCEPT ![k][u] = o]
              /\ departed' = [departed EXCEPT ![k] = IF exit[u].in THEN @ \cup {u} ELSE @]
        BY <2>6, <3>2 DEF CommitExit
      <4>3. o \in Outcome
        BY DEF Outcome, Final
      <4> HIDE DEF k
      <4>4. \A v \in User : outcome'[c][v] = IF c = k /\ v = u THEN o ELSE outcome[c][v]
        BY <2>0, <4>1, <4>2, <4>3, OneOutcome
      <4>5. \A v \in User : c # k \/ v # u => (v \in departed'[c] <=> v \in departed[c])
        BY <2>0, <4>1, <4>2
      <4> QED BY <3>1, <4>1, <4>4, <4>5
    <3>3. CASE ~(k # NoCall /\ StillIn(k, u))
      BY <2>6, <3>1, <3>3 DEF CommitExit
    <3> QED BY <3>2, <3>3
  <2>7. CASE RingingTimeout
    BY <2>7 DEF RingingTimeout, RangTooLong, MissedOutcome, Over, Final
  <2>8. CASE StaleActiveSweep
    <3>1. c \in StaleActive => status[c] = "active"
      BY DEF StaleActive
    <3> QED BY <2>8, <3>1 DEF StaleActiveSweep, SweptOutcome, StillIn, Over, Final
  <2>9. ASSUME UNCHANGED rows PROVE Stays(c)
    BY <2>9 DEF rows
  <2>10. ASSUME NEW u \in User, \/ Refused(u) \/ StartExit(u)
                                 \/ DerivedLeave(u) \/ AddMember(u)
         PROVE Stays(c)
    BY <2>9, <2>10 DEF Refused, StartExit, DerivedLeave, AddMember
  <2>11. CASE Grow \/ UNCHANGED vars
    BY <2>9, <2>11 DEF Grow, vars
  <2>12. ASSUME NEW e \in owed, Emit(e) \/ Lose(e) PROVE Stays(c)
    BY <2>9, <2>12 DEF Emit, Lose
  <2> QED
    BY <1>1, <2>1, <2>2, <2>4, <2>5, <2>6, <2>7, <2>8, <2>10, <2>11, <2>12 DEF Next
<1> DEFINE Kept ==
        \A c \in Call :
            /\ status[c] \in Over => status'[c] = status[c]
            /\ \A u \in User :
                  outcome[c][u] \in Final =>
                    /\ outcome'[c][u] = outcome[c][u]
                    /\ u \in departed'[c] <=> u \in departed[c]
<1>2. ChatInv /\ [Next]_vars => Kept
  BY <1>1
<1> QED BY <1>2, ChatAlways, PTL DEF Spec, HistoryIsFinal, Kept
=============================================================================
