------------------------------ MODULE ChatCalls ------------------------------
(***************************************************************************)
(* The calls of one chat room (ChatCallsService, ChatCallsRepository), the *)
(* members who leave and join the room meanwhile (ChatRoomsService,        *)
(* ChatMembersService, ChatCallRoomExitService), the two sweeping jobs     *)
(* (chat-call-ringing-timeout, chat-call-stale-active-sweep) and the       *)
(* events told to the participants after commit.                           *)
(*                                                                         *)
(* Transactions run under READ COMMITTED.  A request first reads, without  *)
(* a lock, and later writes and commits: the UPDATE of the call row makes  *)
(* the writers of one call wait for each other, so that the writes of a    *)
(* transaction are one step.  A room exit takes no lock on the call row:   *)
(* what it has read may be stale when it writes.                           *)
(***************************************************************************)
EXTENDS Naturals, FiniteSets

CONSTANTS
    User,         \* people who may be members of the room
    Leaver,       \* those of them who may leave it or be removed from it
    Joiner,       \* those of them who may be added to it
    Call,         \* calls that may be started
    NoCall,       \* no call
    MaxInvitees   \* CHAT_CALL_MAX_INVITEES

ASSUME ChatCallsAssumption ==
    /\ User # {} /\ IsFiniteSet(User) /\ Leaver \subseteq User /\ Joiner \subseteq User
    /\ NoCall \notin Call
    /\ MaxInvitees \in Nat \ {0}

VARIABLES
    members,    \* chat_room_members whose left_at is NULL
    status,     \* chat_calls.status, "unborn" before the row exists
    initiator,  \* chat_calls.initiator_user_id
    answered,   \* calls whose accepted_at is set
    age,        \* the last threshold that the live call has passed
    outcome,    \* chat_call_participants.outcome, "open" for NULL
    joined,     \* participants whose joined_at is set
    departed,   \* participants whose left_at is set
    exited,     \* participants closed by a room exit (its audit rows)
    late,       \* people who have left, with a request perhaps under way
    exit,       \* exit[u]: what a transaction that removes u has read
    owed,       \* ends of calls that are committed, and not yet emitted
    told,       \* those that were handed to the emitter
    lost        \* those whose process died first, or whose emitter failed

rows == <<status, initiator, answered, outcome, joined, departed, exited>>
news == <<owed, told, lost>>
vars == <<members, rows, age, late, exit, news>>

Live == {"ringing", "active"}
Over == {"rejected", "cancelled", "ended", "missed"}
Status == {"unborn"} \cup Live \cup Over
Final == {"rejected", "cancelled", "missed", "left"}
Outcome == {"absent", "open", "accepted"} \cup Final
Event == [call: Call, action: Over]

\* Thresholds in the order in which a call passes them:
\* CHAT_CALL_RING_TIMEOUT_MS, CHAT_CALL_ORPHAN_GRACE_MS, CHAT_CALL_ACTIVE_MAX_MS.
Fresh == 0
RungOut == 1
PastGrace == 2
PastMax == 3

Exit == [on: BOOLEAN, call: Call \cup {NoCall}, in: BOOLEAN]
NoExit == [on |-> FALSE, call |-> NoCall, in |-> FALSE]

TypeOK ==
    /\ members \subseteq User
    /\ status \in [Call -> Status]
    /\ initiator \in [Call -> User]
    /\ answered \subseteq Call
    /\ age \in Fresh..PastMax
    /\ outcome \in [Call -> [User -> Outcome]]
    /\ joined \in [Call -> SUBSET User]
    /\ departed \in [Call -> SUBSET User]
    /\ exited \in [Call -> SUBSET User]
    /\ late \subseteq User
    /\ exit \in [User -> Exit]
    /\ owed \subseteq Event /\ told \subseteq Event /\ lost \subseteq Event

Init ==
    /\ members = User \ Joiner
    /\ status = [c \in Call |-> "unborn"]
    /\ initiator = [c \in Call |-> CHOOSE u \in User : TRUE]
    /\ answered = {}
    /\ age = Fresh
    /\ outcome = [c \in Call |-> [u \in User |-> "absent"]]
    /\ joined = [c \in Call |-> {}]
    /\ departed = [c \in Call |-> {}]
    /\ exited = [c \in Call |-> {}]
    /\ late = {}
    /\ exit = [u \in User |-> NoExit]
    /\ owed = {} /\ told = {} /\ lost = {}

-----------------------------------------------------------------------------
(* Statements of ChatCallsRepository *)

\* activeParticipantOutcomeSql: 'accepted' means to be in the call, not out.
StillIn(c, u) == outcome[c][u] \in {"open", "accepted"}

\* setParticipantOutcome, then closeOpenParticipants for everyone else: u is
\* closed with `mine`, whoever has not decided with rest[v].
\* (SettlesEveryone forgets the WHERE clause of the others.)
SettlesEveryone(c, u, mine, rest) ==
    [v \in User |->
        IF outcome[c][v] = "absent" THEN "absent"
        ELSE IF v = u THEN mine ELSE rest[v]]
Settle(c, u, mine, rest) ==
    [v \in User |->
        IF v = u /\ StillIn(c, v) THEN mine
        ELSE IF v # u /\ outcome[c][v] = "open" THEN rest[v]
        ELSE outcome[c][v]]

Everyone(o) == [v \in User |-> o]
Participants(c) == {u \in User : outcome[c][u] # "absent"}

\* capInvitees: everyone, or the initiator and as many more as fit.
Invitees(u) ==
    IF Cardinality(members) <= MaxInvitees THEN {members}
    ELSE {{u} \cup s : s \in {t \in SUBSET (members \ {u}) :
                                Cardinality(t) = MaxInvitees - 1}}

\* emitLifecycle, emitExpired and emitAutoEnded tell every participant, once
\* withTenant has committed.  The calls that begin to ring or are answered are
\* told of in the same way; only the ends of calls are followed here.
Told(c, action) == [call |-> c, action |-> action]
Tell(es) == owed' = owed \cup es /\ UNCHANGED <<told, lost>>

Emit(e) ==
    /\ e \in owed
    /\ owed' = owed \ {e}
    /\ told' = told \cup {e}
    /\ UNCHANGED <<members, rows, age, late, exit, lost>>

\* The process dies after the commit or never learns of it, or the emitter
\* throws and the helper logs it and goes on: the event is not told again.
Lose(e) ==
    /\ e \in owed
    /\ owed' = owed \ {e}
    /\ lost' = lost \cup {e}
    /\ UNCHANGED <<members, rows, age, late, exit, told>>

-----------------------------------------------------------------------------
\* assertMember and assertCallAccess read the membership of the actor without
\* a lock, early in the transaction: a request is admitted of a member, and
\* goes on when its actor leaves the room meanwhile.
Admitted(u) ==
    \/ u \in members /\ late' = late
    \/ u \in late \ members /\ late' = late \ {u}

\* The late request is refused (403, 409, 422) or fails, or there was none.
Refused(u) ==
    /\ u \in late
    /\ late' = late \ {u}
    /\ UNCHANGED <<members, rows, age, exit, news>>

-----------------------------------------------------------------------------
(* Starting a call: ChatCallsService.invite *)

\* expireStaleTx: what rang too long is missed, and so is everyone in it.
RangTooLong == {c \in Call : status[c] = "ringing" /\ age >= RungOut}
MissedOutcome(c) ==
    [u \in User |-> IF outcome[c][u] = "open" THEN "missed" ELSE outcome[c][u]]

\* Expire first, so that a forgotten call does not lock the room; the unique
\* index refuses a second live call; whoever is a member now is invited.
\* (ForgetsTheMissed does not tell the participants of the expired call.)
InviteWith(u, c, es) ==
    /\ Admitted(u)
    /\ status[c] = "unborn"
    /\ \A d \in Call : status[d] \in Live => d \in RangTooLong
    /\ status' = [d \in Call |-> IF d = c THEN "ringing"
                                 ELSE IF d \in RangTooLong THEN "missed"
                                 ELSE status[d]]
    /\ initiator' = [initiator EXCEPT ![c] = u]
    /\ age' = Fresh
    /\ \E i \in Invitees(u) :
          /\ outcome' = [d \in Call |->
                IF d = c THEN [v \in User |-> IF v \in i THEN "open" ELSE "absent"]
                ELSE IF d \in RangTooLong THEN MissedOutcome(d)
                ELSE outcome[d]]
          /\ joined' = [joined EXCEPT ![c] = i \cap {u}]
    /\ Tell(es)
    /\ UNCHANGED <<members, answered, departed, exited, exit>>
ForgetsTheMissed(u, c) == InviteWith(u, c, {})
Invite(u, c) == InviteWith(u, c, {Told(d, "missed") : d \in RangTooLong})

-----------------------------------------------------------------------------
(* Acting on a call: lifecycleTx with accept, reject, cancel and hangup *)

\* Who may act: findParticipant, and the role the act requires.
Callee(u, c) == u \in Participants(c) /\ u # initiator[c]
Caller(u, c) == u \in Participants(c) /\ u = initiator[c]

\* mustTransition: the status is tested in the WHERE clause of the UPDATE.
Transition(u, c, from, to) ==
    /\ Admitted(u)
    /\ status[c] \in from
    /\ status' = [status EXCEPT ![c] = to]
    /\ age' = IF to \in Over THEN Fresh ELSE age
    /\ UNCHANGED <<members, initiator, exited, exit>>

\* Nobody looks at whether setParticipantOutcome found the row still open.
Accept(u, c) ==
    /\ Callee(u, c)
    /\ Transition(u, c, {"ringing"}, "active")
    /\ answered' = answered \cup {c}
    /\ IF StillIn(c, u)
       THEN /\ outcome' = [outcome EXCEPT ![c][u] = "accepted"]
            /\ joined' = [joined EXCEPT ![c] = @ \cup {u}]
       ELSE UNCHANGED <<outcome, joined>>
    /\ UNCHANGED <<departed, news>>

Reject(u, c) ==
    /\ Callee(u, c)
    /\ Transition(u, c, {"ringing"}, "rejected")
    /\ outcome' = [outcome EXCEPT ![c] = Settle(c, u, "rejected", Everyone("missed"))]
    /\ UNCHANGED <<answered, joined, departed>>
    /\ Tell({Told(c, "rejected")})

Cancel(u, c) ==
    /\ Caller(u, c)
    /\ Transition(u, c, {"ringing"}, "cancelled")
    /\ outcome' = [outcome EXCEPT ![c] = Settle(c, u, "cancelled", Everyone("cancelled"))]
    /\ UNCHANGED <<answered, joined, departed>>
    /\ Tell({Told(c, "cancelled")})

\* promoteJoinedTo: in a call that was answered, who had joined has left.
\* (MissesEveryone promotes nobody, EndsEveryone writes the status.)
MissesEveryone(c) == Everyone("missed")
EndsEveryone(c) == Everyone("ended")
Promoted(c) ==
    [v \in User |-> IF c \in answered /\ v \in joined[c] THEN "left" ELSE "missed"]
Hangup(u, c) ==
    /\ u \in Participants(c)
    /\ Transition(u, c, Live, "ended")
    /\ outcome' = [outcome EXCEPT ![c] = Settle(c, u, "left", Promoted(c))]
    /\ departed' = [departed EXCEPT ![c] =
            @ \cup {v \in User : outcome'[c][v] = "left" /\ outcome[c][v] # "left"}]
    /\ UNCHANGED <<answered, joined>>
    /\ Tell({Told(c, "ended")})

-----------------------------------------------------------------------------
(* Members come and go: leaveRoom, removeMember and addMember *)

\* setMemberLeft, not yet committed, and findOpenParticipantCallsInRoom.
StartExit(u) ==
    /\ u \in members \cap Leaver
    /\ exit[u] = NoExit
    /\ LET open == {c \in Call : status[c] \in Live /\ StillIn(c, u)} IN
       \/ /\ open = {}
          /\ exit' = [exit EXCEPT ![u].on = TRUE]
       \/ \E c \in open :
             exit' = [exit EXCEPT ![u] =
                [on |-> TRUE, call |-> c, in |-> c \in answered /\ u \in joined[c]]]
    /\ UNCHANGED <<members, rows, age, late, news>>

\* closeCallParticipationOnRoomExit writes what it made of its read, unless
\* the row has been closed since, and commits together with the exit.
CommitExit(u) ==
    /\ exit[u].on
    /\ members' = members \ {u}
    /\ LET c == exit[u].call
           o == IF exit[u].in THEN "left" ELSE "missed" IN
       IF c # NoCall /\ StillIn(c, u)
       THEN /\ outcome' = [outcome EXCEPT ![c][u] = o]
            /\ departed' = [departed EXCEPT ![c] = IF exit[u].in THEN @ \cup {u} ELSE @]
            /\ exited' = [exited EXCEPT ![c] = @ \cup {u}]
       ELSE UNCHANGED <<outcome, departed, exited>>
    /\ exit' = [exit EXCEPT ![u] = NoExit]
    /\ late' = late \cup {u}
    /\ UNCHANGED <<status, initiator, answered, joined, age, news>>

\* applyLeavesTx and applyOffboardLeavesTx of ChatDerivedRoomsSyncService: who
\* leaves the department, the project or the company leaves its room, and the
\* rows of a call are not touched.
DerivedLeave(u) ==
    /\ u \in members \cap Leaver
    /\ ~exit[u].on
    /\ members' = members \ {u}
    /\ late' = late \cup {u}
    /\ UNCHANGED <<rows, age, exit, news>>

AddMember(u) ==
    /\ u \in Joiner \ members
    /\ members' = members \cup {u}
    /\ UNCHANGED <<rows, age, late, exit, news>>

-----------------------------------------------------------------------------
(* Time, and the jobs that watch it *)

Grow ==
    /\ \E c \in Call : status[c] \in Live
    /\ age < PastMax
    /\ age' = age + 1
    /\ UNCHANGED <<members, rows, late, exit, news>>

\* ChatCallRingingTimeoutJobHandler: expireStaleTx for every room.
RingingTimeout ==
    /\ RangTooLong # {}
    /\ status' = [c \in Call |-> IF c \in RangTooLong THEN "missed" ELSE status[c]]
    /\ outcome' = [c \in Call |-> IF c \in RangTooLong THEN MissedOutcome(c) ELSE outcome[c]]
    /\ Tell({Told(c, "missed") : c \in RangTooLong})
    /\ age' = Fresh
    /\ UNCHANGED <<members, initiator, answered, joined, departed, exited,
                   late, exit>>

\* staleActiveWhereSql: too old, or old enough and nobody is in it any more.
\* (OrphansOnly leaves out max_duration.)
Orphaned(c) == \A u \in User : ~StillIn(c, u)
OrphansOnly ==
    {c \in Call : status[c] = "active" /\ age >= PastGrace /\ Orphaned(c)}
StaleActive ==
    {c \in Call : /\ status[c] = "active"
                  /\ \/ age >= PastMax
                     \/ age >= PastGrace /\ Orphaned(c)}

\* ChatCallStaleActiveSweepJobHandler: expireStaleActiveTx settles row by row.
SweptOutcome(c) ==
    [u \in User |-> IF StillIn(c, u)
                    THEN IF u \in joined[c] THEN "left" ELSE "missed"
                    ELSE outcome[c][u]]
StaleActiveSweep ==
    /\ StaleActive # {}
    /\ status' = [c \in Call |-> IF c \in StaleActive THEN "ended" ELSE status[c]]
    /\ outcome' = [c \in Call |-> IF c \in StaleActive THEN SweptOutcome(c) ELSE outcome[c]]
    /\ departed' = [c \in Call |->
            IF c \in StaleActive
            THEN departed[c] \cup {u \in joined[c] : StillIn(c, u)}
            ELSE departed[c]]
    /\ Tell({Told(c, "ended") : c \in StaleActive})
    /\ age' = Fresh
    /\ UNCHANGED <<members, initiator, answered, joined, exited, late, exit>>

-----------------------------------------------------------------------------
Next ==
    \/ \E u \in User : \/ Refused(u)
                       \/ StartExit(u) \/ CommitExit(u)
                       \/ DerivedLeave(u) \/ AddMember(u)
    \/ \E u \in User, c \in Call :
          \/ Invite(u, c)
          \/ Accept(u, c) \/ Reject(u, c) \/ Cancel(u, c) \/ Hangup(u, c)
    \/ \E e \in owed : Emit(e) \/ Lose(e)
    \/ Grow
    \/ RingingTimeout
    \/ StaleActiveSweep

\* Time passes and the scheduler runs its jobs; nobody has to press a button.
Fairness ==
    /\ WF_vars(Grow)
    /\ WF_vars(RingingTimeout)
    /\ WF_vars(StaleActiveSweep)

Spec == Init /\ [][Next]_vars /\ Fairness
-----------------------------------------------------------------------------
(* Properties *)

\* What is over stays over, with the status it ended with, and a final
\* outcome is never written over, whoever hangs up, leaves or sweeps at the
\* same time.
HistoryIsFinal ==
    [][\A c \in Call :
        /\ status[c] \in Over => status'[c] = status[c]
        /\ \A u \in User :
              outcome[c][u] \in Final =>
                /\ outcome'[c][u] = outcome[c][u]
                /\ u \in departed'[c] <=> u \in departed[c]]_vars

\* Nobody is left undecided in a call that is over.
NobodyIsLeftOpen ==
    \A c \in Call, u \in User : status[c] \in Over => outcome[c][u] # "open"

\* left_at goes with 'left' and with nothing else; 'left' from a call that
\* nobody answered is written by hangup alone.
LeftIsStamped ==
    \A c \in Call, u \in User :
        /\ outcome[c][u] = "left" <=> u \in departed[c]
        /\ outcome[c][u] = "left" /\ c \notin answered => status[c] = "ended"

\* Who was in an answered call is not recorded as having missed it, unless
\* a room exit closed the row with what it had read before the answer.
TalkersAreNotMissed ==
    \A c \in answered, u \in User :
        outcome[c][u] = "missed" /\ u \in joined[c] => u \in exited[c]

\* An answered call has somebody who answered, unless the one who did was
\* on the way out of the room.
AnsweredBySomebody ==
    \A c \in answered :
        \E u \in User \ {initiator[c]} : u \in joined[c] \cup exited[c]

\* The rows of the participants tell how the call went.
OutcomesTellTheTruth ==
    /\ NobodyIsLeftOpen
    /\ LeftIsStamped
    /\ TalkersAreNotMissed
    /\ AnsweredBySomebody

\* The end of a call is handed over by exactly one of the seven paths that can
\* end one, however they race, with the action that ended it: it is told, about
\* to be told, or lost with its process, and only one of these, so that nobody
\* is told of an end twice or of one that did not happen.  Who rings or talks
\* has no other way to learn that the call is over.
EndIsAnnounced ==
    /\ \A c \in Call, a \in Over :
          Told(c, a) \in owed \cup told \cup lost <=> status[c] = a
    /\ owed \cap (told \cup lost) = {} /\ told \cap lost = {}

\* No call holds the room for ever, whoever leaves the room, is added to it
\* or closes the browser (the sweep exists because one could): again and
\* again no call is live and the unique index lets a new one in.
RoomComesFree ==
    []<>(\A c \in Call : status[c] \notin Live)
=============================================================================
