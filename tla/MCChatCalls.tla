---------------------------- MODULE MCChatCalls ----------------------------
(***************************************************************************)
(* One room of three people for TLC: two may leave it or be removed, the   *)
(* third is added to it, and two calls are started, by whoever presses the *)
(* button first.                                                           *)
(***************************************************************************)
EXTENDS ChatCalls

CONSTANTS
    twin,   \* one of two leavers of whom it does not matter who is who
    first   \* the call that is started first

Begins(c) == status[c] = "unborn" /\ status'[c] # "unborn"

\* No property tells the twins apart, nor the two calls.
UpToSymmetry ==
    \A c \in Call :
        Begins(c) /\ (\A d \in Call : status[d] = "unborn") =>
            c = first /\ initiator'[c] # twin

\* People leave one after the other, and the second call finds the room full.
LeavesOneByOne == Cardinality(late) + Cardinality({u \in User : exit[u].on}) <= 1
SecondInFullRoom ==
    (\E c, d \in Call : Begins(c) /\ status[d] # "unborn") => Leaver \subseteq members

\* Neither holds up time or a job.
Apart == UpToSymmetry /\ LeavesOneByOne' /\ SecondInFullRoom
BoundedSpec == Init /\ [][Next /\ Apart]_vars /\ Fairness
=============================================================================
