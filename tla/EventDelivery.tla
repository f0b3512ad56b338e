--------------------------- MODULE EventDelivery ---------------------------
(***************************************************************************)
(* What the event layer promises to the modules that enqueue events and to *)
(* the consumers that listen (EventBus, OutboxService), without workers,   *)
(* batches, retries or time.  Every consumer of a published event is       *)
(* settled exactly once, after it handled the event or after it was given  *)
(* up on; an event is closed only when all of its consumers are settled;   *)
(* and a settled consumer never hears of the event again.  Giving up is    *)
(* not the opposite of handling: a consumer whose handling was settled     *)
(* without the worker learning of it may be given up on as well.           *)
(***************************************************************************)
EXTENDS Naturals

CONSTANTS Event, Consumer, Subs

VARIABLES
    phase,      \* phase[e]: "unpublished", "open" or "closed"
    heard,      \* heard[e, c]: how often the consumer has handled the event
    buried,     \* pairs given up on
    settled     \* pairs that are owed nothing any more

vars == <<phase, heard, buried, settled>>

Pair == Event \X Consumer

TypeOK ==
    /\ phase \in [Event -> {"unpublished", "open", "closed"}]
    /\ heard \in [Pair -> Nat]
    /\ buried \subseteq Pair
    /\ settled \subseteq Pair

Init ==
    /\ phase = [e \in Event |-> "unpublished"]
    /\ heard = [p \in Pair |-> 0]
    /\ buried = {}
    /\ settled = {}

Publish(e) ==
    /\ phase[e] = "unpublished"
    /\ phase' = [phase EXCEPT ![e] = "open"]
    /\ UNCHANGED <<heard, buried, settled>>

\* A consumer owed the event: the event is open and the pair is not settled.
Owed(e, c) == phase[e] = "open" /\ c \in Subs[e] /\ <<e, c>> \notin settled

Deliver(e, c) ==
    /\ Owed(e, c)
    /\ heard' = [heard EXCEPT ![<<e, c>>] = @ + 1]
    /\ UNCHANGED <<phase, buried, settled>>

\* Also of a consumer that was settled behind the worker's back, if it has heard.
Bury(e, c) ==
    /\ phase[e] = "open"
    /\ c \in Subs[e]
    /\ <<e, c>> \notin settled \/ heard[<<e, c>>] > 0
    /\ buried' = buried \cup {<<e, c>>}
    /\ UNCHANGED <<phase, heard, settled>>

Settle(e, c) ==
    /\ Owed(e, c)
    /\ heard[<<e, c>>] > 0 \/ <<e, c>> \in buried
    /\ settled' = settled \cup {<<e, c>>}
    /\ UNCHANGED <<phase, heard, buried>>

Close(e) ==
    /\ phase[e] = "open"
    /\ \A c \in Subs[e] : <<e, c>> \in settled
    /\ phase' = [phase EXCEPT ![e] = "closed"]
    /\ UNCHANGED <<heard, buried, settled>>

Next ==
    \E e \in Event :
        \/ Publish(e)
        \/ Close(e)
        \/ \E c \in Consumer : Deliver(e, c) \/ Bury(e, c) \/ Settle(e, c)

Spec == Init /\ [][Next]_vars
=============================================================================
