----------------------------- MODULE CommandOnce -----------------------------
(***************************************************************************)
(* What an Idempotency-Key promises the clients of one key: the command    *)
(* runs once, and again only after the key has lapsed; every answer is the *)
(* answer of a run of the same payload.                                    *)
(***************************************************************************)
EXTENDS Naturals, FiniteSets

CONSTANTS Call, Payload, PayloadOf

VARIABLES
    ran,      \* calls whose command has been committed
    answers,  \* <<c, e>>: c was answered with the response of e
    lapses    \* how often the key stopped protecting the command

vars == <<ran, answers, lapses>>

Init == ran = {} /\ answers = {} /\ lapses = 0

Run(c) ==
    /\ c \notin ran
    /\ Cardinality(ran) <= lapses
    /\ ran' = ran \cup {c}
    /\ UNCHANGED <<answers, lapses>>

Answer(c) ==
    /\ \E e \in ran :
          /\ PayloadOf[e] = PayloadOf[c]
          /\ answers' = answers \cup {<<c, e>>}
    /\ UNCHANGED <<ran, lapses>>

Lapse ==
    /\ lapses' = lapses + 1
    /\ UNCHANGED <<ran, answers>>

Next == Lapse \/ \E c \in Call : Run(c) \/ Answer(c)

Spec == Init /\ [][Next]_vars
=============================================================================
