------------------------------ MODULE MCOutbox ------------------------------
(* A small instance of Outbox: e1 has two consumers, any other event one.  *)
EXTENDS OutboxDelivery, TLC

CONSTANTS e1, c1, c2

MCSubs == [e \in Event |-> IF e = e1 THEN {c1, c2} ELSE {c1}]

\* c1 registered first.
MCRank == [c \in Consumer |-> IF c = c1 THEN 0 ELSE 1]

\* Instances are interchangeable; used by the safety runs only.
WorkerSymmetry == Permutations(Worker)
=============================================================================
