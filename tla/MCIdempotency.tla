---------------------------- MODULE MCIdempotency ----------------------------
(* Small instances of Idempotency.                                         *)
EXTENDS Idempotency, TLC

CONSTANTS c1, c2, c3, p1, p2

\* A call, its retry, and a call that reuses the key for another body.
MCPayloadOf == (c1 :> p1) @@ (c2 :> p1) @@ (c3 :> p2)
=============================================================================
