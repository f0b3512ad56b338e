--------------------------- MODULE OutboxDelivery ---------------------------
(***************************************************************************)
(* The outbox implements EventDelivery, as long as no batch outlives the   *)
(* reaper's limit (MaxStalls = 0): a late finalizeStatus may reopen a      *)
(* closed event, which EventDelivery forbids.                              *)
(***************************************************************************)
EXTENDS Outbox

\* An event is open from the commit of its row until 'done' or 'failed'.
PhaseOf(s) == CASE s = "absent" -> "unpublished"
                [] s \in {"pending", "processing"} -> "open"
                [] OTHER -> "closed"

Delivery == INSTANCE EventDelivery WITH
    phase   <- [e \in Event |-> PhaseOf(status[e])],
    heard   <- handled,
    buried  <- dead,
    settled <- processed

\* Every step of the workers is a step of the promise or invisible in it.
ImplementsDelivery == Delivery!Spec
=============================================================================
