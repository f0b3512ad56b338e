----------------------------- MODULE MCSequence -----------------------------
(* Small instances of SequenceCounter.  The main run checks liveness, so    *)
(* neither instance declares a symmetry.                                    *)
EXTENDS SequenceCounter
=============================================================================
