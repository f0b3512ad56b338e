--------------------------- MODULE MCJobScheduler ---------------------------
(* Small instances of JobScheduler.                                        *)
EXTENDS JobScheduler, TLC

\* Instances are interchangeable; used by the safety runs only.
InstanceSymmetry == Permutations(Instance)
=============================================================================
