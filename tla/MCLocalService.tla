--------------------------- MODULE MCLocalService ---------------------------
(* The target t1 names the key file f1. *)
EXTENDS LocalService, TLC

CONSTANTS t1, f1

MCKeyPath == [t \in Targets |-> IF t = t1 THEN f1 ELSE NoPath]

\* The processes are only ever compared for equality.
Symmetric == Permutations(Procs)
=============================================================================
