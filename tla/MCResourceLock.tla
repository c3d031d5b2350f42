--------------------------- MODULE MCResourceLock ---------------------------
(***************************************************************************)
(* Instances of ResourceLock for TLC.  The environments differ in    *)
(* where a process may die and in the timing assumptions of their cfg.     *)
(***************************************************************************)
EXTENDS ResourceLock, TLC

\* Everywhere but inside the reclaim mutex.
CrashOutsideMutex == Labels \ (Resting \cup Critical)

\* Everywhere but between creating the lock file and writing it.
CrashNotInWrite == Labels \ (Resting \cup {"write"})

Symmetry == Permutations(Agents)
=============================================================================
