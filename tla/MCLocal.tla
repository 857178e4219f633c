-------------------------------- MODULE MCLocal --------------------------------
(* The local mode with interchangeable highlights and coroutines. *)
EXTENDS LocalWorkspace, TLC

LocalSymmetry == Permutations(Marks) \cup Permutations(Slots)

\* The invariants are about paths that are not tainted, and a path stays tainted: the
\* behaviours are followed up to the first path that is.
Untainted == tainted = {}
================================================================================
