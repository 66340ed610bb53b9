------------------------- MODULE MCGenerationWorker -------------------------
(* Instances of GenerationWorker for TLC.                                  *)
EXTENDS GenerationWorker, TLC

CONSTANTS g1, g2

\* What may go wrong without a second decision for a lease.
Outages == {"lost", "kill", "store", "upgrade"}
\* What may go wrong without a result that stays in the cache.
Replies == {"lost", "malformed", "status", "unsafe"}

Symmetry == Permutations(Jobs)
=============================================================================
