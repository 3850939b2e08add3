----------------------------- MODULE MCJobQueue -----------------------------
(* A small instance of JobQueue: two jobs, which may contend for one corpus *)
(* or use two, and two workers.  Two tokens let a late client meet the new  *)
(* holder of its job, or two jobs run side by side.                         *)
EXTENDS JobQueue, TLC

CONSTANTS w1, w2, c1, c2

MCJobs    == 1..2
MCTokens  == 1..2
MCOwners  == {w1, w2}
MCCorpora == {c1, c2}
Symmetry  == Permutations(MCOwners) \cup Permutations(MCCorpora)
=============================================================================
