------------------------------- MODULE MCLog -------------------------------
(* Instances of Log for TLC. *)
EXTENDS Log, TLC

CONSTANT InodeBlock  \* the home block that mkfs puts right after the log

MCAfter == [i \in 1 .. LOGSIZE + 1 - LogSize |-> InodeBlock]

\* Home blocks are alike but for the one after the log.
Symmetry == Permutations(Proc) \cup Permutations(Block \ {InodeBlock})
=============================================================================
