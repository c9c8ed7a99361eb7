----------------------------- MODULE MC_JobQueue -----------------------------
(***************************************************************************)
(* Small instances of JobQueue for TLC.                                    *)
(***************************************************************************)
EXTENDS JobQueue, TLC

CONSTANTS w1, w2, c1, c2, j1, j2, k1

\* Two row ids for one dedupe key: the second one exists only after the first
\* row was archived or pruned.
OneKey == (j1 :> k1) @@ (j2 :> k1)

\* Two jobs without a key; the specification treats them alike.
NoKeys == (j1 :> None) @@ (j2 :> None)
JobSymmetry == Permutations(Job)
=============================================================================
