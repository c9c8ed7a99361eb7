----------------------------- MODULE MC_Discovery -----------------------------
(***************************************************************************)
(* Instances of Discovery: an active source beside one in its baseline, and *)
(* one source taken through its whole lifecycle.                            *)
(***************************************************************************)
EXTENDS Discovery, TLC

CONSTANTS s1, s2, w1, w2, o1, o2

\* The first source in mode m, the second in mode n, with so many actions left.
Start(m, n, actions, failures, fill) ==
    [mode |-> [s \in Source |-> IF s = s1 THEN m ELSE n],
     acts |-> actions, faults |-> failures, backfills |-> fill]

\* An active source and a shadowed one, for runs alone.
RunsAlone == {Start("ACTIVE", "SHADOW", 0, MaxFaults, FALSE)}

\* Two sources that list the same articles, one active and one in its baseline;
\* one source that operators take through its whole lifecycle, and one that they
\* meddle with, while its runs may fail or not; and one source, active or in its
\* baseline, with a backfill.
AllStarts ==
    {Start("ACTIVE", "BASELINE", 0, MaxFaults, FALSE),
     Start("DISABLED", "RETIRED", MaxActs, 0, FALSE),
     Start("ACTIVE", "RETIRED", 1, MaxFaults, FALSE),
     Start("ACTIVE", "RETIRED", 2, 0, FALSE),
     Start("ACTIVE", "RETIRED", 0, 0, TRUE),
     Start("BASELINE", "RETIRED", 0, 0, TRUE)}

\* An active source that two operators meddle with.
TwoOperators == {Start("ACTIVE", "RETIRED", MaxActs, 0, FALSE)}

\* The workers are interchangeable.
Workers == Permutations(Worker)
=============================================================================
