---------------------------- MODULE MC_OfflineSync ----------------------------
(***************************************************************************)
(* Instances of OfflineSync: a new highlight, its removal, which depends on *)
(* it, and two Today actions of one day.                                    *)
(***************************************************************************)
EXTENDS OfflineSync, TLC

CONSTANTS t1, t2, a, b

Highlight == 1
Removal == 2
Skip == 3
SkipAgain == 4

Keys == <<"create", "delete", "today", "today">>
Depends == <<{}, {Highlight}, {}, {}>>
TodayActions == {Skip, SkipAgain}

\* One tab with everything; two tabs on dependent edits, on edits that replace
\* each other, and through a whole change of account.
Alone(t) == [tabs |-> {t}, edits |-> Edit, acts |-> 0]
Dependents == [tabs |-> Tab, edits |-> {Highlight, Removal}, acts |-> 2]
Replacing == [tabs |-> Tab, edits |-> {Skip, SkipAgain}, acts |-> 1]
Shared == [tabs |-> Tab, edits |-> {Skip}, acts |-> 3]

AllCasts == {Alone(t) : t \in Tab} \cup {Dependents, Replacing, Shared}

\* No tab or account is told apart from the others.
Symmetry == Permutations(Account) \cup Permutations(Tab)
=============================================================================
