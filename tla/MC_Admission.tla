----------------------------- MODULE MC_Admission -----------------------------
(***************************************************************************)
(* Small instances of Admission for TLC.                                   *)
(***************************************************************************)
EXTENDS Admission, TLC

CONSTANTS e1, c1, c2, w1, w2

\* Two requests at once beside one sender, or one beside two senders.
Pairs == {c \in [callers : SUBSET Caller, senders : SUBSET Sender] :
            {Cardinality(c.callers), Cardinality(c.senders)} = {1, 2}}
\* One request at a time, and one sender.
One == {[callers |-> Caller, senders |-> Sender]}

\* Callers are interchangeable, and so are senders.
Requests == Permutations(Caller) \cup Permutations(Sender)
=============================================================================
