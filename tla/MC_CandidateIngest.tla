-------------------------- MODULE MC_CandidateIngest --------------------------
(***************************************************************************)
(* Instances of CandidateIngest. Two candidates whose pages declare one     *)
(* canonical URL, reached at different addresses or at one, and a third     *)
(* with its own canonical URL and the same prose.                           *)
(***************************************************************************)
EXTENDS CandidateIngest

CONSTANTS c1, c2, c3, u1, u2, u3, k1, k2, p1, w1, w2

SeenOrder == [c \in Candidate |-> CASE c = c1 -> 1 [] c = c2 -> 2 [] c = c3 -> 3]

\* Each candidate's page is reached at an address of its own.
OwnUrl == [c \in Candidate |-> CASE c = c1 -> u1 [] c = c2 -> u2 [] c = c3 -> u3]

\* c1 and c2 redirect to one address.
SharedUrl == [c \in Candidate |-> IF c = c3 THEN u3 ELSE u1]

\* c1 and c2 are variants of one page; c3 is another page with the same prose.
VariantKey == [c \in Candidate |-> IF c = c3 THEN k2 ELSE k1]

OneProse == [c \in Candidate |-> p1]
=============================================================================
