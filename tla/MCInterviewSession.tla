------------------------ MODULE MCInterviewSession ------------------------
(* Instances of InterviewSession for TLC. *)
EXTENDS InterviewRefinement, TLC

CONSTANTS u1, g1, g2, s1, s2, s3, r1, r2, r3

MCGrantOwner == [g \in Grants |-> u1]
MCMinQuestions == [r \in Rounds |-> 1]

RequestSymmetry == Permutations(Requests)
=============================================================================
