---------------------------- MODULE MCEvaluation ----------------------------
(* Instances of Evaluation for TLC. *)
EXTENDS Evaluation, TLC

\* Rows are interchangeable, and so are letters.
Symmetric == Permutations(Row) \cup Permutations(Letter)

\* No limit, a limit of one and of two rows, and one that PostgreSQL refuses.
AllLimits == {-2, -1, 1, 2}

OneOrTwo == {1, 2}

=============================================================================
