------------------------------ MODULE MCNGram -------------------------------
(* Instances of NGram for TLC: a clock, a count, a label and a flag. *)
EXTENDS NGram, TLC

CONSTANTS clock, count, label, flag

\* Rows are interchangeable.
Ids == Permutations(Row)

Kinds == clock :> "integer" @@ count :> "integer" @@ flag :> "boolean"
         @@ label :> "string"

AroundZero == {-2, 0, 2}

\* Of texts in their order, say "10", "1a" and "9".
Numbers == -2 :> 10 @@ 0 :> 1 @@ 2 :> 9 @@ 1 :> 5

=============================================================================
