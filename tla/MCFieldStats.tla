---------------------------- MODULE MCFieldStats ----------------------------
(* Values for the constants of FieldStats: clients are interchangeable. *)
EXTENDS FieldStats, TLC

Clients == Permutations(Client)
=============================================================================
