---------------------------- MODULE MCEvaluation -----------------------------
(***************************************************************************)
(* Values for the constants of Evaluation: horizons of one day, which never *)
(* has data, and of two and three days.                                    *)
(***************************************************************************)
EXTENDS Evaluation, TLC

Days == {1, 2, 3}

(* Runs do the same, whoever starts them. *)
Interchangeable == Permutations(Runs)

=============================================================================
