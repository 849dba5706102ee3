--------------------------- MODULE MCAnalystBooks ----------------------------
(***************************************************************************)
(* Values for the constants of AnalystBooks.  A tenth of the initial       *)
(* balance is 1; prices and percentages are such that one position takes   *)
(* the cash over a threshold of the status, and two through a second one.  *)
(***************************************************************************)
EXTENDS AnalystBooks, TLC

Sizes == [weak |-> 20, strong |-> 50]

(* A flat signal, when strong, is traded as a long one by the trader and not
   at all by a settlement.  A size of zero comes of the weak one at price 3. *)
Said == {<<"flat", "strong">>, <<"down", "strong">>, <<"up", "weak">>}

(* The two settlements do the same. *)
Interchangeable == Permutations(Settlements)

AllKinds == {"analyst", "arbitrator", "day_trader"}

=============================================================================
