-------------------------------- MODULE Sums --------------------------------
(***************************************************************************)
(* The sum of a function from a finite set to the integers, as the books   *)
(* of the portfolios take it over positions, ledger rows and requests.     *)
(***************************************************************************)
EXTENDS Integers, FiniteSets

(* Some element is added to the sum over the others. *)
Sum(f) ==
  LET total[S \in SUBSET DOMAIN f] ==
        IF S = {} THEN 0
        ELSE LET x == CHOOSE x \in S : TRUE IN f[x] + total[S \ {x}]
  IN total[DOMAIN f]

=============================================================================
