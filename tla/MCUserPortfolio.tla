-------------------------- MODULE MCUserPortfolio ---------------------------
(* The instances of UserPortfolio that TLC checks. *)
EXTENDS UserPortfolio

CONSTANTS a, b, s, m

OneRequest == {a}
OneSettlement == {s}
OneReset == {m}

AllCalls == {"immediate", "destination", "close"}
ImmediateAndClose == {"immediate", "close"}

TwoPrices == {1, 2}
OnlyOne == {1}
OnlyTwo == {2}

=============================================================================
