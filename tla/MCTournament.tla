--------------------------- MODULE MCTournament -----------------------------
(* The instance of Tournament that TLC checks. *)
EXTENDS Tournament

CONSTANTS a, s, c

OneRequest == {a}
OneSettlement == {s}
OneCron == {c}

AllCalls == {"queue", "close", "destination"}

TwoPrices == {1, 2}
OnlyOne == {1}

=============================================================================
