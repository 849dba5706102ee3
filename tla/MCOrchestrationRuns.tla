------------------------ MODULE MCOrchestrationRuns -------------------------
(* The instances of OrchestrationRuns that TLC checks. *)
EXTENDS OrchestrationRuns, TLC

CONSTANTS i1, i2, a, b, r1, r2, r3

OneInstrument == {i1}
TwoInstruments == {i1, i2}
OneKey == {<<i1, "prediction">>}

OneCaller == {a}
TwoCallers == {a, b}

Symmetry == Permutations({a, b}) \cup Permutations({r1, r2, r3})

TwoRuns == {r1, r2}
ThreeRuns == {r1, r2, r3}

=============================================================================
