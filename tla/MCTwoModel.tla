----------------------------- MODULE MCTwoModel -----------------------------
EXTENDS TwoModel

\* The tokens take turns, so that a wrong position shows.
MCNextBest == [i \in 1..(MaxTokens + 1) |-> IF i % 2 = 1 THEN "a" ELSE "b"]
=============================================================================
