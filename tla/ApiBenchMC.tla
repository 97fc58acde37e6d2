----------------------------- MODULE ApiBenchMC -----------------------------
(* Prices and answers for TLC *)
EXTENDS ApiBench

Usage(i, o, r, w) == [input |-> i, output |-> o, cacheRead |-> r, cacheWrite |-> w]

\* A cached token is cheap to read and dear to write
BenchPrices == Usage(2, 3, 1, 4)

\* An answer within both caps, and one of which two exceed the dollars only
BenchUsages == {Usage(1, 0, 0, 0), Usage(1, 0, 1, 1)}
=============================================================================
