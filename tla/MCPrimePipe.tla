---------------------------- MODULE MCPrimePipe -----------------------------
(***************************************************************************)
(* PrimePipe for TLC, with ints of 7 bits: the squares of 11 and of the    *)
(* primes above it overflow, and the 18th prime, 61, is the last int.      *)
(***************************************************************************)
EXTENDS PrimePipe

\* The loop finds every prime that is an int.
ASSUME EveryPrime ==
  \A n \in 1 .. Len(AllPrimes) : CalculatePrime(n) = NthPrime(n)
=============================================================================
