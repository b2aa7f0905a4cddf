------------------------------- MODULE Statistics -------------------------------
(***************************************************************************)
(* The counters in the statistics of the two buses: they are of the type   *)
(* size_t, wrap, and start again at 0 after resetStatistics(), whatever    *)
(* there is to count by then.                                              *)
(***************************************************************************)
EXTENDS Integers

CONSTANT SizeLimit  \* the numbers that a size_t has; bound: far fewer than 2^64

Raised(n) == IF n + 1 = SizeLimit THEN 0 ELSE n + 1

Lowered(n, k) == IF n >= k THEN n - k ELSE n - k + SizeLimit

\* A small number as a size_t has it, also one below 0.
Wrapped(n) == IF n >= 0 THEN n ELSE n + SizeLimit

=============================================================================
