----------------------------- MODULE PrefixSums -----------------------------
(* Sums of the first values of a function on 1..n, by a recursive function *)
(* (the folds of the community modules take an operator as a parameter).   *)
EXTENDS Integers

\* f[1] + ... + f[n]
SumUpTo(f, n) ==
    LET sum[i \in 0..n] == IF i = 0 THEN 0 ELSE sum[i - 1] + f[i] IN sum[n]

============================================================================
