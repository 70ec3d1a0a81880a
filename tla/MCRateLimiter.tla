---------------------------- MODULE MCRateLimiter -----------------------------
(* Two senders, one of them with a limit of its own, for the checker.        *)
EXTENDS RateLimiter, TLC

CONSTANTS s1, s2

MCHourlyLimit == [s \in Senders |-> IF s = s1 THEN 1 ELSE NoOverride]
Symmetry == Permutations(Callers)
===============================================================================
