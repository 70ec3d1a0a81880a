-------------------------------- MODULE Lists ---------------------------------
(***************************************************************************)
(* What the code does to lists with Array.prototype.filter and with a loop *)
(* over them.  Keep is SelectSeq, written as a fold because the proofs     *)
(* need its definition and SelectSeq is built into the prover.             *)
(***************************************************************************)
EXTENDS Integers, Sequences, SequencesExt

\* The elements of the list that are in S, in their order.
Keep(list, S) ==
    FoldLeft(LAMBDA kept, x : IF x \in S THEN Append(kept, x) ELSE kept, <<>>, list)

\* No element occurs twice.
Distinct(list) == \A i, j \in DOMAIN list : list[i] = list[j] => i = j
===============================================================================
