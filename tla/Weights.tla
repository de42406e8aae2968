------------------------------ MODULE Weights ------------------------------
(***************************************************************************)
(* The sum of a natural-valued function over a finite set, as a count of   *)
(* units: element x contributes the units <<x, 1>>, ..., <<x, f[x]>>.      *)
(* Counting units instead of folding keeps the sum within reach of the     *)
(* theorems about finite sets, so that budgets can be reasoned about for   *)
(* every number of workers.                                                *)
(***************************************************************************)
EXTENDS Integers, FiniteSets

Units(S, f) == UNION { {x} \X (1 .. f[x]) : x \in S }

Weight(S, f) == Cardinality(Units(S, f))
=============================================================================
