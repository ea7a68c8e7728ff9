------------------------------- MODULE Tally -------------------------------
(***************************************************************************)
(* The sum of a natural-valued function over a finite set, written as the  *)
(* number of its units: one pair <<x, i>> for every i in 1..f[x].  It      *)
(* equals the usual fold for the amounts the wallet columns hold, and      *)
(* unlike a recursive sum its laws follow from the cardinality of unions   *)
(* and differences alone.                                                  *)
(***************************************************************************)
EXTENDS Integers, FiniteSets

Units(f, S, M) == {u \in S \X (1..M) : u[2] <= f[u[1]]}

(* The sum of f over S, for f[x] in 0..M. *)
Tally(f, S, M) == Cardinality(Units(f, S, M))
=============================================================================
