-------------------------------- MODULE Sums --------------------------------
(***************************************************************************)
(* Amounts are added up in many places: the inputs of a request, its       *)
(* outputs, the fees of the keysets.  One operator for all of them.        *)
(***************************************************************************)
EXTENDS Integers, FiniteSetsExt

\* The sum of a function over a set of its arguments.
SumOf(S, weight) == MapThenSumSet(LAMBDA x : weight[x], S)
=============================================================================
