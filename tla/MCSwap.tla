------------------------------- MODULE MCSwap -------------------------------
(* Small instances of Swap: two units, one keyset with a fee, amounts such *)
(* that either of two proofs may be swapped for either of two messages,    *)
(* both for a third one as well, and requests that mix units balance.      *)
EXTENDS Swap, TLC

CONSTANTS p1, p2, p3, b1, b2, b3, b4, r1, r2, r3

MCProofs  == {p1, p2, p3}
MCOutputs == {b1, b2, b3, b4}
MCUnits   == {"sat", "usd"}

\* p1 and p2 share a keyset with a fee of half a unit per input: a request
\* with either or both pays one.  p3 is of a keyset without fee.
MCProofAmount  == p1 :> 2 @@ p2 :> 2 @@ p3 :> 2
MCProofFeePpk  == p1 :> 500 @@ p2 :> 500 @@ p3 :> 0
MCProofUnit    == p1 :> "sat" @@ p2 :> "sat" @@ p3 :> "usd"
MCOutputAmount == b1 :> 1 @@ b2 :> 2 @@ b3 :> 1 @@ b4 :> 2
MCOutputUnit   == b1 :> "sat" @@ b2 :> "sat" @@ b3 :> "sat" @@ b4 :> "usd"

MCSymmetry == Permutations(Requests)
=============================================================================
