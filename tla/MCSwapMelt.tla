----------------------------- MODULE MCSwapMelt -----------------------------
(* Melts of two quotes, of which one is internal, and swaps that compete   *)
(* for the same two proofs and the same two messages.                      *)
EXTENDS SwapMelt, TLC

CONSTANTS p1, p2, b1, b2, q1, q2, m1, m2, r1, r2

\* q1 takes both proofs, q2 either of them or both; a swap takes one.
MCProofAmount  == p1 :> 1 @@ p2 :> 1
MCProofUnit    == p1 :> "sat" @@ p2 :> "sat"
MCProofFeePpk  == p1 :> 0 @@ p2 :> 0
MCOutputAmount == b1 :> 1 @@ b2 :> 1
MCOutputUnit   == b1 :> "sat" @@ b2 :> "sat"
MCUnits        == {"sat"}
MCNeed         == [q \in Quotes |-> IF q = q1 THEN 2 ELSE 1]
MCBlanks       == [m \in Melters |-> IF m = m1 THEN {b1} ELSE {b2}]
=============================================================================
