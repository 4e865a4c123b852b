---------------------------- MODULE MCSwapNotify ----------------------------
(* Two swaps that contend for two proofs and two messages, a melt of one   *)
(* of the proofs that fails, and a client that watches that proof: three   *)
(* events, and a channel of one place.  MCSwapNotifyMany has no melt and   *)
(* lets the client watch both proofs, with a channel of two.               *)
EXTENDS SwapNotify, TLC

CONSTANTS p1, p2, b1, b2, r1, r2, a1, a2, c1

MCProofs  == {p1, p2}
MCOutputs == {b1, b2}

\* A fee of half a unit per input: a request with one or both pays one.
MCProofAmount  == [p \in Proofs |-> 2]
MCProofFeePpk  == [p \in Proofs |-> 500]
MCProofUnit    == [p \in Proofs |-> "sat"]
MCOutputAmount == b1 :> 1 @@ b2 :> 2
MCOutputUnit   == b1 :> "sat" @@ b2 :> "sat"
MCUnits        == {"sat"}

MCOneFilter   == {<<p1>>}
MCMeltInputs  == {p1}
MCManyFilters == {<<p1, p2>>}
=============================================================================
