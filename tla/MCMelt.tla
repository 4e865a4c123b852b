------------------------------- MODULE MCMelt -------------------------------
(* Small instances of Melt: two quotes, of which one may be internal, that  *)
(* compete for the same proofs and for the same blank outputs.             *)
EXTENDS Melt, TLC

CONSTANTS p1, p2, b1, b2, q1, q2, m1, m2, m3

\* q1 takes both proofs, q2 either of them or both.
MCProofAmount == p1 :> 1 @@ p2 :> 1
MCNeed        == q1 :> 2 @@ q2 :> 1

\* Either of them takes one, so that both may be pending at once.
MCEach     == q1 :> 1 @@ q2 :> 1
MCSymmetry == Permutations(Proofs)

\* p1 is enough for q1, p2 for q2.
MCUnequal  == p1 :> 2 @@ p2 :> 1

\* b1 and b2 are named by more than one request; see UNIQUE("B_").
Named    == m1 :> {b1} @@ m2 :> {b1, b2} @@ m3 :> {b2}
MCBlanks == [m \in Melters |-> Named[m]]

\* Every request names the same one.
MCOneBlank == [m \in Melters |-> {b1}]
=============================================================================
