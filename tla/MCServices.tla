----------------------------- MODULE MCServices -----------------------------
(***************************************************************************)
(* Small instances of the services: two units and two overlapping          *)
(* rotations; an out swap confirmed twice and an in swap; three items and  *)
(* a clock of a few ticks; three requests with two auth proofs; every lock *)
(* of three keys, witnesses of two signatures; amounts of five bits and    *)
(* three msat in a sat; three calls of a backend about one invoice.        *)
(***************************************************************************)
EXTENDS Services, TLC

CONSTANTS r1, r2, out1, in1, h1, h2, h3, i1, i2, i3, a1, a2, a3, good, bad, k1, k2, k3, x1, x2,
          o1, o2

\* A seed has the fee 0, a rotation of sat asks for another: its id is new also
\* if the rotation overlooks the seeds; that of the other unit is taken then.
MCAsks == {[unit |-> "sat", fee |-> 1], [unit |-> "usd", fee |-> 0]}

\* The first two keys differ in their sign only.
MCCoordinate == [k \in {k1, k2, k3} |-> IF k = k3 THEN x2 ELSE x1]

MCSymmetry == Permutations(Rotations)
=============================================================================
