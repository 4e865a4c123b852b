----------------------------- MODULE CheckState ------------------------------
(***************************************************************************)
(* POST /v1/checkstate (CheckProofState, internal/mint/proofs.go): a wallet *)
(* names proofs and is told the state of each, while swaps and melts move   *)
(* them as the Ledger allows.                                               *)
(***************************************************************************)
EXTENDS Ledger, SequencesExt

CONSTANTS MaxAsked   \* bound on the number of proofs in one question

VARIABLES asked,     \* the last question, a sequence of proofs
          answer,    \* what it was answered, position by position
          truth      \* history: the states when it was answered

vars == <<ledgerVars, asked, answer, truth>>

Init == /\ LedgerInit
        /\ asked = <<>> /\ answer = <<>>
        /\ truth = proofState

\* The rows of the proofs that have one, in any order the database likes.
KnownProofs(Ys) ==
    SetToSeqs({p \in ToSet(Ys) : proofState[p] # "UNSPENT"})

\* slices.ContainsFunc goes through the rows up to the one of y, or through
\* all of them; its function takes over the state of every row it is shown.
LastShown(y, rows) == IF y \in ToSet(rows) THEN y ELSE Last(rows)

StateTold(y, rows) ==
    IF rows = <<>> THEN "UNSPENT" ELSE proofState[LastShown(y, rows)]

CheckProofState(Ys) ==
    /\ \E rows \in KnownProofs(Ys) :
          answer' = [i \in DOMAIN Ys |-> StateTold(Ys[i], rows)]
    /\ asked' = Ys
    /\ truth' = proofState
    /\ UNCHANGED ledgerVars

Next == \/ \E Ys \in UNION {[1..n -> Proofs] : n \in 1..MaxAsked} : CheckProofState(Ys)
        \/ LedgerNext /\ UNCHANGED <<asked, answer, truth>>

Spec == Init /\ [][Next]_vars

-----------------------------------------------------------------------------
\* Each proof is told the state it had ("set as unspent", then "Check if is in
\* list of spents", proofs.go 28 and 52): a proof without a row is UNSPENT.
ToldTheTruth == \A i \in DOMAIN asked : answer[i] = truth[asked[i]]
=============================================================================
