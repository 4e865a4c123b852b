------------------------------- MODULE Ledger -------------------------------
(***************************************************************************)
(* What the mint promises about ecash, whatever operation moves it.        *)
(*                                                                         *)
(* A proof is worth something until it is spent: an operation first takes  *)
(* it out of circulation, then either gives it back or spends it for good. *)
(* A blind signature is new ecash: within the operations that move ecash   *)
(* it appears only in the step that spends the proofs which pay for it,    *)
(* and no blinded message is signed twice.                                 *)
(*                                                                         *)
(* The detailed modules keep these two variables in the tables "proofs"    *)
(* and "recovery_signature" and reach them through database transactions.  *)
(***************************************************************************)
CONSTANTS Proofs,   \* every proof a wallet may present
          Outputs   \* every blinded message a wallet may have signed

VARIABLES proofState,   \* "UNSPENT" | "PENDING" | "SPENT", of every proof
          sigs          \* the blinded messages that have been signed

ledgerVars == <<proofState, sigs>>

ProofStates == {"UNSPENT", "PENDING", "SPENT"}

LedgerTypeOK == /\ proofState \in [Proofs -> ProofStates]
                /\ sigs \subseteq Outputs

LedgerInit == /\ proofState = [p \in Proofs |-> "UNSPENT"]
              /\ sigs = {}

-----------------------------------------------------------------------------
AllIn(S, st) == \A p \in S : proofState[p] = st

Move(S, st) ==
    proofState' = [p \in Proofs |-> IF p \in S THEN st ELSE proofState[p]]

\* An operation takes the proofs S out of circulation.
Hold(S) == /\ AllIn(S, "UNSPENT")
           /\ Move(S, "PENDING")
           /\ UNCHANGED sigs

\* The operation failed: it gives its proofs back.
GiveBack(S) == /\ AllIn(S, "PENDING")
               /\ Move(S, "UNSPENT")
               /\ UNCHANGED sigs

\* The operation succeeded: S is spent and the messages O are signed at once.
Spend(S, O) == /\ S # {}
               /\ AllIn(S, "PENDING")
               /\ O \cap sigs = {}
               /\ Move(S, "SPENT")
               /\ sigs' = sigs \cup O

LedgerNext ==
    \E S \in SUBSET Proofs :
        \/ Hold(S)
        \/ GiveBack(S)
        \/ \E O \in SUBSET Outputs : Spend(S, O)

LedgerSpec == LedgerInit /\ [][LedgerNext]_ledgerVars

-----------------------------------------------------------------------------
\* A spent proof never becomes spendable again, and a signature is never
\* withdrawn: the two facts a wallet relies on (NUT-07 and NUT-09 answers).
SpentIsFinal == [][/\ \A p \in Proofs : proofState[p] = "SPENT" => proofState'[p] = "SPENT"
                   /\ sigs \subseteq sigs']_ledgerVars

\* New ecash appears only in a step that spends proofs.
NoFreeSignature ==
    [][sigs' # sigs =>
         \E p \in Proofs : proofState[p] # "SPENT" /\ proofState'[p] = "SPENT"]_ledgerVars
=============================================================================
