------------------------------ MODULE SwapMelt ------------------------------
(***************************************************************************)
(* Swaps and melts over the same tables proofs and recovery_signature.     *)
(* Both reserve proofs with the same INSERT and free them with the same    *)
(* DELETE by y, which asks neither for a state nor for an owner: each is   *)
(* right only if the rows it touches are still its own.                    *)
(***************************************************************************)
EXTENDS Melt

CONSTANTS Requests, Units, ProofUnit, ProofFeePpk, OutputAmount, OutputUnit,
          Word, MaxLen, SwapFaults

VARIABLES pc, ins, outs, committed

S == INSTANCE Swap WITH Faults <- SwapFaults

swapVars == <<pc, ins, outs, committed>>
bothVars == <<vars, swapVars>>

BothInit == Init /\ S!Init

\* A row that a swap inserts has no quote.
Inserted == {p \in Proofs : proofState[p] = "UNSPENT" /\ proofState'[p] = "PENDING"}

SwapActs ==
    /\ node = "up"
    /\ \E r \in Requests :
          \/ \E io \in S!Acceptable : S!Receive(r, io[1], io[2])
          \/ S!Step(r)
          \/ S!SignerFails(r) \/ S!DatabaseFails(r) \/ S!CleanupFails(r)
          \/ S!CommitAnswerLost(r)
    /\ proofQuote' = [p \in Proofs |-> IF p \in Inserted THEN NoQuote ELSE proofQuote[p]]
    /\ UNCHANGED <<st, change, mintQuote, leaked, world, task, host>>

MeltActs == Acts /\ UNCHANGED swapVars

\* The process dies with all its handlers.
BothCrash == /\ Crash
             /\ \/ S!Crash
                \/ (\A r \in Requests : pc[r] \notin S!Live) /\ UNCHANGED swapVars

BothNext == SwapActs \/ MeltActs \/ BothCrash

BothSpec == BothInit /\ [][BothNext]_bothVars

-----------------------------------------------------------------------------
\* What a proof paid for: swaps that took effect, and quotes whose payment is
\* under way or was made.
Uses(p) == {r \in Requests : r \in committed /\ p \in S!Ins(r)}
             \cup {q \in Quotes : (payment[q] = "inflight" \/ Paid(q)) /\ p \in stake[q]}

\* A proof pays for one thing, whatever swaps and melts do to each other's
\* rows ("check if proofs are spent", swapping.go 26 and melting.go 504).
PaysOnce == \A p \in Proofs : \A x, y \in Uses(p) : x = y

\* Nobody loses ecash for nothing: a spent proof paid for something.
SpentForSomething == \A p \in Proofs : proofState[p] = "SPENT" => Uses(p) # {}
=============================================================================
