-------------------------------- MODULE Swap --------------------------------
(***************************************************************************)
(* POST /v1/swap (internal/mint/swapping.go): proofs are exchanged for     *)
(* blind signatures of the same value.  Every HTTP request runs in a       *)
(* goroutine of its own, without any lock in the process: requests meet    *)
(* only in the database, where a request runs two transactions with the    *)
(* signer in between, and a third one that cleans up after a failure.      *)
(*                                                                         *)
(* A request is a bounded sequence of proofs and one of blinded messages:  *)
(* sequences, because a wallet may name a proof or a message twice.  The   *)
(* proofs carry valid signatures and witnesses (the cryptography of        *)
(* VerifyProofsBDHKE and of the spend conditions is not modelled).         *)
(***************************************************************************)
EXTENDS Sums

CONSTANTS Requests,      \* the swap requests that arrive
          Proofs, Outputs,
          Units,
          ProofAmount, ProofUnit, ProofFeePpk,   \* of the proof, by its keyset
          OutputAmount, OutputUnit,              \* of the blinded message
          Word,          \* 2^64: amounts are uint64 and wrap
          MaxLen,        \* bound on the length of inputs and of outputs
          Faults         \* what may go wrong around the handler

FaultKinds == {"signer", "database", "cleanup", "commit", "crash"}

ASSUME SwapAssumption ==
    /\ ProofAmount \in [Proofs -> Nat] /\ ProofFeePpk \in [Proofs -> Nat]
    /\ OutputAmount \in [Outputs -> Nat]
    /\ ProofUnit \in [Proofs -> Units] /\ OutputUnit \in [Outputs -> Units]
    /\ Word \in Nat \ {0} /\ MaxLen \in Nat \ {0}
    /\ Faults \subseteq FaultKinds

VARIABLES
    proofState,   \* table proofs: "UNSPENT" is a proof without a row
    sigs,         \* table recovery_signature: the signed "B_"
    pc,           \* where each request's handler stands
    ins, outs,    \* the request's inputs and outputs
    committed     \* history: requests whose second transaction took effect

store   == <<proofState, sigs>>
request == <<ins, outs>>
vars    == <<proofState, sigs, pc, ins, outs, committed>>

\* Handlers that run, and those of them that hold PENDING rows.
Holding == {"sign", "finish", "cleanup"}
Live    == {"check", "insert"} \cup Holding

\* "lost": the commit took effect but the client was told it failed.
\* "stranded": the handler returned and left its proofs PENDING.
Ended == {"refused", "done", "failed", "lost", "stranded", "dead"}

\* Sequences of at most MaxLen elements of S; Elems is the set in one.
Batches(S) == UNION {[1..n -> S] : n \in 0..MaxLen}
Elems(s)   == {s[i] : i \in DOMAIN s}
Distinct(s) == \A i, j \in DOMAIN s : s[i] = s[j] => i = j

Ins(r)  == Elems(ins[r])
Outs(r) == Elems(outs[r])

TypeOK == /\ proofState \in [Proofs -> {"UNSPENT", "PENDING", "SPENT"}]
          /\ sigs \subseteq Outputs
          /\ pc \in [Requests -> {"new"} \cup Live \cup Ended]
          /\ ins \in [Requests -> Batches(Proofs)]
          /\ outs \in [Requests -> Batches(Outputs)]
          /\ committed \subseteq Requests

Init == /\ proofState = [p \in Proofs |-> "UNSPENT"]
        /\ sigs = {}
        /\ pc = [r \in Requests |-> "new"]
        /\ ins = [r \in Requests |-> <<>>]
        /\ outs = [r \in Requests |-> <<>>]
        /\ committed = {}

-----------------------------------------------------------------------------
(* validateSwapBalanceAndUnits: fees are rounded up once per request, sums *)
(* and the difference are uint64.                                          *)

Total(s, weight) == SumOf(DOMAIN s, [i \in DOMAIN s |-> weight[s[i]]])

Fee(i) == (Total(i, ProofFeePpk) + 999) \div 1000

\* Mutation: the fee is computed but not charged.
Balanced_NoFee(i, o) ==
    (Total(i, ProofAmount) - Total(o, OutputAmount)) % Word = 0

Balanced(i, o) ==
    (Total(i, ProofAmount) - (Fee(i) + Total(o, OutputAmount))) % Word = 0

OneUnit(i, o) ==
    \E u \in Units : /\ \A p \in Elems(i) : ProofUnit[p] = u
                     /\ \A b \in Elems(o) : OutputUnit[b] = u

Accepts(i, o) ==
    /\ Elems(i) # {} /\ Elems(o) # {}      \* both lists are non-empty
    /\ Balanced(i, o) /\ OneUnit(i, o)

Acceptable == {io \in Batches(Proofs) \X Batches(Outputs) : Accepts(io[1], io[2])}

-----------------------------------------------------------------------------
Goto(r, where) == pc' = [pc EXCEPT ![r] = where]

Receive(r, i, o) ==
    /\ pc[r] = "new"
    /\ ins' = [ins EXCEPT ![r] = i]
    /\ outs' = [outs EXCEPT ![r] = o]
    /\ Goto(r, "check")
    /\ UNCHANGED <<store, committed>>

\* A request that does not validate, the empty one for instance, leaves
\* nothing behind; its body is dropped.
Refuse(r) == /\ pc[r] = "new"
             /\ Goto(r, "refused")
             /\ UNCHANGED <<store, request, committed>>

\* First transaction, its reads: no proof has a row, the outputs are distinct
\* and none of them is signed.  The rows are only read here; another request
\* may write before this one inserts.
Unspent(r)    == \A p \in Ins(r) : proofState[p] = "UNSPENT"
NotSigned(r)  == Outs(r) \cap sigs = {}

Check(r) ==
    /\ pc[r] = "check"
    /\ \/ Unspent(r) /\ Distinct(outs[r]) /\ NotSigned(r) /\ Goto(r, "insert")
       \/ ~(Unspent(r) /\ Distinct(outs[r]) /\ NotSigned(r)) /\ Goto(r, "refused")
    /\ UNCHANGED <<store, request, committed>>

\* Mutation: no UNIQUE(secret, y), the reads above are trusted.
Insertable_NoUnique(r) == Distinct(ins[r])

\* First transaction, its write and commit.  UNIQUE(secret, y) refuses a
\* proof that has a row by now, and one the request names twice.
Insertable(r) == Unspent(r) /\ Distinct(ins[r])

SaveProof(S) ==
    proofState' = [p \in Proofs |-> IF p \in S THEN "PENDING" ELSE proofState[p]]

Insert(r) ==
    /\ pc[r] = "insert"
    /\ \/ Insertable(r) /\ SaveProof(Ins(r)) /\ Goto(r, "sign")
       \/ ~Insertable(r) /\ Goto(r, "refused") /\ UNCHANGED proofState
    /\ UNCHANGED <<sigs, request, committed>>

\* Signer.SignBlindMessages: nothing is stored.
Sign(r) == /\ pc[r] = "sign"
           /\ Goto(r, "finish")
           /\ UNCHANGED <<store, request, committed>>

\* Second transaction.  SetProofsState updates the rows that are there.
SetProofsSpent(S) ==
    proofState' = [p \in Proofs |->
        IF p \in S /\ proofState[p] # "UNSPENT" THEN "SPENT" ELSE proofState[p]]

\* Mutation: no UNIQUE("B_").
MarkSpentAndSigned_NoUnique(r) ==
    /\ SetProofsSpent(Ins(r))
    /\ sigs' = sigs \cup Outs(r)
    /\ committed' = committed \cup {r}

MarkSpentAndSigned(r) ==
    /\ NotSigned(r)                       \* UNIQUE("B_")
    /\ SetProofsSpent(Ins(r))
    /\ sigs' = sigs \cup Outs(r)
    /\ committed' = committed \cup {r}

\* Mutation: the error of SaveRestoreSigs is not looked at.
Finish_IgnoresError(r) ==
    /\ pc[r] = "finish"
    /\ \/ MarkSpentAndSigned(r) /\ Goto(r, "done")
       \/ ~NotSigned(r) /\ Goto(r, "done") /\ UNCHANGED <<store, committed>>
    /\ UNCHANGED request

\* Mutation: SaveRestoreSigs is retried until it succeeds.
Finish_RetriesForever(r) ==
    /\ pc[r] = "finish"
    /\ MarkSpentAndSigned(r)
    /\ Goto(r, "done")
    /\ UNCHANGED request

Finish(r) ==
    /\ pc[r] = "finish"
    /\ \/ MarkSpentAndSigned(r) /\ Goto(r, "done")
       \/ ~NotSigned(r) /\ Goto(r, "cleanup") /\ UNCHANGED <<store, committed>>
    /\ UNCHANGED request

\* removePendingSwapProofs: DELETE by y, whatever the state of the row.
DeleteProofs(S) ==
    proofState' = [p \in Proofs |-> IF p \in S THEN "UNSPENT" ELSE proofState[p]]

\* Mutation: the deletion is rolled back by the deferred Rollback.
Cleanup_NotCommitted(r) == /\ pc[r] = "cleanup"
                           /\ Goto(r, "failed")
                           /\ UNCHANGED <<store, request, committed>>

Cleanup(r) == /\ pc[r] = "cleanup"
              /\ DeleteProofs(Ins(r))
              /\ Goto(r, "failed")
              /\ UNCHANGED <<sigs, request, committed>>

Step(r) == Check(r) \/ Insert(r) \/ Sign(r) \/ Finish(r) \/ Cleanup(r)

-----------------------------------------------------------------------------
(* Faults.  A statement of a transaction fails and the rollback succeeds;  *)
(* the signer refuses; the answer to a COMMIT is lost (the context of the  *)
(* request is cancelled or the connection breaks), after which the code    *)
(* cannot know whether it took effect and does not clean up; the process   *)
(* dies.  Nothing at startup looks at the proofs of a swap.                *)

SignerFails(r) == /\ "signer" \in Faults
                  /\ pc[r] = "sign"
                  /\ Goto(r, "cleanup")
                  /\ UNCHANGED <<store, request, committed>>

DatabaseFails(r) ==
    /\ "database" \in Faults
    /\ \/ pc[r] \in {"check", "insert"} /\ Goto(r, "refused")
       \/ pc[r] \in {"sign", "finish"}  /\ Goto(r, "cleanup")
    /\ UNCHANGED <<store, request, committed>>

\* removePendingSwapProofs fails: its error is reported, nothing else is tried.
CleanupFails(r) == /\ "cleanup" \in Faults
                   /\ pc[r] = "cleanup"
                   /\ Goto(r, "stranded")
                   /\ UNCHANGED <<store, request, committed>>

InsertLost(r) == /\ pc[r] = "insert" /\ Insertable(r)
                 /\ \/ SaveProof(Ins(r)) /\ Goto(r, "stranded")
                    \/ Goto(r, "refused") /\ UNCHANGED proofState
                 /\ UNCHANGED <<sigs, committed>>

\* Mutation: an error of Commit is answered by the cleanup.
FinishLost_CleansUp(r) ==
    /\ pc[r] = "finish"
    /\ \/ MarkSpentAndSigned(r) /\ Goto(r, "cleanup")
       \/ NotSigned(r) /\ Goto(r, "cleanup") /\ UNCHANGED <<store, committed>>

FinishLost(r) == /\ pc[r] = "finish"
                 /\ \/ MarkSpentAndSigned(r) /\ Goto(r, "lost")
                    \/ NotSigned(r) /\ Goto(r, "stranded") /\ UNCHANGED <<store, committed>>

CommitAnswerLost(r) == /\ "commit" \in Faults
                       /\ InsertLost(r) \/ FinishLost(r)
                       /\ UNCHANGED request

Crash == /\ "crash" \in Faults
         /\ \E r \in Requests : pc[r] \in Live
         /\ pc' = [r \in Requests |-> IF pc[r] \in Live THEN "dead" ELSE pc[r]]
         /\ UNCHANGED <<store, request, committed>>

AllEnded == (\A r \in Requests : pc[r] \in Ended) /\ UNCHANGED vars

Next == \/ \E r \in Requests :
             \/ \E io \in Acceptable : Receive(r, io[1], io[2])
             \/ Refuse(r)
             \/ Step(r)
             \/ SignerFails(r) \/ DatabaseFails(r) \/ CleanupFails(r) \/ CommitAnswerLost(r)
        \/ Crash
        \/ AllEnded

Spec == Init /\ [][Next]_vars

\* A goroutine that can take its next step takes it.
FairSpec == Spec /\ \A r \in Requests : WF_vars(Step(r))

-----------------------------------------------------------------------------
(* The rows a request is answerable for.                                   *)

Holds(r, p)    == pc[r] \in Holding /\ p \in Ins(r)
Strands(r, p)  == pc[r] \in {"stranded", "dead"} /\ r \notin committed /\ p \in Ins(r)

\* No proof pays twice and no message is signed twice: among the requests that
\* took effect, every proof is named once by one request, and so is every
\* output (checks of swapping.go 43-51, UNIQUE of proofs and "B_").
NoDoubleSpend ==
    /\ \A r \in committed : Distinct(ins[r]) /\ Distinct(outs[r])
    /\ \A r, s \in committed :
          r # s => Ins(r) \cap Ins(s) = {} /\ Outs(r) \cap Outs(s) = {}

\* All or nothing: exactly the inputs of the requests that took effect are
\* spent, and exactly their outputs are signed, so a request that was cleaned
\* up, lost its commit or died left neither behind.
AllOrNothing ==
    /\ \A p \in Proofs : proofState[p] = "SPENT" <=> \E r \in committed : p \in Ins(r)
    /\ sigs = UNION {Outs(r) : r \in committed}

\* A handler that answered its client with signatures took effect, and one
\* that answered with an error did not unless the answer to its COMMIT was lost.
AnswerIsTrue == \A r \in Requests : pc[r] \in {"done", "lost"} <=> r \in committed

\* Two handlers never hold the same proof, and a held proof is PENDING: so
\* the cleanup of one, a DELETE that checks nothing, never releases a proof
\* of another nor a spent one.
HeldByOne == \A p \in Proofs, r \in Requests : Holds(r, p) =>
    /\ proofState[p] = "PENDING"
    /\ \A s \in Requests : Holds(s, p) => s = r

\* A PENDING row always has a handler that will finish with it, or was left by
\* one that crashed, lost its commit or failed to clean up.
PendingHasOwner == \A p \in Proofs :
    proofState[p] = "PENDING" => \E r \in Requests : Holds(r, p) \/ Strands(r, p)

\* Who holds a PENDING proof is never in doubt: one running handler and no
\* other, or nobody any more, and then for one of these reasons.
PendingIsOwned == HeldByOne /\ PendingHasOwner

\* No value from nothing: in every unit, what was spent is what was signed
\* plus the fees of the requests that took effect.
Conservation == \A u \in Units :
    LET spent   == {p \in Proofs : proofState[p] = "SPENT" /\ ProofUnit[p] = u}
        signed  == {b \in sigs : OutputUnit[b] = u}
        swapped == {r \in committed : ProofUnit[ins[r][1]] = u}
    IN  SumOf(spent, ProofAmount)
          = SumOf(signed, OutputAmount) + SumOf(swapped, [r \in swapped |-> Fee(ins[r])])

\* The ledger the mint promises.
L == INSTANCE Ledger
Ledger == L!LedgerSpec

\* Without crashes and lost commits no proof stays PENDING: a swap that fails
\* gives its proofs back (removePendingSwapProofs).
PendingResolves == \A p \in Proofs :
    proofState[p] = "PENDING" ~> proofState[p] # "PENDING"

\* Every request that was let in gets its answer.
EveryRequestEnds == \A r \in Requests : pc[r] \in Live ~> pc[r] \in Ended
=============================================================================
