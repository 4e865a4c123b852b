----------------------------- MODULE SwapProofs -----------------------------
(***************************************************************************)
(* What Swap guarantees for any number of requests, proofs, outputs, units *)
(* and amounts, and for every combination of faults.  The inductive        *)
(* invariant is the conjunction of the safety properties of Swap and of    *)
(* what a handler has already checked of its request.  That value is       *)
(* conserved follows from it and from the balance of each request.         *)
(***************************************************************************)
EXTENDS Swap, SumProofs, TLAPS

\* What a handler knows of its own request at each of its steps.
Checked == \A r \in Requests :
    /\ pc[r] \in Live => Ins(r) # {}
    /\ pc[r] \in {"insert"} \cup Holding => Distinct(outs[r])
    /\ pc[r] \in Holding => Distinct(ins[r])

IInv == /\ TypeOK
        /\ Checked
        /\ HeldByOne
        /\ PendingHasOwner
        /\ AnswerIsTrue
        /\ AllOrNothing
        /\ NoDoubleSpend

-----------------------------------------------------------------------------
(* Typing: an empty batch is a batch, and what Receive takes in are two.   *)

LEMMA EmptyBatch == ASSUME NEW S PROVE <<>> \in Batches(S)
  <1>1. <<>> \in [1..0 -> S]
    OBVIOUS
  <1>2. 0 \in 0..MaxLen
    BY SwapAssumption
  <1> QED BY <1>1, <1>2 DEF Batches

LEMMA AcceptableTyped ==
    ASSUME NEW io \in Acceptable
    PROVE  /\ io[1] \in Batches(Proofs) /\ io[2] \in Batches(Outputs)
           /\ Elems(io[1]) # {} /\ Elems(io[2]) # {}
  BY DEF Acceptable, Accepts

LEMMA ElemsOfBatch == ASSUME NEW S, NEW s \in Batches(S) PROVE Elems(s) \subseteq S
  BY DEF Batches, Elems

-----------------------------------------------------------------------------
LEMMA TypeInit == Init => TypeOK
  BY EmptyBatch DEF Init, TypeOK

LEMMA TypeNext == TypeOK /\ [Next]_vars => TypeOK'
  <1> SUFFICES ASSUME TypeOK, [Next]_vars PROVE TypeOK'
    OBVIOUS
  <1> USE DEF TypeOK, store, request, Goto, Live, Holding, Ended
  <1>1. ASSUME NEW r \in Requests, NEW io \in Acceptable, Receive(r, io[1], io[2])
        PROVE  TypeOK'
    BY <1>1, AcceptableTyped DEF Receive
  <1>2. ASSUME NEW r \in Requests, Refuse(r) PROVE TypeOK'
    BY <1>2 DEF Refuse
  <1>3. ASSUME NEW r \in Requests, Check(r) PROVE TypeOK'
    BY <1>3 DEF Check
  <1>4. ASSUME NEW r \in Requests, Insert(r) PROVE TypeOK'
    BY <1>4 DEF Insert, SaveProof
  <1>5. ASSUME NEW r \in Requests, Sign(r) PROVE TypeOK'
    BY <1>5 DEF Sign
  <1>6. ASSUME NEW r \in Requests, MarkSpentAndSigned(r), UNCHANGED request
        PROVE  /\ proofState' \in [Proofs -> {"UNSPENT", "PENDING", "SPENT"}]
               /\ sigs' \subseteq Outputs
               /\ committed' \subseteq Requests
    <2>1. Outs(r) \subseteq Outputs
      BY ElemsOfBatch DEF Outs
    <2> QED BY <1>6, <2>1 DEF MarkSpentAndSigned, SetProofsSpent
  <1>7. ASSUME NEW r \in Requests, Finish(r) PROVE TypeOK'
    BY <1>6, <1>7 DEF Finish
  <1>8. ASSUME NEW r \in Requests, Cleanup(r) PROVE TypeOK'
    BY <1>8 DEF Cleanup, DeleteProofs
  <1>9. ASSUME NEW r \in Requests, SignerFails(r) \/ DatabaseFails(r) \/ CleanupFails(r)
        PROVE  TypeOK'
    BY <1>9 DEF SignerFails, DatabaseFails, CleanupFails
  <1>10. ASSUME NEW r \in Requests, CommitAnswerLost(r) PROVE TypeOK'
    <2>1. CASE InsertLost(r)
      BY <1>10, <2>1 DEF CommitAnswerLost, InsertLost, SaveProof
    <2>2. CASE FinishLost(r)
      BY <1>6, <1>10, <2>2 DEF CommitAnswerLost, FinishLost
    <2> QED BY <1>10, <2>1, <2>2 DEF CommitAnswerLost
  <1>11. CASE Crash
    BY <1>11 DEF Crash
  <1>12. CASE UNCHANGED vars
    BY <1>12 DEF vars
  <1> QED
    BY <1>1, <1>2, <1>3, <1>4, <1>5, <1>7, <1>8, <1>9, <1>10, <1>11, <1>12
       DEF Next, Step, AllEnded

\* The variables keep their types: every table and every handler stays in a
\* state the program knows.
THEOREM TypeCorrect == Spec => []TypeOK
  BY TypeInit, TypeNext, PTL DEF Spec

-----------------------------------------------------------------------------
(* The inductive invariant.                                                *)

LEMMA InvInit == Init => IInv
  <1> SUFFICES ASSUME Init PROVE IInv
    OBVIOUS
  <1>1. TypeOK
    BY TypeInit
  <1>2. Checked /\ HeldByOne /\ PendingHasOwner
    BY DEF Init, Checked, HeldByOne, PendingHasOwner, Holds, Live, Holding
  <1>3. AnswerIsTrue /\ AllOrNothing /\ NoDoubleSpend
    BY DEF Init, AnswerIsTrue, AllOrNothing, NoDoubleSpend
  <1> QED BY <1>1, <1>2, <1>3 DEF IInv

\* A step that changes neither the tables nor the history and moves one
\* handler to a place where it owes no more than before keeps the invariant.
LEMMA Moves ==
    ASSUME IInv, TypeOK', NEW r \in Requests, NEW where,
           UNCHANGED <<store, request, committed>>, Goto(r, where),
           pc[r] \notin Ended,
           where \notin {"done", "lost"},
           where \in Live => pc[r] \in Live,
           where \in {"insert"} \cup Holding => Distinct(outs[r]),
           where \in Holding => pc[r] \in Holding,
           pc[r] \in Holding => where \in Holding \cup {"stranded"}
    PROVE  IInv'
  <1> USE DEF IInv, TypeOK, Goto, Live, Holding, Ended, store, request
  <1>1. /\ proofState' = proofState /\ sigs' = sigs /\ committed' = committed
        /\ ins' = ins /\ outs' = outs
        /\ pc'[r] = where /\ \A s \in Requests : s # r => pc'[s] = pc[s]
    OBVIOUS
  <1>2. Checked'
    BY <1>1 DEF Checked, Ins, Distinct, Elems
  <1>3. r \notin committed
    BY DEF AnswerIsTrue
  <1>4. \A s \in Requests, p \in Proofs : Holds(s, p)' => Holds(s, p)
    BY <1>1 DEF Holds, Ins
  <1>5. HeldByOne'
    BY <1>1, <1>4 DEF HeldByOne
  <1>6. \A s \in Requests, p \in Proofs :
          Holds(s, p) \/ Strands(s, p) => Holds(s, p)' \/ Strands(s, p)'
    BY <1>1, <1>3 DEF Holds, Strands, Ins
  <1>7. PendingHasOwner'
    BY <1>1, <1>6 DEF PendingHasOwner
  <1>8. AnswerIsTrue'
    BY <1>1, <1>3 DEF AnswerIsTrue
  <1>9. \A s \in Requests : Ins(s)' = Ins(s) /\ Outs(s)' = Outs(s)
    BY <1>1 DEF Ins, Outs
  <1>10. AllOrNothing'
    BY <1>1, <1>9 DEF AllOrNothing
  <1>11. NoDoubleSpend'
    BY <1>1, <1>9 DEF NoDoubleSpend
  <1> QED BY <1>2, <1>5, <1>7, <1>8, <1>10, <1>11

\* What the two ownership properties need of a step that stores nothing.
LEMMA OwnersKept ==
    ASSUME HeldByOne, PendingHasOwner, proofState' = proofState,
           \A s \in Requests, p \in Proofs :
              /\ Holds(s, p)' => Holds(s, p)
              /\ Holds(s, p) \/ Strands(s, p) => Holds(s, p)' \/ Strands(s, p)'
    PROVE  HeldByOne' /\ PendingHasOwner'
  <1>1. HeldByOne'
    BY DEF HeldByOne
  <1>2. PendingHasOwner'
    BY DEF PendingHasOwner
  <1> QED BY <1>1, <1>2

\* And of one that inserts the rows of a handler r, held or stranded from now on.
LEMMA OwnersAfterInsert ==
    ASSUME HeldByOne, PendingHasOwner, NEW r \in Requests,
           \A p \in Ins(r) : p \in Proofs => proofState[p] = "UNSPENT",
           \A p \in Proofs :
              proofState'[p] = IF p \in Ins(r) THEN "PENDING" ELSE proofState[p],
           \A s \in Requests, p \in Proofs : s # r =>
              /\ Holds(s, p)' => Holds(s, p)
              /\ Holds(s, p) => Holds(s, p)'
              /\ Strands(s, p) => Strands(s, p)',
           \A p \in Proofs :
              /\ Holds(r, p)' => p \in Ins(r)
              /\ p \in Ins(r) => Holds(r, p)' \/ Strands(r, p)'
              /\ ~Holds(r, p) /\ ~Strands(r, p)
    PROVE  HeldByOne' /\ PendingHasOwner'
  <1>1. \A s \in Requests, p \in Proofs : Holds(s, p) => p \notin Ins(r)
    BY DEF HeldByOne
  <1>2. HeldByOne'
    BY <1>1 DEF HeldByOne
  <1>3. PendingHasOwner'
    BY DEF PendingHasOwner
  <1> QED BY <1>2, <1>3

LEMMA InvReceive ==
    ASSUME IInv, TypeOK', NEW r \in Requests, NEW io \in Acceptable,
           Receive(r, io[1], io[2])
    PROVE  IInv'
  <1> USE DEF IInv, TypeOK, Goto, Live, Holding, store
  <1>1. /\ pc[r] = "new" /\ pc'[r] = "check"
        /\ ins'[r] = io[1] /\ outs'[r] = io[2]
        /\ proofState' = proofState /\ sigs' = sigs /\ committed' = committed
        /\ \A s \in Requests : s # r =>
             pc'[s] = pc[s] /\ ins'[s] = ins[s] /\ outs'[s] = outs[s]
    BY AcceptableTyped DEF Receive
  <1>2. r \notin committed
    BY <1>1 DEF AnswerIsTrue
  <1>3. \A s \in Requests : s # r => Ins(s)' = Ins(s) /\ Outs(s)' = Outs(s)
    BY <1>1 DEF Ins, Outs
  <1>4. Ins(r)' # {}
    BY <1>1, AcceptableTyped DEF Ins
  <1>5. Checked'
    BY <1>1, <1>3, <1>4 DEF Checked
  <1>6. \A s \in Requests, p \in Proofs :
           /\ Holds(s, p)' => Holds(s, p)
           /\ Holds(s, p) => Holds(s, p)'
           /\ Strands(s, p) => Strands(s, p)'
    BY <1>1, <1>3 DEF Holds, Strands
  <1>7. HeldByOne' /\ PendingHasOwner'
    BY <1>1, <1>6, OwnersKept
  <1>8. AnswerIsTrue'
    BY <1>1, <1>2 DEF AnswerIsTrue
  <1>9. \A s \in committed : Ins(s)' = Ins(s) /\ Outs(s)' = Outs(s)
                            /\ ins'[s] = ins[s] /\ outs'[s] = outs[s]
    BY <1>1, <1>2, <1>3
  <1>10. AllOrNothing'
    BY <1>1, <1>9 DEF AllOrNothing
  <1>11. NoDoubleSpend'
    BY <1>1, <1>9 DEF NoDoubleSpend
  <1> QED BY <1>5, <1>7, <1>8, <1>10, <1>11

\* SaveProof and commit: the rows are new, so no other handler holds them.
LEMMA InvSaveProof ==
    ASSUME IInv, TypeOK', NEW r \in Requests, NEW where \in {"sign", "stranded"},
           pc[r] = "insert", Insertable(r), SaveProof(Ins(r)), Goto(r, where),
           UNCHANGED <<sigs, request, committed>>
    PROVE  IInv'
  <1> USE DEF IInv, TypeOK, Goto, Live, Holding, request
  <1>1. /\ sigs' = sigs /\ committed' = committed /\ ins' = ins /\ outs' = outs
        /\ pc'[r] = where /\ \A s \in Requests : s # r => pc'[s] = pc[s]
    OBVIOUS
  <1>2. \A s \in Requests : Ins(s)' = Ins(s) /\ Outs(s)' = Outs(s)
    BY <1>1 DEF Ins, Outs
  <1>3. r \notin committed
    BY DEF AnswerIsTrue
  <1>4. \A p \in Ins(r) : p \in Proofs => proofState[p] = "UNSPENT"
    BY DEF Insertable, Unspent
  <1>5. \A p \in Proofs : proofState'[p] = IF p \in Ins(r) THEN "PENDING" ELSE proofState[p]
    BY DEF SaveProof
  <1>6. Checked'
    BY <1>1, <1>2 DEF Checked, Insertable, Distinct
  <1>7. \A s \in Requests, p \in Proofs : s # r =>
              /\ Holds(s, p)' => Holds(s, p)
              /\ Holds(s, p) => Holds(s, p)'
              /\ Strands(s, p) => Strands(s, p)'
    BY <1>1, <1>2 DEF Holds, Strands
  <1>8. \A p \in Proofs :
           /\ Holds(r, p)' => p \in Ins(r)
           /\ p \in Ins(r) => Holds(r, p)' \/ Strands(r, p)'
           /\ ~Holds(r, p) /\ ~Strands(r, p)
    BY <1>1, <1>2, <1>3 DEF Holds, Strands
  <1>10. HeldByOne' /\ PendingHasOwner'
    BY <1>4, <1>5, <1>7, <1>8, OwnersAfterInsert
  <1>12. AnswerIsTrue'
    BY <1>1, <1>3 DEF AnswerIsTrue
  <1>13. AllOrNothing'
    BY <1>1, <1>2, <1>4, <1>5 DEF AllOrNothing
  <1>14. NoDoubleSpend'
    BY <1>1, <1>2 DEF NoDoubleSpend
  <1> QED BY <1>6, <1>10, <1>12, <1>13, <1>14

\* The second transaction: the handler's proofs are PENDING and its own.
LEMMA InvMarkSpent ==
    ASSUME IInv, TypeOK', NEW r \in Requests, NEW where \in {"done", "lost"},
           pc[r] = "finish", MarkSpentAndSigned(r), Goto(r, where), UNCHANGED request
    PROVE  IInv'
  <1> USE DEF IInv, TypeOK, Goto, Live, Holding, request
  <1>1. /\ ins' = ins /\ outs' = outs
        /\ sigs' = sigs \cup Outs(r) /\ committed' = committed \cup {r}
        /\ pc'[r] = where /\ \A s \in Requests : s # r => pc'[s] = pc[s]
    BY DEF MarkSpentAndSigned
  <1>2. \A s \in Requests : Ins(s)' = Ins(s) /\ Outs(s)' = Outs(s)
    BY <1>1 DEF Ins, Outs
  <1>3. r \notin committed
    BY DEF AnswerIsTrue
  <1>4. \A p \in Proofs : p \in Ins(r) => Holds(r, p) /\ proofState[p] = "PENDING"
    BY DEF Holds, HeldByOne
  <1>5. \A p \in Proofs : proofState'[p] = IF p \in Ins(r) THEN "SPENT" ELSE proofState[p]
    BY <1>4 DEF MarkSpentAndSigned, SetProofsSpent
  <1>6. Checked'
    BY <1>1, <1>2 DEF Checked
  <1>7. \A s \in Requests, p \in Proofs :
          /\ s # r =>
               /\ Holds(s, p)' => Holds(s, p)
               /\ Holds(s, p) => Holds(s, p)'
               /\ Strands(s, p) => Strands(s, p)'
          /\ ~Holds(r, p)' /\ ~Strands(r, p)
    BY <1>1, <1>2 DEF Holds, Strands
  <1>8. \A s \in Requests, p \in Proofs : s # r /\ Holds(s, p) => p \notin Ins(r)
    BY <1>4 DEF HeldByOne
  <1>9. HeldByOne'
    BY <1>5, <1>7, <1>8 DEF HeldByOne
  <1>10. \A p \in Proofs : proofState'[p] = "PENDING" => p \notin Ins(r) /\ ~Holds(r, p)
    BY <1>5 DEF Holds
  <1>11. PendingHasOwner'
    BY <1>5, <1>7, <1>10 DEF PendingHasOwner
  <1>12. AnswerIsTrue'
    BY <1>1 DEF AnswerIsTrue
  <1>13. AllOrNothing'
    BY <1>1, <1>2, <1>5 DEF AllOrNothing
  <1>14. \A s \in committed : Ins(s) \cap Ins(r) = {} /\ Outs(s) \cap Outs(r) = {}
    <2> SUFFICES ASSUME NEW s \in committed
                 PROVE  Ins(s) \cap Ins(r) = {} /\ Outs(s) \cap Outs(r) = {}
      OBVIOUS
    <2>1. Ins(r) \subseteq Proofs
      BY ElemsOfBatch DEF Ins
    <2>2. Ins(s) \cap Ins(r) = {}
      BY <1>4, <2>1 DEF AllOrNothing
    <2>3. Outs(s) \subseteq sigs
      BY DEF AllOrNothing
    <2>4. Outs(s) \cap Outs(r) = {}
      BY <2>3 DEF MarkSpentAndSigned, NotSigned
    <2> QED BY <2>2, <2>4
  <1>15. NoDoubleSpend'
    BY <1>1, <1>2, <1>14 DEF NoDoubleSpend, Checked
  <1> QED BY <1>6, <1>9, <1>11, <1>12, <1>13, <1>15

\* The cleanup deletes rows that are PENDING and nobody else's.
LEMMA InvCleanup ==
    ASSUME IInv, TypeOK', NEW r \in Requests, Cleanup(r)
    PROVE  IInv'
  <1> USE DEF IInv, TypeOK, Goto, Live, Holding, request
  <1>1. /\ ins' = ins /\ outs' = outs /\ sigs' = sigs /\ committed' = committed
        /\ pc[r] = "cleanup" /\ pc'[r] = "failed"
        /\ \A s \in Requests : s # r => pc'[s] = pc[s]
    BY DEF Cleanup
  <1>2. \A s \in Requests : Ins(s)' = Ins(s) /\ Outs(s)' = Outs(s)
    BY <1>1 DEF Ins, Outs
  <1>3. r \notin committed
    BY <1>1 DEF AnswerIsTrue
  <1>4. \A p \in Proofs : p \in Ins(r) => Holds(r, p) /\ proofState[p] = "PENDING"
    BY <1>1 DEF Holds, HeldByOne
  <1>5. \A p \in Proofs : proofState'[p] = IF p \in Ins(r) THEN "UNSPENT" ELSE proofState[p]
    BY DEF Cleanup, DeleteProofs
  <1>6. Checked'
    BY <1>1, <1>2 DEF Checked
  <1>7. \A s \in Requests, p \in Proofs :
          /\ s # r =>
               /\ Holds(s, p)' => Holds(s, p)
               /\ Holds(s, p) => Holds(s, p)'
               /\ Strands(s, p) => Strands(s, p)'
          /\ ~Holds(r, p)' /\ ~Strands(r, p)
    BY <1>1, <1>2 DEF Holds, Strands
  <1>8. \A s \in Requests, p \in Proofs : s # r /\ Holds(s, p) => p \notin Ins(r)
    BY <1>4 DEF HeldByOne
  <1>9. HeldByOne'
    BY <1>5, <1>7, <1>8 DEF HeldByOne
  <1>10. \A p \in Proofs : proofState'[p] = "PENDING" => p \notin Ins(r) /\ ~Holds(r, p)
    BY <1>5 DEF Holds
  <1>11. PendingHasOwner'
    BY <1>5, <1>7, <1>10 DEF PendingHasOwner
  <1>12. AnswerIsTrue'
    BY <1>1, <1>3 DEF AnswerIsTrue
  <1>13. AllOrNothing'
    BY <1>1, <1>2, <1>4, <1>5 DEF AllOrNothing
  <1>14. NoDoubleSpend'
    BY <1>1, <1>2 DEF NoDoubleSpend
  <1> QED BY <1>6, <1>9, <1>11, <1>12, <1>13, <1>14

\* The process dies: what was held is stranded, nothing is lost or gained.
LEMMA InvCrash == ASSUME IInv, TypeOK', Crash PROVE IInv'
  <1> USE DEF IInv, TypeOK, Live, Holding, request, store
  <1>1. /\ proofState' = proofState /\ sigs' = sigs /\ committed' = committed
        /\ ins' = ins /\ outs' = outs
        /\ \A r \in Requests : pc'[r] = IF pc[r] \in Live THEN "dead" ELSE pc[r]
    BY DEF Crash
  <1>2. \A r \in Requests : Ins(r)' = Ins(r) /\ Outs(r)' = Outs(r)
    BY <1>1 DEF Ins, Outs
  <1>3. Checked' /\ HeldByOne'
    BY <1>1 DEF Checked, HeldByOne, Holds
  <1>4. \A r \in Requests, p \in Proofs : Holds(r, p) \/ Strands(r, p) => Strands(r, p)'
    BY <1>1, <1>2 DEF Holds, Strands, AnswerIsTrue
  <1>5. PendingHasOwner'
    BY <1>1, <1>4 DEF PendingHasOwner
  <1>6. AnswerIsTrue'
    BY <1>1 DEF AnswerIsTrue
  <1>7. AllOrNothing' /\ NoDoubleSpend'
    BY <1>1, <1>2 DEF AllOrNothing, NoDoubleSpend
  <1> QED BY <1>3, <1>5, <1>6, <1>7

LEMMA InvNext == IInv /\ [Next]_vars => IInv'
  <1> SUFFICES ASSUME IInv, [Next]_vars PROVE IInv'
    OBVIOUS
  <1>0. TypeOK'
    BY TypeNext DEF IInv
  <1>1. ASSUME NEW r \in Requests, NEW io \in Acceptable, Receive(r, io[1], io[2])
        PROVE  IInv'
    BY <1>0, <1>1, InvReceive
  <1>2. ASSUME NEW r \in Requests, Refuse(r) PROVE IInv'
    BY <1>0, <1>2, Moves DEF Refuse, Live, Ended, Holding
  <1>3. ASSUME NEW r \in Requests, Check(r) PROVE IInv'
    BY <1>0, <1>3, Moves DEF Check, Live, Ended, Holding
  <1>4. ASSUME NEW r \in Requests, Insert(r) PROVE IInv'
    <2>1. CASE Insertable(r) /\ SaveProof(Ins(r)) /\ Goto(r, "sign")
      BY <1>0, <1>4, <2>1, InvSaveProof DEF Insert
    <2>2. CASE Goto(r, "refused") /\ UNCHANGED proofState
      BY <1>0, <1>4, <2>2, Moves DEF Insert, Live, Ended, Holding, store
    <2> QED BY <1>4, <2>1, <2>2 DEF Insert
  <1>5. ASSUME NEW r \in Requests, Sign(r) PROVE IInv'
    BY <1>0, <1>5, Moves DEF Sign, Live, Ended, Holding, IInv, Checked
  <1>6. ASSUME NEW r \in Requests, Finish(r) PROVE IInv'
    <2>1. CASE MarkSpentAndSigned(r) /\ Goto(r, "done")
      BY <1>0, <1>6, <2>1, InvMarkSpent DEF Finish
    <2>2. CASE Goto(r, "cleanup") /\ UNCHANGED <<store, committed>>
      BY <1>0, <1>6, <2>2, Moves DEF Finish, Live, Ended, Holding, IInv, Checked
    <2> QED BY <1>6, <2>1, <2>2 DEF Finish
  <1>7. ASSUME NEW r \in Requests, Cleanup(r) PROVE IInv'
    BY <1>0, <1>7, InvCleanup
  <1>8. ASSUME NEW r \in Requests, SignerFails(r) PROVE IInv'
    BY <1>0, <1>8, Moves DEF SignerFails, Live, Ended, Holding, IInv, Checked
  <1>9. ASSUME NEW r \in Requests, DatabaseFails(r) PROVE IInv'
    BY <1>0, <1>9, Moves DEF DatabaseFails, Live, Ended, Holding, IInv, Checked
  <1>10. ASSUME NEW r \in Requests, CleanupFails(r) PROVE IInv'
    BY <1>0, <1>10, Moves DEF CleanupFails, Live, Ended, Holding, IInv, Checked
  <1>11. ASSUME NEW r \in Requests, InsertLost(r), UNCHANGED request PROVE IInv'
    <2>1. CASE SaveProof(Ins(r)) /\ Goto(r, "stranded")
      BY <1>0, <1>11, <2>1, InvSaveProof DEF InsertLost
    <2>2. CASE Goto(r, "refused") /\ UNCHANGED proofState
      BY <1>0, <1>11, <2>2, Moves DEF InsertLost, Live, Ended, Holding, store
    <2> QED BY <1>11, <2>1, <2>2 DEF InsertLost
  <1>12. ASSUME NEW r \in Requests, FinishLost(r), UNCHANGED request PROVE IInv'
    <2>1. CASE MarkSpentAndSigned(r) /\ Goto(r, "lost")
      BY <1>0, <1>12, <2>1, InvMarkSpent DEF FinishLost
    <2>2. CASE Goto(r, "stranded") /\ UNCHANGED <<store, committed>>
      BY <1>0, <1>12, <2>2, Moves DEF FinishLost, Live, Ended, Holding, IInv, Checked
    <2> QED BY <1>12, <2>1, <2>2 DEF FinishLost
  <1>13. CASE Crash
    BY <1>0, <1>13, InvCrash
  <1>14. CASE UNCHANGED vars
    <2>1. /\ proofState' = proofState /\ sigs' = sigs /\ pc' = pc
          /\ ins' = ins /\ outs' = outs /\ committed' = committed
      BY <1>14 DEF vars
    <2>2. \A r \in Requests : Ins(r)' = Ins(r) /\ Outs(r)' = Outs(r)
      BY <2>1 DEF Ins, Outs
    <2>3. Checked'
      BY <2>1, <2>2 DEF IInv, Checked
    <2>4. HeldByOne' /\ PendingHasOwner'
      BY <2>1, <2>2, OwnersKept DEF IInv, Holds, Strands
    <2>5. AnswerIsTrue'
      BY <2>1 DEF IInv, AnswerIsTrue
    <2>6. AllOrNothing' /\ NoDoubleSpend'
      <3>1. committed \subseteq Requests
        BY DEF IInv, TypeOK
      <3>2. AllOrNothing'
        BY <2>1, <2>2, <3>1 DEF IInv, AllOrNothing
      <3>3. NoDoubleSpend'
        BY <2>1, <2>2, <3>1 DEF IInv, NoDoubleSpend
      <3> QED BY <3>2, <3>3
    <2> QED BY <1>0, <2>3, <2>4, <2>5, <2>6 DEF IInv
  <1> QED
    BY <1>1, <1>2, <1>3, <1>4, <1>5, <1>6, <1>7, <1>8, <1>9, <1>10, <1>11, <1>12,
       <1>13, <1>14
       DEF Next, Step, AllEnded, CommitAnswerLost

\* The inductive invariant holds throughout every behaviour.
THEOREM Invariant == Spec => []IInv
  BY InvInit, InvNext, PTL DEF Spec

\* No proof pays twice and no blinded message is signed twice, however many
\* requests interleave and wherever they fail.
THEOREM SwapNoDoubleSpend == Spec => []NoDoubleSpend
  <1>1. IInv => NoDoubleSpend
    BY DEF IInv
  <1> QED BY <1>1, Invariant, PTL

\* A swap spends its inputs and signs its outputs, or does neither.
THEOREM SwapAllOrNothing == Spec => []AllOrNothing
  <1>1. IInv => AllOrNothing
    BY DEF IInv
  <1> QED BY <1>1, Invariant, PTL

\* A client that is given signatures has them for good, and one that is told of
\* an error knows that nothing happened unless a COMMIT lost its answer.
THEOREM SwapAnswerIsTrue == Spec => []AnswerIsTrue
  <1>1. IInv => AnswerIsTrue
    BY DEF IInv
  <1> QED BY <1>1, Invariant, PTL

\* The unconditional DELETE of a cleanup only meets rows of its own request; a
\* PENDING row that nobody works on was left by a crash, a lost commit or a
\* cleanup that failed.
THEOREM SwapPendingIsOwned == Spec => []PendingIsOwned
  <1>1. IInv => PendingIsOwned
    BY DEF IInv, PendingIsOwned
  <1> QED BY <1>1, Invariant, PTL

-----------------------------------------------------------------------------
(* Conservation: every request that took effect was balanced, and the      *)
(* inputs of two of them are disjoint, as are their outputs, so the        *)
(* balances of the requests add up to the balance of the ledger.           *)

\* What is behind validateSwapBalanceAndUnits has been validated, and only
\* finitely many requests have taken effect at any time.
Validated == /\ \A r \in Requests : pc[r] \notin {"new", "refused"} => Accepts(ins[r], outs[r])
             /\ IsFiniteSet(committed)

LEMMA ValidatedNext == TypeOK /\ Validated /\ [Next]_vars => Validated'
  <1> SUFFICES ASSUME TypeOK, Validated, [Next]_vars PROVE Validated'
    OBVIOUS
  <1> USE DEF TypeOK, Goto, Live, Holding
  <1>1. IsFiniteSet(committed')
    <2>1. ASSUME NEW r \in Requests, Finish(r) \/ FinishLost(r) PROVE IsFiniteSet(committed')
      <3>1. committed' \in {committed, committed \cup {r}}
        BY <2>1 DEF Finish, FinishLost, MarkSpentAndSigned
      <3>2. IsFiniteSet(committed) /\ IsFiniteSet(committed \cup {r})
        BY FS_AddElement DEF Validated
      <3> QED BY <3>1, <3>2
    <2>2. CASE \A r \in Requests : ~Finish(r) /\ ~FinishLost(r)
      <3>1. committed' = committed
        BY <2>2 DEF Next, Step, Receive, Refuse, Check, Insert, Sign, Cleanup, SignerFails, DatabaseFails,
                    CleanupFails, CommitAnswerLost, InsertLost, Crash, AllEnded, vars
      <3> QED BY <3>1 DEF Validated
    <2> QED BY <2>1, <2>2
  <1>2. ASSUME NEW r \in Requests, pc'[r] \notin {"new", "refused"}
        PROVE  Accepts(ins[r], outs[r])'
    <2>1. ASSUME NEW s \in Requests, NEW io \in Acceptable, Receive(s, io[1], io[2])
          PROVE  Accepts(ins'[r], outs'[r])
      <3>1. CASE s = r
        <4>1. ins'[r] = io[1] /\ outs'[r] = io[2]
          BY <2>1, <3>1 DEF Receive
        <4> QED BY <4>1 DEF Acceptable
      <3>2. CASE s # r
        <4>1. ins'[r] = ins[r] /\ outs'[r] = outs[r] /\ pc'[r] = pc[r]
          BY <2>1, <3>2 DEF Receive
        <4> QED BY <1>2, <4>1 DEF Validated
      <3> QED BY <3>1, <3>2
    <2>2. CASE ins' = ins /\ outs' = outs /\ pc[r] \notin {"new", "refused"}
      BY <2>2 DEF Validated
    <2>3. CASE pc' = pc /\ ins' = ins /\ outs' = outs
      BY <1>2, <2>3 DEF Validated
    <2>4. ASSUME NEW s \in Requests,
                 \/ Refuse(s) \/ Step(s) \/ SignerFails(s) \/ DatabaseFails(s)
                 \/ CleanupFails(s) \/ CommitAnswerLost(s)
          PROVE  ins' = ins /\ outs' = outs /\ pc[r] \notin {"new", "refused"}
      <3>1. ins' = ins /\ outs' = outs
        BY <2>4 DEF Refuse, Step, Check, Insert, Sign, Finish, Cleanup, SignerFails, DatabaseFails,
                    CleanupFails, CommitAnswerLost, request
      <3>2. \E where : pc' = [pc EXCEPT ![s] = where] /\ (where # "refused" => pc[s] \notin {"new", "refused"})
        BY <2>4 DEF Refuse, Step, Check, Insert, Sign, Finish, Cleanup, SignerFails, DatabaseFails,
                    CleanupFails, CommitAnswerLost, InsertLost, FinishLost
      <3> QED BY <1>2, <3>1, <3>2
    <2>5. CASE Crash
      <3>1. ins' = ins /\ outs' = outs /\ pc[r] \notin {"new", "refused"}
        BY <1>2, <2>5 DEF Crash, request
      <3> QED BY <2>2, <3>1
    <2>6. CASE UNCHANGED vars
      BY <2>3, <2>6 DEF vars
    <2>7. ins'[r] = ins[r]' /\ outs'[r] = outs[r]'
      OBVIOUS
    <2> QED BY <2>1, <2>2, <2>4, <2>5, <2>6, <2>7 DEF Next, AllEnded
  <1> QED BY <1>1, <1>2 DEF Validated

LEMMA AlwaysValidated == Spec => []Validated
  <1>1. Init => Validated
    BY FS_EmptySet DEF Init, Validated
  <1> QED BY <1>1, ValidatedNext, TypeCorrect, PTL DEF Spec

LEMMA BatchDomain ==
    ASSUME NEW S, NEW s \in Batches(S)
    PROVE  /\ IsFiniteSet(DOMAIN s) /\ \A i \in DOMAIN s : s[i] \in S
           /\ Elems(s) # {} => 1 \in DOMAIN s
  <1>1. PICK n \in 0..MaxLen : s \in [1..n -> S]
    BY DEF Batches
  <1>2. DOMAIN s = 1..n /\ n \in Nat
    BY <1>1, SwapAssumption
  <1>3. IsFiniteSet(1..n)
    BY <1>2, FS_Interval
  <1>4. Elems(s) # {} => 1 \in DOMAIN s
    BY <1>2 DEF Elems
  <1> QED BY <1>1, <1>2, <1>3, <1>4

\* The total of a list that repeats nothing is the sum of what is in it.
LEMMA TotalOfDistinct ==
    ASSUME NEW S, NEW s \in Batches(S), Distinct(s), NEW weight \in [S -> Nat]
    PROVE  /\ IsFiniteSet(Elems(s))
           /\ Total(s, weight) = SumOf(Elems(s), weight)
           /\ SumOf(Elems(s), weight) \in Nat
  <1>1. IsFiniteSet(DOMAIN s) /\ \A i \in DOMAIN s : s[i] \in S /\ weight[s[i]] \in Int
    BY BatchDomain
  <1>2. /\ IsFiniteSet({s[i] : i \in DOMAIN s})
        /\ SumOf(DOMAIN s, [i \in DOMAIN s |-> weight[s[i]]]) = SumOf({s[i] : i \in DOMAIN s}, weight)
    BY <1>1, SumAlong DEF Distinct
  <1>3. \A x \in Elems(s) : weight[x] \in Nat
    BY <1>1 DEF Elems
  <1>4. SumOf(Elems(s), weight) \in Nat
    BY <1>2, <1>3, SumNat DEF Elems
  <1> QED BY <1>2, <1>4 DEF Total, Elems

LEMMA FeeNat == ASSUME NEW i \in Batches(Proofs) PROVE Fee(i) \in Nat
  <1> DEFINE w == [k \in DOMAIN i |-> ProofFeePpk[i[k]]]
  <1>1. IsFiniteSet(DOMAIN i) /\ \A k \in DOMAIN i : w[k] \in Nat
    BY BatchDomain, SwapAssumption
  <1> HIDE DEF w
  <1>2. SumOf(DOMAIN i, w) \in Nat
    BY <1>1, SumNat
  <1>3. Total(i, ProofFeePpk) \in Nat
    BY <1>2 DEF Total, w
  <1> HIDE DEF Total
  <1>4. (Total(i, ProofFeePpk) + 999) \div 1000 \in Nat
    BY <1>3
  <1> QED BY <1>4 DEF Fee

\* What a request spends, what it is given, and what is neither.
Spends(r) == SumOf(Ins(r), ProofAmount)
Gets(r)   == SumOf(Outs(r), OutputAmount)
Gap(r)    == Spends(r) - (Gets(r) + Fee(ins[r]))

LEMMA CommittedRequest ==
    ASSUME IInv, Validated, NEW r \in committed
    PROVE  /\ IsFiniteSet(Ins(r)) /\ Ins(r) \subseteq Proofs
           /\ IsFiniteSet(Outs(r)) /\ Outs(r) \subseteq Outputs
           /\ Spends(r) \in Nat /\ Gets(r) \in Nat /\ Fee(ins[r]) \in Nat
           /\ Total(ins[r], ProofAmount) = Spends(r) /\ Total(outs[r], OutputAmount) = Gets(r)
           /\ \E k \in Int : Gap(r) = Word * k
           /\ ins[r][1] \in Ins(r)
           /\ \E u \in Units : /\ \A p \in Ins(r) : ProofUnit[p] = u
                               /\ \A b \in Outs(r) : OutputUnit[b] = u
  <1>1. /\ r \in Requests /\ ins[r] \in Batches(Proofs) /\ outs[r] \in Batches(Outputs)
        /\ Distinct(ins[r]) /\ Distinct(outs[r])
    BY DEF IInv, TypeOK, NoDoubleSpend
  <1>2. Accepts(ins[r], outs[r])
    BY <1>1 DEF IInv, AnswerIsTrue, Validated
  <1>3. /\ IsFiniteSet(Ins(r)) /\ Total(ins[r], ProofAmount) = Spends(r) /\ Spends(r) \in Nat
        /\ IsFiniteSet(Outs(r)) /\ Total(outs[r], OutputAmount) = Gets(r) /\ Gets(r) \in Nat
    BY <1>1, TotalOfDistinct, SwapAssumption DEF Ins, Outs, Spends, Gets
  <1>4. Ins(r) \subseteq Proofs /\ Outs(r) \subseteq Outputs
    BY <1>1, ElemsOfBatch DEF Ins, Outs
  <1>5. Fee(ins[r]) \in Nat
    BY <1>1, FeeNat
  <1>6. \E k \in Int : Gap(r) = Word * k
    <2> DEFINE spends == Spends(r)
               gets   == Gets(r)
               fee    == Fee(ins[r])
    <2>1. (spends - (fee + gets)) % Word = 0
      BY <1>2, <1>3 DEF Accepts, Balanced
    <2>2. spends \in Nat /\ gets \in Nat /\ fee \in Nat /\ Word \in Nat \ {0}
      BY <1>3, <1>5, SwapAssumption
    <2> HIDE DEF spends, gets, fee
    <2>3. spends - (fee + gets) = Word * ((spends - (fee + gets)) \div Word)
      BY <2>1, <2>2
    <2>4. (spends - (fee + gets)) \div Word \in Int
      BY <2>2
    <2>5. spends - (gets + fee) = spends - (fee + gets)
      BY <2>2
    <2>6. \E k \in Int : spends - (gets + fee) = Word * k
      BY <2>3, <2>4, <2>5
    <2> QED BY <2>6 DEF Gap, spends, gets, fee
  <1>7. ins[r][1] \in Ins(r)
    BY <1>1, <1>2, BatchDomain DEF Accepts, Ins, Elems
  <1>8. OneUnit(ins[r], outs[r])
    BY <1>2 DEF Accepts
  <1> QED BY <1>3, <1>4, <1>5, <1>6, <1>7, <1>8 DEF OneUnit, Ins, Outs

SpentIn(u)   == {p \in Proofs : proofState[p] = "SPENT" /\ ProofUnit[p] = u}
SignedIn(u)  == {b \in sigs : OutputUnit[b] = u}
SwappedIn(u) == {r \in committed : ProofUnit[ins[r][1]] = u}
FeesIn(u)    == SumOf(SwappedIn(u), [r \in SwappedIn(u) |-> Fee(ins[r])])

\* What a unit has spent and been given is what its requests have.
LEMMA UnitOfRequests ==
    ASSUME IInv, Validated, NEW u \in Units
    PROVE  /\ SpentIn(u) = UNION {Ins(r) : r \in SwappedIn(u)}
           /\ SignedIn(u) = UNION {Outs(r) : r \in SwappedIn(u)}
  <1>1. \A r \in committed :
          /\ r \in SwappedIn(u) => \A p \in Ins(r) : p \in Proofs /\ ProofUnit[p] = u
          /\ r \in SwappedIn(u) => \A b \in Outs(r) : OutputUnit[b] = u
          /\ r \notin SwappedIn(u) => \A p \in Ins(r) : ProofUnit[p] # u
          /\ r \notin SwappedIn(u) => \A b \in Outs(r) : OutputUnit[b] # u
    BY CommittedRequest DEF SwappedIn
  <1>2. /\ \A p \in Proofs : proofState[p] = "SPENT" <=> \E r \in committed : p \in Ins(r)
        /\ sigs = UNION {Outs(r) : r \in committed}
    BY DEF IInv, AllOrNothing
  <1>3. SwappedIn(u) \subseteq committed
    BY DEF SwappedIn
  <1>4. ASSUME NEW p PROVE p \in SpentIn(u) <=> \E r \in SwappedIn(u) : p \in Ins(r)
    <2>1. p \in SpentIn(u) => \E r \in SwappedIn(u) : p \in Ins(r)
      BY <1>1, <1>2 DEF SpentIn
    <2>2. ASSUME NEW r \in SwappedIn(u), p \in Ins(r) PROVE p \in SpentIn(u)
      BY <1>1, <1>2, <1>3, <2>2 DEF SpentIn
    <2> QED BY <2>1, <2>2
  <1>5. ASSUME NEW b PROVE b \in SignedIn(u) <=> \E r \in SwappedIn(u) : b \in Outs(r)
    <2>1. b \in SignedIn(u) => \E r \in SwappedIn(u) : b \in Outs(r)
      BY <1>1, <1>2 DEF SignedIn
    <2>2. ASSUME NEW r \in SwappedIn(u), b \in Outs(r) PROVE b \in SignedIn(u)
      BY <1>1, <1>2, <1>3, <2>2 DEF SignedIn
    <2> QED BY <2>1, <2>2
  <1> QED BY <1>4, <1>5

\* The ledger's balance in a unit is the sum of the gaps of its requests.
LEMMA Balance ==
    ASSUME IInv, Validated, NEW u \in Units
    PROVE  /\ IsFiniteSet(SwappedIn(u)) /\ SwappedIn(u) \subseteq committed
           /\ SumOf(SpentIn(u), ProofAmount) \in Int
           /\ SumOf(SignedIn(u), OutputAmount) \in Int /\ FeesIn(u) \in Int
           /\ SumOf(SpentIn(u), ProofAmount)
                = (SumOf(SignedIn(u), OutputAmount) + FeesIn(u))
                    + SumOf(SwappedIn(u), [r \in SwappedIn(u) |-> Gap(r)])
  <1> DEFINE S     == SwappedIn(u)
             in    == [r \in S |-> Ins(r)]
             out   == [r \in S |-> Outs(r)]
             pays  == [r \in S |-> Spends(r)]
             gains == [r \in S |-> Gets(r)]
             fees  == [r \in S |-> Fee(ins[r])]
             gaps  == [r \in S |-> Gap(r)]
  <1>1. IsFiniteSet(S) /\ S \subseteq committed
    BY FS_Subset DEF Validated, SwappedIn
  <1> HIDE DEF S
  <1>2. \A r \in S :
          /\ IsFiniteSet(Ins(r)) /\ Ins(r) \subseteq Proofs /\ IsFiniteSet(Outs(r)) /\ Outs(r) \subseteq Outputs
          /\ Spends(r) \in Nat /\ Gets(r) \in Nat /\ Fee(ins[r]) \in Nat
    BY <1>1, CommittedRequest
  <1>3. \A r, s \in S : r # s => Ins(r) \cap Ins(s) = {} /\ Outs(r) \cap Outs(s) = {}
    BY <1>1 DEF IInv, NoDoubleSpend
  <1>4. SpentIn(u) = UNION {in[r] : r \in S} /\ SignedIn(u) = UNION {out[r] : r \in S}
    BY UnitOfRequests DEF S
  <1>5. /\ \A r \in S : IsFiniteSet(in[r]) /\ \A p \in in[r] : ProofAmount[p] \in Int
        /\ \A r, s \in S : r # s => in[r] \cap in[s] = {}
        /\ \A r \in S : pays[r] = SumOf(in[r], ProofAmount)
    BY <1>2, <1>3, SwapAssumption DEF Spends
  <1>6. /\ \A r \in S : IsFiniteSet(out[r]) /\ \A b \in out[r] : OutputAmount[b] \in Int
        /\ \A r, s \in S : r # s => out[r] \cap out[s] = {}
        /\ \A r \in S : gains[r] = SumOf(out[r], OutputAmount)
    BY <1>2, <1>3, SwapAssumption DEF Gets
  <1>7. \A r \in S : /\ gains[r] \in Int /\ fees[r] \in Int /\ gaps[r] \in Int
                     /\ pays[r] = (gains[r] + fees[r]) + gaps[r]
    BY <1>2 DEF Gap
  <1> HIDE DEF in, out, pays, gains, fees, gaps
  <1>8. SumOf(SpentIn(u), ProofAmount) = SumOf(S, pays)
    BY <1>1, <1>4, <1>5, SumOfDisjoint
  <1>9. SumOf(SignedIn(u), OutputAmount) = SumOf(S, gains)
    BY <1>1, <1>4, <1>6, SumOfDisjoint
  <1>10. /\ SumOf(S, pays) \in Int /\ SumOf(S, gains) \in Int /\ SumOf(S, fees) \in Int
         /\ SumOf(S, pays) = (SumOf(S, gains) + SumOf(S, fees)) + SumOf(S, gaps)
    <2> DEFINE costs == [r \in S |-> gains[r] + fees[r]]
    <2>1. \A r \in S : /\ costs[r] \in Int /\ costs[r] = gains[r] + fees[r]
                       /\ pays[r] \in Int /\ pays[r] = costs[r] + gaps[r]
      BY <1>7
    <2> HIDE DEF costs
    <2>2. SumOf(S, costs) = SumOf(S, gains) + SumOf(S, fees)
      BY <1>1, <1>7, <2>1, SumPlus
    <2>3. SumOf(S, pays) = SumOf(S, costs) + SumOf(S, gaps)
      BY <1>1, <1>7, <2>1, SumPlus
    <2>4. SumOf(S, pays) \in Int /\ SumOf(S, gains) \in Int /\ SumOf(S, fees) \in Int
      BY <1>1, <1>7, <2>1, SumInt
    <2> QED BY <2>2, <2>3, <2>4
  <1>11. FeesIn(u) = SumOf(S, fees)
    BY DEF FeesIn, S, fees
  <1>12. SumOf(S, gaps) = SumOf(SwappedIn(u), [r \in SwappedIn(u) |-> Gap(r)])
    BY DEF S, gaps
  <1>13. IsFiniteSet(SwappedIn(u)) /\ SwappedIn(u) \subseteq committed
    BY <1>1 DEF S
  <1> QED BY <1>8, <1>9, <1>10, <1>11, <1>12, <1>13

\* No total of a request reaches 2^64.
NoWrap == \A i \in Batches(Proofs), o \in Batches(Outputs) :
    Total(i, ProofAmount) < Word /\ Fee(i) + Total(o, OutputAmount) < Word

\* In every unit, what was spent is what was signed plus the fees, up to
\* multiples of 2^64, whatever the amounts.
ConservationUpToWrap == \A u \in Units : \E k \in Int :
    SumOf(SpentIn(u), ProofAmount)
      = (SumOf(SignedIn(u), OutputAmount) + FeesIn(u)) + Word * k

\* No value from nothing, for any number of concurrent requests: the ledger of
\* each unit balances up to the wrap of the uint64 sums that are compared.
THEOREM SwapConservationUpToWrap == Spec => []ConservationUpToWrap
  <1>1. IInv /\ Validated => ConservationUpToWrap
    <2> SUFFICES ASSUME IInv, Validated, NEW u \in Units
                 PROVE  \E k \in Int : SumOf(SpentIn(u), ProofAmount)
                          = (SumOf(SignedIn(u), OutputAmount) + FeesIn(u)) + Word * k
      BY DEF ConservationUpToWrap
    <2> DEFINE S == SwappedIn(u)
               gaps == [r \in S |-> Gap(r)]
               M == {Word * k : k \in Int}
    <2>1. IsFiniteSet(S) /\ \A r \in S : gaps[r] \in M
      BY Balance, CommittedRequest
    <2>2. M \subseteq Int /\ 0 \in M /\ \A a, b \in M : a + b \in M
      <3>1. Word \in Int /\ Word * 0 = 0
        BY SwapAssumption
      <3>2. 0 \in M
        BY <3>1
      <3>3. \A k \in Int : Word * k \in Int
        BY <3>1
      <3>4. ASSUME NEW a \in M, NEW b \in M PROVE a + b \in M
        <4>1. PICK j \in Int : a = Word * j
          OBVIOUS
        <4>2. PICK k \in Int : b = Word * k
          OBVIOUS
        <4>3. Word * j + Word * k = Word * (j + k) /\ j + k \in Int
          BY <3>1
        <4>4. a + b = Word * (j + k)
          BY <4>1, <4>2, <4>3
        <4> QED BY <4>3, <4>4
      <3> QED BY <3>2, <3>3, <3>4
    <2>3. SumOf(SpentIn(u), ProofAmount)
            = (SumOf(SignedIn(u), OutputAmount) + FeesIn(u)) + SumOf(S, gaps)
      BY Balance
    <2> HIDE DEF S, gaps, M
    <2>4. SumOf(S, gaps) \in M
      BY <2>1, <2>2, SumStaysIn
    <2>5. PICK k \in Int : SumOf(S, gaps) = Word * k
      BY <2>4 DEF M
    <2> QED BY <2>3, <2>5
  <1> QED BY <1>1, Invariant, AlwaysValidated, PTL

\* No value from nothing at all, where no total of a request reaches 2^64: the
\* ledger of each unit balances to the last unit, fees included.
THEOREM SwapConservation == NoWrap => (Spec => []Conservation)
  <1> SUFFICES ASSUME NoWrap PROVE Spec => []Conservation
    OBVIOUS
  <1>1. IInv /\ Validated => Conservation
    <2> SUFFICES ASSUME IInv, Validated, NEW u \in Units
                 PROVE  SumOf(SpentIn(u), ProofAmount) = SumOf(SignedIn(u), OutputAmount) + FeesIn(u)
      BY DEF Conservation, SpentIn, SignedIn, SwappedIn, FeesIn
    <2> DEFINE S == SwappedIn(u)
               gaps == [r \in S |-> Gap(r)]
    <2>1. ASSUME NEW r \in S PROVE gaps[r] = 0
      <3>1. r \in committed
        BY DEF SwappedIn
      <3>2. ins[r] \in Batches(Proofs) /\ outs[r] \in Batches(Outputs)
        BY <3>1 DEF IInv, TypeOK
      <3>3. /\ Spends(r) \in Nat /\ Gets(r) \in Nat /\ Fee(ins[r]) \in Nat
            /\ Spends(r) < Word /\ Fee(ins[r]) + Gets(r) < Word
        BY <3>1, <3>2, CommittedRequest DEF NoWrap
      <3>4. PICK k \in Int : Gap(r) = Word * k
        BY <3>1, CommittedRequest
      <3>5. -Word < Gap(r) /\ Gap(r) < Word /\ Gap(r) \in Int /\ Word \in Nat \ {0}
        BY <3>3, SwapAssumption DEF Gap
      <3>6. k = 0
        BY <3>4, <3>5
      <3>7. Gap(r) = 0
        BY <3>4, <3>5, <3>6
      <3> QED BY <3>7
    <2>2. IsFiniteSet(S)
      BY Balance
    <2>3. SumOf(SpentIn(u), ProofAmount)
            = (SumOf(SignedIn(u), OutputAmount) + FeesIn(u)) + SumOf(S, gaps)
      BY Balance
    <2> HIDE DEF S, gaps
    <2>4. SumOf(S, gaps) \in {0}
      <3> DEFINE M == {0}
      <3>1. M \subseteq Int /\ 0 \in M /\ (\A a, b \in M : a + b \in M) /\ \A r \in S : gaps[r] \in M
        BY <2>1
      <3> HIDE DEF M
      <3>2. SumOf(S, gaps) \in M
        BY <2>2, <3>1, SumStaysIn
      <3> QED BY <3>2 DEF M
    <2>5. SumOf(SignedIn(u), OutputAmount) + FeesIn(u) \in Int
      <3>1. SumOf(SignedIn(u), OutputAmount) \in Int /\ FeesIn(u) \in Int
        BY Balance
      <3> DEFINE signed == SumOf(SignedIn(u), OutputAmount)
      <3> HIDE DEF signed
      <3>2. signed \in Int /\ FeesIn(u) \in Int
        BY <3>1 DEF signed
      <3>3. signed + FeesIn(u) \in Int
        BY <3>2
      <3> QED BY <3>3 DEF signed
    <2> QED BY <2>3, <2>4, <2>5
  <1> QED BY <1>1, Invariant, AlwaysValidated, PTL

-----------------------------------------------------------------------------
(* Swap implements the ledger: an insertion is a Hold, a cleanup gives     *)
(* back, the second transaction spends, every other step is invisible.     *)

LEMMA StepOfLedger == IInv /\ [Next]_vars => [L!LedgerNext]_(L!ledgerVars)
  <1> SUFFICES ASSUME IInv, [Next]_vars PROVE [L!LedgerNext]_(L!ledgerVars)
    OBVIOUS
  <1> USE DEF L!ledgerVars, store, IInv
  <1>1. \A r \in Requests : Ins(r) \subseteq Proofs /\ Outs(r) \subseteq Outputs
    BY ElemsOfBatch DEF TypeOK, Ins, Outs
  <1>2. \A r \in Requests : pc[r] \in Holding => L!AllIn(Ins(r), "PENDING")
    BY <1>1 DEF HeldByOne, Holds, L!AllIn
  <1>3. ASSUME NEW r \in Requests, Insertable(r), SaveProof(Ins(r)), UNCHANGED sigs
        PROVE  L!LedgerNext
    <2>1. L!Hold(Ins(r))
      BY <1>3 DEF L!Hold, L!AllIn, L!Move, Insertable, Unspent, SaveProof
    <2> QED BY <1>1, <2>1 DEF L!LedgerNext
  <1>4. ASSUME NEW r \in Requests, Cleanup(r) PROVE L!LedgerNext
    <2>1. L!GiveBack(Ins(r))
      BY <1>2, <1>4 DEF L!GiveBack, L!Move, Cleanup, DeleteProofs, Holding
    <2> QED BY <1>1, <2>1 DEF L!LedgerNext
  <1>5. ASSUME NEW r \in Requests, pc[r] = "finish", MarkSpentAndSigned(r)
        PROVE  L!LedgerNext
    <2>1. L!AllIn(Ins(r), "PENDING") /\ Ins(r) # {}
      BY <1>2, <1>5 DEF Holding, Live, Checked
    <2>2. L!Move(Ins(r), "SPENT")
      BY <1>5, <2>1 DEF MarkSpentAndSigned, SetProofsSpent, L!Move, L!AllIn
    <2>3. L!Spend(Ins(r), Outs(r))
      BY <1>5, <2>1, <2>2 DEF L!Spend, MarkSpentAndSigned, NotSigned
    <2> QED BY <1>1, <2>3 DEF L!LedgerNext
  <1>6. ASSUME NEW r \in Requests,
               Check(r) \/ Sign(r) \/ Refuse(r) \/ SignerFails(r) \/ DatabaseFails(r)
                 \/ CleanupFails(r) \/ \E io \in Acceptable : Receive(r, io[1], io[2])
        PROVE  UNCHANGED store
    BY <1>6 DEF Check, Sign, Refuse, SignerFails, DatabaseFails, CleanupFails, Receive
  <1>7. ASSUME NEW r \in Requests, Insert(r) \/ Finish(r) \/ CommitAnswerLost(r)
        PROVE  L!LedgerNext \/ UNCHANGED store
    BY <1>3, <1>5, <1>7 DEF Insert, Finish, CommitAnswerLost, InsertLost, FinishLost
  <1>8. CASE Crash \/ UNCHANGED vars
    BY <1>8 DEF Crash, vars
  <1> QED BY <1>4, <1>6, <1>7, <1>8 DEF Next, Step, AllEnded

\* Every behaviour of Swap is one the ledger allows.
THEOREM SwapImplementsLedger == Spec => Ledger
  <1>1. Init => L!LedgerInit
    BY DEF Init, L!LedgerInit
  <1> QED BY <1>1, StepOfLedger, Invariant, PTL DEF Spec, Ledger, L!LedgerSpec

-----------------------------------------------------------------------------
(* What follows from the ledger alone, and so for whatever implements it.  *)

LEMMA LedgerTypes == L!LedgerSpec => []L!LedgerTypeOK
  <1>1. L!LedgerInit => L!LedgerTypeOK
    BY DEF L!LedgerInit, L!LedgerTypeOK, L!ProofStates
  <1>2. L!LedgerTypeOK /\ [L!LedgerNext]_(L!ledgerVars) => L!LedgerTypeOK'
    BY DEF L!LedgerTypeOK, L!ProofStates, L!LedgerNext, L!ledgerVars,
           L!Hold, L!GiveBack, L!Spend, L!Move
  <1> QED BY <1>1, <1>2, PTL DEF L!LedgerSpec

\* In the ledger a spent proof stays spent and a signature stays published.
LEMMA LedgerSpentIsFinal == L!LedgerSpec => L!SpentIsFinal
  <1>1. L!LedgerTypeOK /\ [L!LedgerNext]_(L!ledgerVars) =>
          [/\ \A p \in Proofs : proofState[p] = "SPENT" => proofState'[p] = "SPENT"
           /\ sigs \subseteq sigs']_(L!ledgerVars)
    BY DEF L!LedgerNext, L!ledgerVars, L!Hold, L!GiveBack, L!Spend, L!Move, L!AllIn
  <1> QED BY <1>1, LedgerTypes, PTL DEF L!LedgerSpec, L!SpentIsFinal

\* In the ledger new signatures come with newly spent proofs.
LEMMA LedgerNoFreeSignature == L!LedgerSpec => L!NoFreeSignature
  <1>1. L!LedgerTypeOK /\ [L!LedgerNext]_(L!ledgerVars) =>
          [sigs' # sigs => \E p \in Proofs :
             proofState[p] # "SPENT" /\ proofState'[p] = "SPENT"]_(L!ledgerVars)
    <2> SUFFICES ASSUME L!LedgerTypeOK, NEW S \in SUBSET Proofs, NEW O \in SUBSET Outputs,
                        L!Spend(S, O)
                 PROVE  \E p \in Proofs : proofState[p] # "SPENT" /\ proofState'[p] = "SPENT"
      BY DEF L!LedgerNext, L!ledgerVars, L!Hold, L!GiveBack
    <2>1. PICK p \in S : proofState[p] = "PENDING"
      BY DEF L!Spend, L!AllIn
    <2>2. proofState'[p] = "SPENT"
      BY <2>1 DEF L!Spend, L!Move
    <2> QED BY <2>1, <2>2
  <1> QED BY <1>1, LedgerTypes, PTL DEF L!LedgerSpec, L!NoFreeSignature

\* A proof that a swap has spent is spent for good, and no signature is taken
\* back: inherited from the ledger.
THEOREM SwapSpentIsFinal == Spec => L!SpentIsFinal
  BY SwapImplementsLedger, LedgerSpentIsFinal, PTL DEF Ledger

\* New signatures appear only in a step that spends proofs, whatever transaction
\* fails, is cleaned up after or dies between the two: inherited as well.
THEOREM SwapNoFreeSignature == Spec => L!NoFreeSignature
  BY SwapImplementsLedger, LedgerNoFreeSignature, PTL DEF Ledger
=============================================================================
