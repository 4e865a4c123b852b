--------------------------- MODULE SwapMeltProofs ---------------------------
(***************************************************************************)
(* What swaps and melts over the same tables guarantee together, for any   *)
(* number of them and for every combination of faults, while operations on *)
(* one quote do not overlap.  A row belongs to the quote it names, or to a *)
(* swap if it names none; each side is shown to leave the rows of the      *)
(* other as they are, so what holds of each alone holds of both.           *)
(***************************************************************************)
EXTENDS SwapMelt, MeltProofs

SwapTypes == /\ pc \in [Requests -> {"new"} \cup S!Live \cup S!Ended]
             /\ DOMAIN ins = Requests /\ DOMAIN outs = Requests
             /\ \A r \in Requests : S!Ins(r) \subseteq Proofs /\ S!Outs(r) \subseteq Outputs
             /\ \A r \in Requests : pc[r] \in S!Live => S!Ins(r) # {}
             /\ committed \subseteq Requests

Loose(p) == proofQuote[p] = NoQuote

\* What a swap holds is PENDING, names no quote and is held by no other swap.
HeldIsLoose == \A r \in Requests, p \in Proofs : S!Holds(r, p) =>
    /\ proofState[p] = "PENDING" /\ Loose(p)
    /\ \A s \in Requests : S!Holds(s, p) => s = r

\* The SPENT rows without a quote are those of the swaps that took effect.
SpentBySwap == \A p \in Proofs :
    proofState[p] = "SPENT" /\ Loose(p) <=> \E r \in committed : p \in S!Ins(r)

SwappedOnce == \A p \in Proofs, r, s \in committed :
    p \in S!Ins(r) /\ p \in S!Ins(s) => r = s

SwapInv == /\ SwapTypes
           /\ S!AnswerIsTrue
           /\ HeldIsLoose
           /\ SpentBySwap
           /\ SwappedOnce

LEMMA SwapInvInit == BothInit => SwapInv
  <1> SUFFICES ASSUME BothInit PROVE SwapInv
    OBVIOUS
  <1>1. /\ pc = [r \in Requests |-> "new"] /\ committed = {}
        /\ ins = [r \in Requests |-> <<>>] /\ outs = [r \in Requests |-> <<>>]
        /\ proofState = [p \in Proofs |-> "UNSPENT"]
    BY DEF BothInit, S!Init
  <1>2. \A r \in Requests : S!Ins(r) = {} /\ S!Outs(r) = {}
    BY <1>1 DEF S!Ins, S!Outs, S!Elems
  <1>3. SwapTypes
    BY <1>1, <1>2 DEF SwapTypes, S!Live, S!Holding, S!Ended
  <1>4. S!AnswerIsTrue /\ HeldIsLoose /\ SpentBySwap /\ SwappedOnce
    BY <1>1 DEF S!AnswerIsTrue, HeldIsLoose, SpentBySwap, SwappedOnce, S!Holds, S!Holding
  <1> QED BY <1>3, <1>4 DEF SwapInv

-----------------------------------------------------------------------------
(* A melt leaves the rows without a quote as they are.                     *)

LEMMA MeltKeepsLoose == IInv /\ SInv /\ [Next]_vars => ProofsKept(NoQuote)
  <1> SUFFICES ASSUME IInv, SInv, [Next]_vars PROVE ProofsKept(NoQuote)
    OBVIOUS
  <1> USE DEF tables
  <1>0. ASSUME UNCHANGED <<proofState, proofQuote>> PROVE ProofsKept(NoQuote)
    BY <1>0 DEF ProofsKept, Held
  <1>1. ASSUME NEW h \in Procs, Busy(h)
        PROVE  /\ Quote(h) \in Quotes /\ Believes(h) /\ QuoteOK(Quote(h))
               /\ task[h].ins \in SUBSET Proofs /\ task[h].snap \in SUBSET Proofs
    BY <1>1 DEF IInv, QuoteOfTask, SInv, TypeOK, Task
  <1>2. \A q \in Quotes : NoQuote # q
    BY MeltAssumption
  <1>3. ASSUME NEW h \in Procs, NEW A \in SUBSET Proofs, NEW q \in Quotes, Holds(A, q),
               SetSpent(A) \/ Delete(A), proofQuote' = proofQuote
        PROVE  ProofsKept(NoQuote)
    BY <1>2, <1>3, SpendingKeeps, DeletingKeeps DEF IInv
  <1>4. ASSUME NEW h \in Procs, Settle(h) \/ Unreserve(h) PROVE ProofsKept(NoQuote)
    <2>1. Busy(h) /\ Holds(task[h].snap, Quote(h)) /\ proofQuote' = proofQuote
      BY <1>1, <1>4 DEF Settle, Unreserve, At, Busy, Steps, Believes
    <2>2. SetSpent(task[h].snap) \/ Delete(task[h].snap) \/ proofState' = proofState
      BY <1>4 DEF Settle, Unreserve
    <2> QED BY <1>0, <1>1, <1>3, <2>1, <2>2
  <1>5. ASSUME NEW h \in Procs, Release(h) \/ Finalize(h) PROVE ProofsKept(NoQuote)
    <2>1. Busy(h) /\ Holds(task[h].ins, Quote(h)) /\ proofQuote' = proofQuote
      BY <1>1, <1>5 DEF Release, Finalize, At, Busy, Steps, Believes, Sent
    <2>2. SetSpent(task[h].ins) \/ Delete(task[h].ins) \/ proofState' = proofState
      BY <1>5 DEF Release, Finalize
    <2> QED BY <1>0, <1>1, <1>3, <2>1, <2>2
  <1>6. ASSUME NEW h \in Procs, Reserve(h) PROVE ProofsKept(NoQuote)
    <2>1. Busy(h)
      BY <1>6 DEF Reserve, At, Busy, Steps
    <2>2. CASE st[Quote(h)] = "UNPAID" /\ Reservable(h) /\ ReserveProofs(h)
      <3>1. PICK q \in Quotes : q = Quote(h)
        BY <1>1, <2>1
      <3> QED BY <1>1, <1>2, <2>1, <2>2, <3>1, ReservingKeeps DEF Reservable, IInv
    <2> QED BY <1>0, <1>6, <2>2 DEF Reserve
  <1>7. ASSUME NEW h \in Procs, Step(h) PROVE ProofsKept(NoQuote)
    <2>1. CASE \/ ReadQuote(h) \/ Check(h) \/ Send(h) \/ PayReturns(h)
               \/ SaveCheckingId(h) \/ Recheck(h) \/ Mark(h)
      BY <1>0, <2>1 DEF ReadQuote, Check, Send, PayReturns, SaveCheckingId, Recheck, Mark
    <2> QED BY <1>4, <1>5, <1>6, <1>7, <2>1 DEF Step
  <1>8. ASSUME NEW h \in Procs, DatabaseFails(h) PROVE ProofsKept(NoQuote)
    BY <1>0, <1>8 DEF DatabaseFails
  <1>9. ASSUME NEW q \in Quotes, Watch(q) \/ PaymentEnds(q) \/ PaidFromOutside(q)
        PROVE  ProofsKept(NoQuote)
    BY <1>0, <1>9 DEF Watch, PaymentEnds, PaidFromOutside
  <1>10. CASE StartUp \/ Crash \/ UNCHANGED vars
    BY <1>0, <1>10 DEF StartUp, Crash, vars
  <1>11. ASSUME UNCHANGED tables PROVE ProofsKept(NoQuote)
    BY <1>0, <1>11
  <1> QED BY <1>7, <1>8, <1>9, <1>10, <1>11, StartsWith DEF Next, Acts, Procs

\* So it disturbs no swap.
LEMMA SwapsKept ==
    ASSUME SwapInv, ProofsKept(NoQuote), UNCHANGED swapVars PROVE SwapInv'
  <1>1. pc' = pc /\ ins' = ins /\ outs' = outs /\ committed' = committed
    BY DEF swapVars
  <1>2. \A r \in Requests : S!Ins(r)' = S!Ins(r) /\ S!Outs(r)' = S!Outs(r)
    BY <1>1 DEF S!Ins, S!Outs
  <1>3. \A r \in Requests, p \in Proofs : S!Holds(r, p)' <=> S!Holds(r, p)
    BY <1>1, <1>2 DEF S!Holds
  <1>4. SwapTypes' /\ S!AnswerIsTrue'
    BY <1>1, <1>2 DEF SwapInv, SwapTypes, S!AnswerIsTrue
  <1>5. \A p \in Proofs : /\ proofState[p] = "PENDING" /\ Loose(p) =>
                                proofState'[p] = "PENDING" /\ Loose(p)'
                          /\ proofState[p] = "SPENT" /\ Loose(p) <=>
                                proofState'[p] = "SPENT" /\ Loose(p)'
    BY DEF ProofsKept, Held, Loose
  <1>6. HeldIsLoose'
    BY <1>3, <1>5 DEF SwapInv, HeldIsLoose
  <1>7. SpentBySwap' /\ SwappedOnce'
    BY <1>1, <1>2, <1>5 DEF SwapInv, SpentBySwap, SwappedOnce, SwapTypes
  <1> QED BY <1>4, <1>6, <1>7 DEF SwapInv

-----------------------------------------------------------------------------
(* A swap leaves the rows that name a quote as they are.                   *)

\* Which rows get which quote.
RowQuotes == proofQuote' = [p \in Proofs |->
    IF p \in Inserted THEN NoQuote ELSE proofQuote[p]]

MeltIdle == UNCHANGED <<st, change, mintQuote, leaked, world, task, host>>

OnlyLoose == \A p \in Proofs :
    \/ proofState'[p] = proofState[p] /\ proofQuote'[p] = proofQuote[p]
    \/ (proofState[p] = "UNSPENT" \/ Loose(p)) /\ proofQuote'[p] = NoQuote

\* So it disturbs no melt.
LEMMA MeltsKept ==
    ASSUME IInv, SInv, OnlyLoose, TypeOK', MeltIdle PROVE IInv' /\ SInv'
  <1>1. UNCHANGED <<st, payment, stake, task>>
    BY DEF MeltIdle, world
  <1>2. \A q \in Quotes : Apart(q)
    BY <1>1, MeltAssumption DEF Apart, ProofsKept, Held, OnlyLoose, Loose
  <1>3. QuoteOfTask' /\ Remembered' /\ PaidQuoteIsPaid'
    BY <1>1 DEF IInv, QuoteOfTask, Remembered, PaidQuoteIsPaid, Busy, Quote, Paid
  <1>4. \A q \in Quotes : QuoteOK(q)'
    BY <1>2, QuoteApart DEF SInv, IInv
  <1>5. OneAtATime'
    BY <1>1 DEF SInv, OneAtATime, Busy, Quote
  <1>6. ASSUME NEW h \in Procs, Busy(h)' PROVE Believes(h)'
    <2>1. Busy(h) /\ Quote(h) \in Quotes /\ Believes(h) /\ task'[h] = task[h]
      BY <1>1, <1>6 DEF Busy, IInv, QuoteOfTask, SInv
    <2> QED BY <1>2, <2>1, BeliefApart DEF IInv
  <1> QED BY <1>3, <1>4, <1>5, <1>6 DEF IInv, SInv

-----------------------------------------------------------------------------
(* What a swap does to the tables: nothing, or one of three things.        *)

Arrives(r) == \E io \in S!Acceptable : S!Receive(r, io[1], io[2])

Goes(r, where) ==
    /\ S!Goto(r, where) /\ where \in S!Live \cup S!Ended
    /\ where \notin {"done", "lost"} /\ pc[r] \notin {"done", "lost"}
    /\ where \in S!Live => pc[r] \in S!Live
    /\ where \in S!Holding => pc[r] \in S!Holding
    /\ UNCHANGED <<proofState, sigs, ins, outs, committed>>

Reserves(r, where) ==
    /\ pc[r] = "insert" /\ S!Insertable(r) /\ S!SaveProof(S!Ins(r))
    /\ S!Goto(r, where) /\ where \in {"sign", "stranded"}
    /\ UNCHANGED <<sigs, ins, outs, committed>>

Burns(r, where) ==
    /\ pc[r] = "finish" /\ S!MarkSpentAndSigned(r)
    /\ S!Goto(r, where) /\ where \in {"done", "lost"}
    /\ UNCHANGED <<ins, outs>>

Does(r) == \/ Arrives(r) \/ S!Cleanup(r)
           \/ \E where \in S!Live \cup S!Ended :
                 Goes(r, where) \/ Reserves(r, where) \/ Burns(r, where)

LEMMA SwapDoes ==
    ASSUME SwapActs PROVE RowQuotes /\ MeltIdle /\ \E r \in Requests : Does(r)
  <1> USE DEF Does, Goes, Reserves, Burns, S!Live, S!Holding, S!Ended, S!store, S!request
  <1>1. RowQuotes /\ MeltIdle
    BY DEF SwapActs, RowQuotes, MeltIdle
  <1>2. ASSUME NEW r \in Requests, S!Check(r) \/ S!Sign(r) PROVE Does(r)
    BY <1>2 DEF S!Check, S!Sign
  <1>3. ASSUME NEW r \in Requests, S!Insert(r) PROVE Does(r)
    BY <1>3 DEF S!Insert
  <1>4. ASSUME NEW r \in Requests, S!Finish(r) PROVE Does(r)
    BY <1>4 DEF S!Finish
  <1>5. ASSUME NEW r \in Requests, S!SignerFails(r) \/ S!DatabaseFails(r) \/ S!CleanupFails(r)
        PROVE  Does(r)
    BY <1>5 DEF S!SignerFails, S!DatabaseFails, S!CleanupFails
  <1>6. ASSUME NEW r \in Requests, S!CommitAnswerLost(r) PROVE Does(r)
    <2>1. CASE S!InsertLost(r)
      BY <1>6, <2>1 DEF S!CommitAnswerLost, S!InsertLost
    <2>2. CASE S!FinishLost(r)
      BY <1>6, <2>2 DEF S!CommitAnswerLost, S!FinishLost
    <2> QED BY <1>6, <2>1, <2>2 DEF S!CommitAnswerLost
  <1>7. PICK r \in Requests :
          \/ Arrives(r) \/ S!Step(r)
          \/ S!SignerFails(r) \/ S!DatabaseFails(r) \/ S!CleanupFails(r) \/ S!CommitAnswerLost(r)
    BY DEF SwapActs, Arrives
  <1> QED BY <1>1, <1>2, <1>3, <1>4, <1>5, <1>6, <1>7 DEF S!Step

\* What RowQuotes says row by row.
LEMMA RowByRow ==
    ASSUME RowQuotes, NEW p \in Proofs
    PROVE  proofQuote'[p] = IF proofState[p] = "UNSPENT" /\ proofState'[p] = "PENDING"
                            THEN NoQuote ELSE proofQuote[p]
  BY DEF RowQuotes, Inserted

LEMMA SameQuotes ==
    ASSUME TypeOK, RowQuotes, proofState' = proofState PROVE proofQuote' = proofQuote
  <1>1. Inserted = {}
    BY DEF Inserted
  <1> QED BY <1>1 DEF RowQuotes, TypeOK

-----------------------------------------------------------------------------
(* One lemma per kind of step.                                             *)

LEMMA SwapGoes ==
    ASSUME SwapInv, NEW r \in Requests, NEW where, Goes(r, where), proofQuote' = proofQuote
    PROVE  SwapInv'
  <1> USE DEF SwapInv, SwapTypes
  <1>1. /\ pc[r] \notin {"done", "lost"} /\ where \notin {"done", "lost"}
        /\ where \in S!Live \cup S!Ended
        /\ where \in S!Live => pc[r] \in S!Live
        /\ where \in S!Holding => pc[r] \in S!Holding
        /\ pc' = [pc EXCEPT ![r] = where] /\ ins' = ins /\ outs' = outs
        /\ proofState' = proofState /\ committed' = committed
    BY DEF Goes, S!Goto, S!Live, S!Holding
  <1>2. pc'[r] = where /\ \A s \in Requests : s # r => pc'[s] = pc[s]
    BY <1>1
  <1>3. \A s \in Requests : S!Ins(s)' = S!Ins(s) /\ S!Outs(s)' = S!Outs(s)
    BY <1>1 DEF S!Ins, S!Outs
  <1>4. SwapTypes'
    BY <1>1, <1>2, <1>3
  <1>5. S!AnswerIsTrue'
    BY <1>1, <1>2 DEF S!AnswerIsTrue
  <1>6. \A s \in Requests, p \in Proofs : S!Holds(s, p)' => S!Holds(s, p)
    BY <1>1, <1>2, <1>3 DEF S!Holds
  <1>7. HeldIsLoose'
    BY <1>1, <1>6 DEF HeldIsLoose, Loose
  <1>8. SpentBySwap' /\ SwappedOnce'
    BY <1>1, <1>3 DEF SpentBySwap, SwappedOnce, Loose
  <1> QED BY <1>4, <1>5, <1>7, <1>8

LEMMA ElemsOfBatch == ASSUME NEW A, NEW s \in S!Batches(A) PROVE S!Elems(s) \subseteq A
  BY DEF S!Batches, S!Elems

LEMMA SwapArrives ==
    ASSUME SwapInv, NEW r \in Requests, Arrives(r), proofQuote' = proofQuote
    PROVE  SwapInv'
  <1> USE DEF SwapInv, SwapTypes
  <1>1. PICK io \in S!Acceptable : S!Receive(r, io[1], io[2])
    BY DEF Arrives
  <1>2. /\ S!Elems(io[1]) # {} /\ S!Elems(io[1]) \subseteq Proofs
        /\ S!Elems(io[2]) \subseteq Outputs
    <2>1. /\ io[1] \in S!Batches(Proofs) /\ io[2] \in S!Batches(Outputs)
          /\ S!Elems(io[1]) # {}
      BY DEF S!Acceptable, S!Accepts
    <2> QED BY <2>1, ElemsOfBatch
  <1>3. /\ pc[r] = "new" /\ pc' = [pc EXCEPT ![r] = "check"]
        /\ ins' = [ins EXCEPT ![r] = io[1]] /\ outs' = [outs EXCEPT ![r] = io[2]]
        /\ proofState' = proofState /\ committed' = committed
    BY <1>1 DEF S!Receive, S!Goto, S!store
  <1>4. /\ pc'[r] = "check" /\ ins'[r] = io[1] /\ outs'[r] = io[2]
        /\ DOMAIN ins' = Requests /\ DOMAIN outs' = Requests
        /\ \A s \in Requests : s # r =>
              pc'[s] = pc[s] /\ ins'[s] = ins[s] /\ outs'[s] = outs[s]
    BY <1>3
  <1>5. r \notin committed
    BY <1>3 DEF S!AnswerIsTrue
  <1>6. /\ S!Ins(r)' = S!Elems(io[1]) /\ S!Outs(r)' = S!Elems(io[2])
        /\ \A s \in Requests : s # r => S!Ins(s)' = S!Ins(s) /\ S!Outs(s)' = S!Outs(s)
    BY <1>4 DEF S!Ins, S!Outs
  <1>7. SwapTypes'
    BY <1>2, <1>3, <1>4, <1>6 DEF S!Live
  <1>8. S!AnswerIsTrue'
    BY <1>3, <1>4, <1>5 DEF S!AnswerIsTrue
  <1>9. \A s \in Requests, p \in Proofs : S!Holds(s, p)' => S!Holds(s, p)
    BY <1>4, <1>6 DEF S!Holds, S!Holding
  <1>10. HeldIsLoose'
    BY <1>3, <1>9 DEF HeldIsLoose, Loose
  <1>11. SpentBySwap' /\ SwappedOnce'
    BY <1>3, <1>5, <1>6 DEF SpentBySwap, SwappedOnce, Loose
  <1> QED BY <1>7, <1>8, <1>10, <1>11

\* The INSERT meets no row, so what others hold is not among it.
LEMMA SwapReserves ==
    ASSUME SwapInv, NEW r \in Requests, NEW where, Reserves(r, where), RowQuotes
    PROVE  SwapInv' /\ OnlyLoose
  <1> USE DEF SwapInv, SwapTypes
  <1>1. /\ pc[r] = "insert" /\ where \in {"sign", "stranded"}
        /\ pc' = [pc EXCEPT ![r] = where] /\ ins' = ins /\ outs' = outs
        /\ committed' = committed
        /\ \A p \in Proofs : p \in S!Ins(r) => proofState[p] = "UNSPENT"
        /\ \A p \in Proofs : proofState'[p] = IF p \in S!Ins(r) THEN "PENDING" ELSE proofState[p]
    BY DEF Reserves, S!Goto, S!Insertable, S!Unspent, S!SaveProof
  <1>2. pc'[r] = where /\ \A s \in Requests : s # r => pc'[s] = pc[s]
    BY <1>1
  <1>3. \A s \in Requests : S!Ins(s)' = S!Ins(s) /\ S!Outs(s)' = S!Outs(s)
    BY <1>1 DEF S!Ins, S!Outs
  <1>4. \A p \in Proofs :
          proofQuote'[p] = IF p \in S!Ins(r) THEN NoQuote ELSE proofQuote[p]
    BY <1>1, RowByRow
  <1>5. OnlyLoose
    BY <1>1, <1>4 DEF OnlyLoose
  <1>6. SwapTypes'
    BY <1>1, <1>2, <1>3 DEF S!Live, S!Holding, S!Ended
  <1>7. S!AnswerIsTrue'
    BY <1>1, <1>2 DEF S!AnswerIsTrue
  <1>8. \A s \in Requests, p \in Proofs :
          /\ s # r => (S!Holds(s, p)' <=> S!Holds(s, p))
          /\ S!Holds(s, p) => p \notin S!Ins(r)
          /\ S!Holds(r, p)' => p \in S!Ins(r)
    BY <1>1, <1>2, <1>3 DEF S!Holds, HeldIsLoose
  <1>9. HeldIsLoose'
    BY <1>1, <1>4, <1>8 DEF HeldIsLoose, Loose
  <1>10. SpentBySwap' /\ SwappedOnce'
    BY <1>1, <1>3, <1>4 DEF SpentBySwap, SwappedOnce, Loose
  <1> QED BY <1>5, <1>6, <1>7, <1>9, <1>10

\* The UPDATE meets rows that are PENDING, without a quote and its own.
LEMMA SwapBurns ==
    ASSUME SwapInv, NEW r \in Requests, NEW where, Burns(r, where), RowQuotes
    PROVE  SwapInv' /\ OnlyLoose
  <1> USE DEF SwapInv, SwapTypes
  <1>1. \A p \in Proofs : p \in S!Ins(r) => S!Holds(r, p) /\ proofState[p] = "PENDING" /\ Loose(p)
    BY DEF Burns, S!Holds, S!Holding, HeldIsLoose
  <1>2. /\ pc[r] = "finish" /\ where \in {"done", "lost"}
        /\ pc' = [pc EXCEPT ![r] = where] /\ ins' = ins /\ outs' = outs
        /\ committed' = committed \cup {r}
        /\ \A p \in Proofs : proofState'[p] = IF p \in S!Ins(r) THEN "SPENT" ELSE proofState[p]
    BY <1>1 DEF Burns, S!Goto, S!MarkSpentAndSigned, S!SetProofsSpent
  <1>3. pc'[r] = where /\ \A s \in Requests : s # r => pc'[s] = pc[s]
    BY <1>2
  <1>4. \A s \in Requests : S!Ins(s)' = S!Ins(s) /\ S!Outs(s)' = S!Outs(s)
    BY <1>2 DEF S!Ins, S!Outs
  <1>5. \A p \in Proofs : proofQuote'[p] = proofQuote[p]
    BY <1>1, <1>2, RowByRow
  <1>6. OnlyLoose
    BY <1>1, <1>2, <1>5 DEF OnlyLoose, Loose
  <1>7. SwapTypes'
    BY <1>2, <1>3, <1>4 DEF S!Live, S!Holding, S!Ended
  <1>8. S!AnswerIsTrue'
    BY <1>2, <1>3 DEF S!AnswerIsTrue
  <1>9. \A s \in Requests, p \in Proofs :
          /\ s # r => (S!Holds(s, p)' <=> S!Holds(s, p))
          /\ s # r /\ S!Holds(s, p) => p \notin S!Ins(r)
          /\ ~S!Holds(r, p)'
    BY <1>1, <1>2, <1>3, <1>4 DEF S!Holds, S!Holding, HeldIsLoose
  <1>10. HeldIsLoose'
    BY <1>2, <1>5, <1>9 DEF HeldIsLoose, Loose
  <1>11. \A p \in Proofs, s \in committed : p \in S!Ins(s) => p \notin S!Ins(r)
    BY <1>1 DEF SpentBySwap
  <1>12. SpentBySwap'
    BY <1>1, <1>2, <1>4, <1>5 DEF SpentBySwap, Loose
  <1>13. SwappedOnce'
    BY <1>2, <1>4, <1>11 DEF SwappedOnce
  <1> QED BY <1>6, <1>7, <1>8, <1>10, <1>12, <1>13

\* And so does the DELETE.
LEMMA SwapCleansUp ==
    ASSUME SwapInv, NEW r \in Requests, S!Cleanup(r), RowQuotes
    PROVE  SwapInv' /\ OnlyLoose
  <1> USE DEF SwapInv, SwapTypes
  <1>1. \A p \in Proofs : p \in S!Ins(r) => S!Holds(r, p) /\ proofState[p] = "PENDING" /\ Loose(p)
    BY DEF S!Cleanup, S!Holds, S!Holding, HeldIsLoose
  <1>2. /\ pc[r] = "cleanup" /\ pc' = [pc EXCEPT ![r] = "failed"]
        /\ ins' = ins /\ outs' = outs /\ committed' = committed
        /\ \A p \in Proofs : proofState'[p] = IF p \in S!Ins(r) THEN "UNSPENT" ELSE proofState[p]
    BY DEF S!Cleanup, S!DeleteProofs, S!Goto, S!request
  <1>3. pc'[r] = "failed" /\ \A s \in Requests : s # r => pc'[s] = pc[s]
    BY <1>2
  <1>4. \A s \in Requests : S!Ins(s)' = S!Ins(s) /\ S!Outs(s)' = S!Outs(s)
    BY <1>2 DEF S!Ins, S!Outs
  <1>5. \A p \in Proofs : proofQuote'[p] = proofQuote[p]
    BY <1>1, <1>2, RowByRow
  <1>6. OnlyLoose
    BY <1>1, <1>2, <1>5 DEF OnlyLoose, Loose
  <1>7. SwapTypes'
    BY <1>2, <1>3, <1>4 DEF S!Live, S!Holding, S!Ended
  <1>8. S!AnswerIsTrue'
    BY <1>2, <1>3 DEF S!AnswerIsTrue
  <1>9. \A s \in Requests, p \in Proofs :
          /\ s # r => (S!Holds(s, p)' <=> S!Holds(s, p))
          /\ s # r /\ S!Holds(s, p) => p \notin S!Ins(r)
          /\ ~S!Holds(r, p)'
    BY <1>1, <1>2, <1>3, <1>4 DEF S!Holds, S!Holding, HeldIsLoose
  <1>10. HeldIsLoose'
    BY <1>2, <1>5, <1>9 DEF HeldIsLoose, Loose
  <1>11. SpentBySwap' /\ SwappedOnce'
    BY <1>1, <1>2, <1>4, <1>5 DEF SpentBySwap, SwappedOnce, Loose
  <1> QED BY <1>6, <1>7, <1>8, <1>10, <1>11

\* The process dies: what was held is nobody's any more.
LEMMA SwapCrashes ==
    ASSUME SwapInv, S!Crash, UNCHANGED tables PROVE SwapInv'
  <1> USE DEF SwapInv, SwapTypes
  <1>1. /\ ins' = ins /\ outs' = outs /\ committed' = committed
        /\ proofState' = proofState /\ proofQuote' = proofQuote
        /\ pc' = [r \in Requests |-> IF pc[r] \in S!Live THEN "dead" ELSE pc[r]]
    BY DEF S!Crash, S!request, tables
  <1>2. \A r \in Requests : S!Ins(r)' = S!Ins(r) /\ S!Outs(r)' = S!Outs(r)
    BY <1>1 DEF S!Ins, S!Outs
  <1>3. SwapTypes' /\ S!AnswerIsTrue'
    BY <1>1, <1>2 DEF S!AnswerIsTrue, S!Live, S!Holding, S!Ended
  <1>4. HeldIsLoose'
    BY <1>1 DEF HeldIsLoose, S!Holds, S!Live, S!Holding
  <1>5. SpentBySwap' /\ SwappedOnce'
    BY <1>1, <1>2 DEF SpentBySwap, SwappedOnce, Loose
  <1> QED BY <1>3, <1>4, <1>5

-----------------------------------------------------------------------------
(* The two together.                                                       *)

LEMMA SwapTyped ==
    ASSUME TypeOK, SwapInv, NEW r \in Requests, Does(r), RowQuotes, MeltIdle PROVE TypeOK'
  <1>1. proofState' \in [Proofs -> {"UNSPENT", "PENDING", "SPENT"}] /\ sigs' \subseteq Outputs
    <2>1. S!Outs(r) \subseteq Outputs
      BY DEF SwapInv, SwapTypes
    <2>2. CASE Arrives(r) \/ S!Cleanup(r)
      BY <2>2 DEF TypeOK, Arrives, S!Receive, S!store, S!Cleanup, S!DeleteProofs
    <2>3. ASSUME NEW where, Goes(r, where) \/ Reserves(r, where) \/ Burns(r, where)
          PROVE  /\ proofState' \in [Proofs -> {"UNSPENT", "PENDING", "SPENT"}]
                 /\ sigs' \subseteq Outputs
      BY <2>1, <2>3 DEF TypeOK, Goes, Reserves, Burns, S!SaveProof, S!MarkSpentAndSigned,
                        S!SetProofsSpent
    <2> QED BY <2>2, <2>3 DEF Does
  <1>2. proofQuote' \in [Proofs -> Quotes \cup {NoQuote}]
    BY DEF RowQuotes, TypeOK
  <1> QED BY <1>1, <1>2 DEF TypeOK, MeltIdle, world, host

LEMMA SwapStep ==
    ASSUME IInv, SInv, SwapInv, SwapActs PROVE IInv' /\ SInv' /\ SwapInv'
  <1>1. PICK r \in Requests : Does(r)
    BY SwapDoes
  <1>2. RowQuotes /\ MeltIdle /\ TypeOK'
    BY <1>1, SwapDoes, SwapTyped DEF IInv
  <1>3. ASSUME proofState' = proofState PROVE proofQuote' = proofQuote /\ OnlyLoose
    BY <1>2, <1>3, SameQuotes DEF IInv, OnlyLoose
  <1>4. SwapInv' /\ OnlyLoose
    <2>1. CASE Arrives(r)
      <3>1. proofState' = proofState
        BY <2>1 DEF Arrives, S!Receive, S!store
      <3> QED BY <1>3, <2>1, <3>1, SwapArrives
    <2>2. CASE S!Cleanup(r)
      BY <1>2, <2>2, SwapCleansUp
    <2>3. ASSUME NEW where, Goes(r, where) PROVE SwapInv' /\ OnlyLoose
      <3>1. proofState' = proofState
        BY <2>3 DEF Goes
      <3> QED BY <1>3, <2>3, <3>1, SwapGoes
    <2>4. ASSUME NEW where, Reserves(r, where) \/ Burns(r, where) PROVE SwapInv' /\ OnlyLoose
      BY <1>2, <2>4, SwapReserves, SwapBurns
    <2> QED BY <1>1, <2>1, <2>2, <2>3, <2>4 DEF Does
  <1>5. IInv' /\ SInv'
    BY <1>2, <1>4, MeltsKept
  <1> QED BY <1>4, <1>5

LEMMA BothNextInv ==
    ASSUME Serial PROVE IInv /\ SInv /\ SwapInv /\ [BothNext]_bothVars => IInv' /\ SInv' /\ SwapInv'
  <1> SUFFICES ASSUME IInv, SInv, SwapInv, [BothNext]_bothVars PROVE IInv' /\ SInv' /\ SwapInv'
    OBVIOUS
  <1>1. CASE SwapActs
    BY <1>1, SwapStep
  <1>2. ASSUME [Next]_vars PROVE IInv' /\ SInv' /\ ProofsKept(NoQuote)
    BY <1>2, InvNext, SerialNext, MeltKeepsLoose
  <1>3. CASE [Next]_vars /\ UNCHANGED swapVars
    BY <1>2, <1>3, SwapsKept
  <1>4. CASE Crash /\ S!Crash
    BY <1>2, <1>4, SwapCrashes DEF Next, Crash
  <1>5. CASE UNCHANGED bothVars
    BY <1>3, <1>5 DEF bothVars
  <1> QED BY <1>1, <1>3, <1>4, <1>5 DEF BothNext, MeltActs, BothCrash, Next

LEMMA BothInvariant == ASSUME Serial PROVE BothSpec => [](IInv /\ SInv /\ SwapInv)
  <1>1. BothInit => IInv /\ SInv /\ SwapInv
    BY InvInit, SerialInit, SwapInvInit DEF BothInit
  <1> QED BY <1>1, BothNextInv, PTL DEF BothSpec

-----------------------------------------------------------------------------
\* A proof pays for one thing: one swap that took effect, or one quote whose
\* payment is under way or was made.
THEOREM BothPaysOnce == ASSUME Serial PROVE BothSpec => []PaysOnce
  <1>1. IInv /\ SInv /\ SwapInv => PaysOnce
    <2> SUFFICES ASSUME IInv, SInv, SwapInv, NEW p \in Proofs, NEW x \in Uses(p), NEW y \in Uses(p)
                 PROVE  x = y
      BY DEF PaysOnce
    <2> DEFINE Swapped(r) == r \in committed /\ p \in S!Ins(r)
               Melted(q)  == q \in Quotes /\ proofQuote[p] = q
    <2>1. ASSUME NEW z \in Uses(p) PROVE Swapped(z) \/ Melted(z)
      BY <2>1 DEF Uses, SInv, QuoteOK, Held
    <2>2. ASSUME NEW r, Swapped(r) PROVE proofQuote[p] = NoQuote
      BY <2>2 DEF SwapInv, SpentBySwap, Loose
    <2>3. ASSUME Swapped(x), Swapped(y) PROVE x = y
      BY <2>3 DEF SwapInv, SwappedOnce
    <2>4. \A q : Melted(q) => q # NoQuote
      BY MeltAssumption
    <2> QED BY <2>1, <2>2, <2>3, <2>4
  <1> QED BY <1>1, BothInvariant, PTL

\* Nobody loses ecash for nothing: what is SPENT paid for a swap that took
\* effect or for an invoice that was paid.
THEOREM BothSpentForSomething == ASSUME Serial PROVE BothSpec => []SpentForSomething
  <1>1. IInv /\ SInv /\ SwapInv => SpentForSomething
    <2> SUFFICES ASSUME IInv, SInv, SwapInv, NEW p \in Proofs, proofState[p] = "SPENT"
                 PROVE  Uses(p) # {}
      BY DEF SpentForSomething
    <2>1. CASE proofQuote[p] = NoQuote
      BY <2>1 DEF SwapInv, SpentBySwap, SwapTypes, Loose, Uses
    <2>2. CASE proofQuote[p] \in Quotes
      <3>1. PICK q \in Quotes : Held(p, q)
        BY <2>2 DEF Held
      <3> QED BY <3>1 DEF SInv, QuoteOK, Held, Uses
    <2> QED BY <2>1, <2>2 DEF IInv, TypeOK
  <1> QED BY <1>1, BothInvariant, PTL

\* A payment that went out stays covered by proofs of its quote, whatever the
\* swaps do meanwhile.
THEOREM BothCovered == ASSUME Serial PROVE BothSpec => []Covered
  <1>1. IInv /\ SInv => Covered
    BY DEF IInv, TypeOK, SInv, QuoteOK, Held, Covered
  <1> QED BY <1>1, BothInvariant, PTL

\* An UNPAID quote holds no proofs.
THEOREM BothUnpaidHoldsNothing == ASSUME Serial PROVE BothSpec => []UnpaidHoldsNothing
  <1>1. SInv => UnpaidHoldsNothing
    BY DEF SInv, QuoteOK, Held, UnpaidHoldsNothing, ProofsOf
  <1> QED BY <1>1, BothInvariant, PTL

\* Swaps and melts together do to ecash only what the ledger allows.
THEOREM BothImplementLedger == ASSUME Serial PROVE BothSpec => Ledger
  <1>1. BothInit => L!LedgerInit
    BY DEF BothInit, Init, L!LedgerInit
  <1>2. ASSUME NEW r \in Requests, SwapInv, Does(r) PROVE [L!LedgerNext]_(L!ledgerVars)
    <2>1. S!Ins(r) \in SUBSET Proofs /\ S!Outs(r) \in SUBSET Outputs
      BY <1>2 DEF SwapInv, SwapTypes
    <2>2. CASE Arrives(r) \/ \E where : Goes(r, where)
      BY <2>2 DEF Arrives, Goes, S!Receive, S!store, L!ledgerVars
    <2>3. ASSUME NEW where, Reserves(r, where) PROVE L!LedgerNext
      <3>1. L!Hold(S!Ins(r))
        BY <2>3 DEF Reserves, S!Insertable, S!Unspent, S!SaveProof, L!Hold, L!AllIn, L!Move
      <3> QED BY <2>1, <3>1 DEF L!LedgerNext
    <2>4. pc[r] \in S!Holding => L!AllIn(S!Ins(r), "PENDING") /\ S!Ins(r) # {}
      BY <1>2, <2>1 DEF SwapInv, SwapTypes, HeldIsLoose, S!Holds, S!Live, L!AllIn
    <2>5. CASE S!Cleanup(r)
      <3>1. L!GiveBack(S!Ins(r))
        BY <2>4, <2>5 DEF S!Cleanup, S!DeleteProofs, S!Holding, L!GiveBack, L!Move
      <3> QED BY <2>1, <3>1 DEF L!LedgerNext
    <2>6. ASSUME NEW where, Burns(r, where) PROVE L!LedgerNext
      <3>1. L!AllIn(S!Ins(r), "PENDING") /\ S!Ins(r) # {}
        BY <2>4, <2>6 DEF Burns, S!Holding
      <3>2. L!Move(S!Ins(r), "SPENT")
        BY <2>6, <3>1 DEF Burns, S!MarkSpentAndSigned, S!SetProofsSpent, L!Move, L!AllIn
      <3>3. L!Spend(S!Ins(r), S!Outs(r))
        BY <2>6, <3>1, <3>2 DEF Burns, S!MarkSpentAndSigned, S!NotSigned, L!Spend
      <3> QED BY <2>1, <3>3 DEF L!LedgerNext
    <2> QED BY <1>2, <2>2, <2>3, <2>5, <2>6 DEF Does
  <1>3. IInv /\ SInv /\ SwapInv /\ [BothNext]_bothVars => [L!LedgerNext]_(L!ledgerVars)
    <2> SUFFICES ASSUME IInv, SInv, SwapInv, [BothNext]_bothVars
                 PROVE  [L!LedgerNext]_(L!ledgerVars)
      OBVIOUS
    <2>1. CASE SwapActs
      BY <1>2, <2>1, SwapDoes
    <2>2. CASE [Next]_vars
      BY <2>2, StepOfLedger
    <2> QED BY <2>1, <2>2 DEF BothNext, MeltActs, BothCrash, Next, bothVars
  <1> QED BY <1>1, <1>3, BothInvariant, PTL DEF BothSpec, Ledger, L!LedgerSpec
=============================================================================
