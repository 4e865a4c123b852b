----------------------------- MODULE MeltProofs -----------------------------
(***************************************************************************)
(* What Melt guarantees for any number of goroutines, quotes, proofs and   *)
(* outputs, for every combination of faults and whatever the backend says  *)
(* of a payment nobody made: first whether or not operations on one quote  *)
(* overlap, then, from SInv on, for quotes with one operation at a time.   *)
(***************************************************************************)
EXTENDS Melt, TLAPS

QuoteOfTask == \A h \in Procs : Busy(h) => Quote(h) \in Quotes

\* A goroutine that is about to mark its quote PAID has seen the payment.
Remembered == \A h \in Procs : task[h].at \in {"settle", "finalize"} => Paid(Quote(h))

IInv == /\ TypeOK
        /\ QuoteOfTask
        /\ Remembered
        /\ PaidQuoteIsPaid

-----------------------------------------------------------------------------
(* Typing.                                                                 *)

LEMMA TypeInit == Init => TypeOK
  BY DEF Init, TypeOK, NoTask, Task, QuoteStates

\* Tasks are records of the right shape, whatever is written into them.
LEMMA GotoTyped ==
    ASSUME TypeOK, NEW h \in Procs, NEW where \in Steps, Goto(h, where)
    PROVE  task' \in [Procs -> Task]
  BY DEF TypeOK, Task, Goto

LEMMA GoneTyped == ASSUME NEW h \in Procs PROVE Gone(h) \in Task
  BY DEF Gone, NoTask, Task

LEMMA StopTyped ==
    ASSUME TypeOK, NEW h \in Procs, Stop(h) PROVE task' \in [Procs -> Task]
  BY GoneTyped DEF TypeOK, Stop

LEMMA FailTyped ==
    ASSUME TypeOK, NEW h \in Procs, Fail(h)
    PROVE  /\ task' \in [Procs -> Task]
           /\ node' \in {"up", "down", "starting"} /\ todo' \subseteq Quotes
  <1>1. task' \in [Procs -> Task]
    BY StopTyped DEF Fail
  <1> QED BY <1>1 DEF Fail, TypeOK

LEMMA RefreshedTyped ==
    ASSUME TypeOK, NEW h \in Procs, NEW s, Refreshed(h, s)
    PROVE  /\ task' \in [Procs -> Task]
           /\ node' \in {"up", "down", "starting"} /\ todo' \subseteq Quotes
  <1>1. "reserve" \in Steps
    BY DEF Steps
  <1>2. task' \in [Procs -> Task]
    BY <1>1, StopTyped, GotoTyped DEF Refreshed
  <1> QED BY <1>2 DEF Refreshed, TypeOK

LEMMA TypeTake ==
    ASSUME TypeOK, NEW h \in Procs, NEW q \in Quotes, NEW I \in SUBSET Proofs,
           NEW O \in SUBSET Outputs, Take(h, q, I, O)
    PROVE  task' \in [Procs -> Task]
  <1>1. [at |-> "refresh", quote |-> q, ins |-> I, outs |-> O, snap |-> {}] \in Task
    BY DEF Task, Steps
  <1> QED BY <1>1 DEF Take, TypeOK

\* The statements a transaction is made of.
LEMMA StatementsTyped ==
    ASSUME TypeOK, NEW h \in Procs, Quote(h) \in Quotes, NEW S \in SUBSET Outputs
    PROVE  /\ SetSpent(task[h].snap) \/ SetSpent(task[h].ins)
                \/ Delete(task[h].snap) \/ Delete(task[h].ins)
                  => proofState' \in [Proofs -> {"UNSPENT", "PENDING", "SPENT"}]
           /\ \A s \in QuoteStates : SetQuote(h, s) => st' \in [Quotes -> QuoteStates]
           /\ DropChange(h) => change' \in [Quotes -> SUBSET Outputs]
           /\ SignChange(h, S) => /\ sigs' \subseteq Outputs
                                  /\ change' \in [Quotes -> SUBSET Outputs]
  BY DEF TypeOK, SetSpent, Delete, SetQuote, DropChange, SignChange

LEMMA TypeRefresh ==
    ASSUME TypeOK, QuoteOfTask, NEW h \in Procs,
           ReadQuote(h) \/ Check(h) \/ Settle(h) \/ Unreserve(h)
    PROVE  TypeOK'
  <1> USE DEF TypeOK, tables, world, host
  <1>1. CASE ReadQuote(h)
    <2>1. CASE task' = [task EXCEPT ![h].at = "check", ![h].snap = ProofsOf(Quote(h))]
                 /\ UNCHANGED host
      <3>1. task[h] \in Task /\ ProofsOf(Quote(h)) \in SUBSET Proofs
        BY DEF ProofsOf
      <3>2. [task[h] EXCEPT !.at = "check", !.snap = ProofsOf(Quote(h))] \in Task
        BY <3>1 DEF Task, Steps
      <3>3. task' = [task EXCEPT ![h] =
                       [task[h] EXCEPT !.at = "check", !.snap = ProofsOf(Quote(h))]]
        BY <2>1
      <3>4. task' \in [Procs -> Task]
        BY <3>2, <3>3
      <3> QED BY <1>1, <2>1, <3>4 DEF ReadQuote
    <2>2. CASE Fail(h)
      BY <1>1, <2>2, FailTyped DEF ReadQuote
    <2>3. CASE Refreshed(h, st[Quote(h)])
      BY <1>1, <2>3, RefreshedTyped DEF ReadQuote
    <2> QED BY <1>1, <2>1, <2>2, <2>3 DEF ReadQuote
  <1>2. CASE Check(h)
    <2>1. "settle" \in Steps /\ "unreserve" \in Steps
      BY DEF Steps
    <2>2. ASSUME NEW where \in Steps, Goto(h, where), UNCHANGED host PROVE TypeOK'
      BY <1>2, <2>2, GotoTyped DEF Check
    <2>3. CASE Fail(h)
      BY <1>2, <2>3, FailTyped DEF Check
    <2>4. CASE Refreshed(h, "PENDING")
      BY <1>2, <2>4, RefreshedTyped DEF Check
    <2> QED BY <1>2, <2>1, <2>2, <2>3, <2>4 DEF Check
  <1>3. CASE Settle(h)
    <2>1. Quote(h) \in Quotes
      BY <1>3 DEF Settle, QuoteOfTask, At, Busy, Steps
    <2>2. CASE \E S \in SUBSET change[Quote(h)] : SignChange(h, S)
                 /\ SetSpent(task[h].snap) /\ SetQuote(h, "PAID") /\ Refreshed(h, "PAID")
      <3>1. PICK S \in SUBSET change[Quote(h)] : SignChange(h, S)
        BY <2>2
      <3>2. S \in SUBSET Outputs
        BY <2>1, <3>1
      <3>3. /\ proofState' \in [Proofs -> {"UNSPENT", "PENDING", "SPENT"}]
            /\ st' \in [Quotes -> QuoteStates]
            /\ sigs' \subseteq Outputs /\ change' \in [Quotes -> SUBSET Outputs]
        BY <2>1, <2>2, <3>1, <3>2, StatementsTyped DEF QuoteStates
      <3> QED BY <1>3, <2>2, <3>3, RefreshedTyped DEF Settle
    <2>3. CASE Fail(h) /\ UNCHANGED <<proofState, sigs, change, st>>
      BY <1>3, <2>3, FailTyped DEF Settle
    <2> QED BY <1>3, <2>2, <2>3 DEF Settle
  <1>4. CASE Unreserve(h)
    <2>1. Quote(h) \in Quotes
      BY <1>4 DEF Unreserve, QuoteOfTask, At, Busy, Steps
    <2>2. /\ proofState' \in [Proofs -> {"UNSPENT", "PENDING", "SPENT"}]
          /\ st' \in [Quotes -> QuoteStates] /\ change' \in [Quotes -> SUBSET Outputs]
      BY <1>4, <2>1, StatementsTyped DEF QuoteStates, Unreserve
    <2> QED BY <1>4, <2>2, RefreshedTyped DEF Unreserve
  <1> QED BY <1>1, <1>2, <1>3, <1>4

LEMMA TypeReserve == ASSUME TypeOK, QuoteOfTask, NEW h \in Procs, Reserve(h) PROVE TypeOK'
  <1> USE DEF TypeOK, tables, world, host
  <1>1. Quote(h) \in Quotes /\ task[h] \in Task
    BY DEF Reserve, QuoteOfTask, At, Busy, Steps
  <1>2. CASE ReserveProofs(h) /\ UNCHANGED leaked
    <2>1. /\ proofState' \in [Proofs -> {"UNSPENT", "PENDING", "SPENT"}]
          /\ proofQuote' \in [Proofs -> Quotes \cup {NoQuote}]
          /\ change' \in [Quotes -> SUBSET Outputs]
      BY <1>1, <1>2 DEF ReserveProofs, Task
    <2>2. "finalize" \in Steps /\ "send" \in Steps
      BY DEF Steps
    <2>3. CASE SettleInternally(h)
      <3>1. /\ st' \in [Quotes -> QuoteStates] /\ mintQuote' \in [Internal -> {"UNPAID", "PAID"}]
            /\ payment' \in [Quotes -> {"none", "inflight", "settled", "failed", "internal"}]
        BY <2>3 DEF SettleInternally, SetQuote, QuoteStates
      <3>2. stake' \in [Quotes -> SUBSET Proofs]
        BY <1>1, <2>3 DEF SettleInternally, Task
      <3>3. task' \in [Procs -> Task]
        BY <2>2, <2>3, GotoTyped DEF SettleInternally
      <3> QED BY <1>2, <2>1, <3>1, <3>2, <3>3 DEF Reserve
    <2>4. CASE SetQuote(h, "PENDING") /\ Goto(h, "send") /\ UNCHANGED <<mintQuote, world>>
      <3>1. st' \in [Quotes -> QuoteStates]
        BY <2>4 DEF SetQuote, QuoteStates
      <3>2. task' \in [Procs -> Task]
        BY <2>2, <2>4, GotoTyped
      <3> QED BY <1>2, <2>1, <2>4, <3>1, <3>2 DEF Reserve
    <2> QED BY <1>2, <2>3, <2>4 DEF ReserveProofs
  <1>3. CASE Stop(h) /\ UNCHANGED <<proofState, proofQuote, st, change, mintQuote, world>>
               /\ (leaked' = leaked \/ leaked' = leaked \cup {Quote(h)})
    <2>1. task' \in [Procs -> Task]
      BY <1>3, StopTyped
    <2> QED BY <1>1, <1>3, <2>1 DEF Reserve
  <1> QED BY <1>2, <1>3 DEF Reserve

LEMMA TypePay ==
    ASSUME TypeOK, QuoteOfTask, NEW h \in Procs,
           Send(h) \/ PayReturns(h) \/ SaveCheckingId(h) \/ Recheck(h)
    PROVE  TypeOK'
  <1> USE DEF TypeOK, tables, world, host
  <1>1. {"paying", "finalize", "saveId", "recheck", "mark", "release"} \subseteq Steps
    BY DEF Steps
  <1>2. task' \in [Procs -> Task]
    BY <1>1, GotoTyped, StopTyped DEF Send, PayReturns, SaveCheckingId, Recheck
  <1>3. CASE Send(h)
    <2>1. task[h].ins \in SUBSET Proofs
      BY DEF Task
    <2> QED BY <1>2, <1>3, <2>1 DEF Send
  <1>4. CASE PayReturns(h) \/ SaveCheckingId(h) \/ Recheck(h)
    BY <1>2, <1>4 DEF PayReturns, SaveCheckingId, Recheck
  <1> QED BY <1>3, <1>4

LEMMA TypeEnd ==
    ASSUME TypeOK, QuoteOfTask, NEW h \in Procs, Mark(h) \/ Release(h) \/ Finalize(h)
    PROVE  TypeOK'
  <1> USE DEF TypeOK, tables, world, host
  <1>1. Quote(h) \in Quotes /\ task[h].outs \in SUBSET Outputs
    BY DEF Mark, Release, Finalize, QuoteOfTask, At, Busy, Steps, Task
  <1>2. task' \in [Procs -> Task]
    BY StopTyped DEF Mark, Release, Finalize
  <1>3. CASE Mark(h)
    BY <1>2, <1>3 DEF Mark, SetQuote, QuoteStates
  <1>4. CASE Release(h)
    <2>1. /\ proofState' \in [Proofs -> {"UNSPENT", "PENDING", "SPENT"}]
          /\ st' \in [Quotes -> QuoteStates] /\ change' \in [Quotes -> SUBSET Outputs]
      BY <1>1, <1>4, StatementsTyped DEF QuoteStates, Release
    <2> QED BY <1>2, <1>4, <2>1 DEF Release
  <1>5. CASE Finalize(h)
    <2>1. CASE /\ \E S \in SUBSET task[h].outs : SignChange(h, S)
               /\ SetQuote(h, "PAID") /\ SetSpent(task[h].ins)
      <3>1. PICK S \in SUBSET task[h].outs : SignChange(h, S)
        BY <2>1
      <3>2. S \in SUBSET Outputs
        BY <1>1, <3>1
      <3>3. /\ proofState' \in [Proofs -> {"UNSPENT", "PENDING", "SPENT"}]
            /\ st' \in [Quotes -> QuoteStates]
            /\ sigs' \subseteq Outputs /\ change' \in [Quotes -> SUBSET Outputs]
        BY <1>1, <2>1, <3>1, <3>2, StatementsTyped DEF QuoteStates
      <3> QED BY <1>2, <1>5, <3>3 DEF Finalize
    <2>2. CASE UNCHANGED <<proofState, sigs, change, st>>
      BY <1>2, <1>5, <2>2 DEF Finalize
    <2> QED BY <1>5, <2>1, <2>2 DEF Finalize
  <1> QED BY <1>3, <1>4, <1>5

\* A request carries blank outputs of its own, a poll and the startup none.
LEMMA Starts ==
    ASSUME NEW h \in Procs, NEW q \in Quotes,
           \/ \E I \in SUBSET Proofs, O \in SUBSET Blanks[h] : StartMelt(h, q, I, O)
           \/ StartPoll(h, q)
           \/ h = Boot /\ BootTakes(q)
    PROVE  /\ \E I \in SUBSET Proofs, O \in SUBSET Outputs : Take(h, q, I, O)
           /\ UNCHANGED <<tables, leaked, world, host>>
  <1>1. ASSUME NEW I \in SUBSET Proofs, NEW O \in SUBSET Blanks[h], StartMelt(h, q, I, O)
        PROVE  O \in SUBSET Outputs
    BY <1>1, MeltAssumption DEF StartMelt
  <1> QED BY <1>1 DEF StartMelt, StartPoll, BootTakes

LEMMA TypeWorld ==
    ASSUME TypeOK,
           \/ StartUp \/ Crash \/ UNCHANGED vars
           \/ \E q \in Quotes : Watch(q) \/ PaymentEnds(q) \/ PaidFromOutside(q)
    PROVE  TypeOK'
  <1> USE DEF TypeOK, tables, world, host
  <1>1. CASE StartUp
    BY <1>1 DEF StartUp
  <1>2. CASE Crash
    <2>1. task' \in [Procs -> Task]
      BY <1>2, GoneTyped DEF Crash
    <2> QED BY <1>2, <2>1 DEF Crash
  <1>3. CASE UNCHANGED vars
    BY <1>3 DEF vars
  <1>4. ASSUME NEW q \in Quotes, Watch(q) \/ PaymentEnds(q) \/ PaidFromOutside(q)
        PROVE  TypeOK'
    BY <1>4 DEF Watch, PaymentEnds, PaidFromOutside
  <1> QED BY <1>1, <1>2, <1>3, <1>4

LEMMA TypeNext == TypeOK /\ QuoteOfTask /\ [Next]_vars => TypeOK'
  <1> SUFFICES ASSUME TypeOK, QuoteOfTask, [Next]_vars PROVE TypeOK'
    OBVIOUS
  <1>1. ASSUME NEW h \in Procs, NEW q \in Quotes,
               NEW I \in SUBSET Proofs, NEW O \in SUBSET Outputs, Take(h, q, I, O),
               UNCHANGED <<tables, leaked, world, host>>
        PROVE  TypeOK'
    <2>1. task' \in [Procs -> Task]
      BY <1>1, TypeTake
    <2> QED BY <1>1, <2>1 DEF TypeOK, tables, world, host
  <1>2. ASSUME NEW h \in Procs, Step(h) PROVE TypeOK'
    BY <1>2, TypeRefresh, TypeReserve, TypePay, TypeEnd DEF Step
  <1>3. ASSUME NEW h \in Procs, DatabaseFails(h) PROVE TypeOK'
    BY <1>3, FailTyped DEF DatabaseFails, TypeOK, tables, world
  <1> QED BY <1>1, <1>2, <1>3, Starts, TypeWorld DEF Next, Acts, Procs

-----------------------------------------------------------------------------
(* The inductive invariant.                                                *)

LEMMA InvInit == Init => IInv
  BY TypeInit DEF Init, IInv, QuoteOfTask, Remembered, PaidQuoteIsPaid, Busy, NoTask, Steps

\* A payment that was made stays made.
PaymentsKept == \A q \in Quotes : Paid(q) => Paid(q)'

\* The payment of the quote a goroutine works on is made when its step is done.
WillBePaid(h) == payment'[Quote(h)] \in {"settled", "internal"}

\* What one goroutine has to show of the step it took.
TaskGood(h) == /\ Busy(h) => Quote(h) \in Quotes
               /\ task[h].at \in {"settle", "finalize"} => Paid(Quote(h))

LEMMA InvMoves ==
    ASSUME IInv, TypeOK', NEW h \in Procs, PaymentsKept,
           \A g \in Procs : g # h => task'[g] = task[g],
           TaskGood(h)', PaidQuoteIsPaid'
    PROVE  IInv'
  <1>1. \A g \in Procs : TaskGood(g)'
    <2> SUFFICES ASSUME NEW g \in Procs, g # h PROVE TaskGood(g)'
      OBVIOUS
    <2>1. task'[g] = task[g] /\ TaskGood(g)
      BY DEF IInv, QuoteOfTask, Remembered, TaskGood
    <2> QED BY <2>1 DEF TaskGood, Busy, Quote, Steps, PaymentsKept
  <1>2. QuoteOfTask' /\ Remembered'
    BY <1>1 DEF QuoteOfTask, Remembered, TaskGood
  <1> QED BY <1>2 DEF IInv

\* A goroutine that ends owes nothing.
LEMMA StopIsGood ==
    ASSUME TypeOK, NEW h \in Procs, Stop(h)
    PROVE  TaskGood(h)' /\ \A g \in Procs : g # h => task'[g] = task[g]
  BY DEF TypeOK, Stop, Gone, NoTask, TaskGood, Busy, Steps

\* One that goes on keeps its quote.
LEMMA GotoIsGood ==
    ASSUME TypeOK, NEW h \in Procs, NEW where, Goto(h, where), Quote(h) \in Quotes,
           where \in {"settle", "finalize"} => WillBePaid(h)
    PROVE  TaskGood(h)' /\ \A g \in Procs : g # h => task'[g] = task[g]
  <1>1. task'[h].at = where /\ task'[h].quote = task[h].quote
    BY DEF TypeOK, Task, Goto
  <1> QED BY <1>1 DEF TypeOK, Goto, TaskGood, Busy, Quote, Paid, WillBePaid

LEMMA RefreshedIsGood ==
    ASSUME TypeOK, NEW h \in Procs, NEW s, Refreshed(h, s), Quote(h) \in Quotes
    PROVE  TaskGood(h)' /\ \A g \in Procs : g # h => task'[g] = task[g]
  BY StopIsGood, GotoIsGood DEF Refreshed

\* A step that leaves the quotes alone.
LEMMA QuotesKept == ASSUME PaidQuoteIsPaid, PaymentsKept, st' = st PROVE PaidQuoteIsPaid'
  BY DEF PaidQuoteIsPaid, PaymentsKept

LEMMA QuoteSet ==
    ASSUME TypeOK, PaidQuoteIsPaid, PaymentsKept, NEW h \in Procs, NEW s, SetQuote(h, s),
           s = "PAID" => WillBePaid(h)
    PROVE  PaidQuoteIsPaid'
  BY DEF TypeOK, PaidQuoteIsPaid, PaymentsKept, SetQuote, Paid, WillBePaid

\* The backend calls no payment settled that is not.
LEMMA SettledIsPaid == ASSUME NEW q, "SETTLED" \in CheckPayed(q) PROVE Paid(q)
  <1>1. CASE payment[q] = "settled"
    BY <1>1 DEF Paid
  <1>2. CASE payment[q] = "inflight" \/ payment[q] = "failed"
    BY <1>2 DEF CheckPayed
  <1>3. CASE payment[q] \notin {"settled", "inflight", "failed"}
    <2>1. CheckPayed(q) = Absent \ {"error"}
      BY <1>3 DEF CheckPayed
    <2> QED BY <2>1, MeltAssumption
  <1> QED BY <1>1, <1>2, <1>3

LEMMA InvRefresh ==
    ASSUME IInv, TypeOK', NEW h \in Procs,
           ReadQuote(h) \/ Check(h) \/ Settle(h) \/ Unreserve(h)
    PROVE  IInv'
  <1> USE DEF IInv, world, tables
  <1>1. Quote(h) \in Quotes
    BY DEF ReadQuote, Check, Settle, Unreserve, QuoteOfTask, At, Busy, Steps
  <1>2. payment' = payment
    BY DEF ReadQuote, Check, Settle, Unreserve
  <1>3. PaymentsKept /\ (Paid(Quote(h)) => WillBePaid(h))
    BY <1>2 DEF PaymentsKept, Paid, WillBePaid
  <1>4. TaskGood(h)' /\ \A g \in Procs : g # h => task'[g] = task[g]
    <2>1. CASE Fail(h) \/ \E s \in {"PENDING", "UNPAID", "PAID"} : Refreshed(h, s)
      BY <1>1, <2>1, StopIsGood, RefreshedIsGood DEF Fail
    <2>2. CASE ReadQuote(h)
      <3>1. CASE task' = [task EXCEPT ![h].at = "check", ![h].snap = ProofsOf(Quote(h))]
        <4>1. task'[h].at = "check" /\ task'[h].quote = task[h].quote
          BY <3>1 DEF TypeOK, Task
        <4> QED BY <1>1, <3>1, <4>1 DEF TypeOK, TaskGood, Busy, Quote
      <3>2. CASE Refreshed(h, st[Quote(h)])
        BY <1>1, <3>2, RefreshedIsGood
      <3> QED BY <2>1, <2>2, <3>1, <3>2 DEF ReadQuote
    <2>3. CASE Check(h)
      <3>1. "SETTLED" \in CheckPayed(Quote(h)) => WillBePaid(h)
        BY <1>2, SettledIsPaid DEF WillBePaid, Paid
      <3>2. CASE "SETTLED" \in CheckPayed(Quote(h)) /\ Goto(h, "settle")
        BY <1>1, <3>1, <3>2, GotoIsGood
      <3>3. CASE Goto(h, "unreserve")
        BY <1>1, <3>3, GotoIsGood
      <3> QED BY <2>1, <2>3, <3>2, <3>3 DEF Check
    <2> QED BY <2>1, <2>2, <2>3 DEF Settle, Unreserve
  <1>5. PaidQuoteIsPaid'
    <2>1. CASE Settle(h)
      BY <1>3, <2>1, QuotesKept, QuoteSet DEF Settle, At, Remembered
    <2>2. CASE Unreserve(h)
      BY <1>3, <2>2, QuoteSet DEF Unreserve
    <2>3. CASE ReadQuote(h) \/ Check(h)
      BY <1>3, <2>3, QuotesKept DEF ReadQuote, Check
    <2> QED BY <2>1, <2>2, <2>3
  <1> QED BY <1>3, <1>4, <1>5, InvMoves

LEMMA InvReserve == ASSUME IInv, TypeOK', NEW h \in Procs, Reserve(h) PROVE IInv'
  <1> USE DEF IInv, world
  <1>1. Quote(h) \in Quotes
    BY DEF Reserve, QuoteOfTask, At, Busy, Steps
  <1>2. CASE ReserveProofs(h) /\ SettleInternally(h)
    <2>1. payment' = [payment EXCEPT ![Quote(h)] = "internal"]
      BY <1>2 DEF SettleInternally
    <2>2. PaymentsKept /\ WillBePaid(h)
      BY <1>1, <2>1 DEF PaymentsKept, Paid, TypeOK, WillBePaid
    <2> QED BY <1>1, <1>2, <2>2, GotoIsGood, QuoteSet, InvMoves DEF SettleInternally
  <1>3. CASE SetQuote(h, "PENDING") /\ Goto(h, "send") /\ UNCHANGED world
    <2>1. PaymentsKept
      BY <1>3 DEF PaymentsKept, Paid
    <2> QED BY <1>1, <1>3, <2>1, GotoIsGood, QuoteSet, InvMoves
  <1>4. CASE Stop(h) /\ st' = st /\ UNCHANGED world
    <2>1. PaymentsKept
      BY <1>4 DEF PaymentsKept, Paid
    <2> QED BY <1>4, <2>1, StopIsGood, QuotesKept, InvMoves
  <1> QED BY <1>2, <1>3, <1>4 DEF Reserve, ReserveProofs

LEMMA InvPay ==
    ASSUME IInv, TypeOK', NEW h \in Procs,
           Send(h) \/ PayReturns(h) \/ SaveCheckingId(h) \/ Recheck(h)
    PROVE  IInv'
  <1> USE DEF IInv, world, tables
  <1>1. Quote(h) \in Quotes
    BY DEF Send, PayReturns, SaveCheckingId, Recheck, QuoteOfTask, At, Busy, Steps
  <1>2. PaymentsKept
    BY DEF Send, PayReturns, SaveCheckingId, Recheck, PaymentsKept, Paid, TypeOK
  <1>3. TaskGood(h)' /\ \A g \in Procs : g # h => task'[g] = task[g]
    <2>1. ASSUME NEW where \in {"paying", "saveId", "recheck", "mark", "release"}, Goto(h, where)
          PROVE  TaskGood(h)' /\ \A g \in Procs : g # h => task'[g] = task[g]
      BY <1>1, <2>1, GotoIsGood
    <2>2. CASE payment[Quote(h)] = "settled" /\ Goto(h, "finalize") /\ UNCHANGED world
      BY <1>1, <2>2, GotoIsGood DEF WillBePaid
    <2>3. CASE Stop(h)
      BY <2>3, StopIsGood
    <2> QED BY <2>1, <2>2, <2>3 DEF Send, PayReturns, SaveCheckingId, Recheck
  <1>4. PaidQuoteIsPaid'
    BY <1>2, QuotesKept DEF Send, PayReturns, SaveCheckingId, Recheck
  <1> QED BY <1>2, <1>3, <1>4, InvMoves

LEMMA InvEnd ==
    ASSUME IInv, TypeOK', NEW h \in Procs, Mark(h) \/ Release(h) \/ Finalize(h) PROVE IInv'
  <1> USE DEF IInv, world
  <1>1. payment' = payment /\ Stop(h)
    BY DEF Mark, Release, Finalize
  <1>2. PaymentsKept /\ (Paid(Quote(h)) => WillBePaid(h))
    BY <1>1 DEF PaymentsKept, Paid, WillBePaid
  <1>3. Finalize(h) => Paid(Quote(h))
    BY DEF Finalize, At, Remembered
  <1>4. PaidQuoteIsPaid'
    BY <1>2, <1>3, QuoteSet, QuotesKept DEF Mark, Release, Finalize
  <1> QED BY <1>1, <1>2, <1>4, StopIsGood, InvMoves

LEMMA InvTake ==
    ASSUME IInv, TypeOK', NEW h \in Procs, NEW q \in Quotes,
           NEW I \in SUBSET Proofs, NEW O \in SUBSET Outputs, Take(h, q, I, O),
           UNCHANGED <<tables, leaked, world, host>>
    PROVE  IInv'
  <1>1. PaymentsKept /\ st' = st
    BY DEF PaymentsKept, Paid, world, tables
  <1>2. TaskGood(h)' /\ \A g \in Procs : g # h => task'[g] = task[g]
    BY DEF Take, TaskGood, Busy, Quote, IInv, TypeOK
  <1> QED BY <1>1, <1>2, QuotesKept, InvMoves DEF IInv

\* The process and the world: no goroutine moves but those that a crash ends.
LEMMA InvWorld ==
    ASSUME IInv, TypeOK',
           \/ StartUp \/ Crash \/ UNCHANGED vars
           \/ \E q \in Quotes : Watch(q) \/ PaymentEnds(q) \/ PaidFromOutside(q)
    PROVE  IInv'
  <1> USE DEF IInv, tables, world
  <1>1. PaymentsKept /\ st' = st
    BY DEF PaymentsKept, Paid, TypeOK, StartUp, Crash, vars, Watch, PaymentEnds, PaidFromOutside
  <1>2. ASSUME NEW h \in Procs
        PROVE  task'[h] = task[h] \/ task'[h] = Gone(h)
    BY DEF TypeOK, StartUp, Crash, vars, Watch, PaymentEnds, PaidFromOutside
  <1>3. ASSUME NEW h \in Procs PROVE TaskGood(h)'
    <2>1. CASE task'[h] = task[h]
      <3>1. TaskGood(h)
        BY DEF QuoteOfTask, Remembered, TaskGood
      <3> QED BY <1>1, <2>1, <3>1 DEF TaskGood, Busy, Quote, Steps, PaymentsKept
    <2>2. CASE task'[h] = Gone(h)
      BY <2>2 DEF Gone, NoTask, TaskGood, Busy, Steps
    <2> QED BY <1>2, <2>1, <2>2
  <1>4. QuoteOfTask' /\ Remembered'
    BY <1>3 DEF QuoteOfTask, Remembered, TaskGood
  <1> QED BY <1>1, <1>4, QuotesKept

LEMMA InvNext == IInv /\ [Next]_vars => IInv'
  <1> SUFFICES ASSUME IInv, [Next]_vars PROVE IInv'
    OBVIOUS
  <1>0. TypeOK'
    BY TypeNext DEF IInv
  <1>1. ASSUME NEW h \in Procs, NEW q \in Quotes,
               NEW I \in SUBSET Proofs, NEW O \in SUBSET Outputs, Take(h, q, I, O),
               UNCHANGED <<tables, leaked, world, host>>
        PROVE  IInv'
    BY <1>0, <1>1, InvTake
  <1>2. ASSUME NEW h \in Procs, Step(h) PROVE IInv'
    BY <1>0, <1>2, InvRefresh, InvReserve, InvPay, InvEnd DEF Step
  <1>3. ASSUME NEW h \in Procs, DatabaseFails(h) PROVE IInv'
    <2>1. PaymentsKept /\ st' = st
      BY <1>3 DEF DatabaseFails, PaymentsKept, Paid, world, tables
    <2> QED BY <1>0, <1>3, <2>1, StopIsGood, QuotesKept, InvMoves DEF DatabaseFails, Fail, IInv
  <1> QED BY <1>0, <1>1, <1>2, <1>3, Starts, InvWorld DEF Next, Acts, Procs

\* The inductive invariant holds throughout every behaviour.
THEOREM Invariant == Spec => []IInv
  BY InvInit, InvNext, PTL DEF Spec

\* Every table and every goroutine stays in a state the program knows.
THEOREM MeltTypeCorrect == Spec => []TypeOK
  <1>1. IInv => TypeOK
    BY DEF IInv
  <1> QED BY <1>1, Invariant, PTL

\* A quote is called PAID only if its invoice was paid, however requests,
\* polls and the reconciliation at startup overlap.
THEOREM MeltPaidQuoteIsPaid == Spec => []PaidQuoteIsPaid
  <1>1. IInv => PaidQuoteIsPaid
    BY DEF IInv
  <1> QED BY <1>1, Invariant, PTL

\* Whoever signs change does it on blank outputs of the quote it acts for, whose
\* invoice was paid, in the step that marks that quote PAID.
THEOREM MeltChangeFollowsPayment == Spec => ChangeFollowsPayment
  <1> DEFINE Signs(h) == /\ task'[h] # task[h]
                         /\ sigs' \ sigs \subseteq change[Quote(h)] \cup task[h].outs
                         /\ Paid(Quote(h)) /\ st'[Quote(h)] = "PAID"
  <1>1. IInv /\ [Next]_vars => (sigs' # sigs => \E h \in Procs : Signs(h))
    <2> SUFFICES ASSUME IInv, [Next]_vars, sigs' # sigs
                 PROVE  \E h \in Procs : Signs(h)
      OBVIOUS
    <2>1. ASSUME NEW h \in Procs, Step(h)
          PROVE  Settle(h) \/ Finalize(h)
      BY <2>1 DEF Step, ReadQuote, Check, Unreserve, Reserve, Send, PayReturns,
                  SaveCheckingId, Recheck, Mark, Release, tables
    <2>2. ASSUME NEW h \in Procs, Settle(h) \/ Finalize(h)
          PROVE  Signs(h)
      <3>1. Quote(h) \in Quotes /\ Paid(Quote(h))
        BY <2>2 DEF IInv, QuoteOfTask, Remembered, Settle, Finalize, At, Busy, Steps
      <3>2. SetQuote(h, "PAID")
        BY <2>2 DEF Settle, Finalize
      <3>3. st'[Quote(h)] = "PAID"
        BY <3>1, <3>2 DEF SetQuote, IInv, TypeOK
      <3>4. sigs' \ sigs \subseteq change[Quote(h)] \cup task[h].outs
        BY <2>2 DEF Settle, Finalize, SignChange
      <3>5. task'[h].at \in {"idle", "ended", "reserve"}
        <4>1. CASE Settle(h)
          <5>1. Refreshed(h, "PAID")
            BY <4>1 DEF Settle
          <5>2. Goto(h, "reserve") \/ Stop(h)
            BY <5>1 DEF Refreshed
          <5>3. task \in [Procs -> Task] /\ h \in Procs
            BY DEF IInv, TypeOK
          <5>4. CASE Goto(h, "reserve")
            <6>1. task' = [task EXCEPT ![h] = [task[h] EXCEPT !.at = "reserve"]]
              BY <5>4 DEF Goto
            <6>2. task'[h] = [task[h] EXCEPT !.at = "reserve"]
              BY <5>3, <6>1
            <6>3. task[h] \in Task
              BY <5>3
            <6> QED BY <6>2, <6>3 DEF Task
          <5>5. CASE Stop(h)
            BY <5>3, <5>5 DEF Stop, Gone, NoTask
          <5> QED BY <5>2, <5>4, <5>5
        <4>2. CASE Finalize(h)
          <5>1. Stop(h)
            BY <4>2 DEF Finalize
          <5> QED BY <5>1 DEF Stop, Gone, NoTask, IInv, TypeOK
        <4> QED BY <2>2, <4>1, <4>2
      <3>6. task[h].at \in {"settle", "finalize"}
        BY <2>2 DEF Settle, Finalize, At
      <3>7. task'[h] # task[h]
        BY <3>5, <3>6
      <3> QED BY <3>1, <3>3, <3>4, <3>7
    <2>3. PICK h \in Procs : Step(h)
      BY Starts DEF Next, Acts, Procs, DatabaseFails, Watch, PaymentEnds, PaidFromOutside,
                    StartUp, Crash, vars, tables, StartMelt, StartPoll, BootTakes
    <2> QED BY <2>1, <2>2, <2>3
  <1>2. IInv /\ [Next]_vars =>
          [\A b \in sigs' \ sigs : \E h \in Procs :
              /\ task'[h] # task[h]
              /\ b \in change[Quote(h)] \cup task[h].outs
              /\ Paid(Quote(h)) /\ st'[Quote(h)] = "PAID"]_vars
    BY <1>1
  <1> QED BY <1>2, Invariant, PTL DEF Spec, ChangeFollowsPayment

-----------------------------------------------------------------------------
(* What holds besides when operations on one quote do not overlap: then    *)
(* the proofs that a goroutine read, or reserved, are still exactly those  *)
(* of its quote when it spends or frees them.                              *)

OneAtATime == \A g, h \in Procs : Busy(g) /\ Busy(h) /\ Quote(g) = Quote(h) => g = h

Held(p, q) == proofState[p] # "UNSPENT" /\ proofQuote[p] = q

\* S are the proofs of q, and none is spent.
Holds(S, q) == /\ \A p \in Proofs : p \in S <=> Held(p, q)
               /\ \A p \in S : proofState[p] = "PENDING"

Sent == {"send", "paying", "saveId", "recheck", "mark", "release"}

\* What a goroutine believes of its quote and of the proofs in its hands.
Believes(h) == LET q == Quote(h)  where == task[h].at IN
    /\ where \in {"check", "settle", "unreserve"} =>
          st[q] = "PENDING" /\ Holds(task[h].snap, q)
    /\ where \in Sent => st[q] = "PENDING" /\ Holds(task[h].ins, q)
    /\ where = "finalize" => st[q] # "UNPAID" /\ Holds(task[h].ins, q)
    /\ where \in {"unreserve", "release"} => payment[q] \in {"none", "failed"}
    /\ where \in {"reserve", "send"} => WorthOf(task[h].ins) >= Need[q]
    /\ where \in Sent \cup {"reserve", "finalize"} => h \in Melters
    /\ h \in Melters => task[h].ins # {}

\* What the tables and the node say of a quote.
QuoteOK(q) ==
    /\ st[q] = "UNPAID" => \A p \in Proofs : ~Held(p, q)
    /\ st[q] = "PENDING" => \A p \in Proofs : Held(p, q) => proofState[p] = "PENDING"
    /\ payment[q] = "internal" => st[q] = "PAID"
    /\ payment[q] = "inflight" \/ Paid(q) =>
          /\ st[q] # "UNPAID" /\ WorthOf(stake[q]) >= Need[q]
          /\ \A p \in Proofs : p \in stake[q] <=> Held(p, q)
    /\ \A p \in Proofs : Held(p, q) /\ proofState[p] = "SPENT" => Paid(q)

SInv == /\ OneAtATime
        /\ \A q \in Quotes : QuoteOK(q)
        /\ \A h \in Procs : Busy(h) => Believes(h)

LEMMA SerialInit == Init => SInv
  <1> SUFFICES ASSUME Init PROVE SInv
    OBVIOUS
  <1>1. \A q \in Quotes : QuoteOK(q)
    BY DEF Init, QuoteOK, Held, Paid
  <1>2. \A h \in Procs : ~Busy(h)
    BY DEF Init, Busy, NoTask, Steps
  <1> QED BY <1>1, <1>2 DEF SInv, OneAtATime

-----------------------------------------------------------------------------
(* A step about one quote leaves the others, and what is believed of them. *)

\* The proofs of q stay the same, in the same states.
ProofsKept(q) == \A p \in Proofs : /\ Held(p, q)' <=> Held(p, q)
                                   /\ Held(p, q) => proofState'[p] = proofState[p]

Apart(q) == /\ st'[q] = st[q] /\ payment'[q] = payment[q] /\ stake'[q] = stake[q]
            /\ ProofsKept(q)

LEMMA QuoteApart ==
    ASSUME TypeOK, NEW q \in Quotes, QuoteOK(q), Apart(q) PROVE QuoteOK(q)'
  <1>1. stake[q] \subseteq Proofs
    BY DEF TypeOK
  <1>2. Paid(q)' <=> Paid(q)
    BY DEF Apart, Paid
  <1> QED BY <1>1, <1>2 DEF QuoteOK, Apart, ProofsKept

LEMMA HoldsKept ==
    ASSUME NEW q, NEW S \in SUBSET Proofs, Holds(S, q), ProofsKept(q)
    PROVE  /\ \A p \in Proofs : p \in S <=> Held(p, q)'
           /\ \A p \in S : proofState'[p] = "PENDING"
  BY DEF Holds, ProofsKept

LEMMA BeliefApart ==
    ASSUME TypeOK, NEW h \in Procs, Believes(h), Apart(Quote(h)), task'[h] = task[h]
    PROVE  Believes(h)'
  <1> DEFINE q == Quote(h)
  <1>1. task[h].snap \in SUBSET Proofs /\ task[h].ins \in SUBSET Proofs
    BY DEF TypeOK, Task
  <1>2. Holds(task[h].snap, q) => Holds(task[h].snap, q)'
    BY <1>1, HoldsKept DEF Apart, Holds, Quote
  <1>3. Holds(task[h].ins, q) => Holds(task[h].ins, q)'
    BY <1>1, HoldsKept DEF Apart, Holds, Quote
  <1> QED BY <1>2, <1>3 DEF Believes, Apart, Quote

\* The only goroutine of a quote takes a step on it.
LEMMA SerialMoves ==
    ASSUME IInv, SInv, NEW h \in Procs, Busy(h), NEW r \in Quotes, Quote(h) = r,
           \A q \in Quotes : q # r => Apart(q), QuoteOK(r)',
           \A g \in Procs : g # h => task'[g] = task[g],
           Busy(h)' => Quote(h)' = r /\ Believes(h)'
    PROVE  SInv'
  <1>1. \A g \in Procs : g # h => (Busy(g)' <=> Busy(g)) /\ Quote(g)' = Quote(g)
    BY DEF Busy, Quote
  <1>2. OneAtATime'
    BY <1>1 DEF SInv, OneAtATime
  <1>3. ASSUME NEW q \in Quotes PROVE QuoteOK(q)'
    BY <1>3, QuoteApart DEF SInv, IInv
  <1>4. ASSUME NEW g \in Procs, Busy(g)' PROVE Believes(g)'
    <2>1. CASE g = h
      BY <1>4, <2>1
    <2>2. CASE g # h
      <3>1. Busy(g) /\ Quote(g) \in Quotes /\ Quote(g) # Quote(h)
        BY <1>1, <1>4, <2>2 DEF SInv, OneAtATime, IInv, QuoteOfTask
      <3> QED BY <2>2, <3>1, BeliefApart DEF SInv, IInv
    <2> QED BY <2>1, <2>2
  <1> QED BY <1>2, <1>3, <1>4 DEF SInv

\* A goroutine that ends believes nothing.
LEMMA StopEnds ==
    ASSUME TypeOK, NEW h \in Procs, Stop(h)
    PROVE  ~Busy(h)' /\ \A g \in Procs : g # h => task'[g] = task[g]
  BY DEF TypeOK, Stop, Gone, NoTask, Busy, Steps

LEMMA SerialEnds ==
    ASSUME IInv, SInv, NEW h \in Procs, Busy(h), NEW r \in Quotes, Quote(h) = r, Stop(h),
           \A q \in Quotes : q # r => Apart(q), QuoteOK(r)'
    PROVE  SInv'
  BY StopEnds, SerialMoves DEF IInv

\* One that goes on with the tables as they are.
LEMMA UntouchedApart ==
    ASSUME UNCHANGED <<proofState, proofQuote, st, world>>
    PROVE  \A q \in Quotes : Apart(q)
  BY DEF Apart, ProofsKept, Held, world

LEMMA GotoKeeps ==
    ASSUME TypeOK, NEW h \in Procs, NEW where, Goto(h, where)
    PROVE  /\ task'[h].at = where /\ task'[h].quote = task[h].quote
           /\ task'[h].ins = task[h].ins /\ task'[h].snap = task[h].snap
           /\ \A g \in Procs : g # h => task'[g] = task[g]
  BY DEF TypeOK, Task, Goto

\* What a goroutine must believe to go on to a step.
MayGo(h, where) == LET q == Quote(h) IN
    /\ where \in {"check", "settle", "unreserve"} =>
          st[q] = "PENDING" /\ Holds(task[h].snap, q)
    /\ where \in Sent => st[q] = "PENDING" /\ Holds(task[h].ins, q)
    /\ where = "finalize" => st[q] # "UNPAID" /\ Holds(task[h].ins, q)
    /\ where \in {"unreserve", "release"} => payment[q] \in {"none", "failed"}
    /\ where \in {"reserve", "send"} => WorthOf(task[h].ins) >= Need[q]
    /\ where \in Sent \cup {"reserve", "finalize"} => h \in Melters
    /\ h \in Melters => task[h].ins # {}

LEMMA SerialGoes ==
    ASSUME IInv, SInv, NEW h \in Procs, Busy(h), NEW where, Goto(h, where),
           MayGo(h, where), UNCHANGED <<proofState, proofQuote, st, world>>
    PROVE  SInv'
  <1>1. PICK r \in Quotes : r = Quote(h)
    BY DEF IInv, QuoteOfTask
  <1>2. QuoteOK(r)'
    BY UntouchedApart, QuoteApart DEF SInv, IInv
  <1>3. Quote(h)' = r /\ Believes(h)'
    BY <1>1, GotoKeeps DEF IInv, MayGo, Believes, Holds, Held, Quote, world
  <1> QED BY <1>1, <1>2, <1>3, UntouchedApart, GotoKeeps, SerialMoves DEF IInv

\* RefreshMeltQuoteState returned: a melt that is admitted goes on to reserve.
LEMMA RefreshedMoves ==
    ASSUME IInv, SInv, NEW h \in Procs, Busy(h), NEW r \in Quotes, Quote(h) = r,
           NEW s, Refreshed(h, s), \A q \in Quotes : q # r => Apart(q), QuoteOK(r)'
    PROVE  SInv'
  <1>1. CASE Stop(h)
    BY <1>1, SerialEnds
  <1>2. CASE Admits(h, s) /\ Goto(h, "reserve")
    <2>1. /\ h \in Melters /\ WorthOf(task[h].ins) >= Need[r] /\ task[h].ins # {}
      BY <1>2 DEF Admits, SInv, Believes
    <2>2. /\ task'[h].at = "reserve" /\ task'[h].quote = r /\ task'[h].ins = task[h].ins
          /\ \A g \in Procs : g # h => task'[g] = task[g]
      BY <1>2, GotoKeeps DEF IInv, Quote
    <2>3. Quote(h)' = r /\ Believes(h)'
      BY <2>1, <2>2 DEF Believes, Quote, Sent
    <2> QED BY <2>2, <2>3, SerialMoves
  <1> QED BY <1>1, <1>2 DEF Refreshed

LEMMA RefreshedStays ==
    ASSUME IInv, SInv, NEW h \in Procs, Busy(h), NEW s, Refreshed(h, s) \/ Stop(h),
           UNCHANGED <<proofState, proofQuote, st, world>>
    PROVE  SInv'
  <1>1. PICK r \in Quotes : r = Quote(h)
    BY DEF IInv, QuoteOfTask
  <1>2. QuoteOK(r)'
    BY UntouchedApart, QuoteApart DEF SInv, IInv
  <1> QED BY <1>1, <1>2, UntouchedApart, RefreshedMoves, SerialEnds

\* The DELETE and the UPDATE by y meet the proofs of one quote.
LEMMA SpendingKeeps ==
    ASSUME TypeOK, NEW S \in SUBSET Proofs, NEW q, Holds(S, q), SetSpent(S),
           proofQuote' = proofQuote
    PROVE  /\ \A r \in Quotes \cup {NoQuote} : r # q => ProofsKept(r)
           /\ \A p \in Proofs : Held(p, q)' <=> Held(p, q)
  BY DEF TypeOK, Holds, Held, SetSpent, ProofsKept

LEMMA DeletingKeeps ==
    ASSUME TypeOK, NEW S \in SUBSET Proofs, NEW q, Holds(S, q), Delete(S),
           proofQuote' = proofQuote
    PROVE  /\ \A r \in Quotes \cup {NoQuote} : r # q => ProofsKept(r)
           /\ \A p \in Proofs : ~Held(p, q)'
  BY DEF TypeOK, Holds, Held, Delete, ProofsKept

LEMMA SetQuoteKeeps ==
    ASSUME TypeOK, NEW h \in Procs, NEW r \in Quotes, Quote(h) = r, NEW s, SetQuote(h, s)
    PROVE  st'[r] = s /\ \A q \in Quotes : q # r => st'[q] = st[q]
  BY DEF TypeOK, SetQuote

\* A quote whose proofs are spent for a payment that was made.
LEMMA QuoteSettled ==
    ASSUME TypeOK, NEW h \in Procs, NEW r \in Quotes, Quote(h) = r, QuoteOK(r), Paid(r),
           NEW S \in SUBSET Proofs, Holds(S, r), SetSpent(S), SetQuote(h, "PAID"),
           UNCHANGED <<proofQuote, world>>
    PROVE  QuoteOK(r)' /\ \A q \in Quotes : q # r => Apart(q)
  <1>1. stake[r] \subseteq Proofs /\ (Paid(r)' <=> Paid(r))
    BY DEF TypeOK, Paid, world
  <1>2. st'[r] = "PAID" /\ \A q \in Quotes : q # r => st'[q] = st[q]
    BY SetQuoteKeeps
  <1>3. /\ \A q \in Quotes : q # r => ProofsKept(q)
        /\ \A p \in Proofs : Held(p, r)' <=> Held(p, r)
    BY SpendingKeeps
  <1>4. QuoteOK(r)'
    BY <1>1, <1>2, <1>3 DEF QuoteOK, world
  <1> QED BY <1>2, <1>3, <1>4 DEF Apart, world

\* A quote whose proofs are freed because its payment failed.
LEMMA QuoteFreed ==
    ASSUME TypeOK, NEW h \in Procs, NEW r \in Quotes, Quote(h) = r,
           payment[r] \in {"none", "failed"},
           NEW S \in SUBSET Proofs, Holds(S, r), Delete(S), SetQuote(h, "UNPAID"),
           UNCHANGED <<proofQuote, world>>
    PROVE  QuoteOK(r)' /\ \A q \in Quotes : q # r => Apart(q)
  <1>1. st'[r] = "UNPAID" /\ \A q \in Quotes : q # r => st'[q] = st[q]
    BY SetQuoteKeeps
  <1>2. /\ \A q \in Quotes : q # r => ProofsKept(q)
        /\ \A p \in Proofs : ~Held(p, r)'
    BY DeletingKeeps
  <1>3. payment'[r] \in {"none", "failed"} /\ ~Paid(r)'
    BY DEF Paid, world
  <1>4. QuoteOK(r)'
    BY <1>1, <1>2, <1>3 DEF QuoteOK
  <1> QED BY <1>1, <1>2, <1>4 DEF Apart, world

-----------------------------------------------------------------------------
(* One lemma per step.                                                     *)

LEMMA SerialReadQuote == ASSUME IInv, SInv, NEW h \in Procs, ReadQuote(h) PROVE SInv'
  <1>1. Busy(h) /\ UNCHANGED <<proofState, proofQuote, st, world>>
    BY DEF ReadQuote, At, Busy, Steps, tables
  <1>2. PICK r \in Quotes : r = Quote(h)
    BY <1>1 DEF IInv, QuoteOfTask
  <1>3. CASE Fail(h) \/ \E s : Refreshed(h, s)
    BY <1>1, <1>3, RefreshedStays DEF Fail
  <1>4. CASE /\ st[r] = "PENDING"
             /\ task' = [task EXCEPT ![h].at = "check", ![h].snap = ProofsOf(Quote(h))]
    <2>1. /\ task'[h].at = "check" /\ task'[h].quote = r /\ task'[h].ins = task[h].ins
          /\ task'[h].snap = ProofsOf(r)
          /\ \A g \in Procs : g # h => task'[g] = task[g]
      BY <1>2, <1>4 DEF IInv, TypeOK, Task, Quote
    <2>2. QuoteOK(r)' /\ st'[r] = "PENDING"
      BY <1>1, <1>4, UntouchedApart, QuoteApart DEF SInv, IInv
    <2>3. /\ \A p \in Proofs : p \in ProofsOf(r) <=> Held(p, r)'
          /\ \A p \in ProofsOf(r) : p \in Proofs /\ proofState'[p] = "PENDING"
      BY <1>1, <1>4 DEF ProofsOf, Held, SInv, QuoteOK
    <2>4. h \in Melters => task[h].ins # {}
      BY <1>1 DEF SInv, Believes
    <2>5. Holds(task[h].snap, r)'
      BY <2>1, <2>3 DEF Holds
    <2>6. Quote(h)' = r /\ Believes(h)'
      BY <2>1, <2>2, <2>4, <2>5 DEF Believes, Quote, Sent
    <2> QED BY <1>1, <1>2, <2>1, <2>2, <2>6, UntouchedApart, SerialMoves
  <1> QED BY <1>2, <1>3, <1>4 DEF ReadQuote

\* What is not paid and not under way, as far as the backend tells.
LEMMA FailedIsFree ==
    ASSUME TypeOK, NEW q \in Quotes, CheckPayed(q) \cap {"FAILED", "UNKNOWN"} # {},
           QuoteOK(q), st[q] = "PENDING"
    PROVE  payment[q] \in {"none", "failed"}
  BY DEF TypeOK, CheckPayed, QuoteOK

LEMMA SerialCheck == ASSUME IInv, SInv, NEW h \in Procs, Check(h) PROVE SInv'
  <1>1. Busy(h) /\ UNCHANGED <<proofState, proofQuote, st, world>>
    BY DEF Check, At, Busy, Steps, tables
  <1>2. Quote(h) \in Quotes
    BY <1>1 DEF IInv, QuoteOfTask
  <1>3. /\ st[Quote(h)] = "PENDING" /\ Holds(task[h].snap, Quote(h))
        /\ h \in Melters => task[h].ins # {}
    BY <1>1 DEF SInv, Believes, Check, At
  <1>4. CASE Fail(h) \/ Refreshed(h, "PENDING")
    BY <1>1, <1>4, RefreshedStays DEF Fail
  <1>5. CASE Goto(h, "settle")
    <2>1. MayGo(h, "settle")
      BY <1>3 DEF MayGo, Sent
    <2> QED BY <1>1, <1>5, <2>1, SerialGoes
  <1>6. CASE "FAILED" \in CheckPayed(Quote(h)) /\ Goto(h, "unreserve")
    <2>1. payment[Quote(h)] \in {"none", "failed"}
      BY <1>2, <1>3, <1>6, FailedIsFree DEF SInv, IInv
    <2>2. MayGo(h, "unreserve")
      BY <1>3, <2>1 DEF MayGo, Sent
    <2> QED BY <1>1, <1>6, <2>2, SerialGoes
  <1> QED BY <1>4, <1>5, <1>6 DEF Check

LEMMA SerialSettle == ASSUME IInv, SInv, NEW h \in Procs, Settle(h) PROVE SInv'
  <1>1. Busy(h) /\ task[h].snap \in SUBSET Proofs
    BY DEF Settle, At, Busy, Steps, IInv, TypeOK, Task
  <1>2. PICK r \in Quotes : r = Quote(h)
    BY <1>1 DEF IInv, QuoteOfTask
  <1>3. Holds(task[h].snap, r) /\ QuoteOK(r) /\ Paid(r)
    BY <1>1, <1>2 DEF SInv, Believes, Settle, At, IInv, Remembered
  <1>4. CASE /\ SetSpent(task[h].snap) /\ SetQuote(h, "PAID")
             /\ Refreshed(h, "PAID") /\ UNCHANGED <<proofQuote, world>>
    <2>1. QuoteOK(r)' /\ \A q \in Quotes : q # r => Apart(q)
      BY <1>1, <1>2, <1>3, <1>4, QuoteSettled DEF IInv
    <2> QED BY <1>1, <1>2, <1>4, <2>1, RefreshedMoves
  <1>5. CASE Fail(h) /\ UNCHANGED <<proofState, proofQuote, st, world>>
    BY <1>1, <1>5, RefreshedStays DEF Fail
  <1> QED BY <1>4, <1>5 DEF Settle

LEMMA SerialUnreserve == ASSUME IInv, SInv, NEW h \in Procs, Unreserve(h) PROVE SInv'
  <1>1. Busy(h) /\ task[h].snap \in SUBSET Proofs
    BY DEF Unreserve, At, Busy, Steps, IInv, TypeOK, Task
  <1>2. PICK r \in Quotes : r = Quote(h)
    BY <1>1 DEF IInv, QuoteOfTask
  <1>3. Holds(task[h].snap, r) /\ payment[r] \in {"none", "failed"}
    BY <1>1, <1>2 DEF SInv, Believes, Unreserve, At
  <1>4. QuoteOK(r)' /\ \A q \in Quotes : q # r => Apart(q)
    BY <1>1, <1>2, <1>3, QuoteFreed DEF IInv, Unreserve
  <1> QED BY <1>1, <1>2, <1>4, RefreshedMoves DEF Unreserve

\* The INSERT of proofs that have no row.
LEMMA ReservingKeeps ==
    ASSUME TypeOK, NEW h \in Procs, NEW r \in Quotes, Quote(h) = r, ReserveProofs(h),
           st[r] = "UNPAID", QuoteOK(r), \A p \in task[h].ins : proofState[p] = "UNSPENT"
    PROVE  /\ \A q \in Quotes \cup {NoQuote} : q # r => ProofsKept(q)
           /\ \A p \in Proofs : p \in task[h].ins <=> Held(p, r)'
           /\ \A p \in task[h].ins : proofState'[p] = "PENDING"
  <1>1. task[h].ins \in SUBSET Proofs
    BY DEF TypeOK, Task
  <1>2. \A p \in Proofs : ~Held(p, r)
    BY DEF QuoteOK
  <1>3. \A p \in Proofs :
          /\ p \in task[h].ins => proofState'[p] = "PENDING" /\ proofQuote'[p] = r
          /\ p \notin task[h].ins => /\ proofState'[p] = proofState[p]
                                     /\ proofQuote'[p] = proofQuote[p]
    BY DEF ReserveProofs
  <1> QED BY <1>1, <1>2, <1>3 DEF ProofsKept, Held

LEMMA SerialReserve == ASSUME IInv, SInv, NEW h \in Procs, Reserve(h) PROVE SInv'
  <1>1. Busy(h) /\ task[h].ins \in SUBSET Proofs
    BY DEF Reserve, At, Busy, Steps, IInv, TypeOK, Task
  <1>2. PICK r \in Quotes : r = Quote(h)
    BY <1>1 DEF IInv, QuoteOfTask
  <1>3. /\ WorthOf(task[h].ins) >= Need[r] /\ h \in Melters /\ task[h].ins # {}
        /\ QuoteOK(r)
    BY <1>1, <1>2 DEF SInv, Believes, Reserve, At
  <1>4. CASE Stop(h) /\ UNCHANGED <<proofState, proofQuote, st, world>>
    BY <1>1, <1>4, RefreshedStays
  <1>5. CASE st[r] = "UNPAID" /\ Reservable(h) /\ ReserveProofs(h)
    <2>1. /\ \A q \in Quotes : q # r => ProofsKept(q)
          /\ \A p \in Proofs : p \in task[h].ins <=> Held(p, r)'
          /\ \A p \in task[h].ins : proofState'[p] = "PENDING"
      BY <1>2, <1>3, <1>5, ReservingKeeps DEF IInv, Reservable
    <2>2. payment[r] \in {"none", "failed"}
      BY <1>3, <1>5 DEF QuoteOK, Paid, IInv, TypeOK
    <2>3. ASSUME NEW where \in {"send", "finalize"}, Goto(h, where), st'[r] # "UNPAID",
                 where = "send" => st'[r] = "PENDING"
          PROVE  /\ Quote(h)' = r /\ Believes(h)'
                 /\ \A g \in Procs : g # h => task'[g] = task[g]
      <3>1. /\ task'[h].at = where /\ task'[h].quote = r /\ task'[h].ins = task[h].ins
            /\ \A g \in Procs : g # h => task'[g] = task[g]
        BY <1>2, <2>3, GotoKeeps DEF IInv, Quote
      <3>2. Holds(task[h].ins, r)'
        BY <2>1, <3>1 DEF Holds
      <3> QED BY <1>3, <2>3, <3>1, <3>2 DEF Believes, Quote, Sent
    <2>4. CASE SettleInternally(h)
      <3>1. /\ st'[r] = "PAID" /\ \A q \in Quotes : q # r => st'[q] = st[q]
        BY <1>2, <2>4, SetQuoteKeeps DEF SettleInternally, IInv
      <3>2. /\ stake'[r] = task[h].ins /\ payment'[r] = "internal"
            /\ \A q \in Quotes : q # r => payment'[q] = payment[q] /\ stake'[q] = stake[q]
        BY <1>2, <2>4 DEF SettleInternally, IInv, TypeOK
      <3>3. QuoteOK(r)'
        BY <1>1, <1>3, <2>1, <3>1, <3>2 DEF QuoteOK
      <3>4. \A q \in Quotes : q # r => Apart(q)
        BY <2>1, <3>1, <3>2 DEF Apart
      <3>5. /\ Quote(h)' = r /\ Believes(h)'
            /\ \A g \in Procs : g # h => task'[g] = task[g]
        BY <2>3, <2>4, <3>1 DEF SettleInternally
      <3> QED BY <1>1, <1>2, <3>3, <3>4, <3>5, SerialMoves
    <2>5. CASE SetQuote(h, "PENDING") /\ Goto(h, "send") /\ UNCHANGED world
      <3>1. /\ st'[r] = "PENDING" /\ \A q \in Quotes : q # r => st'[q] = st[q]
        BY <1>2, <2>5, SetQuoteKeeps DEF IInv
      <3>2. payment'[r] \in {"none", "failed"} /\ ~Paid(r)'
        BY <2>2, <2>5 DEF Paid, world
      <3>3. QuoteOK(r)'
        BY <2>1, <3>1, <3>2 DEF QuoteOK
      <3>4. \A q \in Quotes : q # r => Apart(q)
        BY <2>1, <2>5, <3>1 DEF Apart, world
      <3>5. /\ Quote(h)' = r /\ Believes(h)'
            /\ \A g \in Procs : g # h => task'[g] = task[g]
        BY <2>3, <2>5, <3>1
      <3> QED BY <1>1, <1>2, <3>3, <3>4, <3>5, SerialMoves
    <2> QED BY <1>5, <2>4, <2>5 DEF ReserveProofs
  <1> QED BY <1>2, <1>4, <1>5 DEF Reserve

LEMMA SerialSend == ASSUME IInv, SInv, NEW h \in Procs, Send(h) PROVE SInv'
  <1>1. Busy(h) /\ UNCHANGED <<proofState, proofQuote, st>> /\ Goto(h, "paying")
    BY DEF Send, At, Busy, Steps, tables
  <1>2. PICK r \in Quotes : r = Quote(h)
    BY <1>1 DEF IInv, QuoteOfTask
  <1>3. /\ st[r] = "PENDING" /\ Holds(task[h].ins, r) /\ WorthOf(task[h].ins) >= Need[r]
        /\ h \in Melters /\ task[h].ins # {} /\ QuoteOK(r)
    BY <1>1, <1>2 DEF SInv, Believes, Send, At, Sent
  <1>4. CASE UNCHANGED world
    <2>1. MayGo(h, "paying")
      BY <1>2, <1>3 DEF MayGo, Sent
    <2> QED BY <1>1, <1>4, <2>1, SerialGoes
  <1>5. CASE /\ payment' = [payment EXCEPT ![Quote(h)] = "inflight"]
             /\ stake' = [stake EXCEPT ![Quote(h)] = task[h].ins]
    <2>1. /\ stake'[r] = task[h].ins /\ payment'[r] = "inflight"
          /\ \A q \in Quotes : q # r => payment'[q] = payment[q] /\ stake'[q] = stake[q]
      BY <1>2, <1>5 DEF IInv, TypeOK
    <2>2. \A p \in Proofs, q \in Quotes : Held(p, q)' <=> Held(p, q)
      BY <1>1 DEF Held
    <2>3. task[h].ins \in SUBSET Proofs
      BY DEF IInv, TypeOK, Task
    <2>4. QuoteOK(r)'
      BY <1>1, <1>3, <2>1, <2>2, <2>3 DEF QuoteOK, Holds
    <2>5. \A q \in Quotes : q # r => Apart(q)
      BY <1>1, <2>1, <2>2 DEF Apart, ProofsKept
    <2>6. /\ task'[h].at = "paying" /\ task'[h].quote = r /\ task'[h].ins = task[h].ins
          /\ \A g \in Procs : g # h => task'[g] = task[g]
      BY <1>1, <1>2, GotoKeeps DEF IInv, Quote
    <2>7. Quote(h)' = r /\ Believes(h)'
      BY <1>1, <1>3, <2>6 DEF Believes, Quote, Sent, Holds, Held
    <2> QED BY <1>1, <1>2, <2>4, <2>5, <2>6, <2>7, SerialMoves
  <1> QED BY <1>4, <1>5 DEF Send

LEMMA SerialPay ==
    ASSUME IInv, SInv, NEW h \in Procs, PayReturns(h) \/ SaveCheckingId(h) \/ Recheck(h)
    PROVE  SInv'
  <1>1. Busy(h) /\ UNCHANGED <<proofState, proofQuote, st, world>>
    BY DEF PayReturns, SaveCheckingId, Recheck, At, Busy, Steps, tables
  <1>2. Quote(h) \in Quotes
    BY <1>1 DEF IInv, QuoteOfTask
  <1>3. /\ st[Quote(h)] = "PENDING" /\ Holds(task[h].ins, Quote(h))
        /\ h \in Melters /\ task[h].ins # {} /\ QuoteOK(Quote(h))
    BY <1>1, <1>2 DEF SInv, Believes, PayReturns, SaveCheckingId, Recheck, At, Sent
  <1>4. CASE Stop(h)
    BY <1>1, <1>4, RefreshedStays
  <1>5. ASSUME NEW where \in {"finalize", "saveId", "recheck", "mark"}, Goto(h, where)
        PROVE  SInv'
    <2>1. MayGo(h, where)
      BY <1>3, <1>5 DEF MayGo, Sent
    <2> QED BY <1>1, <1>5, <2>1, SerialGoes
  <1>6. CASE CheckPayed(Quote(h)) \cap {"FAILED", "UNKNOWN"} # {} /\ Goto(h, "release")
    <2>1. payment[Quote(h)] \in {"none", "failed"}
      BY <1>2, <1>3, <1>6, FailedIsFree DEF IInv
    <2>2. MayGo(h, "release")
      BY <1>3, <2>1 DEF MayGo, Sent
    <2> QED BY <1>1, <1>6, <2>2, SerialGoes
  <1> QED BY <1>4, <1>5, <1>6 DEF PayReturns, SaveCheckingId, Recheck

LEMMA SerialEnd ==
    ASSUME IInv, SInv, NEW h \in Procs, Mark(h) \/ Release(h) \/ Finalize(h) PROVE SInv'
  <1>1. /\ Busy(h) /\ task[h].ins \in SUBSET Proofs
        /\ Stop(h) /\ UNCHANGED <<proofQuote, world>>
    BY DEF Mark, Release, Finalize, At, Busy, Steps, IInv, TypeOK, Task
  <1>2. PICK r \in Quotes : r = Quote(h)
    BY <1>1 DEF IInv, QuoteOfTask
  <1>3. Holds(task[h].ins, r) /\ QuoteOK(r)
    BY <1>1, <1>2 DEF SInv, Believes, Mark, Release, Finalize, At, Sent
  <1>4. CASE Mark(h)
    <2>1. st[r] = "PENDING"
      BY <1>1, <1>2, <1>4 DEF SInv, Believes, Mark, At, Sent
    <2>2. UNCHANGED <<proofState, proofQuote, st, world>>
      BY <1>2, <1>4, <2>1 DEF Mark, SetQuote, IInv, TypeOK
    <2> QED BY <1>1, <2>2, RefreshedStays
  <1>5. CASE Release(h)
    <2>1. payment[r] \in {"none", "failed"}
      BY <1>1, <1>2, <1>5 DEF SInv, Believes, Release, At
    <2>2. QuoteOK(r)' /\ \A q \in Quotes : q # r => Apart(q)
      BY <1>1, <1>2, <1>3, <1>5, <2>1, QuoteFreed DEF IInv, Release
    <2> QED BY <1>1, <1>2, <2>2, SerialEnds
  <1>6. CASE Finalize(h) /\ SetQuote(h, "PAID") /\ SetSpent(task[h].ins)
    <2>0. Paid(r)
      BY <1>2, <1>6 DEF Finalize, At, IInv, Remembered
    <2>1. QuoteOK(r)' /\ \A q \in Quotes : q # r => Apart(q)
      BY <1>1, <1>2, <1>3, <1>6, <2>0, QuoteSettled DEF IInv
    <2> QED BY <1>1, <1>2, <2>1, SerialEnds
  <1>7. CASE UNCHANGED <<proofState, st>>
    BY <1>1, <1>7, RefreshedStays
  <1> QED BY <1>4, <1>5, <1>6, <1>7 DEF Finalize

LEMMA SerialTake ==
    ASSUME Serial, IInv, SInv, NEW h \in Procs, NEW q \in Quotes,
           NEW I \in SUBSET Proofs, NEW O \in SUBSET Outputs, Take(h, q, I, O),
           h \in Melters => I # {}, UNCHANGED <<tables, leaked, world, host>>
    PROVE  SInv'
  <1>1. /\ task'[h].at = "refresh" /\ task'[h].quote = q /\ task'[h].ins = I
        /\ \A g \in Procs : g # h => task'[g] = task[g]
    BY DEF Take, IInv, TypeOK
  <1>2. \A g \in Procs : Busy(g) => Quote(g) # q
    BY DEF Take, Alone
  <1>3. OneAtATime'
    BY <1>1, <1>2 DEF SInv, OneAtATime, Busy, Quote
  <1>4. \A r \in Quotes : Apart(r)
    BY UntouchedApart DEF tables
  <1>5. \A r \in Quotes : QuoteOK(r)'
    BY <1>4, QuoteApart DEF SInv, IInv
  <1>6. Believes(h)'
    BY <1>1 DEF Believes, Sent
  <1>7. ASSUME NEW g \in Procs, g # h, Busy(g)' PROVE Believes(g)'
    <2>1. Busy(g) /\ Quote(g) \in Quotes
      BY <1>1, <1>7 DEF Busy, IInv, QuoteOfTask
    <2> QED BY <1>1, <1>4, <1>7, <2>1, BeliefApart DEF SInv, IInv
  <1> QED BY <1>3, <1>5, <1>6, <1>7 DEF SInv

\* A payment ends: nobody gave its proofs back while it was under way.
LEMMA SerialPayment ==
    ASSUME IInv, SInv, NEW q \in Quotes, PaymentEnds(q) PROVE SInv'
  <1>1. /\ UNCHANGED <<proofState, proofQuote, st, stake, task>>
        /\ payment[q] = "inflight" /\ payment'[q] \in {"settled", "failed"}
        /\ \A r \in Quotes : r # q => payment'[r] = payment[r]
    BY DEF PaymentEnds, tables, IInv, TypeOK
  <1>2. \A p \in Proofs, r \in Quotes : Held(p, r)' <=> Held(p, r)
    BY <1>1 DEF Held
  <1>3. \A r \in Quotes : r # q => Apart(r)
    BY <1>1, <1>2 DEF Apart, ProofsKept
  <1>4. QuoteOK(q)'
    <2>1. QuoteOK(q) /\ stake[q] \subseteq Proofs
      BY DEF SInv, IInv, TypeOK
    <2>2. \A p \in Proofs : Held(p, q) => proofState[p] # "SPENT"
      BY <1>1, <2>1 DEF QuoteOK, Paid
    <2>3. \A p \in Proofs : p \in stake[q] <=> Held(p, q)
      BY <1>1, <2>1 DEF QuoteOK
    <2> QED BY <1>1, <1>2, <2>1, <2>2, <2>3 DEF QuoteOK
  <1>5. \A r \in Quotes : QuoteOK(r)'
    BY <1>3, <1>4, QuoteApart DEF SInv, IInv
  <1>6. ASSUME NEW h \in Procs, Busy(h)' PROVE Believes(h)'
    <2>1. Busy(h) /\ Quote(h) \in Quotes /\ Believes(h) /\ task'[h] = task[h]
      BY <1>1, <1>6 DEF Busy, IInv, QuoteOfTask, SInv
    <2>2. CASE Quote(h) # q
      BY <1>3, <2>1, <2>2, BeliefApart DEF IInv
    <2>3. CASE Quote(h) = q
      BY <1>1, <2>1, <2>3 DEF Believes, Quote, Holds, Held
    <2> QED BY <2>2, <2>3
  <1>7. OneAtATime'
    BY <1>1 DEF SInv, OneAtATime, Busy, Quote
  <1> QED BY <1>5, <1>6, <1>7 DEF SInv

\* The rest of the world touches no quote; a crash ends every goroutine.
LEMMA SerialWorld ==
    ASSUME IInv, SInv,
           \/ StartUp \/ Crash \/ UNCHANGED vars
           \/ \E q \in Quotes : Watch(q) \/ PaidFromOutside(q)
    PROVE  SInv'
  <1>1. UNCHANGED <<proofState, proofQuote, st, world>>
    BY DEF StartUp, Crash, Watch, PaidFromOutside, vars, tables
  <1>2. \A r \in Quotes : Apart(r)
    BY <1>1, UntouchedApart
  <1>3. \A r \in Quotes : QuoteOK(r)'
    BY <1>2, QuoteApart DEF SInv, IInv
  <1>4. CASE task' = task
    <2>1. OneAtATime'
      BY <1>4 DEF SInv, OneAtATime, Busy, Quote
    <2>2. ASSUME NEW h \in Procs, Busy(h)' PROVE Believes(h)'
      <3>1. Busy(h) /\ Quote(h) \in Quotes /\ Believes(h) /\ task'[h] = task[h]
        BY <1>4, <2>2 DEF Busy, IInv, QuoteOfTask, SInv
      <3> QED BY <1>2, <3>1, BeliefApart DEF IInv
    <2> QED BY <1>3, <2>1, <2>2 DEF SInv
  <1>5. CASE Crash
    <2>1. \A h \in Procs : ~Busy(h)'
      BY <1>5 DEF Crash, Busy, Gone, NoTask, Steps
    <2> QED BY <1>3, <2>1 DEF SInv, OneAtATime
  <1> QED BY <1>4, <1>5 DEF StartUp, Watch, PaidFromOutside, vars

\* A melt request brings proofs.
LEMMA StartsWith ==
    ASSUME NEW h \in Procs, NEW q \in Quotes,
           \/ \E I \in SUBSET Proofs : \E O \in SUBSET Blanks[h] : I # {} /\ StartMelt(h, q, I, O)
           \/ StartPoll(h, q)
           \/ h = Boot /\ BootTakes(q)
    PROVE  /\ \E I \in SUBSET Proofs, O \in SUBSET Outputs :
                 Take(h, q, I, O) /\ (h \in Melters => I # {})
           /\ UNCHANGED <<tables, leaked, world, host>>
  <1>1. ASSUME NEW I \in SUBSET Proofs, NEW O \in SUBSET Blanks[h], I # {},
               StartMelt(h, q, I, O)
        PROVE  O \in SUBSET Outputs
    BY <1>1, MeltAssumption DEF StartMelt
  <1> QED BY <1>1, MeltAssumption DEF StartMelt, StartPoll, BootTakes

LEMMA SerialNext == ASSUME Serial PROVE IInv /\ SInv /\ [Next]_vars => SInv'
  <1> SUFFICES ASSUME IInv, SInv, [Next]_vars PROVE SInv'
    OBVIOUS
  <1>1. ASSUME NEW h \in Procs, NEW q \in Quotes,
               NEW I \in SUBSET Proofs, NEW O \in SUBSET Outputs, Take(h, q, I, O),
               h \in Melters => I # {}, UNCHANGED <<tables, leaked, world, host>>
        PROVE  SInv'
    BY <1>1, SerialTake
  <1>2. ASSUME NEW h \in Procs, Step(h) PROVE SInv'
    BY <1>2, SerialReadQuote, SerialCheck, SerialSettle, SerialUnreserve, SerialReserve,
       SerialSend, SerialPay, SerialEnd DEF Step
  <1>3. ASSUME NEW h \in Procs, DatabaseFails(h) PROVE SInv'
    BY <1>3, RefreshedStays DEF DatabaseFails, Fail, tables
  <1>4. ASSUME NEW q \in Quotes, PaymentEnds(q) PROVE SInv'
    BY <1>4, SerialPayment
  <1> QED BY <1>1, <1>2, <1>3, <1>4, StartsWith, SerialWorld DEF Next, Acts, Procs

LEMMA SerialInvariant == ASSUME Serial PROVE Spec => []SInv
  BY Invariant, SerialInit, SerialNext, PTL DEF Spec

\* A payment that went out is covered by proofs of its quote that are out of
\* circulation and worth enough, while operations on one quote do not overlap.
THEOREM MeltCovered == ASSUME Serial PROVE Spec => []Covered
  <1>1. IInv /\ SInv => Covered
    BY DEF IInv, TypeOK, SInv, QuoteOK, Held, Covered
  <1> QED BY <1>1, Invariant, SerialInvariant, PTL

\* A quote that is UNPAID has no proofs, while operations on it do not overlap.
THEOREM MeltUnpaidHoldsNothing == ASSUME Serial PROVE Spec => []UnpaidHoldsNothing
  <1>1. SInv => UnpaidHoldsNothing
    BY DEF SInv, QuoteOK, Held, UnpaidHoldsNothing, ProofsOf
  <1> QED BY <1>1, SerialInvariant, PTL

-----------------------------------------------------------------------------
(* Melt implements the ledger: a reservation is a Hold, what frees the     *)
(* proofs of a failed payment gives back, what settles the quote spends,   *)
(* every other step is invisible.                                          *)

LEMMA IsGiveBack ==
    ASSUME NEW S \in SUBSET Proofs, NEW q, Holds(S, q), Delete(S), UNCHANGED sigs
    PROVE  L!LedgerNext
  <1>1. L!GiveBack(S)
    BY DEF L!GiveBack, L!AllIn, L!Move, Holds, Delete
  <1> QED BY <1>1 DEF L!LedgerNext

LEMMA IsSpend ==
    ASSUME TypeOK, NEW h \in Procs, NEW S \in SUBSET Proofs, S # {}, NEW q, Holds(S, q),
           SetSpent(S), NEW O \in SUBSET Outputs, SignChange(h, O)
    PROVE  L!LedgerNext
  <1>1. L!Move(S, "SPENT")
    BY DEF L!Move, Holds, SetSpent
  <1>2. L!Spend(S, O)
    BY <1>1 DEF L!Spend, L!AllIn, Holds, SignChange
  <1> QED BY <1>2 DEF L!LedgerNext

LEMMA StepOfLedger == IInv /\ SInv /\ [Next]_vars => [L!LedgerNext]_(L!ledgerVars)
  <1> SUFFICES ASSUME IInv, SInv, [Next]_vars PROVE [L!LedgerNext]_(L!ledgerVars)
    OBVIOUS
  <1> USE DEF tables
  <1>0. ASSUME UNCHANGED <<proofState, sigs>> PROVE UNCHANGED L!ledgerVars
    BY <1>0 DEF L!ledgerVars
  <1>1. ASSUME NEW h \in Procs, Busy(h)
        PROVE  /\ Quote(h) \in Quotes /\ Believes(h)
               /\ task[h].ins \in SUBSET Proofs /\ task[h].snap \in SUBSET Proofs
               /\ task[h].outs \in SUBSET Outputs /\ change[Quote(h)] \in SUBSET Outputs
    BY <1>1 DEF IInv, QuoteOfTask, SInv, TypeOK, Task
  <1>2. ASSUME NEW h \in Procs, Settle(h) PROVE [L!LedgerNext]_(L!ledgerVars)
    <2>1. Busy(h) /\ At(h, "settle")
      BY <1>2 DEF Settle, At, Busy, Steps
    <2>2. Holds(task[h].snap, Quote(h))
      BY <1>1, <2>1 DEF Believes, At
    <2>3. CASE /\ task[h].snap # {} /\ SetSpent(task[h].snap)
               /\ \E S \in SUBSET change[Quote(h)] : SignChange(h, S)
      <3>1. PICK S \in SUBSET change[Quote(h)] : SignChange(h, S)
        BY <2>3
      <3>2. S \in SUBSET Outputs
        BY <1>1, <2>1, <3>1
      <3> QED BY <1>1, <2>1, <2>2, <2>3, <3>1, <3>2, IsSpend DEF IInv
    <2> QED BY <1>0, <1>2, <2>3 DEF Settle
  <1>3. ASSUME NEW h \in Procs, Finalize(h) PROVE [L!LedgerNext]_(L!ledgerVars)
    <2>1. Busy(h) /\ At(h, "finalize")
      BY <1>3 DEF Finalize, At, Busy, Steps
    <2>2. Holds(task[h].ins, Quote(h)) /\ task[h].ins # {}
      BY <1>1, <2>1 DEF Believes, At
    <2>3. CASE /\ SetSpent(task[h].ins) /\ \E S \in SUBSET task[h].outs : SignChange(h, S)
      <3>1. PICK S \in SUBSET task[h].outs : SignChange(h, S)
        BY <2>3
      <3>2. S \in SUBSET Outputs
        BY <1>1, <2>1, <3>1
      <3> QED BY <1>1, <2>1, <2>2, <2>3, <3>1, <3>2, IsSpend DEF IInv
    <2> QED BY <1>0, <1>3, <2>3 DEF Finalize
  <1>4. ASSUME NEW h \in Procs, Unreserve(h) PROVE L!LedgerNext
    <2>1. Busy(h) /\ Holds(task[h].snap, Quote(h))
      BY <1>1, <1>4 DEF Unreserve, At, Busy, Steps, Believes
    <2> QED BY <1>1, <1>4, <2>1, IsGiveBack DEF Unreserve
  <1>5. ASSUME NEW h \in Procs, Release(h) PROVE L!LedgerNext
    <2>1. Busy(h) /\ Holds(task[h].ins, Quote(h))
      BY <1>1, <1>5 DEF Release, At, Busy, Steps, Believes, Sent
    <2> QED BY <1>1, <1>5, <2>1, IsGiveBack DEF Release
  <1>6. ASSUME NEW h \in Procs, Reserve(h) PROVE [L!LedgerNext]_(L!ledgerVars)
    <2>1. CASE Reservable(h) /\ ReserveProofs(h)
      <3>1. L!Hold(task[h].ins) /\ Busy(h)
        BY <1>6, <2>1 DEF L!Hold, L!AllIn, L!Move, Reservable, ReserveProofs, Reserve, At, Busy, Steps
      <3> QED BY <1>1, <3>1 DEF L!LedgerNext
    <2> QED BY <1>0, <1>6, <2>1 DEF Reserve
  <1>7. ASSUME NEW h \in Procs, Step(h) PROVE [L!LedgerNext]_(L!ledgerVars)
    <2>1. CASE \/ ReadQuote(h) \/ Check(h) \/ Send(h) \/ PayReturns(h)
               \/ SaveCheckingId(h) \/ Recheck(h) \/ Mark(h)
      BY <1>0, <2>1 DEF ReadQuote, Check, Send, PayReturns, SaveCheckingId, Recheck, Mark
    <2> QED BY <1>2, <1>3, <1>4, <1>5, <1>6, <1>7, <2>1 DEF Step
  <1>8. ASSUME NEW h \in Procs, DatabaseFails(h) PROVE UNCHANGED L!ledgerVars
    BY <1>0, <1>8 DEF DatabaseFails
  <1>9. ASSUME NEW q \in Quotes, Watch(q) \/ PaymentEnds(q) \/ PaidFromOutside(q)
        PROVE  UNCHANGED L!ledgerVars
    BY <1>0, <1>9 DEF Watch, PaymentEnds, PaidFromOutside
  <1>10. CASE StartUp \/ Crash \/ UNCHANGED vars
    BY <1>0, <1>10 DEF StartUp, Crash, vars
  <1>11. ASSUME UNCHANGED tables PROVE UNCHANGED L!ledgerVars
    BY <1>0, <1>11
  <1> QED BY <1>7, <1>8, <1>9, <1>10, <1>11, StartsWith DEF Next, Acts, Procs

\* Every behaviour of Melt whose operations on one quote do not overlap is one
\* the ledger allows.
THEOREM MeltImplementsLedger == ASSUME Serial PROVE Spec => Ledger
  <1>1. Init => L!LedgerInit
    BY DEF Init, L!LedgerInit
  <1> QED
    BY <1>1, StepOfLedger, Invariant, SerialInvariant, PTL DEF Spec, Ledger, L!LedgerSpec
=============================================================================
