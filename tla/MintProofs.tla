----------------------------- MODULE MintProofs -----------------------------
(***************************************************************************)
(* What MintQuote guarantees for any number of goroutines, quotes and      *)
(* messages, whether or not operations on one quote overlap, and for every *)
(* combination of faults.                                                  *)
(***************************************************************************)
EXTENDS MintQuote, SumProofs, TLAPS

\* The mint calls a quote PAID, or ISSUED, only if its invoice was paid.
CalledPaid == \A q \in Quotes : state[q] \in {"PAID", "ISSUED"} => Paid(q)

\* A goroutine that is about to sign, or would be if nothing else failed,
\* remembers a payment that was made: it read the quote as PAID, or the node
\* told it so.
Remembered == \A h \in Procs :
    /\ At(h, "outputs") /\ task[h].read = "PAID" => Paid(Quote(h))
    /\ At(h, "write") /\ task[h].status = "SETTLED" => Paid(Quote(h))
    /\ At(h, "sign") => Paid(Quote(h))

QuoteOfTask == \A h \in Procs : Busy(h) => Quote(h) \in Quotes

\* A quote that was not created has no invoice to pay, so creating it takes no
\* payment away.
NotYetAsked == \A q \in Quotes : state[q] = "none" => invoice[q] = "none" /\ q \notin internal

IInv == /\ TypeOK
        /\ QuoteOfTask
        /\ NotYetAsked
        /\ CalledPaid
        /\ Remembered
        /\ IssuedOnlyIfPaid

-----------------------------------------------------------------------------
LEMMA TypeInit == Init => TypeOK
  BY DEF Init, TypeOK, NoTask, Task, States

\* Tasks are records of the right shape, whatever is written into them.
LEMMA TaskTyped ==
    ASSUME TypeOK, NEW h \in Procs
    PROVE  /\ NoTask("load") \in Task /\ Gone(h) \in Task
           /\ \A where \in Steps \cup {"idle", "ended"} :
                 [task EXCEPT ![h].at = where] \in [Procs -> Task]
  BY DEF TypeOK, Task, NoTask, Gone, Steps, States

LEMMA StopTyped ==
    ASSUME TypeOK, NEW h \in Procs, Stop(h) PROVE task' \in [Procs -> Task]
  BY TaskTyped DEF Stop, TypeOK

LEMMA GotoTyped ==
    ASSUME TypeOK, NEW h \in Procs, NEW where \in Steps, Goto(h, where)
    PROVE  task' \in [Procs -> Task]
  BY TaskTyped DEF Goto

LEMMA TypeTake ==
    ASSUME TypeOK, NEW h \in Procs, NEW q \in Quotes, NEW O \in SUBSET Outputs, Take(h, q, O)
    PROVE  TypeOK'
  <1>1. [NoTask("load") EXCEPT !.quote = q, !.outs = O] \in Task
    BY DEF NoTask, Task, Steps, States
  <1> QED BY <1>1 DEF Take, TypeOK, tables, paid

LEMMA TypeStep == ASSUME TypeOK, QuoteOfTask, NEW h \in Procs, Step(h) PROVE TypeOK'
  <1> USE DEF TypeOK, tables, paid
  <1>1. CASE Load(h)
    <2>1. CASE Stop(h)
      BY <1>1, <2>1, StopTyped DEF Load
    <2>2. CASE task' = [task EXCEPT ![h].at = Goes(h, state[Quote(h)]),
                                    ![h].read = state[Quote(h)]]
      <3>1. Goes(h, state[Quote(h)]) \in Steps \cup {"ended"}
        BY DEF Goes, Steps
      <3>2. state[Quote(h)] \in States
        BY <1>1 DEF Load, At, QuoteOfTask, Busy, Steps
      <3>3. task[h] \in Task
        OBVIOUS
      <3>4. [task[h] EXCEPT !.at = Goes(h, state[Quote(h)]), !.read = state[Quote(h)]] \in Task
        BY <3>1, <3>2, <3>3 DEF Task
      <3>5. task' = [task EXCEPT ![h] =
               [task[h] EXCEPT !.at = Goes(h, state[Quote(h)]), !.read = state[Quote(h)]]]
        BY <2>2
      <3>6. task' \in [Procs -> Task]
        BY <3>4, <3>5
      <3> QED BY <1>1, <3>6 DEF Load
    <2> QED BY <1>1, <2>1, <2>2 DEF Load
  <1>2. CASE CheckOutputs(h)
    <2>1. task' \in [Procs -> Task]
      <3>1. "sign" \in Steps /\ "ask" \in Steps
        BY DEF Steps
      <3> QED BY <1>2, <3>1, StopTyped, GotoTyped DEF CheckOutputs
    <2> QED BY <1>2, <2>1 DEF CheckOutputs
  <1>3. CASE Ask(h)
    <2>1. CASE Stop(h)
      BY <1>3, <2>1, StopTyped DEF Ask
    <2>2. CASE task' = [task EXCEPT ![h].at = "write", ![h].status = CheckReceived(Quote(h))]
      <3>1. CheckReceived(Quote(h)) \in {"SETTLED", "PENDING", "FAILED"}
        BY DEF CheckReceived
      <3>2. task[h] \in Task
        OBVIOUS
      <3>3. [task[h] EXCEPT !.at = "write", !.status = CheckReceived(Quote(h))] \in Task
        BY <3>1, <3>2 DEF Task, Steps
      <3>4. task' = [task EXCEPT ![h] =
               [task[h] EXCEPT !.at = "write", !.status = CheckReceived(Quote(h))]]
        BY <2>2
      <3>5. task' \in [Procs -> Task]
        BY <3>3, <3>4
      <3> QED BY <1>3, <3>5 DEF Ask
    <2> QED BY <1>3, <2>1, <2>2 DEF Ask
  <1>4. CASE Write(h)
    <2>1. Quote(h) \in Quotes
      BY <1>4 DEF Write, At, QuoteOfTask, Busy, Steps
    <2>2. Reconciled(task[h].status, state[Quote(h)]) \in States
      BY <2>1 DEF Reconciled, States
    <2>3. state' \in [Quotes -> States]
      BY <1>4, <2>2 DEF Write
    <2>4. task' \in [Procs -> Task]
      <3>1. "sign" \in Steps
        BY DEF Steps
      <3> QED BY <1>4, <3>1, StopTyped, GotoTyped DEF Write
    <2> QED BY <1>4, <2>3, <2>4 DEF Write
  <1>5. CASE Sign(h)
    <2>1. task' \in [Procs -> Task]
      BY <1>5, StopTyped DEF Sign
    <2>2. task[h].outs \in SUBSET Outputs
      BY DEF Task
    <2>3. CASE MarkIssued(h)
      BY <1>5, <2>1, <2>2, <2>3 DEF Sign, MarkIssued, States
    <2>4. CASE UNCHANGED tables
      BY <1>5, <2>1, <2>4 DEF Sign
    <2> QED BY <1>5, <2>3, <2>4 DEF Sign
  <1> QED BY <1>1, <1>2, <1>3, <1>4, <1>5 DEF Step

LEMMA TypeNext == TypeOK /\ QuoteOfTask /\ [Next]_vars => TypeOK'
  <1> SUFFICES ASSUME TypeOK, QuoteOfTask, [Next]_vars PROVE TypeOK'
    OBVIOUS
  <1> USE DEF TypeOK, tables, paid
  <1>1. ASSUME NEW h \in Procs, NEW q \in Quotes, NEW O \in SUBSET Outputs, Take(h, q, O)
        PROVE  TypeOK'
    BY <1>1, TypeTake
  <1>2. ASSUME NEW h \in Procs, Step(h) PROVE TypeOK'
    BY <1>2, TypeStep
  <1>3. ASSUME NEW h \in Procs, DatabaseFails(h) PROVE TypeOK'
    BY <1>3, StopTyped DEF DatabaseFails
  <1>4. ASSUME NEW q \in Quotes,
               CreateMintQuote(q) \/ Pay(q) \/ Expire(q) \/ SettleInternally(q)
        PROVE  TypeOK'
    BY <1>4 DEF CreateMintQuote, Pay, Expire, SettleInternally, States
  <1>5. CASE Crash
    <2>1. task' \in [Procs -> Task]
      BY <1>5, TaskTyped DEF Crash
    <2> QED BY <1>5, <2>1 DEF Crash
  <1>6. CASE UNCHANGED vars
    BY <1>6 DEF vars
  <1> QED
    BY <1>1, <1>2, <1>3, <1>4, <1>5, <1>6, {} \in SUBSET Outputs DEF Next, Procs
-----------------------------------------------------------------------------
(* The inductive invariant.                                                *)

LEMMA InvInit == Init => IInv
  BY TypeInit DEF Init, IInv, QuoteOfTask, NotYetAsked, CalledPaid, Remembered,
                  IssuedOnlyIfPaid, Busy, At, NoTask, Steps

\* What one goroutine has to show of the step it took.
TaskGood(h) == /\ Busy(h) => Quote(h) \in Quotes
               /\ At(h, "outputs") /\ task[h].read = "PAID" => Paid(Quote(h))
               /\ At(h, "write") /\ task[h].status = "SETTLED" => Paid(Quote(h))
               /\ At(h, "sign") => Paid(Quote(h))

LEMMA AllGood == QuoteOfTask /\ Remembered <=> \A h \in Procs : TaskGood(h)
  BY DEF QuoteOfTask, Remembered, TaskGood

\* A payment is never taken back, and who does not move keeps what it knew.
LEMMA OthersGood ==
    ASSUME QuoteOfTask, Remembered, NEW h \in Procs,
           \A q \in Quotes : Paid(q) => Paid(q)',
           \A g \in Procs : g # h => task'[g] = task[g],
           TaskGood(h)'
    PROVE  QuoteOfTask' /\ Remembered'
  <1>1. \A g \in Procs : TaskGood(g)'
    <2> SUFFICES ASSUME NEW g \in Procs, g # h PROVE TaskGood(g)'
      OBVIOUS
    <2>1. task'[g] = task[g] /\ TaskGood(g)
      BY AllGood
    <2> QED BY <2>1 DEF TaskGood, Busy, At, Quote, Steps
  <1> QED BY <1>1 DEF QuoteOfTask, Remembered, TaskGood

\* A goroutine that ends owes nothing.
LEMMA GoneIsGood == ASSUME TypeOK, NEW h \in Procs, task'[h] = Gone(h) PROVE TaskGood(h)'
  BY DEF TaskGood, Busy, At, Gone, NoTask, Steps

\* A step that changes neither the tables nor the invoices.
LEMMA InvReads ==
    ASSUME IInv, TypeOK', NEW h \in Procs, UNCHANGED <<tables, paid>>,
           \A g \in Procs : g # h => task'[g] = task[g],
           TaskGood(h)'
    PROVE  IInv'
  <1>1. state' = state /\ issued' = issued /\ invoice' = invoice /\ internal' = internal
    BY DEF tables, paid
  <1>2. \A q \in Quotes : Paid(q)' <=> Paid(q)
    BY <1>1 DEF Paid
  <1>3. QuoteOfTask' /\ Remembered'
    BY <1>2, OthersGood DEF IInv
  <1>4. NotYetAsked' /\ CalledPaid' /\ IssuedOnlyIfPaid'
    BY <1>1, <1>2 DEF IInv, NotYetAsked, CalledPaid, IssuedOnlyIfPaid
  <1> QED BY <1>3, <1>4 DEF IInv

\* A step that leaves the invoices alone and writes one quote, which was paid
\* if the step says so.
LEMMA InvWrites ==
    ASSUME IInv, TypeOK', NEW h \in Procs, NEW q \in Quotes, UNCHANGED paid,
           \A r \in Quotes : r # q => state'[r] = state[r] /\ issued'[r] = issued[r],
           state'[q] = "none" => state[q] = "none",
           state'[q] \in {"PAID", "ISSUED"} => Paid(q),
           issued'[q] # {} => Paid(q),
           \A g \in Procs : g # h => task'[g] = task[g],
           TaskGood(h)'
    PROVE  IInv'
  <1>1. invoice' = invoice /\ internal' = internal
    BY DEF paid
  <1>2. \A r \in Quotes : Paid(r)' <=> Paid(r)
    BY <1>1 DEF Paid
  <1>3. QuoteOfTask' /\ Remembered'
    BY <1>2, OthersGood DEF IInv
  <1>4. NotYetAsked'
    BY <1>1 DEF IInv, NotYetAsked
  <1>5. CalledPaid'
    BY <1>2 DEF IInv, CalledPaid
  <1>6. IssuedOnlyIfPaid'
    BY <1>2 DEF IInv, IssuedOnlyIfPaid
  <1> QED BY <1>3, <1>4, <1>5, <1>6 DEF IInv

\* A step of the world: the goroutines do not move.
LEMMA InvWorld ==
    ASSUME IInv, TypeOK', task' = task, issued' = issued,
           \A q \in Quotes : Paid(q) => Paid(q)',
           NotYetAsked',
           \A q \in Quotes : state'[q] \in {"PAID", "ISSUED"} =>
              Paid(q)' \/ state[q] \in {"PAID", "ISSUED"}
    PROVE  IInv'
  <1>1. \A h \in Procs : TaskGood(h)'
    <2> SUFFICES ASSUME NEW h \in Procs PROVE TaskGood(h)'
      OBVIOUS
    <2>1. TaskGood(h)
      BY AllGood DEF IInv
    <2> QED BY <2>1 DEF TaskGood, Busy, At, Quote, Steps
  <1>2. QuoteOfTask' /\ Remembered'
    BY <1>1 DEF QuoteOfTask, Remembered, TaskGood
  <1>3. CalledPaid' /\ IssuedOnlyIfPaid'
    BY DEF IInv, CalledPaid, IssuedOnlyIfPaid
  <1> QED BY <1>2, <1>3 DEF IInv

-----------------------------------------------------------------------------
LEMMA InvLoad == ASSUME IInv, TypeOK', NEW h \in Procs, Load(h) PROVE IInv'
  <1>1. Quote(h) \in Quotes
    BY DEF IInv, QuoteOfTask, Busy, Load, At, Steps
  <1>2. UNCHANGED <<tables, paid>> /\ \A g \in Procs : g # h => task'[g] = task[g]
    BY DEF IInv, TypeOK, Load, Stop
  <1>3. TaskGood(h)'
    <2>1. CASE Stop(h)
      BY <2>1, GoneIsGood DEF IInv, TypeOK, Stop
    <2>2. CASE task' = [task EXCEPT ![h].at = Goes(h, state[Quote(h)]),
                                    ![h].read = state[Quote(h)]]
      <3>1. /\ task'[h].at = Goes(h, state[Quote(h)]) /\ task'[h].quote = task[h].quote
            /\ task'[h].read = state[Quote(h)]
        BY <2>2 DEF IInv, TypeOK, Task
      <3>2. Goes(h, state[Quote(h)]) \in {"outputs", "ask", "ended"}
        BY DEF Goes
      <3>3. state[Quote(h)] = "PAID" => Paid(Quote(h))
        BY <1>1 DEF IInv, CalledPaid
      <3>4. Paid(Quote(h)) => Paid(Quote(h))'
        BY <1>2, <3>1 DEF Paid, Quote, paid
      <3> QED BY <1>1, <3>1, <3>2, <3>3, <3>4 DEF TaskGood, Busy, At, Quote
    <2> QED BY <2>1, <2>2 DEF Load
  <1> QED BY <1>2, <1>3, InvReads

\* A goroutine goes on, with the quote it has.
LEMMA GoesOn ==
    ASSUME IInv, TypeOK', NEW h \in Procs, Busy(h), NEW where \in {"ask", "sign"},
           UNCHANGED <<tables, paid>>, Goto(h, where),
           where = "sign" => Paid(Quote(h))
    PROVE  IInv'
  <1>1. Quote(h) \in Quotes
    BY DEF IInv, QuoteOfTask
  <1>2. \A g \in Procs : g # h => task'[g] = task[g]
    BY DEF IInv, TypeOK, Goto
  <1>3. task'[h].at = where /\ task'[h].quote = task[h].quote
    BY DEF IInv, TypeOK, Task, Goto
  <1>4. TaskGood(h)'
    BY <1>1, <1>3 DEF TaskGood, Busy, At, Quote, Paid, paid
  <1> QED BY <1>2, <1>4, InvReads

\* A goroutine ends and leaves the tables as they are.
LEMMA Ends ==
    ASSUME IInv, TypeOK', NEW h \in Procs, UNCHANGED <<tables, paid>>, Stop(h)
    PROVE  IInv'
  <1>1. task'[h] = Gone(h) /\ \A g \in Procs : g # h => task'[g] = task[g]
    BY DEF IInv, TypeOK, Stop
  <1>2. TaskGood(h)'
    BY <1>1, GoneIsGood DEF IInv
  <1> QED BY <1>1, <1>2, InvReads

LEMMA InvCheckOutputs == ASSUME IInv, TypeOK', NEW h \in Procs, CheckOutputs(h) PROVE IInv'
  <1>1. Busy(h)
    BY DEF CheckOutputs, At, Busy, Steps
  <1>2. task[h].read = "PAID" => Paid(Quote(h))
    BY DEF IInv, Remembered, CheckOutputs
  <1> QED BY <1>1, <1>2, GoesOn, Ends DEF CheckOutputs

LEMMA InvAsk == ASSUME IInv, TypeOK', NEW h \in Procs, Ask(h) PROVE IInv'
  <1>1. CASE Stop(h)
    BY <1>1, Ends DEF Ask
  <1>2. CASE task' = [task EXCEPT ![h].at = "write", ![h].status = CheckReceived(Quote(h))]
    <2>1. Quote(h) \in Quotes
      BY DEF IInv, QuoteOfTask, Busy, Ask, At, Steps
    <2>2. /\ task'[h].at = "write" /\ task'[h].quote = task[h].quote
          /\ task'[h].status = CheckReceived(Quote(h))
          /\ \A g \in Procs : g # h => task'[g] = task[g]
      BY <1>2 DEF IInv, TypeOK, Task
    <2>3. CheckReceived(Quote(h)) = "SETTLED" => invoice[Quote(h)] = "settled"
      BY DEF CheckReceived
    <2>4. TaskGood(h)'
      BY <2>1, <2>2, <2>3 DEF TaskGood, Busy, At, Quote, Paid, paid, Ask
    <2> QED BY <2>2, <2>4, InvReads DEF Ask
  <1> QED BY <1>1, <1>2 DEF Ask

LEMMA InvWrite == ASSUME IInv, TypeOK', NEW h \in Procs, Write(h) PROVE IInv'
  <1> DEFINE q == Quote(h)
             s == Reconciled(task[h].status, state[q])
  <1>1. q \in Quotes /\ At(h, "write")
    BY DEF IInv, QuoteOfTask, Busy, Write, At, Steps
  <1>2. /\ state'[q] = s /\ issued' = issued /\ UNCHANGED paid
        /\ \A r \in Quotes : r # q => state'[r] = state[r]
    BY <1>1 DEF Write, IInv, TypeOK
  <1>3. s \in {"PAID", "ISSUED"} => Paid(q)
    BY <1>1 DEF Reconciled, IInv, CalledPaid, Remembered
  <1>4. s = "none" => state[q] = "none"
    BY DEF Reconciled
  <1>5. issued'[q] # {} => Paid(q)
    BY <1>1, <1>2 DEF IInv, IssuedOnlyIfPaid
  <1>6. \A g \in Procs : g # h => task'[g] = task[g]
    BY DEF Write, Stop, Goto, IInv, TypeOK
  <1>7. TaskGood(h)'
    <2>1. CASE Stop(h)
      BY <2>1, GoneIsGood DEF IInv, TypeOK, Stop
    <2>2. CASE s = "PAID" /\ Goto(h, "sign")
      <3>1. task'[h].at = "sign" /\ task'[h].quote = task[h].quote
        BY <2>2 DEF IInv, TypeOK, Task, Goto
      <3> QED BY <1>1, <1>2, <1>3, <2>2, <3>1 DEF TaskGood, Busy, At, Quote, Paid, paid
    <2> QED BY <2>1, <2>2 DEF Write
  <1> HIDE DEF q, s
  <1> QED BY <1>1, <1>2, <1>3, <1>4, <1>5, <1>6, <1>7, InvWrites

LEMMA InvSign == ASSUME IInv, TypeOK', NEW h \in Procs, Sign(h) PROVE IInv'
  <1>1. CASE UNCHANGED tables
    BY <1>1, Ends DEF Sign
  <1>2. CASE MarkIssued(h)
    <2>1. Quote(h) \in Quotes /\ Paid(Quote(h))
      BY DEF IInv, QuoteOfTask, Remembered, Busy, Sign, At, Steps
    <2>2. /\ state'[Quote(h)] = "ISSUED"
          /\ \A r \in Quotes : r # Quote(h) => state'[r] = state[r] /\ issued'[r] = issued[r]
      BY <1>2, <2>1 DEF MarkIssued, IInv, TypeOK
    <2>3. task'[h] = Gone(h) /\ \A g \in Procs : g # h => task'[g] = task[g]
      BY DEF Sign, Stop, IInv, TypeOK
    <2>4. TaskGood(h)'
      BY <2>3, GoneIsGood DEF IInv
    <2> QED BY <2>1, <2>2, <2>3, <2>4, InvWrites DEF Sign
  <1> QED BY <1>1, <1>2 DEF Sign

LEMMA InvTake ==
    ASSUME IInv, TypeOK', NEW h \in Procs, NEW q \in Quotes, NEW O \in SUBSET Outputs,
           Take(h, q, O)
    PROVE  IInv'
  <1>1. /\ task'[h].at = "load" /\ task'[h].quote = q
        /\ \A g \in Procs : g # h => task'[g] = task[g]
    BY DEF Take, NoTask, IInv, TypeOK
  <1>2. TaskGood(h)'
    BY <1>1 DEF TaskGood, Busy, At, Quote, Steps
  <1> QED BY <1>1, <1>2, InvReads DEF Take

LEMMA InvCrash == ASSUME IInv, TypeOK', Crash PROVE IInv'
  <1> USE DEF tables, paid
  <1>1. \A h \in Procs : TaskGood(h)'
    <2> SUFFICES ASSUME NEW h \in Procs PROVE TaskGood(h)'
      OBVIOUS
    <2>1. CASE Busy(h)
      BY <2>1, GoneIsGood DEF Crash, IInv
    <2>2. CASE ~Busy(h)
      BY <2>2 DEF Crash, TaskGood, Busy, At, Steps
    <2> QED BY <2>1, <2>2
  <1>2. QuoteOfTask' /\ Remembered'
    BY <1>1 DEF QuoteOfTask, Remembered, TaskGood
  <1>3. NotYetAsked' /\ CalledPaid' /\ IssuedOnlyIfPaid'
    BY DEF IInv, Crash, NotYetAsked, CalledPaid, IssuedOnlyIfPaid, Paid
  <1> QED BY <1>2, <1>3 DEF IInv

LEMMA InvPayers ==
    ASSUME IInv, TypeOK', NEW q \in Quotes,
           CreateMintQuote(q) \/ Pay(q) \/ Expire(q) \/ SettleInternally(q)
    PROVE  IInv'
  <1> USE DEF tables, paid, IInv, TypeOK, NotYetAsked, Paid
  <1>1. CASE CreateMintQuote(q)
    BY <1>1, InvWorld DEF CreateMintQuote
  <1>2. CASE Pay(q)
    BY <1>2, InvWorld DEF Pay
  <1>3. CASE Expire(q)
    BY <1>3, InvWorld DEF Expire
  <1>4. CASE SettleInternally(q)
    BY <1>4, InvWorld DEF SettleInternally
  <1> QED BY <1>1, <1>2, <1>3, <1>4

LEMMA InvNext == IInv /\ [Next]_vars => IInv'
  <1> SUFFICES ASSUME IInv, [Next]_vars PROVE IInv'
    OBVIOUS
  <1>0. TypeOK'
    BY TypeNext DEF IInv
  <1>1. ASSUME NEW h \in Procs, NEW q \in Quotes, NEW O \in SUBSET Outputs, Take(h, q, O)
        PROVE  IInv'
    BY <1>0, <1>1, InvTake
  <1>2. ASSUME NEW h \in Procs, Step(h) PROVE IInv'
    BY <1>0, <1>2, InvLoad, InvCheckOutputs, InvAsk, InvWrite, InvSign DEF Step
  <1>3. ASSUME NEW h \in Procs, DatabaseFails(h) PROVE IInv'
    BY <1>0, <1>3, Ends DEF DatabaseFails
  <1>4. ASSUME NEW q \in Quotes,
               CreateMintQuote(q) \/ Pay(q) \/ Expire(q) \/ SettleInternally(q)
        PROVE  IInv'
    BY <1>0, <1>4, InvPayers
  <1>5. CASE Crash
    BY <1>0, <1>5, InvCrash
  <1>6. CASE UNCHANGED vars
    BY <1>0, <1>6, InvWorld DEF vars, tables, paid, IInv, NotYetAsked, Paid
  <1> QED
    BY <1>1, <1>2, <1>3, <1>4, <1>5, <1>6, {} \in SUBSET Outputs DEF Next, Procs

\* The inductive invariant holds throughout every behaviour.
THEOREM Invariant == Spec => []IInv
  BY InvInit, InvNext, PTL DEF Spec

\* Every table and every goroutine stays in a state the program knows.
THEOREM MintTypeCorrect == Spec => []TypeOK
  <1>1. IInv => TypeOK
    BY DEF IInv
  <1> QED BY <1>1, Invariant, PTL

\* Nothing is signed for a quote nobody paid, however requests for signatures,
\* polls, payments and failures interleave.
THEOREM MintIssuedOnlyIfPaid == Spec => []IssuedOnlyIfPaid
  <1>1. IInv => IssuedOnlyIfPaid
    BY DEF IInv
  <1> QED BY <1>1, Invariant, PTL

-----------------------------------------------------------------------------
(* What holds besides when operations on one quote do not overlap: then    *)
(* what a goroutine read is still so when it writes, and MintQuote         *)
(* implements Issuance.                                                    *)

OneAtATime == \A g, h \in Procs : Busy(g) /\ Busy(h) /\ Quote(g) = Quote(h) => g = h

\* What a goroutine believes of its quote, and what it checked of its outputs.
Fresh(h) == Busy(h) =>
    /\ state[Quote(h)] # "none"
    /\ At(h, "outputs") => h \in Minters /\ task[h].read = state[Quote(h)]
                           /\ state[Quote(h)] \in {"UNPAID", "PAID"}
    /\ task[h].at \in {"ask", "write"} => state[Quote(h)] = "UNPAID"
    /\ At(h, "sign") => h \in Minters /\ state[Quote(h)] = "PAID"
    /\ h \in Minters /\ task[h].at \in {"ask", "write", "sign"} =>
          WorthOf(task[h].outs) = QuoteAmount[Quote(h)]

SInv == OneAtATime /\ \A h \in Procs : Fresh(h)

LEMMA SerialInit == Init => SInv
  BY DEF Init, SInv, OneAtATime, Fresh, Busy, At, NoTask, Steps

\* The only goroutine of a quote takes a step on it.
LEMMA SerialMoves ==
    ASSUME IInv, SInv, NEW h \in Procs, Busy(h),
           \A r \in Quotes : r # Quote(h) => state'[r] = state[r],
           \A g \in Procs : g # h => task'[g] = task[g],
           Busy(h)' => Quote(h)' = Quote(h),
           Fresh(h)'
    PROVE  SInv'
  <1>1. \A g \in Procs : g # h => /\ Busy(g)' <=> Busy(g)
                                  /\ Quote(g)' = Quote(g)
    BY DEF Busy, Quote
  <1>2. OneAtATime'
    BY <1>1 DEF SInv, OneAtATime
  <1>3. ASSUME NEW g \in Procs, g # h PROVE Fresh(g)'
    <2>1. Busy(g) => Quote(g) \in Quotes /\ Quote(g) # Quote(h)
      BY <1>3 DEF SInv, OneAtATime, IInv, QuoteOfTask
    <2>2. task'[g] = task[g] /\ Fresh(g)
      BY <1>3 DEF SInv
    <2> QED BY <2>1, <2>2 DEF Fresh, Busy, At, Quote
  <1> QED BY <1>2, <1>3 DEF SInv

\* A goroutine that ends believes nothing.
LEMMA SerialEnds ==
    ASSUME IInv, SInv, NEW h \in Procs, Busy(h), Stop(h),
           \A r \in Quotes : r # Quote(h) => state'[r] = state[r]
    PROVE  SInv'
  <1>1. task'[h] = Gone(h) /\ \A g \in Procs : g # h => task'[g] = task[g]
    BY DEF IInv, TypeOK, Stop
  <1>2. ~Busy(h)'
    BY <1>1 DEF Busy, Gone, NoTask, Steps
  <1> QED BY <1>1, <1>2, SerialMoves DEF Fresh

\* The quotes whose state changes have no goroutine, and no goroutine moves.
LEMMA SerialWorld ==
    ASSUME IInv, SInv, task' = task,
           \A q \in Quotes : state'[q] = state[q] \/ Alone(q) \/ state[q] = "none"
    PROVE  SInv'
  <1>1. OneAtATime'
    BY DEF SInv, OneAtATime, Busy, Quote
  <1>2. ASSUME NEW h \in Procs PROVE Fresh(h)'
    <2>1. Fresh(h) /\ (Busy(h) => Quote(h) \in Quotes /\ ~Alone(Quote(h)))
      BY <1>2 DEF SInv, IInv, QuoteOfTask, Alone
    <2> QED BY <2>1 DEF Fresh, Busy, At, Quote
  <1> QED BY <1>1, <1>2 DEF SInv

LEMMA SerialTake ==
    ASSUME Serial, IInv, SInv, NEW h \in Procs, NEW q \in Quotes, NEW O \in SUBSET Outputs,
           Take(h, q, O)
    PROVE  SInv'
  <1>1. /\ task'[h].at = "load" /\ task'[h].quote = q
        /\ \A g \in Procs : g # h => task'[g] = task[g]
        /\ state' = state /\ state[q] # "none"
    BY DEF Take, NoTask, IInv, TypeOK, tables
  <1>2. \A g \in Procs : Busy(g) => Quote(g) # q
    BY DEF Take, Alone
  <1>3. OneAtATime'
    BY <1>1, <1>2 DEF SInv, OneAtATime, Busy, Quote
  <1>4. ASSUME NEW g \in Procs PROVE Fresh(g)'
    <2>1. CASE g = h
      BY <1>1, <2>1 DEF Fresh, Busy, At, Quote, Steps
    <2>2. CASE g # h
      BY <1>1, <2>2 DEF SInv, Fresh, Busy, At, Quote
    <2> QED BY <2>1, <2>2
  <1> QED BY <1>3, <1>4 DEF SInv

LEMMA SerialLoad == ASSUME IInv, SInv, NEW h \in Procs, Load(h) PROVE SInv'
  <1>1. Busy(h) /\ state' = state
    BY DEF Load, At, Busy, Steps, tables
  <1>2. CASE Stop(h)
    BY <1>1, <1>2, SerialEnds
  <1>3. CASE /\ Goes(h, state[Quote(h)]) # "ended"
             /\ task' = [task EXCEPT ![h].at = Goes(h, state[Quote(h)]),
                                     ![h].read = state[Quote(h)]]
    <2>1. /\ task'[h].at = Goes(h, state[Quote(h)]) /\ task'[h].quote = task[h].quote
          /\ task'[h].read = state[Quote(h)]
          /\ \A g \in Procs : g # h => task'[g] = task[g]
      BY <1>3 DEF IInv, TypeOK, Task
    <2>2. state[Quote(h)] \in {"UNPAID", "PAID", "ISSUED"}
      BY <1>1 DEF SInv, Fresh, IInv, TypeOK, QuoteOfTask, States
    <2>3. \/ /\ Goes(h, state[Quote(h)]) = "outputs" /\ h \in Minters
             /\ state[Quote(h)] # "ISSUED"
          \/ /\ Goes(h, state[Quote(h)]) = "ask" /\ h \notin Minters
             /\ state[Quote(h)] = "UNPAID"
      BY <1>3, MintAssumption DEF Goes
    <2>4. Fresh(h)'
      BY <1>1, <2>1, <2>2, <2>3 DEF Fresh, Busy, At, Quote
    <2> QED BY <1>1, <2>1, <2>4, SerialMoves DEF Quote
  <1> QED BY <1>2, <1>3 DEF Load

LEMMA SerialCheckOutputs == ASSUME IInv, SInv, NEW h \in Procs, CheckOutputs(h) PROVE SInv'
  <1>1. Busy(h) /\ state' = state /\ Fresh(h)
    BY DEF CheckOutputs, At, Busy, Steps, tables, SInv
  <1>2. CASE Stop(h)
    BY <1>1, <1>2, SerialEnds
  <1>3. ASSUME NEW where \in {"ask", "sign"}, Goto(h, where), Matches(h),
               where = "sign" <=> task[h].read = "PAID"
        PROVE  SInv'
    <2>1. /\ task'[h].at = where /\ task'[h].quote = task[h].quote
          /\ task'[h].outs = task[h].outs
          /\ \A g \in Procs : g # h => task'[g] = task[g]
      BY <1>3 DEF IInv, TypeOK, Task, Goto
    <2>2. WorthOf(task[h].outs) = QuoteAmount[Quote(h)]
      BY <1>3 DEF Matches
    <2>3. /\ h \in Minters /\ state[Quote(h)] \in {"UNPAID", "PAID"}
          /\ task[h].read = state[Quote(h)]
      BY <1>1 DEF Fresh, CheckOutputs
    <2>4. Fresh(h)'
      BY <1>1, <1>3, <2>1, <2>2, <2>3 DEF Fresh, Busy, At, Quote
    <2> QED BY <1>1, <2>1, <2>4, SerialMoves DEF Quote
  <1> QED BY <1>2, <1>3 DEF CheckOutputs

LEMMA SerialAsk == ASSUME IInv, SInv, NEW h \in Procs, Ask(h) PROVE SInv'
  <1>1. Busy(h) /\ state' = state /\ Fresh(h)
    BY DEF Ask, At, Busy, Steps, tables, SInv
  <1>2. CASE Stop(h)
    BY <1>1, <1>2, SerialEnds
  <1>3. CASE task' = [task EXCEPT ![h].at = "write", ![h].status = CheckReceived(Quote(h))]
    <2>1. /\ task'[h].at = "write" /\ task'[h].quote = task[h].quote
          /\ task'[h].outs = task[h].outs
          /\ \A g \in Procs : g # h => task'[g] = task[g]
      BY <1>3 DEF IInv, TypeOK, Task
    <2>2. Fresh(h)'
      BY <1>1, <2>1 DEF Fresh, Busy, At, Quote, Ask
    <2> QED BY <1>1, <2>1, <2>2, SerialMoves DEF Quote
  <1> QED BY <1>2, <1>3 DEF Ask

LEMMA SerialWrite == ASSUME IInv, SInv, NEW h \in Procs, Write(h) PROVE SInv'
  <1>1. Busy(h) /\ Fresh(h) /\ Quote(h) \in Quotes
    BY DEF Write, At, Busy, Steps, SInv, IInv, QuoteOfTask
  <1>2. \A r \in Quotes : r # Quote(h) => state'[r] = state[r]
    BY DEF Write, IInv, TypeOK
  <1>3. CASE Stop(h)
    BY <1>1, <1>2, <1>3, SerialEnds
  <1>4. CASE /\ h \in Minters /\ Goto(h, "sign")
             /\ Reconciled(task[h].status, state[Quote(h)]) = "PAID"
    <2>1. /\ task'[h].at = "sign" /\ task'[h].quote = task[h].quote
          /\ task'[h].outs = task[h].outs
          /\ \A g \in Procs : g # h => task'[g] = task[g]
      BY <1>4 DEF IInv, TypeOK, Task, Goto
    <2>2. state'[Quote(h)] = "PAID"
      BY <1>1, <1>4 DEF Write, IInv, TypeOK
    <2>3. Fresh(h)'
      BY <1>1, <1>4, <2>1, <2>2 DEF Fresh, Busy, At, Quote, Write
    <2> QED BY <1>1, <1>2, <2>1, <2>3, SerialMoves DEF Quote
  <1> QED BY <1>3, <1>4 DEF Write

LEMMA SerialSign == ASSUME IInv, SInv, NEW h \in Procs, Sign(h) PROVE SInv'
  <1>1. Busy(h)
    BY DEF Sign, At, Busy, Steps
  <1>2. \A r \in Quotes : r # Quote(h) => state'[r] = state[r]
    BY DEF Sign, MarkIssued, tables, IInv, TypeOK
  <1> QED BY <1>1, <1>2, SerialEnds DEF Sign

LEMMA SerialNext == ASSUME Serial PROVE IInv /\ SInv /\ [Next]_vars => SInv'
  <1> SUFFICES ASSUME IInv, SInv, [Next]_vars PROVE SInv'
    OBVIOUS
  <1>1. ASSUME NEW h \in Procs, NEW q \in Quotes, NEW O \in SUBSET Outputs, Take(h, q, O)
        PROVE  SInv'
    BY <1>1, SerialTake
  <1>2. ASSUME NEW h \in Procs, Step(h) PROVE SInv'
    BY <1>2, SerialLoad, SerialCheckOutputs, SerialAsk, SerialWrite, SerialSign DEF Step
  <1>3. ASSUME NEW h \in Procs, DatabaseFails(h) PROVE SInv'
    BY <1>3, SerialEnds DEF DatabaseFails, tables
  <1>4. ASSUME NEW q \in Quotes,
               CreateMintQuote(q) \/ Pay(q) \/ Expire(q) \/ SettleInternally(q)
        PROVE  SInv'
    BY <1>4, SerialWorld
       DEF CreateMintQuote, Pay, Expire, SettleInternally, tables, IInv, TypeOK
  <1>5. CASE Crash
    <2>1. \A h \in Procs : ~Busy(h)'
      BY <1>5 DEF Crash, Busy, Gone, NoTask, Steps
    <2> QED BY <2>1 DEF SInv, OneAtATime, Fresh
  <1>6. CASE UNCHANGED vars
    BY <1>6, SerialWorld DEF vars, tables
  <1> QED
    BY <1>1, <1>2, <1>3, <1>4, <1>5, <1>6, {} \in SUBSET Outputs DEF Next, Procs

LEMMA SerialInvariant == ASSUME Serial PROVE Spec => []SInv
  BY Invariant, SerialInit, SerialNext, PTL DEF Spec

-----------------------------------------------------------------------------
(* MintQuote implements Issuance: recording a payment credits the quote,   *)
(* signing draws it, every other step is invisible.                        *)

\* A step that moves one quote, and draws nothing, from UNPAID or to PAID.
LEMMA IsCredit ==
    ASSUME TypeOK, NEW q \in Quotes, NEW s \in {"UNPAID", "PAID"}, state[q] \in {"none", "UNPAID"},
           state' = [state EXCEPT ![q] = s], UNCHANGED sigs
    PROVE  [I!IssuanceNext]_(I!issuanceVars)
  <1> USE DEF TypeOK
  <1>1. CASE s = "PAID"
    <2>1. I!Credit(q)
      BY <1>1 DEF I!Credit
    <2> QED BY <2>1 DEF I!IssuanceNext
  <1>2. CASE s = "UNPAID"
    BY <1>2 DEF I!issuanceVars
  <1> QED BY <1>1, <1>2

LEMMA IsDraw ==
    ASSUME TypeOK, NEW q \in Quotes, NEW O \in SUBSET Outputs, state[q] = "PAID",
           WorthOf(O) = QuoteAmount[q], O \cap sigs = {},
           state' = [state EXCEPT ![q] = "ISSUED"], sigs' = sigs \cup O
    PROVE  [I!IssuanceNext]_(I!issuanceVars)
  <1>1. I!Draw(q, O)
    BY DEF I!Draw, TypeOK
  <1> QED BY <1>1 DEF I!IssuanceNext

LEMMA StepOfIssuance ==
    IInv /\ SInv /\ [Next]_vars => [I!IssuanceNext]_(I!issuanceVars)
  <1> SUFFICES ASSUME IInv, SInv, [Next]_vars PROVE [I!IssuanceNext]_(I!issuanceVars)
    OBVIOUS
  <1>1. TypeOK
    BY DEF IInv
  <1>2. ASSUME UNCHANGED <<state, sigs>> PROVE UNCHANGED I!issuanceVars
    BY <1>2 DEF I!issuanceVars
  <1>3. ASSUME NEW h \in Procs, Write(h) PROVE [I!IssuanceNext]_(I!issuanceVars)
    <2>1. Quote(h) \in Quotes /\ state[Quote(h)] = "UNPAID"
      BY <1>3 DEF IInv, QuoteOfTask, SInv, Fresh, Write, At, Busy, Steps
    <2>2. Reconciled(task[h].status, state[Quote(h)]) \in {"UNPAID", "PAID"}
      BY <2>1 DEF Reconciled
    <2> QED BY <1>1, <1>3, <2>1, <2>2, IsCredit DEF Write
  <1>4. ASSUME NEW h \in Procs, Sign(h), MarkIssued(h)
        PROVE  [I!IssuanceNext]_(I!issuanceVars)
    <2>1. /\ Quote(h) \in Quotes /\ state[Quote(h)] = "PAID"
          /\ WorthOf(task[h].outs) = QuoteAmount[Quote(h)]
      BY <1>4 DEF IInv, QuoteOfTask, SInv, Fresh, Sign, At, Busy, Steps
    <2>2. task[h].outs \in SUBSET Outputs
      BY <1>1 DEF TypeOK, Task
    <2> QED BY <1>1, <1>4, <2>1, <2>2, IsDraw DEF MarkIssued
  <1>5. ASSUME NEW h \in Procs, Step(h) PROVE [I!IssuanceNext]_(I!issuanceVars)
    BY <1>2, <1>3, <1>4, <1>5 DEF Step, Load, CheckOutputs, Ask, Sign, tables
  <1>6. ASSUME NEW h \in Procs,
               DatabaseFails(h) \/ \E r \in Quotes, O \in SUBSET Outputs : Take(h, r, O)
        PROVE  UNCHANGED <<state, sigs>>
    BY <1>6 DEF DatabaseFails, Take, tables
  <1>7. ASSUME NEW q \in Quotes, CreateMintQuote(q) \/ SettleInternally(q)
        PROVE  [I!IssuanceNext]_(I!issuanceVars)
    BY <1>1, <1>7, IsCredit DEF CreateMintQuote, SettleInternally
  <1>8. ASSUME NEW q \in Quotes, Pay(q) \/ Expire(q) PROVE UNCHANGED <<state, sigs>>
    BY <1>8 DEF Pay, Expire, tables
  <1>9. CASE Crash \/ UNCHANGED vars
    BY <1>2, <1>9 DEF Crash, vars, tables
  <1> QED
    BY <1>2, <1>5, <1>6, <1>7, <1>8, <1>9, {} \in SUBSET Outputs DEF Next, Procs

\* Every behaviour of MintQuote whose operations on one quote do not overlap
\* is one Issuance allows: credited once, drawn once, in full.
THEOREM MintImplementsIssuance == ASSUME Serial PROVE Spec => Issuance
  <1>1. Init => I!IssuanceInit
    BY DEF Init, I!IssuanceInit
  <1> QED
    BY <1>1, StepOfIssuance, Invariant, SerialInvariant, PTL DEF Spec, Issuance, I!IssuanceSpec
-----------------------------------------------------------------------------
(* No ecash from nothing.  The ledger of Issuance balances: every step of  *)
(* it that signs draws one quote, in full.                                 *)

Drawn == {q \in Quotes : state[q] = "ISSUED"}

Balanced == WorthOf(sigs) = SumOf(Drawn, QuoteAmount)

LEMMA BalancedNext ==
    TypeOK /\ TypeOK' /\ Balanced /\ [I!IssuanceNext]_(I!issuanceVars) => Balanced'
  <1> DEFINE Credited(s) == [q \in Quotes |-> CASE s[q] = "ISSUED" -> "drawn"
                                                [] s[q] = "PAID"   -> "credited"
                                                [] OTHER           -> "open"]
             credit == Credited(state)
  <1> SUFFICES ASSUME TypeOK, TypeOK', Balanced, [I!IssuanceNext]_(I!issuanceVars)
               PROVE  Balanced'
    OBVIOUS
  <1>1. /\ Drawn = {q \in Quotes : credit[q] = "drawn"}
        /\ Drawn' = {q \in Quotes : credit'[q] = "drawn"}
    BY DEF Drawn
  <1>2. CASE UNCHANGED <<credit, sigs>>
    BY <1>1, <1>2 DEF Balanced, WorthOf
  <1>3. ASSUME NEW q \in Quotes, credit' = [credit EXCEPT ![q] = "credited"], credit[q] = "open",
               UNCHANGED sigs
        PROVE  Balanced'
    <2>1. Drawn' = Drawn
      BY <1>1, <1>3
    <2> QED BY <1>3, <2>1 DEF Balanced, WorthOf
  <1>4. ASSUME NEW q \in Quotes, NEW O \in SUBSET Outputs, credit[q] = "credited",
               WorthOf(O) = QuoteAmount[q], O \cap sigs = {},
               credit' = [credit EXCEPT ![q] = "drawn"], sigs' = sigs \cup O
        PROVE  Balanced'
    <2>1. Drawn' = Drawn \cup {q} /\ q \notin Drawn /\ Drawn \subseteq Quotes
      BY <1>1, <1>4
    <2>2. IsFiniteSet(sigs) /\ IsFiniteSet(O) /\ IsFiniteSet(Drawn)
      BY <2>1, FS_Subset, MintAssumption DEF TypeOK
    <2>3. /\ \A b \in sigs \cup O : OutputAmount[b] \in Int
          /\ \A r \in Drawn \cup {q} : QuoteAmount[r] \in Int
      BY <2>1, MintAssumption DEF TypeOK
    <2>4. SumOf(sigs \cup O, OutputAmount) = SumOf(sigs, OutputAmount) + SumOf(O, OutputAmount)
      BY <1>4, <2>2, <2>3, SumUnion
    <2>5. SumOf(Drawn \cup {q}, QuoteAmount) = SumOf(Drawn, QuoteAmount) + QuoteAmount[q]
      BY <2>1, <2>2, <2>3, SumPutsIn
    <2> QED BY <1>4, <2>1, <2>4, <2>5 DEF Balanced, WorthOf
  <1> QED BY <1>2, <1>3, <1>4 DEF I!IssuanceNext, I!Credit, I!Draw, I!issuanceVars

LEMMA AlwaysBalanced == ASSUME Serial PROVE Spec => []Balanced
  <1>1. Init => Balanced
    <2> SUFFICES ASSUME Init PROVE Balanced
      OBVIOUS
    <2>1. sigs = {} /\ Drawn = {}
      BY DEF Init, Drawn
    <2> QED BY <2>1, SumEmpty DEF Balanced, WorthOf
  <1>2. IInv /\ IInv' /\ SInv /\ Balanced /\ [Next]_vars => Balanced'
    BY StepOfIssuance, BalancedNext DEF IInv
  <1> QED BY <1>1, <1>2, Invariant, SerialInvariant, PTL DEF Spec

\* No ecash from nothing: while operations on one quote do not overlap, what has
\* been signed is worth no more than the invoices that were paid.
THEOREM MintNoInflation == ASSUME Serial PROVE Spec => []NoInflation
  <1>1. IInv /\ Balanced => NoInflation
    <2> SUFFICES ASSUME IInv, Balanced PROVE NoInflation
      OBVIOUS
    <2> DEFINE funded == {q \in Quotes : Paid(q)}
    <2>1. Drawn \subseteq funded
      BY DEF IInv, CalledPaid, Drawn
    <2>2. IsFiniteSet(funded) /\ \A q \in funded : QuoteAmount[q] \in Nat
      BY FS_Subset, MintAssumption
    <2> HIDE DEF funded
    <2>3. SumOf(Drawn, QuoteAmount) <= SumOf(funded, QuoteAmount)
      BY <2>1, <2>2, SumOfPart
    <2> QED BY <2>3 DEF NoInflation, Balanced, funded
  <1> QED BY <1>1, AlwaysBalanced, Invariant, PTL
=============================================================================
