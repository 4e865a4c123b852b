-------------------------------- MODULE Melt --------------------------------
(***************************************************************************)
(* Melting (internal/mint/melting.go): proofs pay a lightning invoice.     *)
(*                                                                         *)
(* A melt request, a poll of its quote and the reconciliation at startup   *)
(* all begin with RefreshMeltQuoteState; the request goes on to reserve    *)
(* its proofs, to pay, and to finish or give back.  Each runs in its own   *)
(* goroutine, talks to the lightning backend between its transactions and  *)
(* acts afterwards on what it read before.                                 *)
(*                                                                         *)
(* "melted" is not a variable: the code writes it together with the state, *)
(* and it is true exactly when the state is PAID.  Inputs are sets: a      *)
(* request that names a proof twice fails at UNIQUE(secret, y), see Swap.  *)
(***************************************************************************)
EXTENDS Sums

CONSTANTS Melters,        \* goroutines that serve one POST /v1/melt/bolt11 each
          Pollers,        \* clients that ask for the state of a quote, repeatedly
          Boot,           \* ReconcilePendingMeltQuotes in main
          Quotes, Internal,   \* Internal: those for an invoice of this mint
          Proofs, Outputs, NoQuote,
          ProofAmount,    \* of keysets without input fee
          Need,           \* of a quote: amount + fee reserve
          Blanks,         \* the blank outputs a request may carry for its change
          Absent,         \* what CheckPayed says of a payment nobody made
          Serial,         \* TRUE: at most one goroutine at a time per quote
          Subscribers,    \* TRUE: wallets also subscribe through the websocket
          Faults          \* what may go wrong around the handlers

FaultKinds == {"database", "lightning", "crash"}
Procs      == Melters \cup Pollers \cup {Boot}

ASSUME MeltAssumption ==
    /\ Boot \notin Melters \cup Pollers /\ Melters \cap Pollers = {}
    /\ Internal \subseteq Quotes /\ NoQuote \notin Quotes
    /\ ProofAmount \in [Proofs -> Nat] /\ Need \in [Quotes -> Nat \ {0}]
    /\ Blanks \in [Melters -> SUBSET Outputs]
    /\ Absent \subseteq {"error", "PENDING", "UNKNOWN", "FAILED"} /\ Absent # {}
    /\ Serial \in BOOLEAN /\ Subscribers \in BOOLEAN /\ Faults \subseteq FaultKinds

VARIABLES
    proofState,   \* table proofs: state; "UNSPENT" is a proof without a row
    proofQuote,   \* table proofs: the quote that reserved it
    sigs,         \* table recovery_signature
    st,           \* table melt_request: state of each quote
    change,       \* table melt_change_message: blank outputs by quote
    mintQuote,    \* table mint_request: state of the mint quote of an Internal one
    leaked,       \* quotes whose row an abandoned transaction keeps locked
    payment,      \* the lightning node: what became of each quote's invoice
    stake,        \* history: the inputs of the request that made the payment
    task,         \* each goroutine: where it is, what it asks, what it read
    node, todo    \* the process, and the quotes left to reconcile at startup

tables == <<proofState, proofQuote, sigs, st, change, mintQuote>>
world  == <<payment, stake>>
host   == <<node, todo>>
vars   == <<tables, leaked, world, task, host>>

QuoteStates == {"UNPAID", "PENDING", "PAID"}
Steps == {"refresh", "check", "settle", "unreserve", "reserve", "send", "paying",
          "saveId", "recheck", "mark", "release", "finalize"}

\* snap: the proofs RefreshMeltQuoteState found for the quote.
Task == [at : {"idle", "ended"} \cup Steps, quote : Quotes \cup {NoQuote},
         ins : SUBSET Proofs, outs : SUBSET Outputs, snap : SUBSET Proofs]

NoTask(where) == [at |-> where, quote |-> NoQuote, ins |-> {}, outs |-> {}, snap |-> {}]

TypeOK ==
    /\ proofState \in [Proofs -> {"UNSPENT", "PENDING", "SPENT"}]
    /\ proofQuote \in [Proofs -> Quotes \cup {NoQuote}]
    /\ sigs \subseteq Outputs
    /\ st \in [Quotes -> QuoteStates]
    /\ change \in [Quotes -> SUBSET Outputs]
    /\ mintQuote \in [Internal -> {"UNPAID", "PAID"}]
    /\ leaked \subseteq Quotes
    /\ payment \in [Quotes -> {"none", "inflight", "settled", "failed", "internal"}]
    /\ stake \in [Quotes -> SUBSET Proofs]
    /\ task \in [Procs -> Task]
    /\ node \in {"up", "down", "starting"} /\ todo \subseteq Quotes

Init ==
    /\ proofState = [p \in Proofs |-> "UNSPENT"]
    /\ proofQuote = [p \in Proofs |-> NoQuote]
    /\ sigs = {} /\ leaked = {}
    /\ st = [q \in Quotes |-> "UNPAID"]
    /\ change = [q \in Quotes |-> {}]
    /\ mintQuote = [q \in Internal |-> "UNPAID"]
    /\ payment = [q \in Quotes |-> "none"]
    /\ stake = [q \in Quotes |-> {}]
    /\ task = [h \in Procs |-> NoTask("idle")]
    /\ node = "up" /\ todo = {}

-----------------------------------------------------------------------------
(* What a goroutine does next.                                             *)

At(h, where)   == task[h].at = where
Busy(h)        == task[h].at \in Steps
Quote(h)       == task[h].quote
Alone(q)       == \A h \in Procs : Busy(h) => Quote(h) # q
Blocked(h)     == Quote(h) \in leaked      \* an UPDATE of the quote would wait
Goto(h, where) == task' = [task EXCEPT ![h].at = where]

Gone(h) == NoTask(IF h \in Melters THEN "ended" ELSE "idle")
Stop(h) == task' = [task EXCEPT ![h] = Gone(h)]

\* main returns when a reconciliation fails: the process exits.
Fail(h) == /\ Stop(h)
           /\ node' = IF h = Boot THEN "down" ELSE node
           /\ todo' = IF h = Boot THEN {} ELSE todo

WorthOf(S) == SumOf(S, ProofAmount)

\* validateBolt11MeltInputs, of a quote that was read in state s.
Admits(h, s) ==
    h \in Melters /\ s = "UNPAID" /\ WorthOf(task[h].ins) >= Need[Quote(h)]

\* RefreshMeltQuoteState returned a quote in state s.
Refreshed(h, s) ==
    /\ \/ Admits(h, s) /\ Goto(h, "reserve")
       \/ ~Admits(h, s) /\ Stop(h)
    /\ todo' = IF h = Boot THEN todo \ {Quote(h)} ELSE todo
    /\ node' = IF h = Boot /\ todo' = {} THEN "up" ELSE node

\* The statements the transactions below are made of: by y, whatever the state.
SetSpent(S)    == proofState' = [p \in Proofs |->
                     IF p \in S /\ proofState[p] # "UNSPENT" THEN "SPENT" ELSE proofState[p]]
Delete(S)      == proofState' = [p \in Proofs |-> IF p \in S THEN "UNSPENT" ELSE proofState[p]]
SetQuote(h, s) == st' = [st EXCEPT ![Quote(h)] = s]
DropChange(h)  == change' = [change EXCEPT ![Quote(h)] = {}]

\* What was overpaid is signed on some of the blank outputs, which are then
\* forgotten; UNIQUE("B_") makes the whole transaction fail.
SignChange(h, S) == /\ S \cap sigs = {}
                    /\ sigs' = sigs \cup S
                    /\ IF S = {} THEN UNCHANGED change ELSE DropChange(h)

-----------------------------------------------------------------------------
(* Requests arrive.                                                        *)

Take(h, q, I, O) ==
    /\ At(h, "idle")
    /\ Serial => Alone(q)
    /\ task' = [task EXCEPT ![h] = [at |-> "refresh", quote |-> q,
                                    ins |-> I, outs |-> O, snap |-> {}]]

StartMelt(h, q, I, O) == /\ node = "up" /\ h \in Melters
                         /\ Take(h, q, I, O)
                         /\ UNCHANGED <<tables, leaked, world, host>>

\* GET /v1/melt/quote/bolt11/{id}
StartPoll(h, q) == /\ node = "up" /\ h \in Pollers
                   /\ Take(h, q, {}, {})
                   /\ UNCHANGED <<tables, leaked, world, host>>

\* CheckMeltRequest, for a websocket subscription: on a PAID quote it returns
\* without ending its transaction, which holds the row FOR UPDATE.  Otherwise
\* it changes nothing that is modelled here.
Watch(q) == /\ Subscribers /\ node = "up"
            /\ st[q] = "PAID" /\ q \notin leaked
            /\ leaked' = leaked \cup {q}
            /\ UNCHANGED <<tables, world, task, host>>

-----------------------------------------------------------------------------
(* RefreshMeltQuoteState                                                   *)

ProofsOf(q) == {p \in Proofs : proofState[p] # "UNSPENT" /\ proofQuote[p] = q}

\* Mutation: the payment of a PAID quote is looked up as well.
ReadQuote_AlwaysAsks(h) ==
    /\ At(h, "refresh")
    /\ \/ Blocked(h) /\ Fail(h)
       \/ /\ ~Blocked(h) /\ st[Quote(h)] # "UNPAID"
          /\ task' = [task EXCEPT ![h].at = "check", ![h].snap = ProofsOf(Quote(h))]
          /\ UNCHANGED host
       \/ /\ ~Blocked(h) /\ st[Quote(h)] = "UNPAID"
          /\ Refreshed(h, st[Quote(h)])
    /\ UNCHANGED <<tables, leaked, world>>

\* The quote FOR UPDATE NOWAIT, and the proofs that name it.
ReadQuote(h) ==
    /\ At(h, "refresh")
    /\ \/ Blocked(h) /\ Fail(h)                                \* ErrQuoteIsPending
       \/ /\ ~Blocked(h) /\ st[Quote(h)] = "PENDING"
          /\ task' = [task EXCEPT ![h].at = "check", ![h].snap = ProofsOf(Quote(h))]
          /\ UNCHANGED host
       \/ /\ ~Blocked(h) /\ st[Quote(h)] # "PENDING"
          /\ Refreshed(h, st[Quote(h)])
    /\ UNCHANGED <<tables, leaked, world>>

\* What the backend may answer about the payment of q: the truth, or an error.
CheckPayed(q) ==
    CASE payment[q] = "settled"  -> {"SETTLED"}
      [] payment[q] = "inflight" -> {"PENDING"}
      [] payment[q] = "failed"   -> {"FAILED"}
      [] OTHER                   -> Absent \ {"error"}

CheckPayedErrs(q) == \/ "lightning" \in Faults
                     \/ payment[q] \in {"none", "internal"} /\ "error" \in Absent

\* Mutation: a payment the backend has not finished is taken as failed.
Check_GivesUp(h) ==
    /\ At(h, "check")
    /\ \/ /\ "SETTLED" \in CheckPayed(Quote(h))
          /\ Goto(h, "settle") /\ UNCHANGED host
       \/ /\ {"FAILED", "PENDING", "UNKNOWN"} \cap CheckPayed(Quote(h)) # {}
          /\ Goto(h, "unreserve") /\ UNCHANGED host
       \/ CheckPayedErrs(Quote(h)) /\ Fail(h)
    /\ UNCHANGED <<tables, leaked, world>>

Check(h) ==
    /\ At(h, "check")
    /\ \/ /\ "SETTLED" \in CheckPayed(Quote(h))
          /\ Goto(h, "settle") /\ UNCHANGED host
       \/ /\ "FAILED" \in CheckPayed(Quote(h))
          /\ Goto(h, "unreserve") /\ UNCHANGED host
       \/ /\ {"PENDING", "UNKNOWN"} \cap CheckPayed(Quote(h)) # {}
          /\ Refreshed(h, "PENDING")
       \/ CheckPayedErrs(Quote(h)) /\ Fail(h)
    /\ UNCHANGED <<tables, leaked, world>>

\* Mutation: GetMeltChangeByQuote without its WHERE, the blanks of any quote.
Settle_AnyChange(h) ==
    /\ At(h, "settle") /\ ~Blocked(h)
    /\ \/ /\ task[h].snap # {}
          /\ \E q \in Quotes : \E S \in SUBSET change[q] : SignChange(h, S)
          /\ SetSpent(task[h].snap) /\ SetQuote(h, "PAID")
          /\ Refreshed(h, "PAID")
       \/ /\ task[h].snap = {} \/ change[Quote(h)] \cap sigs # {}
          /\ Fail(h) /\ UNCHANGED <<proofState, sigs, change, st>>
    /\ UNCHANGED <<proofQuote, mintQuote, leaked, world>>

\* Mutation: SetProofsState is left out.
Settle_KeepsPending(h) ==
    /\ At(h, "settle") /\ ~Blocked(h)
    /\ \/ /\ task[h].snap # {}
          /\ \E S \in SUBSET change[Quote(h)] : SignChange(h, S)
          /\ SetQuote(h, "PAID")
          /\ Refreshed(h, "PAID")
          /\ UNCHANGED proofState
       \/ /\ task[h].snap = {} \/ change[Quote(h)] \cap sigs # {}
          /\ Fail(h) /\ UNCHANGED <<proofState, sigs, change, st>>
    /\ UNCHANGED <<proofQuote, mintQuote, leaked, world>>

\* settleTx.  SetProofsState sends a batch, and an empty one is an error.
Settle(h) ==
    /\ At(h, "settle") /\ ~Blocked(h)
    /\ \/ /\ task[h].snap # {}
          /\ \E S \in SUBSET change[Quote(h)] : SignChange(h, S)
          /\ SetSpent(task[h].snap) /\ SetQuote(h, "PAID")
          /\ Refreshed(h, "PAID")
       \/ /\ task[h].snap = {} \/ change[Quote(h)] \cap sigs # {}
          /\ Fail(h) /\ UNCHANGED <<proofState, sigs, change, st>>
    /\ UNCHANGED <<proofQuote, mintQuote, leaked, world>>

\* failedLnTx
Unreserve(h) ==
    /\ At(h, "unreserve") /\ ~Blocked(h)
    /\ SetQuote(h, "UNPAID") /\ DropChange(h) /\ Delete(task[h].snap)
    /\ Refreshed(h, "UNPAID")
    /\ UNCHANGED <<proofQuote, sigs, mintQuote, leaked, world>>

-----------------------------------------------------------------------------
(* reserveMeltInputsAndMarkPending: one transaction, with settleIfInternal *)
(* in it.                                                                  *)

\* Mutation: the inputs were validated, so they are taken to be unspent.
Reservable_TrustsInputs(h) == /\ task[h].outs \cap sigs = {}
                              /\ Quote(h) \in Internal => mintQuote[Quote(h)] = "UNPAID"

Reservable(h) == /\ \A p \in task[h].ins : proofState[p] = "UNSPENT"
                 /\ task[h].outs \cap sigs = {}
                 /\ Quote(h) \in Internal => mintQuote[Quote(h)] = "UNPAID"

\* settleIfInternalMelt: the invoice is one of this mint, nothing is paid.
SettleInternally(h) ==
    /\ Quote(h) \in Internal
    /\ SetQuote(h, "PAID") /\ Goto(h, "finalize")
    /\ mintQuote' = [mintQuote EXCEPT ![Quote(h)] = "PAID"]
    /\ payment' = [payment EXCEPT ![Quote(h)] = "internal"]
    /\ stake' = [stake EXCEPT ![Quote(h)] = task[h].ins]

ReserveProofs(h) ==
    /\ proofState' = [p \in Proofs |->
                        IF p \in task[h].ins THEN "PENDING" ELSE proofState[p]]
    /\ proofQuote' = [p \in Proofs |->
                        IF p \in task[h].ins THEN Quote(h) ELSE proofQuote[p]]
    /\ change' = [change EXCEPT ![Quote(h)] = @ \cup task[h].outs]
    /\ \/ SettleInternally(h)
       \/ /\ Quote(h) \notin Internal
          /\ SetQuote(h, "PENDING") /\ Goto(h, "send")
          /\ UNCHANGED <<mintQuote, world>>

\* A quote that became PENDING or PAID since the refresh: the code returns an
\* error of its own with err still nil, and the deferred rollback does nothing.
Reserve(h) ==
    /\ At(h, "reserve")
    /\ \/ /\ ~Blocked(h) /\ st[Quote(h)] = "UNPAID" /\ Reservable(h)
          /\ ReserveProofs(h) /\ UNCHANGED leaked
       \/ /\ Blocked(h) \/ (st[Quote(h)] = "UNPAID" /\ ~Reservable(h))
          /\ Stop(h) /\ UNCHANGED <<proofState, proofQuote, st, change, mintQuote, world, leaked>>
       \/ /\ ~Blocked(h) /\ st[Quote(h)] # "UNPAID"
          /\ Stop(h) /\ leaked' = leaked \cup {Quote(h)}
          /\ UNCHANGED <<proofState, proofQuote, st, change, mintQuote, world>>
    /\ UNCHANGED <<sigs, host>>

-----------------------------------------------------------------------------
(* attemptBolt11MeltPayment                                                *)

\* PayInvoice reaches the node, which starts a payment unless one is under
\* way or made; the call may also break before.
Send(h) ==
    /\ At(h, "send")
    /\ Goto(h, "paying")
    /\ \/ /\ payment[Quote(h)] \in {"none", "failed"}
          /\ payment' = [payment EXCEPT ![Quote(h)] = "inflight"]
          /\ stake' = [stake EXCEPT ![Quote(h)] = task[h].ins]
       \/ /\ payment[Quote(h)] \notin {"none", "failed"} \/ "lightning" \in Faults
          /\ UNCHANGED world
    /\ UNCHANGED <<tables, leaked, host>>

\* Mutation: only a payment known to have failed is looked up again.
PayReturns_PendingIsPaid(h) ==
    /\ At(h, "paying")
    /\ \/ payment[Quote(h)] # "failed" /\ Goto(h, "finalize")
       \/ payment[Quote(h)] = "failed" /\ Goto(h, "saveId")
    /\ UNCHANGED <<tables, leaked, world, host>>

\* PayInvoice returns success, or anything else: failed, pending, unknown, error.
PayReturns(h) ==
    /\ At(h, "paying")
    /\ \/ payment[Quote(h)] = "settled" /\ Goto(h, "finalize")
       \/ /\ payment[Quote(h)] # "settled" \/ "lightning" \in Faults
          /\ Goto(h, "saveId")
    /\ UNCHANGED <<tables, leaked, world, host>>

\* ChangeCheckingId, in a transaction of its own.
SaveCheckingId(h) == /\ At(h, "saveId") /\ ~Blocked(h)
                     /\ Goto(h, "recheck")
                     /\ UNCHANGED <<tables, leaked, world, host>>

Recheck(h) ==
    /\ At(h, "recheck")
    /\ \/ CheckPayed(Quote(h)) \cap {"PENDING", "SETTLED"} # {} /\ Goto(h, "mark")
       \/ CheckPayed(Quote(h)) \cap {"FAILED", "UNKNOWN"} # {} /\ Goto(h, "release")
       \/ CheckPayedErrs(Quote(h)) /\ Stop(h)
    /\ UNCHANGED <<tables, leaked, world, host>>

Mark(h) == /\ At(h, "mark") /\ ~Blocked(h)
           /\ SetQuote(h, "PENDING") /\ Stop(h)
           /\ UNCHANGED <<proofState, proofQuote, sigs, change, mintQuote, leaked, world, host>>

\* Mutation: the proofs stay reserved.
Release_KeepsProofs(h) == /\ At(h, "release") /\ ~Blocked(h)
                          /\ SetQuote(h, "UNPAID") /\ DropChange(h)
                          /\ Stop(h)
                          /\ UNCHANGED <<proofState, proofQuote, sigs, mintQuote,
                                         leaked, world, host>>

Release(h) == /\ At(h, "release") /\ ~Blocked(h)
              /\ SetQuote(h, "UNPAID") /\ DropChange(h) /\ Delete(task[h].ins)
              /\ Stop(h)
              /\ UNCHANGED <<proofQuote, sigs, mintQuote, leaked, world, host>>

\* Mutation: the quote is marked, the proofs are forgotten.
Finalize_KeepsProofs(h) ==
    /\ At(h, "finalize") /\ ~Blocked(h)
    /\ \/ /\ \E S \in SUBSET task[h].outs : SignChange(h, S)
          /\ SetQuote(h, "PAID") /\ Delete(task[h].ins)
       \/ /\ task[h].outs \cap sigs # {}
          /\ UNCHANGED <<proofState, sigs, change, st>>
    /\ Stop(h)
    /\ UNCHANGED <<proofQuote, mintQuote, leaked, world, host>>

\* finalizePaidBolt11Melt
Finalize(h) ==
    /\ At(h, "finalize") /\ ~Blocked(h)
    /\ \/ /\ \E S \in SUBSET task[h].outs : SignChange(h, S)
          /\ SetQuote(h, "PAID") /\ SetSpent(task[h].ins)
       \/ /\ task[h].outs \cap sigs # {}                      \* UNIQUE("B_")
          /\ UNCHANGED <<proofState, sigs, change, st>>
    /\ Stop(h)
    /\ UNCHANGED <<proofQuote, mintQuote, leaked, world, host>>

Step(h) == \/ ReadQuote(h) \/ Check(h) \/ Settle(h) \/ Unreserve(h)
           \/ Reserve(h) \/ Send(h) \/ PayReturns(h) \/ SaveCheckingId(h)
           \/ Recheck(h) \/ Mark(h) \/ Release(h) \/ Finalize(h)

-----------------------------------------------------------------------------
(* The process, the lightning network and the rest of the mint.            *)

\* Startup: the pending quotes one after the other, before any request.
StartUp == /\ node = "down"
           /\ todo' = {q \in Quotes : st[q] = "PENDING"}
           /\ node' = IF todo' = {} THEN "up" ELSE "starting"
           /\ UNCHANGED <<tables, leaked, world, task>>

BootTakes(q) == /\ node = "starting" /\ q \in todo
                /\ Take(Boot, q, {}, {})
                /\ UNCHANGED <<tables, leaked, world, host>>

\* Any statement may fail: the open transaction is rolled back and the
\* goroutine returns an error.  So it does when a COMMIT takes effect but its
\* answer is lost: that is the step followed by this one.
DatabaseFails(h) ==
    /\ "database" \in Faults /\ Busy(h) /\ task[h].at \notin {"check", "paying"}
    /\ Fail(h)
    /\ UNCHANGED <<tables, leaked, world>>

Crash == /\ "crash" \in Faults /\ node # "down"
         /\ node' = "down" /\ todo' = {} /\ leaked' = {}
         /\ task' = [h \in Procs |-> IF Busy(h) THEN Gone(h) ELSE task[h]]
         /\ UNCHANGED <<tables, world>>

PaymentEnds(q) == /\ payment[q] = "inflight"
                  /\ \E r \in {"settled", "failed"} : payment' = [payment EXCEPT ![q] = r]
                  /\ UNCHANGED <<tables, leaked, stake, task, host>>

\* Somebody outside pays the invoice of the mint quote first.
PaidFromOutside(q) ==
    /\ q \in Internal /\ mintQuote[q] = "UNPAID"
    /\ mintQuote' = [mintQuote EXCEPT ![q] = "PAID"]
    /\ UNCHANGED <<proofState, proofQuote, sigs, st, change, leaked, world, task, host>>

\* What happens while the process lives, or starts.
Acts ==
    \/ \E h \in Melters, q \in Quotes, I \in SUBSET Proofs :
          \E O \in SUBSET Blanks[h] : I # {} /\ StartMelt(h, q, I, O)
    \/ \E h \in Pollers, q \in Quotes : StartPoll(h, q)
    \/ \E h \in Procs : Step(h) \/ DatabaseFails(h)
    \/ \E q \in Quotes : Watch(q) \/ BootTakes(q) \/ PaymentEnds(q) \/ PaidFromOutside(q)
    \/ StartUp

Next == Acts \/ Crash

Spec == Init /\ [][Next]_vars

\* Goroutines run, payments end, and a wallet keeps asking for its quote.
FairSpec ==
    /\ Spec
    /\ \A h \in Procs : WF_vars(Step(h))
    /\ \A q \in Quotes : /\ WF_vars(PaymentEnds(q))
                         /\ SF_vars(\E h \in Pollers : StartPoll(h, q))

-----------------------------------------------------------------------------
Paid(q) == payment[q] \in {"settled", "internal"}

\* A payment that went out, and is not known to have failed, is covered: its
\* quote is not UNPAID, and the inputs that pay for it are out of circulation
\* under that quote and worth enough ("Commit all blind messages and proofs as
\* pending before going over the network", melting.go 571).
Covered == \A q \in Quotes :
    payment[q] = "inflight" \/ Paid(q) =>
        /\ st[q] # "UNPAID"
        /\ WorthOf(stake[q]) >= Need[q]
        /\ \A p \in stake[q] : proofState[p] # "UNSPENT" /\ proofQuote[p] = q

\* A quote is called PAID only if it was (GET /v1/melt/quote, websocket).
PaidQuoteIsPaid == \A q \in Quotes : st[q] = "PAID" => Paid(q)

\* A quote that is UNPAID has no proofs: the wallet that retries with them is
\* not refused for its own earlier attempt.
UnpaidHoldsNothing == \A q \in Quotes : st[q] = "UNPAID" => ProofsOf(q) = {}

\* Whatever the interleaving, whoever signs change signs blank outputs of the
\* quote it acts for, whose invoice was paid, in the step that marks it PAID.
ChangeFollowsPayment == [][\A b \in sigs' \ sigs : \E h \in Procs :
    /\ task'[h] # task[h]
    /\ b \in change[Quote(h)] \cup task[h].outs
    /\ Paid(Quote(h)) /\ st'[Quote(h)] = "PAID"]_vars

\* A quote once PAID is not melted again nor reconciled again by an operation
\* that comes after; one that overlaps may write PENDING over it.
PaidIsFinal == [][\A q \in Quotes : st[q] = "PAID" => st'[q] = "PAID"]_vars

\* The ledger the mint promises.
L == INSTANCE Ledger
Ledger == L!LedgerSpec

\* Why ecash may stay reserved for ever, without any fault: an abandoned
\* transaction keeps the row of its quote locked (melting.go 521, bolt11.go 52);
\* a blank output of the quote was signed for another one, and UNIQUE("B_")
\* refuses to settle it; or an operation acts on what it read before: it gave
\* back the proofs of another, called UNPAID a quote that another reserved for,
\* or settles the quote with other proofs than those reserved for it by now.
Locked(q)     == q \in leaked
BlankTaken(q) == change[q] \cap sigs # {}
Parted(q)     ==
    \/ st[q] = "PENDING" /\ ProofsOf(q) = {}
    \/ st[q] = "UNPAID"  /\ ProofsOf(q) # {}
    \/ \E h \in Procs : Quote(h) = q /\ \/ At(h, "settle")   /\ task[h].snap # ProofsOf(q)
                                        \/ At(h, "finalize") /\ task[h].ins  # ProofsOf(q)

Stuck(q) == Locked(q) \/ BlankTaken(q) \/ Parted(q)

\* The quote of p is not settled, or it is one of this mint, which is marked
\* PAID before its proofs are spent.
Waits(p) == proofState[p] = "PENDING" /\ \E q \in Quotes :
                proofQuote[p] = q /\ (st[q] = "PENDING" \/ payment[q] = "internal")

\* When no call fails, and however requests, polls and subscriptions overlap,
\* reserved proofs are spent or given back, and their quote is no longer PENDING,
\* unless it is stuck for one of the three reasons above.
PendingProofResolves == \A p \in Proofs : Waits(p) ~>
    \/ /\ proofState[p] # "PENDING"
       /\ \A q \in Quotes : proofQuote[p] = q => st[q] # "PENDING"
    \/ \E q \in Quotes : proofQuote[p] = q /\ Stuck(q)
=============================================================================
