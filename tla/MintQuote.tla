----------------------------- MODULE MintQuote ------------------------------
(***************************************************************************)
(* Minting (internal/mint/minting.go): an invoice is paid, and the wallet  *)
(* that asked for it draws the amount as blind signatures.                 *)
(*                                                                         *)
(* POST /v1/mint/bolt11 (IssueTokens) and GET /v1/mint/quote/bolt11/{id}   *)
(* (RefreshMintQuoteStatus) read the quote in one transaction and write it *)
(* in a later one, with the lightning backend or the signer in between.    *)
(* The later one does not look at what the quote has become.               *)
(*                                                                         *)
(* "minted" is not a variable: the code writes it together with the state, *)
(* and it is true exactly when the state is ISSUED.                        *)
(***************************************************************************)
EXTENDS Sums

CONSTANTS Minters,      \* goroutines that serve one POST /v1/mint/bolt11 each
          Pollers,      \* clients that ask for the state of a quote, repeatedly
          Quotes, Outputs, NoQuote,
          QuoteAmount,  \* of the invoice
          OutputAmount,
          Serial,       \* TRUE: operations on one quote never overlap
          Faults        \* what may go wrong around the handlers

FaultKinds == {"database", "lightning", "crash"}
Procs      == Minters \cup Pollers

ASSUME MintAssumption ==
    /\ Minters \cap Pollers = {} /\ NoQuote \notin Quotes
    /\ QuoteAmount \in [Quotes -> Nat \ {0}] /\ OutputAmount \in [Outputs -> Nat \ {0}]
    /\ IsFiniteSet(Quotes) /\ IsFiniteSet(Outputs)
    /\ Serial \in BOOLEAN /\ Faults \subseteq FaultKinds

VARIABLES
    state,      \* table mint_request; "none" is a quote without a row
    sigs,       \* table recovery_signature
    invoice,    \* the lightning node: the invoice of each quote
    internal,   \* quotes a melt of this mint has paid
    issued,     \* history: what was signed for each quote, one set each time
    task        \* each goroutine: where it is, what it asks, what it read

tables == <<state, sigs, issued>>
paid   == <<invoice, internal>>
vars   == <<tables, paid, task>>

States == {"none", "UNPAID", "PAID", "ISSUED"}
Steps  == {"load", "outputs", "ask", "write", "sign"}

Task == [at : {"idle", "ended"} \cup Steps, quote : Quotes \cup {NoQuote},
         outs : SUBSET Outputs, read : States,
         status : {"none", "SETTLED", "PENDING", "FAILED"}]

NoTask(where) ==
    [at |-> where, quote |-> NoQuote, outs |-> {}, read |-> "none", status |-> "none"]

TypeOK == /\ state \in [Quotes -> States]
          /\ sigs \subseteq Outputs
          /\ invoice \in [Quotes -> {"none", "open", "settled", "canceled"}]
          /\ internal \subseteq Quotes
          /\ issued \in [Quotes -> SUBSET SUBSET Outputs]
          /\ task \in [Procs -> Task]

Init == /\ state = [q \in Quotes |-> "none"]
        /\ sigs = {} /\ internal = {}
        /\ invoice = [q \in Quotes |-> "none"]
        /\ issued = [q \in Quotes |-> {}]
        /\ task = [h \in Procs |-> NoTask("idle")]

-----------------------------------------------------------------------------
At(h, where)   == task[h].at = where
Busy(h)        == task[h].at \in Steps
Quote(h)       == task[h].quote
Alone(q)       == \A h \in Procs : Busy(h) => Quote(h) # q
Goto(h, where) == task' = [task EXCEPT ![h].at = where]
Gone(h)        == NoTask(IF h \in Minters THEN "ended" ELSE "idle")
Stop(h)        == task' = [task EXCEPT ![h] = Gone(h)]

WorthOf(O) == SumOf(O, OutputAmount)

\* createBolt11MintQuote: the invoice comes from the node, then the quote is
\* stored and told to the wallet.  An invoice whose quote could not be stored
\* is never told to anyone.
CreateMintQuote(q) ==
    /\ state[q] = "none"
    /\ state' = [state EXCEPT ![q] = "UNPAID"]
    /\ invoice' = [invoice EXCEPT ![q] = "open"]
    /\ UNCHANGED <<sigs, issued, internal, task>>

Take(h, q, O) ==
    /\ At(h, "idle") /\ state[q] # "none"
    /\ Serial => Alone(q)
    /\ task' = [task EXCEPT ![h] = [NoTask("load") EXCEPT !.quote = q, !.outs = O]]
    /\ UNCHANGED <<tables, paid>>

-----------------------------------------------------------------------------
(* loadAndValidateMintQuoteForIssuance and the first half of              *)
(* RefreshMintQuoteStatus.                                                 *)

\* Mutation: a poll only reads.
Goes_PollReads(h, s) == IF h \in Minters /\ s # "ISSUED" THEN "outputs" ELSE "ended"

\* Mutation: a poll asks the node whatever it read.
Goes_PollAlwaysAsks(h, s) ==
    CASE h \in Minters /\ s # "ISSUED"    -> "outputs"
      [] h \in Pollers                    -> "ask"
      [] OTHER                            -> "ended"

\* Where a goroutine goes that has read its quote in state s: one that asks
\* for signatures is refused if they were issued, one that polls is done
\* unless the quote is UNPAID.
Goes(h, s) ==
    CASE h \in Minters /\ s # "ISSUED"    -> "outputs"
      [] h \in Pollers /\ s = "UNPAID"    -> "ask"
      [] OTHER                            -> "ended"

Load(h) ==
    LET s == state[Quote(h)] IN
    /\ At(h, "load")
    /\ \/ Goes(h, s) = "ended" /\ Stop(h)
       \/ /\ Goes(h, s) # "ended"
          /\ task' = [task EXCEPT ![h].at = Goes(h, s), ![h].read = s]
    /\ UNCHANGED <<tables, paid>>

\* Mutation: less than the invoice is enough.
Matches_AtLeast(h) == /\ task[h].outs \cap sigs = {}
                      /\ WorthOf(task[h].outs) >= QuoteAmount[Quote(h)]

\* ValidateOutputsNotSpent, then "Mint outputs must match the invoice amount
\* exactly" in bolt11Mint.
Matches(h) == /\ task[h].outs \cap sigs = {}
              /\ WorthOf(task[h].outs) = QuoteAmount[Quote(h)]

CheckOutputs(h) ==
    /\ At(h, "outputs")
    /\ \/ Matches(h) /\ task[h].read = "PAID" /\ Goto(h, "sign")
       \/ Matches(h) /\ task[h].read # "PAID" /\ Goto(h, "ask")
       \/ ~Matches(h) /\ Stop(h)
    /\ UNCHANGED <<tables, paid>>

-----------------------------------------------------------------------------
(* reconcileBolt11MintQuoteState                                           *)

\* What the node says of an invoice.
CheckReceived(q) == CASE invoice[q] = "settled"  -> "SETTLED"
                      [] invoice[q] = "canceled" -> "FAILED"
                      [] OTHER                   -> "PENDING"

Ask(h) ==
    /\ At(h, "ask")
    /\ \/ task' = [task EXCEPT ![h].at = "write", ![h].status = CheckReceived(Quote(h))]
       \/ "lightning" \in Faults /\ Stop(h)
    /\ UNCHANGED <<tables, paid>>

\* Mutation: an invoice that is still open is taken as paid.
Reconciled_PendingIsPaid(status, s) ==
    CASE status \in {"SETTLED", "PENDING"} -> "PAID"
      [] status = "FAILED"  -> "UNPAID"
      [] OTHER              -> s

\* The state the quote gets, whatever it is by now; PENDING leaves it alone.
Reconciled(status, s) == CASE status = "SETTLED" -> "PAID"
                           [] status = "FAILED"  -> "UNPAID"
                           [] OTHER              -> s

\* The quote is written and read again in one transaction.
Write(h) ==
    LET s == Reconciled(task[h].status, state[Quote(h)]) IN
    /\ At(h, "write")
    /\ state' = [state EXCEPT ![Quote(h)] = s]
    /\ \/ h \in Minters /\ s = "PAID" /\ Goto(h, "sign")
       \/ ~(h \in Minters /\ s = "PAID") /\ Stop(h)
    /\ UNCHANGED <<sigs, issued, paid>>

-----------------------------------------------------------------------------
\* Mutation: the state of the quote is not written.
MarkIssued_KeepsState(h) ==
    /\ task[h].outs \cap sigs = {}
    /\ state' = state
    /\ sigs' = sigs \cup task[h].outs
    /\ issued' = [issued EXCEPT ![Quote(h)] = @ \cup {task[h].outs}]

\* signMintOutputsAndMarkIssued: UNIQUE("B_") refuses a message signed meanwhile.
MarkIssued(h) ==
    /\ task[h].outs \cap sigs = {}
    /\ state' = [state EXCEPT ![Quote(h)] = "ISSUED"]
    /\ sigs' = sigs \cup task[h].outs
    /\ issued' = [issued EXCEPT ![Quote(h)] = @ \cup {task[h].outs}]

Sign(h) ==
    /\ At(h, "sign")
    /\ \/ MarkIssued(h)
       \/ task[h].outs \cap sigs # {} /\ UNCHANGED tables
    /\ Stop(h)
    /\ UNCHANGED paid

Step(h) == Load(h) \/ CheckOutputs(h) \/ Ask(h) \/ Write(h) \/ Sign(h)

-----------------------------------------------------------------------------
(* The payers, the node, faults.                                           *)

Pay(q)    == /\ invoice[q] = "open"
             /\ invoice' = [invoice EXCEPT ![q] = "settled"]
             /\ UNCHANGED <<tables, internal, task>>

\* The node cancels an invoice when it expires.
Expire(q) == /\ invoice[q] = "open"
             /\ invoice' = [invoice EXCEPT ![q] = "canceled"]
             /\ UNCHANGED <<tables, internal, task>>

\* settleIfInternalMelt: a melt of this mint pays the invoice; see Melt.
SettleInternally(q) ==
    /\ state[q] = "UNPAID"
    /\ Serial => Alone(q)
    /\ state' = [state EXCEPT ![q] = "PAID"]
    /\ internal' = internal \cup {q}
    /\ UNCHANGED <<sigs, issued, invoice, task>>

\* A statement or the signer fails: the transaction is rolled back, the
\* goroutine returns an error.  A COMMIT whose answer is lost is the step
\* followed by this one.
DatabaseFails(h) == /\ "database" \in Faults /\ Busy(h)
                    /\ Stop(h)
                    /\ UNCHANGED <<tables, paid>>

Crash == /\ "crash" \in Faults
         /\ task' = [h \in Procs |-> IF Busy(h) THEN Gone(h) ELSE task[h]]
         /\ UNCHANGED <<tables, paid>>

Next == \/ \E h \in Minters, q \in Quotes, O \in SUBSET Outputs : O # {} /\ Take(h, q, O)
        \/ \E h \in Pollers, q \in Quotes : Take(h, q, {})
        \/ \E h \in Procs : Step(h) \/ DatabaseFails(h)
        \/ \E q \in Quotes : \/ CreateMintQuote(q) \/ Pay(q) \/ Expire(q)
                             \/ SettleInternally(q)
        \/ Crash

Spec == Init /\ [][Next]_vars

\* Goroutines run, and a wallet keeps asking for the quote it waits for.
FairSpec == /\ Spec
            /\ \A h \in Procs : WF_vars(Step(h))
            /\ \A q \in Quotes : SF_vars(\E h \in Pollers : Take(h, q, {}))

-----------------------------------------------------------------------------
Paid(q) == invoice[q] = "settled" \/ q \in internal

\* Nothing is signed for a quote whose invoice nobody paid.
IssuedOnlyIfPaid == \A q \in Quotes : issued[q] # {} => Paid(q)

\* No ecash from nothing: what was signed is worth no more than what was paid.
NoInflation ==
    WorthOf(sigs) <= SumOf({q \in Quotes : Paid(q)}, QuoteAmount)

\* A quote is drawn once ("try to remint tokens with other blinded
\* signatures" must fail, cmd/nutmix/main_test.go 300).
IssuedOnce == \A q \in Quotes : Cardinality(issued[q]) <= 1

\* Who has paid is not asked again: a quote never falls back from PAID, and
\* never leaves ISSUED.
PaidStaysPaid == [][\A q \in Quotes :
    /\ state[q] = "PAID" => state'[q] \in {"PAID", "ISSUED"}
    /\ state[q] = "ISSUED" => state'[q] = "ISSUED"]_vars

\* What the mint promises.  A quote is credited when the mint records the
\* payment: before that, the wallet cannot draw on it.
I == INSTANCE Issuance WITH
        OutputWorth <- WorthOf,
        credit <- [q \in Quotes |-> CASE state[q] = "ISSUED" -> "drawn"
                                      [] state[q] = "PAID"   -> "credited"
                                      [] OTHER               -> "open"]
Issuance == I!IssuanceSpec

\* A wallet that paid over lightning and keeps asking learns of it, unless the
\* payment was recorded and lost again.
PaymentIsSeen == \A q \in Quotes :
    invoice[q] = "settled" ~> state[q] \in {"PAID", "ISSUED"}
=============================================================================
