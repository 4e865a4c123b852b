------------------------------ MODULE Backends ------------------------------
(***************************************************************************)
(* The lightning backends (internal/lightning) under one melt quote: what  *)
(* PayInvoice and CheckPayed make of the answers of the node behind them,  *)
(* and what payBolt11Melt and RefreshMeltQuoteState make of theirs.  The   *)
(* backends differ in how they say that the node knows no payment, and in  *)
(* which of several attempts at one invoice they tell about.               *)
(*                                                                         *)
(* The tables behind the quote, other requests and the time between a      *)
(* look-up and the transaction that follows it are in Melt; here a look-up *)
(* and what is written after it are one step.                              *)
(***************************************************************************)
EXTENDS Naturals, Sequences

CONSTANTS MaxCalls   \* bound on the calls of PayInvoice

ASSUME BackendsAssumption == MaxCalls \in Nat

VARIABLES backend,     \* the one that is configured
          mpp,         \* the quote is for a part of the invoice
          attempts,    \* at the node, of this invoice, the oldest first
          transit,     \* calls that left the mint and have not got there
          meltState,   \* of the quote
          checkingId,  \* of the quote: the payment quote, an attempt, or ""
          request,     \* where the goroutine of the melt request stands
          early        \* history: asked for a payment while its call was under way

backendVars == <<backend, mpp, attempts, transit, meltState, checkingId, request, early>>

AttemptStates == {"IN_FLIGHT", "SUCCEEDED", "FAILED"}

BackendsTypeOK ==
    /\ backend \in {"lnd", "cln", "lnbits", "strike"}
    /\ mpp \in BOOLEAN /\ early \in BOOLEAN
    /\ attempts \in Seq(AttemptStates)
    /\ transit \in Nat
    /\ meltState \in {"UNPAID", "PENDING", "PAID"}
    /\ checkingId \in Nat       \* 0 the payment quote, MaxCalls + 1 nothing
    /\ request \in {"none", "asks", "pays", "recheck", "spins"}

BackendStarts(which, partly) == /\ backend = which /\ mpp = partly
                                /\ attempts = <<>> /\ transit = 0
                                /\ meltState = "UNPAID" /\ checkingId = 0
                                /\ request = "none" /\ early = FALSE

\* ActiveMPP: two backends pay parts of an invoice.
BackendsInit == \/ \E which \in {"lnd", "cln", "lnbits", "strike"} : BackendStarts(which, FALSE)
                \/ \E which \in {"lnd", "cln"} : BackendStarts(which, TRUE)

Nothing == MaxCalls + 1
Latest == attempts[Len(attempts)]
Known == attempts # <<>>

\* The words of a node in those of PaymentStatus.
PaymentState(attempt) == CASE attempt = "IN_FLIGHT" -> "PENDING"
                           [] attempt = "SUCCEEDED" -> "SETTLED"
                           [] attempt = "FAILED" -> "FAILED"

-----------------------------------------------------------------------------
\* LND tracks a payment hash; one it does not know is an error.
LndCheckPayed == IF Known THEN PaymentState(Latest) ELSE "error"

\* CLN lists the payments of a hash: the first one decides, none is PENDING.
ClnCheckPayed == IF Known THEN PaymentState(attempts[1]) ELSE "PENDING"

\* LNbits: what is neither paid nor pending failed, "Payment does not exist." too.
LnbitsCheckPayed == CASE Known /\ Latest = "SUCCEEDED" -> "SETTLED"
                      [] Known /\ Latest = "IN_FLIGHT" -> "PENDING"
                      [] OTHER -> "FAILED"

\* Strike looks up the checking id of the quote, if that is a payment.
StrikeCheckPayed == IF checkingId \in DOMAIN attempts THEN PaymentState(attempts[checkingId])
                                                      ELSE "error"

CheckPayed == CASE backend = "lnd" -> LndCheckPayed
                [] backend = "cln" -> ClnCheckPayed
                [] backend = "lnbits" -> LnbitsCheckPayed
                [] backend = "strike" -> StrikeCheckPayed

\* A look-up, which may also fail.
Answers == {CheckPayed, "error"}
Asked == early' = (early \/ (transit > 0) \/ (request = "asks"))

-----------------------------------------------------------------------------
\* Strike executes the payment quote that the checking id names at first.
QuoteIsNamed == backend = "strike" => checkingId = 0

\* The quote is reserved and PayInvoice called; CLN is asked first.
Reserve ==
    /\ meltState = "UNPAID" /\ request \in {"none", "spins"}
    /\ Len(attempts) + transit < MaxCalls
    /\ meltState' = "PENDING"
    /\ request' = IF backend = "cln" THEN "asks" ELSE "pays"
    /\ transit' = IF backend = "cln" \/ ~QuoteIsNamed THEN transit ELSE transit + 1
    /\ UNCHANGED <<backend, mpp, attempts, checkingId, early>>

\* CLN's PayInvoice: an invoice that is already paid, and a look-up that
\* fails, are errors.
ClnAsksFirst ==
    /\ request = "asks"
    /\ \E answer \in Answers :
          IF answer \in {"SETTLED", "error"}
          THEN request' = "recheck" /\ checkingId' = Nothing /\ UNCHANGED transit
          ELSE request' = "pays" /\ transit' = transit + 1 /\ UNCHANGED checkingId
    /\ UNCHANGED <<backend, mpp, attempts, meltState, early>>

\* The call gets to the node.  A node does not pay one invoice twice.
Arrives ==
    /\ transit > 0 /\ transit' = transit - 1
    /\ attempts' = IF \E i \in DOMAIN attempts : attempts[i] # "FAILED" THEN attempts
                   ELSE Append(attempts, "IN_FLIGHT")
    /\ UNCHANGED <<backend, mpp, meltState, checkingId, request, early>>

\* The call is lost or refused: no route, no connection.
Refused == /\ transit > 0 /\ transit' = transit - 1
           /\ UNCHANGED <<backend, mpp, attempts, meltState, checkingId, request, early>>

\* An attempt ends one way or the other.
AttemptEnds ==
    /\ \E i \in DOMAIN attempts, end \in {"SUCCEEDED", "FAILED"} :
          attempts[i] = "IN_FLIGHT" /\ attempts' = [attempts EXCEPT ![i] = end]
    /\ UNCHANGED <<backend, mpp, transit, meltState, checkingId, request, early>>

-----------------------------------------------------------------------------
\* What PayInvoice answers of the attempt it made.
PayInvoice == PaymentState(Latest)

\* payBolt11Melt: the node answered that the invoice is paid.
PayReturnsSettled ==
    /\ request = "pays" /\ QuoteIsNamed
    /\ Known /\ transit = 0 /\ PayInvoice = "SETTLED"
    /\ meltState' = "PAID" /\ request' = "none"
    /\ UNCHANGED <<backend, mpp, attempts, transit, checkingId, early>>

\* Any other answer is checked again, under the checking id it came with:
\* Strike's is the payment, an error's is empty.  LND's stream goes on while
\* the payment is in flight.
PayReturnsOther ==
    /\ request = "pays"
    /\ \/ /\ Known /\ transit = 0 /\ PayInvoice # "SETTLED" /\ QuoteIsNamed
          /\ backend = "lnd" => Latest = "FAILED"
          /\ checkingId' = IF backend = "strike" THEN Len(attempts) ELSE checkingId
       \/ checkingId' = Nothing
    /\ request' = "recheck"
    /\ UNCHANGED <<backend, mpp, attempts, transit, meltState, early>>

\* lndGrpcPayPartialInvoice looks at one answer of the node again and again if
\* it was a temporary failure or an attempt in flight.
LndSpins ==
    /\ request = "pays" /\ backend = "lnd" /\ mpp
    /\ Known /\ transit = 0 /\ Latest # "SUCCEEDED"
    /\ request' = "spins"
    /\ UNCHANGED <<backend, mpp, attempts, transit, meltState, checkingId, early>>

\* Mutation: a look-up that fails counts as a payment that failed.
RecheckPayment_ErrorIsFailure ==
    /\ request = "recheck" /\ request' = "none"
    /\ \E answer \in Answers :
          meltState' = CASE answer \in {"FAILED", "error"} -> "UNPAID"
                         [] OTHER -> "PENDING"
    /\ Asked
    /\ UNCHANGED <<backend, mpp, attempts, transit, checkingId>>

\* payBolt11Melt after anything but SETTLED: only FAILED releases the proofs.
RecheckPayment ==
    /\ request = "recheck" /\ request' = "none"
    /\ \E answer \in Answers :
          meltState' = CASE answer = "FAILED" -> "UNPAID"
                         [] answer = "error" -> meltState
                         [] OTHER -> "PENDING"
    /\ Asked
    /\ UNCHANGED <<backend, mpp, attempts, transit, checkingId>>

\* RefreshMeltQuoteState, by a poll, another request or the start of the mint.
Poll ==
    /\ meltState = "PENDING"
    /\ \E answer \in Answers :
          meltState' = CASE answer = "SETTLED" -> "PAID"
                         [] answer = "FAILED" -> "UNPAID"
                         [] OTHER -> "PENDING"
    /\ Asked
    /\ UNCHANGED <<backend, mpp, attempts, transit, checkingId, request>>

\* The process ends; a call that left it goes on.
BackendsCrash == /\ request # "none" /\ request' = "none"
                 /\ UNCHANGED <<backend, mpp, attempts, transit, meltState, checkingId, early>>

BackendsNext ==
    \/ Reserve \/ ClnAsksFirst \/ PayReturnsSettled \/ PayReturnsOther \/ LndSpins
    \/ RecheckPayment \/ Poll \/ BackendsCrash
    \/ Arrives \/ Refused \/ AttemptEnds

BackendsSpec == BackendsInit /\ [][BackendsNext]_backendVars

-----------------------------------------------------------------------------
Paid == \E i \in DOMAIN attempts : attempts[i] = "SUCCEEDED"
MayBePaid == \E i \in DOMAIN attempts : attempts[i] # "FAILED"

\* A quote is PAID only if the node paid.  It is UNPAID, its proofs released,
\* only if no attempt is under way or succeeded, but for what each backend
\* cannot tell: LNbits a call under way from a payment that failed, LND such a
\* call from the failed attempt before it, CLN any attempt from the first.
QuoteMatchesNode ==
    /\ meltState = "PAID" => Paid
    /\ meltState = "UNPAID" /\ MayBePaid =>
          \/ backend = "lnbits" /\ early
          \/ backend = "lnd" /\ early /\ Len(attempts) > 1
          \/ backend = "cln" /\ Len(attempts) > 1
=============================================================================
