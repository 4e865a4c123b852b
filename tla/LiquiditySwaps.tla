--------------------------- MODULE LiquiditySwaps ---------------------------
(***************************************************************************)
(* Liquidity swaps of the administrator (internal/routes/admin/            *)
(* liquidity-manager.go and crons.go): an out swap is confirmed and then   *)
(* paid by its handler, an in swap waits for a payment.  A checker loop    *)
(* keeps a list of swaps, is handed new ones over an unbuffered channel,   *)
(* asks the node about each and writes what it concludes from the state it *)
(* read before it asked.                                                   *)
(***************************************************************************)
EXTENDS Integers

CONSTANTS OutSwaps, InSwaps,
          Handlers,   \* requests that confirm an out swap or make an in swap
          Absent      \* what the node may answer of a payment it does not know:
                      \* UNKNOWN (LND), FAILED (LNbits) or PENDING (CLN)

ASSUME LiquidityAssumption == /\ OutSwaps \cap InSwaps = {}
                              /\ Absent \subseteq {"UNKNOWN", "FAILED", "PENDING"}

VARIABLES
    swapState,  \* table liquidity_swaps
    shared,     \* transactions that hold the row FOR SHARE, by their handler
    payment,    \* "none" yet, "in transit" to the node, "refused" (or never heard
                \* of) by it; or "in flight", "settled", "failed"
    calls,      \* history: calls of PayInvoice
    hasty,      \* history: swaps called failed before the payment reached the node
    handler,    \* [at, swap, verdict] of each request
    checker,    \* [at, swap, verdict] of the loop
    watched     \* the checker's list

swapRow       == <<swapState, shared>>
node          == <<payment, calls, hasty>>
liquidityVars == <<swapRow, node, handler, checker, watched>>

Swaps  == OutSwaps \cup InSwaps
States == {"none", "WaitingUserConfirmation", "MintWaitingPaymentRecv",
           "LightningPaymentPending", "LightningPaymentFail", "Finished"}

Stages == {"idle", "mark", "hand over", "pay", "paying", "recheck", "write", "finish", "ended"}

LiquidityTypeOK ==
    /\ swapState \in [Swaps -> States]
    /\ shared \in [Swaps -> SUBSET Handlers]
    /\ payment \in [Swaps -> {"none", "in transit", "refused", "in flight",
                           "settled", "failed"}]
    /\ calls \in [Swaps -> Nat]
    /\ hasty \subseteq Swaps
    /\ handler \in [Handlers -> [at : Stages, swap : Swaps \cup {"none"}, verdict : States]]
    /\ checker \in [at : {"off", "gone", "idle", "ask", "write"},
                    swap : Swaps \cup {"none"}, verdict : States]
    /\ watched \subseteq Swaps

LiquidityInit ==
    /\ swapState = [s \in Swaps |-> "none"]
    /\ shared = [s \in Swaps |-> {}]
    /\ payment = [s \in Swaps |-> "none"]
    /\ calls = [s \in Swaps |-> 0]
    /\ hasty = {}
    /\ handler = [h \in Handlers |-> [at |-> "idle", swap |-> "none", verdict |-> "none"]]
    /\ checker = [at |-> "off", swap |-> "none", verdict |-> "none"]
    /\ watched = {}

-----------------------------------------------------------------------------
(* What the node answers, and the state it stands for.                     *)

Statuses(s) == CASE payment[s] = "settled"   -> {"SETTLED"}
                 [] payment[s] = "in flight" -> {"PENDING"}
                 [] payment[s] = "failed"    -> {"FAILED"}
                 [] OTHER -> IF s \in InSwaps THEN {"PENDING"} ELSE Absent

\* Someone concludes from the answer what became of the payment.
Concludes(s, state) ==
    /\ hasty' = IF state = "LightningPaymentFail" /\ payment[s] \in {"none", "in transit"}
                THEN hasty \cup {s} ELSE hasty
    /\ UNCHANGED <<payment, calls>>

\* Mutation: UNKNOWN is taken for a payment that was made.
CheckedState_Unknown(status, old) == IF status = "FAILED" THEN "LightningPaymentFail"
    ELSE IF status = "PENDING" THEN "LightningPaymentPending" ELSE "Finished"

\* The checker: an UNKNOWN leaves the state it read.
CheckedState(status, old) == CASE status = "SETTLED" -> "Finished"
                               [] status = "PENDING" -> "LightningPaymentPending"
                               [] status = "FAILED"  -> "LightningPaymentFail"
                               [] OTHER              -> old

\* The confirmation, after PayInvoice did not report a success.
RecheckedState(status) == IF status \in {"PENDING", "SETTLED"}
                          THEN "LightningPaymentPending" ELSE "LightningPaymentFail"

\* An UPDATE waits for every other transaction that holds the row FOR SHARE.
Writable(s, mine) == shared[s] \subseteq mine

\* Mutation: a status of the node is stored where a state belongs.
ChangeState_Status(s, state) ==
    swapState' = [swapState EXCEPT ![s] = IF state = "Finished" THEN "SETTLED" ELSE state]

ChangeState(s, state) == swapState' = [swapState EXCEPT ![s] = state]

Go(h, where) == handler' = [handler EXCEPT ![h].at = where]

-----------------------------------------------------------------------------
(* The administrator's requests.                                           *)

SwapOutRequest(s) == /\ s \in OutSwaps /\ swapState[s] = "none"
                     /\ ChangeState(s, "WaitingUserConfirmation")
                     /\ UNCHANGED <<shared, node, handler, checker, watched>>

SwapInRequest(h, s) ==
    /\ s \in InSwaps /\ swapState[s] = "none" /\ handler[h].at = "idle"
    /\ ChangeState(s, "MintWaitingPaymentRecv")
    /\ handler' = [handler EXCEPT ![h].at = "hand over", ![h].swap = s]
    /\ UNCHANGED <<shared, node, checker, watched>>

\* Mutation: GetLiquiditySwapById without FOR SHARE.
ConfirmReads_NoShare(h, s) ==
    /\ s \in OutSwaps /\ swapState[s] = "WaitingUserConfirmation"
    /\ handler[h].at = "idle"
    /\ handler' = [handler EXCEPT ![h].at = "mark", ![h].swap = s]
    /\ UNCHANGED <<swapRow, node, checker, watched>>

\* ConfirmSwapOutTransaction reads the row FOR SHARE.  A swap that is not
\* waiting is refused with err nil: the transaction, and its lock, stay.
ConfirmReads(h, s) ==
    /\ s \in OutSwaps /\ swapState[s] # "none" /\ handler[h].at = "idle"
    /\ shared' = [shared EXCEPT ![s] = @ \cup {h}]
    /\ handler' = [handler EXCEPT ![h].swap = s,
          ![h].at = IF swapState[s] = "WaitingUserConfirmation" THEN "mark" ELSE "ended"]
    /\ UNCHANGED <<swapState, node, checker, watched>>

ConfirmMarks(h) == LET s == handler[h].swap IN
    /\ handler[h].at = "mark" /\ Writable(s, {h})
    /\ ChangeState(s, "LightningPaymentPending")
    /\ shared' = [shared EXCEPT ![s] = {}]
    /\ Go(h, "hand over")
    /\ UNCHANGED <<node, checker, watched>>

\* The transaction fails, or is the one of two that wait for each other's lock
\* which the database aborts; or it took effect and the answer was lost.
ConfirmAborts(h) == LET s == handler[h].swap IN
    /\ handler[h].at = "mark"
    /\ shared' = [shared EXCEPT ![s] = @ \ {h}]
    /\ \/ UNCHANGED swapState
       \/ Writable(s, {h}) /\ ChangeState(s, "LightningPaymentPending")
    /\ Go(h, "ended")
    /\ UNCHANGED <<node, checker, watched>>

\* newLiquidity <- swapId meets the receive at the head of the checker's loop.
HandOver(h) ==
    /\ handler[h].at = "hand over" /\ checker.at = "idle"
    /\ watched' = watched \cup {handler[h].swap}
    /\ Go(h, IF handler[h].swap \in OutSwaps THEN "pay" ELSE "ended")
    /\ UNCHANGED <<swapRow, node, checker>>

\* PayInvoice: the call is on its way to the node.
Pay(h) == LET s == handler[h].swap IN
    /\ handler[h].at = "pay"
    /\ calls' = [calls EXCEPT ![s] = @ + 1]
    /\ payment' = [payment EXCEPT ![s] = IF @ = "none" THEN "in transit" ELSE @]
    /\ Go(h, "paying")
    /\ UNCHANGED <<hasty, swapRow, checker, watched>>

\* The node takes the payment on, if need be after the call broke off, or it
\* refuses it or never hears of it.
PaymentArrives(s) ==
    /\ payment[s] = "in transit"
    /\ \E end \in {"in flight", "refused"} : payment' = [payment EXCEPT ![s] = end]
    /\ UNCHANGED <<swapRow, calls, hasty, handler, checker, watched>>

\* It returns: with a success only if the payment is settled; with an error,
\* or any other state, at any time.
PayReturns(h) == /\ handler[h].at = "paying"
                 /\ \/ payment[handler[h].swap] = "settled" /\ Go(h, "finish")
                    \/ Go(h, "recheck")
                 /\ UNCHANGED <<swapRow, node, checker, watched>>

Recheck(h) == LET s == handler[h].swap IN
    /\ handler[h].at = "recheck"
    /\ \E status \in Statuses(s) :
          /\ handler' = [handler EXCEPT ![h].at = "write", ![h].verdict = RecheckedState(status)]
          /\ Concludes(s, RecheckedState(status))
    /\ UNCHANGED <<swapRow, checker, watched>>

ConfirmWrites(h) == LET s == handler[h].swap IN
    /\ \/ handler[h].at = "write"  /\ ChangeState(s, handler[h].verdict)
       \/ handler[h].at = "finish" /\ ChangeState(s, "Finished")
    /\ Writable(s, {h})
    /\ Go(h, "ended")
    /\ UNCHANGED <<shared, node, checker, watched>>

\* CheckPayed or the database fails after the payment: the handler returns.
ConfirmGivesUp(h) == /\ handler[h].at \in {"recheck", "write", "finish"}
                     /\ Go(h, "ended")
                     /\ UNCHANGED <<swapRow, node, checker, watched>>

-----------------------------------------------------------------------------
(* CheckStatusOfLiquiditySwaps.  The order of a round is left open.        *)

\* If the first transaction cannot begin the function returns, for good; if
\* its query fails it goes on with an empty list.
CheckerStarts ==
    /\ checker.at = "off"
    /\ \/ /\ watched' = {s \in Swaps : swapState[s] \in
                            {"MintWaitingPaymentRecv", "LightningPaymentPending"}}
          /\ checker' = [checker EXCEPT !.at = "idle"]
       \/ UNCHANGED watched /\ checker' = [checker EXCEPT !.at = "idle"]
       \/ UNCHANGED watched /\ checker' = [checker EXCEPT !.at = "gone"]
    /\ UNCHANGED <<swapRow, node, handler>>

CheckerReads(s) ==
    /\ checker.at = "idle" /\ s \in watched
    /\ checker' = [at |-> "ask", swap |-> s, verdict |-> swapState[s]]
    /\ UNCHANGED <<swapRow, node, handler, watched>>

CheckerAsks ==
    /\ checker.at = "ask"
    /\ \/ \E status \in Statuses(checker.swap) :
             /\ checker' = [checker EXCEPT !.at = "write",
                                           !.verdict = CheckedState(status, @)]
             /\ Concludes(checker.swap, CheckedState(status, checker.verdict))
       \/ checker' = [checker EXCEPT !.at = "idle"] /\ UNCHANGED node   \* the node fails
    /\ UNCHANGED <<swapRow, handler, watched>>

CheckerWrites ==
    /\ checker.at = "write"
    /\ \/ /\ Writable(checker.swap, {})
          /\ ChangeState(checker.swap, checker.verdict)
          /\ watched' = IF checker.verdict \in {"Finished", "LightningPaymentFail"}
                        THEN watched \ {checker.swap} ELSE watched
       \/ UNCHANGED <<swapState, watched>>               \* the database fails
    /\ checker' = [checker EXCEPT !.at = "idle"]
    /\ UNCHANGED <<shared, node, handler>>

-----------------------------------------------------------------------------
\* The network: payments of the mint, and payments of an in swap's invoice.
PaymentMoves(s) ==
    /\ \/ payment[s] = "in flight"
       \/ payment[s] = "none" /\ swapState[s] # "none" /\ s \in InSwaps
    /\ \E end \in {"settled", "failed"} : payment' = [payment EXCEPT ![s] = end]
    /\ UNCHANGED <<swapRow, calls, hasty, handler, checker, watched>>

\* The process dies and is started again: locks and lists are gone.
Restart ==
    /\ handler' = [h \in Handlers |->
          IF handler[h].at = "idle" THEN handler[h] ELSE [handler[h] EXCEPT !.at = "ended"]]
    /\ shared' = [s \in Swaps |-> {}]
    /\ checker' = [checker EXCEPT !.at = "off"]
    /\ watched' = {}
    /\ UNCHANGED <<swapState, node>>

LiquidityNext ==
    \/ \E s \in Swaps :
          SwapOutRequest(s) \/ PaymentArrives(s) \/ PaymentMoves(s) \/ CheckerReads(s)
    \/ \E h \in Handlers :
          \/ \E s \in Swaps : SwapInRequest(h, s) \/ ConfirmReads(h, s)
          \/ ConfirmMarks(h) \/ ConfirmAborts(h) \/ HandOver(h) \/ Pay(h) \/ PayReturns(h)
          \/ Recheck(h) \/ ConfirmWrites(h) \/ ConfirmGivesUp(h)
    \/ CheckerStarts \/ CheckerAsks \/ CheckerWrites
    \/ Restart

LiquiditySpec == LiquidityInit /\ [][LiquidityNext]_liquidityVars

-----------------------------------------------------------------------------
\* PayInvoice is called once per swap, however often and however fast it is
\* confirmed, and whenever the process is restarted.
PaidOnce == \A s \in Swaps : calls[s] <= 1

\* A swap that is called finished was paid, and one that is called failed was
\* not and will not be, however old the answer is that is written: unless
\* whoever concluded that asked the node before the payment had reached it (the
\* checker between hand over and PayInvoice, of a node that answers FAILED; or
\* either of them while a call that broke off was still under way).
StateMatchesPayment == \A s \in Swaps :
    /\ swapState[s] = "Finished" => payment[s] = "settled"
    /\ swapState[s] = "LightningPaymentFail" => payment[s] \in {"refused", "failed"} \/ s \in hasty
=============================================================================
