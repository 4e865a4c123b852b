------------------------------- MODULE Change -------------------------------
(***************************************************************************)
(* The amounts of a melt, from the quote to the change: what a quote asks  *)
(* for an invoice and as a fee reserve, and what of the inputs is signed   *)
(* back on blank outputs of the wallet.  The change is computed at two     *)
(* places, by the request that paid (finalizePaidBolt11Melt) and by who    *)
(* finds later that it was paid (RefreshMeltQuoteState); either may fail   *)
(* and be tried again.                                                     *)
(*                                                                         *)
(* The node counts in msat, a quote in its unit.  Amounts are uint64: sums *)
(* and differences wrap modulo Word.                                       *)
(***************************************************************************)
EXTENDS Sums, Sequences

CONSTANTS Invoices,  \* amounts of an invoice, in msat
          RouteFees, \* fees the node expects for a route, in msat
          PerSat,    \* msat in a sat (1000 in the code)
          FeeShare,  \* the least reserve is an amount divided by this (100)
          InputFees, \* fees of the inputs
          Surplus,   \* what a wallet brings above what is asked for
          MaxBlanks, \* bound on the blank outputs of a request
          Word       \* 2^64: amounts are uint64 and wrap

ASSUME ChangeAssumption == /\ Invoices \cup RouteFees \cup InputFees \cup Surplus \subseteq Nat
                           /\ PerSat \in Nat \ {0} /\ FeeShare \in Nat \ {0}
                           /\ MaxBlanks \in Nat /\ Word \in Nat \ {0}

VARIABLES melt,     \* [unit, invoice, amount, reserve, inputs, fee, blanks]
          payer,    \* of the invoice: a backend, or the mint itself
          stage,    \* of its quote
          routed,   \* the node's routing fee in msat, once it paid
          reported, \* the fee the backend reports, in the unit of the quote
          change    \* the amounts that were signed, once it is settled

changeVars == <<melt, payer, stage, routed, reported, change>>

Wrapped(n) == n % Word

ChangeTypeOK ==
    /\ melt \in [unit : {"sat", "msat"}, invoice : Invoices, amount : Nat, reserve : Nat,
                 inputs : Nat, fee : Nat, blanks : 0..MaxBlanks]
    /\ payer \in {"node", "lnbits", "internal"}
    /\ stage \in {"new", "quoted", "pending", "paid", "settled", "settled later"}
    /\ {routed, reported} \subseteq Nat
    /\ change \in Seq(Nat)

-----------------------------------------------------------------------------
\* Amount.To: an amount in msat in the unit of a quote.
To(unit, msat) == IF unit = "sat" THEN msat \div PerSat ELSE msat

\* GetFeeReserve: the fee of the route, at least one hundredth of the amount.
GetFeeReserve(amount, queried) ==
    LET least == amount \div FeeShare IN IF least > queried THEN least ELSE queried

\* One round of the loop of AmountSplit: the lowest bit is looked at and
\* shifted out.
Shift(loop) ==
    IF loop.rest = 0 THEN loop
    ELSE [rest    |-> loop.rest \div 2,
          power   |-> 2 * loop.power,
          amounts |-> IF loop.rest % 2 = 1 THEN Append(loop.amounts, loop.power)
                      ELSE loop.amounts]

\* AmountSplit: the powers of two that add up to an amount, the smallest
\* first.  The loop never takes more rounds than the amount.
AmountSplit(amount) ==
    LET loop[pos \in 0..amount] ==
            IF pos = 0 THEN [rest |-> amount, power |-> 1, amounts |-> <<>>]
            ELSE Shift(loop[pos - 1])
    IN  loop[amount].amounts

\* GetMessagesForChange: the first of the blank outputs get an amount each; if
\* there are not enough of them, the largest amounts get none.
GetMessagesForChange(overpaid, blanks) ==
    LET amounts == AmountSplit(overpaid)
    IN  SubSeq(amounts, 1, IF Len(amounts) > blanks THEN blanks ELSE Len(amounts))

\* Mutation: the fee of the inputs is forgotten.
TotalExpent_NoInputFee(feePaid) == Wrapped(melt.amount + feePaid)

\* Mutation: the routing fee is forgotten.
TotalExpent_NoRoutingFee(feePaid) == Wrapped(melt.amount + melt.fee)

TotalExpent(feePaid) == Wrapped(melt.amount + feePaid + melt.fee)

-----------------------------------------------------------------------------
\* A wallet shows an invoice.  LNbits has quotes in sat only, and an invoice of
\* this mint is for a whole amount of its quote's unit.
ChangeStarts(unit, invoice, who) ==
    /\ melt = [unit |-> unit, invoice |-> invoice, amount |-> 0, reserve |-> 0,
               inputs |-> 0, fee |-> 0, blanks |-> 0]
    /\ payer = who
    /\ stage = "new"
    /\ routed = 0 /\ reported = 0
    /\ change = <<>>

ChangeInit == \E unit \in {"sat", "msat"}, invoice \in Invoices,
                 who \in {"node", "lnbits", "internal"} :
    /\ who = "lnbits" => unit = "sat"
    /\ who = "internal" /\ unit = "sat" => invoice % PerSat = 0
    /\ ChangeStarts(unit, invoice, who)

\* createAndStoreBolt11MeltQuote: the node is asked for the fee of a route,
\* unless the invoice is one of this mint's.
CreateMeltQuote ==
    /\ stage = "new" /\ stage' = "quoted"
    /\ \E queried \in RouteFees :
          LET amount == To(melt.unit, melt.invoice)
              queryFee == IF payer = "internal" THEN 0
                          ELSE GetFeeReserve(amount, To(melt.unit, queried))
          IN  melt' = [melt EXCEPT !.amount = amount, !.reserve = queryFee + 1]
    /\ UNCHANGED <<payer, routed, reported, change>>

\* validateBolt11MeltInputs lets in what covers amount, reserve and fee.
BringInputs ==
    /\ stage = "quoted" /\ stage' = "pending"
    /\ \E f \in InputFees, s \in Surplus, b \in 0..MaxBlanks :
          melt' = [melt EXCEPT !.inputs = melt.amount + melt.reserve + f + s,
                               !.fee = f, !.blanks = b]
    /\ UNCHANGED <<payer, routed, reported, change>>

\* The fee the node may take, in msat.
FeeLimit == IF melt.unit = "sat" THEN melt.reserve * PerSat ELSE melt.reserve

\* The node pays and takes no more than it was allowed to.  The fee in msat is
\* converted (LND, CLN); LNbits' backend takes the number as it is for sat,
\* and it may be negative.
NodePays ==
    /\ stage = "pending" /\ stage' = "paid" /\ payer # "internal"
    /\ routed' \in 0..FeeLimit
    /\ reported' = IF payer = "lnbits" THEN routed' ELSE To(melt.unit, routed')
    /\ UNCHANGED <<melt, payer, change>>

\* settleIfInternalMelt: no fee.
SettlesInternally ==
    /\ stage = "pending" /\ stage' = "paid" /\ payer = "internal"
    /\ UNCHANGED <<melt, payer, routed, reported, change>>

\* finalizePaidBolt11Melt signs change if the inputs are worth more.  Of
\* LNbits' fee PayInvoice takes the absolute value.
SignChange ==
    /\ stage = "paid" /\ stage' = "settled"
    /\ change' = IF melt.inputs > TotalExpent(reported)
                 THEN GetMessagesForChange(melt.inputs - TotalExpent(reported), melt.blanks)
                 ELSE <<>>
    /\ UNCHANGED <<melt, payer, routed, reported>>

\* RefreshMeltQuoteState asks for the fee again, subtracts first, and signs if
\* the rest is not zero.  LNbits' fee is converted to uint64 with its sign.
SignChangeLater ==
    /\ stage = "paid" /\ stage' = "settled later" /\ payer # "internal"
    /\ \E feePaid \in {reported, IF payer = "lnbits" THEN Wrapped(Word - reported) ELSE reported} :
          LET overpaid == Wrapped(Word + melt.inputs - TotalExpent(feePaid))
          IN  change' = IF overpaid > 0 THEN GetMessagesForChange(overpaid, melt.blanks)
                        ELSE <<>>
    /\ UNCHANGED <<melt, payer, routed, reported>>

ChangeNext == CreateMeltQuote \/ BringInputs \/ NodePays \/ SettlesInternally
              \/ SignChange \/ SignChangeLater

ChangeSpec == ChangeInit /\ [][ChangeNext]_changeVars

-----------------------------------------------------------------------------
Worth(amounts) == SumOf(DOMAIN amounts, amounts)

Settled == stage \in {"settled", "settled later"}

\* The wallet gets back what it overpaid and never more, whichever of the two
\* signs its change: the mint keeps the invoice, both fees, and only what the
\* blank outputs are too few for; no difference wraps.  The fee that LNbits
\* reports may shorten the change and, found by a poll, lengthen it.
ChangeIsOverpaid == Settled =>
    LET overpaid == melt.inputs - (melt.amount + To(melt.unit, routed) + melt.fee)
    IN  /\ \/ Worth(change) <= overpaid
           \/ payer = "lnbits" /\ stage = "settled later"
        /\ Worth(change) = overpaid \/ Len(change) = melt.blanks \/ payer = "lnbits"

\* Amounts are rounded down twice, the invoice for the quote and the routing
\* fee for the change: what the mint keeps of a quote in sat is less than two
\* sat short of what its node paid, of a quote in msat nothing.
RoundingIsBounded == Settled /\ payer # "lnbits" =>
    LET kept == melt.inputs - Worth(change)
    IN  IF melt.unit = "sat" THEN kept * PerSat + 2 * (PerSat - 1) >= melt.invoice + routed
                             ELSE kept >= melt.invoice + routed
=============================================================================
