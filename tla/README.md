# Verification of nutmix

nutmix is a Cashu mint: wallets bring ecash (*proofs*) and get other ecash (a
*swap*), have a lightning invoice paid with it (a *melt*), or pay an invoice and
get ecash for it (*minting*). The mint is a Go program over PostgreSQL with a
lightning backend and a signer. This directory holds TLA+ models of the parts
that decide who owns what, TLC configurations that check them on small
instances, and proofs, checked by TLAPS, of what holds for every instance.

Paths below are relative to `src/`.

## 1. The system

| component | code | state | operations |
|---|---|---|---|
| Swap | `internal/mint/swapping.go` | tables `proofs`, `recovery_signature` | `ExecuteSwap`: reserve (tx 1), sign, mark spent and signed (tx 2), cleanup (tx 3) |
| Melt | `internal/mint/melting.go`, `bolt11.go` | `melt_request`, `melt_change_message`, `proofs`, `recovery_signature`, `mint_request` | `ExecuteMelt`, `RefreshMeltQuoteState` (also by a poll), `ReconcilePendingMeltQuotes`, `CheckMeltRequest` |
| Mint quote and issuance | `internal/mint/minting.go` | `mint_request`, `recovery_signature` | `CreateMintQuote`, `IssueTokens`, `RefreshMintQuoteStatus`, `settleIfInternalMelt` |
| State of proofs | `internal/mint/proofs.go` | reads `proofs` | `CheckProofState` |
| Spending conditions | `api/cashu/proofs.go`, `spend_condition.go`, `swap.go`, `melt.go` | none | check the witness of a locked proof |
| Amounts | `api/cashu`, `utils`, parts of `internal/mint` | none | convert, fee reserve, split, change |
| Restore | `internal/mint/restore.go` | reads `recovery_signature` | one query |
| Database layer | `internal/database/postgresql/` | the tables, their unique keys and row locks | one statement per method, on a transaction the caller holds |
| Signer | `internal/signer/` | keysets by id, active ones by unit | sign, verify, rotate |
| Observer, websocket | `internal/mint/websocket.go`, `internal/routes/websocket.go` | watchers by quote and proof, channels, a mutex | subscribe, unsubscribe, send events |
| Cache, timeout | `internal/routes/middleware/` | answers by request body | look up, store, end a request's context |
| Blind auth | `internal/mint/auth.go`, `internal/routes/middleware/auth.go` | blind-auth proofs | verify and spend one per request |
| Liquidity swaps | `internal/routes/admin/liquidity-manager.go`, `crons.go` | `liquidity_swaps`, a list in memory, a channel | create, confirm, check periodically |
| Statistics | `internal/stats/service.go` | snapshots | aggregate a window |
| Lightning backends | `internal/lightning/` | the node's invoices and payments | request, pay, look up |
| Startup | `cmd/nutmix/main.go` | - | reconcile pending melts, then serve |

**How they interact.** Every HTTP request runs in a goroutine of its own. Nothing
in memory orders two requests: they meet in the database. A handler is a
sequence of short transactions with slow calls (signer, node) in between, and it
acts after such a call on what it read before. What protects it there is

* two unique keys, `UNIQUE(secret, y)` of a proof and `UNIQUE("B_")` of a signed
  message: an INSERT fails where a check that was made earlier would not;
* `FOR UPDATE NOWAIT` on a quote: a reader that finds the row locked gets an
  error at once. The lock ends with the transaction, before the slow call;
* states written before the slow call (`PENDING`), to be undone after it.

Statements that write are by key and ask for no old state: `SetProofsState`,
`DeleteProofs`, `ChangeMeltRequestState` and `ChangeMintRequestState` do what they are told
whatever the row has become.

**What is hard.** Two requests between the same two transactions; a poll that
acts on a stale answer of the node; a transaction that fails after an earlier one
of the same operation committed; a COMMIT whose answer is lost; a crash while a
payment is under way; an invoice of the mint itself, where one transaction moves
two quotes; transactions that are left open by an early return. The full list is
under `hazards` in `PROJECT.json`, each with the line where it bites and the
properties that cover it or why none does.

**What makes each component correct.**

* Swap: no proof spent twice, no message signed twice, all or nothing per
  request, answers that tell the truth, no value created, nobody's proofs held
  for ever without a fault.
* Melt: a payment that went out is covered by proofs of sufficient worth that
  nobody else can use; nobody loses proofs without a payment; change is signed
  once, for a payment that was made; every pending quote is decided.
* Minting: nothing signed without payment; each quote drawn once, in full; a
  payment, once seen, is not forgotten, and is seen by a wallet that keeps asking.
* State of proofs: each proof is told its own state.
* Signer: one active keyset per unit; the two maps and the database agree.
* Observer: no channel is closed twice or written after it is closed, a watch does not
  outlive its client, a subscriber learns what is spent and is not told so of anything else.
* Blind auth: a proof admits one request, and only if the mint signed it.
* Spending conditions: a locked proof is accepted when its lock says so, and only then,
  by whichever of the four checks.
* Amounts: a wallet gets back what it overpaid, wherever its change is computed.
* Backends: a quote released as unpaid has no payment that can still succeed.
* Liquidity swaps: a swap out is paid at most once, and a final state tells the truth about it.
* Statistics: what is counted is counted in at most one snapshot. (What is paid after its window
  was closed is counted in none.)

## 2. The modules

    Ledger       what the mint promises about ecash        refined by Swap, Melt
    Issuance     what it promises about new ecash          refined by MintQuote

    Swap         MCSwap                                    SwapProofs
    Observer     subscriptions, a part without Next
    SwapNotify   + Swap + database pool      MCSwapNotify  SwapNotifyProofs
    Melt         MCMelt                                    MeltProofs
    SwapMelt     Melt + Swap, same tables      MCSwapMelt  SwapMeltProofs
    MintQuote    MCMint                                    MintProofs
    CheckState   extends Ledger

    Services     one of seven parts at a time  MCServices  ServiceProofs
      Keysets, LiquiditySwaps, StatsSnapshots              AdminProofs
      BlindAuth, Backends, SpendConditions, Change         ServiceProofs

    Sums         amounts added up, used by the above       SumProofs

**Ledger.** Two variables, the state of every proof and the set of signed
messages. Proofs are held, then given back or spent; messages are signed in the step
that spends. Whatever implements it inherits that a spent proof stays spent and
that new signatures come with newly spent proofs.

**Swap.** `pc[r]` is where the handler of request `r` stands in `ExecuteSwap`;
`ins[r]` and `outs[r]` are the lists it was sent, sequences because a request may
name a proof twice. One action per step:

| action | code (`swapping.go`) |
|---|---|
| `Receive`, `Refuse` | validation before the first transaction: balance, fee and units (`validateSwapBalanceAndUnits`) |
| `Check` | tx 1, its reads: no proof has a row, outputs distinct and not signed |
| `Insert` | tx 1, its INSERT and COMMIT, at which `UNIQUE(secret, y)` decides |
| `Sign` | the signer |
| `Finish` | tx 2: `SetProofsState` SPENT, `SaveRestoreSigs` with `UNIQUE("B_")`, COMMIT |
| `Cleanup` | tx 3: `DeleteProofs` by y, whatever the state |
| `SignerFails`, `DatabaseFails`, `CleanupFails` | an error at the corresponding call |
| `CommitAnswerLost` | a COMMIT that may have taken effect but returned an error |
| `Crash` | the process ends; startup does not look at swaps |

A proof without a row is UNSPENT: deleting a row gives the proof back. The rows of tx 1 are read and
written in two actions, because PostgreSQL's default isolation lets another
transaction commit in between. `committed` is a history variable, the requests
whose second transaction took effect. Amounts wrap modulo `Word`, as uint64 sums
do.

**Observer.** The hub of `internal/mint/websocket.go` and the goroutines of a
connection in `internal/routes/websocket.go`. `watch` is the map of the hub, `mutex` its
lock, `channel[c]` the one buffered channel that all filters of a connection share, `at[c]` the main
goroutine (add the watches, confirm, tell the present state, forward events), `listen[c]` the goroutine
that reads what the client sends, `unsub[c]` the `go RemoveWatch` of an unsubscribe. A sender
locks the hub, puts its event into every channel of a watch (`Push`, which waits for
`Room`) and unlocks. `RemoveWatch` closes the channel of every watch it finds.
The module has no next-state relation: what it watches belongs to somebody else.

**SwapNotify** composes it with `Swap`: a swap that took effect publishes its inputs as
SPENT in a goroutine of its own, and a melt that ends without a payment (`MeltEnds`) publishes its inputs too, as
PENDING, which they were when it reserved them and need not be any more (`melting.go:802`). Both swaps and subscriptions use the connections of one pool (`PoolSize`): a transaction begins when
one is `Free`. `CheckStatusOfSub` opens a transaction per filter that it neither uses nor ends for a proof
(`OpenTx`, counted in `leaks`), so every filter of a subscription takes a connection out of the pool for good.

**Melt.** `task[h]` is what goroutine `h` does: a melt request (`Melters`), a
poll (`Pollers`) or the reconciliation at startup (`Boot`). All begin with
`RefreshMeltQuoteState`: `ReadQuote` (tx 1, with the proofs it finds in `snap`),
`Check` (the node), then `Settle` or `Unreserve` (tx 2), which use `snap` whatever the
rows have become. A melt goes on with `Reserve` (the proofs, the blank outputs and
the quote's state; `SettleInternally` for an invoice of this mint), `Send` and `PayReturns`
(PayInvoice), `SaveCheckingId`, `Recheck`, `Mark`, `Release`, and `Finalize`. `payment` is
the node's own record; `stake` is history, the inputs of the request that made the
payment. `leaked` holds the quotes whose row an abandoned transaction keeps
locked: `CheckMeltRequest` returns on a PAID quote without ending its transaction
(`Watch`), and `reserveMeltInputsAndMarkPending` returns an error of its own while
`err` is nil, so that the deferred rollback does nothing. A reader of such a quote gets
"quote is pending", a writer waits. `Settle` needs at least one proof, since
`SetProofsState` reports an error for an empty batch.

**SwapMelt** extends `Melt` and instantiates `Swap` over the same `proofState` and `sigs`: the
cleanup of one operation meets the rows of the other, and a crash takes all handlers.
`Uses(p)` is what proof `p` paid for, swaps that took effect and payments that went out.

**MintQuote.** `task[h]` for POST `/v1/mint/bolt11` (`Minters`) and GET
`/v1/mint/quote/bolt11/{id}` (`Pollers`): `Load`, `CheckOutputs`, `Ask` (the node),
`Write` (`reconcileBolt11MintQuoteState`), `Sign` (`signMintOutputsAndMarkIssued`). `invoice`
is the node's record; `internal` the quotes that a melt of this mint settled;
`issued` is history.

**CheckState.** `CheckProofState` over a ledger that moves as `Ledger` allows.
`slices.ContainsFunc` is modelled by what the function given to it does: it takes
over the state of every row it is shown, up to the one that matches.

**Services.** Seven parts that share no variable with each other. A behaviour of all of them
is an interleaving of one of each, and a property of one is a property of its own
behaviours; so the specification chooses one part at the start (`service_`) and lets it run. Each part
is a specification of its own (`KeysetsSpec`, `LiquiditySpec`, ...). The proofs are about those, and from them about all beside
each other.

* **Keysets** (`local_signer/signer.go`). The table `seeds` and the two maps that requests read without a lock,
  `keysets` (verification) and `activeKeysets` (signing). A rotation reads the seeds of a unit, writes
  (insert and retire in one transaction), reads all seeds back, and assigns one map after the other, each a
  step; rotations overlap, fail at every step, and are cut off by a crash. An error of the read is dropped, so a rotation
  may go on as if the unit had no seeds (`Unread`).
* **LiquiditySwaps** (`admin/liquidity-manager.go`, `crons.go`). A confirmation reads its row FOR SHARE
  (`ConfirmReads`), marks it, hands it to the checker over an unbuffered channel, pays, checks again and writes. `Pay` sends the call on its way (`in transit`); it arrives,
  or is refused, at any later time (`PaymentArrives`), also after the call broke off and the payment was looked up. Two confirmations
  that hold the row and want to write wait for each other until the database aborts one
  (`ConfirmAborts`); a refused one keeps its lock for ever. The checker reads, asks the node and writes what it
  concludes from the state it read, which may be old.
* **StatsSnapshots** (`stats/service.go`). A window from the end of the last snapshot to some seconds ago, collected
  and inserted in two steps, under a clock that is set back and failures between the steps.
* **BlindAuth** (`mint/auth.go`). `LookUp`, `SaveAuthProof` (which waits for another transaction's uncommitted
  row), `VerifyAuth`, `CommitAuth`, for requests that present the same proof at once.
* **SpendConditions**. `Accepted` is what the code's four checks say of a lock and a witness (P2PK, HTLC, after the
  locktime, SIG_ALL; the loop that counts signatures is written as the loop it is, `Look` is one round of it), `MaySpend` what the lock means. A signature verifies with
  an x coordinate, so that it counts for both keys that share one (`Coordinate`, `Matching`). The
  witness grows, the request changes and time passes.
* **Change**. The amounts of one melt: `CreateMeltQuote` (conversion from msat, fee reserve), `BringInputs`,
  `NodePays` or `SettlesInternally`, then `SignChange` by the request that paid or `SignChangeLater` by whoever
  finds out later. Sums and differences wrap modulo `Word`. `AmountSplit` is the loop over the bits of an amount, `Shift` one round.
* **Backends** (`internal/lightning`). One melt quote over LND, CLN, LNbits or Strike: what each backend's `PayInvoice`
  and `CheckPayed` make of its node's answers, and what the mint concludes. Calls are in `transit` between mint and
  node, and are lost (`Refused`) or arrive late (`Arrives`); look-ups overtake them (`early`).

The columns `melted` and `minted` are not modelled: the code writes them together with the
state. Signatures, keys and secrets are values; a proof that does not verify is
one that is not presented.

## 3. What the runs show

| run | instance | shows |
|---|---|---|
| `swap` | 3 requests, 3 proofs, 4 outputs, lists up to 2, all faults; 715 311 states up to the symmetry of requests | `NoDoubleSpend`, `AllOrNothing`, `AnswerIsTrue`, `PendingIsOwned`, `Conservation`, `Ledger` |
| `swap_live` | 2 swaps that contend, a melt of the same proof that fails, 1 client with one filter, channel of 1, pool of 2, signer and database may fail; fair; 139 264 states | `NotifyTypeOK`, `NoPanic`, `ToldTruth`, `PendingResolves`, `EveryRequestEnds`, `SubscriberLearns`, `WatchRemoved` |
| `melt` | 2 melts, 1 poller, 2 quotes (one internal), 1 swap, 2 proofs, 2 outputs, all faults, one operation per quote at a time; 279 896 states | `Covered`, `UnpaidHoldsNothing`, `PaysOnce`, `SpentForSomething`, `Ledger`, `PaidIsFinal` |
| `melt_races` | 2 melts, 1 poller, 2 quotes (one internal) of one proof each, operations on one quote overlap, all faults; 1 575 850 states up to the symmetry of proofs | `PaidQuoteIsPaid`, `ChangeFollowsPayment` |
| `melt_live` | 2 melts, 1 poller, 2 quotes (one internal), 2 proofs, 1 blank output that both melts may name, operations on one quote overlap, subscriptions, no faults, fair; 305 488 states | `PendingProofResolves` |
| `mint` | 3 requests, 1 poller, 2 quotes, 3 outputs, all faults, one operation per quote at a time; 404 153 states | `NoInflation`, `PaidStaysPaid`, `Issuance` |
| `mint_races` | 2 requests, 2 pollers, 1 quote, overlapping, fair; 76 917 states | `IssuedOnlyIfPaid`, `PaymentIsSeen` |
| `services` | the seven parts, one at a time; 2 081 534 states | `ServicesTypeOK`, `SignedIsVerifiable`, `ActivePerUnit`, `NeverRevived`, `PaidOnce`, `StateMatchesPayment`, `CountedOnce`, `AdmitsOnce`, `AcceptedAsLocked`, `ChangeIsOverpaid`, `RoundingIsBounded`, `QuoteMatchesNode` |
| `check_state` | 2 proofs, questions up to 2; expected to fail | `ToldTheTruth` is violated |
| `melt_stale_poll` | 1 melt, 1 poller, 2 swaps, no faults, overlapping; expected to fail | `PaysOnce` is violated |
| `mint_twice` | 2 requests, no faults, overlapping; expected to fail | `IssuedOnce` is violated |
| `observer_double_close` | 2 swaps, 1 client with two filters, channel of 2, pool of 3; expected to fail | `NoDoubleClose` is violated |

**Why two regimes.** `Serial = TRUE` lets at most one goroutine at a time work on
a quote: wallets that wait for an answer before they ask again. In it the full set of safety
properties holds under database errors, backend errors, crashes and restarts.
`Serial = FALSE` lets operations on one quote overlap. Then the handlers' stale
writes show (findings 2 and 4 below), and `Covered`, `PaysOnce`, `PaidIsFinal`, `PaidStaysPaid`
and `Issuance` do not hold; what survives is checked by
`melt_races`, `melt_live` and `mint_races`, and, but for liveness, proved. So `PaidIsFinal` and `PaidStaysPaid` say nothing of the
stale writes of an overlapping request (`melting.go:651`, `minting.go:180`), only of operations that come after one another: they are
checked, and not stated as theorems. Requests for *different* quotes always
overlap, and so do all swaps: they compete for proofs and for outputs in both
regimes.

**Bounds.** Races in Swap are between two requests for one proof or one message;
a third request lets a winner's proofs be released and taken again. The amounts of
`MCSwap` let two requests share a proof and no message, a message and no proof, or
both, let two proofs together buy what neither buys alone, and let requests that mix units balance.
`Word = 256` is above every sum of an instance of this size; the wrap-around itself is
reached only by sums of 2^64, which keysets of 64 powers of two allow and those
of 32 do not, so it is a bound of the instance and named here. `MaxLen` bounds the lists of a request.

In `melt` and `melt_stale_poll` quote q1 needs both proofs
and q2 either, so that melts compete with each other and with the swap; in `melt_races` each needs one, so that both are pending
at once and change could be signed for the wrong one; in `melt_live` one proof is enough for q1 and either for q2, so that both may be
pending with the same blank output; blank outputs are shared with the swap so that `UNIQUE("B_")`
can fail a paid melt. In `MCMint` a quote of one and a quote of two meet messages of one and
of two, so that requests match, ask for more, and name each other's messages. `Absent` ranges
over everything a backend may answer about a payment it was never handed; in `melt_live`, for its size, over an error and PENDING only: the answer
that says nothing and the one that keeps the quote waiting (with all four it takes longer, 525 384 states, and holds as well); in `melt_stale_poll` over an error only.

In `swap_live` the client watches a proof that the melt publishes and then a swap: two events, and one place in its channel
(`Capacity`). The code's channels have two places; one is the smaller stand-in for a channel that fills up.
So a sender waits, with the hub's mutex, before a full channel: for a client that reads, or for one that has left and waits for that mutex to
remove its watch. The second is for ever (`Jammed`): no sender and no subscription gets the mutex again. `WatchRemoved` says that this is the
only reason for a watch to stay, and that a watch once removed does not come back; the requests themselves go on, since events are sent by
goroutines of their own. `told` is what a client was ever told is spent, whatever it hears after it. The pool (`PoolSize = 2`) is the smallest one
that a subscription with one filter leaves usable: with as many filters as connections no transaction can begin any more and
no swap ends, so the liveness properties are about a pool larger than what subscriptions have leaked.

The parts of `Services`: `MaxVersion = 1`, two units and two rotations give two versions of a unit, a clash of two
rotations and a unit that the other one does not touch. Three handlers, an out swap and an in swap: confirmed twice while an
in swap occupies the checker. `MaxClock = 6` with `Lag = 2` fits three windows and a
clock set back before the first. `MaxSignatures = 2` with three keys: a key twice, two keys, a key over the
wrong outputs; of the three keys two share their x coordinate. `Asks` are the rotations an administrator asks for, of the sat unit with a fee and
of the other without, so that a rotation that read no seeds has either a new id or one that is taken. Amounts below `Word = 32`, which all sums but a wrong fee of LNbits are, 3 msat in a sat (`PerSat`), a reserve of one half (`FeeShare`), up to 3 blank outputs
(`MaxBlanks`): both roundings lose something, and change needs more blanks than there are. `MaxCalls = 3` calls of `PayInvoice`:
a failed attempt, a second one, and one that is refused because of it.

Histories are unbounded in length: pollers poll for ever, crashes and restarts are unlimited, a
quote may fail and be tried again by as many melts as the instance has.

**Deadlock** is checked in `swap`, where whoever waits is another request. The other instances really stop: requests end, invoices
are paid, nobody has to ask again.

**Fairness.** `FairSpec` asks weak fairness of each goroutine's next step
(goroutines run, statements and calls return), weak fairness of the end of a payment (a
lightning payment succeeds or fails; HTLCs time out), and strong fairness of a
wallet's poll of each quote: a wallet that waits for its quote keeps asking, and sees
the server free again and again. `FairNotifySpec` asks weak fairness of every goroutine of a swap, of a sender and of a
connection: the scheduler runs them, `sync.Mutex` does not starve a waiter, and the pool serves those
that wait in order. No fairness for arrivals, payments by the wallet, clients that leave, or faults.
`melt_live` has no faults: with a
backend that may fail for ever nothing is decided. It has everything else: requests and polls of one quote that overlap, subscriptions
to quotes, and a blank output that two requests name. Then ecash can stay reserved for ever, and `PendingProofResolves`
names the reasons (`Stuck`) and says that there is no other:

* `Locked`: an abandoned transaction keeps the row. A second request that finds the quote PENDING or PAID between its own two
  transactions leaves one (`melting.go:521`), and then the first one's UPDATE waits for ever; a subscription to a quote that is PAID
  leaves one (`bolt11.go:52`), which an internal quote is while its proofs are still PENDING.
* `BlankTaken`: a blank output of the quote was signed for another one meanwhile, and `UNIQUE("B_")` refuses the transaction that
  would settle it, each time.
* `Parted`: an operation that acted on an old read released the proofs of a quote that is PENDING by now, called UNPAID a quote that
  another one has reserved for, or settles the quote with other proofs than those reserved for it by now (`melting.go:352-391`, `656-678`).

Each of the three is needed: without it TLC finds a proof that stays PENDING, or its quote. A restart, which would release the locks, is a fault.

**The backend.** In `Melt` the backend tells the truth about a payment or an invoice, says anything of `Absent` about one it was
never handed, or fails. `Backends` shows what the four real ones do, and where their answers are not the truth; its property
`QuoteMatchesNode` names the three cases in which a quote is released while an attempt can still succeed:
LNbits, asked while the call is under way, answers FAILED of a payment it does not know; LND, asked then, tells of
the failed attempt before; CLN tells of the first attempt only, whatever became of later ones. They are exceptions of the property, not what it catches. A liquidity swap asks a node in the same way, with `Absent` all that the backends answer
of a payment they do not know: UNKNOWN (LND), FAILED (LNbits), PENDING (CLN). `StateMatchesPayment` excepts the swaps that somebody called failed before the payment
had reached the node (`hasty`), the checker between hand over and `PayInvoice`, or either of them after the call broke off; such a swap can be
called failed and be paid. Every other swap's final state is true, however old the answer that is written.

**Exceptions.** Properties that except a behaviour of the code name it as a definition of its own. `ActivePerUnit` excepts a unit whose last rotation clashed with another or
could not read the unit's seeds (`split`): two seeds may then be active. `AcceptedAsLocked` excepts from its second half the locks that ask for signatures and name no
key (`AsksOfNobody`), on which the checks disagree: with `n_sigs_refund` and no refund key SIG_ALL lets anybody take the proof after its time and the
per-proof check nobody; an HTLC of more than one signature and no key can be taken with the preimage alone where each proof is checked, and not under SIG_ALL. `ChangeIsOverpaid` and `RoundingIsBounded` except LNbits, whose fee is taken as sat though it is msat, and with its sign by a
poll; no fee limit is passed to it, so that its routing fee stays within the reserve is an assumption about the service.

### Findings

1. `internal/mint/proofs.go:58` (`check_state`): the state of a row is taken over before the row is
   compared, so a proof without a row is told the state of another proof of the same question.
2. `internal/mint/melting.go:376` (`melt_stale_poll`): a poll that read a failed attempt deletes, after it
   asked the backend, the row that a swap has inserted for the same proof since; a second swap spends it again.
3. `internal/mint/websocket.go:78` (`observer_double_close`): a subscription registers its one channel for each
   filter, and its removal closes that channel once per filter.
4. `internal/mint/minting.go:357` (`mint_twice`): two overlapping requests for one PAID quote are both
   given signatures, where a test expects the second to be refused.

Each is the counterexample of a run; `PROJECT.json` quotes the comment or test it disagrees with.

### Mutants

Every property of a passing run is paired with a mutated definition, defined beside the original and
marked "Mutation", that a plausible slip would produce (a unique key that is missing, a cleanup
that does not commit, a lost COMMIT taken for a failed one, PENDING taken for paid, maps assigned in the other order) and
under which TLC finds the property violated.

## 4. What is proved

For any number of requests, goroutines, quotes, proofs and outputs, any amounts and any set of
faults; the assumptions are the modules' named `ASSUME`s about constants
(`SwapAssumption`, `MeltAssumption`, `MintAssumption`, `KeysetsAssumption`, `LiquidityAssumption`, `StatsAssumption`,
`AuthAssumption`, `BackendsAssumption`, `SpendAssumption`, `ChangeAssumption`, `NotifyAssumption`), which say that constants are of the
right kind, that what is added up or counted is finite (requests, proofs, messages, quotes, keys), that roles do not overlap, and that a backend calls no payment settled that nobody made.

* **SwapProofs**: `TypeCorrect`, `SwapNoDoubleSpend`, `SwapAllOrNothing`, `SwapPendingIsOwned`, `SwapAnswerIsTrue`,
  `SwapImplementsLedger`, and from the last `SwapSpentIsFinal` and `SwapNoFreeSignature`, what the ledger promises carried over to the
  steps of the swap.
  The invariant `IInv` joins the safety properties, none of which is inductive alone, with `Checked`, what a handler knows of its
  request at each step (its inputs are distinct once inserted, its outputs
  once checked). The core of the argument is `PendingIsOwned`: `Insert` needs every input UNSPENT
  at the moment of the INSERT, so a proof in the hands of one handler is PENDING and in no other's; hence `Finish` finds PENDING rows
  only, which gives `NoDoubleSpend` and `AllOrNothing`, and
  `Cleanup`, a DELETE that checks nothing, meets rows of its own request only. `AnswerIsTrue` is
  needed because a handler that may still clean up must not have committed. Refinement:
  `Insert` is `Hold`, `Cleanup` is `GiveBack`, `Finish` is `Spend`, all else stutters.
  `SwapConservationUpToWrap`: per unit, what was spent is what was signed plus the fees, up to a multiple of `Word`, for all amounts. It
  follows from `IInv` and from what a live handler has checked of its own lists, their balance and their unit (`Validated`):
  the spent proofs are the disjoint union of the inputs of the requests in `committed` (`AllOrNothing`, `NoDoubleSpend`), so the sum over
  them is the sum of the sums (`SumOfDisjoint`, `Balance`). `SwapConservation` is the equation itself, under `NoWrap`: no total of
  a request reaches `Word`. Keysets of 32 powers of two (`MaxKeysetAmount`, `api/cashu/keys.go:16`) would need billions of proofs in one
  request to get there; the legacy keysets of 64 (`keys.go:15`) need two, and for those the theorem up to the wrap is all there is.
* **MeltProofs**: `MeltTypeCorrect`, `MeltPaidQuoteIsPaid`, `MeltChangeFollowsPayment`, with operations on
  one quote overlapping freely. The invariant adds `Remembered`: a goroutine that is about to mark
  its quote PAID (`settle`, `finalize`) has seen the payment, and a payment that was made stays made, so
  it does not matter how stale its view of the tables is. Of the change the invariant adds nothing: the steps that sign are
  `Settle` and `Finalize`, each a step of one goroutine, with blank outputs of its own request or of its quote. Assuming `Serial`, also `MeltCovered`,
  `MeltUnpaidHoldsNothing` and `MeltImplementsLedger`, from `SInv`: at most one goroutine
  works on a quote, so the proofs in its hands (`snap` or `ins`) are exactly the pending ones of that quote
  (`Holds`), and the node's record of the payment fits the quote's row (`QuoteOK`). A reservation is the
  ledger's Hold, `Unreserve` and `Release` give back, `Settle` and `Finalize` spend.
* **SwapMeltProofs**, assuming `Serial`: `BothPaysOnce`, `BothSpentForSomething`, `BothCovered`,
  `BothUnpaidHoldsNothing`, `BothImplementLedger`, for swaps and melts over the same rows.
  The argument is one of ownership: a row belongs to the quote it names, or to a swap if it names none
  (`Loose`). A melt leaves the loose rows as they are (`MeltKeepsLoose`), a swap writes only rows that are
  new or loose (`OnlyLoose`), so each side keeps the invariant of the other (`SwapsKept`, `MeltsKept`); for a
  swap that is `SwapInv`, which says of its DELETE and UPDATE by y that they meet PENDING rows of its own.
  Without `Serial` the first fails, as `melt_stale_poll` shows.
* **MintProofs**: `MintTypeCorrect` and `MintIssuedOnlyIfPaid` for overlapping operations, by the same kind of
  invariant (`Remembered`, `CalledPaid`); and, assuming `Serial`,
  `MintImplementsIssuance`, from `SInv`: at most one goroutine per quote, so the state it read is still the
  state (`Fresh`), and its outputs are worth the quote's amount. `MintNoInflation`, also under `Serial`: what is signed is always worth
  what the ISSUED quotes ask for (`Balanced`). This is proved of the abstract `Issuance`, which signs new messages worth a quote in the step
  that draws it, and carried over by the refinement; ISSUED quotes were paid (`CalledPaid`).
* **AdminProofs**. `KeysetsTypeCorrect`, `KeysetsNeverRevived`, `KeysetsSignedIsVerifiable`, `KeysetsActivePerUnit`, for any number of units,
  fees, versions and overlapping rotations. The invariant adds where the maps come from (`FromTable`: what is in a map, or about to be, is in the table),
  that rotations at work at once are counted as a clash (`Clashes`), and what a rotation that runs alone
  remembers of its unit (`Remembers`), so that its write retires everything that is active.
  `LiquidityTypeCorrect`, `LiquidityPaidOnce`, `LiquidityStateMatchesPayment`, whatever the node answers of a payment it does not know. The FOR SHARE lock is the reason: whoever is about to mark holds it (`HandlerOK`), so at most
  one handler gets past it (`OnePayer`); and every verdict that somebody still carries was true when it was
  given and stays true (`Right`), because a payment that ended stays so, or the swap is among the `hasty`.
  `StatsTypeCorrect`, `StatsCountedOnce`: the window being made begins after every snapshot
  (`WindowIsNext`), and an item is counted by the time it was first seen, which lies in one window (`Within`).
* **ServiceProofs**. `AuthTypeCorrect`, `AuthAdmitsOnce`: an auth proof is in one place at a time, in one open transaction or in the table
  (`InOnePlace`).
  `BackendsTypeCorrect`, `BackendsQuoteMatchesNode`, for any number of calls: all attempts but the newest have
  failed (`OldOnesOver`), Strike's quote is executed once (`StrikeOnce`), and a call that
  is under way when a look-up answers is remembered as `early` (`CallUnderWay`).
  `SpendTypeCorrect`, `SpendAcceptedAsLocked`, for any keys and witnesses of any length: the loop counts the keys that agree, not the
  signatures (`ValidSignaturesCounts`), because a key that verified one is taken out of the map; then each of the four checks is compared with the lock
  (`RefundAsLocked`, `SigAllAsLocked`, `ProofAsLocked`).
  `ChangeTypeCorrect`, `ChangeOverpaid`, `ChangeRounding`, for any amounts and any number of msat in a sat, under `Fits`: invoice, fees and surplus are
  so far below `Word` that no sum of a melt reaches it (21 million bitcoin are 2.1 * 10^18 msat, `Word` is 1.8 * 10^19). The inputs cover what
  was asked for (`Covered`), the node took no more than its limit (`PaidWithin`), so the difference that the change is made of does not wrap
  (`SpentFits`); and `AmountSplit` adds up to what it splits and ascends, and the blank outputs take the first amounts (`SplitAddsUp`, `ChangeWorth`).
  `ServicesTypeCorrect` and `ServicesAreSafe`: the seven invariants hold of all parts beside each other, since a step of all is a step
  of one and leaves the variables of the others alone (`EachSteps`). They ask for something to start a part with (`Peopled`).
* **SumProofs**. Facts about sums over finite sets that the above cite. The sum of the community modules is a recursive function over
  subsets whose choice of the next element is not told; that it exists is proved by induction on the size of the set (`PartialExists`), then
  that the order does not matter (`SumTakesOut`), and from there sums of unions, of parts, and of disjoint families.
  Induction itself is a set closed under a step (`NatSteps`, `SetSteps`), from the well-foundedness of `<` on `Nat`: in that form
  the provers can use it.
* **SwapNotifyProofs**: `NotifyTypeCorrect` and `NotifyToldTruth`, for any number of clients, requests, filters, places in a channel and
  connections of the pool. What is in a channel is true (`EventsTrue`) because a sender has taken its request from a commit and
  serves watches of that request's inputs only (`SendsSpent`), which are not removed under it (`MutexHeld`) and whose filters do not change
  (`Subscribed`). `NotifyIsSwap`: the composition implements `Swap`, so all that is proved of it holds here.
  `NotifyNoPanic`, assuming every subscription names one filter (`OneFilter`): then a client has at most one watch, its channel is open while
  the watch is there (`OpenWhileWatched`), and nobody can remove it before it is added (`NotYetListening`). The assumption is
  needed: `observer_double_close` is what happens without it.

Only model-checked: liveness and anything about ENABLED, which are out of TLAPS's reach (`PendingResolves`, `EveryRequestEnds`,
`SubscriberLearns`, `WatchRemoved`, `PendingProofResolves`, `PaymentIsSeen`), and the two that say no more than that operations come after one another (`PaidIsFinal`, `PaidStaysPaid`). Every other
property of a passing run is stated by a theorem. The hypotheses of the theorems hold in the instances: `Serial` in `melt` and `mint`, `NoWrap` and `Fits` by their amounts,
`OneFilter` in `swap_live`.

## 5. Not modelled

* Cryptography: key derivation, blind signatures, the verification of one. A proof or a message is a value.
* The remote signer: a client that forwards each call over gRPC; its failures are the signer faults of Swap and MintQuote.
* Wire formats: JSON, CBOR and protobuf encodings, error codes, the parsing of secrets and witnesses, printing of amounts. The generated
  protobuf code of CLN alone is three quarters of the repository's lines.
* The admin interface: pages, forms, charts and the login. What its requests change in the mint is in Keysets and LiquiditySwaps.
* Restore: one read of the signatures that Swap, Melt and MintQuote store.
* The cache of answers and the timeout of requests. A timeout ends a request's context, which is a database fault of
  Swap and Melt and a COMMIT whose answer is lost. The cache changes no table.
* Clear authentication: tokens are verified by an external OIDC service.
* The clients of the lightning nodes: connections, requests of invoices and `CheckReceived` (one call each, their outcomes are in MintQuote), the
  amount of a partial payment, the fake wallet for tests, a routing fee above the limit.
* Of the observer: watches of quotes, which differ from those of proofs by their map and channel; a second subscription on one connection.
* Of the spending conditions: several locked inputs in one request; the limit of ten keys.
* Of a melt and a mint request: limits on amounts and the format of a request, which change no state.
* Wrong results of the database or the signer; only failing ones are modelled.

## 6. Running

    tlc -workers 2 -config MCSwap.cfg MCSwap          # and the other .cfg files, see "runs"
    tlapm SwapProofs.tla                              # and the other *Proofs.tla

`PROJECT.json` lists components, runs, mutants, the map from definitions to source lines, findings, hazards and
theorems. Passing runs take between a few seconds and about three minutes each.
