----------------------------- MODULE SwapNotify -----------------------------
(***************************************************************************)
(* Swaps and the clients that watch their proofs: ExecuteSwap publishes    *)
(* the proofs it spent (swapping.go 76-77), a melt that ends without a     *)
(* payment publishes its inputs too (melting.go 802), and the handlers and *)
(* the subscriptions share the connections of the database pool.  A        *)
(* transaction that begins waits for a free connection; the ones a         *)
(* subscription leaks never come back.                                     *)
(***************************************************************************)
EXTENDS Swap, Sequences, Functions

CONSTANTS Clients, FilterLists, Capacity,
          PoolSize,    \* pgxpool.Config.MaxConns
          Attempts,    \* melts whose payment fails,
          MeltInputs   \* and the proofs that all of them present

Publishers == Requests \cup Attempts

ASSUME NotifyAssumption == /\ FilterLists \subseteq Seq(Proofs) \ {<<>>}
                           /\ Capacity \in Nat /\ PoolSize \in Nat
                           /\ MeltInputs \subseteq Proofs
                           /\ Requests \cap Attempts = {}
                           /\ {} \notin Publishers   \* {}: nobody holds the hub's mutex

VARIABLES watch, mutex, closed, panic, at, filters, n, leaks, listen, unsub,
          gone, channel, told, sender, left

O == INSTANCE Observer WITH truth <- proofState, Topics <- Proofs, Senders <- Publishers

hubVars    == <<watch, mutex, closed, panic>>
clientVars == <<at, filters, n, leaks, listen, unsub, gone, channel, told>>
notifyVars == <<vars, hubVars, clientVars, sender, left>>

NotifyInit == Init /\ O!ObserverInit

\* Connections of the pool in use: the first transaction of a swap is held
\* between its reads and its write; the others begin and end in one step.
InUse == Cardinality({r \in Requests : pc[r] = "insert"})
           + SumOf(Clients, leaks)

Free  == InUse < PoolSize

\* Mutation: the proofs are published once they are reserved.
Publishes_Early(r) == pc'[r] = "sign"

\* go m.Observer.SendProofsEvent(proofs), once the second transaction took effect.
Publishes(r) == pc'[r] = "done"

SwapStep(r) ==
    /\ Step(r)
    /\ pc[r] \in {"check", "finish", "cleanup"} => Free
    /\ sender' = [sender EXCEPT ![r] = IF Publishes(r) THEN "queued" ELSE @]
    /\ UNCHANGED <<hubVars, clientVars, left>>

\* The requests: what arrives and what fails publishes nothing.
SwapEnvironment ==
    /\ \E r \in Requests :
          \/ \E io \in Acceptable : Receive(r, io[1], io[2])
          \/ Refuse(r) \/ SignerFails(r) \/ DatabaseFails(r)
    /\ UNCHANGED <<hubVars, clientVars, sender, left>>

Database(c)  == (O!OpenTx(c) \/ O!CheckStatus(c)) /\ Free

\* A melt reserved the proofs and gave them back when the payment failed: seen
\* as one step it changes no row.
MeltEnds(a) ==
    /\ sender[a] = "none" /\ Free
    /\ \A p \in MeltInputs : proofState[p] = "UNSPENT"
    /\ sender' = [sender EXCEPT ![a] = "queued"]
    /\ UNCHANGED <<vars, hubVars, clientVars, left>>

\* The proofs of a swap are published as SPENT.  Those of a melt go out as
\* reserveMeltInputsAndMarkPending left them, PENDING, whatever became of them.
Published(x)   == IF x \in Requests THEN Ins(x) ELSE MeltInputs
PublishedAs(x) == IF x \in Requests THEN "SPENT" ELSE "PENDING"

Publish(x) == O!Lock(x, Published(x)) \/ O!Push(x, PublishedAs(x)) \/ O!Unlock(x)

\* What a goroutine of the mint does next, and what clients and faults do.
Goroutines(c) == O!Main(c) \/ Database(c) \/ O!RemoveAsked(c) \/ O!Listen(c)

ClientActs(c) ==
    \/ \E fs \in FilterLists : O!Subscribe(c, fs)
    \/ O!HangUp(c) \/ O!Unsubscribe(c)
    \/ "database" \in Faults /\ O!CheckFails(c)

Others == UNCHANGED <<sigs, pc, request, committed>>

NotifyNext ==
    /\ panic = "no"
    /\ \/ \E r \in Requests : SwapStep(r)
       \/ SwapEnvironment
       \/ \E a \in Attempts : MeltEnds(a)
       \/ /\ \/ \E c \in Clients : Goroutines(c) \/ ClientActs(c)
             \/ \E x \in Publishers : Publish(x)
          /\ Others

NotifySpec == NotifyInit /\ [][NotifyNext]_notifyVars

\* A goroutine that can take its next step takes it: the scheduler runs every
\* goroutine, sync.Mutex does not starve a waiter, and the pool serves those
\* that wait for a connection in order.
FairNotifySpec ==
    /\ NotifySpec
    /\ \A r \in Requests : WF_notifyVars(panic = "no" /\ (SwapStep(r) \/ (Publish(r) /\ Others)))
    /\ \A a \in Attempts : WF_notifyVars(panic = "no" /\ Publish(a) /\ Others)
    /\ \A c \in Clients :
          /\ WF_notifyVars(panic = "no" /\ (O!Main(c) \/ Database(c)) /\ Others)
          /\ WF_notifyVars(panic = "no" /\ O!RemoveAsked(c) /\ Others)
          /\ WF_notifyVars(panic = "no" /\ O!Listen(c) /\ Others)

-----------------------------------------------------------------------------
NotifyTypeOK == TypeOK /\ O!TypeOK
NoPanic == O!NoPanic
NoDoubleClose == O!NoDoubleClose
WatchRemoved == O!WatchRemoved

\* A client is told that a proof is spent only when it is.
ToldTruth == \A c \in Clients : \A p \in told[c] : proofState[p] = "SPENT"

Watchable == UNION {Range(fs) : fs \in FilterLists}

\* A proof that is spent while a client watches it, or was before, is told to
\* it as spent, in whatever order the watch, the look-up of the present state
\* and the swap come: unless the client leaves or its look-up fails.  The event
\* of an earlier melt may still come after it and say PENDING.
SubscriberLearns == \A c \in Clients, p \in Watchable :
    (/\ proofState[p] = "SPENT" /\ p \in Range(filters[c])
     /\ at[c] \in {"confirm", "open", "ask", "loop"})
    ~> (p \in told[c] \/ at[c] \in {"leaving", "ended"} \/ gone[c] \/ unsub[c] # "no")
=============================================================================
