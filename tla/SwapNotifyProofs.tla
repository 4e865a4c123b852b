-------------------------- MODULE SwapNotifyProofs --------------------------
(***************************************************************************)
(* Swaps and their subscribers, for any number of both, of filters, places *)
(* in a channel and connections of the pool.                               *)
(***************************************************************************)
EXTENDS SwapNotify, SwapProofs

\* The hub's mutex is held by the one sender that is at work, and the watches
\* it has still to serve are not removed under it.
MutexHeld == \A x \in Publishers :
    /\ sender[x] = "sending" <=> mutex = x
    /\ left[x] # {} => sender[x] = "sending"
    /\ left[x] \subseteq watch

\* What is sent as SPENT are the proofs of a swap that took effect.
SendsSpent == /\ \A r \in Requests : sender[r] # "none" => r \in committed
              /\ \A x \in Publishers : \A w \in left[x] : O!Watched(w) \in Published(x)

Subscribed == \A w \in watch : at[w[1]] # "new"

\* A subscription is always at one of its filters.
AtFilter == \A c \in Clients : IF at[c] = "new" THEN n[c] = 1
                               ELSE filters[c] \in FilterLists /\ n[c] \in 1..Len(filters[c])

EventsTrue == \A c \in Clients : \A i \in 1..Len(channel[c]) :
    channel[c][i][2] = "SPENT" => proofState[channel[c][i][1]] = "SPENT"

TellInv == /\ IInv /\ O!TypeOK
           /\ MutexHeld /\ SendsSpent /\ Subscribed /\ AtFilter /\ EventsTrue /\ ToldTruth

LEMMA PublishedProofs ==
    ASSUME IInv, NEW x \in Publishers PROVE Published(x) \subseteq Proofs
  <1>1. CASE x \in Requests
    <2>1. ins[x] \in Batches(Proofs)
      BY <1>1 DEF IInv, TypeOK
    <2> QED BY <1>1, <2>1, ElemsOfBatch DEF Published, Ins
  <1>2. CASE x \notin Requests
    BY <1>2, NotifyAssumption DEF Published
  <1> QED BY <1>1, <1>2

-----------------------------------------------------------------------------
(* What a step of the swaps leaves as it was.                              *)

LEMMA SpentStays ==
    ASSUME IInv, [Next]_vars, NEW p \in Proofs, proofState[p] = "SPENT"
    PROVE  proofState'[p] = "SPENT"
  <1>1. [L!LedgerNext]_(L!ledgerVars)
    BY StepOfLedger
  <1> QED BY <1>1 DEF L!LedgerNext, L!ledgerVars, L!Hold, L!GiveBack, L!Spend, L!Move, L!AllIn

LEMMA CommittedStays ==
    ASSUME IInv, [Next]_vars, NEW r \in committed
    PROVE  r \in committed' /\ ins'[r] = ins[r]
  <1>1. r \in Requests /\ pc[r] \in {"done", "lost"}
    BY DEF IInv, TypeOK, AnswerIsTrue
  <1>2. ASSUME NEW s \in Requests, Step(s) PROVE r \in committed' /\ ins' = ins
    BY <1>2 DEF Step, Check, Insert, Sign, Finish, Cleanup, MarkSpentAndSigned, store, request
  <1>3. ASSUME NEW s \in Requests,
               \/ Refuse(s) \/ SignerFails(s) \/ DatabaseFails(s)
               \/ CleanupFails(s) \/ CommitAnswerLost(s)
        PROVE  r \in committed' /\ ins' = ins
    BY <1>3 DEF MarkSpentAndSigned, Refuse, SignerFails, DatabaseFails, CleanupFails,
       CommitAnswerLost, InsertLost, FinishLost, store, request
  <1>4. ASSUME NEW s \in Requests, NEW io \in Acceptable, Receive(s, io[1], io[2])
        PROVE  r \in committed' /\ ins'[r] = ins[r]
    <2>1. s # r
      BY <1>1, <1>4 DEF Receive
    <2>2. ins \in [Requests -> Batches(Proofs)]
      BY DEF IInv, TypeOK
    <2> QED BY <1>1, <1>4, <2>1, <2>2 DEF Receive
  <1>5. CASE Crash \/ UNCHANGED vars
    BY <1>5 DEF Crash, vars, store, request
  <1> QED BY <1>2, <1>3, <1>4, <1>5 DEF Next, AllEnded

-----------------------------------------------------------------------------
(* Typing of the observer, in the groups of variables it updates.          *)

TypedHub     == /\ watch \subseteq Clients \X (Nat \ {0})
                /\ mutex \in {O!Nobody} \cup Publishers
                /\ closed \subseteq Clients
                /\ panic \in {"no", "closed twice", "sent to closed"}
TypedMain    == /\ at \in [Clients -> {"new", "add", "confirm", "open", "ask",
                                       "loop", "leaving", "ended"}]
                /\ filters \in [Clients -> FilterLists \cup {<<>>}]
                /\ n \in [Clients -> Nat \ {0}]
                /\ leaks \in [Clients -> Nat]
TypedLine    == /\ listen \in [Clients -> {"off", "reading", "closing", "replying",
                                           "error", "stopped"}]
                /\ unsub \in [Clients -> {"no", "spawned", "done"}]
                /\ gone \in [Clients -> BOOLEAN]
TypedTraffic == /\ channel \in [Clients -> Seq(Proofs \X O!States)]
                /\ told \in [Clients -> SUBSET Proofs]
TypedSending == /\ sender \in [Publishers -> {"none", "queued", "sending", "sent"}]
                /\ left \in [Publishers -> SUBSET (Clients \X (Nat \ {0}))]

LEMMA TypeParts ==
    O!TypeOK <=> TypedHub /\ TypedMain /\ TypedLine /\ TypedTraffic /\ TypedSending
  BY DEF O!TypeOK, TypedHub, TypedMain, TypedLine, TypedTraffic, TypedSending

LEMMA TypePartsNext ==
    O!TypeOK' <=> TypedHub' /\ TypedMain' /\ TypedLine' /\ TypedTraffic' /\ TypedSending'
  BY DEF O!TypeOK, TypedHub, TypedMain, TypedLine, TypedTraffic, TypedSending

LEMMA NotifyTypeInit == NotifyInit => NotifyTypeOK
  <1> SUFFICES ASSUME NotifyInit PROVE NotifyTypeOK
    OBVIOUS
  <1> USE DEF NotifyInit, O!ObserverInit
  <1>1. TypeOK
    BY TypeInit
  <1>2. TypedHub
    BY DEF TypedHub
  <1>3. TypedMain
    BY DEF TypedMain
  <1>4. TypedLine
    BY DEF TypedLine
  <1>5. TypedTraffic
    <2>1. channel \in [Clients -> Seq(Proofs \X O!States)]
      <3>1. <<>> \in Seq(Proofs \X O!States)
        OBVIOUS
      <3> QED BY <3>1
    <2>2. told \in [Clients -> SUBSET Proofs]
      OBVIOUS
    <2> QED BY <2>1, <2>2 DEF TypedTraffic
  <1>6. TypedSending
    BY DEF TypedSending
  <1> QED BY <1>1, <1>2, <1>3, <1>4, <1>5, <1>6, TypeParts DEF NotifyTypeOK

LEMMA HubStays == TypedHub /\ UNCHANGED O!hub => TypedHub'
  BY DEF TypedHub, O!hub
LEMMA MainStays == TypedMain /\ UNCHANGED O!connection => TypedMain'
  BY DEF TypedMain, O!connection
LEMMA LineStays == TypedLine /\ UNCHANGED O!line => TypedLine'
  BY DEF TypedLine, O!line
LEMMA TrafficStays == TypedTraffic /\ UNCHANGED O!traffic => TypedTraffic'
  BY DEF TypedTraffic, O!traffic
LEMMA SendingStays == TypedSending /\ UNCHANGED O!sending => TypedSending'
  BY DEF TypedSending, O!sending

LEMMA RemoveTyped ==
    ASSUME TypedHub, NEW c \in Clients, O!RemoveWatch(c) PROVE TypedHub'
  BY DEF TypedHub, O!RemoveWatch

LEMMA NextFilterTyped ==
    ASSUME TypedMain, NEW c \in Clients,
           NEW again \in {"add", "open"}, NEW after \in {"confirm", "loop"},
           O!NextFilter(c, again, after)
    PROVE  /\ n' \in [Clients -> Nat \ {0}]
           /\ at' = [at EXCEPT ![c] = again] \/ at' = [at EXCEPT ![c] = after]
  <1>1. n[c] \in Nat \ {0} /\ n \in [Clients -> Nat \ {0}]
    BY DEF TypedMain
  <1>2. n[c] + 1 \in Nat \ {0} /\ 1 \in Nat \ {0}
    BY <1>1
  <1>3. n' = [n EXCEPT ![c] = n[c] + 1] \/ n' = [n EXCEPT ![c] = 1]
    BY DEF O!NextFilter
  <1>4. n' \in [Clients -> Nat \ {0}]
    BY <1>1, <1>2, <1>3
  <1> QED BY <1>4 DEF O!NextFilter, O!Goes

\* The topic a client is told of is one of the proofs.
LEMMA TellsTyped ==
    ASSUME NEW c \in Clients, NEW t \in Proofs, NEW state,
           told \in [Clients -> SUBSET Proofs], O!Tells(c, t, state)
    PROVE  told' \in [Clients -> SUBSET Proofs]
  BY DEF O!Tells

LEMMA AtProof ==
    ASSUME TypedMain, AtFilter, NEW c \in Clients, at[c] # "new"
    PROVE  filters[c][n[c]] \in Proofs
  <1>1. filters[c] \in Seq(Proofs) /\ n[c] \in 1..Len(filters[c])
    BY NotifyAssumption DEF AtFilter
  <1> QED BY <1>1

\* What a connection does keeps the types.
LEMMA ClientTyped ==
    ASSUME O!TypeOK, TypeOK, AtFilter, NEW c \in Clients, Goroutines(c) \/ ClientActs(c)
    PROVE  O!TypeOK'
  <1>1. TypedHub /\ TypedMain /\ TypedLine /\ TypedTraffic /\ TypedSending
    BY TypeParts
  <1>2. ASSUME NEW fs \in FilterLists, O!Subscribe(c, fs) PROVE O!TypeOK'
    <2>1. TypedMain'
      BY <1>1, <1>2 DEF O!Subscribe, O!Goes, TypedMain
    <2> QED BY <1>1, <1>2, <2>1, HubStays, LineStays, TrafficStays, SendingStays, TypePartsNext
            DEF O!Subscribe
  <1>3. CASE O!AddProofWatch(c)
    <2>1. /\ n' \in [Clients -> Nat \ {0}]
          /\ at' = [at EXCEPT ![c] = "add"] \/ at' = [at EXCEPT ![c] = "confirm"]
      BY <1>1, <1>3, NextFilterTyped DEF O!AddProofWatch
    <2>2. TypedMain'
      BY <1>1, <1>3, <2>1 DEF O!AddProofWatch, TypedMain
    <2>3. n[c] \in Nat \ {0}
      BY <1>1 DEF TypedMain
    <2>4. watch' \subseteq Clients \X (Nat \ {0})
      <3>1. watch' = watch \cup {<<c, n[c]>>} /\ watch \subseteq Clients \X (Nat \ {0})
        BY <1>1, <1>3 DEF O!AddProofWatch, TypedHub
      <3>2. <<c, n[c]>> \in Clients \X (Nat \ {0})
        BY <2>3
      <3> QED BY <3>1, <3>2
    <2>5. TypedHub'
      BY <1>1, <1>3, <2>4 DEF O!AddProofWatch, TypedHub
    <2> QED BY <1>1, <1>3, <2>2, <2>5, LineStays, TrafficStays, SendingStays, TypePartsNext
            DEF O!AddProofWatch
  <1>4. CASE O!Confirm(c) \/ O!CheckFails(c) \/ O!StopAsked(c)
    <2>1. TypedMain'
      BY <1>1, <1>4 DEF O!Confirm, O!CheckFails, O!StopAsked, O!Goes, TypedMain
    <2> QED BY <1>1, <1>4, <2>1, HubStays, LineStays, TrafficStays, SendingStays, TypePartsNext
            DEF O!Confirm, O!CheckFails, O!StopAsked
  <1>5. CASE O!OpenTx(c)
    <2>1. leaks[c] \in Nat /\ leaks \in [Clients -> Nat]
      BY <1>1 DEF TypedMain
    <2>2. leaks[c] + 1 \in Nat
      BY <2>1
    <2>3. leaks' \in [Clients -> Nat]
      BY <1>5, <2>1, <2>2 DEF O!OpenTx
    <2>4. TypedMain'
      BY <1>1, <1>5, <2>3 DEF O!OpenTx, O!Goes, TypedMain
    <2> QED BY <1>1, <1>5, <2>4, HubStays, LineStays, TrafficStays, SendingStays, TypePartsNext
            DEF O!OpenTx
  <1>6. CASE O!CheckStatus(c)
    <2> DEFINE t == filters[c][n[c]]
    <2>1. /\ n' \in [Clients -> Nat \ {0}]
          /\ at' \in {[at EXCEPT ![c] = x] : x \in {"leaving", "open", "loop"}}
      <3>1. CASE gone[c]
        BY <1>1, <1>6, <3>1 DEF O!CheckStatus, O!Goes, TypedMain
      <3>2. CASE ~gone[c]
        BY <1>1, <1>6, <3>2, NextFilterTyped DEF O!CheckStatus
      <3> QED BY <3>1, <3>2
    <2>2. TypedMain'
      BY <1>1, <1>6, <2>1 DEF O!CheckStatus, TypedMain
    <2>3. TypedLine'
      BY <1>1, <1>6 DEF O!CheckStatus, TypedLine
    <2>4. TypedTraffic'
      <3>1. t \in Proofs
        BY <1>1, <1>6, AtProof DEF O!CheckStatus
      <3>2. told' = told \/ O!Tells(c, t, proofState[t])
        BY <1>6 DEF O!CheckStatus
      <3> HIDE DEF t
      <3>5. told' \in [Clients -> SUBSET Proofs]
        BY <1>1, <3>1, <3>2, TellsTyped DEF TypedTraffic
      <3> QED BY <1>1, <1>6, <3>5 DEF O!CheckStatus, TypedTraffic
    <2> QED BY <1>1, <1>6, <2>2, <2>3, <2>4, HubStays, SendingStays, TypePartsNext
            DEF O!CheckStatus
  <1>7. CASE O!Forward(c)
    <2>1. channel[c] \in Seq(Proofs \X O!States) /\ channel[c] # <<>>
      BY <1>1, <1>7 DEF O!Forward, TypedTraffic
    <2>2. /\ Tail(channel[c]) \in Seq(Proofs \X O!States)
          /\ Head(channel[c]) \in Proofs \X O!States
      BY <2>1
    <2>3. TypedMain'
      BY <1>1, <1>7 DEF O!Forward, O!Goes, TypedMain
    <2>4. channel' \in [Clients -> Seq(Proofs \X O!States)]
      BY <1>1, <1>7, <2>2 DEF O!Forward, TypedTraffic
    <2>5. told' \in [Clients -> SUBSET Proofs]
      <3>1. Head(channel[c])[1] \in Proofs
        BY <2>2
      <3>2. told' = told \/ O!Tells(c, Head(channel[c])[1], Head(channel[c])[2])
        BY <1>7 DEF O!Forward
      <3> QED BY <1>1, <3>1, <3>2, TellsTyped DEF TypedTraffic
    <2>6. TypedTraffic'
      BY <2>4, <2>5 DEF TypedTraffic
    <2> QED BY <1>1, <1>7, <2>3, <2>6, HubStays, LineStays, SendingStays, TypePartsNext
            DEF O!Forward
  <1>8. CASE O!StopError(c)
    <2>1. TypedMain' /\ TypedLine'
      BY <1>1, <1>8 DEF O!StopError, O!Goes, TypedMain, TypedLine
    <2> QED BY <1>1, <1>8, <2>1, HubStays, TrafficStays, SendingStays, TypePartsNext
            DEF O!StopError
  <1>9. CASE O!Leave(c)
    <2>1. TypedHub'
      BY <1>1, <1>9, RemoveTyped DEF O!Leave
    <2>2. TypedMain' /\ TypedLine'
      BY <1>1, <1>9 DEF O!Leave, O!Goes, TypedMain, TypedLine
    <2> QED BY <1>1, <1>9, <2>1, <2>2, TrafficStays, SendingStays, TypePartsNext DEF O!Leave
  <1>10. CASE O!RemoveAsked(c)
    <2>1. TypedHub'
      BY <1>1, <1>10, RemoveTyped DEF O!RemoveAsked
    <2>2. TypedLine'
      BY <1>1, <1>10 DEF O!RemoveAsked, TypedLine
    <2> QED BY <1>1, <1>10, <2>1, <2>2, MainStays, TrafficStays, SendingStays, TypePartsNext
            DEF O!RemoveAsked
  <1>11. CASE O!HangUp(c) \/ O!Unsubscribe(c) \/ O!Listen(c)
    <2>1. TypedLine'
      BY <1>1, <1>11 DEF O!HangUp, O!Unsubscribe, O!Listen, TypedLine
    <2> QED BY <1>1, <1>11, <2>1, HubStays, MainStays, TrafficStays, SendingStays, TypePartsNext
            DEF O!HangUp, O!Unsubscribe, O!Listen
  <1> QED BY <1>2, <1>3, <1>4, <1>5, <1>6, <1>7, <1>8, <1>9, <1>10, <1>11
          DEF Goroutines, ClientActs, Database, O!Main

\* So does what a sender does.
LEMMA PublishTyped ==
    ASSUME TellInv, NEW r \in Publishers, Publish(r) PROVE O!TypeOK'
  <1>1. TypedHub /\ TypedMain /\ TypedLine /\ TypedTraffic /\ TypedSending
    BY TypeParts DEF TellInv
  <1>2. CASE O!Lock(r, Published(r))
    <2>1. TypedHub'
      BY <1>1, <1>2 DEF O!Lock, TypedHub
    <2>2. {w \in watch : O!Watched(w) \in Published(r)} \subseteq Clients \X (Nat \ {0})
      BY <1>1 DEF TypedHub
    <2>3. TypedSending'
      BY <1>1, <1>2, <2>2 DEF O!Lock, TypedSending
    <2> QED BY <1>1, <1>2, <2>1, <2>3, MainStays, LineStays, TrafficStays, TypePartsNext
            DEF O!Lock
  <1>3. CASE O!Push(r, PublishedAs(r))
    <2>1. PICK w \in left[r] :
            /\ left' = [left EXCEPT ![r] = left[r] \ {w}]
            /\ \/ panic' = "sent to closed" /\ channel' = channel
               \/ /\ channel' = [channel EXCEPT ![w[1]] =
                                   Append(channel[w[1]], <<O!Watched(w), PublishedAs(r)>>)]
                  /\ panic' = panic
      BY <1>3 DEF O!Push
    <2>2. O!Watched(w) \in Proofs /\ w[1] \in Clients
      <3>1. w \in Clients \X (Nat \ {0})
        BY <1>1 DEF TypedSending
      <3>2. O!Watched(w) \in Published(r)
        BY DEF TellInv, SendsSpent
      <3> QED BY <3>1, <3>2, PublishedProofs DEF TellInv
    <2>3. channel' \in [Clients -> Seq(Proofs \X O!States)]
      <3> DEFINE e == <<O!Watched(w), PublishedAs(r)>>
      <3>1. e \in Proofs \X O!States
        BY <2>2 DEF O!States, PublishedAs
      <3>2. channel[w[1]] \in Seq(Proofs \X O!States)
        BY <1>1, <2>2 DEF TypedTraffic
      <3>3. Append(channel[w[1]], e) \in Seq(Proofs \X O!States)
        BY <3>1, <3>2
      <3> QED BY <1>1, <2>1, <3>3 DEF TypedTraffic
    <2>4. TypedTraffic'
      BY <1>1, <1>3, <2>3 DEF O!Push, TypedTraffic
    <2>5. TypedHub'
      BY <1>1, <1>3, <2>1 DEF O!Push, TypedHub
    <2>6. TypedSending'
      <3>1. left[r] \ {w} \in SUBSET (Clients \X (Nat \ {0}))
        BY <1>1 DEF TypedSending
      <3> QED BY <1>1, <1>3, <2>1, <3>1 DEF O!Push, TypedSending
    <2> QED BY <1>1, <1>3, <2>4, <2>5, <2>6, MainStays, LineStays, TypePartsNext DEF O!Push
  <1>4. CASE O!Unlock(r)
    <2>1. TypedHub' /\ TypedSending'
      BY <1>1, <1>4 DEF O!Unlock, TypedHub, TypedSending
    <2> QED BY <1>1, <1>4, <2>1, MainStays, LineStays, TrafficStays, TypePartsNext DEF O!Unlock
  <1> QED BY <1>2, <1>3, <1>4 DEF Publish

-----------------------------------------------------------------------------
(* The inductive invariant.                                                *)

LEMMA TellInit == NotifyInit => TellInv
  <1> SUFFICES ASSUME NotifyInit PROVE TellInv
    OBVIOUS
  <1>1. IInv /\ O!TypeOK
    BY InvInit, NotifyTypeInit DEF NotifyInit, NotifyTypeOK
  <1>2. MutexHeld /\ SendsSpent /\ Subscribed /\ AtFilter
    BY NotifyAssumption DEF NotifyInit, O!ObserverInit, O!Nobody, MutexHeld, SendsSpent,
       Subscribed, AtFilter, Publishers
  <1>3. EventsTrue /\ ToldTruth
    <2>1. /\ \A c \in Clients : channel[c] = <<>>
          /\ \A c \in Clients : told[c] = {}
      BY DEF NotifyInit, O!ObserverInit
    <2> QED BY <2>1 DEF EventsTrue, ToldTruth
  <1> QED BY <1>1, <1>2, <1>3 DEF TellInv

\* A step of the swaps touches the observer only by queueing what a request
\* that took effect publishes.
LEMMA TellSwap ==
    ASSUME TellInv, [Next]_vars, IInv', UNCHANGED <<hubVars, clientVars, left>>,
           sender' \in [Publishers -> {"none", "queued", "sending", "sent"}],
           \A x \in Publishers : \/ sender'[x] = sender[x]
                                 \/ /\ sender'[x] = "queued" /\ sender[x] # "sending"
                                    /\ x \in Requests => x \in committed'
    PROVE  TellInv'
  <1> USE DEF hubVars, clientVars
  <1>1. \A r \in committed : r \in committed' /\ ins'[r] = ins[r]
    BY CommittedStays DEF TellInv
  <1>2. O!TypeOK'
    <2>1. TypedHub' /\ TypedMain' /\ TypedLine' /\ TypedTraffic'
      BY TypeParts, HubStays, MainStays, LineStays, TrafficStays
         DEF TellInv, O!hub, O!connection, O!line, O!traffic
    <2>2. TypedSending'
      BY TypeParts DEF TellInv, TypedSending
    <2> QED BY <2>1, <2>2, TypePartsNext
  <1>3. MutexHeld'
    BY DEF TellInv, MutexHeld
  <1>4. SendsSpent'
    <2>1. ASSUME NEW r \in Requests PROVE sender'[r] # "none" => r \in committed'
      BY <1>1 DEF TellInv, SendsSpent, Publishers
    <2>2. ASSUME NEW x \in Publishers, NEW w \in left[x] PROVE O!Watched(w)' \in Published(x)'
      <3>1. O!Watched(w) \in Published(x) /\ sender[x] = "sending"
        BY DEF TellInv, SendsSpent, MutexHeld
      <3>2. x \in Requests => ins'[x] = ins[x]
        BY <1>1, <3>1 DEF TellInv, SendsSpent
      <3>3. Published(x)' = Published(x)
        BY <3>2 DEF Published, Ins
      <3> QED BY <3>1, <3>3 DEF O!Watched
    <2> QED BY <2>1, <2>2 DEF SendsSpent
  <1>5. Subscribed' /\ AtFilter'
    BY DEF TellInv, Subscribed, AtFilter
  <1>6. EventsTrue' /\ ToldTruth'
    <2>1. \A p \in Proofs : proofState[p] = "SPENT" => proofState'[p] = "SPENT"
      BY SpentStays DEF TellInv
    <2>2. ToldTruth'
      BY <2>1, TypeParts DEF TellInv, ToldTruth, TypedTraffic
    <2>3. ASSUME NEW c \in Clients, NEW i \in 1..Len(channel[c])
          PROVE  channel[c][i][1] \in Proofs
      <3>1. channel[c] \in Seq(Proofs \X O!States)
        BY TypeParts DEF TellInv, TypedTraffic
      <3>2. channel[c][i] \in Proofs \X O!States
        BY <3>1
      <3> QED BY <3>2
    <2> QED BY <2>1, <2>2, <2>3 DEF TellInv, EventsTrue
  <1> QED BY <1>2, <1>3, <1>4, <1>5, <1>6 DEF TellInv

\* What a step of a connection leaves alone and what it changes.
LEMMA ClientLeaves ==
    ASSUME NEW c \in Clients, Goroutines(c) \/ ClientActs(c)
    PROVE  /\ sender' = sender /\ left' = left /\ mutex' = mutex /\ proofState' = proofState
           /\ watch \subseteq watch' \/ mutex = O!Nobody
  <1> USE DEF O!sending, O!hub
  <1>1. CASE Goroutines(c)
    BY <1>1 DEF Goroutines, Database, O!Main, O!AddProofWatch, O!Confirm, O!Forward,
       O!StopAsked, O!StopError, O!Leave, O!OpenTx, O!CheckStatus, O!RemoveAsked,
       O!RemoveWatch, O!Listen
  <1>2. CASE ClientActs(c)
    BY <1>2 DEF ClientActs, O!Subscribe, O!HangUp, O!Unsubscribe, O!CheckFails
  <1> QED BY <1>1, <1>2

LEMMA ClientMoves ==
    ASSUME TypedMain, NEW c \in Clients, Goroutines(c) \/ ClientActs(c)
    PROVE  /\ \A x \in Clients : at[x] # "new" => at'[x] # "new" /\ filters'[x] = filters[x]
           /\ \A w \in watch' : w \in watch \/ (w[1] = c /\ at'[c] # "new")
  <1> USE DEF O!connection, O!hub, O!Goes, TypedMain
  <1>1. ASSUME NEW fs \in FilterLists, O!Subscribe(c, fs)
        PROVE  /\ \A x \in Clients : at[x] # "new" => at'[x] # "new" /\ filters'[x] = filters[x]
               /\ watch' = watch
    BY <1>1 DEF O!Subscribe
  <1>2. CASE O!AddProofWatch(c)
    <2>1. /\ at' = [at EXCEPT ![c] = "add"] \/ at' = [at EXCEPT ![c] = "confirm"]
          /\ filters' = filters /\ watch' = watch \cup {<<c, n[c]>>}
      BY <1>2 DEF O!AddProofWatch, O!NextFilter
    <2> QED BY <2>1
  <1>3. CASE O!CheckStatus(c)
    <2>1. /\ \E where \in {"leaving", "open", "loop"} : at' = [at EXCEPT ![c] = where]
          /\ filters' = filters /\ watch' = watch
      BY <1>3 DEF O!CheckStatus, O!NextFilter
    <2> QED BY <2>1
  <1>4. CASE \/ O!Confirm(c) \/ O!OpenTx(c) \/ O!CheckFails(c) \/ O!Forward(c)
             \/ O!StopAsked(c) \/ O!StopError(c)
    BY <1>4 DEF O!Confirm, O!OpenTx, O!CheckFails, O!Forward, O!StopAsked, O!StopError
  <1>5. CASE O!Leave(c) \/ O!RemoveAsked(c)
    BY <1>5 DEF O!Leave, O!RemoveAsked, O!RemoveWatch
  <1>6. CASE O!HangUp(c) \/ O!Unsubscribe(c) \/ O!Listen(c)
    BY <1>6 DEF O!HangUp, O!Unsubscribe, O!Listen
  <1> QED BY <1>1, <1>2, <1>3, <1>4, <1>5, <1>6
          DEF Goroutines, ClientActs, Database, O!Main

\* What a client is told is the present state or the head of its channel.
LEMMA ClientHears ==
    ASSUME NEW c \in Clients, Goroutines(c) \/ ClientActs(c)
    PROVE  \/ UNCHANGED O!traffic
           \/ channel' = channel /\ O!Tells(c, filters[c][n[c]], proofState[filters[c][n[c]]])
           \/ /\ channel[c] # <<>> /\ channel' = [channel EXCEPT ![c] = Tail(channel[c])]
              /\ told' = told \/ O!Tells(c, Head(channel[c])[1], Head(channel[c])[2])
  <1> USE DEF O!traffic
  <1>1. CASE O!CheckStatus(c)
    BY <1>1 DEF O!CheckStatus
  <1>2. CASE O!Forward(c)
    BY <1>2 DEF O!Forward
  <1>3. CASE Goroutines(c) /\ ~O!CheckStatus(c) /\ ~O!Forward(c)
    BY <1>3 DEF Goroutines, Database, O!Main, O!AddProofWatch, O!Confirm, O!StopAsked,
       O!StopError, O!Leave, O!OpenTx, O!RemoveAsked, O!Listen
  <1>4. CASE ClientActs(c)
    BY <1>4 DEF ClientActs, O!Subscribe, O!HangUp, O!Unsubscribe, O!CheckFails
  <1> QED BY <1>1, <1>2, <1>3, <1>4

\* The next filter is one of the subscription's, or it is the first again.
LEMMA ClientPoints ==
    ASSUME TypedMain, AtFilter, NEW c \in Clients, Goroutines(c) \/ ClientActs(c)
    PROVE  AtFilter'
  <1> USE DEF O!connection, O!Goes, TypedMain, AtFilter
  <1>1. ASSUME NEW fs \in FilterLists PROVE 1 \in 1..Len(fs) /\ Len(fs) \in Nat
    BY NotifyAssumption
  <1>2. ASSUME NEW fs \in FilterLists, O!Subscribe(c, fs) PROVE AtFilter'
    BY <1>1, <1>2 DEF O!Subscribe
  <1>3. ASSUME NEW again \in {"add", "open"}, NEW after \in {"confirm", "loop"},
               at[c] # "new", filters' = filters, O!NextFilter(c, again, after)
        PROVE  AtFilter'
    <2>1. filters[c] \in FilterLists /\ n[c] \in 1..Len(filters[c])
      BY <1>3
    <2>2. CASE n[c] < Len(filters[c])
      <3>1. n' = [n EXCEPT ![c] = n[c] + 1] /\ at' = [at EXCEPT ![c] = again]
        BY <1>3, <2>2 DEF O!NextFilter
      <3>2. n[c] + 1 \in 1..Len(filters[c])
        BY <1>1, <2>1, <2>2
      <3> QED BY <1>3, <2>1, <3>1, <3>2
    <2>3. CASE ~(n[c] < Len(filters[c]))
      <3>1. n' = [n EXCEPT ![c] = 1] /\ at' = [at EXCEPT ![c] = after]
        BY <1>3, <2>3 DEF O!NextFilter
      <3> QED BY <1>1, <1>3, <2>1, <3>1
    <2> QED BY <2>2, <2>3
  <1>4. ASSUME NEW where \in {"confirm", "open", "ask", "loop", "leaving", "ended"},
               at[c] # "new", at' = at \/ at' = [at EXCEPT ![c] = where],
               filters' = filters, n' = n
        PROVE  AtFilter'
    BY <1>4
  <1>5. CASE O!AddProofWatch(c)
    BY <1>3, <1>5 DEF O!AddProofWatch
  <1>6. CASE O!CheckStatus(c)
    <2>1. at[c] # "new" /\ filters' = filters
      BY <1>6 DEF O!CheckStatus
    <2>2. CASE gone[c]
      <3>1. n' = n /\ at' = [at EXCEPT ![c] = "leaving"]
        BY <1>6, <2>2 DEF O!CheckStatus
      <3> QED BY <1>4, <2>1, <3>1
    <2>3. CASE ~gone[c]
      <3>1. O!NextFilter(c, "open", "loop")
        BY <1>6, <2>3 DEF O!CheckStatus
      <3> QED BY <1>3, <2>1, <3>1
    <2> QED BY <2>2, <2>3
  <1>7. CASE \/ O!Confirm(c) \/ O!OpenTx(c) \/ O!CheckFails(c) \/ O!Forward(c)
             \/ O!StopAsked(c) \/ O!StopError(c) \/ O!Leave(c)
    BY <1>4, <1>7 DEF O!Confirm, O!OpenTx, O!CheckFails, O!Forward, O!StopAsked,
       O!StopError, O!Leave
  <1>8. CASE O!RemoveAsked(c) \/ O!HangUp(c) \/ O!Unsubscribe(c) \/ O!Listen(c)
    BY <1>8 DEF O!RemoveAsked, O!HangUp, O!Unsubscribe, O!Listen
  <1> QED BY <1>2, <1>5, <1>6, <1>7, <1>8 DEF Goroutines, ClientActs, Database, O!Main

LEMMA TellClient ==
    ASSUME TellInv, UNCHANGED vars, NEW c \in Clients, Goroutines(c) \/ ClientActs(c)
    PROVE  TellInv'
  <1>1. IInv' /\ O!TypeOK'
    BY InvNext, ClientTyped DEF TellInv, IInv
  <1>2. TypedMain /\ TypedTraffic /\ TypedHub
    BY TypeParts DEF TellInv
  <1>3. proofState' = proofState /\ ins' = ins /\ committed' = committed
    BY DEF vars
  <1>4. MutexHeld'
    BY ClientLeaves, NotifyAssumption DEF TellInv, MutexHeld, O!Nobody
  <1>5. SendsSpent'
    <2> SUFFICES ASSUME NEW r \in Publishers, NEW w \in left[r]
                 PROVE  O!Watched(w)' \in Published(r)
      BY <1>3, ClientLeaves DEF TellInv, SendsSpent, Published, Ins
    <2>1. w \in watch /\ O!Watched(w) \in Published(r)
      BY DEF TellInv, SendsSpent, MutexHeld
    <2>2. w[1] \in Clients /\ at[w[1]] # "new"
      BY <1>2, <2>1 DEF TellInv, Subscribed, TypedHub
    <2>3. filters'[w[1]] = filters[w[1]]
      BY <1>2, <2>2, ClientMoves
    <2> QED BY <2>1, <2>3 DEF O!Watched
  <1>6. Subscribed'
    <2> SUFFICES ASSUME NEW w \in watch' PROVE at'[w[1]] # "new"
      BY DEF Subscribed
    <2>1. CASE w \in watch
      <3>1. w[1] \in Clients /\ at[w[1]] # "new"
        BY <1>2, <2>1 DEF TellInv, Subscribed, TypedHub
      <3> QED BY <1>2, <3>1, ClientMoves
    <2> QED BY <1>2, <2>1, ClientMoves
  <1>7. ToldTruth'
    <2> SUFFICES ASSUME NEW d \in Clients, NEW p \in told'[d]
                 PROVE  proofState[p] = "SPENT"
      BY <1>3 DEF ToldTruth
    <2>1. p \in told[d] => proofState[p] = "SPENT"
      BY DEF TellInv, ToldTruth
    <2>2. told \in [Clients -> SUBSET Proofs]
      BY <1>2 DEF TypedTraffic
    <2>3. CASE told' = told
      BY <2>1, <2>3
    <2>4. CASE O!Tells(c, filters[c][n[c]], proofState[filters[c][n[c]]])
      BY <2>1, <2>2, <2>4 DEF O!Tells
    <2>5. CASE channel[c] # <<>> /\ O!Tells(c, Head(channel[c])[1], Head(channel[c])[2])
      <3>1. channel[c] \in Seq(Proofs \X O!States)
        BY <1>2 DEF TypedTraffic
      <3>2. 1 \in 1..Len(channel[c]) /\ Head(channel[c]) = channel[c][1]
        BY <2>5, <3>1
      <3>3. Head(channel[c])[2] = "SPENT" => proofState[Head(channel[c])[1]] = "SPENT"
        BY <3>2 DEF TellInv, EventsTrue
      <3> QED BY <2>1, <2>2, <2>5, <3>3 DEF O!Tells
    <2> QED BY <2>3, <2>4, <2>5, ClientHears DEF O!traffic
  <1>8. EventsTrue'
    <2> SUFFICES ASSUME NEW d \in Clients, NEW i \in 1..Len(channel'[d])
                 PROVE  channel'[d][i][2] = "SPENT" => proofState[channel'[d][i][1]] = "SPENT"
      BY <1>3 DEF EventsTrue
    <2>1. \/ channel'[d] = channel[d]
          \/ channel[d] # <<>> /\ channel'[d] = Tail(channel[d])
      BY <1>2, ClientHears DEF O!traffic, TypedTraffic
    <2>2. channel[d] \in Seq(Proofs \X O!States)
      BY <1>2 DEF TypedTraffic
    <2>3. \E j \in 1..Len(channel[d]) : channel'[d][i] = channel[d][j]
      <3>1. CASE channel'[d] = channel[d]
        BY <3>1
      <3>2. CASE channel[d] # <<>> /\ channel'[d] = Tail(channel[d])
        <4>1. /\ Len(Tail(channel[d])) = Len(channel[d]) - 1 /\ Len(channel[d]) \in Nat
              /\ i \in 1..Len(Tail(channel[d]))
          BY <2>2, <3>2
        <4>2. i + 1 \in 1..Len(channel[d]) /\ Tail(channel[d])[i] = channel[d][i + 1]
          BY <2>2, <3>2, <4>1
        <4> QED BY <3>2, <4>2
      <3> QED BY <2>1, <3>1, <3>2
    <2> QED BY <2>3 DEF TellInv, EventsTrue
  <1>9. AtFilter'
    BY <1>2, ClientPoints DEF TellInv
  <1> QED BY <1>1, <1>4, <1>5, <1>6, <1>7, <1>8, <1>9 DEF TellInv

LEMMA TellPublish ==
    ASSUME TellInv, UNCHANGED vars, NEW r \in Publishers, Publish(r)
    PROVE  TellInv'
  <1>1. IInv' /\ O!TypeOK'
    BY InvNext, PublishTyped DEF TellInv
  <1>2. TypedTraffic /\ TypedHub /\ TypedSending
    BY TypeParts DEF TellInv
  <1>3. proofState' = proofState /\ ins' = ins /\ committed' = committed
    BY DEF vars
  <1>4. watch' = watch /\ at' = at /\ filters' = filters /\ n' = n /\ told' = told
    BY DEF Publish, O!Lock, O!Push, O!Unlock, O!connection, O!traffic
  <1>5. /\ \A s \in Publishers : s # r => sender'[s] = sender[s] /\ left'[s] = left[s]
        /\ sender'[r] # "none" => sender[r] # "none"
        /\ left'[r] \subseteq left[r] \cup {w \in watch : O!Watched(w) \in Published(r)}
    BY <1>2 DEF Publish, O!Lock, O!Push, O!Unlock, TypedSending
  <1>6. MutexHeld'
    <2>1. \A s \in Publishers : s # {}
      BY NotifyAssumption
    <2>2. CASE O!Lock(r, Published(r))
      BY <1>2, <2>1, <2>2 DEF O!Lock, O!Nobody, TellInv, MutexHeld, TypedSending
    <2>3. CASE O!Push(r, PublishedAs(r))
      BY <1>2, <2>3 DEF O!Push, TellInv, MutexHeld, TypedSending
    <2>4. CASE O!Unlock(r)
      BY <1>2, <2>1, <2>4 DEF O!Unlock, O!Nobody, TellInv, MutexHeld, TypedSending
    <2> QED BY <2>2, <2>3, <2>4 DEF Publish
  <1>7. SendsSpent'
    <2>1. \A s \in Publishers : Published(s)' = Published(s)
      BY <1>3 DEF Published, Ins
    <2>2. \A s \in Publishers : \A w \in left'[s] : O!Watched(w) \in Published(s)
      BY <1>5 DEF TellInv, SendsSpent
    <2>3. \A s \in Requests : sender'[s] # "none" => s \in committed
      BY <1>5 DEF TellInv, SendsSpent, Publishers
    <2> QED BY <1>3, <1>4, <2>1, <2>2, <2>3 DEF SendsSpent, O!Watched
  <1>8. Subscribed' /\ AtFilter' /\ ToldTruth'
    BY <1>3, <1>4 DEF TellInv, Subscribed, AtFilter, ToldTruth
  <1>9. EventsTrue'
    <2> SUFFICES ASSUME NEW d \in Clients, NEW i \in 1..Len(channel'[d])
                 PROVE  channel'[d][i][2] = "SPENT" => proofState[channel'[d][i][1]] = "SPENT"
      BY <1>3 DEF EventsTrue
    <2>1. CASE channel' = channel
      BY <2>1 DEF TellInv, EventsTrue
    <2>2. CASE channel' # channel
      <3>1. PICK w \in left[r] : /\ sender[r] = "sending"
                                 /\ channel' = [channel EXCEPT ![w[1]] =
                                       Append(channel[w[1]], <<O!Watched(w), PublishedAs(r)>>)]
        BY <2>2 DEF Publish, O!Lock, O!Push, O!Unlock, O!traffic
      <3>2. O!Watched(w) \in Published(r)
        BY <3>1 DEF TellInv, SendsSpent
      <3>3. O!Watched(w) \in Proofs
        BY <3>2, PublishedProofs DEF TellInv
      <3>4. PublishedAs(r) = "SPENT" => proofState[O!Watched(w)] = "SPENT"
        <4>1. CASE r \in Requests
          <5>1. r \in committed /\ O!Watched(w) \in Ins(r)
            BY <3>1, <3>2, <4>1 DEF TellInv, SendsSpent, Published
          <5> QED BY <3>3, <5>1 DEF TellInv, IInv, AllOrNothing
        <4>2. CASE r \notin Requests
          BY <4>2 DEF PublishedAs
        <4> QED BY <4>1, <4>2
      <3>5. channel \in [Clients -> Seq(Proofs \X O!States)]
        BY <1>2 DEF TypedTraffic
      <3>6. CASE d = w[1]
        <4> DEFINE e == <<O!Watched(w), PublishedAs(r)>>
        <4>1. channel'[d] = Append(channel[d], e) /\ channel[d] \in Seq(Proofs \X O!States)
          BY <3>1, <3>5, <3>6
        <4>2. e[1] = O!Watched(w) /\ e[2] = PublishedAs(r)
          OBVIOUS
        <4> HIDE DEF e
        <4>3. channel'[d][i] = e \/ \E j \in 1..Len(channel[d]) : channel'[d][i] = channel[d][j]
          BY <4>1
        <4> QED BY <3>4, <4>2, <4>3 DEF TellInv, EventsTrue
      <3>7. CASE d # w[1]
        BY <3>1, <3>5, <3>7 DEF TellInv, EventsTrue
      <3> QED BY <3>6, <3>7
    <2> QED BY <2>1, <2>2
  <1> QED BY <1>1, <1>6, <1>7, <1>8, <1>9 DEF TellInv

LEMMA TellStutter == ASSUME TellInv, UNCHANGED notifyVars PROVE TellInv'
  <1>1. UNCHANGED <<hubVars, clientVars, left>> /\ sender' = sender /\ UNCHANGED vars
    BY DEF notifyVars
  <1>2. sender \in [Publishers -> {"none", "queued", "sending", "sent"}]
    BY TypeParts DEF TellInv, TypedSending
  <1>3. IInv'
    BY <1>1, InvNext DEF TellInv
  <1> QED BY <1>1, <1>2, <1>3, TellSwap

LEMMA TellNext == TellInv /\ [NotifyNext]_notifyVars => TellInv'
  <1> SUFFICES ASSUME TellInv, [NotifyNext]_notifyVars PROVE TellInv'
    OBVIOUS
  <1>1. IInv /\ sender \in [Publishers -> {"none", "queued", "sending", "sent"}]
    BY TypeParts DEF TellInv, TypedSending
  <1>2. ASSUME NEW r \in Requests, SwapStep(r) PROVE TellInv'
    <2>1. [Next]_vars /\ UNCHANGED <<hubVars, clientVars, left>>
      BY <1>2 DEF SwapStep, Next
    <2>2. IInv'
      BY <1>1, <2>1, InvNext
    <2>3. sender' = [sender EXCEPT ![r] = IF pc'[r] = "done" THEN "queued" ELSE sender[r]]
      BY <1>2 DEF SwapStep, Publishes
    <2>4. pc'[r] = "done" => r \in committed'
      BY <2>2 DEF IInv, AnswerIsTrue
    <2>5. sender[r] # "sending"
      <3>1. pc[r] \notin {"done", "lost"}
        BY <1>2 DEF SwapStep, Step, Check, Insert, Sign, Finish, Cleanup
      <3> QED BY <1>1, <3>1 DEF TellInv, SendsSpent, IInv, AnswerIsTrue
    <2>6. r \in Publishers
      BY DEF Publishers
    <2> QED BY <1>1, <2>1, <2>2, <2>3, <2>4, <2>5, <2>6, TellSwap
  <1>3. CASE SwapEnvironment
    <2>1. [Next]_vars /\ UNCHANGED <<hubVars, clientVars, left>> /\ sender' = sender
      BY <1>3 DEF SwapEnvironment, Next
    <2>2. IInv'
      BY <1>1, <2>1, InvNext
    <2> QED BY <1>1, <2>1, <2>2, TellSwap
  <1>4. ASSUME NEW c \in Clients, Goroutines(c) \/ ClientActs(c), Others PROVE TellInv'
    <2>1. UNCHANGED vars
      BY <1>4, ClientLeaves DEF Others, vars, request
    <2> QED BY <1>4, <2>1, TellClient
  <1>5. ASSUME NEW r \in Publishers, Publish(r), Others PROVE TellInv'
    <2>1. UNCHANGED vars
      BY <1>5 DEF Others, Publish, O!Lock, O!Push, O!Unlock, vars, request
    <2> QED BY <1>5, <2>1, TellPublish
  <1>6. ASSUME NEW a \in Attempts, MeltEnds(a) PROVE TellInv'
    <2>1. [Next]_vars /\ UNCHANGED <<hubVars, clientVars, left>> /\ UNCHANGED vars
      BY <1>6 DEF MeltEnds
    <2>2. IInv'
      BY <1>1, <2>1, InvNext
    <2>3. a \in Publishers /\ a \notin Requests /\ sender[a] = "none"
      BY <1>6, NotifyAssumption DEF Publishers, MeltEnds
    <2>4. sender' = [sender EXCEPT ![a] = "queued"]
      BY <1>6 DEF MeltEnds
    <2> QED BY <1>1, <2>1, <2>2, <2>3, <2>4, TellSwap
  <1> QED BY <1>2, <1>3, <1>4, <1>5, <1>6, TellStutter DEF NotifyNext

-----------------------------------------------------------------------------
\* The variables of the swaps, of the hub and of the connections keep their
\* types, the places of the filters and the counts of open transactions too.
THEOREM NotifyTypeCorrect == NotifySpec => []NotifyTypeOK
  <1>1. TellInv => NotifyTypeOK
    BY DEF TellInv, IInv, NotifyTypeOK
  <1> QED BY <1>1, TellInit, TellNext, PTL DEF NotifySpec

\* A client is told that a proof is spent only when it is, in whatever order
\* its watches, its look-ups and the events of the swaps come.
THEOREM NotifyToldTruth == NotifySpec => []ToldTruth
  <1>1. TellInv => ToldTruth
    BY DEF TellInv
  <1> QED BY <1>1, TellInit, TellNext, PTL DEF NotifySpec

\* The observer and the pool constrain when a swap moves, never how: with them
\* the swaps behave as Swap says, and every theorem about Swap holds here too.
THEOREM NotifyIsSwap == NotifySpec => Spec
  <1>1. NotifyInit => Init
    BY DEF NotifyInit
  <1>2. [NotifyNext]_notifyVars => [Next]_vars
    <2> SUFFICES ASSUME [NotifyNext]_notifyVars PROVE [Next]_vars
      OBVIOUS
    <2>1. ASSUME NEW r \in Requests, SwapStep(r) PROVE Next
      BY <2>1 DEF SwapStep, Next
    <2>2. CASE SwapEnvironment
      BY <2>2 DEF SwapEnvironment, Next
    <2>3. ASSUME NEW c \in Clients, Goroutines(c) \/ ClientActs(c), Others PROVE UNCHANGED vars
      BY <2>3, ClientLeaves DEF Others, vars, request
    <2>4. ASSUME NEW r \in Publishers, Publish(r), Others PROVE UNCHANGED vars
      BY <2>4 DEF Others, Publish, O!Lock, O!Push, O!Unlock, vars, request
    <2>5. CASE UNCHANGED notifyVars
      BY <2>5 DEF notifyVars
    <2>6. ASSUME NEW a \in Attempts, MeltEnds(a) PROVE UNCHANGED vars
      BY <2>6 DEF MeltEnds
    <2> QED BY <2>1, <2>2, <2>3, <2>4, <2>5, <2>6 DEF NotifyNext
  <1> QED BY <1>1, <1>2, PTL DEF NotifySpec, Spec

-----------------------------------------------------------------------------
(* Subscriptions with one filter each: every watch of a client is the same *)
(* one, its channel is closed when the watch goes, and the listener, which *)
(* can ask for that, does not run before the watch is there.               *)

OneFilter == \A fs \in FilterLists : Len(fs) = 1

Early == {"new", "add", "confirm", "open", "ask"}

OpenWhileWatched == \A w \in watch : w[1] \notin closed /\ w[2] = 1
FirstFilter      == \A c \in Clients : n[c] = 1
NotYetClosed     == \A c \in Clients : at[c] \in {"new", "add"} => c \notin closed
NotYetListening  == \A c \in Clients : at[c] \in Early => listen[c] = "off" /\ unsub[c] = "no"

CalmInv == /\ TellInv
           /\ OpenWhileWatched /\ FirstFilter /\ NotYetClosed /\ NotYetListening
           /\ NoPanic

LEMMA CalmInit == NotifyInit => CalmInv
  BY TellInit DEF NotifyInit, O!ObserverInit, CalmInv, OpenWhileWatched, FirstFilter,
     NotYetClosed, NotYetListening, NoPanic, O!NoPanic

LEMMA CalmStays ==
    ASSUME CalmInv, TellInv', UNCHANGED <<watch, closed, n, at, listen, unsub, panic>>
    PROVE  CalmInv'
  BY DEF CalmInv, OpenWhileWatched, FirstFilter, NotYetClosed, NotYetListening, NoPanic, O!NoPanic

\* With one filter there is no second one to go on with.
LEMMA LastFilter ==
    ASSUME OneFilter, CalmInv, NEW c \in Clients,
           NEW again, NEW after, O!NextFilter(c, again, after)
    PROVE  n' = n /\ at' = [at EXCEPT ![c] = after]
  <1>1. TypedMain
    BY TypeParts DEF CalmInv, TellInv
  <1>2. n[c] = 1 /\ n \in [Clients -> Nat \ {0}] /\ filters[c] \in FilterLists \cup {<<>>}
    BY <1>1 DEF CalmInv, FirstFilter, TypedMain
  <1>3. Len(filters[c]) = 0 \/ Len(filters[c]) = 1
    BY <1>2 DEF OneFilter
  <1>4. n' = [n EXCEPT ![c] = 1] /\ at' = [at EXCEPT ![c] = after]
    <2> DEFINE k == Len(filters[c])
    <2>1. ~(n[c] < k)
      <3>1. n[c] = 1 /\ (k = 0 \/ k = 1)
        BY <1>2, <1>3
      <3> HIDE DEF k
      <3> QED BY <3>1
    <2> QED BY <2>1 DEF O!NextFilter, O!Goes
  <1> QED BY <1>2, <1>4

\* The connection moves on from where it has nothing to remove yet.
LEMMA CalmMoves ==
    ASSUME CalmInv, TellInv', NEW c \in Clients,
           UNCHANGED <<watch, closed, n, panic, unsub>>,
           \A x \in Clients \ {c} : at'[x] = at[x] /\ listen'[x] = listen[x],
           at'[c] = "add" => at[c] = "new",
           at'[c] # "new",
           at'[c] \in Early => at[c] \in Early /\ listen'[c] = listen[c]
    PROVE  CalmInv'
  <1> USE DEF CalmInv
  <1>1. OpenWhileWatched' /\ FirstFilter' /\ NoPanic'
    BY DEF OpenWhileWatched, FirstFilter, NoPanic, O!NoPanic
  <1>2. NotYetClosed'
    BY DEF NotYetClosed
  <1>3. NotYetListening'
    BY DEF NotYetListening
  <1> QED BY <1>1, <1>2, <1>3

\* RemoveWatch closes the channel of a client that no longer adds a watch.
LEMMA CalmRemove ==
    ASSUME CalmInv, NEW c \in Clients, at[c] \notin {"new", "add"}, O!RemoveWatch(c)
    PROVE  /\ OpenWhileWatched' /\ panic' = "no"
           /\ closed' \subseteq closed \cup {c}
  <1>1. watch \subseteq Clients \X (Nat \ {0})
    BY TypeParts DEF CalmInv, TellInv, TypedHub
  <1>2. O!ClosesOnce(c)
    <2>1. \A w \in O!Mine(c) : w = <<c, 1>> /\ c \notin closed
      BY <1>1 DEF O!Mine, CalmInv, OpenWhileWatched
    <2> QED BY <2>1 DEF O!ClosesOnce
  <1>3. panic' = "no" /\ closed' \subseteq closed \cup {c}
    BY <1>2 DEF O!RemoveWatch, CalmInv, NoPanic, O!NoPanic
  <1>4. OpenWhileWatched'
    BY <1>3 DEF O!RemoveWatch, O!Mine, CalmInv, OpenWhileWatched
  <1> QED BY <1>3, <1>4

LEMMA CalmClient ==
    ASSUME OneFilter, CalmInv, TellInv', NEW c \in Clients, Goroutines(c) \/ ClientActs(c)
    PROVE  CalmInv'
  <1>1. TypedMain /\ TypedLine /\ TypedHub
    BY TypeParts DEF CalmInv, TellInv
  <1> USE DEF O!hub, O!line, O!connection
  <1>2. ASSUME NEW fs \in FilterLists, O!Subscribe(c, fs) PROVE CalmInv'
    BY <1>1, <1>2, CalmMoves DEF O!Subscribe, O!Goes, TypedMain, TypedLine, Early
  <1>3. CASE O!AddProofWatch(c)
    <2>1. /\ n' = n /\ at' = [at EXCEPT ![c] = "confirm"] /\ at[c] = "add"
          /\ watch' = watch \cup {<<c, n[c]>>}
          /\ UNCHANGED <<closed, panic, listen, unsub>>
      BY <1>3, LastFilter DEF O!AddProofWatch
    <2>2. OpenWhileWatched'
      BY <2>1 DEF CalmInv, OpenWhileWatched, NotYetClosed, FirstFilter
    <2>3. FirstFilter' /\ NotYetClosed' /\ NotYetListening' /\ NoPanic'
      BY <1>1, <2>1 DEF CalmInv, FirstFilter, NotYetClosed, NotYetListening, NoPanic,
         O!NoPanic, TypedMain, Early
    <2> QED BY <2>2, <2>3 DEF CalmInv
  <1>4. CASE O!Confirm(c) \/ O!OpenTx(c) \/ O!CheckFails(c) \/ O!StopAsked(c)
    BY <1>1, <1>4, CalmMoves
       DEF O!Confirm, O!OpenTx, O!CheckFails, O!StopAsked, O!Goes, TypedMain, TypedLine, Early
  <1>5. CASE O!CheckStatus(c)
    <2>1. /\ n' = n /\ at[c] = "ask"
          /\ at' = [at EXCEPT ![c] = "leaving"] \/ at' = [at EXCEPT ![c] = "loop"]
      BY <1>5, LastFilter DEF O!CheckStatus, O!Goes
    <2>2. /\ UNCHANGED <<watch, closed, panic, unsub>>
          /\ \A x \in Clients \ {c} : listen'[x] = listen[x]
      BY <1>1, <1>5 DEF O!CheckStatus, TypedLine
    <2> QED BY <1>1, <2>1, <2>2, CalmMoves DEF TypedMain, Early
  <1>6. CASE O!Forward(c)
    BY <1>1, <1>6, CalmMoves DEF O!Forward, O!Goes, TypedMain, Early
  <1>7. CASE O!StopError(c)
    BY <1>1, <1>7, CalmMoves DEF O!StopError, O!Goes, TypedMain, TypedLine, Early
  <1>8. CASE O!HangUp(c)
    BY <1>8, CalmStays DEF O!HangUp
  <1>9. CASE O!Unsubscribe(c) \/ O!Listen(c)
    <2>1. /\ UNCHANGED <<watch, closed, n, at, panic>> /\ listen[c] # "off"
          /\ \A x \in Clients \ {c} : listen'[x] = listen[x] /\ unsub'[x] = unsub[x]
      BY <1>1, <1>9 DEF O!Unsubscribe, O!Listen, TypedLine
    <2> QED BY <2>1 DEF CalmInv, OpenWhileWatched, FirstFilter, NotYetClosed,
            NotYetListening, NoPanic, O!NoPanic
  <1>10. CASE O!Leave(c) \/ O!RemoveAsked(c)
    <2>1. /\ at[c] \notin {"new", "add"} /\ O!RemoveWatch(c)
          /\ UNCHANGED <<n, listen>>
          /\ at' = at \/ at' = [at EXCEPT ![c] = "ended"]
      BY <1>10 DEF O!Leave, O!RemoveAsked, O!Goes, CalmInv, NotYetListening, Early
    <2>2. unsub' = unsub \/ (unsub[c] = "spawned" /\ unsub' = [unsub EXCEPT ![c] = "done"])
      BY <1>10 DEF O!Leave, O!RemoveAsked
    <2>3. OpenWhileWatched' /\ panic' = "no" /\ closed' \subseteq closed \cup {c}
      BY <2>1, CalmRemove
    <2>4. FirstFilter' /\ NotYetClosed' /\ NoPanic'
      BY <1>1, <2>1, <2>3 DEF CalmInv, FirstFilter, NotYetClosed, NoPanic, O!NoPanic, TypedMain
    <2>5. NotYetListening'
      BY <1>1, <2>1, <2>2 DEF CalmInv, NotYetListening, TypedMain, TypedLine, Early
    <2> QED BY <2>3, <2>4, <2>5 DEF CalmInv
  <1> QED BY <1>2, <1>3, <1>4, <1>5, <1>6, <1>7, <1>8, <1>9, <1>10
          DEF Goroutines, ClientActs, Database, O!Main

LEMMA CalmPublish ==
    ASSUME CalmInv, TellInv', NEW r \in Publishers, Publish(r) PROVE CalmInv'
  <1>1. UNCHANGED <<watch, closed, n, at, listen, unsub>>
    BY DEF Publish, O!Lock, O!Push, O!Unlock, O!connection, O!line
  <1>2. panic' = panic
    <2>1. \A w \in left[r] : w[1] \notin closed
      BY DEF CalmInv, TellInv, MutexHeld, OpenWhileWatched
    <2> QED BY <2>1 DEF Publish, O!Lock, O!Push, O!Unlock
  <1> QED BY <1>1, <1>2, CalmStays

LEMMA CalmNext == OneFilter /\ CalmInv /\ [NotifyNext]_notifyVars => CalmInv'
  <1> SUFFICES ASSUME OneFilter, CalmInv, [NotifyNext]_notifyVars PROVE CalmInv'
    OBVIOUS
  <1>1. TellInv'
    BY TellNext DEF CalmInv
  <1>2. ASSUME NEW r \in Requests, SwapStep(r) PROVE CalmInv'
    BY <1>1, <1>2, CalmStays DEF SwapStep, hubVars, clientVars
  <1>3. CASE SwapEnvironment \/ UNCHANGED notifyVars
    BY <1>1, <1>3, CalmStays DEF SwapEnvironment, notifyVars, hubVars, clientVars
  <1>4. ASSUME NEW c \in Clients, Goroutines(c) \/ ClientActs(c) PROVE CalmInv'
    BY <1>1, <1>4, CalmClient
  <1>5. ASSUME NEW r \in Publishers, Publish(r) PROVE CalmInv'
    BY <1>1, <1>5, CalmPublish
  <1>6. ASSUME NEW a \in Attempts, MeltEnds(a) PROVE CalmInv'
    BY <1>1, <1>6, CalmStays DEF MeltEnds, hubVars, clientVars
  <1> QED BY <1>2, <1>3, <1>4, <1>5, <1>6 DEF NotifyNext

\* When every subscription names one filter, the goroutines that unsubscribe,
\* leave and publish never close a channel twice nor write into a closed one,
\* whatever their order.  With two filters the code does: MCSwapNotifyMany.
THEOREM NotifyNoPanic == ASSUME OneFilter PROVE NotifySpec => []NoPanic
  <1>1. CalmInv => NoPanic
    BY DEF CalmInv
  <1>2. CalmInv /\ [NotifyNext]_notifyVars => CalmInv'
    BY CalmNext
  <1> QED BY <1>1, <1>2, CalmInit, PTL DEF NotifySpec
=============================================================================
