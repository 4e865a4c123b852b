------------------------------ MODULE Observer ------------------------------
(***************************************************************************)
(* Subscriptions over websockets: the hub of internal/mint/websocket.go    *)
(* and the goroutines of a connection in internal/routes/websocket.go.  A  *)
(* connection has a main goroutine that adds its watches, tells the        *)
(* present state and then forwards events, a listener that reads what the  *)
(* client sends, and one channel that all its watches share.  Events are   *)
(* put into the channels by senders, goroutines of the request that caused *)
(* the change, while they hold the hub's mutex.                            *)
(*                                                                         *)
(* The module is a part of a system: truth, what a read of the database    *)
(* shows of a topic, is changed by the component that is composed with it. *)
(* Here a client subscribes once, as its first message and under a SubId   *)
(* of its own, and unsubscribes at most once.                              *)
(***************************************************************************)
EXTENDS Integers, Sequences

CONSTANTS Clients,      \* connections, and the SubId of each
          Topics,       \* what can be watched: proofs by their Y
          FilterLists,  \* the lists of filters a client may subscribe with
          Senders,      \* goroutines that publish
          Capacity      \* places in the channel of a connection

VARIABLES
    truth,      \* the state of each topic in the database
    watch,      \* Observer.Proofs: <<c, n>> for filter n of client c
    mutex,      \* the sender that holds it between two of its steps, or {}
    closed,     \* clients whose channel was closed
    panic,      \* the panic that ended the process, if one did
    at,         \* where the main goroutine of a client's connection stands
    filters, n, \* the filters it subscribed with, the one it is at
    leaks,      \* transactions CheckStatusOfSub opened and never ended
    listen,     \* the goroutine ListenToIncommingMessage
    unsub,      \* go RemoveWatch of an unsubscribe: "no", "spawned", "done"
    gone,       \* the connection is closed
    channel,    \* events in the channel, <<topic, state>>
    told,       \* history: what a client was told is spent
    sender,     \* "none", "queued", "sending", "sent"
    left        \* watches a sender has still to serve

hub        == <<watch, mutex, closed, panic>>
connection == <<at, filters, n, leaks>>
line       == <<listen, unsub, gone>>
traffic    == <<channel, told>>
sending    == <<sender, left>>
observer   == <<hub, connection, line, traffic, sending>>

Nobody == {}

\* cashu.PROOF_STATE.
States == {"UNSPENT", "PENDING", "SPENT"}

TypeOK == /\ watch \subseteq Clients \X (Nat \ {0})
          /\ mutex \in {Nobody} \cup Senders
          /\ closed \subseteq Clients
          /\ panic \in {"no", "closed twice", "sent to closed"}
          /\ at \in [Clients -> {"new", "add", "confirm", "open", "ask",
                                 "loop", "leaving", "ended"}]
          /\ filters \in [Clients -> FilterLists \cup {<<>>}]
          /\ n \in [Clients -> Nat \ {0}]
          /\ leaks \in [Clients -> Nat]
          /\ listen \in [Clients -> {"off", "reading", "closing", "replying",
                                     "error", "stopped"}]
          /\ unsub \in [Clients -> {"no", "spawned", "done"}]
          /\ gone \in [Clients -> BOOLEAN]
          /\ channel \in [Clients -> Seq(Topics \X States)]
          /\ told \in [Clients -> SUBSET Topics]
          /\ sender \in [Senders -> {"none", "queued", "sending", "sent"}]
          /\ left \in [Senders -> SUBSET (Clients \X (Nat \ {0}))]

ObserverInit ==
    /\ watch = {} /\ mutex = Nobody /\ closed = {} /\ panic = "no"
    /\ at = [c \in Clients |-> "new"]
    /\ filters = [c \in Clients |-> <<>>]
    /\ n = [c \in Clients |-> 1]
    /\ leaks = [c \in Clients |-> 0]
    /\ listen = [c \in Clients |-> "off"]
    /\ unsub = [c \in Clients |-> "no"]
    /\ gone = [c \in Clients |-> FALSE]
    /\ channel = [c \in Clients |-> <<>>]
    /\ told = [c \in Clients |-> {}]
    /\ sender = [x \in Senders |-> "none"]
    /\ left = [x \in Senders |-> {}]

Watched(w) == filters[w[1]][w[2]]
Mine(c)    == {w \in watch : w[1] = c}
Goes(c, where) == at' = [at EXCEPT ![c] = where]

Tells(c, topic, state) ==
    told' = IF state = "SPENT" THEN [told EXCEPT ![c] = @ \cup {topic}] ELSE told

\* The main goroutine does the same for every filter, then goes on.
NextFilter(c, again, after) ==
    IF n[c] < Len(filters[c])
    THEN n' = [n EXCEPT ![c] = @ + 1] /\ Goes(c, again)
    ELSE n' = [n EXCEPT ![c] = 1]     /\ Goes(c, after)

-----------------------------------------------------------------------------
(* The main goroutine.                                                     *)

Subscribe(c, fs) == /\ at[c] = "new"
                    /\ filters' = [filters EXCEPT ![c] = fs]
                    /\ Goes(c, "add")
                    /\ UNCHANGED <<truth, hub, n, leaks, line, traffic, sending>>

\* Mutation: the present state is told first and the watch added after it.
AddProofWatch_AfterCheck(c) ==
    /\ \/ at[c] = "add" /\ Goes(c, "confirm") /\ UNCHANGED watch
       \/ /\ at[c] = "loop" /\ mutex = Nobody /\ Mine(c) = {} /\ unsub[c] = "no"
          /\ watch' = watch \cup {<<c, n[c]>>}
          /\ UNCHANGED at
    /\ UNCHANGED <<truth, mutex, closed, panic, filters, n, leaks, line, traffic, sending>>

AddProofWatch(c) ==
    /\ at[c] = "add" /\ mutex = Nobody
    /\ watch' = watch \cup {<<c, n[c]>>}
    /\ NextFilter(c, "add", "confirm")
    /\ UNCHANGED <<truth, mutex, closed, panic, filters, leaks, line, traffic, sending>>

\* The answer "OK"; a write to a closed connection fails.
Confirm(c) == /\ at[c] = "confirm"
              /\ Goes(c, IF gone[c] THEN "leaving" ELSE "open")
              /\ UNCHANGED <<truth, hub, filters, n, leaks, line, traffic, sending>>

\* CheckStatusOfSub opens a transaction for each filter.  For a proof it does
\* not use it, and what ends it looks at an err that is shadowed: it stays open.
OpenTx(c) == /\ at[c] = "open"
             /\ leaks' = [leaks EXCEPT ![c] = @ + 1]
             /\ Goes(c, "ask")
             /\ UNCHANGED <<truth, hub, filters, n, line, traffic, sending>>

\* CheckProofState reads the state in a transaction of its own and ends it.
CheckStatus(c) ==
    /\ at[c] = "ask"
    /\ LET t == filters[c][n[c]] IN
       IF gone[c]
       THEN Goes(c, "leaving") /\ UNCHANGED <<n, told>>
       ELSE Tells(c, t, truth[t]) /\ NextFilter(c, "open", "loop")
    /\ listen' = [listen EXCEPT ![c] = IF at'[c] = "loop" THEN "reading" ELSE @]
    /\ UNCHANGED <<truth, hub, filters, leaks, unsub, gone, channel, sending>>

\* Mutation: what is open is rolled back once more than it was opened.
CheckFails_RollsBack(c) ==
    /\ at[c] \in {"open", "ask"}
    /\ Goes(c, "leaving")
    /\ leaks' = [leaks EXCEPT ![c] = @ - 1]
    /\ UNCHANGED <<truth, hub, filters, n, line, traffic, sending>>

\* GetTx or the query fails: the handler returns.
CheckFails(c) == /\ at[c] \in {"open", "ask"}
                 /\ Goes(c, "leaving")
                 /\ UNCHANGED <<truth, hub, filters, n, leaks, line, traffic, sending>>

\* case proof, ok := <-proofChan: what was in a closed channel is still read.
Forward(c) ==
    /\ at[c] = "loop" /\ channel[c] # <<>>
    /\ channel' = [channel EXCEPT ![c] = Tail(@)]
    /\ IF gone[c]
       THEN Goes(c, "leaving") /\ UNCHANGED told
       ELSE /\ Tells(c, Head(channel[c])[1], Head(channel[c])[2])
            /\ UNCHANGED at
    /\ UNCHANGED <<truth, hub, filters, n, leaks, line, sending>>

\* case <-closeChan: the listener wrote into it after it read an unsubscribe.
StopAsked(c) == /\ at[c] = "loop" /\ unsub[c] # "no" /\ listen[c] # "closing"
                /\ Goes(c, "leaving")
                /\ UNCHANGED <<truth, hub, filters, n, leaks, line, traffic, sending>>

\* case <-listenError, unbuffered: the listener and the loop meet.
StopError(c) == /\ at[c] = "loop" /\ listen[c] = "error"
                /\ Goes(c, "leaving")
                /\ listen' = [listen EXCEPT ![c] = "stopped"]
                /\ UNCHANGED <<truth, hub, filters, n, leaks, unsub, gone, traffic, sending>>

-----------------------------------------------------------------------------
(* RemoveWatch closes the channel of every watch it finds.                 *)

ClosesOnce(c) == /\ \A v, w \in Mine(c) : v = w
                 /\ Mine(c) # {} => c \notin closed

\* Mutation: the entry of the map is not assigned, the watch stays.
RemoveWatch_Forgets(c) ==
    /\ mutex = Nobody
    /\ closed' = IF Mine(c) = {} THEN closed ELSE closed \cup {c}
    /\ UNCHANGED <<watch, mutex, panic>>

RemoveWatch(c) ==
    /\ mutex = Nobody
    /\ watch' = watch \ Mine(c)
    /\ closed' = IF Mine(c) = {} THEN closed ELSE closed \cup {c}
    /\ panic' = IF ClosesOnce(c) THEN panic ELSE "closed twice"
    /\ UNCHANGED mutex

\* Mutation: the handler defers conn.Close only.
Leave_ClosesOnly(c) == /\ at[c] = "leaving"
                       /\ Goes(c, "ended")
                       /\ gone' = [gone EXCEPT ![c] = TRUE]
                       /\ UNCHANGED <<truth, hub, filters, n, leaks, listen, unsub,
                                      traffic, sending>>

\* The deferred calls of the handler: RemoveWatch, then conn.Close.
Leave(c) == /\ at[c] = "leaving"
            /\ RemoveWatch(c)
            /\ Goes(c, "ended")
            /\ gone' = [gone EXCEPT ![c] = TRUE]
            /\ UNCHANGED <<truth, filters, n, leaks, listen, unsub, traffic, sending>>

\* go observer.RemoveWatch of an unsubscribe.
RemoveAsked(c) == /\ unsub[c] = "spawned"
                  /\ RemoveWatch(c)
                  /\ unsub' = [unsub EXCEPT ![c] = "done"]
                  /\ UNCHANGED <<truth, connection, listen, gone, traffic, sending>>

-----------------------------------------------------------------------------
(* The client and the listener.  Once the loop has returned the listener   *)
(* never gets rid of its error and stays at "error".                       *)

HangUp(c) == /\ at[c] \notin {"new", "ended"} /\ ~gone[c]
             /\ gone' = [gone EXCEPT ![c] = TRUE]
             /\ UNCHANGED <<truth, hub, connection, listen, unsub, traffic, sending>>

Unsubscribe(c) == /\ listen[c] = "reading" /\ ~gone[c] /\ unsub[c] = "no"
                  /\ listen' = [listen EXCEPT ![c] = "closing"]
                  /\ unsub' = [unsub EXCEPT ![c] = "spawned"]
                  /\ UNCHANGED <<truth, hub, connection, gone, traffic, sending>>

\* closeChan <- has one place and is written once; then the "OK"; a closed
\* connection fails the next read or write.
Listen(c) ==
    /\ \/ listen[c] = "closing" /\ listen' = [listen EXCEPT ![c] = "replying"]
       \/ /\ listen[c] = "replying"
          /\ listen' = [listen EXCEPT ![c] = IF gone[c] THEN "error" ELSE "reading"]
       \/ /\ listen[c] = "reading" /\ gone[c]
          /\ listen' = [listen EXCEPT ![c] = "error"]
    /\ UNCHANGED <<truth, hub, connection, unsub, gone, traffic, sending>>

-----------------------------------------------------------------------------
(* A sender: SendProofsEvent of the topics S in one state.  The order in   *)
(* which it serves the watches is left open.                               *)

Lock(x, S) == /\ sender[x] = "queued" /\ mutex = Nobody
              /\ mutex' = x
              /\ sender' = [sender EXCEPT ![x] = "sending"]
              /\ left' = [left EXCEPT ![x] = {w \in watch : Watched(w) \in S}]
              /\ UNCHANGED <<truth, watch, closed, panic, connection, line, traffic>>

Room(c) == Len(channel[c]) < Capacity

Push(x, state) ==
    /\ sender[x] = "sending"
    /\ \E w \in left[x] : LET c == w[1] IN
          /\ Room(c) \/ c \in closed
          /\ left' = [left EXCEPT ![x] = @ \ {w}]
          /\ IF c \in closed
             THEN panic' = "sent to closed" /\ UNCHANGED channel
             ELSE /\ channel' = [channel EXCEPT ![c] = Append(@, <<Watched(w), state>>)]
                  /\ UNCHANGED panic
    /\ UNCHANGED <<truth, watch, mutex, closed, connection, line, told, sender>>

Unlock(x) == /\ sender[x] = "sending" /\ left[x] = {}
             /\ mutex' = Nobody
             /\ sender' = [sender EXCEPT ![x] = "sent"]
             /\ UNCHANGED <<truth, watch, closed, panic, connection, line, traffic, left>>

-----------------------------------------------------------------------------
\* What the goroutines of a connection do without a transaction of the pool.
Main(c) == \/ AddProofWatch(c) \/ Confirm(c) \/ Forward(c)
           \/ StopAsked(c) \/ StopError(c) \/ Leave(c)

\* No goroutine panics: no channel is closed twice, nothing is sent into a
\* closed one (RemoveWatch closes, the Send functions write, under one mutex).
NoPanic == panic = "no"

\* RemoveWatch does not close the same channel twice.
NoDoubleClose == panic # "closed twice"

\* A sender holds the mutex before the full channel of a client that no longer
\* reads and waits for that mutex to remove its watch: nobody gets it again.
Jammed == \E x \in Senders : mutex = x /\ \E w \in left[x] :
              at[w[1]] = "leaving" /\ Len(channel[w[1]]) = Capacity

\* A client that left or unsubscribed is rid of its watches for good, and what
\* follows is not sent to it, unless the hub is jammed by then.
WatchRemoved == \A c \in Clients :
    (gone[c] \/ unsub[c] # "no") ~> ([](Mine(c) = {}) \/ Jammed)
=============================================================================
