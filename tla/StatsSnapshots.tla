--------------------------- MODULE StatsSnapshots ---------------------------
(***************************************************************************)
(* The statistics service (internal/stats/service.go): snapshots, one      *)
(* after the other, of what was first seen in a window that begins after   *)
(* the last one and ends some seconds ago.  An item (a quote, a proof)     *)
(* keeps the time it was first seen; it counts once it is settled (a quote *)
(* PAID or ISSUED, a proof SPENT), which may be later.  Settled stays      *)
(* settled here, and the clock of the machine may be set back.             *)
(***************************************************************************)
EXTENDS Integers, Sequences

CONSTANTS Items,
          Lag,        \* 10 seconds
          MaxClock    \* bound on the clock

ASSUME StatsAssumption == Lag \in Nat /\ MaxClock \in Nat

VARIABLES clock,
          seenAt,     \* when an item was first seen, Unseen if it was not
          settled,    \* items that count by now
          snapshots,  \* table stats: [start, end, items], in order
          service     \* the snapshot being made: [at, start, end, items]

statsVars == <<clock, seenAt, settled, snapshots, service>>

Unseen == -1
Windows == [start : Int, end : Int, items : SUBSET Items]

StatsTypeOK == /\ clock \in Nat
               /\ seenAt \in [Items -> Int]
               /\ settled \subseteq Items
               /\ snapshots \in Seq(Windows)
               /\ service \in [at : {"idle", "collect", "insert"}, window : Windows]

NoWindow == [start |-> 0, end |-> 0, items |-> {}]

StatsInit == /\ clock = Lag
             /\ seenAt = [i \in Items |-> Unseen]
             /\ settled = {}
             /\ snapshots = <<>>
             /\ service = [at |-> "idle", window |-> NoWindow]

-----------------------------------------------------------------------------
SetClock == /\ \E t \in Lag..MaxClock : clock' = t
            /\ UNCHANGED <<seenAt, settled, snapshots, service>>

See(i) == /\ seenAt[i] = Unseen
          /\ seenAt' = [seenAt EXCEPT ![i] = clock]
          /\ UNCHANGED <<clock, settled, snapshots, service>>

Settle(i) == /\ seenAt[i] # Unseen
             /\ settled' = settled \cup {i}
             /\ UNCHANGED <<clock, seenAt, snapshots, service>>

\* Mutation: the window begins where the last one ended.
WindowStart_Overlaps ==
    IF snapshots = <<>> THEN 0 ELSE snapshots[Len(snapshots)].end

WindowStart == IF snapshots = <<>> THEN 0 ELSE snapshots[Len(snapshots)].end + 1

\* CreateSnapshot: an empty window is skipped at once.
Begin == /\ service.at = "idle" /\ WindowStart <= clock - Lag
         /\ service' = [at |-> "collect",
                        window |-> [start |-> WindowStart, end |-> clock - Lag, items |-> {}]]
         /\ UNCHANGED <<clock, seenAt, settled, snapshots>>

\* The rows of the window that count, read in one transaction.
Collect == /\ service.at = "collect"
           /\ LET w == service.window IN
              service' = [at |-> "insert", window |-> [w EXCEPT !.items =
                  {i \in settled : w.start <= seenAt[i] /\ seenAt[i] <= w.end}]]
           /\ UNCHANGED <<clock, seenAt, settled, snapshots>>

\* Nothing is inserted for a window without activity: the next one covers it.
Insert == /\ service.at = "insert"
          /\ snapshots' = IF service.window.items = {} THEN snapshots
                          ELSE Append(snapshots, service.window)
          /\ service' = [service EXCEPT !.at = "idle"]
          /\ UNCHANGED <<clock, seenAt, settled>>

\* A query or the insert fails, or the process is restarted: nothing is kept.
Abandon == /\ service.at # "idle"
           /\ service' = [service EXCEPT !.at = "idle"]
           /\ UNCHANGED <<clock, seenAt, settled, snapshots>>

StatsNext == \/ SetClock
             \/ \E i \in Items : See(i) \/ Settle(i)
             \/ Begin \/ Collect \/ Insert \/ Abandon

StatsSpec == StatsInit /\ [][StatsNext]_statsVars

-----------------------------------------------------------------------------
\* Nothing is counted twice, whatever the clock does and whatever fails: every
\* window begins after all earlier ones ended.
CountedOnce == \A m, k \in DOMAIN snapshots : m < k =>
    /\ snapshots[m].end < snapshots[k].start
    /\ snapshots[m].items \cap snapshots[k].items = {}
=============================================================================
