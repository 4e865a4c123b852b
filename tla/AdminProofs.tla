----------------------------- MODULE AdminProofs -----------------------------
(***************************************************************************)
(* What an administrator of the mint sets going: keysets, liquidity swaps  *)
(* and statistics, each for any number of whatever it is about.            *)
(*                                                                         *)
(* NeverRevived, SignedIsVerifiable and ActivePerUnit: the maps that sign  *)
(* and verify are assigned one after the other from a list that was read   *)
(* earlier, so the invariant follows what each rotation remembers: that it *)
(* is still true as long as the rotation runs alone (Remembers), which     *)
(* rotations do not (Clashes), and that everything ever remembered, served *)
(* or signed with is a seed of the table, from which nothing is deleted    *)
(* (FromTable).                                                            *)
(*                                                                         *)
(* PaidOnce and StateMatchesPayment: neither is inductive.  A second call  *)
(* is excluded because only the request that turned the row from           *)
(* WaitingUserConfirmation into LightningPaymentPending, under its lock,   *)
(* goes on to pay (HandlerOK, OnePayer); what is written late is right     *)
(* because what was concluded from an earlier answer of the node stays so  *)
(* (Right).                                                                *)
(*                                                                         *)
(* CountedOnce needs more than the order of the windows: that the window   *)
(* being made still begins after the last snapshot (WindowIsNext), and     *)
(* that what a snapshot counts was seen in its window, at a time that does *)
(* not change (Within).                                                    *)
(***************************************************************************)
EXTENDS Keysets, LiquiditySwaps, StatsSnapshots, TLAPS

\* The maps and what was signed come from the table.
FromTable == /\ activeSeeds \subseteq seeds /\ signed \subseteq seeds
             /\ keysets \subseteq seeds /\ activeKeysets \subseteq seeds

\* Rotations that run at once know of each other, and of nothing else.
Clashes == /\ clash \subseteq Busy
           /\ \A r, s \in Busy : r # s => r \in clash
           /\ ~mixed => clash = {}
           /\ ~serving => Busy = {}

\* What a rotation remembers; while it runs alone, it is still so.
Reads(r) == job[r].at = "write" =>
    /\ \A k \in job[r].read : k.unit = job[r].unit
    /\ r \notin clash => job[r].read \in {OfUnit(seeds, job[r].unit), {}}

Rereads(r) == job[r].at \in {"assign", "assign active"} =>
    /\ job[r].active \subseteq job[r].all /\ job[r].all \subseteq seeds
    /\ r \notin clash => /\ job[r].all = seeds
                         /\ job[r].at = "assign active" => keysets = job[r].all

Remembers == \A r \in Rotations : Reads(r) /\ Rereads(r)

MapsAgree == serving /\ ~mixed => activeKeysets \subseteq keysets

KeysetsInv == /\ KeysetsTypeOK /\ FromTable /\ Clashes /\ Remembers
              /\ MapsAgree /\ SignedIsVerifiable /\ ActivePerUnit

-----------------------------------------------------------------------------
(* Typing.                                                                 *)

Writing   == [at : {"write", "reread"}, unit : Units, fee : Fees, version : 0..MaxVersion,
              read : SUBSET Ids]
Assigning == [at : {"assign", "assign active"}, all : SUBSET Ids, active : SUBSET Ids]

LEMMA IdleIsIdle == Idle.at = "idle"
  BY DEF Idle

LEMMA JobShapes ==
    ASSUME KeysetsTypeOK, NEW r \in Rotations
    PROVE  /\ job[r].at \in {"write", "reread"} => job[r] \in Writing
           /\ job[r].at \in {"assign", "assign active"} => job[r] \in Assigning
           /\ job[r].at = "idle" <=> job[r] = Idle
           /\ job[r] = Idle \/ job[r] \in Writing \/ job[r] \in Assigning
  <1>1. job[r] = Idle \/ job[r] \in Writing \/ job[r] \in Assigning
    BY DEF KeysetsTypeOK, Jobs, Writing, Assigning
  <1>2. CASE job[r] = Idle
    BY <1>2 DEF Idle
  <1>3. CASE job[r] \in Writing
    <2>1. job[r].at \in {"write", "reread"}
      BY <1>3 DEF Writing
    <2>2. job[r] # Idle
      BY <2>1, IdleIsIdle
    <2> QED BY <1>3, <2>1, <2>2
  <1>4. CASE job[r] \in Assigning
    <2>1. job[r].at \in {"assign", "assign active"}
      BY <1>4 DEF Assigning
    <2>2. job[r] # Idle
      BY <2>1, IdleIsIdle
    <2> QED BY <1>4, <2>1, <2>2
  <1> QED BY <1>1, <1>2, <1>3, <1>4

LEMMA JobsAre == Jobs = {Idle} \cup Writing \cup Assigning
  BY DEF Jobs, Writing, Assigning

LEMMA NewSeedTyped ==
    ASSUME KeysetsTypeOK, NEW r \in Rotations, job[r].at = "write"
    PROVE  NewSeed(r) \in Ids
  <1>1. job[r] \in Writing
    BY JobShapes
  <1> QED BY <1>1 DEF Writing, NewSeed, Ids

LEMMA AskedFor == \A ask \in Asks : ask.unit \in Units /\ ask.fee \in Fees
  BY KeysetsAssumption

LEMMA KeysetsTypeInit == KeysetsInit => KeysetsTypeOK
  BY JobsAre DEF KeysetsInit, KeysetsTypeOK

LEMMA KeysetsTypeNext == KeysetsTypeOK /\ [KeysetsNext]_keysetVars => KeysetsTypeOK'
  <1> SUFFICES ASSUME KeysetsTypeOK, [KeysetsNext]_keysetVars PROVE KeysetsTypeOK'
    OBVIOUS
  <1> USE JobsAre
  <1>1. CASE Start
    <2>1. [unit |-> Sat, version |-> 0, fee |-> 0] \in Ids
      BY KeysetsAssumption DEF Ids
    <2> QED BY <1>1, <2>1 DEF Start, KeysetsTypeOK
  <1>2. ASSUME NEW r \in Rotations, NEW u \in Units, NEW f \in Fees, RotationReads(r, u, f)
        PROVE  KeysetsTypeOK'
    <2>1. PICK read \in {OfUnit(seeds, u), {}}, v \in 0..MaxVersion :
             job' = [job EXCEPT ![r] = [at |-> "write", unit |-> u, fee |-> f,
                                        version |-> v, read |-> read]]
      BY <1>2 DEF RotationReads
    <2>2. read \in SUBSET Ids
      BY DEF OfUnit, KeysetsTypeOK
    <2>3. [at |-> "write", unit |-> u, fee |-> f, version |-> v, read |-> read]
             \in Writing
      BY <2>2 DEF Writing
    <2>4. clash' \subseteq Rotations
      BY <1>2 DEF RotationReads, Busy, KeysetsTypeOK
    <2>5. mixed' \in BOOLEAN
      BY <1>2 DEF RotationReads, KeysetsTypeOK
    <2> QED BY <1>2, <2>1, <2>3, <2>4, <2>5 DEF RotationReads, KeysetsTypeOK, table, maps
  <1>3. ASSUME NEW r \in Rotations, RotationWrites(r) PROVE KeysetsTypeOK'
    <2>1. NewSeed(r) \in Ids /\ job[r] \in Writing
      BY <1>3, NewSeedTyped, JobShapes DEF RotationWrites
    <2>2. [job[r] EXCEPT !.at = "reread"] \in Writing
      BY <2>1 DEF Writing
    <2>3. job' \in [Rotations -> Jobs]
      BY <1>3, <2>2 DEF RotationWrites, KeysetsTypeOK
    <2>4. split' \subseteq Units
      BY <1>3, <2>1 DEF RotationWrites, KeysetsTypeOK, Writing
    <2> QED BY <1>3, <2>1, <2>3, <2>4 DEF RotationWrites, SaveSeeds, KeysetsTypeOK, maps
  <1>4. ASSUME NEW r \in Rotations, RotationRereads(r) PROVE KeysetsTypeOK'
    <2>1. [at |-> "assign", all |-> seeds, active |-> activeSeeds] \in Assigning
      BY DEF Assigning, KeysetsTypeOK
    <2> QED BY <1>4, <2>1 DEF RotationRereads, KeysetsTypeOK, table, maps
  <1>5. ASSUME NEW r \in Rotations, RotationFails(r) PROVE KeysetsTypeOK'
    BY <1>5 DEF RotationFails, Ends, KeysetsTypeOK, table, maps
  <1>6. ASSUME NEW r \in Rotations, RotationAssigns(r) PROVE KeysetsTypeOK'
    <2>1. job[r] \in Assigning
      BY <1>6, JobShapes DEF RotationAssigns
    <2>2. [job[r] EXCEPT !.at = "assign active"] \in Assigning
      BY <2>1 DEF Assigning
    <2>3. job' \in [Rotations -> Jobs]
      BY <1>6, <2>2 DEF RotationAssigns, Ends, KeysetsTypeOK
    <2>4. job[r].all \subseteq Ids /\ job[r].active \subseteq Ids
      BY <2>1 DEF Assigning
    <2> QED BY <1>6, <2>3, <2>4 DEF RotationAssigns, Ends, KeysetsTypeOK, table
  <1>7. ASSUME NEW k \in Ids, SignBlindMessages(k) PROVE KeysetsTypeOK'
    BY <1>7 DEF SignBlindMessages, KeysetsTypeOK, table, maps
  <1>8. CASE SignerCrash
    BY <1>8 DEF SignerCrash, KeysetsTypeOK, table
  <1>9. CASE UNCHANGED keysetVars
    BY <1>9 DEF keysetVars, table, maps, KeysetsTypeOK
  <1> QED BY <1>1, <1>2, <1>3, <1>4, <1>5, <1>6, <1>7, <1>8, <1>9, AskedFor DEF KeysetsNext

\* The table, both maps and every rotation stay in states the program knows.
THEOREM KeysetsTypeCorrect == KeysetsSpec => []KeysetsTypeOK
  BY KeysetsTypeInit, KeysetsTypeNext, PTL DEF KeysetsSpec

-----------------------------------------------------------------------------
(* A retired seed stays retired: no invariant is needed, the primary key   *)
(* lets only new ids in.                                                   *)

\* No rotation, however late, makes a seed active again (SaveNewSeed inserts).
THEOREM KeysetsNeverRevived == KeysetsSpec => NeverRevived
  <1>1. [KeysetsNext]_keysetVars =>
           [(seeds \ activeSeeds) \cap activeSeeds' = {}]_keysetVars
    <2> SUFFICES ASSUME KeysetsNext PROVE (seeds \ activeSeeds) \cap activeSeeds' = {}
      OBVIOUS
    <2>1. CASE Start
      BY <2>1 DEF Start
    <2>2. ASSUME NEW r \in Rotations, RotationWrites(r)
          PROVE  (seeds \ activeSeeds) \cap activeSeeds' = {}
      BY <2>2 DEF RotationWrites, SaveSeeds
    <2>3. CASE UNCHANGED table
      BY <2>3 DEF table
    <2> QED BY <2>1, <2>2, <2>3 DEF KeysetsNext, RotationReads, RotationRereads, RotationFails,
              RotationAssigns, SignBlindMessages, SignerCrash
  <1> QED BY <1>1, PTL DEF KeysetsSpec, NeverRevived

-----------------------------------------------------------------------------
(* The inductive invariant, action by action.                              *)

LEMMA KeysetsInvInit == KeysetsInit => KeysetsInv
  <1> SUFFICES ASSUME KeysetsInit PROVE KeysetsInv
    OBVIOUS
  <1>1. KeysetsTypeOK
    BY KeysetsTypeInit
  <1>2. Busy = {} /\ \A r \in Rotations : job[r].at = "idle"
    BY IdleIsIdle DEF KeysetsInit, Busy
  <1>3. FromTable /\ Clashes /\ Remembers
    BY <1>2 DEF KeysetsInit, FromTable, Clashes, Remembers, Reads, Rereads
  <1>4. MapsAgree /\ SignedIsVerifiable /\ ActivePerUnit
    BY DEF KeysetsInit, MapsAgree, SignedIsVerifiable, ActivePerUnit, OfUnit
  <1> QED BY <1>1, <1>3, <1>4 DEF KeysetsInv

LEMMA InvStart == KeysetsInv /\ Start => KeysetsInv'
  <1> SUFFICES ASSUME KeysetsInv, Start PROVE KeysetsInv'
    OBVIOUS
  <1> DEFINE first == [unit |-> Sat, version |-> 0, fee |-> 0]
             new   == IF seeds = {} THEN {first} ELSE {}
  <1>1. KeysetsTypeOK'
    BY KeysetsTypeNext DEF KeysetsInv, KeysetsNext
  <1>2. /\ seeds' = seeds \cup new /\ activeSeeds' = activeSeeds \cup new
        /\ keysets' = seeds \cup new /\ activeKeysets' = activeSeeds \cup new
        /\ UNCHANGED <<job, clash, split, signed>>
    BY DEF Start
  <1> HIDE DEF new
  <1>3. FromTable'
    BY <1>2 DEF KeysetsInv, FromTable
  <1>4. Busy = {} /\ Busy' = {} /\ clash = {}
    BY <1>2 DEF Start, KeysetsInv, Clashes, Busy
  <1>5. Clashes'
    BY <1>2, <1>4 DEF Clashes
  <1>6. \A r \in Rotations : job[r].at = "idle"
    BY <1>4, IdleIsIdle DEF Busy
  <1>7. Remembers'
    BY <1>2, <1>6 DEF Remembers, Reads, Rereads
  <1>8. MapsAgree' /\ SignedIsVerifiable'
    BY <1>2, <1>3 DEF FromTable, MapsAgree, SignedIsVerifiable, KeysetsInv
  <1>9. ActivePerUnit'
    <2>1. CASE seeds = {}
      <3>1. activeSeeds = {} /\ seeds' = {first} /\ activeSeeds' = {first}
        BY <2>1, <1>2 DEF new, KeysetsInv, FromTable
      <3> QED BY <3>1 DEF ActivePerUnit, OfUnit
    <2>2. CASE seeds # {}
      BY <2>2, <1>2 DEF new, KeysetsInv, ActivePerUnit, OfUnit
    <2> QED BY <2>1, <2>2
  <1> QED BY <1>1, <1>3, <1>5, <1>7, <1>8, <1>9 DEF KeysetsInv

LEMMA InvReads ==
    ASSUME NEW r \in Rotations, NEW ask \in Asks, NEW u \in Units, NEW f \in Fees,
           u = ask.unit, f = ask.fee, KeysetsInv, RotationReads(r, u, f)
    PROVE  KeysetsInv'
  <1>1. KeysetsTypeOK'
    BY KeysetsTypeNext DEF KeysetsInv, KeysetsNext
  <1>2. PICK read \in {OfUnit(seeds, u), {}}, v \in 0..MaxVersion :
           job' = [job EXCEPT ![r] = [at |-> "write", unit |-> u, fee |-> f,
                                      version |-> v, read |-> read]]
    BY DEF RotationReads
  <1>3. /\ job'[r] = [at |-> "write", unit |-> u, fee |-> f,
                      version |-> v, read |-> read]
        /\ \A s \in Rotations \ {r} : job'[s] = job[s]
    BY <1>2 DEF KeysetsInv, KeysetsTypeOK
  <1>4. UNCHANGED <<seeds, activeSeeds, serving, keysets, activeKeysets, split, signed>>
    BY DEF RotationReads, table, maps
  <1>5. FromTable' /\ ActivePerUnit'
    BY <1>4 DEF KeysetsInv, FromTable, ActivePerUnit, OfUnit
  <1>6. MapsAgree' /\ SignedIsVerifiable'
    BY <1>4 DEF KeysetsInv, MapsAgree, SignedIsVerifiable, RotationReads
  <1>7. job'[r] # Idle
    BY <1>3, IdleIsIdle
  <1>8. Busy' = Busy \cup {r} /\ r \notin Busy
    BY <1>3, <1>7 DEF Busy, RotationReads
  <1>9. Clashes'
    <2>0. /\ clash' = IF Busy = {} THEN clash ELSE clash \cup Busy \cup {r}
          /\ mixed' = (mixed \/ Busy # {})
          /\ serving
      BY DEF RotationReads
    <2>1. /\ clash' = IF Busy = {} THEN clash ELSE clash \cup Busy \cup {r}
          /\ ~mixed' => ~mixed /\ Busy = {}
          /\ serving'
      BY <2>0, <1>4, Zenon
    <2>2. clash' \subseteq Busy' /\ (~mixed' => clash' = {})
      BY <2>1, <1>8 DEF KeysetsInv, Clashes
    <2>3. \A q, s \in Busy' : q # s => q \in clash'
      BY <2>1, <1>8
    <2> QED BY <2>1, <2>2, <2>3 DEF Clashes
  <1>10. clash \subseteq clash'
    BY DEF RotationReads
  <1>11. Remembers'
    <2> SUFFICES ASSUME NEW s \in Rotations PROVE Reads(s)' /\ Rereads(s)'
      BY DEF Remembers
    <2>1. CASE s = r
      BY <2>1, <1>3, <1>4 DEF Reads, Rereads, OfUnit
    <2>2. CASE s # r
      <3>1. job'[s] = job[s] /\ Reads(s) /\ Rereads(s)
        BY <2>2, <1>3 DEF KeysetsInv, Remembers
      <3> QED BY <3>1, <1>4, <1>10 DEF Reads, Rereads, OfUnit
    <2> QED BY <2>1, <2>2
  <1> QED BY <1>1, <1>5, <1>6, <1>9, <1>11 DEF KeysetsInv

\* A rotation that has not clashed is the only one.
LEMMA Alone ==
    ASSUME KeysetsInv, NEW r \in Rotations, job[r] # Idle, r \notin clash
    PROVE  Busy = {r} /\ clash = {}
  BY DEF KeysetsInv, Clashes, Busy

LEMMA InvWrites ==
    ASSUME NEW r \in Rotations, KeysetsInv, RotationWrites(r)
    PROVE  KeysetsInv'
  <1> DEFINE k == NewSeed(r)
  <1>1. KeysetsTypeOK'
    BY KeysetsTypeNext DEF KeysetsInv, KeysetsNext
  <1>2. /\ job[r].at = "write" /\ k \notin seeds
        /\ seeds' = seeds \cup {k}
        /\ activeSeeds' = (activeSeeds \ job[r].read) \cup {k}
        /\ UNCHANGED <<serving, keysets, activeKeysets, clash, mixed, signed>>
    BY DEF RotationWrites, SaveSeeds, maps
  <1>3. job[r] \in Writing /\ job[r] # Idle
    BY <1>2, JobShapes, IdleIsIdle DEF KeysetsInv
  <1>4. /\ job'[r] = [job[r] EXCEPT !.at = "reread"]
        /\ \A s \in Rotations \ {r} : job'[s] = job[s]
    BY DEF RotationWrites, KeysetsInv, KeysetsTypeOK
  <1>5. job'[r].at = "reread"
    BY <1>3, <1>4 DEF Writing
  <1>6. job'[r] # Idle
    BY <1>5, IdleIsIdle
  <1>7. Busy' = Busy
    BY <1>3, <1>4, <1>6 DEF Busy
  <1>8. FromTable'
    BY <1>2 DEF KeysetsInv, FromTable
  <1>9. Clashes'
    BY <1>2, <1>7 DEF KeysetsInv, Clashes
  <1>10. MapsAgree' /\ SignedIsVerifiable'
    BY <1>2 DEF KeysetsInv, MapsAgree, SignedIsVerifiable
  <1>11. Remembers'
    <2> SUFFICES ASSUME NEW s \in Rotations PROVE Reads(s)' /\ Rereads(s)'
      BY DEF Remembers
    <2>1. CASE s = r
      BY <2>1, <1>5 DEF Reads, Rereads
    <2>2. CASE s # r
      <3>1. job'[s] = job[s] /\ Reads(s) /\ Rereads(s)
        BY <2>2, <1>4 DEF KeysetsInv, Remembers
      <3>2. CASE job[s] = Idle
        BY <3>1, <3>2, IdleIsIdle DEF Reads, Rereads
      <3>3. CASE job[s] # Idle
        <4>1. s \in clash
          BY <3>3, <2>2, <1>3 DEF KeysetsInv, Clashes, Busy
        <4> QED BY <3>1, <4>1, <1>2 DEF Reads, Rereads
      <3> QED BY <3>2, <3>3
    <2> QED BY <2>1, <2>2
  <1>12. k.unit = job[r].unit
    BY DEF NewSeed
  <1>13. (\A j \in job[r].read : j.unit = job[r].unit) /\ activeSeeds \subseteq seeds
    BY <1>2 DEF KeysetsInv, Remembers, Reads, FromTable
  <1>14. r \notin clash /\ ~Unread(r) =>
            \A j \in seeds : j.unit = job[r].unit => j \in job[r].read
    BY <1>2 DEF KeysetsInv, Remembers, Reads, OfUnit, Unread
  <1>15. split' = IF r \in clash \/ Unread(r) THEN split \cup {job[r].unit}
                  ELSE split \ {job[r].unit}
    BY DEF RotationWrites
  <1> HIDE DEF k
  <1>16. ActivePerUnit'
    <2> SUFFICES ASSUME NEW u \in Units, OfUnit(seeds, u)' # {}
                 PROVE  /\ OfUnit(activeSeeds, u)' # {}
                        /\ u \notin split' => \A i, j \in OfUnit(activeSeeds, u)' : i = j
      BY DEF ActivePerUnit
    <2>1. CASE u = job[r].unit
      <3>1. k \in OfUnit(activeSeeds, u)'
        BY <2>1, <1>2, <1>12 DEF OfUnit
      <3>2. ASSUME u \notin split', NEW j \in OfUnit(activeSeeds, u)' PROVE j = k
        <4>1. r \notin clash /\ ~Unread(r)
          BY <3>2, <2>1, <1>15
        <4> QED BY <4>1, <3>2, <2>1, <1>2, <1>13, <1>14 DEF OfUnit
      <3> QED BY <3>1, <3>2
    <2>2. CASE u # job[r].unit
      <3>1. OfUnit(seeds, u)' = OfUnit(seeds, u)
        BY <2>2, <1>2, <1>12 DEF OfUnit
      <3>2. OfUnit(activeSeeds, u)' = OfUnit(activeSeeds, u)
        BY <2>2, <1>2, <1>12, <1>13 DEF OfUnit
      <3>3. u \in split' <=> u \in split
        BY <2>2, <1>15
      <3> QED BY <3>1, <3>2, <3>3 DEF KeysetsInv, ActivePerUnit
    <2> QED BY <2>1, <2>2
  <1> QED BY <1>1, <1>8, <1>9, <1>10, <1>11, <1>16 DEF KeysetsInv

LEMMA InvRereads ==
    ASSUME NEW r \in Rotations, KeysetsInv, RotationRereads(r)
    PROVE  KeysetsInv'
  <1>1. KeysetsTypeOK'
    BY KeysetsTypeNext DEF KeysetsInv, KeysetsNext
  <1>2. UNCHANGED <<seeds, activeSeeds, serving, keysets, activeKeysets, clash, split, mixed, signed>>
    BY DEF RotationRereads, table, maps
  <1>3. /\ job'[r] = [at |-> "assign", all |-> seeds, active |-> activeSeeds]
        /\ \A s \in Rotations \ {r} : job'[s] = job[s]
    BY DEF RotationRereads, KeysetsInv, KeysetsTypeOK
  <1>4. job[r] # Idle /\ job'[r] # Idle
    BY <1>3, IdleIsIdle DEF RotationRereads
  <1>5. Busy' = Busy
    BY <1>3, <1>4 DEF Busy
  <1>6. Clashes'
    BY <1>2, <1>5 DEF KeysetsInv, Clashes
  <1>7. FromTable' /\ MapsAgree' /\ SignedIsVerifiable' /\ ActivePerUnit'
    BY <1>2 DEF KeysetsInv, FromTable, MapsAgree, SignedIsVerifiable, ActivePerUnit, OfUnit
  <1>8. Remembers'
    <2> SUFFICES ASSUME NEW s \in Rotations PROVE Reads(s)' /\ Rereads(s)'
      BY DEF Remembers
    <2>1. CASE s = r
      BY <2>1, <1>2, <1>3 DEF Reads, Rereads, KeysetsInv, FromTable
    <2>2. CASE s # r
      <3>1. job'[s] = job[s] /\ Reads(s) /\ Rereads(s)
        BY <2>2, <1>3 DEF KeysetsInv, Remembers
      <3> QED BY <3>1, <1>2 DEF Reads, Rereads, OfUnit
    <2> QED BY <2>1, <2>2
  <1> QED BY <1>1, <1>6, <1>7, <1>8 DEF KeysetsInv

\* What a rotation that ends leaves to the others.
LEMMA EndsKeeps ==
    ASSUME NEW r \in Rotations, KeysetsInv, Ends(r), job[r] # Idle,
           seeds' = seeds, keysets' = keysets, serving' = serving,
           ~mixed' => ~mixed \/ r \notin clash
    PROVE  Clashes' /\ Remembers'
  <1>1. /\ job'[r] = Idle
        /\ \A s \in Rotations \ {r} : job'[s] = job[s]
        /\ clash' = clash \ {r}
    BY DEF Ends, KeysetsInv, KeysetsTypeOK
  <1>2. Busy' = Busy \ {r}
    BY <1>1 DEF Busy
  <1>3. Clashes'
    <2>1. r \notin clash => clash = {}
      BY Alone
    <2> QED BY <1>1, <1>2, <2>1 DEF KeysetsInv, Clashes
  <1>4. Remembers'
    <2> SUFFICES ASSUME NEW s \in Rotations PROVE Reads(s)' /\ Rereads(s)'
      BY DEF Remembers
    <2>1. CASE s = r
      BY <2>1, <1>1, IdleIsIdle DEF Reads, Rereads
    <2>2. CASE s # r
      <3>1. job'[s] = job[s] /\ Reads(s) /\ Rereads(s)
        BY <2>2, <1>1 DEF KeysetsInv, Remembers
      <3>2. s \in clash' <=> s \in clash
        BY <2>2, <1>1
      <3> QED BY <3>1, <3>2 DEF Reads, Rereads, OfUnit
    <2> QED BY <2>1, <2>2
  <1> QED BY <1>3, <1>4

LEMMA InvFails ==
    ASSUME NEW r \in Rotations, KeysetsInv, RotationFails(r)
    PROVE  KeysetsInv'
  <1>1. KeysetsTypeOK'
    BY KeysetsTypeNext DEF KeysetsInv, KeysetsNext
  <1>2. /\ Ends(r)
        /\ UNCHANGED <<seeds, activeSeeds, serving, keysets, activeKeysets, split, mixed, signed>>
    BY DEF RotationFails, table, maps
  <1>3. job[r] # Idle
    BY IdleIsIdle DEF RotationFails
  <1>4. Clashes' /\ Remembers'
    BY <1>2, <1>3, EndsKeeps
  <1>5. FromTable' /\ MapsAgree' /\ SignedIsVerifiable' /\ ActivePerUnit'
    BY <1>2 DEF KeysetsInv, FromTable, MapsAgree, SignedIsVerifiable, ActivePerUnit, OfUnit
  <1> QED BY <1>1, <1>4, <1>5 DEF KeysetsInv

LEMMA InvAssigns ==
    ASSUME NEW r \in Rotations, KeysetsInv, RotationAssigns(r)
    PROVE  KeysetsInv'
  <1>1. KeysetsTypeOK'
    BY KeysetsTypeNext DEF KeysetsInv, KeysetsNext
  <1>2. UNCHANGED <<seeds, activeSeeds, serving, split, signed>>
    BY DEF RotationAssigns, table
  <1>3. /\ job[r] # Idle /\ job[r] \in Assigning
        /\ job[r].at \in {"assign", "assign active"}
    BY JobShapes, IdleIsIdle DEF RotationAssigns, KeysetsInv
  <1>4. /\ job[r].active \subseteq job[r].all /\ job[r].all \subseteq seeds
        /\ r \notin clash => /\ job[r].all = seeds
                             /\ job[r].at = "assign active" => keysets = job[r].all
    BY <1>3 DEF KeysetsInv, Remembers, Rereads
  <1>5. ActivePerUnit'
    BY <1>2 DEF KeysetsInv, ActivePerUnit, OfUnit
  <1>6. CASE job[r].at = "assign"
    <2>1. /\ keysets' = job[r].all
          /\ UNCHANGED <<activeKeysets, clash, mixed>>
          /\ job' = [job EXCEPT ![r].at = "assign active"]
      BY <1>6 DEF RotationAssigns
    <2>2. /\ job'[r] = [job[r] EXCEPT !.at = "assign active"]
          /\ \A s \in Rotations \ {r} : job'[s] = job[s]
      BY <2>1 DEF KeysetsInv, KeysetsTypeOK
    <2>3. /\ job'[r].at = "assign active"
          /\ job'[r].all = job[r].all /\ job'[r].active = job[r].active
      BY <2>2, <1>3 DEF Assigning
    <2>4. job'[r] # Idle
      BY <2>3, IdleIsIdle
    <2>5. Busy' = Busy
      BY <2>2, <2>4, <1>3 DEF Busy
    <2>6. Clashes'
      BY <2>1, <2>5, <1>2 DEF KeysetsInv, Clashes
    <2>7. FromTable'
      BY <2>1, <1>2, <1>4 DEF KeysetsInv, FromTable
    <2>8. ~mixed => keysets' = seeds
      BY <2>1, <1>4 DEF KeysetsInv, Clashes
    <2>9. MapsAgree' /\ SignedIsVerifiable'
      BY <2>1, <2>8, <1>2 DEF KeysetsInv, FromTable, MapsAgree, SignedIsVerifiable
    <2>10. Remembers'
      <3> SUFFICES ASSUME NEW s \in Rotations PROVE Reads(s)' /\ Rereads(s)'
        BY DEF Remembers
      <3>1. CASE s = r
        BY <3>1, <2>1, <2>3, <1>2, <1>4 DEF Reads, Rereads
      <3>2. CASE s # r
        <4>1. job'[s] = job[s] /\ Reads(s) /\ Rereads(s)
          BY <3>2, <2>2 DEF KeysetsInv, Remembers
        <4>2. CASE job[s] = Idle
          BY <4>1, <4>2, IdleIsIdle DEF Reads, Rereads
        <4>3. CASE job[s] # Idle
          <5>1. s \in clash
            BY <4>3, <3>2, <1>3 DEF KeysetsInv, Clashes, Busy
          <5> QED BY <4>1, <5>1, <2>1, <1>2 DEF Reads, Rereads
        <4> QED BY <4>2, <4>3
      <3> QED BY <3>1, <3>2
    <2> QED BY <1>1, <1>5, <2>6, <2>7, <2>9, <2>10 DEF KeysetsInv
  <1>7. CASE job[r].at = "assign active"
    <2>1. /\ activeKeysets' = job[r].active /\ keysets' = keysets
          /\ mixed' = (mixed /\ r \in clash)
          /\ Ends(r)
      BY <1>7 DEF RotationAssigns
    <2>2. ~mixed' => r \notin clash
      BY <2>1 DEF KeysetsInv, Clashes
    <2>3. Clashes' /\ Remembers'
      BY <2>1, <2>2, <1>2, <1>3, EndsKeeps
    <2>4. FromTable'
      BY <2>1, <1>2, <1>4 DEF KeysetsInv, FromTable
    <2>5. MapsAgree' /\ SignedIsVerifiable'
      BY <2>1, <2>2, <1>2, <1>4, <1>7 DEF KeysetsInv, FromTable, MapsAgree, SignedIsVerifiable
    <2> QED BY <1>1, <1>5, <2>3, <2>4, <2>5 DEF KeysetsInv
  <1> QED BY <1>3, <1>6, <1>7

LEMMA InvSigns ==
    ASSUME NEW k \in Ids, KeysetsInv, SignBlindMessages(k)
    PROVE  KeysetsInv'
  <1>1. KeysetsTypeOK'
    BY KeysetsTypeNext DEF KeysetsInv, KeysetsNext
  <1>2. /\ k \in activeKeysets /\ signed' = signed \cup {k}
        /\ UNCHANGED <<seeds, activeSeeds, serving, keysets, activeKeysets, job, clash, split, mixed>>
    BY DEF SignBlindMessages, table, maps
  <1>3. Clashes' /\ Remembers'
    BY <1>2 DEF KeysetsInv, Clashes, Busy, Remembers, Reads, Rereads, OfUnit
  <1>4. FromTable' /\ MapsAgree' /\ SignedIsVerifiable' /\ ActivePerUnit'
    BY <1>2 DEF KeysetsInv, FromTable, MapsAgree, SignedIsVerifiable, ActivePerUnit, OfUnit
  <1> QED BY <1>1, <1>3, <1>4 DEF KeysetsInv

LEMMA InvCrash == KeysetsInv /\ SignerCrash => KeysetsInv'
  <1> SUFFICES ASSUME KeysetsInv, SignerCrash PROVE KeysetsInv'
    OBVIOUS
  <1>1. KeysetsTypeOK'
    BY KeysetsTypeNext DEF KeysetsInv, KeysetsNext
  <1>2. /\ \A r \in Rotations : job'[r] = Idle
        /\ UNCHANGED <<seeds, activeSeeds, split, mixed, signed>>
    BY DEF SignerCrash, table
  <1>3. Clashes' /\ Remembers'
    BY <1>2, IdleIsIdle DEF SignerCrash, Clashes, Busy, Remembers, Reads, Rereads
  <1>4. FromTable' /\ MapsAgree' /\ SignedIsVerifiable' /\ ActivePerUnit'
    BY <1>2 DEF SignerCrash, KeysetsInv, FromTable, MapsAgree, SignedIsVerifiable, ActivePerUnit, OfUnit
  <1> QED BY <1>1, <1>3, <1>4 DEF KeysetsInv

LEMMA KeysetsInvNext == KeysetsInv /\ [KeysetsNext]_keysetVars => KeysetsInv'
  <1> SUFFICES ASSUME KeysetsInv, [KeysetsNext]_keysetVars PROVE KeysetsInv'
    OBVIOUS
  <1>1. CASE UNCHANGED keysetVars
    <2>1. UNCHANGED <<seeds, activeSeeds, serving, keysets, activeKeysets, job, clash, split,
                      mixed, signed>>
      BY <1>1 DEF keysetVars, table, maps
    <2>2. KeysetsTypeOK'
      BY KeysetsTypeNext DEF KeysetsInv
    <2>3. Clashes' /\ Remembers'
      BY <2>1 DEF KeysetsInv, Clashes, Busy, Remembers, Reads, Rereads, OfUnit
    <2>4. FromTable' /\ MapsAgree' /\ SignedIsVerifiable' /\ ActivePerUnit'
      BY <2>1 DEF KeysetsInv, FromTable, MapsAgree, SignedIsVerifiable, ActivePerUnit, OfUnit
    <2> QED BY <2>2, <2>3, <2>4 DEF KeysetsInv
  <1>2. ASSUME NEW r \in Rotations, NEW ask \in Asks, RotationReads(r, ask.unit, ask.fee)
        PROVE  KeysetsInv'
    BY <1>2, AskedFor, InvReads
  <1> QED BY <1>1, <1>2, InvStart, InvWrites, InvRereads, InvFails, InvAssigns, InvSigns,
             InvCrash DEF KeysetsNext

\* Table, maps and running rotations fit together after every step.
THEOREM KeysetsInvariant == KeysetsSpec => []KeysetsInv
  BY KeysetsInvInit, KeysetsInvNext, PTL DEF KeysetsSpec

\* Whatever was signed can be verified, in the middle of a rotation, after one
\* that failed halfway, and after a restart.
THEOREM KeysetsSignedIsVerifiable == KeysetsSpec => []SignedIsVerifiable
  <1>1. KeysetsInv => SignedIsVerifiable
    BY DEF KeysetsInv
  <1> QED BY <1>1, KeysetsInvariant, PTL

\* Every unit that was ever served has an active seed, and one only unless its
\* last rotation clashed with another.
THEOREM KeysetsActivePerUnit == KeysetsSpec => []ActivePerUnit
  <1>1. KeysetsInv => ActivePerUnit
    BY DEF KeysetsInv
  <1> QED BY <1>1, KeysetsInvariant, PTL

-----------------------------------------------------------------------------
(* Liquidity swaps.                                                        *)

\* A request that started has a swap.
Typed == /\ LiquidityTypeOK
         /\ \A h \in Handlers : handler[h].at # "idle" => handler[h].swap \in Swaps
         /\ checker.at \in {"ask", "write"} => checker.swap \in Swaps

Confirmed(s) == swapState[s] \notin {"none", "WaitingUserConfirmation"}

\* A failure that stays one, or that was concluded too early.
FailedFor(s) == payment[s] \in {"refused", "failed"} \/ s \in hasty

\* What may be written as the state of s.
Right(state, s) ==
    /\ state = "Finished" => payment[s] = "settled"
    /\ state = "LightningPaymentFail" => FailedFor(s)

BeforeCall == {"hand over", "pay"}
AfterCall  == {"paying", "recheck", "write", "finish"}

HandlerOK(h) == LET s == handler[h].swap  where == handler[h].at IN
    /\ where = "mark" => /\ s \in OutSwaps /\ h \in shared[s]
                         /\ swapState[s] = "WaitingUserConfirmation"
    /\ where \in BeforeCall => s \in Swaps /\ Confirmed(s) /\ calls[s] = 0
    /\ where = "pay" => s \in OutSwaps
    /\ where \in AfterCall => s \in OutSwaps /\ Confirmed(s) /\ calls[s] = 1
    /\ where = "write" => Right(handler[h].verdict, s)
                          /\ handler[h].verdict \notin {"none", "WaitingUserConfirmation"}
    /\ where = "finish" => payment[s] = "settled"

OnePayer == \A g, h \in Handlers :
    handler[g].at \in BeforeCall /\ handler[h].at \in BeforeCall
        /\ handler[g].swap = handler[h].swap => g = h

SwapOK(s) == /\ calls[s] <= 1
             /\ ~Confirmed(s) => calls[s] = 0
             /\ Right(swapState[s], s)

CheckerOK == /\ \A s \in watched : Confirmed(s)
             /\ checker.at \in {"ask", "write"} =>
                   /\ checker.swap \in Swaps /\ Confirmed(checker.swap)
                   /\ checker.verdict \notin {"none", "WaitingUserConfirmation"}
                   /\ Right(checker.verdict, checker.swap)

LiquidityInv == /\ Typed
                /\ \A h \in Handlers : HandlerOK(h)
                /\ OnePayer
                /\ \A s \in Swaps : SwapOK(s)
                /\ CheckerOK

\* What no step undoes.
Onward(s) == /\ Confirmed(s) => Confirmed(s)'
             /\ payment[s] = "settled" => payment'[s] = "settled"
             /\ FailedFor(s) => FailedFor(s)'

\* What a step of others leaves to a request.
Undisturbed(g) == LET s == handler[g].swap IN
    /\ handler'[g] = handler[g]
    /\ handler[g].at = "mark" => g \in shared'[s] /\ swapState'[s] = swapState[s]
    /\ handler[g].at \in BeforeCall \cup AfterCall => calls'[s] = calls[s]

-----------------------------------------------------------------------------
(* Typing.                                                                 *)

LEMMA StateNames == /\ \A status : RecheckedState(status) \in States
                    /\ \A status : \A old \in States : CheckedState(status, old) \in States
  BY DEF RecheckedState, CheckedState, States

Requests == [at : Stages, swap : Swaps \cup {"none"}, verdict : States]

Others(h) == \A g \in Handlers : g # h => handler'[g] = handler[g]

LEMMA GoEffect ==
    ASSUME LiquidityTypeOK, NEW h \in Handlers, NEW where \in Stages, Go(h, where)
    PROVE  /\ handler' \in [Handlers -> Requests]
           /\ handler'[h].at = where /\ handler'[h].swap = handler[h].swap
           /\ handler'[h].verdict = handler[h].verdict
           /\ Others(h)
  <1>1. handler \in [Handlers -> Requests]
    BY DEF LiquidityTypeOK, Requests
  <1>2. handler[h] \in Requests
    BY <1>1
  <1>3. handler' = [handler EXCEPT ![h] = [handler[h] EXCEPT !.at = where]]
    BY <1>1 DEF Go
  <1>4. [handler[h] EXCEPT !.at = where] \in Requests
    BY <1>2 DEF Requests
  <1>5. handler'[h] = [handler[h] EXCEPT !.at = where]
    BY <1>1, <1>3
  <1> QED BY <1>1, <1>2, <1>3, <1>4, <1>5 DEF Requests, Others

LEMMA StartEffect ==
    ASSUME LiquidityTypeOK, NEW h \in Handlers, NEW where \in Stages, NEW s \in Swaps,
           handler' = [handler EXCEPT ![h].at = where, ![h].swap = s]
    PROVE  /\ handler' \in [Handlers -> Requests]
           /\ handler'[h].at = where /\ handler'[h].swap = s
           /\ Others(h)
  <1>1. handler \in [Handlers -> Requests]
    BY DEF LiquidityTypeOK, Requests
  <1>2. handler[h] \in Requests
    BY <1>1
  <1>3. handler' = [handler EXCEPT ![h] = [handler[h] EXCEPT !.at = where, !.swap = s]]
    BY <1>1
  <1>4. [handler[h] EXCEPT !.at = where, !.swap = s] \in Requests
    BY <1>2 DEF Requests
  <1>5. handler'[h] = [handler[h] EXCEPT !.at = where, !.swap = s]
    BY <1>1, <1>3
  <1> QED BY <1>1, <1>2, <1>3, <1>4, <1>5 DEF Requests, Others

LEMMA VerdictEffect ==
    ASSUME LiquidityTypeOK, NEW h \in Handlers, NEW where \in Stages, NEW state \in States,
           handler' = [handler EXCEPT ![h].at = where, ![h].verdict = state]
    PROVE  /\ handler' \in [Handlers -> Requests]
           /\ handler'[h].at = where /\ handler'[h].swap = handler[h].swap
           /\ handler'[h].verdict = state
           /\ Others(h)
  <1>1. handler \in [Handlers -> Requests]
    BY DEF LiquidityTypeOK, Requests
  <1>2. handler[h] \in Requests
    BY <1>1
  <1>3. handler' = [handler EXCEPT ![h] = [handler[h] EXCEPT !.at = where, !.verdict = state]]
    BY <1>1
  <1>4. [handler[h] EXCEPT !.at = where, !.verdict = state] \in Requests
    BY <1>2 DEF Requests
  <1>5. handler'[h] = [handler[h] EXCEPT !.at = where, !.verdict = state]
    BY <1>1, <1>3
  <1> QED BY <1>1, <1>2, <1>3, <1>4, <1>5 DEF Requests, Others

\* A request that takes up s: its stage follows from the state of the row.
LEMMA ReadsEffect ==
    ASSUME LiquidityTypeOK, NEW h \in Handlers, NEW s \in Swaps, ConfirmReads(h, s)
    PROVE  /\ handler' \in [Handlers -> Requests]
           /\ handler'[h].at = IF swapState[s] = "WaitingUserConfirmation"
                               THEN "mark" ELSE "ended"
           /\ handler'[h].swap = s
           /\ Others(h)
  <1> DEFINE where == IF swapState[s] = "WaitingUserConfirmation" THEN "mark" ELSE "ended"
  <1>1. handler \in [Handlers -> Requests]
    BY DEF LiquidityTypeOK, Requests
  <1>2. handler[h] \in Requests /\ where \in Stages
    BY <1>1 DEF Stages
  <1>3. handler' = [handler EXCEPT ![h] = [handler[h] EXCEPT !.swap = s, !.at = where]]
    BY <1>1 DEF ConfirmReads
  <1>4. [handler[h] EXCEPT !.swap = s, !.at = where] \in Requests
    BY <1>2 DEF Requests
  <1>5. handler'[h] = [handler[h] EXCEPT !.swap = s, !.at = where]
    BY <1>1, <1>3
  <1> QED BY <1>1, <1>2, <1>3, <1>4, <1>5 DEF Requests, Others

LEMMA TypedInit == LiquidityInit => Typed
  BY DEF LiquidityInit, Typed, LiquidityTypeOK, States, Stages

LEMMA TypedNext == Typed /\ [LiquidityNext]_liquidityVars => Typed'
  <1> SUFFICES ASSUME Typed, [LiquidityNext]_liquidityVars PROVE Typed'
    OBVIOUS
  <1> USE DEF swapRow, node
  <1>0. /\ LiquidityTypeOK
        /\ \A h \in Handlers : handler[h].at # "idle" => handler[h].swap \in Swaps
        /\ checker.at \in {"ask", "write"} => checker.swap \in Swaps
    BY DEF Typed
  <1>1. ASSUME NEW s \in Swaps, SwapOutRequest(s) PROVE Typed'
    BY <1>0, <1>1 DEF Typed, LiquidityTypeOK, SwapOutRequest, ChangeState, States
  <1>2. ASSUME NEW s \in Swaps, PaymentMoves(s) \/ PaymentArrives(s) PROVE Typed'
    BY <1>0, <1>2 DEF Typed, LiquidityTypeOK, PaymentMoves, PaymentArrives
  <1>3. ASSUME NEW s \in Swaps, CheckerReads(s) PROVE Typed'
    BY <1>0, <1>3 DEF Typed, LiquidityTypeOK, CheckerReads
  <1>4. ASSUME NEW h \in Handlers, NEW s \in Swaps, SwapInRequest(h, s) PROVE Typed'
    <2>1. /\ handler' \in [Handlers -> Requests] /\ handler'[h].swap = s /\ Others(h)
      BY <1>0, <1>4, StartEffect DEF SwapInRequest, Stages
    <2> QED BY <1>0, <1>4, <2>1 DEF Typed, LiquidityTypeOK, SwapInRequest, ChangeState, States,
               Requests, Others
  <1>5. ASSUME NEW h \in Handlers, NEW s \in Swaps, ConfirmReads(h, s) PROVE Typed'
    <2>1. /\ handler' \in [Handlers -> Requests] /\ handler'[h].swap = s /\ Others(h)
      BY <1>0, <1>5, ReadsEffect
    <2> QED BY <1>0, <1>5, <2>1 DEF Typed, LiquidityTypeOK, ConfirmReads, Requests, Others
  <1>6. ASSUME NEW h \in Handlers, NEW where \in Stages, Go(h, where), handler[h].at # "idle",
               swapState' \in [Swaps -> States], shared' \in [Swaps -> SUBSET Handlers],
               payment' \in [Swaps -> {"none", "in transit", "refused", "in flight", "settled", "failed"}],
               calls' \in [Swaps -> Nat], hasty' \subseteq Swaps, checker' = checker,
               watched' \subseteq Swaps
        PROVE  Typed'
    <2>1. /\ handler' \in [Handlers -> Requests] /\ handler'[h].swap = handler[h].swap
          /\ Others(h)
      BY <1>0, <1>6, GoEffect
    <2> QED BY <1>0, <1>6, <2>1 DEF Typed, LiquidityTypeOK, Requests, Others
  <1>7. ASSUME NEW h \in Handlers, ConfirmMarks(h) PROVE Typed'
    BY <1>0, <1>6, <1>7 DEF LiquidityTypeOK, ConfirmMarks, ChangeState, States, Stages
  <1>8. ASSUME NEW h \in Handlers, ConfirmAborts(h) PROVE Typed'
    <2>1. handler[h].swap \in Swaps /\ handler[h].at # "idle" /\ Go(h, "ended")
      BY <1>0, <1>8 DEF ConfirmAborts
    <2>2. swapState' \in [Swaps -> States]
      BY <1>0, <1>8, <2>1 DEF LiquidityTypeOK, ConfirmAborts, ChangeState, States
    <2>3. shared' \in [Swaps -> SUBSET Handlers]
      BY <1>0, <1>8, <2>1 DEF LiquidityTypeOK, ConfirmAborts
    <2> QED BY <1>0, <1>6, <1>8, <2>1, <2>2, <2>3 DEF LiquidityTypeOK, ConfirmAborts, Stages
  <1>9. ASSUME NEW h \in Handlers, HandOver(h) PROVE Typed'
    <2>1. handler[h].at # "idle" /\ handler[h].swap \in Swaps
      BY <1>0, <1>9 DEF HandOver
    <2>2. PICK where \in {"pay", "ended"} : Go(h, where)
      BY <1>9 DEF HandOver
    <2> QED BY <1>0, <1>6, <1>9, <2>1, <2>2 DEF LiquidityTypeOK, HandOver, Stages
  <1>10. ASSUME NEW h \in Handlers, Pay(h) PROVE Typed'
    <2>1. handler[h].swap \in Swaps /\ handler[h].at # "idle" /\ Go(h, "paying")
      BY <1>0, <1>10 DEF Pay
    <2>2. payment' \in [Swaps -> {"none", "in transit", "refused", "in flight", "settled", "failed"}]
      BY <1>0, <1>10, <2>1 DEF LiquidityTypeOK, Pay
    <2>3. calls' \in [Swaps -> Nat]
      <3>1. calls \in [Swaps -> Nat]
        BY <1>0 DEF LiquidityTypeOK
      <3>2. calls[handler[h].swap] + 1 \in Nat
        <4>1. calls[handler[h].swap] \in Nat
          BY <2>1, <3>1
        <4> QED BY <4>1
      <3>3. calls' = [calls EXCEPT ![handler[h].swap] = calls[handler[h].swap] + 1]
        BY <1>10, <2>1, <3>1 DEF Pay
      <3> QED BY <3>1, <3>2, <3>3
    <2> QED BY <1>0, <1>6, <1>10, <2>1, <2>2, <2>3 DEF LiquidityTypeOK, Pay, Stages
  <1>11. ASSUME NEW h \in Handlers, PayReturns(h) PROVE Typed'
    BY <1>0, <1>6, <1>11 DEF LiquidityTypeOK, PayReturns, Stages
  <1>12. ASSUME NEW h \in Handlers, Recheck(h) PROVE Typed'
    <2>1. /\ handler' \in [Handlers -> Requests] /\ handler'[h].swap = handler[h].swap
          /\ Others(h)
      BY <1>0, <1>12, VerdictEffect, StateNames DEF Recheck, Stages
    <2>2. hasty' \subseteq Swaps /\ UNCHANGED <<payment, calls>>
      BY <1>0, <1>12 DEF Recheck, Concludes, LiquidityTypeOK
    <2> QED BY <1>0, <1>12, <2>1, <2>2 DEF Typed, LiquidityTypeOK, Recheck, Requests, Others
  <1>13. ASSUME NEW h \in Handlers, ConfirmWrites(h) PROVE Typed'
    <2>1. handler[h].verdict \in States /\ handler[h].at # "idle" /\ Go(h, "ended")
      BY <1>0, <1>13 DEF LiquidityTypeOK, ConfirmWrites
    <2>2. swapState' \in [Swaps -> States]
      BY <1>0, <1>13, <2>1 DEF LiquidityTypeOK, ConfirmWrites, ChangeState, States
    <2> QED BY <1>0, <1>6, <1>13, <2>1, <2>2 DEF LiquidityTypeOK, ConfirmWrites, Stages
  <1>14. ASSUME NEW h \in Handlers, ConfirmGivesUp(h) PROVE Typed'
    BY <1>0, <1>6, <1>14 DEF LiquidityTypeOK, ConfirmGivesUp, Stages
  <1>15. CASE CheckerStarts
    <2>1. watched' \subseteq Swaps
      BY <1>0, <1>15 DEF LiquidityTypeOK, CheckerStarts
    <2>2. PICK where \in {"idle", "gone"} : checker' = [checker EXCEPT !.at = where]
      BY <1>15 DEF CheckerStarts
    <2> QED BY <1>0, <1>15, <2>1, <2>2 DEF Typed, LiquidityTypeOK, CheckerStarts
  <1>16. CASE CheckerAsks
    <2>0. hasty' \subseteq Swaps /\ UNCHANGED <<payment, calls>>
      <3>1. CASE UNCHANGED node
        BY <1>0, <3>1 DEF LiquidityTypeOK
      <3>2. ASSUME NEW state, Concludes(checker.swap, state), checker.at = "ask"
            PROVE  hasty' \subseteq Swaps /\ UNCHANGED <<payment, calls>>
        <4>1. checker.swap \in Swaps
          BY <1>0, <3>2
        <4> QED BY <1>0, <3>2, <4>1 DEF Concludes, LiquidityTypeOK
      <3> QED BY <1>16, <3>1, <3>2 DEF CheckerAsks
    <2>1. CASE \E status \in Statuses(checker.swap) :
                  checker' = [checker EXCEPT !.at = "write", !.verdict = CheckedState(status, @)]
      <3>1. PICK status : checker' = [checker EXCEPT !.at = "write",
                                          !.verdict = CheckedState(status, checker.verdict)]
        BY <1>0, <2>1 DEF LiquidityTypeOK
      <3>2. CheckedState(status, checker.verdict) \in States
        BY <1>0, StateNames DEF LiquidityTypeOK
      <3> QED BY <1>0, <1>16, <2>0, <3>1, <3>2 DEF Typed, LiquidityTypeOK, CheckerAsks
    <2>2. CASE checker' = [checker EXCEPT !.at = "idle"]
      BY <1>0, <1>16, <2>0, <2>2 DEF Typed, LiquidityTypeOK, CheckerAsks
    <2> QED BY <1>16, <2>1, <2>2 DEF CheckerAsks
  <1>17. CASE CheckerWrites
    BY <1>0, <1>17 DEF Typed, LiquidityTypeOK, CheckerWrites, ChangeState
  <1>18. CASE Restart
    <2>1. \A h \in Handlers : handler[h] \in Requests
      BY <1>0 DEF LiquidityTypeOK, Requests
    <2>2. \A h \in Handlers : [handler[h] EXCEPT !.at = "ended"] \in Requests
      BY <2>1 DEF Requests, Stages
    <2>3. \A h \in Handlers : handler'[h] \in Requests
      BY <1>18, <2>1, <2>2 DEF Restart
    <2>4. handler' \in [Handlers -> Requests]
      BY <1>18, <2>3 DEF Restart
    <2>5. \A h \in Handlers : handler'[h].swap = handler[h].swap
                              /\ (handler'[h].at = "idle" => handler[h].at = "idle")
                              /\ handler'[h].at \in {"idle", "ended"}
      BY <1>18, <2>1 DEF Restart, Requests
    <2>6. \A h \in Handlers : handler'[h].at # "idle" => handler'[h].swap \in Swaps
      BY <1>0, <1>18, <2>1, <2>5 DEF Restart, Requests
    <2> QED BY <1>0, <1>18, <2>4, <2>6 DEF Typed, LiquidityTypeOK, Restart, Requests
  <1>19. CASE UNCHANGED liquidityVars
    BY <1>0, <1>19 DEF Typed, LiquidityTypeOK, liquidityVars
  <1> QED BY <1>1, <1>2, <1>3, <1>4, <1>5, <1>7, <1>8, <1>9, <1>10, <1>11, <1>12, <1>13,
             <1>14, <1>15, <1>16, <1>17, <1>18, <1>19 DEF LiquidityNext

\* Every row and every request of the liquidity manager stays in a state the
\* program knows.
THEOREM LiquidityTypeCorrect == LiquiditySpec => []LiquidityTypeOK
  <1>1. Typed => LiquidityTypeOK
    BY DEF Typed
  <1> QED BY <1>1, TypedInit, TypedNext, PTL DEF LiquiditySpec

-----------------------------------------------------------------------------
(* What a step leaves to those who do not take it.                         *)

LEMMA OthersKeep ==
    ASSUME NEW g \in Handlers, HandlerOK(g), Undisturbed(g),
           handler[g].swap \in Swaps => Onward(handler[g].swap),
           handler[g].at \in {"mark"} \cup BeforeCall \cup AfterCall => handler[g].swap \in Swaps
    PROVE  HandlerOK(g)'
  <1> DEFINE s == handler[g].swap
  <1>1. handler'[g] = handler[g]
    BY DEF Undisturbed
  <1>2. CASE handler[g].at = "mark"
    BY <1>1, <1>2 DEF HandlerOK, Undisturbed, BeforeCall, AfterCall
  <1>3. CASE handler[g].at \in BeforeCall
    BY <1>1, <1>3 DEF HandlerOK, Undisturbed, BeforeCall, AfterCall, Onward, Confirmed
  <1>4. CASE handler[g].at \in AfterCall
    BY <1>1, <1>4 DEF HandlerOK, Undisturbed, BeforeCall, AfterCall, Onward, Confirmed, Right,
                      FailedFor
  <1>5. CASE handler[g].at \notin {"mark"} \cup BeforeCall \cup AfterCall
    BY <1>1, <1>5 DEF HandlerOK, BeforeCall, AfterCall
  <1> QED BY <1>2, <1>3, <1>4, <1>5

LEMMA CheckerKeeps ==
    ASSUME CheckerOK, \A s \in Swaps : Onward(s), watched \subseteq Swaps,
           UNCHANGED <<checker, watched>>
    PROVE  CheckerOK'
  <1>1. \A s \in watched : Confirmed(s)'
    BY DEF CheckerOK, Onward, Confirmed
  <1>2. checker.at \in {"ask", "write"} =>
           /\ checker.swap \in Swaps /\ Confirmed(checker.swap)'
           /\ Right(checker.verdict, checker.swap)'
    BY DEF CheckerOK, Onward, Confirmed, Right, FailedFor
  <1> QED BY <1>1, <1>2 DEF CheckerOK, Confirmed, Right, FailedFor

LEMMA SwapsKeep ==
    ASSUME NEW s \in Swaps, SwapOK(s), Onward(s), swapState'[s] = swapState[s],
           calls'[s] = calls[s]
    PROVE  SwapOK(s)'
  BY DEF SwapOK, Onward, Confirmed, Right, FailedFor

\* A request that pays no more leaves one payer at most.
LEMMA PayersKeep ==
    ASSUME OnePayer, NEW h \in Handlers, Others(h),
           handler'[h].at \in BeforeCall =>
              handler[h].at \in BeforeCall /\ handler'[h].swap = handler[h].swap
    PROVE  OnePayer'
  BY DEF OnePayer, Others

\* The tables and the node stay, one request goes on.
LEMMA OneRequest ==
    ASSUME LiquidityInv, Typed', NEW h \in Handlers, Others(h), HandlerOK(h)',
           UNCHANGED <<swapState, shared, payment, calls, checker, watched>>,
           hasty \subseteq hasty',
           handler'[h].at \in BeforeCall =>
              handler[h].at \in BeforeCall /\ handler'[h].swap = handler[h].swap
    PROVE  LiquidityInv'
  <1>1. \A s \in Swaps : Onward(s)
    BY DEF Onward, Confirmed, FailedFor
  <1>2. \A g \in Handlers : HandlerOK(g)'
    <2> SUFFICES ASSUME NEW g \in Handlers, g # h PROVE HandlerOK(g)'
      OBVIOUS
    <2>1. Undisturbed(g)
      BY DEF Others, Undisturbed, LiquidityInv, HandlerOK
    <2>2. handler[g].at \in {"mark"} \cup BeforeCall \cup AfterCall => handler[g].swap \in Swaps
      BY DEF LiquidityInv, Typed, BeforeCall, AfterCall
    <2> QED BY <1>1, <2>1, <2>2, OthersKeep DEF LiquidityInv
  <1>3. \A s \in Swaps : SwapOK(s)'
    BY <1>1, SwapsKeep DEF LiquidityInv
  <1>4. CheckerOK'
    BY <1>1, CheckerKeeps DEF LiquidityInv, Typed, LiquidityTypeOK
  <1>5. OnePayer'
    BY PayersKeep DEF LiquidityInv
  <1> QED BY <1>2, <1>3, <1>4, <1>5 DEF LiquidityInv

\* One request goes on and touches the tables or the node.
LEMMA OneRequestAndTables ==
    ASSUME LiquidityInv, Typed', NEW h \in Handlers, Others(h), HandlerOK(h)', OnePayer',
           \A g \in Handlers \ {h} : Undisturbed(g),
           \A s \in Swaps : Onward(s) /\ SwapOK(s)',
           UNCHANGED <<checker, watched>>
    PROVE  LiquidityInv'
  <1>1. \A g \in Handlers : HandlerOK(g)'
    <2> SUFFICES ASSUME NEW g \in Handlers, g # h PROVE HandlerOK(g)'
      OBVIOUS
    <2>1. handler[g].at \in {"mark"} \cup BeforeCall \cup AfterCall => handler[g].swap \in Swaps
      BY DEF LiquidityInv, Typed, BeforeCall, AfterCall
    <2> QED BY <2>1, OthersKeep DEF LiquidityInv
  <1>2. CheckerOK'
    BY CheckerKeeps DEF LiquidityInv, Typed, LiquidityTypeOK
  <1> QED BY <1>1, <1>2 DEF LiquidityInv

LEMMA TypedStep ==
    ASSUME LiquidityInv, LiquidityNext
    PROVE  Typed' /\ Typed /\ LiquidityTypeOK
  BY TypedNext DEF LiquidityInv, Typed

LEMMA StatusMeans ==
    ASSUME LiquidityTypeOK, NEW s \in Swaps, NEW status \in Statuses(s)
    PROVE  /\ status \in {"SETTLED", "PENDING", "FAILED", "UNKNOWN"}
           /\ status = "SETTLED" => payment[s] = "settled"
           /\ status \in {"UNKNOWN", "FAILED"} => payment[s] \notin {"settled", "in flight"}
  <1> payment[s] \in {"none", "in transit", "refused", "in flight", "settled", "failed"}
    BY DEF LiquidityTypeOK
  <1>1. CASE payment[s] = "settled"
    BY <1>1 DEF Statuses
  <1>2. CASE payment[s] = "in flight"
    BY <1>2 DEF Statuses
  <1>3. CASE payment[s] = "failed"
    BY <1>3 DEF Statuses
  <1>4. CASE payment[s] \in {"none", "in transit", "refused"}
    BY <1>4, LiquidityAssumption DEF Statuses
  <1> QED BY <1>1, <1>2, <1>3, <1>4

-----------------------------------------------------------------------------
(* One lemma per step.                                                     *)

LEMMA InvSwapOut ==
    ASSUME LiquidityInv, NEW t \in Swaps, SwapOutRequest(t)
    PROVE  LiquidityInv'
  <1>1. Typed' /\ Typed /\ LiquidityTypeOK
    BY TypedStep DEF LiquidityNext
  <1>2. /\ swapState[t] = "none" /\ swapState'[t] = "WaitingUserConfirmation"
        /\ \A s \in Swaps : s # t => swapState'[s] = swapState[s]
        /\ UNCHANGED <<shared, payment, calls, hasty, handler, checker, watched>>
    BY <1>1 DEF SwapOutRequest, ChangeState, LiquidityTypeOK, node
  <1>3. \A s \in Swaps : Onward(s)
    BY <1>2 DEF Onward, Confirmed, FailedFor
  <1>4. \A g \in Handlers : HandlerOK(g)'
    <2> SUFFICES ASSUME NEW g \in Handlers PROVE HandlerOK(g)'
      OBVIOUS
    <2>1. handler[g].at \in {"mark"} \cup BeforeCall \cup AfterCall => handler[g].swap \in Swaps
      BY <1>1 DEF Typed, BeforeCall, AfterCall
    <2>2. Undisturbed(g)
      BY <1>2, <2>1 DEF Undisturbed, LiquidityInv, HandlerOK
    <2> QED BY <1>3, <2>1, <2>2, OthersKeep DEF LiquidityInv
  <1>5. \A s \in Swaps : SwapOK(s)'
    <2> SUFFICES ASSUME NEW s \in Swaps PROVE SwapOK(s)'
      OBVIOUS
    <2>1. SwapOK(s)
      BY DEF LiquidityInv
    <2>2. CASE s = t
      BY <1>2, <2>1, <2>2 DEF SwapOK, Confirmed, Right
    <2>3. CASE s # t
      BY <1>2, <1>3, <2>1, <2>3, SwapsKeep
    <2> QED BY <2>2, <2>3
  <1>6. CheckerOK' /\ OnePayer'
    BY <1>1, <1>2, <1>3, CheckerKeeps DEF LiquidityInv, LiquidityTypeOK, OnePayer
  <1> QED BY <1>1, <1>4, <1>5, <1>6 DEF LiquidityInv

LEMMA InvSwapIn ==
    ASSUME LiquidityInv, NEW h \in Handlers, NEW t \in Swaps, SwapInRequest(h, t)
    PROVE  LiquidityInv'
  <1>1. Typed' /\ Typed /\ LiquidityTypeOK
    BY TypedStep DEF LiquidityNext
  <1>2. /\ swapState[t] = "none" /\ swapState'[t] = "MintWaitingPaymentRecv"
        /\ \A s \in Swaps : s # t => swapState'[s] = swapState[s]
        /\ UNCHANGED <<shared, payment, calls, hasty, checker, watched>>
    BY <1>1 DEF SwapInRequest, ChangeState, LiquidityTypeOK, node
  <1>3. /\ handler'[h].at = "hand over" /\ handler'[h].swap = t /\ Others(h)
    BY <1>1, StartEffect DEF SwapInRequest, Stages
  <1>4. calls[t] = 0
    BY <1>2 DEF LiquidityInv, SwapOK, Confirmed
  <1>5. \A s \in Swaps : Onward(s)
    BY <1>2 DEF Onward, Confirmed, FailedFor
  <1>6. HandlerOK(h)'
    BY <1>2, <1>3, <1>4 DEF HandlerOK, BeforeCall, AfterCall, Confirmed
  <1>7. \A g \in Handlers \ {h} : Undisturbed(g)
    BY <1>1, <1>2, <1>3 DEF Undisturbed, Others, LiquidityInv, HandlerOK, Typed
  <1>8. OnePayer'
    <2>1. \A g \in Handlers : handler[g].at \in BeforeCall => handler[g].swap # t
      BY <1>2 DEF LiquidityInv, HandlerOK, Confirmed
    <2> QED BY <1>3, <2>1 DEF LiquidityInv, OnePayer, Others
  <1>9. \A s \in Swaps : SwapOK(s)'
    <2> SUFFICES ASSUME NEW s \in Swaps PROVE SwapOK(s)'
      OBVIOUS
    <2>1. SwapOK(s)
      BY DEF LiquidityInv
    <2>2. CASE s = t
      BY <1>2, <1>4, <2>1, <2>2 DEF SwapOK, Confirmed, Right
    <2>3. CASE s # t
      BY <1>2, <1>5, <2>1, <2>3, SwapsKeep
    <2> QED BY <2>2, <2>3
  <1> QED BY <1>1, <1>2, <1>3, <1>5, <1>6, <1>7, <1>8, <1>9, OneRequestAndTables

LEMMA InvConfirmReads ==
    ASSUME LiquidityInv, NEW h \in Handlers, NEW t \in Swaps, ConfirmReads(h, t)
    PROVE  LiquidityInv'
  <1>1. Typed' /\ Typed /\ LiquidityTypeOK
    BY TypedStep DEF LiquidityNext
  <1>2. /\ t \in OutSwaps
        /\ h \in shared'[t] /\ \A s \in Swaps : shared[s] \subseteq shared'[s]
        /\ UNCHANGED <<swapState, payment, calls, hasty, checker, watched>>
    BY <1>1 DEF ConfirmReads, LiquidityTypeOK, node
  <1>3. /\ handler'[h].at = IF swapState[t] = "WaitingUserConfirmation"
                            THEN "mark" ELSE "ended"
        /\ handler'[h].swap = t /\ Others(h)
    BY <1>1, ReadsEffect
  <1>4. \A s \in Swaps : Onward(s)
    BY <1>2 DEF Onward, Confirmed, FailedFor
  <1>5. HandlerOK(h)'
    BY <1>2, <1>3 DEF HandlerOK, BeforeCall, AfterCall
  <1>6. \A g \in Handlers \ {h} : Undisturbed(g)
    BY <1>1, <1>2, <1>3 DEF Undisturbed, Others, LiquidityInv, HandlerOK, Typed
  <1>7. OnePayer'
    BY <1>3, PayersKeep DEF LiquidityInv, BeforeCall
  <1>8. \A s \in Swaps : SwapOK(s)'
    BY <1>2, <1>4, SwapsKeep DEF LiquidityInv
  <1> QED BY <1>1, <1>2, <1>3, <1>4, <1>5, <1>6, <1>7, <1>8, OneRequestAndTables

LEMMA InvMarks ==
    ASSUME LiquidityInv, NEW h \in Handlers, ConfirmMarks(h)
    PROVE  LiquidityInv'
  <1> DEFINE t == handler[h].swap
  <1>1. Typed' /\ Typed /\ LiquidityTypeOK
    BY TypedStep DEF LiquidityNext
  <1>2. /\ t \in Swaps /\ swapState[t] = "WaitingUserConfirmation"
        /\ t \in OutSwaps /\ h \in shared[t] /\ shared[t] \subseteq {h}
    BY <1>1 DEF ConfirmMarks, LiquidityInv, HandlerOK, Swaps, Writable
  <1>3. /\ swapState'[t] = "LightningPaymentPending"
        /\ \A s \in Swaps : s # t => swapState'[s] = swapState[s] /\ shared'[s] = shared[s]
        /\ UNCHANGED <<payment, calls, hasty, checker, watched>>
    BY <1>1, <1>2 DEF ConfirmMarks, ChangeState, LiquidityTypeOK, node
  <1>4. handler'[h].at = "hand over" /\ handler'[h].swap = t /\ Others(h)
    BY <1>1, GoEffect DEF ConfirmMarks, Stages
  <1>5. \A s \in Swaps : Onward(s)
    BY <1>2, <1>3 DEF Onward, Confirmed, FailedFor
  <1>6. calls[t] = 0
    BY <1>2 DEF LiquidityInv, SwapOK, Confirmed
  <1>7. HandlerOK(h)'
    BY <1>2, <1>3, <1>4, <1>6 DEF HandlerOK, BeforeCall, AfterCall, Confirmed
  <1>8. \A g \in Handlers \ {h} : Undisturbed(g)
    <2> SUFFICES ASSUME NEW g \in Handlers, g # h PROVE Undisturbed(g)
      OBVIOUS
    <2>1. handler[g].at = "mark" =>
             handler[g].swap \in Swaps /\ g \in shared[handler[g].swap] /\ handler[g].swap # t
      BY <1>1, <1>2 DEF LiquidityInv, HandlerOK, Typed
    <2> QED BY <1>3, <1>4, <2>1 DEF Undisturbed, Others
  <1>9. OnePayer'
    <2>1. \A g \in Handlers : handler[g].at \in BeforeCall => handler[g].swap # t
      BY <1>2 DEF LiquidityInv, HandlerOK, Confirmed
    <2> QED BY <1>4, <2>1 DEF LiquidityInv, OnePayer, Others
  <1>10. \A s \in Swaps : SwapOK(s)'
    <2> SUFFICES ASSUME NEW s \in Swaps PROVE SwapOK(s)'
      OBVIOUS
    <2>1. SwapOK(s)
      BY DEF LiquidityInv
    <2>2. CASE s = t
      BY <1>3, <1>6, <2>1, <2>2 DEF SwapOK, Confirmed, Right
    <2>3. CASE s # t
      BY <1>3, <1>5, <2>1, <2>3, SwapsKeep
    <2> QED BY <2>2, <2>3
  <1> QED BY <1>1, <1>3, <1>4, <1>5, <1>7, <1>8, <1>9, <1>10, OneRequestAndTables

LEMMA InvAborts ==
    ASSUME LiquidityInv, NEW h \in Handlers, ConfirmAborts(h)
    PROVE  LiquidityInv'
  <1> DEFINE t == handler[h].swap
  <1>1. Typed' /\ Typed /\ LiquidityTypeOK
    BY TypedStep DEF LiquidityNext
  <1>2. /\ t \in Swaps /\ swapState[t] = "WaitingUserConfirmation" /\ t \in OutSwaps
    BY <1>1 DEF ConfirmAborts, LiquidityInv, HandlerOK, Swaps
  <1>3. /\ \A s \in Swaps : s # t => swapState'[s] = swapState[s] /\ shared'[s] = shared[s]
        /\ shared'[t] = shared[t] \ {h}
        /\ \/ swapState'[t] = swapState[t]
           \/ swapState'[t] = "LightningPaymentPending" /\ shared[t] \subseteq {h}
        /\ UNCHANGED <<payment, calls, hasty, checker, watched>>
    BY <1>1, <1>2 DEF ConfirmAborts, ChangeState, LiquidityTypeOK, node, Writable
  <1>4. handler'[h].at = "ended" /\ Others(h)
    BY <1>1, GoEffect DEF ConfirmAborts, Stages
  <1>5. \A s \in Swaps : Onward(s)
    BY <1>2, <1>3 DEF Onward, Confirmed, FailedFor
  <1>6. HandlerOK(h)'
    BY <1>4 DEF HandlerOK, BeforeCall, AfterCall
  <1>7. \A g \in Handlers \ {h} : Undisturbed(g)
    <2> SUFFICES ASSUME NEW g \in Handlers, g # h PROVE Undisturbed(g)
      OBVIOUS
    <2>1. handler[g].at = "mark" =>
             handler[g].swap \in Swaps /\ g \in shared[handler[g].swap]
      BY <1>1 DEF LiquidityInv, HandlerOK, Typed
    <2> QED BY <1>3, <1>4, <2>1 DEF Undisturbed, Others
  <1>8. OnePayer'
    BY <1>4, PayersKeep DEF LiquidityInv, BeforeCall
  <1>9. \A s \in Swaps : SwapOK(s)'
    <2> SUFFICES ASSUME NEW s \in Swaps PROVE SwapOK(s)'
      OBVIOUS
    <2>1. SwapOK(s)
      BY DEF LiquidityInv
    <2>2. CASE swapState'[s] = swapState[s]
      BY <1>3, <1>5, <2>1, <2>2, SwapsKeep
    <2>3. CASE swapState'[s] # swapState[s]
      BY <1>2, <1>3, <2>1, <2>3 DEF SwapOK, Confirmed, Right
    <2> QED BY <2>2, <2>3
  <1> QED BY <1>1, <1>3, <1>4, <1>5, <1>6, <1>7, <1>8, <1>9, OneRequestAndTables

LEMMA InvHandOver ==
    ASSUME LiquidityInv, NEW h \in Handlers, HandOver(h)
    PROVE  LiquidityInv'
  <1>1. Typed' /\ Typed /\ LiquidityTypeOK
    BY TypedStep DEF LiquidityNext
  <1>2. /\ handler[h].at = "hand over" /\ handler[h].swap \in Swaps
        /\ watched' = watched \cup {handler[h].swap}
        /\ UNCHANGED <<swapState, shared, payment, calls, hasty, checker>>
        /\ Confirmed(handler[h].swap) /\ calls[handler[h].swap] = 0
    BY <1>1 DEF HandOver, swapRow, node, Typed, LiquidityInv, HandlerOK, BeforeCall
  <1>3. /\ handler'[h].at = IF handler[h].swap \in OutSwaps THEN "pay" ELSE "ended"
        /\ handler'[h].swap = handler[h].swap /\ Others(h)
    BY <1>1, GoEffect DEF HandOver, Stages
  <1>4. \A s \in Swaps : Onward(s)
    BY <1>2 DEF Onward, Confirmed, FailedFor
  <1>5. HandlerOK(h)'
    BY <1>2, <1>3 DEF HandlerOK, BeforeCall, AfterCall, Confirmed
  <1>6. \A g \in Handlers : HandlerOK(g)'
    <2> SUFFICES ASSUME NEW g \in Handlers, g # h PROVE HandlerOK(g)'
      BY <1>5
    <2>1. handler[g].at \in {"mark"} \cup BeforeCall \cup AfterCall => handler[g].swap \in Swaps
      BY <1>1 DEF Typed, BeforeCall, AfterCall
    <2>2. Undisturbed(g)
      BY <1>2, <1>3 DEF Undisturbed, Others, LiquidityInv, HandlerOK
    <2> QED BY <1>4, <2>1, <2>2, OthersKeep DEF LiquidityInv
  <1>7. OnePayer'
    BY <1>2, <1>3, PayersKeep DEF LiquidityInv, BeforeCall
  <1>8. \A s \in Swaps : SwapOK(s)'
    BY <1>2, <1>4, SwapsKeep DEF LiquidityInv
  <1>9. CheckerOK'
    <2>1. CheckerOK
      BY DEF LiquidityInv
    <2>2. \A s \in watched' : Confirmed(s)'
      BY <1>2, <2>1 DEF CheckerOK, Confirmed
    <2> QED BY <1>2, <2>1, <2>2 DEF CheckerOK, Confirmed, Right, FailedFor
  <1> QED BY <1>1, <1>6, <1>7, <1>8, <1>9 DEF LiquidityInv

LEMMA InvPay ==
    ASSUME LiquidityInv, NEW h \in Handlers, Pay(h)
    PROVE  LiquidityInv'
  <1> DEFINE t == handler[h].swap
  <1>1. Typed' /\ Typed /\ LiquidityTypeOK
    BY TypedStep DEF LiquidityNext
  <1>2. /\ handler[h].at = "pay" /\ t \in Swaps /\ t \in OutSwaps
        /\ Confirmed(t) /\ calls[t] = 0
    BY <1>1 DEF Pay, Typed, LiquidityInv, HandlerOK, BeforeCall
  <1>3. /\ calls'[t] = 1
        /\ payment'[t] = payment[t] \/ (payment[t] = "none" /\ payment'[t] = "in transit")
        /\ \A s \in Swaps : s # t => calls'[s] = calls[s] /\ payment'[s] = payment[s]
        /\ UNCHANGED <<swapState, shared, hasty, checker, watched>>
    <2>1. /\ calls \in [Swaps -> Nat] /\ DOMAIN payment = Swaps
          /\ calls' = [calls EXCEPT ![t] = calls[t] + 1]
      BY <1>1, <1>2 DEF Pay, LiquidityTypeOK
    <2>2. calls'[t] = 1 /\ \A s \in Swaps : s # t => calls'[s] = calls[s]
      BY <1>2, <2>1
    <2>3. /\ payment'[t] = payment[t] \/ (payment[t] = "none" /\ payment'[t] = "in transit")
          /\ \A s \in Swaps : s # t => payment'[s] = payment[s]
      BY <1>2, <2>1 DEF Pay
    <2> QED BY <2>2, <2>3 DEF Pay, swapRow
  <1>4. handler'[h].at = "paying" /\ handler'[h].swap = t /\ Others(h)
    BY <1>1, GoEffect DEF Pay, Stages
  <1>5. \A s \in Swaps : Onward(s)
    <2> SUFFICES ASSUME NEW s \in Swaps PROVE Onward(s)
      OBVIOUS
    <2>1. CASE s = t
      <3>1. payment[t] \in {"refused", "failed", "settled"} => payment'[t] = payment[t]
        BY <1>3
      <3>2. swapState' = swapState /\ hasty' = hasty
        BY <1>3
      <3> QED BY <2>1, <3>1, <3>2 DEF Onward, Confirmed, FailedFor
    <2>2. CASE s # t
      BY <1>3, <2>2 DEF Onward, Confirmed, FailedFor
    <2> QED BY <2>1, <2>2
  <1>6. HandlerOK(h)'
    BY <1>2, <1>3, <1>4 DEF HandlerOK, BeforeCall, AfterCall, Confirmed
  <1>7. \A g \in Handlers \ {h} : Undisturbed(g)
    <2> SUFFICES ASSUME NEW g \in Handlers, g # h PROVE Undisturbed(g)
      OBVIOUS
    <2>1. handler[g].at \in BeforeCall => handler[g].swap # t
      BY <1>2 DEF LiquidityInv, OnePayer, BeforeCall
    <2>2. handler[g].at \in AfterCall => handler[g].swap # t
      BY <1>2 DEF LiquidityInv, HandlerOK
    <2>3. handler[g].at \in {"mark"} \cup BeforeCall \cup AfterCall => handler[g].swap \in Swaps
      BY <1>1 DEF Typed, BeforeCall, AfterCall
    <2> QED BY <1>3, <1>4, <2>1, <2>2, <2>3 DEF Undisturbed, Others, LiquidityInv, HandlerOK
  <1>8. OnePayer'
    BY <1>4, PayersKeep DEF LiquidityInv, BeforeCall
  <1>9. \A s \in Swaps : SwapOK(s)'
    <2> SUFFICES ASSUME NEW s \in Swaps PROVE SwapOK(s)'
      OBVIOUS
    <2>1. SwapOK(s)
      BY DEF LiquidityInv
    <2>2. CASE s = t
      <3>1. calls'[s] = 1 /\ swapState' = swapState /\ Onward(s) /\ Confirmed(s)'
        BY <1>2, <1>3, <1>5, <2>2 DEF Confirmed
      <3>2. Right(swapState[s], s)
        BY <2>1 DEF SwapOK
      <3>3. Right(swapState[s], s)'
        BY <3>1, <3>2 DEF Right, Onward, FailedFor
      <3> QED BY <3>1, <3>3 DEF SwapOK
    <2>3. CASE s # t
      BY <1>3, <1>5, <2>1, <2>3, SwapsKeep
    <2> QED BY <2>2, <2>3
  <1> QED BY <1>1, <1>3, <1>4, <1>5, <1>6, <1>7, <1>8, <1>9, OneRequestAndTables

LEMMA InvPayReturns ==
    ASSUME LiquidityInv, NEW h \in Handlers, PayReturns(h)
    PROVE  LiquidityInv'
  <1>1. Typed' /\ Typed /\ LiquidityTypeOK
    BY TypedStep DEF LiquidityNext
  <1>2. /\ handler[h].at = "paying" /\ HandlerOK(h)
        /\ UNCHANGED <<swapState, shared, payment, calls, hasty, checker, watched>>
    BY DEF PayReturns, swapRow, node, LiquidityInv
  <1>3. /\ handler'[h].at \in {"finish", "recheck"}
        /\ handler'[h].at = "finish" => payment[handler[h].swap] = "settled"
        /\ handler'[h].swap = handler[h].swap /\ Others(h)
    BY <1>1, GoEffect DEF PayReturns, Stages
  <1>4. HandlerOK(h)'
    BY <1>2, <1>3 DEF HandlerOK, BeforeCall, AfterCall, Confirmed
  <1> QED BY <1>1, <1>2, <1>3, <1>4, OneRequest DEF BeforeCall

LEMMA InvRecheck ==
    ASSUME LiquidityInv, NEW h \in Handlers, Recheck(h)
    PROVE  LiquidityInv'
  <1>1. Typed' /\ Typed /\ LiquidityTypeOK
    BY TypedStep DEF LiquidityNext
  <1>2. /\ handler[h].at = "recheck" /\ HandlerOK(h) /\ handler[h].swap \in Swaps
        /\ UNCHANGED <<swapState, shared, checker, watched>>
    BY <1>1 DEF Recheck, swapRow, LiquidityInv, Typed
  <1>3. PICK status \in Statuses(handler[h].swap) :
           /\ handler' = [handler EXCEPT ![h].at = "write",
                                         ![h].verdict = RecheckedState(status)]
           /\ Concludes(handler[h].swap, RecheckedState(status))
    BY DEF Recheck
  <1>4. /\ handler'[h].at = "write" /\ handler'[h].swap = handler[h].swap
        /\ handler'[h].verdict = RecheckedState(status) /\ Others(h)
    BY <1>1, <1>3, VerdictEffect, StateNames DEF Stages
  <1>5. /\ RecheckedState(status) \in {"LightningPaymentPending", "LightningPaymentFail"}
        /\ RecheckedState(status) = "LightningPaymentFail" => status \notin {"PENDING", "SETTLED"}
    BY DEF RecheckedState
  <1>6. handler[h].swap \in OutSwaps /\ calls[handler[h].swap] = 1 /\ Confirmed(handler[h].swap)
    BY <1>2 DEF HandlerOK, AfterCall
  <1>7. /\ hasty \subseteq hasty' /\ UNCHANGED <<payment, calls>>
        /\ RecheckedState(status) = "LightningPaymentFail" => FailedFor(handler[h].swap)'
    <2>1. RecheckedState(status) = "LightningPaymentFail" =>
             payment[handler[h].swap] \notin {"settled", "in flight"}
      BY <1>1, <1>2, <1>3, <1>5, StatusMeans
    <2> QED BY <1>1, <1>2, <1>3, <1>4, <2>1 DEF Concludes, FailedFor, LiquidityTypeOK
  <1>9. HandlerOK(h)'
    BY <1>2, <1>4, <1>5, <1>6, <1>7 DEF HandlerOK, BeforeCall, AfterCall, Confirmed, Right
  <1> QED BY <1>1, <1>2, <1>4, <1>7, <1>9, OneRequest DEF BeforeCall

LEMMA InvGivesUp ==
    ASSUME LiquidityInv, NEW h \in Handlers, ConfirmGivesUp(h)
    PROVE  LiquidityInv'
  <1>1. Typed' /\ Typed /\ LiquidityTypeOK
    BY TypedStep DEF LiquidityNext
  <1>2. UNCHANGED <<swapState, shared, payment, calls, hasty, checker, watched>>
    BY DEF ConfirmGivesUp, swapRow, node
  <1>3. handler'[h].at = "ended" /\ Others(h)
    BY <1>1, GoEffect DEF ConfirmGivesUp, Stages
  <1>4. HandlerOK(h)'
    BY <1>3 DEF HandlerOK, BeforeCall, AfterCall
  <1> QED BY <1>1, <1>2, <1>3, <1>4, OneRequest DEF BeforeCall

LEMMA InvConfirmWrites ==
    ASSUME LiquidityInv, NEW h \in Handlers, ConfirmWrites(h)
    PROVE  LiquidityInv'
  <1> DEFINE t == handler[h].swap
  <1>1. Typed' /\ Typed /\ LiquidityTypeOK
    BY TypedStep DEF LiquidityNext
  <1>2. t \in Swaps /\ Confirmed(t) /\ calls[t] = 1 /\ HandlerOK(h)
    BY <1>1 DEF ConfirmWrites, Typed, LiquidityInv, HandlerOK, AfterCall
  <1>3. /\ \A s \in Swaps : s # t => swapState'[s] = swapState[s]
        /\ Right(swapState'[t], t) /\ swapState'[t] \notin {"none", "WaitingUserConfirmation"}
        /\ UNCHANGED <<shared, payment, calls, hasty, checker, watched>>
    BY <1>1, <1>2 DEF ConfirmWrites, ChangeState, LiquidityTypeOK, HandlerOK, Right, node
  <1>4. handler'[h].at = "ended" /\ Others(h)
    BY <1>1, GoEffect DEF ConfirmWrites, Stages
  <1>5. \A s \in Swaps : Onward(s)
    BY <1>3 DEF Onward, Confirmed, FailedFor
  <1>6. HandlerOK(h)'
    BY <1>4 DEF HandlerOK, BeforeCall, AfterCall
  <1>7. \A g \in Handlers \ {h} : Undisturbed(g)
    <2> SUFFICES ASSUME NEW g \in Handlers, g # h PROVE Undisturbed(g)
      OBVIOUS
    <2>1. handler[g].at = "mark" => /\ handler[g].swap \in Swaps /\ handler[g].swap # t
                                    /\ g \in shared[handler[g].swap]
      BY <1>1, <1>2 DEF LiquidityInv, HandlerOK, Typed, Confirmed
    <2> QED BY <1>3, <1>4, <2>1 DEF Undisturbed, Others
  <1>8. OnePayer'
    BY <1>4, PayersKeep DEF LiquidityInv, BeforeCall
  <1>9. \A s \in Swaps : SwapOK(s)'
    <2> SUFFICES ASSUME NEW s \in Swaps PROVE SwapOK(s)'
      OBVIOUS
    <2>1. SwapOK(s)
      BY DEF LiquidityInv
    <2>2. CASE s = t
      BY <1>2, <1>3, <2>1, <2>2 DEF SwapOK, Confirmed, Right, FailedFor
    <2>3. CASE s # t
      BY <1>3, <1>5, <2>1, <2>3, SwapsKeep
    <2> QED BY <2>2, <2>3
  <1> QED BY <1>1, <1>3, <1>4, <1>5, <1>6, <1>7, <1>8, <1>9, OneRequestAndTables

LEMMA InvPaymentMoves ==
    ASSUME LiquidityInv, NEW t \in Swaps, PaymentMoves(t) \/ PaymentArrives(t)
    PROVE  LiquidityInv'
  <1>1. Typed' /\ Typed /\ LiquidityTypeOK
    BY TypedStep DEF LiquidityNext
  <1>2. /\ payment[t] \in {"none", "in transit", "in flight"}
        /\ \A s \in Swaps : s # t => payment'[s] = payment[s]
        /\ UNCHANGED <<swapState, shared, calls, hasty, handler, checker, watched>>
    BY <1>1 DEF PaymentMoves, PaymentArrives, swapRow, LiquidityTypeOK
  <1>3. \A s \in Swaps : Onward(s)
    BY <1>2 DEF Onward, Confirmed, FailedFor
  <1>4. \A g \in Handlers : HandlerOK(g)'
    <2> SUFFICES ASSUME NEW g \in Handlers PROVE HandlerOK(g)'
      OBVIOUS
    <2>1. handler[g].at \in {"mark"} \cup BeforeCall \cup AfterCall => handler[g].swap \in Swaps
      BY <1>1 DEF Typed, BeforeCall, AfterCall
    <2>2. Undisturbed(g)
      BY <1>2 DEF Undisturbed, LiquidityInv, HandlerOK
    <2> QED BY <1>3, <2>1, <2>2, OthersKeep DEF LiquidityInv
  <1>5. \A s \in Swaps : SwapOK(s)'
    BY <1>2, <1>3, SwapsKeep DEF LiquidityInv
  <1>6. CheckerOK' /\ OnePayer'
    BY <1>1, <1>2, <1>3, CheckerKeeps DEF LiquidityInv, LiquidityTypeOK, OnePayer
  <1> QED BY <1>1, <1>4, <1>5, <1>6 DEF LiquidityInv

\* The checker moves, and nothing but its own list.
LEMMA CheckerMoves ==
    ASSUME LiquidityInv, Typed', CheckerOK',
           UNCHANGED <<swapState, shared, payment, calls, handler>>, hasty \subseteq hasty'
    PROVE  LiquidityInv'
  <1>1. \A s \in Swaps : Onward(s)
    BY DEF Onward, Confirmed, FailedFor
  <1>2. \A g \in Handlers : HandlerOK(g)'
    <2> SUFFICES ASSUME NEW g \in Handlers PROVE HandlerOK(g)'
      OBVIOUS
    <2>1. handler[g].at \in {"mark"} \cup BeforeCall \cup AfterCall => handler[g].swap \in Swaps
      BY DEF LiquidityInv, Typed, BeforeCall, AfterCall
    <2>2. Undisturbed(g)
      BY DEF Undisturbed, LiquidityInv, HandlerOK
    <2> QED BY <1>1, <2>1, <2>2, OthersKeep DEF LiquidityInv
  <1>3. (\A s \in Swaps : SwapOK(s)') /\ OnePayer'
    BY <1>1, SwapsKeep DEF LiquidityInv, OnePayer
  <1> QED BY <1>2, <1>3 DEF LiquidityInv

LEMMA InvCheckerStarts == LiquidityInv /\ CheckerStarts => LiquidityInv'
  <1> SUFFICES ASSUME LiquidityInv, CheckerStarts PROVE LiquidityInv'
    OBVIOUS
  <1>1. Typed' /\ Typed /\ LiquidityTypeOK
    BY TypedStep DEF LiquidityNext
  <1>2. UNCHANGED <<swapState, shared, payment, calls, hasty, handler>>
    BY DEF CheckerStarts, swapRow, node
  <1>3. checker'.at \in {"idle", "gone"}
    BY <1>1 DEF CheckerStarts, LiquidityTypeOK
  <1>4. \A s \in watched' : Confirmed(s)'
    BY <1>2 DEF CheckerStarts, LiquidityInv, CheckerOK, Confirmed
  <1>5. CheckerOK'
    BY <1>3, <1>4 DEF CheckerOK
  <1> QED BY <1>1, <1>2, <1>5, CheckerMoves

LEMMA InvCheckerReads ==
    ASSUME LiquidityInv, NEW t \in Swaps, CheckerReads(t)
    PROVE  LiquidityInv'
  <1>1. Typed' /\ Typed /\ LiquidityTypeOK
    BY TypedStep DEF LiquidityNext
  <1>2. /\ t \in watched /\ checker' = [at |-> "ask", swap |-> t, verdict |-> swapState[t]]
        /\ UNCHANGED <<swapState, shared, payment, calls, hasty, handler, watched>>
    BY DEF CheckerReads, swapRow, node
  <1>3. Confirmed(t) /\ Right(swapState[t], t) /\ \A s \in watched : Confirmed(s)
    BY <1>2 DEF LiquidityInv, CheckerOK, SwapOK
  <1>4. checker'.swap = t /\ checker'.verdict = swapState[t]
    BY <1>2
  <1>5. CheckerOK'
    BY <1>2, <1>3, <1>4 DEF CheckerOK, Confirmed, Right, FailedFor
  <1> QED BY <1>1, <1>2, <1>5, CheckerMoves

LEMMA InvCheckerAsks == LiquidityInv /\ CheckerAsks => LiquidityInv'
  <1> SUFFICES ASSUME LiquidityInv, CheckerAsks PROVE LiquidityInv'
    OBVIOUS
  <1>1. Typed' /\ Typed /\ LiquidityTypeOK
    BY TypedStep DEF LiquidityNext
  <1>2. /\ checker.at = "ask"
        /\ UNCHANGED <<swapState, shared, handler, watched>>
    BY DEF CheckerAsks, swapRow
  <1>3. /\ checker.swap \in Swaps /\ Confirmed(checker.swap)
        /\ checker.verdict \notin {"none", "WaitingUserConfirmation"}
        /\ Right(checker.verdict, checker.swap) /\ \A s \in watched : Confirmed(s)
    BY <1>2 DEF LiquidityInv, CheckerOK
  <1>4. CASE checker' = [checker EXCEPT !.at = "idle"] /\ UNCHANGED node
    <2>1. checker'.at = "idle" /\ UNCHANGED <<payment, calls, hasty>>
      BY <1>1, <1>4 DEF LiquidityTypeOK, node
    <2>2. CheckerOK'
      BY <1>2, <1>3, <2>1 DEF CheckerOK, Confirmed
    <2> QED BY <1>1, <1>2, <2>1, <2>2, CheckerMoves
  <1>5. ASSUME NEW status \in Statuses(checker.swap),
               checker' = [checker EXCEPT !.at = "write", !.verdict = CheckedState(status, @)],
               Concludes(checker.swap, CheckedState(status, checker.verdict))
        PROVE  LiquidityInv'
    <2>1. /\ checker'.swap = checker.swap
          /\ checker'.verdict = CheckedState(status, checker.verdict)
      BY <1>1, <1>5 DEF LiquidityTypeOK
    <2>2. /\ CheckedState(status, checker.verdict) \in
                {"Finished", "LightningPaymentPending", "LightningPaymentFail", checker.verdict}
          /\ CheckedState(status, checker.verdict) = "Finished" =>
                status = "SETTLED" \/ checker.verdict = "Finished"
          /\ CheckedState(status, checker.verdict) = "LightningPaymentFail" =>
                status = "FAILED" \/ checker.verdict = "LightningPaymentFail"
      BY DEF CheckedState
    <2>3. /\ status = "SETTLED" => payment[checker.swap] = "settled"
          /\ status = "FAILED" => payment[checker.swap] \notin {"settled", "in flight"}
      BY <1>1, <1>3, <1>5, StatusMeans
    <2>7. hasty \subseteq hasty' /\ UNCHANGED <<payment, calls>>
      BY <1>5 DEF Concludes
    <2>8. status = "FAILED" =>
             payment[checker.swap] \in {"refused", "failed"} \/ checker.swap \in hasty'
      <3>1. CheckedState("FAILED", checker.verdict) = "LightningPaymentFail"
        BY DEF CheckedState
      <3>2. payment[checker.swap] \in
               {"none", "in transit", "refused", "in flight", "settled", "failed"}
        BY <1>1, <1>3 DEF LiquidityTypeOK
      <3> QED BY <1>5, <2>3, <3>1, <3>2 DEF Concludes
    <2>4. Right(checker.verdict, checker.swap)'
      BY <1>3, <2>1, <2>2, <2>3, <2>7, <2>8 DEF Right, FailedFor
    <2>5. CheckedState(status, checker.verdict) \notin {"none", "WaitingUserConfirmation"}
      BY <1>3, <2>2
    <2>6. CheckerOK'
      BY <1>2, <1>3, <2>1, <2>4, <2>5 DEF CheckerOK, Confirmed
    <2> QED BY <1>1, <1>2, <2>6, <2>7, CheckerMoves
  <1> QED BY <1>4, <1>5 DEF CheckerAsks

LEMMA InvCheckerWrites == LiquidityInv /\ CheckerWrites => LiquidityInv'
  <1> SUFFICES ASSUME LiquidityInv, CheckerWrites PROVE LiquidityInv'
    OBVIOUS
  <1> DEFINE t == checker.swap
  <1>1. Typed' /\ Typed /\ LiquidityTypeOK
    BY TypedStep DEF LiquidityNext
  <1>2. /\ t \in Swaps /\ Confirmed(t) /\ Right(checker.verdict, t)
        /\ checker.verdict \notin {"none", "WaitingUserConfirmation"}
        /\ \A s \in watched : Confirmed(s)
    BY DEF CheckerWrites, LiquidityInv, CheckerOK
  <1>3. /\ watched' \subseteq watched /\ checker'.at = "idle"
        /\ UNCHANGED <<shared, payment, calls, hasty, handler>>
    BY <1>1 DEF CheckerWrites, LiquidityTypeOK, node
  <1>4. /\ \A s \in Swaps : s # t => swapState'[s] = swapState[s]
        /\ swapState'[t] \in {swapState[t], checker.verdict}
    BY <1>1, <1>2 DEF CheckerWrites, ChangeState, LiquidityTypeOK
  <1>5. \A s \in Swaps : Onward(s)
    BY <1>2, <1>3, <1>4 DEF Onward, Confirmed, FailedFor
  <1>6. \A g \in Handlers : HandlerOK(g)'
    <2> SUFFICES ASSUME NEW g \in Handlers PROVE HandlerOK(g)'
      OBVIOUS
    <2>1. handler[g].at \in {"mark"} \cup BeforeCall \cup AfterCall => handler[g].swap \in Swaps
      BY <1>1 DEF Typed, BeforeCall, AfterCall
    <2>2. handler[g].at = "mark" => handler[g].swap # t /\ g \in shared[handler[g].swap]
      BY <1>2 DEF LiquidityInv, HandlerOK, Confirmed
    <2>3. Undisturbed(g)
      BY <1>3, <1>4, <2>1, <2>2 DEF Undisturbed
    <2> QED BY <1>5, <2>1, <2>3, OthersKeep DEF LiquidityInv
  <1>7. \A s \in Swaps : SwapOK(s)'
    <2> SUFFICES ASSUME NEW s \in Swaps PROVE SwapOK(s)'
      OBVIOUS
    <2>1. SwapOK(s)
      BY DEF LiquidityInv
    <2>2. CASE swapState'[s] = swapState[s]
      BY <1>3, <1>5, <2>1, <2>2, SwapsKeep
    <2>3. CASE swapState'[s] # swapState[s]
      <3>1. /\ s = t /\ swapState'[s] = checker.verdict /\ Right(checker.verdict, s)
            /\ checker.verdict \notin {"none", "WaitingUserConfirmation"}
        BY <1>2, <1>4, <2>3
      <3> QED BY <1>3, <2>1, <3>1 DEF SwapOK, Confirmed, Right, FailedFor
    <2> QED BY <2>2, <2>3
  <1>8. CheckerOK' /\ OnePayer'
    <2>1. \A s \in watched' : Confirmed(s)'
      BY <1>1, <1>2, <1>3, <1>5 DEF Onward, LiquidityTypeOK
    <2> QED BY <1>3, <2>1 DEF CheckerOK, OnePayer, LiquidityInv
  <1> QED BY <1>1, <1>6, <1>7, <1>8 DEF LiquidityInv

LEMMA InvRestart == LiquidityInv /\ Restart => LiquidityInv'
  <1> SUFFICES ASSUME LiquidityInv, Restart PROVE LiquidityInv'
    OBVIOUS
  <1>1. Typed' /\ Typed /\ LiquidityTypeOK
    BY TypedStep DEF LiquidityNext
  <1>2. UNCHANGED <<swapState, payment, calls, hasty>> /\ watched' = {} /\ checker'.at = "off"
    BY <1>1 DEF Restart, node, LiquidityTypeOK
  <1>3. \A h \in Handlers : handler'[h].at \in {"idle", "ended"}
    <2> SUFFICES ASSUME NEW h \in Handlers PROVE handler'[h].at \in {"idle", "ended"}
      OBVIOUS
    <2>1. handler[h] \in Requests
      BY <1>1 DEF LiquidityTypeOK, Requests
    <2> QED BY <2>1 DEF Restart, Requests
  <1>4. (\A h \in Handlers : HandlerOK(h)') /\ OnePayer'
    BY <1>3 DEF HandlerOK, OnePayer, BeforeCall, AfterCall
  <1>5. \A s \in Swaps : Onward(s)
    BY <1>2 DEF Onward, Confirmed, FailedFor
  <1>6. (\A s \in Swaps : SwapOK(s)') /\ CheckerOK'
    BY <1>2, <1>5, SwapsKeep DEF LiquidityInv, CheckerOK
  <1> QED BY <1>1, <1>4, <1>6 DEF LiquidityInv

-----------------------------------------------------------------------------
LEMMA LiquidityInvInit == LiquidityInit => LiquidityInv
  <1> SUFFICES ASSUME LiquidityInit PROVE LiquidityInv
    OBVIOUS
  <1>1. Typed
    BY TypedInit
  <1>2. \A h \in Handlers : handler[h].at = "idle"
    BY DEF LiquidityInit
  <1>3. (\A h \in Handlers : HandlerOK(h)) /\ OnePayer
    BY <1>2 DEF HandlerOK, OnePayer, BeforeCall, AfterCall
  <1>4. \A s \in Swaps : SwapOK(s)
    BY DEF LiquidityInit, SwapOK, Right
  <1>5. CheckerOK
    BY DEF LiquidityInit, CheckerOK
  <1> QED BY <1>1, <1>3, <1>4, <1>5 DEF LiquidityInv

LEMMA LiquidityInvNext == LiquidityInv /\ [LiquidityNext]_liquidityVars => LiquidityInv'
  <1> SUFFICES ASSUME LiquidityInv, [LiquidityNext]_liquidityVars PROVE LiquidityInv'
    OBVIOUS
  <1>1. CASE UNCHANGED liquidityVars
    <2>1. UNCHANGED <<swapState, shared, payment, calls, hasty, handler, checker, watched>>
      BY <1>1 DEF liquidityVars, swapRow, node
    <2>2. Typed'
      BY TypedNext DEF LiquidityInv
    <2>3. CheckerOK'
      BY <2>1 DEF LiquidityInv, CheckerOK, Confirmed, Right, FailedFor
    <2> QED BY <2>1, <2>2, <2>3, CheckerMoves
  <1> QED BY <1>1, InvSwapOut, InvSwapIn, InvConfirmReads, InvMarks, InvAborts, InvHandOver, InvPay,
             InvPayReturns, InvRecheck, InvGivesUp, InvConfirmWrites, InvPaymentMoves,
             InvCheckerStarts, InvCheckerReads, InvCheckerAsks, InvCheckerWrites, InvRestart
          DEF LiquidityNext

\* Who holds a swap, what was concluded of its payment and what its row says
\* fit together after every step.
THEOREM LiquidityInvariant == LiquiditySpec => []LiquidityInv
  BY LiquidityInvInit, LiquidityInvNext, PTL DEF LiquiditySpec

\* PayInvoice is called once per swap at most, for any number of
\* confirmations at once, of failed transactions and of restarts.
THEOREM LiquidityPaidOnce == LiquiditySpec => []PaidOnce
  <1>1. LiquidityInv => PaidOnce
    BY DEF LiquidityInv, SwapOK, PaidOnce
  <1> QED BY <1>1, LiquidityInvariant, PTL

\* The row of a swap tells the truth about its payment, whoever wrote it and
\* however old the answer was that he wrote it from; only an answer given
\* before the payment reached the node may be wrong, whatever nodes answer then.
THEOREM LiquidityStateMatchesPayment == LiquiditySpec => []StateMatchesPayment
  <1>1. LiquidityInv => StateMatchesPayment
    BY DEF LiquidityInv, SwapOK, Right, FailedFor, StateMatchesPayment
  <1> QED BY <1>1, LiquidityInvariant, PTL

-----------------------------------------------------------------------------
(* Statistics.                                                             *)

Proper(w) == 0 <= w.start /\ w.start <= w.end

\* An item that counts has been seen, and is counted in the window it was
\* seen in.
Within(w) == \A i \in w.items : w.start <= seenAt[i] /\ seenAt[i] <= w.end

Listed == \A m \in 1..Len(snapshots) : Proper(snapshots[m]) /\ Within(snapshots[m])

Ordered == \A m, k \in 1..Len(snapshots) : m < k => snapshots[m].end < snapshots[k].start

WindowIsNext == service.at # "idle" =>
    /\ Proper(service.window) /\ Within(service.window)
    /\ \A m \in 1..Len(snapshots) : snapshots[m].end < service.window.start

StatsInv == /\ StatsTypeOK /\ Lag <= clock
            /\ Listed /\ Ordered /\ WindowIsNext

-----------------------------------------------------------------------------
LEMMA StatsInvInit == StatsInit => StatsInv
  <1> SUFFICES ASSUME StatsInit PROVE StatsInv
    OBVIOUS
  <1>1. StatsTypeOK
    BY StatsAssumption DEF StatsInit, StatsTypeOK, Windows, NoWindow, Unseen
  <1>2. Len(snapshots) = 0
    BY DEF StatsInit
  <1> QED BY <1>1, <1>2, StatsAssumption DEF StatsInit, StatsInv, Listed, Ordered, WindowIsNext

\* A new window begins after every snapshot there is.
LEMMA StartsAfterAll ==
    ASSUME StatsInv
    PROVE  /\ WindowStart \in Int /\ 0 <= WindowStart
           /\ \A m \in 1..Len(snapshots) : snapshots[m].end < WindowStart
  <1>1. snapshots \in Seq(Windows) /\ Len(snapshots) \in Nat
    BY DEF StatsInv, StatsTypeOK
  <1>2. CASE snapshots = <<>>
    BY <1>2 DEF WindowStart
  <1>3. CASE snapshots # <<>>
    <2> DEFINE n == Len(snapshots)
    <2>1. n \in 1..n /\ \A m \in 1..n : snapshots[m] \in Windows
      BY <1>1, <1>3
    <2>2. \A m \in 1..n : snapshots[m].end \in Int /\ snapshots[m].start \in Int
      BY <2>1 DEF Windows
    <2>3. Proper(snapshots[n])
      BY <2>1 DEF StatsInv, Listed
    <2>4. WindowStart = snapshots[n].end + 1
      BY <1>3 DEF WindowStart
    <2>5. \A m \in 1..n : m # n => snapshots[m].end < snapshots[n].start
      BY <1>1, <2>1 DEF StatsInv, Ordered
    <2> QED BY <2>1, <2>2, <2>3, <2>4, <2>5 DEF Proper
  <1> QED BY <1>2, <1>3

LEMMA InvSetClock == StatsInv /\ SetClock => StatsInv'
  <1> SUFFICES ASSUME StatsInv, SetClock PROVE StatsInv'
    OBVIOUS
  <1>1. clock' \in Nat /\ Lag <= clock' /\ UNCHANGED <<seenAt, settled, snapshots, service>>
    BY StatsAssumption DEF SetClock
  <1> QED BY <1>1 DEF StatsInv, StatsTypeOK, Listed, Ordered, WindowIsNext, Within, Proper

LEMMA InvSee ==
    ASSUME StatsInv, NEW i \in Items, See(i)
    PROVE  StatsInv'
  <1>1. /\ seenAt[i] = -1 /\ seenAt' = [seenAt EXCEPT ![i] = clock]
        /\ clock \in Nat /\ seenAt \in [Items -> Int]
        /\ UNCHANGED <<clock, settled, snapshots, service>>
    BY DEF See, Unseen, StatsInv, StatsTypeOK
  <1>2. \A j \in Items : seenAt[j] # -1 => seenAt'[j] = seenAt[j]
    BY <1>1
  <1>3. ASSUME NEW w \in Windows, Proper(w), Within(w)
        PROVE  Within(w)'
    <2> SUFFICES ASSUME NEW j \in w.items
                 PROVE  w.start <= seenAt'[j] /\ seenAt'[j] <= w.end
      BY DEF Within
    <2>1. j \in Items /\ w.start <= seenAt[j] /\ seenAt[j] <= w.end
      BY <1>3 DEF Within, Windows
    <2>2. seenAt[j] # -1
      BY <1>1, <1>3, <2>1 DEF Proper, Windows
    <2> QED BY <1>2, <2>1, <2>2
  <1>4. StatsTypeOK'
    BY <1>1 DEF StatsInv, StatsTypeOK
  <1>5. Listed'
    <2> SUFFICES ASSUME NEW m \in 1..Len(snapshots)
                 PROVE  Proper(snapshots[m]) /\ Within(snapshots[m])'
      BY <1>1 DEF Listed, Proper
    <2>1. snapshots[m] \in Windows /\ Proper(snapshots[m]) /\ Within(snapshots[m])
      BY DEF StatsInv, StatsTypeOK, Listed
    <2>2. PICK w \in Windows : w = snapshots[m]
      BY <2>1
    <2>3. Within(w)'
      BY <1>3, <2>1, <2>2
    <2> QED BY <1>1, <2>1, <2>2, <2>3 DEF Within
  <1>6. WindowIsNext'
    <2> SUFFICES ASSUME service.at # "idle"
                 PROVE  /\ Proper(service.window) /\ Within(service.window)'
                        /\ \A m \in 1..Len(snapshots) : snapshots[m].end < service.window.start
      BY <1>1 DEF WindowIsNext, Proper
    <2>1. service.window \in Windows
      BY DEF StatsInv, StatsTypeOK
    <2>2. PICK w \in Windows : w = service.window
      BY <2>1
    <2>3. Within(w)'
      BY <1>3, <2>2 DEF StatsInv, WindowIsNext
    <2> QED BY <1>1, <2>2, <2>3 DEF StatsInv, WindowIsNext, Within
  <1>7. Ordered'
    BY <1>1, <1>2 DEF StatsInv, StatsTypeOK, Ordered, Unseen
  <1> QED BY <1>1, <1>4, <1>5, <1>6, <1>7 DEF StatsInv

LEMMA InvSettle ==
    ASSUME StatsInv, NEW i \in Items, Settle(i)
    PROVE  StatsInv'
  <1>1. /\ seenAt[i] # Unseen /\ settled' = settled \cup {i}
        /\ UNCHANGED <<clock, seenAt, snapshots, service>>
    BY DEF Settle
  <1> QED BY <1>1 DEF StatsInv, StatsTypeOK, Listed, Ordered, WindowIsNext, Within, Proper

LEMMA InvBegin == StatsInv /\ Begin => StatsInv'
  <1> SUFFICES ASSUME StatsInv, Begin PROVE StatsInv'
    OBVIOUS
  <1> DEFINE w == [start |-> WindowStart, end |-> clock - Lag, items |-> {}]
  <1>1. /\ WindowStart <= clock - Lag
        /\ service' = [at |-> "collect", window |-> w]
        /\ UNCHANGED <<clock, seenAt, settled, snapshots>>
    BY DEF Begin
  <1>2. w \in Windows /\ w.start = WindowStart /\ w.end = clock - Lag /\ w.items = {}
    BY StartsAfterAll, StatsAssumption DEF Windows, StatsInv, StatsTypeOK
  <1>3. Proper(w) /\ \A m \in 1..Len(snapshots) : snapshots[m].end < w.start
    BY <1>1, <1>2, StartsAfterAll DEF Proper
  <1>4. service'.window = w /\ service'.window.items = {}
    BY <1>1
  <1>5. StatsTypeOK'
    BY <1>1, <1>2 DEF StatsInv, StatsTypeOK
  <1>6. WindowIsNext'
    BY <1>1, <1>2, <1>3, <1>4 DEF WindowIsNext, Within, Proper
  <1>7. Listed' /\ Ordered'
    BY <1>1 DEF StatsInv, Listed, Ordered, Within, Proper
  <1> QED BY <1>1, <1>5, <1>6, <1>7 DEF StatsInv

LEMMA InvCollect == StatsInv /\ Collect => StatsInv'
  <1> SUFFICES ASSUME StatsInv, Collect PROVE StatsInv'
    OBVIOUS
  <1> DEFINE old == service.window
             items == {i \in settled : old.start <= seenAt[i] /\ seenAt[i] <= old.end}
             new == [old EXCEPT !.items = items]
  <1>1. /\ service.at = "collect" /\ service' = [at |-> "insert", window |-> new]
        /\ UNCHANGED <<clock, seenAt, settled, snapshots>>
    BY DEF Collect
  <1>2. old \in Windows /\ items \subseteq Items
    BY DEF StatsInv, StatsTypeOK
  <1>3. new \in Windows /\ new.start = old.start /\ new.end = old.end /\ new.items = items
    BY <1>2 DEF Windows
  <1>4. service'.window = new
    BY <1>1
  <1>5. StatsTypeOK'
    BY <1>1, <1>3 DEF StatsInv, StatsTypeOK
  <1>6. Proper(old) /\ \A m \in 1..Len(snapshots) : snapshots[m].end < old.start
    BY <1>1 DEF StatsInv, WindowIsNext
  <1>7. WindowIsNext'
    <2>1. \A i \in new.items : new.start <= seenAt[i] /\ seenAt[i] <= new.end
      BY <1>3
    <2> HIDE DEF new
    <2> QED BY <1>1, <1>3, <1>4, <1>6, <2>1 DEF WindowIsNext, Within, Proper
  <1>8. Listed' /\ Ordered'
    BY <1>1 DEF StatsInv, Listed, Ordered, Within, Proper
  <1> QED BY <1>1, <1>5, <1>7, <1>8 DEF StatsInv

LEMMA InvInsert == StatsInv /\ Insert => StatsInv'
  <1> SUFFICES ASSUME StatsInv, Insert PROVE StatsInv'
    OBVIOUS
  <1> DEFINE n == Len(snapshots)
  <1>1. /\ service.at = "insert" /\ UNCHANGED <<clock, seenAt, settled>>
        /\ service.window \in Windows
        /\ snapshots \in Seq(Windows) /\ n \in Nat
    BY DEF Insert, StatsInv, StatsTypeOK
  <1>2. service'.at = "idle" /\ service' \in [at : {"idle", "collect", "insert"}, window : Windows]
    BY DEF Insert, StatsInv, StatsTypeOK
  <1>3. WindowIsNext'
    BY <1>1, <1>2 DEF StatsInv, WindowIsNext
  <1>4. CASE snapshots' = snapshots
    BY <1>1, <1>2, <1>3, <1>4 DEF StatsInv, StatsTypeOK, Listed, Ordered, Within, Proper
  <1>5. CASE snapshots' = Append(snapshots, service.window)
    <2>1. /\ snapshots' \in Seq(Windows) /\ Len(snapshots') = n + 1
          /\ \A m \in 1..n : snapshots'[m] = snapshots[m]
          /\ snapshots'[n + 1] = service.window
      BY <1>1, <1>5
    <2>2. \A m \in 1..(n + 1) : m \in 1..n \/ m = n + 1
      BY <1>1
    <2>3. /\ Proper(service.window) /\ Within(service.window)
          /\ \A m \in 1..n : snapshots[m].end < service.window.start
      BY <1>1 DEF StatsInv, WindowIsNext
    <2>4. Listed'
      <3> SUFFICES ASSUME NEW m \in 1..(n + 1)
                   PROVE  Proper(snapshots[m])' /\ Within(snapshots[m])'
        BY <2>1 DEF Listed
      <3>1. CASE m \in 1..n
        <4>1. Proper(snapshots[m]) /\ Within(snapshots[m])
          BY <3>1 DEF StatsInv, Listed
        <4> QED BY <1>1, <2>1, <3>1, <4>1 DEF Proper, Within
      <3>2. CASE m = n + 1
        BY <1>1, <2>1, <2>3, <3>2 DEF Proper, Within
      <3> QED BY <2>2, <3>1, <3>2
    <2>5. Ordered'
      <3> SUFFICES ASSUME NEW m \in 1..(n + 1), NEW k \in 1..(n + 1), m < k
                   PROVE  snapshots'[m].end < snapshots'[k].start
        BY <2>1 DEF Ordered
      <3>1. m \in 1..n
        BY <1>1
      <3>2. CASE k \in 1..n
        BY <2>1, <3>1, <3>2 DEF StatsInv, Ordered
      <3>3. CASE k = n + 1
        BY <2>1, <2>3, <3>1, <3>3
      <3> QED BY <2>2, <3>2, <3>3
    <2> QED BY <1>1, <1>2, <1>3, <2>1, <2>4, <2>5 DEF StatsInv, StatsTypeOK
  <1> QED BY <1>4, <1>5 DEF Insert

LEMMA InvAbandon == StatsInv /\ Abandon => StatsInv'
  <1> SUFFICES ASSUME StatsInv, Abandon PROVE StatsInv'
    OBVIOUS
  <1>1. service'.at = "idle" /\ service' \in [at : {"idle", "collect", "insert"}, window : Windows]
    BY DEF Abandon, StatsInv, StatsTypeOK
  <1> QED BY <1>1 DEF Abandon, StatsInv, StatsTypeOK, Listed, Ordered, WindowIsNext, Within,
                      Proper

LEMMA StatsInvNext == StatsInv /\ [StatsNext]_statsVars => StatsInv'
  <1> SUFFICES ASSUME StatsInv, [StatsNext]_statsVars PROVE StatsInv'
    OBVIOUS
  <1>1. CASE UNCHANGED statsVars
    BY <1>1 DEF statsVars, StatsInv, StatsTypeOK, Listed, Ordered, WindowIsNext, Within,
                Proper
  <1> QED BY <1>1, InvSetClock, InvSee, InvSettle, InvBegin, InvCollect, InvInsert, InvAbandon
          DEF StatsNext

\* The service and its table stay in a state the program knows.
THEOREM StatsTypeCorrect == StatsSpec => []StatsTypeOK
  <1>1. StatsInv => StatsTypeOK
    BY DEF StatsInv
  <1> QED BY <1>1, StatsInvInit, StatsInvNext, PTL DEF StatsSpec

LEMMA CountsOnce == StatsInv => CountedOnce
  <1> SUFFICES ASSUME StatsInv, NEW m \in DOMAIN snapshots, NEW k \in DOMAIN snapshots, m < k
               PROVE  /\ snapshots[m].end < snapshots[k].start
                      /\ snapshots[m].items \cap snapshots[k].items = {}
    BY DEF CountedOnce
  <1>1. DOMAIN snapshots = 1..Len(snapshots) /\ snapshots[m] \in Windows /\ snapshots[k] \in Windows
    BY DEF StatsInv, StatsTypeOK
  <1>2. snapshots[m].end < snapshots[k].start /\ Within(snapshots[m]) /\ Within(snapshots[k])
    BY <1>1 DEF StatsInv, Ordered, Listed
  <1>3. ASSUME NEW i \in snapshots[m].items, i \in snapshots[k].items PROVE FALSE
    <2>1. i \in Items /\ seenAt[i] \in Int
      BY <1>1, <1>3 DEF Windows, StatsInv, StatsTypeOK
    <2>2. seenAt[i] <= snapshots[m].end /\ snapshots[k].start <= seenAt[i]
      BY <1>2, <1>3 DEF Within
    <2> QED BY <1>1, <1>2, <2>1, <2>2 DEF Windows
  <1> QED BY <1>2, <1>3

\* No item is in two snapshots, wherever the clock is set to and whatever
\* fails in between, if what counts once counts for good.
THEOREM StatsCountedOnce == StatsSpec => []CountedOnce
  <1> QED BY CountsOnce, StatsInvInit, StatsInvNext, PTL DEF StatsSpec
=============================================================================
