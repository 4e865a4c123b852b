------------------------------ MODULE Keysets ------------------------------
(***************************************************************************)
(* The local signer (internal/signer/local_signer/signer.go): the table    *)
(* seeds, and two maps in memory that every request reads without a lock.  *)
(* VerifyProofs uses keysets, SignBlindMessages uses activeKeysets.  A     *)
(* rotation reads the seeds of a unit and writes in one transaction, then  *)
(* reads all seeds back and assigns one map after the other.               *)
(*                                                                         *)
(* The id of a seed is derived from its unit, its version (which selects   *)
(* the keys) and its fee; rotations ask for no expiry.                     *)
(***************************************************************************)
EXTENDS Integers

CONSTANTS Units, Sat,
          Fees,
          Asks,         \* what administrators ask for, [unit, fee]
          MaxVersion,   \* bound on the versions of a unit
          Rotations     \* administrators' requests that may run at once

ASSUME KeysetsAssumption ==
    /\ Sat \in Units /\ 0 \in Fees /\ MaxVersion \in Nat
    /\ Asks \subseteq [unit : Units, fee : Fees]

VARIABLES
    seeds, activeSeeds,       \* the table: its ids, those with active = true
    serving,                  \* the process is up
    keysets, activeKeysets,   \* the maps of the signer, by their ids
    job,                      \* what each rotation is doing
    clash,                    \* rotations that ran while another one did
    split,                    \* history: units whose last commit clashed, or did
                              \* not know the unit's seeds
    mixed,                    \* history: a clash may have left the maps apart
    signed                    \* history: keysets that signed something

table      == <<seeds, activeSeeds>>
maps       == <<keysets, activeKeysets>>
keysetVars == <<table, serving, maps, job, clash, split, mixed, signed>>

Ids == [unit : Units, version : 0..MaxVersion, fee : Fees]

Idle == [at |-> "idle"]

Jobs == {Idle} \cup
    [at : {"write", "reread"}, unit : Units, fee : Fees, version : 0..MaxVersion,
     read : SUBSET Ids]
    \cup [at : {"assign", "assign active"}, all : SUBSET Ids, active : SUBSET Ids]

KeysetsTypeOK == /\ seeds \subseteq Ids /\ activeSeeds \subseteq Ids
                 /\ serving \in BOOLEAN
                 /\ keysets \subseteq Ids /\ activeKeysets \subseteq Ids
                 /\ job \in [Rotations -> Jobs]
                 /\ clash \subseteq Rotations
                 /\ split \subseteq Units
                 /\ mixed \in BOOLEAN
                 /\ signed \subseteq Ids

KeysetsInit == /\ seeds = {} /\ activeSeeds = {}
               /\ serving = FALSE
               /\ keysets = {} /\ activeKeysets = {}
               /\ job = [r \in Rotations |-> Idle]
               /\ clash = {} /\ split = {} /\ mixed = FALSE
               /\ signed = {}

OfUnit(S, u) == {k \in S : k.unit = u}
Busy         == {r \in Rotations : job[r] # Idle}

-----------------------------------------------------------------------------
\* SetupLocalSigner: an empty table gets version 0 of the sat unit.
Start == /\ ~serving
         /\ LET first == [unit |-> Sat, version |-> 0, fee |-> 0]
                new   == IF seeds = {} THEN {first} ELSE {}
            IN  /\ seeds' = seeds \cup new
                /\ activeSeeds' = activeSeeds \cup new
                /\ keysets' = seeds \cup new
                /\ activeKeysets' = activeSeeds \cup new
         /\ serving' = TRUE
         /\ mixed' = FALSE
         /\ UNCHANGED <<job, clash, split, signed>>

\* The version after the highest one of S, 0 if there is none.
Follows(v, S) == /\ \A k \in S : k.version < v
                 /\ v = 0 \/ \E k \in S : k.version = v - 1

\* RotateKeyset, its read: GetSeedsByUnit.  An error of it other than
\* ErrNoRows is dropped, and the rotation goes on as if there were no seed.
RotationReads(r, u, f) ==
    /\ serving /\ job[r] = Idle
    /\ \E read \in {OfUnit(seeds, u), {}}, v \in 0..MaxVersion :
          /\ Follows(v, read)
          /\ job' = [job EXCEPT ![r] = [at |-> "write", unit |-> u, fee |-> f,
                                        version |-> v, read |-> read]]
    /\ clash' = IF Busy = {} THEN clash ELSE clash \cup Busy \cup {r}
    /\ mixed' = (mixed \/ Busy # {})
    /\ UNCHANGED <<table, serving, maps, split, signed>>

NewSeed(r) == [unit |-> job[r].unit, version |-> job[r].version, fee |-> job[r].fee]

\* The rotation has overlooked the seeds of its unit.
Unread(r) == job[r].read = {} /\ OfUnit(seeds, job[r].unit) # {}

Ends(r) == /\ job' = [job EXCEPT ![r] = Idle]
           /\ clash' = clash \ {r}

\* Mutation: UpdateSeedsActiveStatus is left out.
SaveSeeds_KeepsOld(r) == /\ NewSeed(r) \notin seeds
                         /\ seeds' = seeds \cup {NewSeed(r)}
                         /\ activeSeeds' = activeSeeds \cup {NewSeed(r)}

\* Mutation: INSERT ... ON CONFLICT (id) DO UPDATE SET active.
SaveSeeds_Upserts(r) ==
    /\ seeds' = seeds \cup {NewSeed(r)}
    /\ activeSeeds' = (activeSeeds \ job[r].read) \cup {NewSeed(r)}

\* SaveNewSeed, with id a primary key, and UpdateSeedsActiveStatus.
SaveSeeds(r) ==
    /\ NewSeed(r) \notin seeds
    /\ seeds' = seeds \cup {NewSeed(r)}
    /\ activeSeeds' = (activeSeeds \ job[r].read) \cup {NewSeed(r)}

RotationWrites(r) ==
    /\ job[r].at = "write"
    /\ SaveSeeds(r)
    /\ job' = [job EXCEPT ![r].at = "reread"]
    /\ split' = IF r \in clash \/ Unread(r) THEN split \cup {job[r].unit}
                ELSE split \ {job[r].unit}
    /\ UNCHANGED <<serving, maps, clash, mixed, signed>>

\* GetAllSeeds after the commit.
RotationRereads(r) ==
    /\ job[r].at = "reread"
    /\ job' = [job EXCEPT ![r] = [at |-> "assign", all |-> seeds, active |-> activeSeeds]]
    /\ UNCHANGED <<table, serving, maps, clash, split, mixed, signed>>

\* A statement or the COMMIT fails and is rolled back, the id is taken, or the
\* seeds cannot be read back: then the table is ahead of the maps.
RotationFails(r) == /\ job[r].at \in {"write", "reread"}
                    /\ Ends(r)
                    /\ UNCHANGED <<table, serving, maps, split, mixed, signed>>

\* Mutation: l.activeKeysets is assigned before l.keysets.
RotationAssigns_ActiveFirst(r) ==
    /\ \/ /\ job[r].at = "assign"
          /\ activeKeysets' = job[r].active
          /\ job' = [job EXCEPT ![r].at = "assign active"]
          /\ UNCHANGED <<keysets, clash, mixed>>
       \/ /\ job[r].at = "assign active"
          /\ keysets' = job[r].all
          /\ mixed' = (mixed /\ r \in clash)
          /\ Ends(r)
          /\ UNCHANGED activeKeysets
    /\ UNCHANGED <<table, serving, split, signed>>

\* l.keysets = keysets, then l.activeKeysets = activeKeysets.
RotationAssigns(r) ==
    /\ \/ /\ job[r].at = "assign"
          /\ keysets' = job[r].all
          /\ job' = [job EXCEPT ![r].at = "assign active"]
          /\ UNCHANGED <<activeKeysets, clash, mixed>>
       \/ /\ job[r].at = "assign active"
          /\ activeKeysets' = job[r].active
          /\ mixed' = (mixed /\ r \in clash)
          /\ Ends(r)
          /\ UNCHANGED keysets
    /\ UNCHANGED <<table, serving, split, signed>>

\* A request is signed under k: only an active keyset signs.
SignBlindMessages(k) == /\ serving /\ k \in activeKeysets
                        /\ signed' = signed \cup {k}
                        /\ UNCHANGED <<table, serving, maps, job, clash, split, mixed>>

SignerCrash == /\ serving
               /\ serving' = FALSE
               /\ keysets' = {} /\ activeKeysets' = {}
               /\ job' = [r \in Rotations |-> Idle]
               /\ clash' = {}
               /\ UNCHANGED <<table, split, mixed, signed>>

KeysetsNext ==
    \/ Start
    \/ \E r \in Rotations :
          \/ \E ask \in Asks : RotationReads(r, ask.unit, ask.fee)
          \/ RotationWrites(r) \/ RotationRereads(r) \/ RotationAssigns(r)
          \/ RotationFails(r)
    \/ \E k \in Ids : SignBlindMessages(k)
    \/ SignerCrash

KeysetsSpec == KeysetsInit /\ [][KeysetsNext]_keysetVars

-----------------------------------------------------------------------------
\* What the mint signed it can verify, also in the middle of a rotation and
\* after a restart; a clash of rotations may break it (the maps of the slower
\* one are older) until a rotation that runs alone, or a restart, heals it.
SignedIsVerifiable == serving /\ ~mixed => signed \subseteq keysets

\* A unit that was ever served always has an active seed, and just one unless
\* its last rotation clashed with another or could not read the seeds.
ActivePerUnit == \A u \in Units : OfUnit(seeds, u) # {} =>
    /\ OfUnit(activeSeeds, u) # {}
    /\ u \notin split => \A j, k \in OfUnit(activeSeeds, u) : j = k

\* A seed that was retired is never active again, however rotations overlap.
NeverRevived == [][(seeds \ activeSeeds) \cap activeSeeds' = {}]_keysetVars
=============================================================================
