--------------------------- MODULE SpendConditions ---------------------------
(***************************************************************************)
(* Proofs that are locked to keys (P2PK) or to a hash (HTLC), and the      *)
(* checks of their witness (api/cashu/proofs.go, spend_condition.go,       *)
(* swap.go, melt.go).  A request has one locked proof.  Its witness grows  *)
(* by signatures, in the order they are made, and by the preimage; the     *)
(* request may be given other outputs meanwhile, and time passes.          *)
(*                                                                         *)
(* With SIG_ALL a signature is over the inputs and the outputs (and the    *)
(* quote of a melt), else over the secret of the proof.                    *)
(***************************************************************************)
EXTENDS Naturals, Sequences, FiniteSets

CONSTANTS Keys,
          Coordinate,       \* the x coordinate of a key, all that a signature
                            \* verifies: the keys 02X and 03X share one
          Outputs,          \* what a request may ask for
          MaxSignatures,    \* bound on the witness
          Locktimes,        \* unix times; 0 is none
          Times             \* when a request may arrive

ASSUME SpendAssumption == /\ IsFiniteSet(Keys) /\ MaxSignatures \in Nat
                          /\ Locktimes \subseteq Nat /\ Times \subseteq Nat

VARIABLES lock,      \* the condition in the secret
          witness,   \* [signatures, preimage]: preimage, if it is the right one
          outputs,   \* of the request
          now

spendVars == <<lock, witness, outputs, now>>

\* own: the key in the data of a P2PK secret; pubkeys, refund: lists whose order
\* does not matter.  At most ten keys (CheckValid) is above what is enumerated.
Locks == [kind : {"P2PK", "HTLC"}, sigAll : BOOLEAN, own : SUBSET Keys,
          pubkeys : SUBSET Keys, refund : SUBSET Keys,
          nSigs : 0..MaxSignatures, nSigsRefund : 0..MaxSignatures, locktime : Locktimes]

Signatures == [x : {Coordinate[k] : k \in Keys}, over : {"secret"} \cup Outputs]

SpendTypeOK == /\ lock \in Locks
               /\ witness \in [signatures : Seq(Signatures), preimage : BOOLEAN]
               /\ outputs \in Outputs
               /\ now \in Times

\* The data of a P2PK secret is a key, that of an HTLC is not.
WellFormed(l) == Cardinality(l.own) = (IF l.kind = "P2PK" THEN 1 ELSE 0)

SpendStarts(l, o, t) == /\ lock = l /\ outputs = o /\ now = t
                        /\ witness = [signatures |-> <<>>, preimage |-> FALSE]

SpendInit == \E l \in {l \in Locks : WellFormed(l)}, o \in Outputs, t \in Times :
                 SpendStarts(l, o, t)

-----------------------------------------------------------------------------
(* The wallet.                                                             *)

\* What a signature of the request, as it is now, is over.
Message == IF lock.sigAll THEN outputs ELSE "secret"

SignProof(k) == /\ Len(witness.signatures) < MaxSignatures
                /\ witness' = [witness EXCEPT !.signatures =
                                  Append(@, [x |-> Coordinate[k], over |-> Message])]
                /\ UNCHANGED <<lock, outputs, now>>

AddPreimage == /\ ~witness.preimage
               /\ witness' = [witness EXCEPT !.preimage = TRUE]
               /\ UNCHANGED <<lock, outputs, now>>

ChangeOutputs == /\ outputs' \in Outputs \ {outputs}
                 /\ UNCHANGED <<lock, witness, now>>

Later == /\ now' \in {t \in Times : t > now}
         /\ UNCHANGED <<lock, witness, outputs>>

SpendNext == (\E k \in Keys : SignProof(k)) \/ AddPreimage \/ ChangeOutputs \/ Later

SpendSpec == SpendInit /\ [][SpendNext]_spendVars

-----------------------------------------------------------------------------
(* The mint.                                                               *)

AtLeast(n, m) == IF m > n THEN m ELSE n

\* The keys that a signature verifies with.
Matching(keys, sig, message) == {k \in keys : sig = [x |-> Coordinate[k], over |-> message]}

\* Mutation: the key is left in the map that the loop searches.
Look_KeepsKey(found, sig, message) ==
    [keys  |-> found.keys,
     valid |-> found.valid + Cardinality(Matching(found.keys, sig, message))]

\* One signature is tried with every key in a map of those that have not signed
\* yet; a key that verifies it counts and is deleted from the map.
Look(found, sig, message) ==
    [keys  |-> found.keys \ Matching(found.keys, sig, message),
     valid |-> found.valid + Cardinality(Matching(found.keys, sig, message))]

\* The loop over the signatures.
ValidSignatures(keys, message) ==
    LET n == Len(witness.signatures)
        found[i \in 0..n] ==
            IF i = 0 THEN [keys |-> keys, valid |-> 0]
            ELSE Look(found[i - 1], witness.signatures[i], message)
    IN  found[n].valid

TimelockPassed == lock.locktime # 0 /\ now > lock.locktime

PubkeysForVerification == lock.own \cup lock.pubkeys

\* verifyTimelockPassedSpendCondition
RefundVerified ==
    LET needed == AtLeast(IF lock.refund = {} THEN 0 ELSE 1, lock.nSigsRefund)
    IN  needed = 0 \/ ValidSignatures(lock.refund, "secret") >= needed

VerifyP2PK ==
    \/ TimelockPassed /\ RefundVerified
    \/ ValidSignatures(PubkeysForVerification, "secret") >= AtLeast(1, lock.nSigs)

\* A preimage is enough if there are no keys.
VerifyHTLC ==
    \/ TimelockPassed /\ RefundVerified
    \/ /\ witness.preimage
       /\ \/ lock.pubkeys = {}
          \/ ValidSignatures(PubkeysForVerification, "secret") >= AtLeast(1, lock.nSigs)

VerifyProofCondition == CASE lock.kind = "P2PK" -> VerifyP2PK
                          [] lock.kind = "HTLC" -> VerifyHTLC

\* checkForSigAll: how many signatures a SIG_ALL request needs.
SignaturesRequired == IF lock.nSigs > 1 THEN lock.nSigs
                      ELSE IF PubkeysForVerification = {} THEN 0 ELSE 1

SignaturesRequiredRefund == IF lock.refund = {} THEN 0 ELSE AtLeast(1, lock.nSigsRefund)

CheckSigAllProofValid ==
    \/ TimelockPassed /\ ValidSignatures(lock.refund, outputs) >= SignaturesRequiredRefund
    \/ /\ lock.kind = "HTLC" => witness.preimage
       /\ ValidSignatures(PubkeysForVerification, outputs) >= SignaturesRequired

\* ValidateSigflag if a proof has SIG_ALL, VerifyProofsSpendConditions if not.
Accepted == IF lock.sigAll THEN CheckSigAllProofValid ELSE VerifyProofCondition

-----------------------------------------------------------------------------
(* What a lock means: enough of its keys agree to this very request, and   *)
(* the preimage is known; after its time, enough of the refund keys agree, *)
(* or anybody may take it if it names none.                                *)

Agree(keys) == {k \in keys : \E i \in DOMAIN witness.signatures :
                    witness.signatures[i] = [x |-> Coordinate[k], over |-> Message]}

Enough(keys, n) == Cardinality(Agree(keys)) >= (IF keys = {} THEN 0 ELSE AtLeast(1, n))

MaySpend == \/ /\ lock.kind = "HTLC" => witness.preimage
               /\ Enough(lock.own \cup lock.pubkeys, lock.nSigs)
            \/ /\ lock.locktime # 0 /\ now > lock.locktime
               /\ Enough(lock.refund, lock.nSigsRefund)

\* The lock asks for signatures and names no key that could give them.  After
\* its time, SIG_ALL lets anybody take such a proof and the other checks nobody;
\* with the preimage it is the other way round.
AsksOfNobody == \/ lock.refund = {} /\ lock.nSigsRefund > 0
                \/ lock.kind = "HTLC" /\ lock.pubkeys = {} /\ lock.nSigs > 1

\* A locked proof is accepted only when its lock says so, and always then: a
\* signature that is given twice counts once, one over other outputs does not
\* count under SIG_ALL, and the four checks of the code (P2PK, HTLC, after the
\* time, SIG_ALL) agree on the same lock, unless it asks of nobody.
AcceptedAsLocked == /\ Accepted => MaySpend
                    /\ MaySpend => Accepted \/ AsksOfNobody
=============================================================================
