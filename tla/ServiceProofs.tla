---------------------------- MODULE ServiceProofs ----------------------------
(***************************************************************************)
(* What serves the requests of wallets, each part for any number of        *)
(* whatever it is about, and at the end all parts beside each other.       *)
(*                                                                         *)
(* AdmitsOnce: the row lock of the look-up protects nothing here (a proof  *)
(* that was never used has no row); what does is that a proof is in one    *)
(* transaction at a time, and in none once it is used (InOnePlace), from   *)
(* the insert to the commit.                                               *)
(*                                                                         *)
(* QuoteMatchesNode: of the attempts at one invoice only the latest can    *)
(* still succeed (OldOnesOver), and a quote that is UNPAID while a call is *)
(* under way was made so by one of the three answers the property names    *)
(* (CallUnderWay).                                                         *)
(*                                                                         *)
(* AcceptedAsLocked: the loop over the signatures counts keys, not         *)
(* signatures (LoopCountsKeys), by induction on the signatures it has      *)
(* looked at; what is left is that the four checks combine the counts as   *)
(* the lock says.                                                          *)
(*                                                                         *)
(* ChangeIsOverpaid and RoundingIsBounded: AmountSplit adds up to what it  *)
(* splits (SplitAddsUp), by induction on the rounds of its loop; what was  *)
(* asked for is covered by the inputs from the quote to the payment        *)
(* (Covered, PaidWithin), and fits into an amount if Fits.                 *)
(***************************************************************************)
EXTENDS Services, AdminProofs, SumProofs

\* What the transaction of a request has inserted.
Holding == \A r \in AuthRequests :
    /\ inserted[r] = IF auth[r].at \in {"verify", "commit"} THEN {auth[r].proof} ELSE {}
    /\ auth[r].at # "new" => auth[r].proof \in AuthProofs
    /\ auth[r].at = "commit" => auth[r].proof \in Valid

InOnePlace == \A r \in AuthRequests :
    /\ inserted[r] \cap used = {}
    /\ \A s \in AuthRequests : s # r => inserted[r] \cap inserted[s] = {}

AuthInv == AuthTypeOK /\ Holding /\ InOnePlace /\ AdmitsOnce

Askers == [at : {"new", "insert", "verify", "commit", "admitted", "refused"},
           proof : AuthProofs \cup {"none"}]

OtherAsks(r) == \A s \in AuthRequests : s # r => auth'[s] = auth[s]

-----------------------------------------------------------------------------
LEMMA TurnsEffect ==
    ASSUME AuthTypeOK, NEW r \in AuthRequests,
           NEW where \in {"new", "insert", "verify", "commit", "admitted", "refused"},
           Turns(r, where)
    PROVE  /\ auth' \in [AuthRequests -> Askers]
           /\ auth'[r].at = where /\ auth'[r].proof = auth[r].proof
           /\ OtherAsks(r)
  <1>1. auth \in [AuthRequests -> Askers]
    BY DEF AuthTypeOK, Askers
  <1>2. auth' = [auth EXCEPT ![r] = [auth[r] EXCEPT !.at = where]]
    BY <1>1 DEF Turns
  <1>3. [auth[r] EXCEPT !.at = where] \in Askers
    BY <1>1 DEF Askers
  <1>4. auth'[r] = [auth[r] EXCEPT !.at = where]
    BY <1>1, <1>2
  <1> QED BY <1>1, <1>2, <1>3, <1>4 DEF Askers, OtherAsks

LEMMA InsertedEffect ==
    ASSUME AuthTypeOK, NEW r \in AuthRequests, NEW S \in SUBSET AuthProofs,
           inserted' = [inserted EXCEPT ![r] = S]
    PROVE  /\ inserted' \in [AuthRequests -> SUBSET AuthProofs] /\ inserted'[r] = S
           /\ \A s \in AuthRequests : s # r => inserted'[s] = inserted[s]
  BY DEF AuthTypeOK

LEMMA AuthInvInit == AuthInit => AuthInv
  BY DEF AuthInit, AuthInv, AuthTypeOK, Holding, InOnePlace, AdmitsOnce

LEMMA InvLookUp ==
    ASSUME AuthInv, NEW r \in AuthRequests, NEW p \in AuthProofs, LookUp(r, p)
    PROVE  AuthInv'
  <1> DEFINE where == IF p \in used THEN "refused" ELSE "insert"
  <1>1. auth' = [auth EXCEPT ![r] = [at |-> where, proof |-> p]]
    BY DEF LookUp
  <1>2. [at |-> where, proof |-> p] \in Askers
    BY DEF Askers
  <1>3. auth \in [AuthRequests -> Askers]
    BY DEF AuthInv, AuthTypeOK, Askers
  <1>4. auth' \in [AuthRequests -> Askers] /\ auth'[r] = [at |-> where, proof |-> p] /\ OtherAsks(r)
    BY <1>1, <1>2, <1>3 DEF OtherAsks
  <1>5. auth'[r].at \in {"refused", "insert"} /\ auth'[r].proof = p
    BY <1>4
  <1>6. UNCHANGED <<used, inserted>> /\ locked' \subseteq AuthProofs /\ auth[r].at = "new"
    BY DEF LookUp, AuthInv, AuthTypeOK
  <1>7. AuthTypeOK'
    BY <1>4, <1>6 DEF AuthInv, AuthTypeOK, Askers
  <1>8. Holding'
    <2> SUFFICES ASSUME NEW s \in AuthRequests
                 PROVE  /\ inserted'[s] = IF auth'[s].at \in {"verify", "commit"}
                                          THEN {auth'[s].proof} ELSE {}
                        /\ auth'[s].at # "new" => auth'[s].proof \in AuthProofs
                        /\ auth'[s].at = "commit" => auth'[s].proof \in Valid
      BY DEF Holding
    <2>1. CASE s = r
      BY <1>5, <1>6, <2>1 DEF AuthInv, Holding
    <2>2. CASE s # r
      <3>1. auth'[s] = auth[s] /\ inserted'[s] = inserted[s]
        BY <1>4, <1>6, <2>2 DEF OtherAsks
      <3> QED BY <3>1 DEF AuthInv, Holding
    <2> QED BY <2>1, <2>2
  <1>9. InOnePlace'
    BY <1>6 DEF AuthInv, InOnePlace
  <1>10. AdmitsOnce'
    BY <1>4, <1>5, <1>6 DEF AuthInv, AdmitsOnce, OtherAsks
  <1> QED BY <1>7, <1>8, <1>9, <1>10 DEF AuthInv

\* A request stays where it is or ends, and its transaction with it.
LEMMA InvRefuses ==
    ASSUME AuthInv, NEW r \in AuthRequests, Refuses(r), auth[r].at # "new",
           used' \in {used, used \cup inserted[r]}, UNCHANGED locked
    PROVE  AuthInv'
  <1>1. auth' \in [AuthRequests -> Askers] /\ auth'[r].at = "refused"
        /\ auth'[r].proof = auth[r].proof /\ OtherAsks(r)
    BY TurnsEffect DEF AuthInv, Refuses
  <1>2. /\ inserted' \in [AuthRequests -> SUBSET AuthProofs] /\ inserted'[r] = {}
        /\ \A s \in AuthRequests : s # r => inserted'[s] = inserted[s]
    BY InsertedEffect DEF AuthInv, Refuses
  <1>3. used \subseteq used' /\ used' \subseteq used \cup inserted[r]
    OBVIOUS
  <1>4. AuthTypeOK'
    BY <1>1, <1>2, <1>3 DEF AuthInv, AuthTypeOK, Askers
  <1>5. Holding'
    BY <1>1, <1>2 DEF AuthInv, Holding, OtherAsks
  <1>6. InOnePlace'
    BY <1>2, <1>3 DEF AuthInv, InOnePlace
  <1>7. AdmitsOnce'
    BY <1>1, <1>3 DEF AuthInv, AdmitsOnce, OtherAsks
  <1> QED BY <1>4, <1>5, <1>6, <1>7 DEF AuthInv

LEMMA InvSave ==
    ASSUME AuthInv, NEW r \in AuthRequests, SaveAuthProof(r)
    PROVE  AuthInv'
  <1>1. auth[r].at = "insert" /\ UNCHANGED <<used, locked>>
    BY DEF SaveAuthProof
  <1>2. CASE Refuses(r)
    BY <1>1, <1>2, InvRefuses
  <1>3. CASE /\ auth[r].proof \notin used
             /\ inserted' = [inserted EXCEPT ![r] = {auth[r].proof}]
             /\ Turns(r, "verify")
    <2>1. /\ auth' \in [AuthRequests -> Askers] /\ auth'[r].at = "verify"
          /\ auth'[r].proof = auth[r].proof /\ OtherAsks(r)
      BY <1>3, TurnsEffect DEF AuthInv
    <2>2. auth[r].proof \in AuthProofs /\ \A s \in AuthRequests : auth[r].proof \notin inserted[s]
      BY <1>1 DEF SaveAuthProof, AuthInv, Holding
    <2>3. /\ inserted' \in [AuthRequests -> SUBSET AuthProofs]
          /\ inserted'[r] = {auth[r].proof}
          /\ \A s \in AuthRequests : s # r => inserted'[s] = inserted[s]
      <3>1. {auth[r].proof} \in SUBSET AuthProofs
        BY <2>2
      <3> QED BY <1>3, <3>1, InsertedEffect DEF AuthInv
    <2>4. AuthTypeOK'
      BY <1>1, <2>1, <2>3 DEF AuthInv, AuthTypeOK, Askers
    <2>5. Holding'
      BY <2>1, <2>2, <2>3 DEF AuthInv, Holding, OtherAsks
    <2>6. InOnePlace'
      BY <1>1, <1>3, <2>2, <2>3 DEF AuthInv, InOnePlace
    <2>7. AdmitsOnce'
      BY <1>1, <2>1 DEF AuthInv, AdmitsOnce, OtherAsks
    <2> QED BY <2>4, <2>5, <2>6, <2>7 DEF AuthInv
  <1> QED BY <1>2, <1>3 DEF SaveAuthProof

LEMMA InvVerify ==
    ASSUME AuthInv, NEW r \in AuthRequests, VerifyAuth(r)
    PROVE  AuthInv'
  <1>1. auth[r].at = "verify" /\ UNCHANGED <<used, locked>>
    BY DEF VerifyAuth
  <1>2. CASE Refuses(r)
    BY <1>1, <1>2, InvRefuses
  <1>3. CASE auth[r].proof \in Valid /\ Turns(r, "commit") /\ UNCHANGED inserted
    <2>1. /\ auth' \in [AuthRequests -> Askers] /\ auth'[r].at = "commit"
          /\ auth'[r].proof = auth[r].proof /\ OtherAsks(r)
      BY <1>3, TurnsEffect DEF AuthInv
    <2>2. AuthTypeOK' /\ InOnePlace'
      BY <1>1, <1>3, <2>1 DEF AuthInv, AuthTypeOK, InOnePlace, Askers
    <2>3. Holding'
      BY <1>1, <1>3, <2>1 DEF AuthInv, Holding, OtherAsks
    <2>4. AdmitsOnce'
      BY <1>1, <2>1 DEF AuthInv, AdmitsOnce, OtherAsks
    <2> QED BY <2>2, <2>3, <2>4 DEF AuthInv
  <1> QED BY <1>2, <1>3 DEF VerifyAuth

LEMMA InvCommit ==
    ASSUME AuthInv, NEW r \in AuthRequests, CommitAuth(r)
    PROVE  AuthInv'
  <1>1. /\ auth' \in [AuthRequests -> Askers] /\ auth'[r].at = "admitted"
        /\ auth'[r].proof = auth[r].proof /\ OtherAsks(r)
    BY TurnsEffect DEF AuthInv, CommitAuth
  <1>2. /\ inserted' \in [AuthRequests -> SUBSET AuthProofs] /\ inserted'[r] = {}
        /\ \A s \in AuthRequests : s # r => inserted'[s] = inserted[s]
    BY InsertedEffect DEF AuthInv, CommitAuth
  <1>3. /\ auth[r].at = "commit" /\ used' = used \cup inserted[r] /\ UNCHANGED locked
        /\ inserted[r] = {auth[r].proof} /\ auth[r].proof \in Valid
        /\ auth[r].proof \notin used
    BY DEF CommitAuth, AuthInv, Holding, InOnePlace
  <1>4. AuthTypeOK'
    BY <1>1, <1>2, <1>3 DEF AuthInv, AuthTypeOK, Askers
  <1>5. Holding'
    <2> SUFFICES ASSUME NEW s \in AuthRequests
                 PROVE  /\ inserted'[s] = IF auth'[s].at \in {"verify", "commit"}
                                          THEN {auth'[s].proof} ELSE {}
                        /\ auth'[s].at # "new" => auth'[s].proof \in AuthProofs
                        /\ auth'[s].at = "commit" => auth'[s].proof \in Valid
      BY DEF Holding
    <2>1. CASE s = r
      BY <1>1, <1>2, <1>3, <2>1 DEF AuthInv, Holding
    <2>2. CASE s # r
      <3>1. auth'[s] = auth[s] /\ inserted'[s] = inserted[s]
        BY <1>1, <1>2, <2>2 DEF OtherAsks
      <3> QED BY <3>1 DEF AuthInv, Holding
    <2> QED BY <2>1, <2>2
  <1>6. InOnePlace'
    BY <1>2, <1>3 DEF AuthInv, InOnePlace
  <1>7. \A s \in AuthRequests : auth[s].at = "admitted" => auth[s].proof # auth[r].proof
    BY <1>3 DEF AuthInv, AdmitsOnce
  <1>8. AdmitsOnce'
    <2>1. \A s \in AuthRequests : auth'[s].at = "admitted" => auth'[s].proof \in Valid \cap used'
      BY <1>1, <1>3 DEF AuthInv, AdmitsOnce, OtherAsks
    <2>2. \A s, t \in AuthRequests :
             /\ auth'[s].at = "admitted" /\ auth'[t].at = "admitted"
             /\ auth'[s].proof = auth'[t].proof
             => t = s
      BY <1>1, <1>7 DEF AuthInv, AdmitsOnce, OtherAsks
    <2> QED BY <2>1, <2>2 DEF AdmitsOnce
  <1> QED BY <1>4, <1>5, <1>6, <1>8 DEF AuthInv

LEMMA AuthInvNext == AuthInv /\ [AuthNext]_authVars => AuthInv'
  <1> SUFFICES ASSUME AuthInv, [AuthNext]_authVars PROVE AuthInv'
    OBVIOUS
  <1>1. ASSUME NEW r \in AuthRequests, AuthFails(r) PROVE AuthInv'
    BY <1>1, InvRefuses DEF AuthFails
  <1>2. CASE UNCHANGED authVars
    BY <1>2 DEF authVars, AuthInv, AuthTypeOK, Holding, InOnePlace, AdmitsOnce
  <1> QED BY <1>1, <1>2, InvLookUp, InvSave, InvVerify, InvCommit DEF AuthNext

\* Every request for admission and every row it touches stays in a state the
\* program knows.
THEOREM AuthTypeCorrect == AuthSpec => []AuthTypeOK
  <1>1. AuthInv => AuthTypeOK
    BY DEF AuthInv
  <1> QED BY <1>1, AuthInvInit, AuthInvNext, PTL DEF AuthSpec

\* VerifyAuthBlindToken admits one request per proof at most, and only for a
\* proof that was signed, however many present it at once and whatever fails.
THEOREM AuthAdmitsOnce == AuthSpec => []AdmitsOnce
  <1>1. AuthInv => AdmitsOnce
    BY DEF AuthInv
  <1> QED BY <1>1, AuthInvInit, AuthInvNext, PTL DEF AuthSpec

-----------------------------------------------------------------------------
(* Backends.                                                               *)

OldOnesOver == \A i \in 1..Len(attempts) : i # Len(attempts) => attempts[i] = "FAILED"

\* Strike's payment quote is executed once.
StrikeOnce == backend = "strike" =>
    /\ Len(attempts) + transit <= 1
    /\ meltState = "UNPAID" /\ checkingId = 0 => Len(attempts) + transit = 0
    /\ meltState = "UNPAID" => transit = 0

CallUnderWay == meltState = "UNPAID" =>
    /\ backend = "lnd" /\ transit > 0 => early /\ Len(attempts) > 0
    /\ backend = "lnbits" /\ transit > 0 => early
    /\ backend = "cln" /\ (transit > 0 \/ request = "asks") => Len(attempts) > 0

BackendsInv == /\ BackendsTypeOK
               /\ Len(attempts) + transit <= MaxCalls
               /\ request = "asks" => backend = "cln" /\ Len(attempts) + transit < MaxCalls
               /\ OldOnesOver /\ StrikeOnce /\ CallUnderWay
               /\ QuoteMatchesNode

-----------------------------------------------------------------------------
LEMMA BackendsInvInit == BackendsInit => BackendsInv
  <1> SUFFICES ASSUME BackendsInit PROVE BackendsInv
    OBVIOUS
  <1>1. /\ backend \in {"lnd", "cln", "lnbits", "strike"} /\ mpp \in BOOLEAN
        /\ attempts = <<>> /\ transit = 0 /\ meltState = "UNPAID" /\ checkingId = 0
        /\ request = "none" /\ early = FALSE
    BY DEF BackendsInit, BackendStarts
  <1>2. Len(attempts) = 0 /\ attempts \in Seq(AttemptStates) /\ DOMAIN attempts = {}
    BY <1>1
  <1>3. BackendsTypeOK
    BY <1>1, <1>2 DEF BackendsTypeOK
  <1>4. OldOnesOver /\ ~MayBePaid
    BY <1>2 DEF OldOnesOver, MayBePaid
  <1> QED BY <1>1, <1>2, <1>3, <1>4, BackendsAssumption
          DEF BackendsInv, StrikeOnce, CallUnderWay, QuoteMatchesNode

\* Only the latest attempt may still be paid.
LEMMA LatestDecides ==
    ASSUME BackendsInv
    PROVE  /\ MayBePaid <=> Len(attempts) > 0 /\ Latest # "FAILED"
           /\ Paid <=> Len(attempts) > 0 /\ Latest = "SUCCEEDED"
           /\ Known <=> Len(attempts) > 0
           /\ Len(attempts) \in Nat /\ DOMAIN attempts = 1..Len(attempts)
           /\ \A i \in 1..Len(attempts) : attempts[i] \in AttemptStates
  <1>1. Len(attempts) \in Nat /\ DOMAIN attempts = 1..Len(attempts)
    BY DEF BackendsInv, BackendsTypeOK
  <1>2. \A i \in 1..Len(attempts) : attempts[i] \in AttemptStates
    BY DEF BackendsInv, BackendsTypeOK
  <1>3. Known <=> Len(attempts) > 0
    BY <1>1 DEF BackendsInv, BackendsTypeOK, Known
  <1>4. MayBePaid <=> Len(attempts) > 0 /\ Latest # "FAILED"
    <2>1. ASSUME MayBePaid PROVE Len(attempts) > 0 /\ Latest # "FAILED"
      <3>1. PICK i \in 1..Len(attempts) : attempts[i] # "FAILED"
        BY <1>1, <2>1 DEF MayBePaid
      <3>2. i = Len(attempts)
        BY <3>1 DEF BackendsInv, OldOnesOver
      <3> QED BY <1>1, <3>1, <3>2 DEF Latest
    <2>2. ASSUME Len(attempts) > 0, Latest # "FAILED" PROVE MayBePaid
      <3>1. Len(attempts) \in DOMAIN attempts
        BY <1>1, <2>2
      <3> QED BY <2>2, <3>1 DEF Latest, MayBePaid
    <2> QED BY <2>1, <2>2
  <1>5. Paid <=> Len(attempts) > 0 /\ Latest = "SUCCEEDED"
    <2>1. ASSUME Paid PROVE Len(attempts) > 0 /\ Latest = "SUCCEEDED"
      <3>1. PICK i \in 1..Len(attempts) : attempts[i] = "SUCCEEDED"
        BY <1>1, <2>1 DEF Paid
      <3>2. i = Len(attempts)
        BY <3>1 DEF BackendsInv, OldOnesOver
      <3> QED BY <1>1, <3>1, <3>2 DEF Latest
    <2>2. ASSUME Len(attempts) > 0, Latest = "SUCCEEDED" PROVE Paid
      <3>1. Len(attempts) \in DOMAIN attempts
        BY <1>1, <2>2
      <3> QED BY <2>2, <3>1 DEF Latest, Paid
    <2> QED BY <2>1, <2>2
  <1> QED BY <1>1, <1>2, <1>3, <1>4, <1>5

\* What an answer says about the attempts.
LEMMA AnswerMeans ==
    ASSUME BackendsInv, NEW answer \in Answers
    PROVE  /\ answer \in {"SETTLED", "FAILED", "PENDING", "error"}
           /\ answer = "SETTLED" => Paid
           /\ answer = "FAILED" =>
                 /\ backend # "cln" => ~MayBePaid
                 /\ backend # "lnbits" => Len(attempts) > 0
                 /\ backend = "cln" /\ MayBePaid => Len(attempts) > 1
                 /\ backend = "strike" => checkingId \in 1..Len(attempts)
  <1>1. answer = "error" \/ answer = CheckPayed
    BY DEF Answers
  <1>2. CASE answer = "error"
    BY <1>2
  <1>3. CASE answer = CheckPayed /\ backend = "lnd"
    BY <1>3, LatestDecides DEF CheckPayed, LndCheckPayed, PaymentState, AttemptStates, Latest
  <1>4. CASE answer = CheckPayed /\ backend = "lnbits"
    BY <1>4, LatestDecides DEF CheckPayed, LnbitsCheckPayed, AttemptStates, Latest
  <1>5. CASE answer = CheckPayed /\ backend = "cln"
    <2>1. CASE ~Known
      BY <1>5, <2>1 DEF CheckPayed, ClnCheckPayed
    <2>2. CASE Known
      <3>1. 1 \in 1..Len(attempts) /\ answer = PaymentState(attempts[1])
        BY <1>5, <2>2, LatestDecides DEF CheckPayed, ClnCheckPayed
      <3>2. attempts[1] = "SUCCEEDED" => Paid
        BY <3>1, LatestDecides DEF Paid
      <3>3. attempts[1] = "FAILED" /\ MayBePaid => Len(attempts) > 1
        BY <3>1, LatestDecides DEF Latest
      <3> QED BY <1>5, <3>1, <3>2, <3>3, LatestDecides DEF PaymentState, AttemptStates
    <2> QED BY <2>1, <2>2
  <1>6. CASE answer = CheckPayed /\ backend = "strike"
    <2>1. CASE checkingId \notin DOMAIN attempts
      BY <1>6, <2>1 DEF CheckPayed, StrikeCheckPayed
    <2>2. CASE checkingId \in DOMAIN attempts
      <3>1. checkingId \in 1..Len(attempts) /\ answer = PaymentState(attempts[checkingId])
        BY <1>6, <2>2, LatestDecides DEF CheckPayed, StrikeCheckPayed
      <3>2. Len(attempts) = 1 /\ checkingId = Len(attempts)
        <4>1. Len(attempts) \in Nat /\ transit \in Nat /\ Len(attempts) + transit <= 1
          BY <1>6 DEF BackendsInv, BackendsTypeOK, StrikeOnce
        <4> QED BY <3>1, <4>1
      <3> QED BY <1>6, <3>1, <3>2, LatestDecides DEF PaymentState, AttemptStates, Latest
    <2> QED BY <2>1, <2>2
  <1> QED BY <1>1, <1>2, <1>3, <1>4, <1>5, <1>6 DEF BackendsInv, BackendsTypeOK

-----------------------------------------------------------------------------
\* A step that leaves the attempts alone.
LEMMA SameAttempts ==
    ASSUME attempts' = attempts
    PROVE  /\ MayBePaid' <=> MayBePaid
           /\ Paid' <=> Paid
           /\ OldOnesOver' <=> OldOnesOver
  BY DEF MayBePaid, Paid, OldOnesOver

LEMMA InvReserve == BackendsInv /\ Reserve => BackendsInv'
  <1> SUFFICES ASSUME BackendsInv, Reserve PROVE BackendsInv'
    OBVIOUS
  <1> USE SameAttempts DEF Reserve
  <1>1. Len(attempts) \in Nat /\ transit \in Nat /\ transit' \in Nat
    BY DEF BackendsInv, BackendsTypeOK
  <1>2. BackendsTypeOK'
    BY <1>1 DEF BackendsInv, BackendsTypeOK
  <1>3. (Len(attempts) + transit <= MaxCalls)'
    BY <1>1, BackendsAssumption DEF BackendsInv, BackendsAssumption
  <1>4. (request = "asks" => backend = "cln" /\ Len(attempts) + transit < MaxCalls)'
    BY <1>1 DEF BackendsInv, BackendsTypeOK
  <1>5. StrikeOnce'
    BY <1>1 DEF BackendsInv, StrikeOnce, QuoteIsNamed
  <1> QED BY <1>2, <1>3, <1>4, <1>5 DEF BackendsInv, CallUnderWay, QuoteMatchesNode

LEMMA InvClnAsksFirst == BackendsInv /\ ClnAsksFirst => BackendsInv'
  <1> SUFFICES ASSUME BackendsInv, ClnAsksFirst PROVE BackendsInv'
    OBVIOUS
  <1> USE SameAttempts
  <1>1. /\ Len(attempts) \in Nat /\ transit \in Nat /\ checkingId \in Nat /\ Nothing \in Nat
        /\ backend = "cln" /\ Len(attempts) + transit < MaxCalls
    BY BackendsAssumption DEF BackendsInv, BackendsTypeOK, ClnAsksFirst, Nothing
  <1>2. /\ transit' \in {transit, transit + 1} /\ checkingId' \in {checkingId, Nothing}
        /\ request' \in {"recheck", "pays"}
        /\ UNCHANGED <<backend, mpp, attempts, meltState, early>>
    BY DEF ClnAsksFirst
  <1>3. BackendsTypeOK'
    BY <1>1, <1>2 DEF BackendsInv, BackendsTypeOK
  <1>4. (Len(attempts) + transit <= MaxCalls)'
    BY <1>1, <1>2, BackendsAssumption DEF BackendsAssumption
  <1>5. StrikeOnce' /\ CallUnderWay'
    BY <1>1, <1>2 DEF BackendsInv, StrikeOnce, CallUnderWay, ClnAsksFirst
  <1> QED BY <1>1, <1>2, <1>3, <1>4, <1>5 DEF BackendsInv, QuoteMatchesNode

\* A call that gets there is a new attempt, or is not needed any more.
LEMMA InvArrives == BackendsInv /\ Arrives => BackendsInv'
  <1> SUFFICES ASSUME BackendsInv, Arrives PROVE BackendsInv'
    OBVIOUS
  <1>1. /\ transit \in Nat /\ transit > 0 /\ transit' = transit - 1
        /\ Len(attempts) \in Nat /\ attempts \in Seq(AttemptStates) /\ MaxCalls \in Nat
        /\ UNCHANGED <<backend, mpp, meltState, checkingId, request, early>>
    BY BackendsAssumption DEF BackendsInv, BackendsTypeOK, Arrives, BackendsAssumption
  <1>2. CASE MayBePaid
    <2>1. attempts' = attempts
      BY <1>2 DEF Arrives, MayBePaid
    <2>2. BackendsTypeOK' /\ (Len(attempts) + transit <= MaxCalls)'
      BY <1>1, <2>1 DEF BackendsInv, BackendsTypeOK
    <2>3. StrikeOnce' /\ CallUnderWay'
      BY <1>1, <2>1 DEF BackendsInv, StrikeOnce, CallUnderWay
    <2> QED BY <1>1, <2>1, <2>2, <2>3, SameAttempts DEF BackendsInv, QuoteMatchesNode
  <1>3. CASE ~MayBePaid
    <2>1. attempts' = Append(attempts, "IN_FLIGHT")
      BY <1>3 DEF Arrives, MayBePaid
    <2>2. /\ Len(attempts') = Len(attempts) + 1 /\ DOMAIN attempts' = 1..Len(attempts')
          /\ \A i \in 1..Len(attempts) : attempts'[i] = attempts[i] /\ attempts[i] = "FAILED"
      <3>1. DOMAIN attempts = 1..Len(attempts)
        BY <1>1
      <3> QED BY <1>1, <1>3, <2>1, <3>1 DEF MayBePaid
    <2>3. BackendsTypeOK'
      <3>1. attempts' \in Seq(AttemptStates)
        BY <1>1, <2>1 DEF AttemptStates
      <3> QED BY <1>1, <3>1 DEF BackendsInv, BackendsTypeOK
    <2>4. (Len(attempts) + transit)' = Len(attempts) + transit
      BY <1>1, <2>2
    <2>5. OldOnesOver'
      BY <1>1, <2>2 DEF OldOnesOver
    <2>6. StrikeOnce' /\ CallUnderWay'
      BY <1>1, <2>2, <2>4 DEF BackendsInv, StrikeOnce, CallUnderWay
    <2>7. QuoteMatchesNode'
      <3>1. ~Paid /\ meltState # "PAID"
        BY <1>3, LatestDecides DEF BackendsInv, QuoteMatchesNode
      <3>2. meltState = "UNPAID" => \/ backend = "lnbits" /\ early
                                    \/ backend = "lnd" /\ early /\ Len(attempts) > 0
                                    \/ backend = "cln" /\ Len(attempts) > 0
        BY <1>1 DEF BackendsInv, BackendsTypeOK, StrikeOnce, CallUnderWay
      <3> QED BY <1>1, <2>2, <3>1, <3>2 DEF QuoteMatchesNode
    <2> QED BY <1>1, <2>3, <2>4, <2>5, <2>6, <2>7 DEF BackendsInv
  <1> QED BY <1>2, <1>3

LEMMA InvRefused == BackendsInv /\ Refused => BackendsInv'
  <1> SUFFICES ASSUME BackendsInv, Refused PROVE BackendsInv'
    OBVIOUS
  <1>1. /\ transit \in Nat /\ transit > 0 /\ transit' = transit - 1
        /\ Len(attempts) \in Nat /\ MaxCalls \in Nat
        /\ UNCHANGED <<backend, mpp, attempts, meltState, checkingId, request, early>>
    BY BackendsAssumption DEF BackendsInv, BackendsTypeOK, Refused, BackendsAssumption
  <1>2. BackendsTypeOK' /\ (Len(attempts) + transit <= MaxCalls)'
    BY <1>1 DEF BackendsInv, BackendsTypeOK
  <1>3. StrikeOnce' /\ CallUnderWay'
    BY <1>1 DEF BackendsInv, StrikeOnce, CallUnderWay
  <1> QED BY <1>1, <1>2, <1>3, SameAttempts DEF BackendsInv, QuoteMatchesNode

LEMMA InvAttemptEnds == BackendsInv /\ AttemptEnds => BackendsInv'
  <1> SUFFICES ASSUME BackendsInv, NEW i \in DOMAIN attempts, NEW end \in {"SUCCEEDED", "FAILED"},
                      attempts[i] = "IN_FLIGHT", attempts' = [attempts EXCEPT ![i] = end],
                      UNCHANGED <<backend, mpp, transit, meltState, checkingId, request, early>>
               PROVE  BackendsInv'
    BY DEF AttemptEnds
  <1>1. /\ attempts' \in Seq(AttemptStates) /\ Len(attempts') = Len(attempts)
        /\ DOMAIN attempts' = DOMAIN attempts /\ DOMAIN attempts = 1..Len(attempts)
        /\ \A k \in DOMAIN attempts : k # i => attempts'[k] = attempts[k]
    BY DEF BackendsInv, BackendsTypeOK, AttemptStates
  <1>2. i = Len(attempts) /\ MayBePaid /\ meltState # "PAID"
    BY <1>1, LatestDecides DEF BackendsInv, OldOnesOver, MayBePaid, QuoteMatchesNode, Latest
  <1>3. BackendsTypeOK' /\ OldOnesOver'
    BY <1>1, <1>2 DEF BackendsInv, BackendsTypeOK, OldOnesOver
  <1>4. StrikeOnce' /\ CallUnderWay'
    BY <1>1 DEF BackendsInv, StrikeOnce, CallUnderWay
  <1>5. QuoteMatchesNode'
    BY <1>1, <1>2 DEF BackendsInv, QuoteMatchesNode
  <1> QED BY <1>1, <1>3, <1>4, <1>5 DEF BackendsInv

-----------------------------------------------------------------------------
LEMMA InvPays == BackendsInv /\ PayReturnsSettled => BackendsInv'
  <1> SUFFICES ASSUME BackendsInv, PayReturnsSettled PROVE BackendsInv'
    OBVIOUS
  <1> USE SameAttempts DEF PayReturnsSettled
  <1>1. Paid
    BY LatestDecides DEF PayInvoice, PaymentState, AttemptStates, Latest
  <1>2. BackendsTypeOK'
    BY DEF BackendsInv, BackendsTypeOK
  <1>3. StrikeOnce' /\ CallUnderWay'
    BY DEF BackendsInv, StrikeOnce, CallUnderWay
  <1> QED BY <1>1, <1>2, <1>3 DEF BackendsInv, QuoteMatchesNode

LEMMA InvPaysNot == BackendsInv /\ (PayReturnsOther \/ LndSpins \/ BackendsCrash) => BackendsInv'
  <1> SUFFICES ASSUME BackendsInv, PayReturnsOther \/ LndSpins \/ BackendsCrash
               PROVE  BackendsInv'
    OBVIOUS
  <1>1. /\ UNCHANGED <<backend, mpp, attempts, transit, meltState, early>>
        /\ request' \in {"recheck", "spins", "none"}
        /\ checkingId' \in {checkingId, Nothing, Len(attempts)}
        /\ checkingId' = 0 => checkingId = 0
    BY LatestDecides, BackendsAssumption DEF PayReturnsOther, LndSpins, BackendsCrash, Nothing, BackendsAssumption
  <1>2. BackendsTypeOK'
    BY <1>1, BackendsAssumption DEF BackendsInv, BackendsTypeOK, Nothing, BackendsAssumption
  <1>3. StrikeOnce' /\ CallUnderWay'
    BY <1>1 DEF BackendsInv, StrikeOnce, CallUnderWay
  <1> QED BY <1>1, <1>2, <1>3, SameAttempts DEF BackendsInv, QuoteMatchesNode

\* What is written after a look-up: only FAILED releases.
LEMMA InvAnswer ==
    ASSUME BackendsInv, NEW answer \in Answers, Asked,
           UNCHANGED <<backend, mpp, attempts, transit, checkingId>>,
           request' \in {request, "none"},
           \/ meltState' = meltState
           \/ meltState' = "PENDING"
           \/ meltState' = "PAID" /\ answer = "SETTLED"
           \/ meltState' = "UNPAID" /\ answer = "FAILED"
    PROVE  BackendsInv'
  <1> USE SameAttempts
  <1>1. /\ transit \in Nat /\ Len(attempts) \in Nat /\ early \in BOOLEAN
        /\ early' = (early \/ (transit > 0) \/ (request = "asks"))
    BY LatestDecides DEF BackendsInv, BackendsTypeOK, Asked
  <1>2. BackendsTypeOK'
    BY <1>1 DEF BackendsInv, BackendsTypeOK
  <1>3. early => early'
    BY <1>1
  <1>4. StrikeOnce'
    BY <1>1, AnswerMeans DEF BackendsInv, BackendsTypeOK, StrikeOnce
  <1>5. CallUnderWay'
    BY <1>1, AnswerMeans DEF BackendsInv, BackendsTypeOK, CallUnderWay
  <1>6. QuoteMatchesNode'
    BY <1>1, AnswerMeans DEF BackendsInv, BackendsTypeOK, QuoteMatchesNode
  <1> QED BY <1>1, <1>2, <1>4, <1>5, <1>6 DEF BackendsInv

LEMMA InvAsks == BackendsInv /\ (RecheckPayment \/ Poll) => BackendsInv'
  <1> SUFFICES ASSUME BackendsInv, RecheckPayment \/ Poll PROVE BackendsInv'
    OBVIOUS
  <1>1. PICK answer \in Answers :
            \/ meltState' = meltState
            \/ meltState' = "PENDING"
            \/ meltState' = "PAID" /\ answer = "SETTLED"
            \/ meltState' = "UNPAID" /\ answer = "FAILED"
    BY AnswerMeans DEF RecheckPayment, Poll
  <1>2. Asked /\ UNCHANGED <<backend, mpp, attempts, transit, checkingId>>
             /\ request' \in {request, "none"}
    BY DEF RecheckPayment, Poll
  <1> QED BY <1>1, <1>2, InvAnswer

LEMMA BackendsInvNext == BackendsInv /\ [BackendsNext]_backendVars => BackendsInv'
  <1>1. BackendsInv /\ UNCHANGED backendVars => BackendsInv'
    BY SameAttempts DEF backendVars, BackendsInv, BackendsTypeOK, OldOnesOver, StrikeOnce,
       CallUnderWay, QuoteMatchesNode, Paid, MayBePaid
  <1> QED BY <1>1, InvReserve, InvClnAsksFirst, InvArrives, InvRefused, InvAttemptEnds, InvPays,
             InvPaysNot, InvAsks DEF BackendsNext

\* The quote, the calls and the attempts stay in states the program knows.
THEOREM BackendsTypeCorrect == BackendsSpec => []BackendsTypeOK
  <1>1. BackendsInv => BackendsTypeOK
    BY DEF BackendsInv
  <1> QED BY <1>1, BackendsInvInit, BackendsInvNext, PTL DEF BackendsSpec

\* A quote is PAID only if the node paid, and its proofs are released under a
\* payment only where its backend cannot tell (QuoteMatchesNode says where).
THEOREM BackendsQuoteMatchesNode == BackendsSpec => []QuoteMatchesNode
  <1>1. BackendsInv => QuoteMatchesNode
    BY DEF BackendsInv
  <1> QED BY <1>1, BackendsInvInit, BackendsInvNext, PTL DEF BackendsSpec

-----------------------------------------------------------------------------
(* Spending conditions.                                                    *)

Signed == witness.signatures

Loop(keys, message, found, n) ==
    found = [i \in 0..n |-> IF i = 0 THEN [keys |-> keys, valid |-> 0]
                            ELSE Look(found[i - 1], Signed[i], message)]

\* The loop runs: there is a function of the number of signatures looked at.
LEMMA LoopRuns ==
    ASSUME NEW keys, NEW message, NEW n \in Nat
    PROVE  \E found : Loop(keys, message, found, n)
  <1> DEFINE K == {k \in Nat : \E found : Loop(keys, message, found, k)}
  <1>1. 0 \in K
    <2> DEFINE g == [i \in 0..0 |-> [keys |-> keys, valid |-> 0]]
    <2>1. g = [i \in 0..0 |-> IF i = 0 THEN [keys |-> keys, valid |-> 0]
                              ELSE Look(g[i - 1], Signed[i], message)]
      OBVIOUS
    <2> HIDE DEF g
    <2>2. Loop(keys, message, g, 0)
      BY <2>1 DEF Loop
    <2> QED BY <2>2
  <1>2. ASSUME NEW k \in Nat, k \in K PROVE k + 1 \in K
    <2>1. PICK g : Loop(keys, message, g, k)
      BY <1>2
    <2> DEFINE h == [i \in 0..(k + 1) |-> IF i \in 0..k THEN g[i] ELSE Look(g[k], Signed[i], message)]
    <2>2. g = [i \in 0..k |-> IF i = 0 THEN [keys |-> keys, valid |-> 0]
                              ELSE Look(g[i - 1], Signed[i], message)]
      BY <2>1 DEF Loop
    <2>3. /\ \A i \in 0..k : h[i] = g[i]
          /\ h[k + 1] = Look(g[k], Signed[k + 1], message)
          /\ h = [i \in 0..(k + 1) |-> h[i]]
      OBVIOUS
    <2> HIDE DEF h
    <2>4. ASSUME NEW i \in 0..(k + 1)
          PROVE  h[i] = IF i = 0 THEN [keys |-> keys, valid |-> 0]
                        ELSE Look(h[i - 1], Signed[i], message)
      <3>1. CASE i = 0
        <4>1. 0 \in 0..k /\ g[0] = [keys |-> keys, valid |-> 0]
          BY <2>2
        <4> QED BY <2>3, <3>1, <4>1
      <3>2. CASE i \in 1..k
        <4>1. i - 1 \in 0..k /\ i \in 0..k /\ i # 0
          BY <3>2
        <4>2. g[i] = Look(g[i - 1], Signed[i], message)
          BY <2>2, <4>1
        <4>3. h[i] = g[i] /\ h[i - 1] = g[i - 1]
          BY <2>3, <4>1
        <4> QED BY <4>1, <4>2, <4>3
      <3>3. CASE i = k + 1
        <4>1. i - 1 = k /\ k \in 0..k /\ i # 0
          BY <3>3
        <4> QED BY <2>3, <3>3, <4>1
      <3> QED BY <3>1, <3>2, <3>3
    <2>5. h = [i \in 0..(k + 1) |-> IF i = 0 THEN [keys |-> keys, valid |-> 0]
                                    ELSE Look(h[i - 1], Signed[i], message)]
      BY <2>3, <2>4
    <2>6. Loop(keys, message, h, k + 1)
      BY <2>5 DEF Loop
    <2> QED BY <2>6
  <1> HIDE DEF K
  <1>3. n \in K
    BY <1>1, <1>2, NatSteps
  <1> QED BY <1>3 DEF K

\* The keys that are found among the first i signatures.
Among(keys, message, i) ==
    {k \in keys : \E j \in 1..i : Signed[j] = [x |-> Coordinate[k], over |-> message]}

LEMMA CountsApart ==
    ASSUME NEW S, IsFiniteSet(S), NEW T, IsFiniteSet(T), S \cap T = {}
    PROVE  Cardinality(S \cup T) = Cardinality(S) + Cardinality(T)
  <1>1. Cardinality(S \cup T) = Cardinality(S) + Cardinality(T) - Cardinality({})
    BY FS_Union
  <1>2. Cardinality(S) \in Nat /\ Cardinality(T) \in Nat /\ Cardinality({}) = 0
    BY FS_CardinalityType, FS_EmptySet
  <1> QED BY <1>1, <1>2

\* What the loop has counted, at each signature, is keys: a key that has signed
\* twice is found once.
LEMMA LoopCountsKeys ==
    ASSUME NEW keys, IsFiniteSet(keys), NEW message, NEW n \in Nat, NEW found,
           Loop(keys, message, found, n)
    PROVE  found[n].valid = Cardinality(Among(keys, message, n))
  <1> DEFINE Seen(i) == Among(keys, message, i)
             K == {k \in Nat : k <= n => found[k] = [keys |-> keys \ Seen(k), valid |-> Cardinality(Seen(k))]}
  <1>1. \A i \in 0..n : found[i] = IF i = 0 THEN [keys |-> keys, valid |-> 0]
                                   ELSE Look(found[i - 1], Signed[i], message)
    BY DEF Loop
  <1>2. 0 \in K
    <2>1. Seen(0) = {} /\ Cardinality({}) = 0 /\ keys \ {} = keys
      BY FS_EmptySet DEF Among
    <2> QED BY <1>1, <2>1
  <1>3. ASSUME NEW k \in Nat, k \in K PROVE k + 1 \in K
    <2> SUFFICES ASSUME k + 1 <= n
                 PROVE  found[k + 1] = [keys |-> keys \ Seen(k + 1), valid |-> Cardinality(Seen(k + 1))]
      OBVIOUS
    <2> DEFINE sig == Signed[k + 1]
    <2>1. found[k] = [keys |-> keys \ Seen(k), valid |-> Cardinality(Seen(k))]
      BY <1>3
    <2>2. found[k + 1] = Look(found[k], sig, message)
      <3>1. k + 1 \in 0..n /\ k + 1 # 0 /\ (k + 1) - 1 = k
        OBVIOUS
      <3> QED BY <1>1, <3>1
    <2> DEFINE new == Matching(keys \ Seen(k), sig, message)
    <2>3. Seen(k + 1) = Seen(k) \cup new /\ Seen(k) \cap new = {}
      <3>1. 1..(k + 1) = 1..k \cup {k + 1}
        OBVIOUS
      <3> QED BY <3>1 DEF Among, Matching
    <2>4. IsFiniteSet(Seen(k)) /\ IsFiniteSet(new)
      BY FS_Subset DEF Among, Matching
    <2>5. Cardinality(Seen(k + 1)) = Cardinality(Seen(k)) + Cardinality(new)
      BY <2>3, <2>4, CountsApart
    <2>6. keys \ Seen(k + 1) = (keys \ Seen(k)) \ new
      BY <2>3
    <2> HIDE DEF Seen
    <2>7. found[k + 1] = [keys |-> (keys \ Seen(k)) \ new,
                          valid |-> Cardinality(Seen(k)) + Cardinality(new)]
      BY <2>1, <2>2 DEF Look
    <2> QED BY <2>5, <2>6, <2>7
  <1> HIDE DEF K
  <1>4. n \in K
    BY <1>2, <1>3, NatSteps
  <1> QED BY <1>4 DEF K

\* The loop over the signatures counts the keys that signed this very request:
\* neither a key that signs twice nor a signature over something else counts.
THEOREM ValidSignaturesCounts ==
    ASSUME SpendTypeOK, NEW keys \in SUBSET Keys
    PROVE  /\ ValidSignatures(keys, Message) = Cardinality(Agree(keys))
           /\ Cardinality(Agree(keys)) \in Nat
           /\ keys = {} => Cardinality(Agree(keys)) = 0
  <1> DEFINE n == Len(Signed)
             f == CHOOSE found : Loop(keys, Message, found, n)
  <1>1. Signed \in Seq(Signatures) /\ n \in Nat /\ DOMAIN Signed = 1..n
    BY DEF SpendTypeOK, Signed
  <1>2. IsFiniteSet(keys)
    BY FS_Subset, SpendAssumption
  <1>3. ValidSignatures(keys, Message) = f[n].valid
    BY DEF ValidSignatures, Loop, Signed
  <1>4. Loop(keys, Message, f, n)
    BY <1>1, LoopRuns
  <1> HIDE DEF f, n
  <1>5. f[n].valid = Cardinality(Among(keys, Message, n))
    BY <1>1, <1>2, <1>4, LoopCountsKeys
  <1>6. Among(keys, Message, n) = Agree(keys)
    BY <1>1 DEF Among, Agree, Signed
  <1>7. IsFiniteSet(Agree(keys)) /\ (keys = {} => Agree(keys) = {})
    BY <1>2, FS_Subset DEF Agree
  <1> QED BY <1>3, <1>5, <1>6, <1>7, FS_CardinalityType, FS_EmptySet

-----------------------------------------------------------------------------
SpendInv == SpendTypeOK /\ WellFormed(lock)

LEMMA SpendInvNext == SpendInv /\ [SpendNext]_spendVars => SpendInv'
  <1> SUFFICES ASSUME SpendInv, [SpendNext]_spendVars PROVE SpendInv'
    OBVIOUS
  <1> USE DEF SpendInv, SpendTypeOK
  <1>1. lock' = lock
    BY DEF SpendNext, SignProof, AddPreimage, ChangeOutputs, Later, spendVars
  <1>2. WellFormed(lock)'
    BY <1>1
  <1>3. ASSUME NEW k \in Keys, SignProof(k) PROVE SpendTypeOK'
    <2>1. [x |-> Coordinate[k], over |-> Message] \in Signatures
      BY DEF Signatures, Message
    <2> DEFINE sig == [x |-> Coordinate[k], over |-> Message]
    <2> HIDE DEF sig
    <2>2. Append(witness.signatures, sig) \in Seq(Signatures)
      BY <2>1 DEF sig
    <2>3. witness' = [witness EXCEPT !.signatures = Append(@, sig)]
      BY <1>3 DEF SignProof, sig
    <2> QED BY <1>1, <1>3, <2>2, <2>3 DEF SignProof
  <1>4. CASE AddPreimage
    BY <1>1, <1>4 DEF AddPreimage
  <1>5. CASE ChangeOutputs
    BY <1>1, <1>5 DEF ChangeOutputs
  <1>6. CASE Later
    BY <1>1, <1>6 DEF Later
  <1>7. CASE UNCHANGED spendVars
    BY <1>7 DEF spendVars
  <1> QED BY <1>2, <1>3, <1>4, <1>5, <1>6, <1>7 DEF SpendNext

LEMMA SpendInvInit == SpendInit => SpendInv
  <1> SUFFICES ASSUME NEW l \in Locks, WellFormed(l), NEW o \in Outputs, NEW t \in Times,
                      SpendStarts(l, o, t)
               PROVE  SpendInv
    BY DEF SpendInit
  <1>1. <<>> \in Seq(Signatures)
    OBVIOUS
  <1> QED BY <1>1 DEF SpendStarts, SpendInv, SpendTypeOK

LEMMA SpendInvariant == SpendSpec => []SpendInv
  BY SpendInvInit, SpendInvNext, PTL DEF SpendSpec

\* The lock, the witness and the request keep their types.
THEOREM SpendTypeCorrect == SpendSpec => []SpendTypeOK
  <1>1. SpendInv => SpendTypeOK
    BY DEF SpendInv
  <1> QED BY <1>1, SpendInvariant, PTL

-----------------------------------------------------------------------------
(* The four checks.  Key is the number of keys of the lock that agree,     *)
(* Refund that of the refund keys.                                         *)

LEMMA RefundAsLocked ==
    ASSUME SpendInv, Message = "secret"
    PROVE  /\ RefundVerified => Enough(lock.refund, lock.nSigsRefund)
           /\ Enough(lock.refund, lock.nSigsRefund) => RefundVerified \/ AsksOfNobody
  <1>1. lock \in Locks /\ lock.refund \in SUBSET Keys /\ lock.nSigsRefund \in Nat
    BY DEF SpendInv, SpendTypeOK, Locks
  <1> DEFINE agree == Cardinality(Agree(lock.refund))
  <1>2. ValidSignatures(lock.refund, "secret") = agree /\ agree \in Nat
    BY <1>1, ValidSignaturesCounts DEF SpendInv
  <1>3. lock.refund = {} /\ ~AsksOfNobody => lock.nSigsRefund = 0
    BY <1>1 DEF AsksOfNobody
  <1> HIDE DEF agree
  <1>4. CASE lock.refund = {}
    <2>1. RefundVerified \/ AsksOfNobody
      BY <1>3, <1>4 DEF RefundVerified, AtLeast
    <2>2. Enough(lock.refund, lock.nSigsRefund)
      BY <1>2, <1>4 DEF Enough, agree
    <2> QED BY <2>1, <2>2
  <1>5. CASE lock.refund # {}
    <2>1. AtLeast(1, lock.nSigsRefund) # 0
      BY <1>1 DEF AtLeast
    <2>2. RefundVerified <=> agree >= AtLeast(1, lock.nSigsRefund)
      BY <1>2, <1>5, <2>1 DEF RefundVerified
    <2>3. Enough(lock.refund, lock.nSigsRefund) <=> agree >= AtLeast(1, lock.nSigsRefund)
      BY <1>5 DEF Enough, agree
    <2> QED BY <2>2, <2>3
  <1> QED BY <1>4, <1>5

LEMMA SigAllAsLocked ==
    ASSUME SpendInv, lock.sigAll
    PROVE  /\ CheckSigAllProofValid => MaySpend
           /\ MaySpend => CheckSigAllProofValid \/ AsksOfNobody
  <1> DEFINE keys == lock.own \cup lock.pubkeys
             agree  == Cardinality(Agree(keys))
             refund == Cardinality(Agree(lock.refund))
  <1>1. /\ lock.refund \in SUBSET Keys /\ keys \in SUBSET Keys
        /\ lock.nSigs \in Nat /\ lock.nSigsRefund \in Nat /\ lock.kind \in {"P2PK", "HTLC"}
    BY DEF SpendInv, SpendTypeOK, Locks
  <1>2. Message = outputs
    BY DEF Message
  <1>3. /\ ValidSignatures(keys, outputs) = agree /\ agree \in Nat
        /\ ValidSignatures(lock.refund, outputs) = refund /\ refund \in Nat
    BY <1>1, <1>2, ValidSignaturesCounts DEF SpendInv
  <1>4. keys = {} /\ ~AsksOfNobody => lock.nSigs <= 1
    <2>1. CASE lock.kind = "HTLC"
      BY <1>1, <2>1 DEF AsksOfNobody
    <2>2. CASE lock.kind = "P2PK"
      <3>1. Cardinality(lock.own) = 1
        BY <2>2 DEF SpendInv, WellFormed
      <3> QED BY <3>1, FS_EmptySet
    <2> QED BY <1>1, <2>1, <2>2
  <1>5. ValidSignatures(lock.refund, outputs) >= SignaturesRequiredRefund
          <=> Enough(lock.refund, lock.nSigsRefund)
    BY <1>3 DEF SignaturesRequiredRefund, Enough
  <1> DEFINE met    == ValidSignatures(PubkeysForVerification, outputs) >= SignaturesRequired
             enough == Enough(lock.own \cup lock.pubkeys, lock.nSigs)
  <1>6. (met => enough) /\ (enough => met \/ AsksOfNobody)
    <2> HIDE DEF agree
    <2>1. /\ SignaturesRequired >= (IF keys = {} THEN 0 ELSE AtLeast(1, lock.nSigs))
          /\ \/ AsksOfNobody
             \/ SignaturesRequired = IF keys = {} THEN 0 ELSE AtLeast(1, lock.nSigs)
          /\ SignaturesRequired \in Nat /\ AtLeast(1, lock.nSigs) \in Nat
      BY <1>1, <1>4 DEF SignaturesRequired, AtLeast, PubkeysForVerification
    <2> QED BY <1>3, <2>1 DEF Enough, PubkeysForVerification, agree
  <1> QED BY <1>5, <1>6 DEF CheckSigAllProofValid, MaySpend, TimelockPassed

LEMMA ProofAsLocked ==
    ASSUME SpendInv, ~lock.sigAll
    PROVE  /\ VerifyProofCondition => MaySpend
           /\ MaySpend => VerifyProofCondition \/ AsksOfNobody
  <1> DEFINE keys == lock.own \cup lock.pubkeys
             agree == Cardinality(Agree(keys))
  <1>1. /\ keys \in SUBSET Keys /\ lock.own \in SUBSET Keys
        /\ lock.nSigs \in Nat /\ lock.kind \in {"P2PK", "HTLC"}
    BY DEF SpendInv, SpendTypeOK, Locks
  <1>2. Message = "secret"
    BY DEF Message
  <1>3. ValidSignatures(keys, "secret") = agree /\ agree \in Nat
    BY <1>1, <1>2, ValidSignaturesCounts DEF SpendInv
  <1>4. /\ RefundVerified => Enough(lock.refund, lock.nSigsRefund)
        /\ Enough(lock.refund, lock.nSigsRefund) => RefundVerified \/ AsksOfNobody
    BY <1>2, RefundAsLocked
  <1>5. IsFiniteSet(lock.own)
    BY <1>1, FS_Subset, SpendAssumption
  <1>6. keys # {} => (Enough(keys, lock.nSigs)
                        <=> ValidSignatures(PubkeysForVerification, "secret") >= AtLeast(1, lock.nSigs))
    BY <1>3 DEF Enough, PubkeysForVerification
  <1>7. CASE lock.kind = "P2PK"
    <2>1. keys # {}
      <3>1. Cardinality(lock.own) = 1
        BY <1>7 DEF SpendInv, WellFormed
      <3> QED BY <3>1, FS_EmptySet
    <2> QED BY <1>4, <1>6, <1>7, <2>1
            DEF VerifyProofCondition, VerifyP2PK, MaySpend, TimelockPassed
  <1>8. CASE lock.kind = "HTLC"
    <2>1. lock.own = {}
      <3>1. Cardinality(lock.own) = 0
        BY <1>8 DEF SpendInv, WellFormed
      <3> QED BY <1>5, <3>1, FS_EmptySet
    <2>2. lock.pubkeys = {} => Enough(keys, lock.nSigs)
      BY <1>3, <2>1 DEF Enough
    <2>3. Enough(keys, lock.nSigs)
            <=> (\/ lock.pubkeys = {}
                 \/ ValidSignatures(PubkeysForVerification, "secret") >= AtLeast(1, lock.nSigs))
      BY <1>6, <2>1, <2>2
    <2> QED BY <1>4, <1>8, <2>3
            DEF VerifyProofCondition, VerifyHTLC, MaySpend, TimelockPassed
  <1> QED BY <1>1, <1>7, <1>8

LEMMA LockDecides == SpendInv => AcceptedAsLocked
  BY SigAllAsLocked, ProofAsLocked DEF AcceptedAsLocked, Accepted, SpendInv, SpendTypeOK, Locks

\* A locked proof is accepted exactly when its lock says so (or, if it asks of
\* nobody, only when), for any keys, any thresholds, any witness and any time.
THEOREM SpendAcceptedAsLocked == SpendSpec => []AcceptedAsLocked
  BY LockDecides, SpendInvariant, PTL

-----------------------------------------------------------------------------
(* The amounts of a melt.                                                  *)

\* What has been split off, and what is left, is the amount.
LoopInv(amount, pos, l) ==
    /\ l = [rest |-> l.rest, power |-> l.power, amounts |-> l.amounts]
    /\ l.rest \in Nat /\ l.power \in Nat /\ l.amounts \in Seq(Nat)
    /\ l.rest <= amount - pos
    /\ Worth(l.amounts) \in Nat
    /\ Worth(l.amounts) + l.rest * l.power = amount

LEMMA WorthOfNone == Worth(<<>>) = 0
  <1>1. DOMAIN <<>> = {}
    OBVIOUS
  <1> QED BY <1>1, SumEmpty DEF Worth

LEMMA WorthAppend ==
    ASSUME NEW s \in Seq(Nat), NEW x \in Nat
    PROVE  Worth(Append(s, x)) = Worth(s) + x
  <1> DEFINE t == Append(s, x)
             n == Len(s)
  <1>1. n \in Nat /\ DOMAIN s = 1..n /\ DOMAIN t = 1..(n + 1)
    OBVIOUS
  <1>2. t[n + 1] = x /\ \A i \in 1..n : t[i] = s[i] /\ s[i] \in Nat
    OBVIOUS
  <1> HIDE DEF t, n
  <1>3. 1..(n + 1) = (1..n) \cup {n + 1} /\ n + 1 \notin 1..n
    BY <1>1
  <1>4. IsFiniteSet(1..n)
    BY <1>1, FS_Interval
  <1>5. \A i \in (1..n) \cup {n + 1} : t[i] \in Int
    BY <1>2
  <1>6. SumOf((1..n) \cup {n + 1}, t) = SumOf(1..n, t) + t[n + 1]
    BY <1>3, <1>4, <1>5, SumPutsIn
  <1>7. \A i \in 1..n : t[i] \in Int /\ t[i] = s[i]
    BY <1>2
  <1>8. SumOf(1..n, t) = SumOf(1..n, s)
    BY <1>4, <1>7, SumSame
  <1> QED BY <1>1, <1>2, <1>3, <1>6, <1>8 DEF Worth, t

LEMMA Halves ==
    ASSUME NEW rest \in Nat, rest # 0
    PROVE  /\ rest \div 2 \in Nat /\ rest \div 2 <= rest - 1
           /\ rest % 2 = 1 => rest = 2 * (rest \div 2) + 1
           /\ rest % 2 # 1 => rest = 2 * (rest \div 2)
  OBVIOUS

LEMMA MovesBit ==
    ASSUME NEW half \in Nat, NEW power \in Nat, NEW bit \in {0, 1}
    PROVE  /\ 2 * power \in Nat /\ bit * power \in Nat
           /\ bit * power + half * (2 * power) = (2 * half + bit) * power
  <1>1. CASE bit = 0
    BY <1>1
  <1>2. CASE bit = 1
    BY <1>2
  <1> QED BY <1>1, <1>2

\* One round moves the lowest bit of the rest to the amounts.
LEMMA ShiftKeeps ==
    ASSUME NEW amount \in Nat, NEW pos \in Nat, pos < amount, NEW l, LoopInv(amount, pos, l)
    PROVE  LoopInv(amount, pos + 1, Shift(l))
  <1> DEFINE rest == l.rest
             power == l.power
             amounts == l.amounts
             worth == Worth(amounts)
             half == rest \div 2
  <1>1. /\ rest \in Nat /\ power \in Nat /\ amounts \in Seq(Nat) /\ worth \in Nat
        /\ rest <= amount - pos /\ worth + rest * power = amount
        /\ l = [rest |-> rest, power |-> power, amounts |-> amounts]
    BY DEF LoopInv
  <1>2. Shift(l) = IF rest = 0 THEN l
                   ELSE [rest    |-> half, power |-> 2 * power,
                         amounts |-> IF rest % 2 = 1 THEN Append(amounts, power) ELSE amounts]
    BY DEF Shift
  <1>3. Worth(amounts) = worth
    OBVIOUS
  <1> HIDE DEF worth, amounts, power, half
  <1>4. rest # 0 => /\ half \in Nat /\ half <= rest - 1
                    /\ rest % 2 = 1 => rest = 2 * half + 1
                    /\ rest % 2 # 1 => rest = 2 * half
    <2> HIDE DEF rest
    <2> QED BY <1>1, Halves DEF half
  <1> HIDE DEF rest
  <1>5. CASE rest = 0
    <2>1. rest <= amount - (pos + 1)
      BY <1>5
    <2>2. Shift(l) = l
      BY <1>2, <1>5
    <2> QED BY <1>1, <2>1, <2>2 DEF LoopInv, rest, power, amounts, worth
  <1>6. CASE rest # 0 /\ rest % 2 = 1
    <2> DEFINE longer == Append(amounts, power)
    <2>1. Shift(l) = [rest |-> half, power |-> 2 * power, amounts |-> longer]
      BY <1>2, <1>6
    <2>2. longer \in Seq(Nat) /\ Worth(longer) = worth + power
      BY <1>1, <1>3, WorthAppend
    <2>3. rest = 2 * half + 1 /\ half \in Nat /\ half <= rest - 1
      BY <1>4, <1>6
    <2> HIDE DEF longer
    <2>4. half <= amount - (pos + 1)
      BY <1>1, <2>3
    <2>5. 2 * power \in Nat /\ 1 * power \in Nat
          /\ 1 * power + half * (2 * power) = (2 * half + 1) * power
      BY <1>1, <2>3, MovesBit
    <2> DEFINE twice == 2 * power
               part == half * twice
               all == rest * power
    <2>6. power + part = all /\ part \in Int /\ all \in Int /\ twice \in Nat
      BY <1>1, <2>3, <2>5
    <2>7. worth + all = amount
      BY <1>1
    <2> HIDE DEF part, all
    <2>8. (worth + power) + part = amount /\ worth + power \in Nat
      BY <1>1, <2>6, <2>7
    <2>9. (worth + power) + half * twice = amount
      BY <2>8 DEF part
    <2> HIDE DEF twice
    <2>10. Shift(l) = [rest |-> half, power |-> twice, amounts |-> longer]
      BY <2>1 DEF twice
    <2> QED BY <2>2, <2>3, <2>4, <2>6, <2>8, <2>9, <2>10 DEF LoopInv
  <1>7. CASE rest # 0 /\ rest % 2 # 1
    <2>1. Shift(l) = [rest |-> half, power |-> 2 * power, amounts |-> amounts]
      BY <1>2, <1>7
    <2>2. rest = 2 * half /\ half \in Nat /\ half <= rest - 1
      BY <1>4, <1>7
    <2>3. half <= amount - (pos + 1)
      BY <1>1, <2>2
    <2>4. 2 * power \in Nat
          /\ 0 * power + half * (2 * power) = (2 * half + 0) * power
      BY <1>1, <2>2, MovesBit
    <2> DEFINE twice == 2 * power
    <2>5. twice \in Nat /\ half * twice = rest * power
      BY <1>1, <2>2, <2>4
    <2>6. worth + half * twice = amount
      BY <1>1, <2>5
    <2> HIDE DEF twice
    <2>7. Shift(l) = [rest |-> half, power |-> twice, amounts |-> amounts]
      BY <2>1 DEF twice
    <2>8. half \in Nat /\ amounts \in Seq(Nat) /\ worth \in Nat /\ Worth(amounts) = worth
      BY <1>1, <1>3, <2>2
    <2> QED BY <2>3, <2>5, <2>6, <2>7, <2>8 DEF LoopInv
  <1> QED BY <1>5, <1>6, <1>7

Splits(amount, loop, n) ==
    loop = [pos \in 0..n |-> IF pos = 0 THEN [rest |-> amount, power |-> 1, amounts |-> <<>>]
                             ELSE Shift(loop[pos - 1])]

LEMMA LoopExists ==
    ASSUME NEW amount, NEW n \in Nat
    PROVE  \E loop : Splits(amount, loop, n)
  <1> DEFINE K == {k \in Nat : \E loop : Splits(amount, loop, k)}
             start == [rest |-> amount, power |-> 1, amounts |-> <<>>]
  <1>1. 0 \in K
    <2> DEFINE g == [i \in 0..0 |-> start]
    <2>1. g = [i \in 0..0 |-> IF i = 0 THEN start ELSE Shift(g[i - 1])]
      OBVIOUS
    <2> HIDE DEF g
    <2>2. Splits(amount, g, 0)
      BY <2>1 DEF Splits
    <2> QED BY <2>2
  <1>2. ASSUME NEW k \in Nat, k \in K PROVE k + 1 \in K
    <2>1. PICK g : Splits(amount, g, k)
      BY <1>2
    <2> DEFINE h == [i \in 0..(k + 1) |-> IF i \in 0..k THEN g[i] ELSE Shift(g[k])]
    <2>2. g = [i \in 0..k |-> IF i = 0 THEN start ELSE Shift(g[i - 1])]
      BY <2>1 DEF Splits
    <2>3. /\ \A i \in 0..k : h[i] = g[i]
          /\ h[k + 1] = Shift(g[k])
          /\ h = [i \in 0..(k + 1) |-> h[i]]
      OBVIOUS
    <2> HIDE DEF h, start
    <2>4. ASSUME NEW i \in 0..(k + 1)
          PROVE  h[i] = IF i = 0 THEN start ELSE Shift(h[i - 1])
      <3>1. CASE i = 0
        <4>1. 0 \in 0..k /\ g[0] = start
          BY <2>2
        <4> QED BY <2>3, <3>1, <4>1
      <3>2. CASE i \in 1..k
        <4>1. i - 1 \in 0..k /\ i \in 0..k /\ i # 0
          BY <3>2
        <4>2. g[i] = Shift(g[i - 1])
          BY <2>2, <4>1
        <4>3. h[i] = g[i] /\ h[i - 1] = g[i - 1]
          BY <2>3, <4>1
        <4> QED BY <4>1, <4>2, <4>3
      <3>3. CASE i = k + 1
        <4>1. i - 1 = k /\ k \in 0..k /\ i # 0
          BY <3>3
        <4> QED BY <2>3, <3>3, <4>1
      <3> QED BY <3>1, <3>2, <3>3
    <2>5. h = [i \in 0..(k + 1) |-> IF i = 0 THEN start ELSE Shift(h[i - 1])]
      BY <2>3, <2>4
    <2>6. Splits(amount, h, k + 1)
      BY <2>5 DEF Splits, start
    <2> QED BY <2>6
  <1> HIDE DEF K
  <1>3. n \in K
    BY <1>1, <1>2, NatSteps
  <1> QED BY <1>3 DEF K

Ascending(s) == /\ \A i \in DOMAIN s : s[i] > 0
                /\ \A i, j \in DOMAIN s : i < j => s[i] < s[j]

\* The bits have been looked at in order.
InOrder(l) == /\ l.power > 0 /\ Ascending(l.amounts)
               /\ \A i \in DOMAIN l.amounts : l.amounts[i] < l.power

LEMMA AppendAscends ==
    ASSUME NEW s \in Seq(Nat), NEW p \in Nat, p > 0, Ascending(s), \A i \in DOMAIN s : s[i] < p
    PROVE  /\ Ascending(Append(s, p))
           /\ \A i \in DOMAIN Append(s, p) : Append(s, p)[i] < 2 * p
  <1> DEFINE t == Append(s, p)
             n == Len(s)
  <1>1. n \in Nat /\ DOMAIN s = 1..n /\ DOMAIN t = 1..(n + 1)
    OBVIOUS
  <1>2. t[n + 1] = p /\ \A i \in 1..n : t[i] = s[i] /\ s[i] \in Nat
    OBVIOUS
  <1> HIDE DEF t, n
  <1>3. ASSUME NEW i \in 1..(n + 1) PROVE t[i] \in Nat /\ t[i] > 0 /\ t[i] < 2 * p
    <2>1. CASE i = n + 1
      BY <1>2, <2>1
    <2>2. CASE i \in 1..n
      <3>1. t[i] = s[i] /\ s[i] \in Nat /\ s[i] > 0 /\ s[i] < p
        BY <1>1, <1>2, <2>2 DEF Ascending
      <3> QED BY <3>1
    <2> QED BY <1>1, <2>1, <2>2
  <1>4. ASSUME NEW i \in 1..(n + 1), NEW j \in 1..(n + 1), i < j PROVE t[i] < t[j]
    <2>1. CASE j = n + 1
      BY <1>1, <1>2, <1>4, <2>1
    <2>2. CASE j # n + 1
      <3>1. i \in 1..n /\ j \in 1..n
        BY <1>1, <1>4, <2>2
      <3> QED BY <1>1, <1>2, <1>4, <3>1 DEF Ascending
    <2> QED BY <2>1, <2>2
  <1> QED BY <1>1, <1>3, <1>4 DEF Ascending, t

LEMMA ShiftAscends ==
    ASSUME NEW l, l.power \in Nat, l.amounts \in Seq(Nat), InOrder(l)
    PROVE  InOrder(Shift(l))
  <1> DEFINE power == l.power
             amounts == l.amounts
             longer == Append(amounts, power)
             half == l.rest \div 2
             twice == 2 * power
  <1>1. /\ power \in Nat /\ power > 0 /\ amounts \in Seq(Nat) /\ Ascending(amounts)
        /\ \A i \in DOMAIN amounts : amounts[i] < power
    BY DEF InOrder
  <1>2. \/ Shift(l) = l
        \/ Shift(l) = [rest |-> half, power |-> twice, amounts |-> longer]
        \/ Shift(l) = [rest |-> half, power |-> twice, amounts |-> amounts]
    BY DEF Shift
  <1> HIDE DEF power, amounts, half, longer
  <1>3. Ascending(longer) /\ \A i \in DOMAIN longer : longer[i] < twice
    BY <1>1, AppendAscends DEF longer
  <1>4. twice > 0 /\ \A i \in DOMAIN amounts : amounts[i] < twice
    <2>1. \A i \in DOMAIN amounts : amounts[i] \in Nat
      BY <1>1
    <2> QED BY <1>1, <2>1
  <1> HIDE DEF twice
  <1> QED BY <1>1, <1>2, <1>3, <1>4 DEF InOrder

\* The amounts that an amount is split into add up to it and ascend, so that of
\* change with too few blank outputs the largest amounts are lost.
THEOREM SplitAddsUp ==
    ASSUME NEW amount \in Nat
    PROVE  /\ AmountSplit(amount) \in Seq(Nat) /\ Worth(AmountSplit(amount)) = amount
           /\ Ascending(AmountSplit(amount))
  <1> DEFINE f == CHOOSE loop : Splits(amount, loop, amount)
             K == {k \in Nat : k <= amount => LoopInv(amount, k, f[k]) /\ InOrder(f[k])}
  <1>1. AmountSplit(amount) = f[amount].amounts
    BY DEF AmountSplit, Splits
  <1>2. Splits(amount, f, amount)
    BY LoopExists
  <1> HIDE DEF f
  <1>3. \A k \in 0..amount : f[k] = IF k = 0 THEN [rest |-> amount, power |-> 1, amounts |-> <<>>]
                                    ELSE Shift(f[k - 1])
    BY <1>2 DEF Splits
  <1>4. 0 \in K
    <2>1. f[0] = [rest |-> amount, power |-> 1, amounts |-> <<>>]
      BY <1>3
    <2>2. <<>> \in Seq(Nat) /\ amount * 1 = amount /\ 0 + amount = amount /\ amount <= amount - 0
      OBVIOUS
    <2> DEFINE none == <<>>
               l == [rest |-> amount, power |-> 1, amounts |-> none]
    <2>3. /\ l.rest = amount /\ l.power = 1 /\ l.amounts = none
          /\ l = [rest |-> l.rest, power |-> l.power, amounts |-> l.amounts]
      OBVIOUS
    <2>4. none \in Seq(Nat) /\ Worth(none) = 0
      BY <2>2, WorthOfNone
    <2>5. f[0] = l
      BY <2>1
    <2> HIDE DEF none, l
    <2>6. Worth(l.amounts) = 0 /\ l.rest * l.power = amount
      BY <2>2, <2>3, <2>4
    <2>7. LoopInv(amount, 0, l)
      BY <2>2, <2>3, <2>4, <2>6 DEF LoopInv
    <2>8. InOrder(l)
      <3>1. DOMAIN none = {}
        BY DEF none
      <3> QED BY <2>3, <3>1 DEF InOrder, Ascending
    <2> QED BY <2>5, <2>7, <2>8
  <1>5. ASSUME NEW k \in Nat, k \in K PROVE k + 1 \in K
    <2> SUFFICES ASSUME k + 1 <= amount PROVE LoopInv(amount, k + 1, f[k + 1]) /\ InOrder(f[k + 1])
      OBVIOUS
    <2>1. k < amount /\ LoopInv(amount, k, f[k]) /\ InOrder(f[k])
      BY <1>5
    <2>2. f[k + 1] = Shift(f[k])
      <3>1. k + 1 \in 0..amount /\ k + 1 # 0 /\ (k + 1) - 1 = k
        OBVIOUS
      <3> QED BY <1>3, <3>1
    <2>3. f[k].power \in Nat /\ f[k].amounts \in Seq(Nat)
      BY <2>1 DEF LoopInv
    <2> QED BY <2>1, <2>2, <2>3, ShiftKeeps, ShiftAscends
  <1> HIDE DEF K
  <1>6. amount \in K
    BY <1>4, <1>5, NatSteps
  <1>7. LoopInv(amount, amount, f[amount]) /\ InOrder(f[amount])
    BY <1>6 DEF K
  <1> DEFINE l == f[amount]
  <1>8. l.rest = 0 /\ l.power \in Nat /\ l.amounts \in Seq(Nat) /\ Worth(l.amounts) \in Nat
        /\ Worth(l.amounts) + l.rest * l.power = amount
    BY <1>7 DEF LoopInv
  <1>9. Worth(l.amounts) = amount
    <2> DEFINE w == Worth(l.amounts)
               p == l.power
    <2>1. w \in Nat /\ p \in Nat /\ w + 0 * p = amount
      BY <1>8
    <2> HIDE DEF w, p
    <2>2. w = amount
      BY <2>1
    <2> QED BY <2>2 DEF w
  <1> QED BY <1>1, <1>7, <1>8, <1>9 DEF InOrder

LEMMA WorthOfFirst ==
    ASSUME NEW s \in Seq(Nat), NEW k \in 0..Len(s)
    PROVE  /\ SubSeq(s, 1, k) \in Seq(Nat) /\ Len(SubSeq(s, 1, k)) = k
           /\ Worth(SubSeq(s, 1, k)) \in Nat /\ Worth(s) \in Nat
           /\ Worth(SubSeq(s, 1, k)) <= Worth(s)
           /\ k = Len(s) => Worth(SubSeq(s, 1, k)) = Worth(s)
  <1> DEFINE t == SubSeq(s, 1, k)
             n == Len(s)
  <1>1. /\ n \in Nat /\ k \in Nat /\ k <= n
        /\ DOMAIN s = 1..n /\ DOMAIN t = 1..k /\ t \in Seq(Nat) /\ Len(t) = k
    OBVIOUS
  <1>2. \A i \in 1..k : t[i] = s[i]
    OBVIOUS
  <1>3. \A i \in 1..n : s[i] \in Nat
    OBVIOUS
  <1> HIDE DEF t, n
  <1>4. IsFiniteSet(1..n) /\ IsFiniteSet(1..k) /\ 1..k \in SUBSET (1..n)
    BY <1>1, FS_Interval
  <1>5. SumOf(1..k, s) <= SumOf(1..n, s)
    BY <1>3, <1>4, SumOfPart
  <1>6. \A i \in 1..k : t[i] \in Int /\ t[i] = s[i]
    BY <1>1, <1>2, <1>3
  <1>7. SumOf(1..k, t) = SumOf(1..k, s)
    BY <1>4, <1>6, SumSame
  <1>8. SumOf(1..n, s) \in Nat
    BY <1>3, <1>4, SumNat
  <1>9. \A i \in 1..k : s[i] \in Nat
    BY <1>3, <1>4
  <1>10. SumOf(1..k, s) \in Nat
    BY <1>9, <1>4, SumNat
  <1>11. Worth(t) = SumOf(1..k, s) /\ Worth(s) = SumOf(1..n, s)
    BY <1>1, <1>7 DEF Worth
  <1>12. Worth(t) \in Nat /\ Worth(s) \in Nat /\ Worth(t) <= Worth(s) /\ (k = n => Worth(t) = Worth(s))
    BY <1>5, <1>8, <1>10, <1>11
  <1> QED BY <1>1, <1>12 DEF t, n

\* The change is what was overpaid, unless there are too few blank outputs.
LEMMA ChangeWorth ==
    ASSUME NEW overpaid \in Nat, NEW blanks \in Nat
    PROVE  LET paidBack == GetMessagesForChange(overpaid, blanks) IN
           /\ paidBack \in Seq(Nat) /\ Worth(paidBack) \in Nat
           /\ Worth(paidBack) <= overpaid
           /\ Worth(paidBack) = overpaid \/ Len(paidBack) = blanks
  <1> DEFINE s == AmountSplit(overpaid)
             n == Len(s)
             k == IF n > blanks THEN blanks ELSE n
             t == SubSeq(s, 1, k)
  <1>1. GetMessagesForChange(overpaid, blanks) = t
    BY DEF GetMessagesForChange
  <1>2. s \in Seq(Nat) /\ Worth(s) = overpaid
    BY SplitAddsUp
  <1> HIDE DEF s
  <1>3. n \in Nat
    BY <1>2
  <1>4. k \in 0..n /\ (k = n \/ k = blanks)
    <2> HIDE DEF n
    <2> QED BY <1>3
  <1> HIDE DEF k
  <1>5. /\ t \in Seq(Nat) /\ Len(t) = k
        /\ Worth(t) \in Nat /\ Worth(s) \in Nat /\ Worth(t) <= Worth(s)
        /\ k = n => Worth(t) = Worth(s)
    BY <1>2, <1>4, WorthOfFirst
  <1> QED BY <1>1, <1>2, <1>4, <1>5

-----------------------------------------------------------------------------
\* No sum of a melt reaches the width of an amount.
Fits == \A i \in Invoices, r \in RouteFees, f \in InputFees, s \in Surplus :
            i + (i + r + PerSat) + f + s < Word

LEMMA DivBounds ==
    ASSUME NEW x \in Nat, NEW p \in Nat \ {0}
    PROVE  x \div p \in Nat /\ (x \div p) * p <= x /\ x < (x \div p) * p + p /\ x \div p <= x
  OBVIOUS

LEMMA WrappedSmall ==
    ASSUME NEW n \in Nat, n < Word PROVE Wrapped(n) = n
  BY ChangeAssumption DEF Wrapped

LEMMA WrappedNat ==
    ASSUME NEW n \in Nat PROVE Wrapped(n) \in Nat
  BY ChangeAssumption DEF Wrapped

LEMMA ToNat ==
    ASSUME NEW unit, NEW msat \in Nat
    PROVE  To(unit, msat) \in Nat /\ To(unit, msat) <= msat
  <1> PerSat \in Nat \ {0}
    BY ChangeAssumption
  <1> QED BY DivBounds DEF To

LEMMA ReserveBounds ==
    ASSUME NEW unit \in {"sat", "msat"}, NEW invoice \in Nat, NEW route \in Nat
    PROVE  LET reserve == GetFeeReserve(To(unit, invoice), To(unit, route)) IN
           /\ reserve \in Nat
           /\ (IF unit = "sat" THEN (reserve + 1) * PerSat ELSE reserve + 1)
                  <= invoice + route + PerSat
  <1> DEFINE amount == To(unit, invoice)
             queried == To(unit, route)
             least == amount \div FeeShare
             reserve == GetFeeReserve(amount, queried)
             p == PerSat
  <1>1. p \in Nat \ {0} /\ FeeShare \in Nat \ {0}
    BY ChangeAssumption
  <1>2. amount \in Nat /\ queried \in Nat /\ amount <= invoice /\ queried <= route
    BY ToNat
  <1>3. unit = "sat" => amount * p <= invoice /\ queried * p <= route
    <2> HIDE DEF p
    <2> SUFFICES ASSUME unit = "sat" PROVE amount * p <= invoice /\ queried * p <= route
      OBVIOUS
    <2>1. amount = invoice \div p /\ queried = route \div p
      BY DEF To, p
    <2> QED BY <1>1, <2>1, DivBounds
  <1> HIDE DEF amount, queried, p
  <1>4. least \in Nat /\ least <= amount
    BY <1>1, <1>2, DivBounds
  <1>5. reserve = IF least > queried THEN least ELSE queried
    BY DEF GetFeeReserve
  <1> HIDE DEF least, reserve
  <1>6. reserve \in Nat /\ reserve <= amount + queried
    BY <1>2, <1>4, <1>5
  <1>7. unit = "sat" => (reserve + 1) * p <= (amount + queried + 1) * p
    BY <1>1, <1>2, <1>6
  <1>8. (amount + queried + 1) * p = amount * p + queried * p + p
    BY <1>1, <1>2
  <1>9. amount * p \in Nat /\ queried * p \in Nat /\ (reserve + 1) * p \in Nat
    BY <1>1, <1>2, <1>6
  <1>10. unit = "sat" => (reserve + 1) * p <= invoice + route + p
    <2> DEFINE a == amount * p
               q == queried * p
               r == (reserve + 1) * p
    <2>1. a \in Nat /\ q \in Nat /\ r \in Nat
          /\ (unit = "sat" => r <= a + q + p) /\ (unit = "sat" => a <= invoice /\ q <= route)
      BY <1>3, <1>7, <1>8, <1>9
    <2> HIDE DEF a, q, r
    <2>2. unit = "sat" => r <= invoice + route + p
      BY <1>1, <2>1
    <2> QED BY <2>2 DEF r
  <1>11. reserve + 1 <= invoice + route + p
    BY <1>1, <1>2, <1>6
  <1> QED BY <1>6, <1>10, <1>11 DEF amount, queried, reserve, p

-----------------------------------------------------------------------------
MeltType == /\ melt \in [unit : {"sat", "msat"}, invoice : Invoices, amount : Nat, reserve : Nat,
                         inputs : Nat, fee : Nat, blanks : 0..MaxBlanks]
            /\ payer \in {"node", "lnbits", "internal"}
            /\ stage \in {"new", "quoted", "pending", "paid", "settled", "settled later"}
            /\ payer = "lnbits" => melt.unit = "sat"

\* What has been asked for is covered by the inputs, and fits.
Covered ==
    /\ stage # "new" => /\ melt.amount = To(melt.unit, melt.invoice)
                        /\ \A f \in InputFees, s \in Surplus :
                              /\ melt.amount + melt.reserve + f + s < Word
                              /\ melt.amount + FeeLimit + f < Word
    /\ stage \notin {"new", "quoted"} => /\ melt.inputs >= melt.amount + melt.reserve + melt.fee
                                         /\ melt.inputs < Word
                                         /\ melt.amount + FeeLimit + melt.fee < Word

PaidWithin ==
        /\ stage \in {"new", "quoted", "pending"} => routed = 0 /\ reported = 0
        /\ routed \in 0..FeeLimit
        /\ reported = IF payer = "lnbits" THEN routed ELSE To(melt.unit, routed)

ChangeInv == MeltType /\ Covered /\ PaidWithin /\ change \in Seq(Nat) /\ Worth(change) \in Nat
             /\ ChangeIsOverpaid

LEMMA Cancel ==
    ASSUME NEW a \in Nat, NEW b \in Nat, NEW p \in Nat \ {0}, a * p <= b * p
    PROVE  a <= b
  <1> SUFFICES ASSUME a >= b + 1 PROVE FALSE
    OBVIOUS
  <1>1. a * p >= (b + 1) * p
    OBVIOUS
  <1>2. (b + 1) * p = b * p + p /\ b * p \in Nat /\ a * p \in Nat
    OBVIOUS
  <1> QED BY <1>1, <1>2

LEMMA LimitBounds ==
    ASSUME NEW unit \in {"sat", "msat"}, NEW reserve \in Nat, NEW limit,
           limit = IF unit = "sat" THEN reserve * PerSat ELSE reserve
    PROVE  /\ limit \in Nat /\ reserve <= limit
           /\ \A r \in 0..limit : /\ r \in Nat /\ To(unit, r) \in Nat
                                  /\ To(unit, r) <= reserve
                                  /\ To(unit, r) <= r
  <1> DEFINE p == PerSat
  <1>1. p \in Nat \ {0}
    BY ChangeAssumption
  <1>2. limit = IF unit = "sat" THEN reserve * p ELSE reserve
    OBVIOUS
  <1>3. limit \in Nat /\ reserve <= limit
    <2> HIDE DEF p
    <2>1. reserve * p \in Nat /\ reserve <= reserve * p
      BY <1>1
    <2> QED BY <1>1, <1>2, <2>1
  <1>4. ASSUME NEW r \in 0..limit
        PROVE  r \in Nat /\ To(unit, r) \in Nat /\ To(unit, r) <= reserve /\ To(unit, r) <= r
    <2>1. r \in Nat /\ r <= limit
      BY <1>3
    <2>2. To(unit, r) \in Nat /\ To(unit, r) <= r
      BY <2>1, ToNat
    <2>3. CASE unit = "sat"
      <3> DEFINE q == r \div p
      <3>1. To(unit, r) = q
        BY <2>3 DEF To
      <3>2. q \in Nat /\ q * p <= r
        BY <1>1, <2>1, DivBounds
      <3>3. r <= reserve * p /\ reserve * p \in Nat
        BY <1>1, <1>2, <2>1, <2>3
      <3> HIDE DEF q
      <3>4. q * p <= reserve * p
        <4> DEFINE x == q * p
                   y == reserve * p
        <4>1. x <= r /\ r <= y /\ x \in Int /\ y \in Int
          BY <1>1, <3>2, <3>3
        <4> HIDE DEF x, y
        <4>2. x <= y
          BY <2>1, <4>1
        <4> QED BY <4>2 DEF x, y
      <3>5. q <= reserve
        BY <1>1, <3>2, <3>4, Cancel
      <3> QED BY <2>1, <2>2, <3>1, <3>5
    <2>4. CASE unit = "msat"
      BY <1>2, <2>1, <2>2, <2>4 DEF To
    <2> QED BY <1>1, <2>3, <2>4
  <1> QED BY <1>3, <1>4

LEMMA LimitNow ==
    ASSUME MeltType
    PROVE  /\ FeeLimit \in Nat /\ melt.reserve <= FeeLimit
           /\ \A r \in 0..FeeLimit : /\ r \in Nat /\ To(melt.unit, r) \in Nat
                                     /\ To(melt.unit, r) <= melt.reserve
                                     /\ To(melt.unit, r) <= r
  <1>1. melt.unit \in {"sat", "msat"} /\ melt.reserve \in Nat
    BY DEF MeltType
  <1>2. FeeLimit = IF melt.unit = "sat" THEN melt.reserve * PerSat ELSE melt.reserve
    BY DEF FeeLimit
  <1> QED BY <1>1, <1>2, LimitBounds

LEMMA ZeroTo == \A unit : To(unit, 0) = 0
  <1>1. PerSat \in Nat \ {0}
    BY ChangeAssumption
  <1> DEFINE p == PerSat
  <1>2. 0 \div p = 0
    <2>1. p \in Nat \ {0}
      BY <1>1
    <2> HIDE DEF p
    <2> QED BY <2>1
  <1> QED BY <1>2 DEF To

LEMMA ChangeInitInv == ASSUME ChangeInit PROVE ChangeInv
  <1> PICK unit \in {"sat", "msat"}, invoice \in Invoices, who \in {"node", "lnbits", "internal"} :
         (who = "lnbits" => unit = "sat") /\ ChangeStarts(unit, invoice, who)
    BY DEF ChangeInit
  <1>1. /\ melt = [unit |-> unit, invoice |-> invoice, amount |-> 0, reserve |-> 0,
                   inputs |-> 0, fee |-> 0, blanks |-> 0]
        /\ payer = who /\ stage = "new" /\ routed = 0 /\ reported = 0 /\ change = <<>>
    BY DEF ChangeStarts
  <1>2. 0 \in 0..MaxBlanks
    BY ChangeAssumption
  <1>3. MeltType
    BY <1>1, <1>2 DEF MeltType
  <1>4. FeeLimit \in Nat /\ To(melt.unit, routed) = 0
    BY <1>1, <1>3, LimitNow, ZeroTo
  <1>5. PaidWithin
    BY <1>1, <1>4 DEF PaidWithin
  <1>6. change \in Seq(Nat) /\ Worth(change) \in Nat
    BY <1>1, WorthOfNone
  <1>7. Covered /\ ChangeIsOverpaid
    BY <1>1 DEF Covered, ChangeIsOverpaid, Settled
  <1> QED BY <1>3, <1>5, <1>6, <1>7 DEF ChangeInv

LEMMA QuoteKeeps == ASSUME Fits, ChangeInv, CreateMeltQuote PROVE ChangeInv'
  <1> PICK queried \in RouteFees :
         LET amount == To(melt.unit, melt.invoice)
             queryFee == IF payer = "internal" THEN 0
                         ELSE GetFeeReserve(amount, To(melt.unit, queried))
         IN  melt' = [melt EXCEPT !.amount = amount, !.reserve = queryFee + 1]
    BY DEF CreateMeltQuote
  <1> DEFINE unit == melt.unit
             invoice == melt.invoice
             amount == To(unit, invoice)
             asked == GetFeeReserve(amount, To(unit, queried))
             queryFee == IF payer = "internal" THEN 0 ELSE asked
  <1>1. /\ stage = "new" /\ stage' = "quoted" /\ payer' = payer /\ routed' = routed
        /\ reported' = reported /\ change' = change
        /\ melt' = [melt EXCEPT !.amount = amount, !.reserve = queryFee + 1]
    BY DEF CreateMeltQuote
  <1>2. /\ invoice \in Invoices /\ invoice \in Nat /\ queried \in Nat /\ unit \in {"sat", "msat"}
        /\ PerSat \in Nat \ {0} /\ Word \in Nat
    BY ChangeAssumption DEF ChangeInv, MeltType
  <1>3. amount \in Nat /\ amount <= invoice
    BY <1>2, ToNat
  <1>4. /\ asked \in Nat
        /\ (IF unit = "sat" THEN (asked + 1) * PerSat ELSE asked + 1)
               <= invoice + queried + PerSat
    BY <1>2, ReserveBounds
  <1> DEFINE p == PerSat
  <1> HIDE DEF asked
  <1>5. /\ queryFee \in Nat
        /\ (IF unit = "sat" THEN (queryFee + 1) * p ELSE queryFee + 1)
               <= invoice + queried + p
    <2>1. CASE payer = "internal"
      <3> HIDE DEF invoice, p
      <3>1. queryFee = 0 /\ (queryFee + 1) * p = p
        BY <1>2, <2>1 DEF p
      <3> QED BY <1>2, <3>1 DEF p
    <2>2. CASE payer # "internal"
      BY <1>4, <2>2
    <2> QED BY <2>1, <2>2
  <1>6. /\ melt'.unit = unit /\ melt'.invoice = invoice /\ melt'.amount = amount
        /\ melt'.reserve = queryFee + 1
        /\ MeltType'
    <2>1. MeltType
      BY DEF ChangeInv
    <2> HIDE DEF amount, queryFee
    <2>2. queryFee + 1 \in Nat
      BY <1>5
    <2>3. /\ melt'.unit = unit /\ melt'.invoice = invoice /\ melt'.amount = amount
          /\ melt'.reserve = queryFee + 1
      BY <1>1, <2>1 DEF MeltType
    <2>4. melt' \in [unit : {"sat", "msat"}, invoice : Invoices, amount : Nat, reserve : Nat,
                     inputs : Nat, fee : Nat, blanks : 0..MaxBlanks]
      BY <1>1, <1>3, <2>1, <2>2 DEF MeltType
    <2> QED BY <1>1, <2>1, <2>3, <2>4 DEF MeltType
  <1>7. FeeLimit' <= invoice + queried + p /\ FeeLimit' \in Nat /\ melt'.reserve <= FeeLimit'
        /\ melt'.reserve \in Nat
    <2>1. FeeLimit' = IF unit = "sat" THEN (queryFee + 1) * p ELSE queryFee + 1
      BY <1>6 DEF FeeLimit
    <2>2. queryFee + 1 \in Nat
      BY <1>5
    <2>3. FeeLimit' \in Nat /\ melt'.reserve <= FeeLimit'
      BY <1>2, <1>6, <2>1, <2>2, LimitBounds
    <2> QED BY <1>5, <1>6, <2>1, <2>2, <2>3
  <1>8. ASSUME NEW f \in InputFees, NEW s \in Surplus
        PROVE  /\ amount + melt'.reserve + f + s < Word
               /\ amount + FeeLimit' + f < Word
    <2>1. invoice + (invoice + queried + p) + f + s < Word
      BY <1>2 DEF Fits
    <2>2. f \in Nat /\ s \in Nat
      BY ChangeAssumption
    <2> DEFINE limit == FeeLimit'
               reserve == melt'.reserve
    <2>3. limit \in Nat /\ reserve \in Nat /\ reserve <= limit /\ limit <= invoice + queried + p
      BY <1>7
    <2> HIDE DEF limit, reserve, amount, invoice, p
    <2>4. amount + reserve + f + s < Word /\ amount + limit + f < Word
      BY <1>2, <1>3, <2>1, <2>2, <2>3 DEF p
    <2> QED BY <2>4 DEF limit, reserve
  <1>9. Covered'
    BY <1>1, <1>6, <1>8 DEF Covered
  <1>10. PaidWithin'
    <2>1. routed = 0 /\ reported = 0
      BY <1>1 DEF ChangeInv, PaidWithin
    <2> QED BY <1>1, <1>7, <2>1, ZeroTo DEF PaidWithin
  <1>11. ChangeIsOverpaid'
    BY <1>1 DEF ChangeIsOverpaid, Settled
  <1> QED BY <1>1, <1>6, <1>9, <1>10, <1>11 DEF ChangeInv, Worth

LEMMA BringKeeps == ASSUME ChangeInv, BringInputs PROVE ChangeInv'
  <1> PICK f \in InputFees, s \in Surplus, b \in 0..MaxBlanks :
         melt' = [melt EXCEPT !.inputs = melt.amount + melt.reserve + f + s,
                              !.fee = f, !.blanks = b]
    BY DEF BringInputs
  <1> DEFINE amount == melt.amount
             reserve == melt.reserve
             inputs == amount + reserve + f + s
  <1>1. /\ stage = "quoted" /\ stage' = "pending" /\ payer' = payer /\ routed' = routed
        /\ reported' = reported /\ change' = change
        /\ melt' = [melt EXCEPT !.inputs = inputs, !.fee = f, !.blanks = b]
    BY DEF BringInputs
  <1>2. /\ amount \in Nat /\ reserve \in Nat /\ f \in Nat /\ s \in Nat /\ Word \in Nat
    BY ChangeAssumption DEF ChangeInv, MeltType
  <1>3. MeltType
    BY DEF ChangeInv
  <1>4. inputs \in Nat /\ inputs >= amount + reserve + f
    <2> HIDE DEF amount, reserve
    <2> QED BY <1>2
  <1> HIDE DEF inputs
  <1>5. /\ melt'.unit = melt.unit /\ melt'.invoice = melt.invoice /\ melt'.amount = melt.amount
        /\ melt'.reserve = melt.reserve /\ melt'.inputs = inputs /\ melt'.fee = f
        /\ melt' \in [unit : {"sat", "msat"}, invoice : Invoices, amount : Nat, reserve : Nat,
                      inputs : Nat, fee : Nat, blanks : 0..MaxBlanks]
    BY <1>1, <1>2, <1>3, <1>4 DEF MeltType
  <1>6. MeltType'
    BY <1>1, <1>3, <1>5 DEF MeltType
  <1>7. FeeLimit' = FeeLimit
    BY <1>5 DEF FeeLimit
  <1>8. melt.amount = To(melt.unit, melt.invoice)
        /\ \A g \in InputFees, t \in Surplus :
              /\ melt.amount + melt.reserve + g + t < Word
              /\ melt.amount + FeeLimit + g < Word
    BY <1>1 DEF ChangeInv, Covered
  <1>9. Covered'
    <2>1. inputs < Word /\ amount + FeeLimit + f < Word
      BY <1>8 DEF inputs
    <2> QED BY <1>1, <1>4, <1>5, <1>7, <1>8, <2>1 DEF Covered
  <1>10. PaidWithin'
    BY <1>1, <1>5, <1>7 DEF ChangeInv, PaidWithin
  <1>11. ChangeIsOverpaid'
    BY <1>1 DEF ChangeIsOverpaid, Settled
  <1> QED BY <1>1, <1>6, <1>9, <1>10, <1>11 DEF ChangeInv, Worth

LEMMA NodeKeeps == ASSUME ChangeInv, NodePays PROVE ChangeInv'
  <1>1. /\ stage = "pending" /\ stage' = "paid" /\ melt' = melt /\ payer' = payer
        /\ change' = change /\ routed' \in 0..FeeLimit
        /\ reported' = IF payer = "lnbits" THEN routed' ELSE To(melt.unit, routed')
    BY DEF NodePays
  <1>2. FeeLimit' = FeeLimit
    BY <1>1 DEF FeeLimit
  <1>3. MeltType'
    BY <1>1 DEF ChangeInv, MeltType
  <1>4. Covered'
    BY <1>1, <1>2 DEF ChangeInv, Covered
  <1>5. PaidWithin'
    BY <1>1, <1>2 DEF PaidWithin
  <1>6. ChangeIsOverpaid'
    BY <1>1 DEF ChangeIsOverpaid, Settled
  <1> QED BY <1>1, <1>3, <1>4, <1>5, <1>6 DEF ChangeInv, Worth

LEMMA InternalKeeps == ASSUME ChangeInv, SettlesInternally PROVE ChangeInv'
  <1>1. /\ stage = "pending" /\ stage' = "paid" /\ melt' = melt /\ payer' = payer
        /\ change' = change /\ routed' = routed /\ reported' = reported
    BY DEF SettlesInternally
  <1>2. FeeLimit' = FeeLimit
    BY <1>1 DEF FeeLimit
  <1>3. MeltType'
    BY <1>1 DEF ChangeInv, MeltType
  <1>4. Covered'
    BY <1>1, <1>2 DEF ChangeInv, Covered
  <1>5. PaidWithin'
    BY <1>1, <1>2 DEF ChangeInv, PaidWithin
  <1>6. ChangeIsOverpaid'
    BY <1>1 DEF ChangeIsOverpaid, Settled
  <1> QED BY <1>1, <1>3, <1>4, <1>5, <1>6 DEF ChangeInv, Worth

\* What the mint spent on a melt that is paid does not wrap; unless LNbits
\* reported the fee, the inputs cover it.
LEMMA SpentFits ==
    ASSUME ChangeInv, stage = "paid"
    PROVE  LET spent == melt.amount + reported + melt.fee
               due   == melt.amount + To(melt.unit, routed) + melt.fee
           IN  /\ reported \in Nat /\ To(melt.unit, routed) \in Nat
               /\ melt.amount \in Nat /\ melt.inputs \in Nat /\ melt.fee \in Nat
               /\ melt.blanks \in Nat /\ melt.inputs < Word
               /\ spent \in Nat /\ due \in Nat /\ TotalExpent(reported) = spent
               /\ due <= spent /\ due <= melt.inputs
               /\ payer # "lnbits" => spent = due
  <1> DEFINE amount == melt.amount
             reserve == melt.reserve
             inputs == melt.inputs
             fee == melt.fee
             limit == FeeLimit
             taken == To(melt.unit, routed)
             spent == amount + reported + fee
             due == amount + taken + fee
  <1>1. /\ amount \in Nat /\ reserve \in Nat /\ inputs \in Nat /\ fee \in Nat /\ Word \in Nat
        /\ melt.blanks \in Nat
    BY ChangeAssumption DEF ChangeInv, MeltType
  <1>2. /\ inputs >= amount + reserve + fee /\ inputs < Word /\ amount + limit + fee < Word
    BY DEF ChangeInv, Covered
  <1>3. /\ limit \in Nat /\ reserve <= limit /\ routed \in Nat /\ routed <= limit
        /\ taken \in Nat /\ taken <= reserve /\ taken <= routed
        /\ reported = IF payer = "lnbits" THEN routed ELSE taken
    <2>1. limit \in Nat /\ reserve <= limit
          /\ \A r \in 0..limit : r \in Nat /\ To(melt.unit, r) \in Nat
                                 /\ To(melt.unit, r) <= reserve /\ To(melt.unit, r) <= r
      BY LimitNow DEF ChangeInv
    <2>2. routed \in 0..limit /\ reported = IF payer = "lnbits" THEN routed ELSE taken
      BY DEF ChangeInv, PaidWithin
    <2> HIDE DEF limit, taken, reserve
    <2>3. routed \in Nat /\ routed <= limit
      BY <2>1, <2>2
    <2> QED BY <2>1, <2>2, <2>3 DEF taken
  <1>4. TotalExpent(reported) = Wrapped(spent)
    BY DEF TotalExpent
  <1> HIDE DEF amount, reserve, inputs, fee, limit, taken
  <1>5. reported \in Nat /\ reported <= limit /\ taken <= reported
    BY <1>3
  <1>6. spent \in Nat /\ spent < Word /\ due \in Nat /\ due <= spent /\ due <= inputs
    BY <1>1, <1>2, <1>3, <1>5
  <1>7. payer # "lnbits" => spent = due
    BY <1>3
  <1>8. Wrapped(spent) = spent
    BY <1>6, WrappedSmall
  <1> QED BY <1>1, <1>2, <1>3, <1>4, <1>5, <1>6, <1>7, <1>8 DEF amount, inputs, fee, taken

LEMMA Mod == ASSUME NEW w \in Nat \ {0}, NEW d \in Nat, d < w PROVE (w + d) % w = d
  OBVIOUS

LEMMA SignedKeeps ==
    ASSUME ChangeInv, stage = "paid", stage' \in {"settled", "settled later"},
           melt' = melt, payer' = payer, routed' = routed, reported' = reported,
           change' \in Seq(Nat), Worth(change') \in Nat, ChangeIsOverpaid'
    PROVE  ChangeInv'
  <1>1. FeeLimit' = FeeLimit
    BY DEF FeeLimit
  <1>2. MeltType'
    BY DEF ChangeInv, MeltType
  <1>3. Covered'
    BY <1>1 DEF ChangeInv, Covered
  <1>4. PaidWithin'
    BY <1>1 DEF ChangeInv, PaidWithin
  <1> QED BY <1>2, <1>3, <1>4 DEF ChangeInv, Worth

LEMMA SignKeeps == ASSUME ChangeInv, SignChange PROVE ChangeInv'
  <1> DEFINE inputs == melt.inputs
             blanks == melt.blanks
             spent == melt.amount + reported + melt.fee
             due == melt.amount + To(melt.unit, routed) + melt.fee
             paidBack == GetMessagesForChange(inputs - spent, blanks)
  <1>1. /\ stage = "paid" /\ stage' = "settled" /\ melt' = melt /\ payer' = payer
        /\ routed' = routed /\ reported' = reported
        /\ change' = IF inputs > TotalExpent(reported)
                     THEN GetMessagesForChange(inputs - TotalExpent(reported), blanks)
                     ELSE <<>>
    BY DEF SignChange
  <1>2. /\ inputs \in Nat /\ blanks \in Nat /\ spent \in Nat /\ due \in Nat
        /\ TotalExpent(reported) = spent /\ due <= spent /\ due <= inputs
        /\ payer # "lnbits" => spent = due
    BY <1>1, SpentFits
  <1>3. change' = IF inputs > spent THEN paidBack ELSE <<>>
    BY <1>1, <1>2
  <1>4. melt'.inputs = inputs /\ melt'.blanks = blanks
        /\ (melt'.amount + To(melt'.unit, routed') + melt'.fee) = due
    BY <1>1
  <1> HIDE DEF inputs, blanks, spent, due
  <1>5. /\ change' \in Seq(Nat) /\ Worth(change') \in Nat
        /\ Worth(change') <= inputs - due
        /\ Worth(change') = inputs - due \/ Len(change') = blanks \/ payer = "lnbits"
    <2>1. CASE inputs > spent
      <3>1. inputs - spent \in Nat
        BY <1>2, <2>1
      <3>2. /\ paidBack \in Seq(Nat) /\ Worth(paidBack) \in Nat
            /\ Worth(paidBack) <= inputs - spent
            /\ Worth(paidBack) = inputs - spent \/ Len(paidBack) = blanks
        BY <1>2, <3>1, ChangeWorth
      <3>3. change' = paidBack
        BY <1>3, <2>1
      <3> HIDE DEF paidBack
      <3> QED BY <1>2, <3>1, <3>2, <3>3
    <2>2. CASE ~(inputs > spent)
      <3>1. change' = <<>> /\ Worth(<<>>) = 0
        BY <1>3, <2>2, WorthOfNone
      <3>2. payer # "lnbits" => inputs - due = 0
        BY <1>2, <2>2
      <3> QED BY <1>2, <3>1, <3>2
    <2> QED BY <2>1, <2>2
  <1>6. ChangeIsOverpaid'
    BY <1>1, <1>4, <1>5 DEF ChangeIsOverpaid, Settled, Worth
  <1> QED BY <1>1, <1>5, <1>6, SignedKeeps

LEMMA SignLaterKeeps == ASSUME ChangeInv, SignChangeLater PROVE ChangeInv'
  <1> PICK feePaid \in {reported, IF payer = "lnbits" THEN Wrapped(Word - reported) ELSE reported} :
         LET overpaid == Wrapped(Word + melt.inputs - TotalExpent(feePaid))
         IN  change' = IF overpaid > 0 THEN GetMessagesForChange(overpaid, melt.blanks)
                       ELSE <<>>
    BY DEF SignChangeLater
  <1> DEFINE inputs == melt.inputs
             blanks == melt.blanks
             spent == melt.amount + reported + melt.fee
             due == melt.amount + To(melt.unit, routed) + melt.fee
             overpaid == Wrapped(Word + inputs - TotalExpent(feePaid))
             paidBack == GetMessagesForChange(overpaid, blanks)
  <1>1. /\ stage = "paid" /\ stage' = "settled later" /\ melt' = melt /\ payer' = payer
        /\ routed' = routed /\ reported' = reported
        /\ change' = IF overpaid > 0 THEN paidBack ELSE <<>>
    BY DEF SignChangeLater
  <1>2. /\ inputs \in Nat /\ blanks \in Nat /\ spent \in Nat /\ due \in Nat /\ inputs < Word
        /\ TotalExpent(reported) = spent /\ due <= spent /\ due <= inputs
        /\ payer # "lnbits" => spent = due
    BY <1>1, SpentFits
  <1>3. melt.amount \in Nat /\ melt.fee \in Nat /\ reported \in Nat /\ Word \in Nat \ {0}
    BY <1>1, SpentFits, ChangeAssumption
  <1>4. feePaid \in Nat /\ (payer # "lnbits" => feePaid = reported)
    <2>1. Wrapped(Word - reported) \in Nat
      BY <1>3 DEF Wrapped
    <2> QED BY <1>3, <2>1
  <1>5. TotalExpent(feePaid) \in Nat
    BY <1>3, <1>4 DEF TotalExpent, Wrapped
  <1>6. overpaid \in Nat /\ (payer # "lnbits" => overpaid = inputs - due)
    <2> DEFINE total == TotalExpent(feePaid)
    <2>1. total \in Nat /\ (payer # "lnbits" => total = due)
      BY <1>2, <1>4, <1>5
    <2> HIDE DEF total, inputs, due
    <2>2. Wrapped(Word + inputs - total) \in Nat
      BY <1>2, <1>3, <2>1 DEF Wrapped
    <2>3. ASSUME payer # "lnbits" PROVE Wrapped(Word + inputs - total) = inputs - due
      <3> DEFINE d == inputs - due
      <3>1. d \in Nat /\ d < Word /\ Word + inputs - total = Word + d
        BY <1>2, <1>3, <2>1, <2>3
      <3> HIDE DEF d
      <3>2. (Word + d) % Word = d
        BY <1>3, <3>1, Mod
      <3> QED BY <3>1, <3>2 DEF Wrapped, d
    <2> QED BY <2>2, <2>3 DEF total
  <1>7. melt'.inputs = inputs /\ melt'.blanks = blanks
        /\ (melt'.amount + To(melt'.unit, routed') + melt'.fee) = due
    BY <1>1
  <1> HIDE DEF inputs, blanks, spent, due, overpaid
  <1>8. /\ change' \in Seq(Nat) /\ Worth(change') \in Nat
        /\ payer # "lnbits" => Worth(change') <= inputs - due
        /\ Worth(change') = inputs - due \/ Len(change') = blanks \/ payer = "lnbits"
    <2>1. CASE overpaid > 0
      <3>1. /\ paidBack \in Seq(Nat) /\ Worth(paidBack) \in Nat
            /\ Worth(paidBack) <= overpaid
            /\ Worth(paidBack) = overpaid \/ Len(paidBack) = blanks
        BY <1>2, <1>6, ChangeWorth
      <3>2. change' = paidBack
        BY <1>1, <2>1
      <3> HIDE DEF paidBack
      <3> QED BY <1>2, <1>6, <3>1, <3>2
    <2>2. CASE ~(overpaid > 0)
      <3>1. change' = <<>> /\ Worth(<<>>) = 0
        BY <1>1, <2>2, WorthOfNone
      <3>2. payer # "lnbits" => inputs - due = 0
        BY <1>6, <2>2
      <3>3. Worth(change') = 0 /\ 0 \in Nat /\ change' \in Seq(Nat)
        <4>1. change' = <<>>
          BY <3>1
        <4>2. Worth(change') = Worth(<<>>)
          BY <4>1, Zenon
        <4>3. Worth(<<>>) = 0
          BY <3>1
        <4>4. <<>> \in Seq(Nat)
          OBVIOUS
        <4> HIDE DEF Worth
        <4>5. change' \in Seq(Nat)
          BY <4>1, <4>4, Zenon
        <4> QED BY <4>2, <4>3, <4>5
      <3> DEFINE rest == inputs - due
                 w == Worth(change')
      <3>4. w = 0 /\ (payer # "lnbits" => rest = 0)
        BY <3>2, <3>3
      <3> HIDE DEF rest, w
      <3>5. /\ payer # "lnbits" => w <= rest
            /\ w = rest \/ payer = "lnbits"
        BY <3>4
      <3> QED BY <3>3, <3>5 DEF rest, w
    <2> QED BY <2>1, <2>2
  <1>9. ChangeIsOverpaid'
    BY <1>1, <1>7, <1>8 DEF ChangeIsOverpaid, Settled, Worth
  <1> QED BY <1>1, <1>8, <1>9, SignedKeeps

LEMMA ChangeInvNext == Fits /\ ChangeInv /\ [ChangeNext]_changeVars => ChangeInv'
  <1> SUFFICES ASSUME Fits, ChangeInv, [ChangeNext]_changeVars PROVE ChangeInv'
    OBVIOUS
  <1>1. CASE CreateMeltQuote
    BY <1>1, QuoteKeeps
  <1>2. CASE BringInputs
    BY <1>2, BringKeeps
  <1>3. CASE NodePays
    BY <1>3, NodeKeeps
  <1>4. CASE SettlesInternally
    BY <1>4, InternalKeeps
  <1>5. CASE SignChange
    BY <1>5, SignKeeps
  <1>6. CASE SignChangeLater
    BY <1>6, SignLaterKeeps
  <1>7. CASE UNCHANGED changeVars
    <2>1. /\ melt' = melt /\ payer' = payer /\ stage' = stage /\ routed' = routed
          /\ reported' = reported /\ change' = change
      BY <1>7 DEF changeVars
    <2>2. FeeLimit' = FeeLimit
      BY <2>1 DEF FeeLimit
    <2>3. MeltType'
      BY <2>1 DEF ChangeInv, MeltType
    <2>4. Covered'
      BY <2>1, <2>2 DEF ChangeInv, Covered
    <2>5. PaidWithin'
      BY <2>1, <2>2 DEF ChangeInv, PaidWithin
    <2>6. ChangeIsOverpaid'
      BY <2>1 DEF ChangeInv, ChangeIsOverpaid, Settled, Worth
    <2> QED BY <2>1, <2>3, <2>4, <2>5, <2>6 DEF ChangeInv, Worth
  <1> QED BY <1>1, <1>2, <1>3, <1>4, <1>5, <1>6, <1>7 DEF ChangeNext

LEMMA AlwaysChangeInv == Fits => (ChangeSpec => []ChangeInv)
  <1> SUFFICES ASSUME Fits PROVE ChangeSpec => []ChangeInv
    OBVIOUS
  <1>1. ChangeInit => ChangeInv
    BY ChangeInitInv
  <1>2. ChangeInv /\ [ChangeNext]_changeVars => ChangeInv'
    BY ChangeInvNext
  <1> QED BY <1>1, <1>2, PTL DEF ChangeSpec

LEMMA ChangeTyped == ChangeInv => ChangeTypeOK
  <1> SUFFICES ASSUME ChangeInv PROVE ChangeTypeOK
    OBVIOUS
  <1>1. MeltType /\ change \in Seq(Nat)
    BY DEF ChangeInv
  <1>2. FeeLimit \in Nat /\ routed \in 0..FeeLimit
    BY LimitNow DEF ChangeInv, PaidWithin
  <1>3. routed \in Nat /\ To(melt.unit, routed) \in Nat
    BY <1>1, <1>2, LimitNow
  <1>4. reported \in Nat
    BY <1>3 DEF ChangeInv, PaidWithin
  <1> QED BY <1>1, <1>3, <1>4 DEF ChangeTypeOK, MeltType

\* Change keeps its types: what is signed back is a sequence of amounts.
THEOREM ChangeTypeCorrect == Fits => (ChangeSpec => []ChangeTypeOK)
  <1> SUFFICES ASSUME Fits PROVE ChangeSpec => []ChangeTypeOK
    OBVIOUS
  <1> QED BY ChangeTyped, AlwaysChangeInv, PTL

\* The wallet gets back what it overpaid and never more, whichever of the two
\* places signs the change.
THEOREM ChangeOverpaid == Fits => (ChangeSpec => []ChangeIsOverpaid)
  <1> SUFFICES ASSUME Fits PROVE ChangeSpec => []ChangeIsOverpaid
    OBVIOUS
  <1>1. ChangeInv => ChangeIsOverpaid
    BY DEF ChangeInv
  <1> QED BY <1>1, AlwaysChangeInv, PTL

LEMMA Rounds ==
    ASSUME NEW p \in Nat \ {0}, NEW i \in Nat, NEW r \in Nat, NEW kept \in Int,
           kept >= (i \div p) + (r \div p)
    PROVE  kept * p + 2 * (p - 1) >= i + r
  <1> DEFINE a == i \div p
             b == r \div p
  <1>1. a \in Nat /\ i < a * p + p /\ b \in Nat /\ r < b * p + p
    BY DivBounds
  <1>2. kept >= a + b
    OBVIOUS
  <1> HIDE DEF a, b
  <1>3. kept * p >= (a + b) * p
    BY <1>1, <1>2
  <1>4. (a + b) * p = a * p + b * p
    BY <1>1
  <1> DEFINE x == a * p
             y == b * p
             k == kept * p
  <1>5. x \in Int /\ y \in Int /\ k \in Int /\ k >= x + y /\ i < x + p /\ r < y + p
    BY <1>1, <1>3, <1>4
  <1> HIDE DEF x, y, k
  <1>6. k + 2 * (p - 1) >= i + r
    BY <1>5
  <1> QED BY <1>6 DEF k

LEMMA RoundsDown == ChangeInv => RoundingIsBounded
  <1> SUFFICES ASSUME ChangeInv, Settled, payer # "lnbits" PROVE RoundingIsBounded
    BY DEF RoundingIsBounded
  <1> DEFINE kept == melt.inputs - Worth(change)
             invoice == melt.invoice
             amount == To(melt.unit, invoice)
             taken == To(melt.unit, routed)
             p == PerSat
  <1>1. /\ invoice \in Nat /\ melt.fee \in Nat /\ melt.inputs \in Nat /\ melt.unit \in {"sat", "msat"}
        /\ Worth(change) \in Nat /\ p \in Nat \ {0}
    BY ChangeAssumption DEF ChangeInv, MeltType
  <1>2. FeeLimit \in Nat /\ routed \in 0..FeeLimit
    BY LimitNow DEF ChangeInv, PaidWithin
  <1>3. routed \in Nat /\ taken \in Nat
    BY <1>2, LimitNow DEF ChangeInv
  <1>4. melt.amount = amount /\ amount \in Nat
    <2>1. stage # "new"
      BY DEF Settled
    <2> QED BY <1>1, <2>1, ToNat DEF ChangeInv, Covered
  <1>5. Worth(change) <= melt.inputs - (melt.amount + taken + melt.fee)
    BY DEF ChangeInv, ChangeIsOverpaid
  <1>6. kept \in Int /\ kept >= amount + taken
    <2> DEFINE in == melt.inputs
               w == Worth(change)
               fee == melt.fee
    <2>1. in \in Nat /\ w \in Nat /\ fee \in Nat /\ w <= in - (amount + taken + fee)
      BY <1>1, <1>4, <1>5
    <2>2. kept = in - w
      OBVIOUS
    <2> HIDE DEF in, w, fee, amount, taken, kept
    <2> QED BY <1>3, <1>4, <2>1, <2>2
  <1>7. CASE melt.unit = "sat"
    <2>1. amount = invoice \div p /\ taken = routed \div p
      BY <1>7 DEF To
    <2> HIDE DEF kept, invoice, amount, taken, p
    <2>2. kept * p + 2 * (p - 1) >= invoice + routed
      BY <1>1, <1>3, <1>6, <2>1, Rounds
    <2> QED BY <1>7, <2>2 DEF RoundingIsBounded, kept, invoice, p
  <1>8. CASE melt.unit = "msat"
    <2>1. amount = invoice /\ taken = routed
      BY <1>8 DEF To
    <2> QED BY <1>6, <1>8, <2>1 DEF RoundingIsBounded
  <1> QED BY <1>1, <1>7, <1>8

\* A mint that rounds keeps less than two sat short of what its node paid.
THEOREM ChangeRounding == Fits => (ChangeSpec => []RoundingIsBounded)
  <1> SUFFICES ASSUME Fits PROVE ChangeSpec => []RoundingIsBounded
    OBVIOUS
  <1> QED BY RoundsDown, AlwaysChangeInv, PTL

-----------------------------------------------------------------------------
(* All parts beside each other.  The invariant of each is kept by its own  *)
(* steps and left alone by the others'.                                    *)

\* There is something to start the parts with that do not run.
Peopled == Outputs # {} /\ Times # {} /\ Locktimes # {} /\ Invoices # {}

ServicesInv == /\ KeysetsInv /\ LiquidityInv /\ StatsInv /\ AuthInv
               /\ SpendInv /\ ChangeInv /\ BackendsInv

LEMMA RestingStarts ==
    ASSUME Peopled
    PROVE  /\ SpendRests => SpendInit
           /\ ChangeRests => ChangeInit
           /\ BackendRests => BackendsInit
  <1>1. SpendRests => SpendInit
    <2>1. \E l \in Locks : WellFormed(l)
      <3>1. PICK t \in Locktimes : TRUE
        BY DEF Peopled
      <3> DEFINE l == [kind |-> "HTLC", sigAll |-> FALSE, own |-> {}, pubkeys |-> {},
                       refund |-> {}, nSigs |-> 0, nSigsRefund |-> 0, locktime |-> t]
      <3>2. 0 \in 0..MaxSignatures
        BY SpendAssumption
      <3>3. l \in Locks
        BY <3>2 DEF Locks
      <3>4. Cardinality({}) = 0
        BY FS_EmptySet
      <3>5. WellFormed(l)
        BY <3>4 DEF WellFormed
      <3> QED BY <3>3, <3>5
    <2> DEFINE l == CHOOSE k \in Locks : WellFormed(k)
               o == CHOOSE x \in Outputs : TRUE
               t == CHOOSE x \in Times : TRUE
    <2>2. l \in Locks /\ WellFormed(l) /\ o \in Outputs /\ t \in Times
      BY <2>1 DEF Peopled
    <2>3. SpendRests => SpendStarts(l, o, t)
      BY DEF SpendRests
    <2> HIDE DEF l, o, t
    <2> QED BY <2>2, <2>3 DEF SpendInit
  <1>2. ChangeRests => ChangeInit
    <2> DEFINE i == CHOOSE x \in Invoices : TRUE
    <2>1. i \in Invoices
      BY DEF Peopled
    <2>2. ChangeRests => ChangeStarts("sat", i, "node")
      BY DEF ChangeRests
    <2> HIDE DEF i
    <2> QED BY <2>1, <2>2 DEF ChangeInit
  <1>3. BackendRests => BackendsInit
    BY DEF BackendRests, BackendsInit
  <1> QED BY <1>1, <1>2, <1>3

LEMMA ServicesInvInit == Peopled /\ ServicesInit => ServicesInv
  <1> SUFFICES ASSUME Peopled, ServicesInit PROVE ServicesInv
    OBVIOUS
  <1>1. /\ KeysetsInit /\ LiquidityInit /\ StatsInit /\ AuthInit
        /\ SpendInit /\ ChangeInit /\ BackendsInit
    BY RestingStarts DEF ServicesInit
  <1> QED BY <1>1, KeysetsInvInit, LiquidityInvInit, StatsInvInit, AuthInvInit, SpendInvInit,
             ChangeInitInv, BackendsInvInit DEF ServicesInv

\* A step of all is a step, or none, of each.
LEMMA EachSteps ==
    ASSUME [ServicesNext]_servicesVars
    PROVE  /\ [KeysetsNext]_keysetVars /\ [LiquidityNext]_liquidityVars
           /\ [StatsNext]_statsVars /\ [AuthNext]_authVars /\ [SpendNext]_spendVars
           /\ [ChangeNext]_changeVars /\ [BackendsNext]_backendVars
  <1>1. CASE ServicesNext
    BY <1>1 DEF ServicesNext
  <1>2. CASE UNCHANGED servicesVars
    BY <1>2 DEF servicesVars
  <1> QED BY <1>1, <1>2

LEMMA ServicesInvNext == Fits /\ ServicesInv /\ [ServicesNext]_servicesVars => ServicesInv'
  <1> SUFFICES ASSUME Fits, ServicesInv, [ServicesNext]_servicesVars PROVE ServicesInv'
    OBVIOUS
  <1>1. KeysetsInv'
    BY EachSteps, KeysetsInvNext DEF ServicesInv
  <1>2. LiquidityInv'
    BY EachSteps, LiquidityInvNext DEF ServicesInv
  <1>3. StatsInv' /\ AuthInv'
    BY EachSteps, StatsInvNext, AuthInvNext DEF ServicesInv
  <1>4. SpendInv'
    BY EachSteps, SpendInvNext DEF ServicesInv
  <1>5. ChangeInv'
    BY EachSteps, ChangeInvNext DEF ServicesInv
  <1>6. BackendsInv'
    BY EachSteps, BackendsInvNext DEF ServicesInv
  <1> QED BY <1>1, <1>2, <1>3, <1>4, <1>5, <1>6 DEF ServicesInv

LEMMA ServicesInvariant == Peopled /\ Fits => (ServicesSpec => []ServicesInv)
  <1> SUFFICES ASSUME Peopled, Fits PROVE ServicesSpec => []ServicesInv
    OBVIOUS
  <1>1. ServicesInit => ServicesInv
    BY ServicesInvInit
  <1>2. ServicesInv /\ [ServicesNext]_servicesVars => ServicesInv'
    BY ServicesInvNext
  <1> QED BY <1>1, <1>2, PTL DEF ServicesSpec

\* No part disturbs the variables of another: all keep their types beside each
\* other.
THEOREM ServicesTypeCorrect == Peopled /\ Fits => (ServicesSpec => []ServicesTypeOK)
  <1> SUFFICES ASSUME Peopled, Fits PROVE ServicesSpec => []ServicesTypeOK
    OBVIOUS
  <1>1. ServicesInv => ServicesTypeOK
    <2> SUFFICES ASSUME ServicesInv PROVE ServicesTypeOK
      OBVIOUS
    <2>1. KeysetsTypeOK /\ StatsTypeOK /\ AuthTypeOK /\ SpendTypeOK /\ BackendsTypeOK
      BY DEF ServicesInv, KeysetsInv, StatsInv, AuthInv, SpendInv, BackendsInv
    <2>2. LiquidityTypeOK
      BY DEF ServicesInv, LiquidityInv, Typed
    <2>3. ChangeTypeOK
      BY ChangeTyped DEF ServicesInv
    <2> QED BY <2>1, <2>2, <2>3 DEF ServicesTypeOK
  <1> QED BY <1>1, ServicesInvariant, PTL

\* What each part promises of its own behaviours holds beside the others too.
ServicesSafe == /\ SignedIsVerifiable /\ ActivePerUnit /\ PaidOnce /\ CountedOnce /\ AdmitsOnce
                /\ AcceptedAsLocked /\ ChangeIsOverpaid /\ RoundingIsBounded
                /\ QuoteMatchesNode

\* The promises of the parts hold in every behaviour of all of them.
THEOREM ServicesAreSafe == Peopled /\ Fits => (ServicesSpec => []ServicesSafe)
  <1> SUFFICES ASSUME Peopled, Fits PROVE ServicesSpec => []ServicesSafe
    OBVIOUS
  <1>1. ServicesInv => ServicesSafe
    <2> SUFFICES ASSUME ServicesInv PROVE ServicesSafe
      OBVIOUS
    <2>1. SignedIsVerifiable /\ ActivePerUnit
      BY DEF ServicesInv, KeysetsInv
    <2>2. PaidOnce
      BY DEF ServicesInv, LiquidityInv, SwapOK, PaidOnce
    <2>3. CountedOnce /\ AcceptedAsLocked
      BY CountsOnce, LockDecides DEF ServicesInv
    <2>4. AdmitsOnce /\ QuoteMatchesNode
      BY DEF ServicesInv, AuthInv, BackendsInv
    <2>5. ChangeIsOverpaid /\ RoundingIsBounded
      BY RoundsDown DEF ServicesInv, ChangeInv
    <2> QED BY <2>1, <2>2, <2>3, <2>4, <2>5 DEF ServicesSafe
  <1> QED BY <1>1, ServicesInvariant, PTL
==============================================================================
