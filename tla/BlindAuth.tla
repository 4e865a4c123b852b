----------------------------- MODULE BlindAuth -----------------------------
(***************************************************************************)
(* Blind-auth proofs (internal/mint/auth.go, VerifyAuthBlindToken): a      *)
(* request presents one, which is looked up, stored, verified by the       *)
(* signer and marked spent in one transaction.  The look-up locks the row  *)
(* it finds, FOR UPDATE NOWAIT; on a proof that was used the function      *)
(* returns with err nil, so its transaction and the lock stay.             *)
(***************************************************************************)
CONSTANTS AuthRequests, AuthProofs,
          Valid      \* the proofs the mint signed

ASSUME AuthAssumption == Valid \subseteq AuthProofs

VARIABLES used,       \* rows of table proofs: auth proofs marked SPENT
          inserted,   \* rows of transactions that have not ended, by request
          locked,     \* rows locked for ever
          auth        \* [at, proof] of each request

authVars == <<used, inserted, locked, auth>>

AuthTypeOK == /\ used \subseteq AuthProofs
              /\ inserted \in [AuthRequests -> SUBSET AuthProofs]
              /\ locked \subseteq AuthProofs
              /\ auth \in [AuthRequests ->
                     [at : {"new", "insert", "verify", "commit", "admitted", "refused"},
                      proof : AuthProofs \cup {"none"}]]

AuthInit == /\ used = {} /\ locked = {}
            /\ inserted = [r \in AuthRequests |-> {}]
            /\ auth = [r \in AuthRequests |-> [at |-> "new", proof |-> "none"]]

Turns(r, where) == auth' = [auth EXCEPT ![r].at = where]
Refuses(r) == Turns(r, "refused") /\ inserted' = [inserted EXCEPT ![r] = {}]

-----------------------------------------------------------------------------
\* GetProofsFromSecretCurve: no row; a row, which this transaction now locks;
\* or a row that is locked, and an error.
LookUp(r, p) ==
    /\ auth[r].at = "new"
    /\ auth' = [auth EXCEPT ![r] = [at |-> IF p \in used THEN "refused" ELSE "insert",
                                   proof |-> p]]
    /\ locked' = IF p \in used THEN locked \cup {p} ELSE locked
    /\ UNCHANGED <<used, inserted>>

\* Mutation: no UNIQUE(secret, y).
SaveAuthProof_NoUnique(r) ==
    /\ auth[r].at = "insert"
    /\ inserted' = [inserted EXCEPT ![r] = {auth[r].proof}]
    /\ Turns(r, "verify")
    /\ UNCHANGED <<used, locked>>

\* SaveProof: UNIQUE(secret, y) refuses a used proof, and waits for the
\* transaction that has inserted the same one.
SaveAuthProof(r) == LET p == auth[r].proof IN
    /\ auth[r].at = "insert"
    /\ \A s \in AuthRequests : p \notin inserted[s]
    /\ \/ /\ p \notin used
          /\ inserted' = [inserted EXCEPT ![r] = {p}]
          /\ Turns(r, "verify")
       \/ p \in used /\ Refuses(r)
    /\ UNCHANGED <<used, locked>>

\* Signer.VerifyProofs; a refusal rolls the insert back.
VerifyAuth(r) == /\ auth[r].at = "verify"
                 /\ \/ auth[r].proof \in Valid /\ Turns(r, "commit") /\ UNCHANGED inserted
                    \/ auth[r].proof \notin Valid /\ Refuses(r)
                 /\ UNCHANGED <<used, locked>>

\* SetProofsState and Commit.
CommitAuth(r) == /\ auth[r].at = "commit"
                 /\ used' = used \cup inserted[r]
                 /\ inserted' = [inserted EXCEPT ![r] = {}]
                 /\ Turns(r, "admitted")
                 /\ UNCHANGED locked

\* A statement fails, or the COMMIT, whose effect is then unknown.
AuthFails(r) == /\ auth[r].at \in {"insert", "verify", "commit"}
                /\ \/ UNCHANGED used
                   \/ auth[r].at = "commit" /\ used' = used \cup inserted[r]
                /\ Refuses(r)
                /\ UNCHANGED locked

AuthNext == \E r \in AuthRequests :
    \/ \E p \in AuthProofs : LookUp(r, p)
    \/ SaveAuthProof(r) \/ VerifyAuth(r) \/ CommitAuth(r) \/ AuthFails(r)

AuthSpec == AuthInit /\ [][AuthNext]_authVars

-----------------------------------------------------------------------------
\* A blind-auth proof admits one request at most, of those that present it at
\* once or later, only if the mint signed it, and is marked used when it does.
AdmitsOnce == \A r \in AuthRequests : auth[r].at = "admitted" =>
    /\ auth[r].proof \in Valid \cap used
    /\ \A s \in AuthRequests :
          auth[s].at = "admitted" /\ auth[s].proof = auth[r].proof => s = r
=============================================================================
