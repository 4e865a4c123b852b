------------------------------ MODULE Issuance ------------------------------
(***************************************************************************)
(* What the mint promises about new ecash: a quote is credited when its    *)
(* invoice is paid, and the credit is drawn once, in full, for messages    *)
(* that nobody had signed.                                                 *)
(***************************************************************************)
CONSTANTS Quotes, Outputs,
          QuoteAmount,      \* what a quote is worth
          OutputWorth(_)    \* what a set of messages is worth together

VARIABLES credit,   \* "open" | "credited" | "drawn", of every quote
          sigs      \* the blinded messages that have been signed

issuanceVars == <<credit, sigs>>

IssuanceInit == /\ credit = [q \in Quotes |-> "open"]
                /\ sigs = {}

Credit(q) == /\ credit[q] = "open"
             /\ credit' = [credit EXCEPT ![q] = "credited"]
             /\ UNCHANGED sigs

Draw(q, O) == /\ credit[q] = "credited"
              /\ OutputWorth(O) = QuoteAmount[q]
              /\ O \cap sigs = {}
              /\ credit' = [credit EXCEPT ![q] = "drawn"]
              /\ sigs' = sigs \cup O

IssuanceNext == \E q \in Quotes : Credit(q) \/ \E O \in SUBSET Outputs : Draw(q, O)

IssuanceSpec == IssuanceInit /\ [][IssuanceNext]_issuanceVars
=============================================================================
