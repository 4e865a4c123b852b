------------------------------- MODULE MCMint -------------------------------
(* Small instances of MintQuote: quotes of one and of two, and messages of  *)
(* one and of two, so that some requests match, some ask for more, and two *)
(* requests may name the same message.                                     *)
EXTENDS MintQuote, TLC

CONSTANTS b1, b2, b3, q1, q2

Prices         == q1 :> 1 @@ q2 :> 2
MCQuoteAmount  == [q \in Quotes |-> Prices[q]]
Amounts        == b1 :> 1 @@ b2 :> 1 @@ b3 :> 2
MCOutputAmount == [b \in Outputs |-> Amounts[b]]
=============================================================================
