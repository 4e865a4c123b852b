------------------------------ MODULE Services ------------------------------
(***************************************************************************)
(* The parts of the mint that work beside the ecash operations or inside   *)
(* one of their steps: the signer's keysets, liquidity swaps, statistics,  *)
(* blind auth, the spending conditions of a proof, the amounts of a melt   *)
(* and the lightning backends.  They have no variable in common, so a      *)
(* behaviour of all of them is an interleaving of one of each, and a       *)
(* property of one is a property of that one's behaviours.  The            *)
(* specification lets one of them run, chosen at the start.                *)
(***************************************************************************)
EXTENDS Keysets, LiquiditySwaps, StatsSnapshots, BlindAuth, SpendConditions, Change,
        Backends

VARIABLE service_   \* the part that runs

servicesVars == <<keysetVars, liquidityVars, statsVars, authVars, spendVars, changeVars,
                  backendVars, service_>>

Parts == {"keysets", "liquidity", "stats", "auth", "spend", "change", "backend"}

\* Of a part that does not run one initial state is enough.
SpendRests  == SpendStarts(CHOOSE l \in Locks : WellFormed(l),
                           CHOOSE o \in Outputs : TRUE, CHOOSE t \in Times : TRUE)
ChangeRests == ChangeStarts("sat", CHOOSE i \in Invoices : TRUE, "node")
BackendRests == BackendStarts("lnd", FALSE)

ServicesInit ==
    /\ service_ \in Parts
    /\ KeysetsInit /\ LiquidityInit /\ StatsInit /\ AuthInit
    /\ IF service_ = "spend" THEN SpendInit ELSE SpendRests
    /\ IF service_ = "change" THEN ChangeInit ELSE ChangeRests
    /\ IF service_ = "backend" THEN BackendsInit ELSE BackendRests

ServicesNext ==
    /\ \/ /\ service_ = "keysets" /\ KeysetsNext
          /\ UNCHANGED <<liquidityVars, statsVars, authVars, spendVars, changeVars,
                         backendVars>>
       \/ /\ service_ = "liquidity" /\ LiquidityNext
          /\ UNCHANGED <<keysetVars, statsVars, authVars, spendVars, changeVars,
                         backendVars>>
       \/ /\ service_ = "stats" /\ StatsNext
          /\ UNCHANGED <<keysetVars, liquidityVars, authVars, spendVars, changeVars,
                         backendVars>>
       \/ /\ service_ = "auth" /\ AuthNext
          /\ UNCHANGED <<keysetVars, liquidityVars, statsVars, spendVars, changeVars,
                         backendVars>>
       \/ /\ service_ = "spend" /\ SpendNext
          /\ UNCHANGED <<keysetVars, liquidityVars, statsVars, authVars, changeVars,
                         backendVars>>
       \/ /\ service_ = "change" /\ ChangeNext
          /\ UNCHANGED <<keysetVars, liquidityVars, statsVars, authVars, spendVars,
                         backendVars>>
       \/ /\ service_ = "backend" /\ BackendsNext
          /\ UNCHANGED <<keysetVars, liquidityVars, statsVars, authVars, spendVars,
                         changeVars>>
    /\ UNCHANGED service_

ServicesSpec == ServicesInit /\ [][ServicesNext]_servicesVars

\* Every variable of the seven parts keeps its type.
ServicesTypeOK == /\ KeysetsTypeOK /\ LiquidityTypeOK /\ StatsTypeOK /\ AuthTypeOK
                  /\ SpendTypeOK /\ ChangeTypeOK /\ BackendsTypeOK
=============================================================================
