------------------------------ MODULE MCGateway ------------------------------
(***************************************************************************)
(* Small instances of Gateway and GatewayMain for TLC.                     *)
(***************************************************************************)
EXTENDS GatewayMain, TLC

CONSTANTS t1, t2, k1, k2, r1, r2, n1, n2

MCSymmetry ==
    Permutations(TxIds) \cup Permutations(Keys)
        \cup Permutations(Registrations) \cup Permutations(NationalIds)
=============================================================================
