----------------------------- MODULE MCRelease -----------------------------
(***************************************************************************)
(* Two external chains, one of them gated, with one asset each; every      *)
(* order of enabling, deploying twice, and one edit of every kind.         *)
(***************************************************************************)
EXTENDS Release

CONSTANTS ark, sepolia, bsc, usdc

MCExternalChains == {sepolia, bsc}
MCGated == {bsc}
MCSymbols == {usdc}
MCEnvironments == {"testnet", "mainnet"}
=============================================================================
