---------------------------- MODULE MCAggregator ----------------------------
(***************************************************************************)
(* A small instance of the aggregator over the FeeSharingSystem for TLC.    *)
(***************************************************************************)
EXTENDS AggregatorFeeSharingWithUniswapV3, TLC

MCInitialWallet == [u \in User |-> CASE u = Aggregator -> 0 [] u = Market -> 2 [] OTHER -> 2]
=============================================================================
