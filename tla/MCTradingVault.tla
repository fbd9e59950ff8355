--------------------------- MODULE MCTradingVault ---------------------------
(***************************************************************************)
(* Instances of the trading vault for TLC.  Time is counted in hours       *)
(* scaled down; the order of the timelocks is kept.                        *)
(***************************************************************************)
EXTENDS TradingVault, TLC

(* Depositors are interchangeable.                                         *)
UserSymmetry == Permutations(Users)

=============================================================================
