------------------------- MODULE MCTradeAuditTrail -------------------------
(***************************************************************************)
(* Instances of the audit trail for TLC.                                   *)
(***************************************************************************)
EXTENDS TradeAuditTrail, TLC

Limits(pos, loss, lev, conf) ==
  [maxPositionSizeUsd |-> pos, maxDailyLossUsd |-> loss,
   maxLeverageBps |-> lev, minConfidenceBps |-> conf]

(* A wide and a tight set of limits; two position limits and a zero one.   *)
MCParams == { Limits(2, 2, 10000, 0), Limits(2, 1, 10000, 1) }
CapParams == { Limits(2, 1, 10000, 1), Limits(1, 1, 10000, 1), Limits(0, 1, 0, 1) }

(* A confidence is signed: one below zero is refused.                      *)
MCConfidences == {-1, 1}

(* Decision ids are opaque, and the contract treats all agents alike.      *)
TrailSymmetry == Permutations(Ids) \cup Permutations(Agents)

=============================================================================
