------------------------------- MODULE Signals -------------------------------
(***************************************************************************)
(* What a trading cycle makes of one market snapshot before any state is   *)
(* touched: the integrity gate (data_integrity.py), the three strategies   *)
(* and their ensemble (signals.py), the size of the order (agent.py) and   *)
(* its conversion into lots of the instrument (execution/executor.py).     *)
(*                                                                         *)
(* A snapshot holds the statistics the strategies compare, not the series  *)
(* they are computed from.  Units: confidences, fractions and the profile's*)
(* knobs in basis points, a z-score in hundredths, a funding rate in       *)
(* thousandths of a percent, sizes in whole dollars, lots in hundredths.   *)
(***************************************************************************)
EXTENDS Integers, FiniteSets

CONSTANTS
  Markets,         (* the snapshots explored                                *)
  EnableMomentum,  (* enable_momentum                                       *)
  Allowed,         (* the profile's enabled_signals                         *)
  FloorBps,        (* its confidence_floor_bps                              *)
  MinConfidenceBps,(* min_confidence_bps of the risk gate                   *)
  MultiplierBps,   (* its position_size_multiplier                          *)
  KellyBps,        (* kelly_fraction                                        *)
  MaxPosition      (* max_position_usd                                      *)

PriceAction == {"mean_reversion", "momentum"}
Strategies == PriceAction \cup {"funding_rate"}
Directions == {"LONG", "SHORT", "NEUTRAL"}
Signal == [dir : Directions, conf : Nat]

(* age: seconds since the fetch; nan: the funding rate is not a number;    *)
(* bars: usable prices; first, price: of the regime window; held: the side *)
(* of the position the exchange reported.                                  *)
Market == [age : Nat, nan : BOOLEAN, bars : Nat, first : Nat, price : Nat, z : Int,
           short : Nat, long : Nat \ {0}, volume : BOOLEAN, funding : Int,
           held : {"LONG", "SHORT", "none"}]
Instrument == [type : {"SWAP", "SPOT"}, inverse : BOOLEAN, ctVal : Nat,
               lot : Nat \ {0}, min : Nat]

ASSUME SignalsAssumption ==
  /\ Markets \subseteq Market
  /\ EnableMomentum \in BOOLEAN
  /\ Allowed \subseteq Strategies
  /\ FloorBps \in Nat
  /\ MinConfidenceBps \in Nat
  /\ MultiplierBps \in Nat
  /\ KellyBps \in Nat
  /\ MaxPosition \in Nat

Least(a, b) == IF a <= b THEN a ELSE b
Most(a, b) == IF a >= b THEN a ELSE b
Size(n) == IF n < 0 THEN -n ELSE n

-----------------------------------------------------------------------------
(* check_market_data: the agent's ledger check is never supplied figures.  *)
Severity(m) ==
  IF m.age > 30 \/ m.nan THEN "HARD_BLOCK"
  ELSE IF m.age > 15 THEN "SOFT_WARNING" ELSE "OK"

(* trend_regime over the 50 prices of the regime window.                   *)
TrendRegime(m) ==
  IF m.bars < 50 \/ m.first = 0 THEN "unknown"
  ELSE IF 100 * (m.price - m.first) > 2 * m.first THEN "up"
  ELSE IF 100 * (m.price - m.first) < -2 * m.first THEN "down" ELSE "flat"

Neutral(conf) == [dir |-> "NEUTRAL", conf |-> conf]

(* An extreme z-score bets on reversion, unless the trend made it extreme. *)
MeanReversion(m) ==
  LET conf == Least(6000 + (3500 * Least(Size(m.z), 200)) \div 200, 9500) IN
  IF m.bars < 22 THEN Neutral(0)
  ELSE IF m.z < -200 /\ TrendRegime(m) # "down" THEN [dir |-> "LONG", conf |-> conf]
  ELSE IF m.z > 200 /\ TrendRegime(m) # "up" THEN [dir |-> "SHORT", conf |-> conf]
  ELSE Neutral(IF Size(m.z) > 200 THEN 0 ELSE 3000)

(* A crossover of the moving averages by a tenth of a percent bets on the  *)
(* move going on, unless the longer trend points the other way.            *)
Momentum(m) ==
  LET conf == Least((500000 * Size(m.short - m.long)) \div m.long
                      + (IF m.volume THEN 6000 ELSE 4000), 9500)
      up == 1000 * m.short > 1001 * m.long /\ m.price > m.long
      down == 1000 * m.short < 999 * m.long /\ m.price < m.long IN
  IF m.bars < 20 THEN Neutral(0)
  ELSE IF up /\ TrendRegime(m) # "down" THEN [dir |-> "LONG", conf |-> conf]
  ELSE IF down /\ TrendRegime(m) # "up" THEN [dir |-> "SHORT", conf |-> conf]
  ELSE Neutral(IF up \/ down THEN 0 ELSE 3000)

(* funding_rate_signal: against the side that pays.  At exactly +threshold *)
(* neither test of the code holds, and it goes LONG.                       *)
FundingRate(m) ==
  LET conf == Least(6000 + 10 * Size(m.funding), 9000) IN
  IF Size(m.funding) < 100 THEN Neutral(3000)
  ELSE IF m.funding > 100 THEN [dir |-> "SHORT", conf |-> conf]
  ELSE [dir |-> "LONG", conf |-> conf]

(* _generate_signals: momentum only when enabled, then the allowlist; an   *)
(* empty one lets every strategy through.                                  *)
Generated ==
  {s \in Strategies : (s = "momentum" => EnableMomentum) /\ (Allowed = {} \/ s \in Allowed)}

SignalOf(m, s) ==
  IF s = "mean_reversion" THEN MeanReversion(m)
  ELSE IF s = "momentum" THEN Momentum(m) ELSE FundingRate(m)

IsTradeable(sig) == sig.dir # "NEUTRAL" /\ sig.conf >= 6000

-----------------------------------------------------------------------------
(* Twice what a strategy adds to the score of a direction: signals below   *)
(* the tradeable confidence count half.                                    *)
Contribution(m, s, dir) ==
  LET sig == SignalOf(m, s) IN
  IF s \notin Generated \/ sig.dir # dir THEN 0
  ELSE IF IsTradeable(sig) THEN 2 * sig.conf ELSE sig.conf

(* A mutant of Score: the price-action strategies count as independent.    *)
ScoreNoHaircut(m, dir) ==
  2 * Contribution(m, "funding_rate", dir) + 2 * Contribution(m, "mean_reversion", dir)
    + 2 * Contribution(m, "momentum", dir)

(* Four times the score of a direction: the weaker of two agreeing price-  *)
(* action strategies counts half (CORRELATED_EVIDENCE_WEIGHT).             *)
Score(m, dir) ==
  LET r == Contribution(m, "mean_reversion", dir)
      o == Contribution(m, "momentum", dir) IN
  2 * Contribution(m, "funding_rate", dir) + 2 * Most(r, o) + Least(r, o)

(* ensemble_signal: the score of the stronger direction - SHORT in a tie - *)
(* averaged over all signals.                                              *)
Average(m, dir) == Least(Score(m, dir) \div (4 * Cardinality(Generated)), 9500)
Ensemble ==
  [m \in Markets |->
     IF Score(m, "LONG") > Score(m, "SHORT")
     THEN [dir |-> "LONG", conf |-> Average(m, "LONG")]
     ELSE IF Score(m, "SHORT") > 0
     THEN [dir |-> "SHORT", conf |-> Average(m, "SHORT")]
     ELSE Neutral(0)]

(* _compute_order_size: the fractional Kelly stake on an even-money bet,   *)
(* scaled by the profile.                                                  *)
OrderSize(conf) ==
  LET edge == Most(2 * conf - 10000, 0) IN
  (MaxPosition * ((((edge * KellyBps) \div 10000) * MultiplierBps) \div 10000)) \div 10000

(* The size an order would have.                                           *)
Approved == [m \in Markets |-> OrderSize(Ensemble[m].conf)]

(* The snapshots an order comes of: not blocked by the integrity gate,     *)
(* above the profile's floor and the tradeable confidence, with an edge,   *)
(* and not on top of a position of the same side (_signal_to_order).       *)
Wanted ==
  {m \in Markets :
     /\ Severity(m) # "HARD_BLOCK"
     /\ Ensemble[m].conf >= FloorBps
     /\ IsTradeable(Ensemble[m])
     /\ Approved[m] > 0
     /\ m.held # Ensemble[m].dir}

(* Those the gate does not refuse for a missing price, their confidence or *)
(* their size.                                                             *)
Admissible ==
  {m \in Wanted : /\ m.bars > 0
                  /\ Ensemble[m].conf >= MinConfidenceBps
                  /\ Approved[m] <= MaxPosition}

-----------------------------------------------------------------------------
(* _cli_size: what one lot is worth, in cents.  A contract of an inverse   *)
(* instrument is worth ctVal dollars, of a linear one ctVal of the base    *)
(* currency; a spot lot is base currency.                                  *)
LotCents(inst, price) ==
  inst.lot * (IF inst.type = "SPOT" THEN price
              ELSE IF inst.inverse THEN inst.ctVal ELSE inst.ctVal * price)

(* A mutant of Lots: the lots are rounded up.                              *)
LotsRoundedUp(usd, price, inst) ==
  IF LotCents(inst, price) = 0 THEN 0
  ELSE (100 * usd + LotCents(inst, price) - 1) \div LotCents(inst, price)

(* The dollars floored to whole lots; 0 when that is below the minimum of  *)
(* the instrument, or there is no price to convert with.                   *)
Lots(usd, price, inst) ==
  LET lots == (100 * usd) \div LotCents(inst, price) IN
  IF LotCents(inst, price) = 0 \/ lots * inst.lot < inst.min THEN 0 ELSE lots

=============================================================================
