---------------------------- MODULE SignalsProofs ----------------------------
(***************************************************************************)
(* Proofs about what a cycle makes of a market snapshot, for any snapshot, *)
(* profile and instrument.                                                 *)
(***************************************************************************)
EXTENDS Signals, FiniteSetTheorems, TLAPS

LEMMA Quotient ==
  ASSUME NEW a \in Nat, NEW b \in Nat \ {0}
  PROVE  (a \div b) \in Nat /\ (a \div b) * b <= a
OBVIOUS

(* Every strategy gives a signal of a confidence of at most 95 %.          *)
UpTo(n, bound) == n \in Nat /\ n <= bound
Bounded(sig) == sig.dir \in Directions /\ UpTo(sig.conf, 9500)

LEMMA NeutralBounded == Bounded(Neutral(0)) /\ Bounded(Neutral(3000))
BY DEF Bounded, UpTo, Neutral, Directions

LEMMA BetBounded ==
  ASSUME NEW n \in Nat, NEW cap \in Nat, cap <= 9500
  PROVE  /\ Bounded([dir |-> "LONG", conf |-> Least(n, cap)])
         /\ Bounded([dir |-> "SHORT", conf |-> Least(n, cap)])
<1> DEFINE k == Least(n, cap)
<1>1. k \in Nat /\ k <= 9500
  BY DEF Least
<1> HIDE DEF k
<1>3. Bounded([dir |-> "LONG", conf |-> k]) /\ Bounded([dir |-> "SHORT", conf |-> k])
  BY <1>1 DEF Bounded, UpTo, Directions
<1> QED
  BY <1>3 DEF k

LEMMA MeanReversionBounded ==
  ASSUME NEW m \in Market
  PROVE  Bounded(MeanReversion(m))
<1> DEFINE base == 6000 + (3500 * Least(Size(m.z), 200)) \div 200
           Bet(d) == [dir |-> d, conf |-> Least(base, 9500)]
<1>1. base \in Nat
  <2>1. m.z \in Int
    BY DEF Market
  <2>2. Least(Size(m.z), 200) \in Nat
    BY <2>1 DEF Least, Size
  <2> DEFINE n == Least(Size(m.z), 200)
  <2>3. n \in Nat
    BY <2>2
  <2> HIDE DEF n
  <2>4. 6000 + (3500 * n) \div 200 \in Nat
    BY <2>3
  <2> QED
    BY <2>4 DEF n
<1>2. \/ MeanReversion(m) = Bet("LONG") \/ MeanReversion(m) = Bet("SHORT")
      \/ MeanReversion(m) = Neutral(0) \/ MeanReversion(m) = Neutral(3000)
  BY DEF MeanReversion
<1> HIDE DEF base
<1>3. Bounded(Bet("LONG")) /\ Bounded(Bet("SHORT"))
  <2>1. 9500 \in Nat /\ 9000 \in Nat
    OBVIOUS
  <2> QED
    BY <1>1, <2>1, BetBounded
<1> HIDE DEF Bet
<1> QED
  BY <1>2, <1>3, NeutralBounded

LEMMA MomentumBounded ==
  ASSUME NEW m \in Market
  PROVE  Bounded(Momentum(m))
<1> DEFINE base == (500000 * Size(m.short - m.long)) \div m.long
                     + (IF m.volume THEN 6000 ELSE 4000)
           Bet(d) == [dir |-> d, conf |-> Least(base, 9500)]
<1>1. base \in Nat
  <2>1. m.short \in Nat /\ m.long \in Nat \ {0}
    BY DEF Market
  <2> DEFINE n == 500000 * Size(m.short - m.long)
             q == n \div m.long
             v == IF m.volume THEN 6000 ELSE 4000
  <2>2. n \in Nat
    BY <2>1 DEF Size
  <2> HIDE DEF n
  <2>3. q \in Nat
    BY <2>1, <2>2, Quotient
  <2>4. v \in Nat
    OBVIOUS
  <2> HIDE DEF q, v
  <2>5. q + v \in Nat
    BY <2>3, <2>4
  <2> QED
    BY <2>5 DEF q, v, n
<1>2. \/ Momentum(m) = Bet("LONG") \/ Momentum(m) = Bet("SHORT")
      \/ Momentum(m) = Neutral(0) \/ Momentum(m) = Neutral(3000)
  BY DEF Momentum
<1> HIDE DEF base
<1>3. Bounded(Bet("LONG")) /\ Bounded(Bet("SHORT"))
  <2>1. 9500 \in Nat /\ 9000 \in Nat
    OBVIOUS
  <2> QED
    BY <1>1, <2>1, BetBounded
<1> HIDE DEF Bet
<1> QED
  BY <1>2, <1>3, NeutralBounded

LEMMA FundingRateBounded ==
  ASSUME NEW m \in Market
  PROVE  Bounded(FundingRate(m))
<1> DEFINE base == 6000 + 10 * Size(m.funding)
           Bet(d) == [dir |-> d, conf |-> Least(base, 9000)]
<1>1. base \in Nat
  <2>1. m.funding \in Int
    BY DEF Market
  <2> QED
    BY <2>1 DEF Size
<1>2. \/ FundingRate(m) = Bet("LONG") \/ FundingRate(m) = Bet("SHORT")
      \/ FundingRate(m) = Neutral(3000)
  BY DEF FundingRate
<1> HIDE DEF base
<1>3. Bounded(Bet("LONG")) /\ Bounded(Bet("SHORT"))
  <2>1. 9500 \in Nat /\ 9000 \in Nat
    OBVIOUS
  <2> QED
    BY <1>1, <2>1, BetBounded
<1> HIDE DEF Bet
<1> QED
  BY <1>2, <1>3, NeutralBounded

(* So that no strategy adds more than 190 % to twice a score.              *)
LEMMA ContributionBounded ==
  ASSUME NEW m \in Market, NEW s \in Strategies, NEW d \in Directions
  PROVE  UpTo(Contribution(m, s, d), 19000)
<1> DEFINE sig == SignalOf(m, s)
           x == Contribution(m, s, d)
<1>1. Bounded(sig)
  BY MeanReversionBounded, MomentumBounded, FundingRateBounded DEF SignalOf
<1>2. x = 0 \/ x = 2 * sig.conf \/ x = sig.conf
  BY DEF Contribution
<1> HIDE DEF sig, x
<1>3. UpTo(x, 19000)
  BY <1>1, <1>2 DEF Bounded, UpTo
<1> QED
  BY <1>3 DEF x

LEMMA ScoreBounded ==
  ASSUME NEW m \in Market, NEW d \in Directions
  PROVE  /\ Score(m, d) \in Nat
         /\ Score(m, d) <= 57000 + 2 * Contribution(m, "funding_rate", d)
         /\ Generated = {} => Score(m, d) = 0
<1> DEFINE r == Contribution(m, "mean_reversion", d)
           o == Contribution(m, "momentum", d)
           f == Contribution(m, "funding_rate", d)
<1>1. UpTo(r, 19000) /\ UpTo(o, 19000) /\ UpTo(f, 19000)
  BY ContributionBounded DEF Strategies, PriceAction
<1>2. Generated = {} => r = 0 /\ o = 0 /\ f = 0
  BY DEF Contribution
<1>3. Score(m, d) = 2 * f + 2 * Most(r, o) + Least(r, o)
  BY DEF Score
<1> HIDE DEF r, o, f
<1>4. /\ Score(m, d) \in Nat
      /\ Score(m, d) <= 57000 + 2 * f
      /\ Generated = {} => Score(m, d) = 0
  BY <1>1, <1>2, <1>3 DEF Most, Least, UpTo
<1> QED
  BY <1>4 DEF f

LEMMA GeneratedFinite ==
  /\ Cardinality(Generated) \in Nat
  /\ Generated # {} => Cardinality(Generated) > 0
<1>1. Strategies = {"mean_reversion", "momentum", "funding_rate"}
  BY DEF Strategies, PriceAction
<1>2. IsFiniteSet({"mean_reversion"})
  BY FS_Singleton
<1>3. IsFiniteSet({"mean_reversion", "momentum"})
  <2>1. {"mean_reversion", "momentum"} = {"mean_reversion"} \cup {"momentum"}
    OBVIOUS
  <2> QED
    BY <1>2, <2>1, FS_AddElement
<1>4. IsFiniteSet(Strategies)
  <2>1. Strategies = {"mean_reversion", "momentum"} \cup {"funding_rate"}
    BY <1>1
  <2> QED
    BY <1>3, <2>1, FS_AddElement
<1>5. IsFiniteSet(Generated)
  BY <1>4, FS_Subset DEF Generated
<1> QED
  BY <1>5, FS_CardinalityType, FS_EmptySet

LEMMA AllStrategies == Cardinality(Strategies) = 3
<1>1. Cardinality({"mean_reversion"}) = 1 /\ IsFiniteSet({"mean_reversion"})
  BY FS_Singleton
<1>2. /\ Cardinality({"mean_reversion"} \cup {"momentum"}) = 2
      /\ IsFiniteSet({"mean_reversion"} \cup {"momentum"})
  BY <1>1, FS_AddElement
<1>3. Cardinality({"mean_reversion"} \cup {"momentum"} \cup {"funding_rate"}) = 3
  BY <1>2, FS_AddElement
<1> QED
  <2>1. Strategies = {"mean_reversion"} \cup {"momentum"} \cup {"funding_rate"}
    BY DEF Strategies, PriceAction
  <2> QED
    BY <1>3, <2>1

(* The ensemble's direction has the score its confidence is the average of.*)
LEMMA EnsembleScored ==
  ASSUME NEW m \in Markets
  PROVE  \/ Ensemble[m] = Neutral(0)
         \/ \E d \in Directions :
              /\ Score(m, d) > 0
              /\ Ensemble[m] = [dir |-> d, conf |-> Average(m, d)]
<1>1. m \in Market
  BY SignalsAssumption
<1>2. Score(m, "LONG") \in Nat /\ Score(m, "SHORT") \in Nat
  BY <1>1, ScoreBounded DEF Directions
<1>3. CASE Score(m, "LONG") > Score(m, "SHORT")
  <2>1. Ensemble[m] = [dir |-> "LONG", conf |-> Average(m, "LONG")]
    BY <1>3 DEF Ensemble
  <2>2. Score(m, "LONG") > 0
    BY <1>2, <1>3
  <2> QED
    BY <2>1, <2>2 DEF Directions
<1>4. CASE ~(Score(m, "LONG") > Score(m, "SHORT")) /\ Score(m, "SHORT") > 0
  BY <1>4 DEF Ensemble, Directions
<1>5. CASE ~(Score(m, "LONG") > Score(m, "SHORT")) /\ ~(Score(m, "SHORT") > 0)
  BY <1>5 DEF Ensemble
<1> QED
  BY <1>3, <1>4, <1>5

LEMMA EnsembleTyped ==
  ASSUME NEW m \in Markets
  PROVE  Ensemble[m].conf \in Nat
<1>1. CASE Ensemble[m] = Neutral(0)
  BY <1>1 DEF Neutral
<1>2. ASSUME NEW d \in Directions, Score(m, d) > 0,
             Ensemble[m] = [dir |-> d, conf |-> Average(m, d)]
      PROVE  Ensemble[m].conf \in Nat
  <2>1. Score(m, d) \in Nat /\ Generated # {}
    BY <1>2, ScoreBounded, SignalsAssumption
  <2>2. 4 * Cardinality(Generated) \in Nat \ {0}
    BY <2>1, GeneratedFinite
  <2>3. Average(m, d) \in Nat
    BY <2>1, <2>2, Quotient DEF Average, Least
  <2> QED
    BY <1>2, <2>3
<1> QED
  BY <1>1, <1>2, EnsembleScored

LEMMA ApprovedTyped ==
  ASSUME NEW m \in Markets
  PROVE  Approved[m] \in Nat
<1> DEFINE c == Ensemble[m].conf
           edge == Most(2 * c - 10000, 0)
           kelly == (edge * KellyBps) \div 10000
           scaled == (kelly * MultiplierBps) \div 10000
<1>1. c \in Nat /\ KellyBps \in Nat /\ MultiplierBps \in Nat /\ MaxPosition \in Nat
  BY EnsembleTyped, SignalsAssumption
<1>2. edge \in Nat
  BY <1>1 DEF Most
<1>3. Approved[m] = (MaxPosition * scaled) \div 10000
  BY DEF Approved, OrderSize
<1> HIDE DEF c, edge
<1>4. edge * KellyBps \in Nat
  BY <1>1, <1>2
<1>5. kelly \in Nat
  BY <1>4, Quotient
<1> HIDE DEF kelly
<1>6. kelly * MultiplierBps \in Nat
  BY <1>1, <1>5
<1>7. scaled \in Nat
  BY <1>6, Quotient
<1> HIDE DEF scaled
<1>8. MaxPosition * scaled \in Nat
  BY <1>1, <1>7
<1> QED
  BY <1>3, <1>8, Quotient

(* The price of a lot is a number of cents.                                *)
LEMMA LotTyped ==
  ASSUME NEW inst \in Instrument, NEW price \in Nat
  PROVE  LotCents(inst, price) \in Nat
<1>1. inst.lot \in Nat /\ inst.ctVal \in Nat
  BY DEF Instrument
<1>2. inst.ctVal * price \in Nat
  BY <1>1
<1>3. CASE inst.type = "SPOT"
  BY <1>1, <1>3 DEF LotCents
<1>4. CASE inst.type # "SPOT" /\ inst.inverse
  BY <1>1, <1>4 DEF LotCents
<1>5. CASE inst.type # "SPOT" /\ ~inst.inverse
  BY <1>1, <1>2, <1>5 DEF LotCents
<1> QED
  BY <1>3, <1>4, <1>5

(* _cli_size never rounds up: the lots sent are worth at most the dollars  *)
(* approved, whatever the instrument, its minimum and the price.           *)
THEOREM LotsWithinSize ==
  ASSUME NEW usd \in Nat, NEW price \in Nat, NEW inst \in Instrument
  PROVE  /\ Lots(usd, price, inst) \in Nat
         /\ Lots(usd, price, inst) * LotCents(inst, price) <= 100 * usd
<1> DEFINE lc == LotCents(inst, price)
           n == (100 * usd) \div lc
<1>1. lc \in Nat
  BY LotTyped
<1>2. Lots(usd, price, inst) = 0 \/ (lc # 0 /\ Lots(usd, price, inst) = n)
  BY DEF Lots
<1> HIDE DEF lc
<1>3. lc # 0 => n \in Nat /\ n * lc <= 100 * usd
  BY <1>1, Quotient
<1> HIDE DEF n
<1>4. 0 * lc <= 100 * usd
  BY <1>1
<1>5. Lots(usd, price, inst) \in Nat /\ Lots(usd, price, inst) * lc <= 100 * usd
  BY <1>1, <1>2, <1>3, <1>4
<1> QED
  BY <1>5 DEF lc

(* With every strategy let through, no agreement of the two price-action   *)
(* strategies is enough for an order: the funding rate has to agree.       *)
THEOREM PriceActionIsNotEnough ==
  ASSUME Generated = Strategies, NEW m \in Markets, IsTradeable(Ensemble[m])
  PROVE  FundingRate(m).dir = Ensemble[m].dir
<1>1. Ensemble[m].dir # "NEUTRAL" /\ Ensemble[m].conf >= 6000
  BY DEF IsTradeable
<1>2. PICK d \in Directions : Ensemble[m] = [dir |-> d, conf |-> Average(m, d)]
  BY <1>1, EnsembleScored DEF Neutral
<1>3. /\ Score(m, d) \in Nat
      /\ Score(m, d) <= 57000 + 2 * Contribution(m, "funding_rate", d)
  BY ScoreBounded, SignalsAssumption
<1>4. Average(m, d) = Least(Score(m, d) \div 12, 9500)
  BY AllStrategies DEF Average
<1>5. Score(m, d) >= 72000
  <2>1. Least(Score(m, d) \div 12, 9500) >= 6000
    BY <1>1, <1>2, <1>4
  <2>2. Score(m, d) \div 12 >= 6000
    BY <1>3, <2>1 DEF Least
  <2> QED
    BY <1>3, <2>2
<1>6. Contribution(m, "funding_rate", d) # 0
  BY <1>3, <1>5
<1>7. FundingRate(m).dir = d
  BY <1>6 DEF Contribution, SignalOf
<1> QED
  BY <1>2, <1>7

=============================================================================
