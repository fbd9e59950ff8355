--------------------------- MODULE MCTradingCycle ---------------------------
(***************************************************************************)
(* An instance of the trading service for TLC: two trades, one request to  *)
(* each operator endpoint.                                                 *)
(***************************************************************************)
EXTENDS TradingCycle

CONSTANTS t1, t2, log1, log2, record1, record2, halt, clear, attest

MCCalls == {log1, log2, record1, record2, halt, clear, attest}
MCKind ==
  [c \in MCCalls |-> CASE c \in {log1, log2} -> "log" [] c \in {record1, record2} -> "record"
                      [] c = halt -> "halt" [] c = clear -> "clear" [] c = attest -> "attest"]
MCDecisionOf == [c \in {record1, record2} |-> IF c = record1 THEN log1 ELSE log2]
MCLogOf == [t \in {t1, t2} |-> IF t = t1 THEN log1 ELSE log2]
MCRecordOf == [t \in {t1, t2} |-> IF t = t1 THEN record1 ELSE record2]

Quiet == [age |-> 0, nan |-> FALSE, bars |-> 50, first |-> 100, price |-> 100, z |-> 0,
          short |-> 1000, long |-> 1000, volume |-> TRUE, funding |-> 0, held |-> "none"]

(* Oversold, and shorts pay longs: two strategies agree.                   *)
Oversold == [Quiet EXCEPT !.z = -250, !.funding = -300]

(* An overbought run turns down: the price action agrees on SHORT.         *)
Turning == [Quiet EXCEPT !.price = 99, !.z = 201, !.long = 100, !.short = 98]

(* All three agree.                                                        *)
Crowded == [Turning EXCEPT !.funding = 250]

(* Oversold and Crowded come to an order.  The others do not: the price    *)
(* action alone is too weak, alone and against a funding rate of exactly   *)
(* the threshold; a downtrend; a position held; a stale snapshot.          *)
MCMarkets ==
  {Oversold, Turning, Crowded,
   [Oversold EXCEPT !.first = 110],
   [Crowded EXCEPT !.held = "SHORT"],
   [Crowded EXCEPT !.age = 31],
   [Turning EXCEPT !.funding = 100]}

(* The order of Oversold is below the minimum of the swap.                 *)
MCInstruments ==
  [t \in {t1, t2} |->
     [type |-> IF t = t1 THEN "SWAP" ELSE "SPOT", inverse |-> FALSE, ctVal |-> 2,
      lot |-> 7, min |-> IF t = t1 THEN 300 ELSE 14]]

=============================================================================
