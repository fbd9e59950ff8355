------------------------- MODULE TradingCycleProofs -------------------------
(***************************************************************************)
(* Proofs about the trading service, for any number of trades, calls and   *)
(* market snapshots, any profile and any instruments.                      *)
(***************************************************************************)
EXTENDS TradingCycle, OnchainLoggerProofs, SignalsProofs

(* Every step of the service is a step of the logger, or none.             *)
LEMMA NextRunsLogger ==
  ASSUME [Next]_vars
  PROVE  [LoggerNext]_loggerVars
<1>0. \A t \in Trades : LogOf[t] \in Calls /\ RecordOf[t] \in Calls
  BY CycleAssumption DEF OfKind
<1>1. ASSUME NEW t \in Trades, Advance(t) PROVE [LoggerNext]_loggerVars
  <2>1. CASE UNCHANGED loggerVars
    BY <2>1
  <2>2. CASE Ask(LogOf[t]) \/ Ask(RecordOf[t])
    BY <1>0, <2>2 DEF LoggerNext
  <2>3. ASSUME NEW state, Verify(t, state) PROVE Ask(RecordOf[t])
    BY <2>3 DEF Verify, Conclude
  <2>4. CASE Decide(t)
    BY <2>1, <2>2, <2>4 DEF Decide
  <2>5. CASE PlaceOrder(t)
    BY <2>1, <2>2, <2>5 DEF PlaceOrder, Conclude
  <2>6. CASE Send(t)
    BY <2>1, <2>2, <2>3, <2>6 DEF Send, Conclude
  <2>7. CASE Poll(t)
    BY <2>2, <2>3, <2>7 DEF Poll, Conclude
  <2>8. CASE AfterRecord(t) \/ ReadEquity(t) \/ ReportLoss(t)
    BY <2>1, <2>8 DEF AfterRecord, ReadEquity, ReportLoss, Book
  <2> QED
    BY <1>1, <2>4, <2>5, <2>6, <2>7, <2>8 DEF Advance, Resume, CliReturns
<1>2. ASSUME NEW t \in Trades, StartCycle(t) \/ LateFill(t)
      PROVE  [LoggerNext]_loggerVars
  BY <1>2 DEF StartCycle, LateFill
<1>3. ASSUME NEW c \in Calls, Activate(c) \/ Deactivate(c) \/ AttestNav(c) \/ ServeCall(c)
      PROVE  [LoggerNext]_loggerVars
  BY <1>3 DEF Activate, Deactivate, AttestNav, ServeCall, LoggerNext
<1>4. CASE Block \/ LoseTransaction \/ Restart
  BY <1>4 DEF Block, LoseTransaction, Restart, LoggerNext
<1>5. CASE UNCHANGED vars
  BY <1>5 DEF vars
<1> QED
  BY <1>1, <1>2, <1>3, <1>4, <1>5 DEF Next

(* The service uses the logger as the logger is specified, so that all     *)
(* that is proved of the logger holds in the service.                      *)
THEOREM CycleRunsLogger == Spec => LoggerSpec
<1>1. Init => LoggerInit
  BY DEF Init
<1>2. [Next]_vars => [LoggerNext]_loggerVars
  BY NextRunsLogger
<1> QED
  BY <1>1, <1>2, PTL DEF Spec, LoggerSpec

(* What the run checks of the logger, in the service: its answers are      *)
(* true, its calls are an at-most-once log on a chain that keeps the       *)
(* contract's ledger, nonces do not collide and an answered halt stands.   *)
THEOREM ServiceLogger ==
  Spec => []AnswersAreTrue /\ LogRefined /\ ChainIsLedger /\ []NoncesApart /\ []HaltStands
BY CycleRunsLogger, AnswersTrue, LoggerRefinesLog, ChainKeepsLedger, NumbersApart,
   AnsweredHaltStands, PTL

-----------------------------------------------------------------------------
(* What one trade does to the orders, seen from its own entries.           *)
Same(t) == lots'[t] = lots[t] /\ order'[t] = order[t] /\ told'[t] = told[t]
Left(t) == pc'[t] = "closing" /\ lots'[t] = 0 /\ order'[t] = order[t] /\ told'[t] = "none"
Moved(t) ==
  \/ pc[t] \in {"idle", "ended"} /\ pc'[t] = "fetched" /\ Same(t) /\ listed' = listed
  \/ pc[t] \in {"fetched", "logging", "recording"} /\ Left(t) /\ listed' = listed
  \/ /\ pc[t] = "recording" /\ at[RecordOf[t]] = "ok" /\ told[t] # "error"
     /\ Left(t) /\ listed' = listed \cup {t}
  \/ /\ pc[t] = "fetched" /\ md[t] \in Admissible /\ pc'[t] = "logging"
     /\ md'[t] = md[t] /\ Same(t) /\ listed' = listed
  \/ /\ pc[t] = "logging" /\ at[LogOf[t]] = "ok" /\ pc'[t] = "sending"
     /\ md'[t] = md[t] /\ Same(t) /\ listed' = listed
  \/ /\ pc[t] \in {"logging", "sending"} /\ pc'[t] = "recording" /\ md'[t] = md[t]
     /\ told'[t] = "error" /\ lots'[t] = lots[t] /\ order'[t] = order[t] /\ listed' = listed
  \/ /\ pc[t] = "sending" /\ pc'[t] \in {"polling", "recording"}
     /\ md'[t] = md[t] /\ order'[t] # "none" /\ listed' = listed
     /\ lots'[t] > 0 /\ lots'[t] = Lots(Approved[md[t]], md[t].price, Instruments[t])
  \/ /\ pc[t] = "polling" /\ pc'[t] \in {"polling", "recording"} /\ md'[t] = md[t]
     /\ lots'[t] = lots[t] /\ (order'[t] = order[t] \/ order'[t] # "none")
     /\ listed' = listed
  \/ /\ pc[t] \in {"closing", "read"} /\ pc'[t] \in {"read", "ended"}
     /\ md'[t] = md[t] /\ Same(t) /\ listed' = listed

(* The entries a step of trade t leaves alone, and their types.            *)
Apart(t) ==
  \A u \in Trades \ {t} :
    /\ pc'[u] = pc[u] /\ md'[u] = md[u] /\ lots'[u] = lots[u]
    /\ order'[u] = order[u] /\ told'[u] = told[u]
Labels == Underway \cup {"idle", "ended", "gone"}
OrderStates == {"none", "open", "filled", "slipped", "dead"}
CycleTyped ==
  /\ pc \in [Trades -> Labels]
  /\ md \in [Trades -> Markets \cup {NoMarket}]
  /\ lots \in [Trades -> Nat]
  /\ order \in [Trades -> OrderStates]
  /\ told \in [Trades -> {"none", "good", "bad", "error"}]
  /\ listed \subseteq Trades

(* An order under way comes of an admissible snapshot, and its lots, once  *)
(* they are sent, of the size approved for this snapshot.                  *)
DecidedInv ==
  \A t \in Trades :
    /\ pc[t] \in {"logging", "sending", "polling", "recording"} => md[t] \in Admissible
    /\ pc[t] \notin {"polling", "recording"} => lots[t] = 0
    /\ lots[t] > 0 =>
         /\ md[t] \in Admissible
         /\ lots[t] = Lots(Approved[md[t]], md[t].price, Instruments[t])

LEMMA LotsTyped ==
  ASSUME NEW m \in Markets, NEW t \in Trades
  PROVE  /\ Approved[m] \in Nat
         /\ LotCents(Instruments[t], m.price) \in Nat
         /\ Lots(Approved[m], m.price, Instruments[t]) \in Nat
<1>1. Approved[m] \in Nat
  BY ApprovedTyped
<1>2. m.price \in Nat
  BY SignalsAssumption DEF Market
<1>3. Instruments[t] \in Instrument
  BY CycleAssumption
<1> QED
  BY <1>1, <1>2, <1>3, LotTyped, LotsWithinSize

(* A step of one trade keeps the types.                                    *)
LEMMA TradeTyped ==
  ASSUME CycleTyped, DecidedInv, killed \in BOOLEAN,
         NEW t \in Trades, StartCycle(t) \/ Advance(t) \/ LateFill(t)
  PROVE  CycleTyped' /\ killed' \in BOOLEAN
<1>0. CycleTyped /\ killed \in BOOLEAN
  OBVIOUS
<1>1. CASE StartCycle(t)
  BY <1>0, <1>1 DEF StartCycle, Goto, CycleTyped, Labels, Underway
<1>2. ASSUME Leave(t), order' = order, listed' \subseteq Trades PROVE CycleTyped'
  BY <1>0, <1>2 DEF Leave, Goto, CycleTyped, Labels, Underway
<1>3. ASSUME NEW verdict \in {"good", "bad", "error"}, Conclude(t, verdict),
             md' = md, lots' \in [Trades -> Nat], order' \in [Trades -> OrderStates],
             listed' = listed
      PROVE  CycleTyped'
  BY <1>0, <1>3 DEF Conclude, Goto, CycleTyped, Labels, Underway
<1>4. ASSUME NEW state, Verify(t, state)
      PROVE  /\ killed' \in BOOLEAN
             /\ Conclude(t, "good") \/ Conclude(t, "bad")
  BY <1>0, <1>4 DEF Verify
<1>5. ASSUME NEW label \in Labels, Goto(t, label),
             UNCHANGED <<md, lots, order, told, listed>>
      PROVE  CycleTyped'
  BY <1>0, <1>5 DEF Goto, CycleTyped
<1>6. CASE Decide(t)
  <2>1. CASE Leave(t)
    BY <1>0, <1>2, <1>6, <2>1 DEF Decide, CycleTyped
  <2>2. CASE Goto(t, "logging") /\ UNCHANGED <<md, lots, told>>
    BY <1>0, <1>5, <1>6, <2>2 DEF Decide, Labels, Underway
  <2> QED
    BY <1>0, <1>6, <2>1, <2>2 DEF Decide
<1>7. CASE PlaceOrder(t)
  <2>1. CASE Leave(t)
    BY <1>0, <1>2, <1>7, <2>1 DEF PlaceOrder, CycleTyped
  <2>2. CASE Goto(t, "sending") /\ UNCHANGED <<md, lots, told>>
    BY <1>0, <1>5, <1>7, <2>2 DEF PlaceOrder, Labels, Underway
  <2>3. CASE Conclude(t, "error") /\ UNCHANGED <<md, lots>>
    BY <1>0, <1>3, <1>7, <2>3 DEF PlaceOrder, CycleTyped
  <2> QED
    BY <1>0, <1>7, <2>1, <2>2, <2>3 DEF PlaceOrder
<1>8. CASE Send(t)
  <2> DEFINE n == Lots(Approved[md[t]], md[t].price, Instruments[t])
  <2>1. CASE Conclude(t, "error") /\ UNCHANGED <<lots, order, killed>>
    BY <1>0, <1>3, <1>8, <2>1 DEF Send, CycleTyped
  <2>2. CASE /\ n > 0
             /\ lots' = [lots EXCEPT ![t] = n]
             /\ \E state \in {"open", "filled", "slipped", "dead"} :
                  /\ order' = [order EXCEPT ![t] = state]
                  /\ \/ Conclude(t, "error") /\ UNCHANGED killed
                     \/ Verify(t, state)
                     \/ Goto(t, "polling") /\ UNCHANGED <<told, killed>>
    <3>1. lots' \in [Trades -> Nat] /\ order' \in [Trades -> OrderStates]
      <4>1. n \in Nat
        <5>1. md[t] \in Markets
          BY <1>8 DEF Send, DecidedInv, Admissible, Wanted
        <5> QED
          BY <5>1, LotsTyped
      <4> HIDE DEF n
      <4> QED
        BY <1>0, <2>2, <4>1 DEF CycleTyped, OrderStates
    <3>2. killed' \in BOOLEAN
      BY <1>0, <1>4, <2>2
    <3>3. CASE Conclude(t, "error") \/ Conclude(t, "good") \/ Conclude(t, "bad")
      BY <1>0, <1>3, <1>8, <3>1, <3>2, <3>3 DEF Send
    <3>4. CASE Goto(t, "polling") /\ UNCHANGED told
      BY <1>0, <1>8, <3>1, <3>2, <3>4 DEF Send, Goto, CycleTyped, Labels, Underway
    <3> QED
      BY <1>4, <2>2, <3>2, <3>3, <3>4
  <2> QED
    BY <1>8, <2>1, <2>2 DEF Send
<1>9. CASE Poll(t)
  <2>1. Conclude(t, "error") \/ Conclude(t, "good") \/ Conclude(t, "bad")
    BY <1>4, <1>9 DEF Poll
  <2>2. killed' \in BOOLEAN
    BY <1>0, <1>4, <1>9 DEF Poll
  <2> QED
    BY <1>0, <1>3, <1>9, <2>1, <2>2 DEF Poll, CycleTyped
<1>10. CASE AfterRecord(t)
  <2>1. listed' \subseteq Trades
    BY <1>0, <1>10 DEF AfterRecord, CycleTyped
  <2> QED
    BY <1>0, <1>2, <1>10, <2>1 DEF AfterRecord
<1>11. CASE ReadEquity(t)
  BY <1>0, <1>5, <1>11 DEF ReadEquity, cycle, Labels, Underway
<1>12. CASE ReportLoss(t)
  <2>1. CycleTyped'
    BY <1>0, <1>5, <1>12 DEF ReportLoss, Book, cycle, Labels
  <2>2. killed' \in BOOLEAN
    BY <1>12 DEF ReportLoss, Book
  <2> QED
    BY <2>1, <2>2
<1>13. CASE LateFill(t)
  BY <1>0, <1>13 DEF LateFill, CycleTyped, OrderStates
<1> QED
  BY <1>0, <1>1, <1>6, <1>7, <1>8, <1>9, <1>10, <1>11, <1>12, <1>13
  DEF Advance, Resume, CliReturns

(* A step of one trade moves it as described, and no other.                *)
LEMMA TradeMoves ==
  ASSUME CycleTyped, NEW t \in Trades, StartCycle(t) \/ Advance(t) \/ LateFill(t)
  PROVE  Moved(t) /\ Apart(t)
<1>0. CycleTyped
  OBVIOUS
<1>1. CASE StartCycle(t)
  BY <1>0, <1>1 DEF StartCycle, Goto, CycleTyped, Moved, Apart, Same
<1>2. ASSUME Leave(t), order' = order PROVE Left(t) /\ Apart(t)
  BY <1>0, <1>2 DEF Leave, Goto, CycleTyped, Apart, Left
<1>3. ASSUME NEW verdict, Conclude(t, verdict), md' = md,
             lots' = lots \/ \E n : lots' = [lots EXCEPT ![t] = n],
             order' = order \/ \E state : order' = [order EXCEPT ![t] = state]
      PROVE  pc'[t] = "recording" /\ told'[t] = verdict /\ md'[t] = md[t] /\ Apart(t)
  BY <1>0, <1>3 DEF Conclude, Goto, CycleTyped, Apart
<1>4. ASSUME NEW state, Verify(t, state)
      PROVE  Conclude(t, "good") \/ Conclude(t, "bad")
  BY <1>4 DEF Verify
<1>5. ASSUME NEW label, Goto(t, label), UNCHANGED cycle
      PROVE  /\ pc'[t] = label /\ md'[t] = md[t] /\ Same(t) /\ listed' = listed
             /\ Apart(t)
  BY <1>0, <1>5 DEF Goto, CycleTyped, cycle, Same, Apart
<1>6. CASE Decide(t)
  <2>1. CASE Leave(t)
    BY <1>2, <1>6, <2>1 DEF Decide, Moved
  <2>2. CASE md[t] \in Admissible /\ Goto(t, "logging") /\ UNCHANGED <<md, lots, told>>
    <3>1. UNCHANGED cycle
      BY <1>6, <2>2 DEF Decide, cycle
    <3> QED
      BY <1>5, <1>6, <2>2, <3>1 DEF Decide, Moved
  <2> QED
    BY <1>6, <2>1, <2>2 DEF Decide
<1>7. CASE PlaceOrder(t)
  <2>1. CASE Leave(t)
    BY <1>2, <1>7, <2>1 DEF PlaceOrder, Moved
  <2>2. CASE at[LogOf[t]] = "ok" /\ Goto(t, "sending") /\ UNCHANGED <<md, lots, told>>
    <3>1. UNCHANGED cycle
      BY <1>7, <2>2 DEF PlaceOrder, cycle
    <3> QED
      BY <1>5, <1>7, <2>2, <3>1 DEF PlaceOrder, Moved
  <2>3. CASE Conclude(t, "error") /\ UNCHANGED <<md, lots>>
    BY <1>3, <1>7, <2>3 DEF PlaceOrder, Moved
  <2> QED
    BY <1>7, <2>1, <2>2, <2>3 DEF PlaceOrder
<1>8. CASE Send(t)
  <2> DEFINE n == Lots(Approved[md[t]], md[t].price, Instruments[t])
  <2>0. pc[t] = "sending" /\ md' = md /\ listed' = listed
    BY <1>8 DEF Send
  <2>1. CASE Conclude(t, "error") /\ UNCHANGED <<lots, order>>
    BY <1>3, <2>0, <2>1 DEF Moved
  <2>2. ASSUME NEW state \in {"open", "filled", "slipped", "dead"},
               n > 0, lots' = [lots EXCEPT ![t] = n], order' = [order EXCEPT ![t] = state],
               \/ Conclude(t, "error")
               \/ Verify(t, state)
               \/ Goto(t, "polling") /\ UNCHANGED told
        PROVE  Moved(t) /\ Apart(t)
    <3> HIDE DEF n
    <3>1. lots'[t] = n /\ order'[t] # "none"
      BY <1>0, <2>2 DEF CycleTyped
    <3>2. pc'[t] \in {"polling", "recording"} /\ md'[t] = md[t] /\ Apart(t)
      <4>1. CASE Conclude(t, "error") \/ Conclude(t, "good") \/ Conclude(t, "bad")
        BY <1>3, <2>0, <2>2, <4>1
      <4>2. CASE Goto(t, "polling") /\ UNCHANGED told
        BY <1>0, <2>0, <2>2, <4>2 DEF Goto, CycleTyped, Apart
      <4> QED
        BY <1>4, <2>2, <4>1, <4>2
    <3> QED
      BY <2>0, <2>2, <3>1, <3>2 DEF Moved, n
  <2> QED
    BY <1>8, <2>1, <2>2 DEF Send
<1>9. CASE Poll(t)
  <2>1. Conclude(t, "error") \/ Conclude(t, "good") \/ Conclude(t, "bad")
    BY <1>4, <1>9 DEF Poll
  <2>2. pc[t] = "polling" /\ UNCHANGED <<md, lots, order, listed>>
    BY <1>9 DEF Poll
  <2> QED
    BY <1>3, <2>1, <2>2 DEF Moved
<1>10. CASE AfterRecord(t)
  BY <1>2, <1>10 DEF AfterRecord, Moved
<1>11. CASE ReadEquity(t)
  BY <1>5, <1>11 DEF ReadEquity, Moved
<1>12. CASE ReportLoss(t)
  BY <1>5, <1>12 DEF ReportLoss, Book, Moved
<1>13. CASE LateFill(t)
  BY <1>0, <1>13 DEF LateFill, CycleTyped, Moved, Apart
<1> QED
  BY <1>1, <1>6, <1>7, <1>8, <1>9, <1>10, <1>11, <1>12, <1>13
  DEF Advance, Resume, CliReturns

(* No other step touches a trade, except a restart.                        *)
LEMMA StepTrades ==
  ASSUME CycleTyped, [Next]_vars
  PROVE  \/ \E t \in Trades : /\ StartCycle(t) \/ Advance(t) \/ LateFill(t)
                              /\ Moved(t) /\ Apart(t)
         \/ Restart
         \/ UNCHANGED <<pc, cycle>>
<1>1. CASE Next
  BY <1>1, TradeMoves
  DEF Next, Activate, Deactivate, AttestNav, ServeCall, Block, LoseTransaction
<1>2. CASE UNCHANGED vars
  BY <1>2 DEF vars
<1> QED
  BY <1>1, <1>2

LEMMA DecidedStep ==
  ASSUME CycleTyped, DecidedInv, [Next]_vars
  PROVE  DecidedInv'
<1>1. ASSUME NEW t \in Trades, Moved(t), Apart(t) PROVE DecidedInv'
  <2> SUFFICES ASSUME NEW u \in Trades
               PROVE  /\ pc'[u] \in {"logging", "sending", "polling", "recording"}
                           => md'[u] \in Admissible
                      /\ pc'[u] \notin {"polling", "recording"} => lots'[u] = 0
                      /\ lots'[u] > 0 =>
                           /\ md'[u] \in Admissible
                           /\ lots'[u] = Lots(Approved[md'[u]], md'[u].price, Instruments[u])
    BY DEF DecidedInv
  <2>1. CASE u # t
    BY <1>1, <2>1 DEF Apart, DecidedInv
  <2>2. CASE u = t
    BY <1>1, <2>2 DEF Moved, Left, Same, DecidedInv
  <2> QED
    BY <2>1, <2>2
<1>2. CASE Restart
  BY <1>2 DEF Restart, DecidedInv, CycleTyped, Underway
<1>3. CASE UNCHANGED <<pc, cycle>>
  BY <1>3 DEF cycle, DecidedInv
<1> QED
  BY <1>1, <1>2, <1>3, StepTrades

-----------------------------------------------------------------------------
(* The loss feed: the net fall of a day's readings is no more than what is *)
(* booked on the day, and a day booked up to the limit has tripped the     *)
(* switch.                                                                 *)
FeedTyped ==
  /\ day \in Days /\ pin \in [Trades -> Days]
  /\ reading \in [Trades -> Equities \cup {Unset}]
  /\ baseline \in Equities \cup {Unset}
  /\ booked \in [Days -> Nat] /\ fell \in [Days -> Int]
  /\ tripped \subseteq Days
FeedInv ==
  /\ \A t \in Trades : pc[t] = "read" => reading[t] \in Equities
  /\ \A d \in Days : fell[d] <= booked[d] /\ (booked[d] >= LossLimit => d \in tripped)

LEMMA EquitiesAreMoney ==
  /\ \A e \in Equities : e \in Nat /\ e # Unset
  /\ LossLimit \in Nat \ {0}
BY CycleAssumption DEF Unset

LEMMA ReportStep ==
  ASSUME CycleTyped, FeedTyped, FeedInv, NEW t \in Trades, ReportLoss(t)
  PROVE  FeedTyped' /\ FeedInv'
<1> DEFINE fall == Fall(t)
           loss == Most(fall, 0)
           d == pin[t]
<1>0. /\ d \in Days /\ baseline \in Equities \cup {Unset}
      /\ reading \in [Trades -> Equities \cup {Unset}]
      /\ booked \in [Days -> Nat] /\ fell \in [Days -> Int] /\ tripped \subseteq Days
  BY DEF FeedTyped
<1>1. /\ pc[t] = "read" /\ baseline' = reading[t]
      /\ booked' = [booked EXCEPT ![d] = booked[d] + loss]
      /\ fell' = [fell EXCEPT ![d] = fell[d] + fall]
      /\ tripped' = IF loss > 0 /\ booked[d] + loss >= LossLimit
                    THEN tripped \cup {d} ELSE tripped
      /\ reading' = [reading EXCEPT ![t] = Unset]
      /\ pin' = [pin EXCEPT ![t] = 0]
      /\ pc' = [pc EXCEPT ![t] = "ended"]
      /\ day' = day
  BY DEF ReportLoss, Book, Goto, Breached
<1>2. reading[t] \in Equities /\ reading[t] \in Nat
  BY <1>1, EquitiesAreMoney DEF FeedInv
<1>3. fall \in Int /\ loss \in Nat /\ fall <= loss
  <2>1. fall \in Int
    BY <1>0, <1>2, EquitiesAreMoney DEF Fall
  <2> HIDE DEF fall
  <2> QED
    BY <2>1 DEF Most
<1> HIDE DEF fall, loss, d
<1>4. FeedTyped'
  <2>1. booked' \in [Days -> Nat] /\ fell' \in [Days -> Int] /\ tripped' \subseteq Days
    BY <1>0, <1>1, <1>3
  <2>2. /\ reading' \in [Trades -> Equities \cup {Unset}]
        /\ baseline' \in Equities \cup {Unset}
    BY <1>0, <1>1, <1>2
  <2>3. day' \in Days /\ pin' \in [Trades -> Days]
    BY <1>1, CycleAssumption DEF FeedTyped, Days
  <2> QED
    BY <2>1, <2>2, <2>3 DEF FeedTyped
<1>5. \A u \in Trades : pc'[u] = "read" => reading'[u] \in Equities
  BY <1>1 DEF CycleTyped, FeedTyped, FeedInv
<1>6. ASSUME NEW e \in Days
      PROVE  fell'[e] <= booked'[e] /\ (booked'[e] >= LossLimit => e \in tripped')
  <2>0. /\ fell[e] <= booked[e] /\ (booked[e] >= LossLimit => e \in tripped)
        /\ fell[e] \in Int /\ booked[e] \in Nat
    BY <1>0 DEF FeedInv
  <2>1. CASE e # d
    <3>1. fell'[e] = fell[e] /\ booked'[e] = booked[e] /\ tripped \subseteq tripped'
      BY <1>0, <1>1, <2>1
    <3> QED
      BY <2>0, <3>1
  <2>2. CASE e = d
    <3>1. fell'[e] = fell[e] + fall /\ booked'[e] = booked[e] + loss
      BY <1>0, <1>1, <2>2
    <3>2. fell'[e] <= booked'[e]
      BY <1>3, <2>0, <3>1
    <3>3. CASE loss = 0
      <4>1. booked'[e] = booked[e] /\ tripped \subseteq tripped'
        BY <1>1, <2>0, <3>1, <3>3
      <4> QED
        BY <2>0, <3>2, <4>1
    <3>4. CASE loss > 0
      BY <1>1, <2>2, <3>1, <3>2, <3>4
    <3> QED
      BY <1>3, <3>3, <3>4
  <2> QED
    BY <2>1, <2>2
<1> QED
  BY <1>4, <1>5, <1>6 DEF FeedInv

(* Every other step leaves the books of the feed alone, or forgets them.   *)
LEMMA FeedStep ==
  ASSUME CycleTyped, CycleTyped', FeedTyped, FeedInv, [Next]_vars
  PROVE  FeedTyped' /\ FeedInv'
<1>0. LastDay \in Nat /\ 0 \in Days
  BY CycleAssumption DEF Days
<1>1. ASSUME NEW t \in Trades, ReportLoss(t) PROVE FeedTyped' /\ FeedInv'
  BY <1>1, ReportStep
<1>2. ASSUME NEW t \in Trades, ReadEquity(t) PROVE FeedTyped' /\ FeedInv'
  <2>1. UNCHANGED <<day, baseline, booked, fell, tripped>>
    BY <1>2 DEF ReadEquity
  <2>2. \/ /\ pc' = [pc EXCEPT ![t] = "read"] /\ pin' = pin
           /\ \E e \in Equities : reading' = [reading EXCEPT ![t] = e]
        \/ /\ pc' = [pc EXCEPT ![t] = "ended"] /\ reading' = reading
           /\ pin' = [pin EXCEPT ![t] = 0]
    BY <1>2 DEF ReadEquity, Goto
  <2>3. reading' \in [Trades -> Equities \cup {Unset}] /\ pin' \in [Trades -> Days]
    BY <1>0, <2>2 DEF FeedTyped
  <2>4. \A u \in Trades : pc'[u] = "read" => reading'[u] \in Equities
    BY <2>2 DEF CycleTyped, FeedTyped, FeedInv
  <2> QED
    BY <2>1, <2>3, <2>4 DEF FeedTyped, FeedInv
<1>3. ASSUME UNCHANGED books, day' \in Days, pin' \in [Trades -> Days],
             \A u \in Trades : pc'[u] = "read" => pc[u] = "read"
      PROVE  FeedTyped' /\ FeedInv'
  BY <1>3 DEF books, FeedTyped, FeedInv
<1>4. ASSUME NEW t \in Trades, Decide(t) \/ PlaceOrder(t) \/ Send(t) \/ Poll(t)
               \/ AfterRecord(t) \/ LateFill(t)
      PROVE  FeedTyped' /\ FeedInv'
  <2>1. UNCHANGED feed
    BY <1>4 DEF LateFill, Decide, PlaceOrder, Send, Poll, AfterRecord
  <2>2. pc' = pc \/ \E label \in Labels \ {"read"} : pc' = [pc EXCEPT ![t] = label]
    BY <1>4 DEF LateFill, Decide, PlaceOrder, Send, Poll, AfterRecord,
                Leave, Conclude, Verify, Goto, Labels, Underway
  <2>3. \A u \in Trades : pc'[u] = "read" => pc[u] = "read"
    BY <2>2 DEF CycleTyped
  <2> QED
    BY <1>3, <2>1, <2>3 DEF feed, FeedTyped
<1>5. ASSUME NEW t \in Trades, StartCycle(t) PROVE FeedTyped' /\ FeedInv'
  <2>1. UNCHANGED books /\ pc' = [pc EXCEPT ![t] = "fetched"]
    BY <1>5 DEF StartCycle, Goto
  <2>2. day' = day \/ day' \in day..LastDay
    BY <1>5 DEF StartCycle
  <2>3. day' \in Days
    BY <1>0, <2>2 DEF FeedTyped, Days
  <2>4. pin' \in [Trades -> Days]
    BY <1>5, <2>3 DEF StartCycle, FeedTyped
  <2>5. \A u \in Trades : pc'[u] = "read" => pc[u] = "read"
    BY <2>1 DEF CycleTyped
  <2> QED
    BY <1>3, <2>1, <2>3, <2>4, <2>5
<1>6. CASE Restart
  <2>1. /\ pin' = [t \in Trades |-> 0] /\ reading' = [t \in Trades |-> Unset]
        /\ baseline' = Unset /\ fell' = [d \in Days |-> 0]
        /\ UNCHANGED <<day, booked, tripped>>
    BY <1>6 DEF Restart
  <2>2. \A u \in Trades : pc'[u] # "read"
    BY <1>6 DEF Restart, Underway, CycleTyped
  <2>3. \A d \in Days : fell'[d] <= booked'[d]
    BY <2>1 DEF FeedTyped
  <2>4. FeedTyped'
    BY <1>0, <2>1 DEF FeedTyped
  <2> QED
    BY <2>1, <2>2, <2>3, <2>4 DEF FeedInv
<1>7. ASSUME UNCHANGED <<pc, feed>> PROVE FeedTyped' /\ FeedInv'
  BY <1>3, <1>7 DEF feed, FeedTyped
<1>8. ASSUME NEW c \in Calls, Activate(c) \/ Deactivate(c) \/ AttestNav(c) \/ ServeCall(c)
      PROVE  FeedTyped' /\ FeedInv'
  BY <1>7, <1>8 DEF Activate, Deactivate, AttestNav, ServeCall
<1>9. CASE Block \/ LoseTransaction
  BY <1>7, <1>9 DEF Block, LoseTransaction
<1>10. CASE UNCHANGED vars
  BY <1>7, <1>10 DEF vars
<1> QED
  BY <1>1, <1>2, <1>4, <1>5, <1>6, <1>8, <1>9, <1>10 DEF Next, Advance, Resume, CliReturns

-----------------------------------------------------------------------------
(* The parts of the service's state that the logger does not keep.         *)
ServiceInv ==
  /\ CycleTyped /\ DecidedInv
  /\ FeedTyped /\ FeedInv
  /\ killed \in BOOLEAN
  /\ lifted \subseteq Calls
  /\ extras \in Nat

LEMMA ServiceStep ==
  ASSUME LoggerTypeOK, ServiceInv, [Next]_vars
  PROVE  ServiceInv'
<1>0. CycleTyped /\ DecidedInv /\ FeedTyped /\ FeedInv /\ killed \in BOOLEAN
  BY DEF ServiceInv
<1>1. CycleTyped'
  <2>1. CASE UNCHANGED <<pc, cycle>>
    BY <1>0, <2>1 DEF cycle, CycleTyped
  <2>2. CASE Restart
    <3>1. pc' \in [Trades -> Labels]
      BY <1>0, <2>2 DEF Restart, CycleTyped, Labels
    <3>2. /\ md' \in [Trades -> Markets \cup {NoMarket}]
          /\ lots' \in [Trades -> Nat]
          /\ told' \in [Trades -> {"none", "good", "bad", "error"}]
      BY <2>2 DEF Restart
    <3>3. order' = order /\ listed' = listed
      BY <2>2 DEF Restart
    <3> QED
      BY <1>0, <3>1, <3>2, <3>3 DEF CycleTyped
  <2> QED
    BY <1>0, <2>1, <2>2, StepTrades, TradeTyped
<1>2. DecidedInv'
  BY <1>0, DecidedStep
<1>3. FeedTyped' /\ FeedInv'
  BY <1>0, <1>1, FeedStep
<1>4. killed' \in BOOLEAN
  <2>1. ASSUME NEW t \in Trades, StartCycle(t) \/ Advance(t) \/ LateFill(t)
        PROVE  killed' \in BOOLEAN
    BY <1>0, <2>1, TradeTyped
  <2>2. ASSUME NEW c \in Calls, Activate(c) \/ Deactivate(c) \/ AttestNav(c) \/ ServeCall(c)
        PROVE  killed' \in BOOLEAN
    BY <1>0, <2>2 DEF Activate, Deactivate, AttestNav, ServeCall
  <2>3. CASE Restart
    BY <2>3 DEF Restart, LoggerTypeOK
  <2>4. CASE Block \/ LoseTransaction \/ UNCHANGED vars
    BY <1>0, <2>4 DEF Block, LoseTransaction, vars
  <2> QED
    BY <2>1, <2>2, <2>3, <2>4 DEF Next
<1>5. lifted' \subseteq Calls
  <2>1. ASSUME NEW t \in Trades, StartCycle(t) \/ Advance(t) \/ LateFill(t)
        PROVE  lifted' = lifted
    BY <2>1 DEF StartCycle, Advance, Resume, CliReturns, LateFill, Decide, PlaceOrder, Send, Poll,
                AfterRecord, ReadEquity, ReportLoss, Book
  <2>2. ASSUME NEW c \in Calls, Activate(c) \/ Deactivate(c) \/ AttestNav(c) \/ ServeCall(c)
        PROVE  lifted' \subseteq Calls
    BY <2>2 DEF Activate, Deactivate, AttestNav, ServeCall, ServiceInv
  <2>3. CASE Block \/ LoseTransaction \/ Restart \/ UNCHANGED vars
    BY <2>3 DEF Block, LoseTransaction, Restart, vars, ServiceInv
  <2> QED
    BY <2>1, <2>2, <2>3 DEF Next, ServiceInv
<1>6. extras' \in Nat
  <2>1. ASSUME NEW t \in Trades, StartCycle(t) PROVE extras' \in Nat
    <3>1. extras \in Nat /\ day \in Days /\ LastDay \in Nat
      BY CycleAssumption DEF ServiceInv, FeedTyped
    <3>2. \/ extras' = extras
          \/ day' \in day..LastDay /\ extras' = extras + 1 + (day' - day)
      BY <2>1 DEF StartCycle
    <3> QED
      BY <3>1, <3>2 DEF Days
  <2>2. ASSUME NEW t \in Trades, Advance(t) \/ LateFill(t) PROVE extras' = extras \/ Extra
    BY <2>2 DEF Advance, Resume, CliReturns, LateFill, Decide, PlaceOrder, Send, Poll,
                AfterRecord, ReadEquity, ReportLoss, Book
  <2>3. ASSUME NEW c \in Calls, Activate(c) \/ Deactivate(c) \/ AttestNav(c) \/ ServeCall(c)
        PROVE  extras' = extras \/ Extra
    BY <2>3 DEF Activate, Deactivate, AttestNav, ServeCall
  <2>4. CASE Block \/ LoseTransaction \/ Restart \/ UNCHANGED vars
    BY <2>4 DEF Block, LoseTransaction, Restart, vars, ServiceInv
  <2>5. extras' = extras \/ Extra => extras' \in Nat
    BY DEF Extra, ServiceInv
  <2> QED
    BY <2>1, <2>2, <2>3, <2>4, <2>5 DEF Next
<1> QED
  BY <1>1, <1>2, <1>3, <1>4, <1>5, <1>6 DEF ServiceInv

LEMMA ServiceStarts ==
  ASSUME Init
  PROVE  ServiceInv
<1>1. CycleTyped
  <2>1. pc \in [Trades -> Labels] /\ md \in [Trades -> Markets \cup {NoMarket}]
    BY DEF Init, Labels
  <2>2. /\ lots \in [Trades -> Nat] /\ order \in [Trades -> OrderStates]
        /\ told \in [Trades -> {"none", "good", "bad", "error"}]
    BY DEF Init, OrderStates
  <2> QED
    BY <2>1, <2>2 DEF Init, CycleTyped
<1>2. DecidedInv
  BY DEF Init, DecidedInv
<1>3. FeedTyped
  BY CycleAssumption DEF Init, FeedTyped, Days
<1>4. FeedInv
  <2>1. \A d \in Days : booked[d] = 0 /\ fell[d] = 0
    BY DEF Init
  <2>2. \A t \in Trades : pc[t] # "read"
    BY DEF Init
  <2> QED
    BY <2>1, <2>2, EquitiesAreMoney DEF FeedInv
<1> QED
  BY <1>1, <1>2, <1>3, <1>4 DEF Init, ServiceInv

LEMMA ServiceHolds == Spec => []ServiceInv
<1>1. Init => ServiceInv
  BY ServiceStarts
<1>2. LoggerTypeOK /\ ServiceInv /\ [Next]_vars => ServiceInv'
  BY ServiceStep
<1> QED
  BY <1>1, <1>2, CycleRunsLogger, LoggerTypeCorrect, PTL DEF Spec

(* The state of the service is well typed: an order comes of a snapshot    *)
(* the cycle still has, and the loss feed never counts backwards.          *)
THEOREM CycleTypeCorrect == Spec => []TypeOK
<1> DEFINE Bounds == extras <= Budget
<1>1. Init => Bounds
  BY CycleAssumption DEF Init
<1>2. Bounds /\ ServiceInv' /\ LoggerTypeOK' /\ [Next]_vars => Bounds'
  <2> SUFFICES ASSUME Bounds, ServiceInv', LoggerTypeOK', [Next]_vars
               PROVE  extras' <= Budget
    OBVIOUS
  <2>1. extras' \in Nat /\ mishaps' \in Nat /\ Budget \in Nat
    BY CycleAssumption DEF ServiceInv, LoggerTypeOK
  <2>2. CASE extras' + mishaps' <= Budget
    <3>1. \A a, b, n \in Nat : a + b <= n => a <= n
      OBVIOUS
    <3> QED
      BY <2>1, <2>2, <3>1
  <2>3. CASE UNCHANGED vars
    BY <2>3 DEF vars
  <2> QED
    BY <2>2, <2>3 DEF Next, WithinBudget
<1>3. LoggerTypeOK /\ ServiceInv /\ Bounds => TypeOK
  <2> SUFFICES ASSUME LoggerTypeOK, ServiceInv, Bounds PROVE TypeOK
    OBVIOUS
  <2>1. extras \in 0..Budget
    BY CycleAssumption DEF ServiceInv
  <2> QED
    BY <2>1 DEF TypeOK, ServiceInv, CycleTyped, FeedTyped, Labels, OrderStates
<1> HIDE DEF Bounds
<1> QED
  BY <1>1, <1>2, <1>3, ServiceHolds, CycleRunsLogger, LoggerTypeCorrect, PTL DEF Spec

(* Readings pinned to one day that have fallen by the limit have tripped   *)
(* the switch, in whatever order overlapping cycles apply them and on      *)
(* whichever side of midnight.                                             *)
THEOREM NetLossTrips == Spec => []NetLossTripped
<1>1. ServiceInv => NetLossTripped
  <2> SUFFICES ASSUME ServiceInv, NEW d \in Days, fell[d] >= LossLimit
               PROVE  d \in tripped
    BY DEF NetLossTripped
  <2>1. fell[d] \in Int /\ booked[d] \in Nat /\ LossLimit \in Nat
    BY EquitiesAreMoney DEF ServiceInv, FeedTyped
  <2>2. fell[d] <= booked[d]
    BY DEF ServiceInv, FeedInv
  <2>3. booked[d] >= LossLimit
    BY <2>1, <2>2
  <2> QED
    BY <2>3 DEF ServiceInv, FeedInv
<1> QED
  BY <1>1, ServiceHolds, PTL

(* With every strategy let through, an order has the funding rate on its   *)
(* side, whatever the snapshot, the floor and the gate's minimum.          *)
THEOREM OrdersHaveIndependentEvidence == Spec => []EvidenceIsIndependent
<1>1. ServiceInv => EvidenceIsIndependent
  <2> SUFFICES ASSUME ServiceInv, Generated = Strategies, NEW t \in Trades,
                      pc[t] \in {"logging", "sending", "polling", "recording"}
               PROVE  FundingRate(md[t]).dir = Ensemble[md[t]].dir
    BY DEF EvidenceIsIndependent
  <2>1. md[t] \in Markets /\ IsTradeable(Ensemble[md[t]])
    BY DEF ServiceInv, DecidedInv, Admissible, Wanted
  <2> QED
    BY <2>1, PriceActionIsNotEnough
<1> QED
  BY <1>1, ServiceHolds, PTL

(* The lots sent are worth no more than the size the gate approved, and    *)
(* that size is within the position limit.                                 *)
THEOREM OrdersWithinDecision == Spec => []OrderWithinDecision
<1>1. ServiceInv => OrderWithinDecision
  <2> SUFFICES ASSUME ServiceInv, NEW t \in Trades, lots[t] > 0
               PROVE  /\ lots[t] * LotCents(Instruments[t], md[t].price)
                           <= 100 * Approved[md[t]]
                      /\ Approved[md[t]] <= MaxPosition
    BY DEF OrderWithinDecision
  <2>1. /\ md[t] \in Markets /\ Approved[md[t]] <= MaxPosition
        /\ lots[t] = Lots(Approved[md[t]], md[t].price, Instruments[t])
    BY DEF ServiceInv, DecidedInv, Admissible, Wanted
  <2>2. Approved[md[t]] \in Nat /\ md[t].price \in Nat /\ Instruments[t] \in Instrument
    BY <2>1, ApprovedTyped, SignalsAssumption, CycleAssumption DEF Market
  <2>3. lots[t] * LotCents(Instruments[t], md[t].price) <= 100 * Approved[md[t]]
    BY <2>1, <2>2, LotsWithinSize
  <2> QED
    BY <2>1, <2>3
<1> QED
  BY <1>1, ServiceHolds, PTL

-----------------------------------------------------------------------------
(* What has taken effect on the chain stays.                               *)
LEMMA TookGrows ==
  ASSUME LoggerTypeOK, [LoggerNext]_loggerVars, NEW c \in Calls, took[c] > 0
  PROVE  took'[c] > 0
<1>0. took \in [Calls -> Nat]
  BY DEF LoggerTypeOK
<1>1. CASE Mine
  <2>1. PICK tx \in pool, ok \in BOOLEAN : Execute(tx, ok)
    BY <1>1 DEF Mine
  <2>2. took' = took \/ took' = [took EXCEPT ![tx.call] = took[tx.call] + 1]
    BY <2>1 DEF Execute
  <2>3. took'[c] = took[c] \/ took'[c] = took[c] + 1
    BY <1>0, <2>2
  <2> QED
    BY <1>0, <2>3
<1>2. CASE UNCHANGED took
  BY <1>2
<1> QED
  BY <1>1, <1>2, StepEffects

(* A trade whose order is being sent, or has been, is logged; what a cycle *)
(* lists has its order at the exchange and its receipt on the chain.       *)
OrderInv ==
  \A t \in Trades :
    /\ pc[t] \in {"sending", "polling"} \/ order[t] # "none" => took[LogOf[t]] > 0
    /\ pc[t] = "polling" => order[t] # "none"
    /\ pc[t] = "recording" /\ told[t] # "error" => order[t] # "none"
    /\ t \in listed => order[t] # "none" /\ took[RecordOf[t]] > 0

LEMMA CallsOfTrades ==
  ASSUME NEW t \in Trades
  PROVE  /\ LogOf[t] \in Calls /\ Kind[LogOf[t]] # "attest"
         /\ RecordOf[t] \in Calls /\ Kind[RecordOf[t]] # "attest"
BY CycleAssumption DEF OfKind

LEMMA OrderStep ==
  ASSUME LoggerTypeOK, CycleTyped, AnswersAreTrue, OrderInv, [Next]_vars
  PROVE  OrderInv'
<1>0. \A c \in Calls : took[c] > 0 => took'[c] > 0
  BY NextRunsLogger, TookGrows
<1>1. \A t \in Trades : /\ at[LogOf[t]] = "ok" => took[LogOf[t]] > 0
                        /\ at[RecordOf[t]] = "ok" => took[RecordOf[t]] > 0
  BY CallsOfTrades DEF AnswersAreTrue
<1> SUFFICES ASSUME NEW u \in Trades
             PROVE  /\ pc'[u] \in {"sending", "polling"} \/ order'[u] # "none"
                         => took'[LogOf[u]] > 0
                    /\ pc'[u] = "polling" => order'[u] # "none"
                    /\ pc'[u] = "recording" /\ told'[u] # "error" => order'[u] # "none"
                    /\ u \in listed' => order'[u] # "none" /\ took'[RecordOf[u]] > 0
  BY DEF OrderInv
<1>2. /\ took[LogOf[u]] > 0 => took'[LogOf[u]] > 0
      /\ took[RecordOf[u]] > 0 => took'[RecordOf[u]] > 0
  BY <1>0, CallsOfTrades
<1>3. ASSUME NEW t \in Trades, Moved(t), Apart(t), u # t
      PROVE  /\ pc'[u] = pc[u] /\ order'[u] = order[u] /\ told'[u] = told[u]
             /\ u \in listed' => u \in listed
  BY <1>3 DEF Moved, Apart
<1>4. CASE Moved(u)
  <2>1. /\ u \in listed => order[u] # "none" /\ took[RecordOf[u]] > 0
        /\ order[u] # "none" => order'[u] # "none"
    BY <1>4 DEF Moved, Same, Left, OrderInv
  <2>2. pc'[u] \in {"sending", "polling"} \/ order'[u] # "none" => took[LogOf[u]] > 0
    BY <1>1, <1>4 DEF Moved, Same, Left, OrderInv
  <2>3. pc'[u] = "polling" => order'[u] # "none"
    BY <1>4 DEF Moved, Same, Left, OrderInv
  <2>4. pc'[u] = "recording" /\ told'[u] # "error" => order'[u] # "none"
    BY <1>4 DEF Moved, Same, Left, OrderInv
  <2>5. u \in listed' =>
          u \in listed \/ (order'[u] # "none" /\ took[RecordOf[u]] > 0)
    BY <1>1, <1>4 DEF Moved, Same, Left, OrderInv
  <2> QED
    BY <1>2, <2>1, <2>2, <2>3, <2>4, <2>5
<1>5. CASE Restart
  <2>1. order' = order /\ listed' = listed
    BY <1>5 DEF Restart
  <2>2. pc'[u] \notin {"sending", "polling", "recording"}
    BY <1>5 DEF Restart, Underway, CycleTyped
  <2> QED
    BY <1>2, <2>1, <2>2 DEF OrderInv
<1>6. CASE UNCHANGED <<pc, cycle>>
  BY <1>2, <1>6 DEF cycle, OrderInv
<1>7. ASSUME NEW t \in Trades, Moved(t), Apart(t), u # t
      PROVE  /\ pc'[u] \in {"sending", "polling"} \/ order'[u] # "none"
                  => took'[LogOf[u]] > 0
             /\ pc'[u] = "polling" => order'[u] # "none"
             /\ pc'[u] = "recording" /\ told'[u] # "error" => order'[u] # "none"
             /\ u \in listed' => order'[u] # "none" /\ took'[RecordOf[u]] > 0
  BY <1>2, <1>3, <1>7 DEF OrderInv
<1> QED
  BY <1>4, <1>5, <1>6, <1>7, StepTrades

LEMMA OrdersHold == Spec => []OrderInv
<1>1. Init => OrderInv
  BY DEF Init, OrderInv
<1>2. LoggerTypeOK /\ ServiceInv /\ AnswersAreTrue /\ OrderInv /\ [Next]_vars => OrderInv'
  BY OrderStep DEF ServiceInv
<1> QED
  BY <1>1, <1>2, CycleRunsLogger, LoggerTypeCorrect, AnswersTrue, ServiceHolds, PTL DEF Spec

(* The hard gate: no order reaches the exchange before its decision is on  *)
(* the chain, whatever becomes of the connection, the calls, the process.  *)
THEOREM LoggedBeforeOrdered == Spec => []OrdersAreLogged
<1>1. OrderInv => OrdersAreLogged
  BY DEF OrderInv, OrdersAreLogged
<1> QED
  BY <1>1, OrdersHold, PTL

(* What a cycle reports as executed has its order at the exchange, and its *)
(* decision and its receipt on the chain.                                  *)
THEOREM ListedOnTrail == Spec => []ListedIsOnTrail
<1>1. ServiceInv /\ OrderInv => ListedIsOnTrail
  BY DEF ServiceInv, CycleTyped, OrderInv, ListedIsOnTrail
<1> QED
  BY <1>1, OrdersHold, ServiceHolds, PTL

(* A request that lifted the local halt has lifted the contract's before.  *)
THEOREM LiftedAfterChain == Spec => []LiftedOnChain
<1>1. Init => LiftedOnChain
  BY DEF Init, LiftedOnChain
<1>2. /\ LoggerTypeOK /\ AnswersAreTrue' /\ ServiceInv /\ LiftedOnChain
      /\ [Next]_vars
      => LiftedOnChain'
  <2> SUFFICES ASSUME LoggerTypeOK, AnswersAreTrue', ServiceInv, LiftedOnChain,
                      [Next]_vars, NEW c \in lifted'
               PROVE  took'[c] > 0
    BY DEF LiftedOnChain
  <2>1. CASE c \in lifted
    <3>1. c \in Calls /\ took[c] > 0
      BY <2>1 DEF ServiceInv, LiftedOnChain
    <3> QED
      BY <3>1, NextRunsLogger, TookGrows
  <2>2. CASE c \notin lifted
    <3>1. PICK d \in Calls : ServeCall(d)
      <4>1. ASSUME NEW t \in Trades, StartCycle(t) \/ Advance(t) \/ LateFill(t)
            PROVE  lifted' = lifted
        BY <4>1 DEF StartCycle, Advance, Resume, CliReturns, LateFill, Decide, PlaceOrder,
                    Send, Poll, AfterRecord, ReadEquity, ReportLoss, Book
      <4>2. ASSUME NEW d \in Calls, Activate(d) \/ Deactivate(d) \/ AttestNav(d)
            PROVE  lifted' = lifted
        BY <4>2 DEF Activate, Deactivate, AttestNav
      <4>3. CASE Block \/ LoseTransaction \/ Restart \/ UNCHANGED vars
        BY <2>2, <4>3 DEF Block, LoseTransaction, Restart, vars
      <4> QED
        BY <2>2, <4>1, <4>2, <4>3 DEF Next
    <3>2. d = c /\ Kind[c] = "clear" /\ at'[c] = "ok"
      BY <2>2, <3>1 DEF ServeCall
    <3> QED
      BY <3>1, <3>2 DEF AnswersAreTrue
  <2> QED
    BY <2>1, <2>2
<1> QED
  BY <1>1, <1>2, ServiceHolds, CycleRunsLogger, LoggerTypeCorrect, AnswersTrue, PTL DEF Spec

=============================================================================
