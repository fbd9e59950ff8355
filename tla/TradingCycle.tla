---------------------------- MODULE TradingCycle ----------------------------
(***************************************************************************)
(* The trading service: POST /trade (main.py) runs a cycle of agent.py -   *)
(* snapshot, integrity gate and signals (module Signals), risk gate, on-   *)
(* chain decision, order, receipt, loss feed - while other cycles run,     *)
(* operators call the kill-switch and attestation endpoints, and every     *)
(* write to the chain goes through the logger (module OnchainLogger).      *)
(*                                                                         *)
(* A trade is the cycle of one instrument; the assets of a longer request  *)
(* are such trades run side by side.  Only live mode with the on-chain     *)
(* logger is modelled.  The funding-arb package a cycle may run instead is *)
(* module FundingArbPackage; the counters of the gate are module RiskGate. *)
(***************************************************************************)
EXTENDS OnchainLogger, Signals

CONSTANTS
  Trades,
  LogOf,         (* the call that logs a trade's decision                   *)
  RecordOf,      (* the call that records its execution                     *)
  Instruments,   (* the exchange's metadata, by trade                       *)
  NoMarket,
  Equities,      (* total equity the account may show                       *)
  FirstEquity,   (* what a process without a baseline usually reads         *)
  LossLimit,     (* max_daily_loss_usd                                      *)
  LastDay,       (* bound: UTC days                                         *)
  Budget         (* bound: mishaps, requests and surprises together         *)

ASSUME CycleAssumption ==
  /\ LogOf \in [Trades -> OfKind({"log"})]
  /\ RecordOf \in [Trades -> OfKind({"record"})]
  /\ \A t \in Trades : DecisionOf[RecordOf[t]] = LogOf[t]
  /\ Instruments \in [Trades -> Instrument]
  /\ NoMarket \notin Markets
  /\ Equities \subseteq Nat \ {0} /\ FirstEquity \in Equities
  /\ LossLimit \in Nat \ {0}
  /\ LastDay \in Nat
  /\ Budget \in Nat

VARIABLES
  pc,         (* where each trade stands                                    *)
  md,         (* its market snapshot                                        *)
  lots,       (* the lots it sent to the exchange                           *)
  order,      (* what has become of its order there                         *)
  told,       (* what the executor made of it: success, not, or an error    *)
  listed,     (* trades whose execution the cycle's result lists            *)
  killed,     (* the gate's kill switch                                     *)
  lifted,     (* history: the clear calls that lifted it                    *)
  day,        (* the UTC day, as the last cycle to start saw it             *)
  pin,        (* cycle_day_key: the day a cycle has started on              *)
  reading,    (* the balance a cycle has read and not yet reported          *)
  baseline,   (* _last_cycle_equity                                         *)
  booked,     (* the loss of each day                                       *)
  fell,       (* history: by how much the readings of cycles pinned to each *)
              (* day fell, net of their gains, since the process started    *)
  tripped,    (* history: the days whose losses tripped the kill switch     *)
  extras      (* bound: requests and surprises so far                       *)

cycle == <<md, lots, order, told, listed>>
books == <<reading, baseline, booked, fell, tripped>>
feed == <<day, pin, books>>
vars == <<loggerVars, pc, cycle, killed, lifted, feed, extras>>

Extra == extras' = extras + 1
Goto(t, label) == pc' = [pc EXCEPT ![t] = label]
Underway == {"fetched", "logging", "sending", "polling", "recording", "closing", "read"}
Days == 0..LastDay

Init ==
  /\ LoggerInit
  /\ pc = [t \in Trades |-> "idle"]
  /\ md = [t \in Trades |-> NoMarket]
  /\ lots = [t \in Trades |-> 0]
  /\ order = [t \in Trades |-> "none"]
  /\ told = [t \in Trades |-> "none"]
  /\ listed = {}
  /\ killed = FALSE
  /\ lifted = {}
  /\ day = 0
  /\ pin = [t \in Trades |-> 0]
  /\ reading = [t \in Trades |-> Unset]
  /\ baseline = Unset
  /\ booked = [d \in Days |-> 0]
  /\ fell = [d \in Days |-> 0]
  /\ tripped = {}
  /\ extras = 0

-----------------------------------------------------------------------------
(* POST /trade: refused under the kill switch; otherwise the cycle is      *)
(* pinned to its UTC day - the clock, which nothing else here looks at,    *)
(* may have passed midnight since the last one - and the snapshot is       *)
(* taken.  The instrument of a cycle that ended without an order may be    *)
(* asked for again.  Every cycle after the first counts as a surprise, and *)
(* so does the midnight before it.                                         *)
StartCycle(t) ==
  /\ pc[t] \in {"idle", "ended"} /\ at[LogOf[t]] = "idle"
  /\ ~killed
  /\ IF \E u \in Trades : pc[u] # "idle"
     THEN day' \in day..LastDay /\ extras' = extras + 1 + (day' - day)
     ELSE UNCHANGED <<extras, day>>
  /\ pin' = [pin EXCEPT ![t] = day']
  /\ \E m \in Markets : md' = [md EXCEPT ![t] = m]
  /\ Goto(t, "fetched")
  /\ UNCHANGED <<loggerVars, lots, order, told, listed, killed, lifted, books>>

(* The trade is over for this cycle; what is left is the loss feed.        *)
Leave(t) ==
  /\ Goto(t, "closing")
  /\ md' = [md EXCEPT ![t] = NoMarket]
  /\ lots' = [lots EXCEPT ![t] = 0]
  /\ told' = [told EXCEPT ![t] = "none"]

(* _process_asset up to the log: the integrity gate, a funding-arb package *)
(* instead, no order, or a refusal of the gate end it; an approved order   *)
(* is logged first.                                                        *)
Decide(t) ==
  /\ pc[t] = "fetched"
  /\ \/ /\ killed \/ md[t] \notin Admissible \/ md[t].funding >= 100
        /\ Leave(t)
        /\ UNCHANGED <<loggerVars, extras>>
     \/ Leave(t) /\ Extra /\ UNCHANGED loggerVars
     \/ /\ ~killed
        /\ md[t] \in Admissible
        /\ Goto(t, "logging")
        /\ Ask(LogOf[t])
        /\ UNCHANGED <<md, lots, told, extras>>
  /\ UNCHANGED <<order, listed, killed, lifted, feed>>

(* The executor's verdict goes to the chain, whatever it is.               *)
Conclude(t, verdict) ==
  /\ told' = [told EXCEPT ![t] = verdict]
  /\ Goto(t, "recording")
  /\ Ask(RecordOf[t])

(* A mutant of PlaceOrder: a failed log does not stop the order.           *)
PlaceUnlogged(t) ==
  /\ pc[t] = "logging"
  /\ \/ /\ at[LogOf[t]] \in Answered
        /\ ~killed
        /\ Goto(t, "sending")
        /\ UNCHANGED <<loggerVars, md, lots, told, extras>>
     \/ /\ at[LogOf[t]] = "ok"
        /\ \/ killed /\ UNCHANGED extras
           \/ Extra
        /\ Conclude(t, "error")
        /\ UNCHANGED <<md, lots>>
  /\ UNCHANGED <<order, listed, killed, lifted, feed>>

(* The log has answered.  An error ends the trade; after a success         *)
(* place_order asks the gate again, which may have changed its mind.       *)
PlaceOrder(t) ==
  /\ pc[t] = "logging"
  /\ \/ /\ at[LogOf[t]] = "error"
        /\ Leave(t)
        /\ UNCHANGED <<loggerVars, extras>>
     \/ /\ at[LogOf[t]] = "ok"
        /\ ~killed
        /\ Goto(t, "sending")
        /\ UNCHANGED <<loggerVars, md, lots, told, extras>>
     \/ /\ at[LogOf[t]] = "ok"
        /\ \/ killed /\ UNCHANGED extras
           \/ Extra
        /\ Conclude(t, "error")
        /\ UNCHANGED <<md, lots>>
  /\ UNCHANGED <<order, listed, killed, lifted, feed>>

(* _verify_fill: past the hard collar the kill switch trips; a fill beyond *)
(* the collar is no success.  No fill price means no check, and counts as  *)
(* success (fill_verified is None).                                        *)
Verify(t, state) ==
  IF state = "slipped"
  THEN killed' \in {killed, TRUE} /\ Conclude(t, "bad")
  ELSE killed' = killed /\ Conclude(t, "good")

(* The conversion into lots and the order itself: it never reaches the     *)
(* exchange, or it does and its answer is lost, or it is answered at once, *)
(* or it rests there and its status is polled.                             *)
Send(t) ==
  LET n == Lots(Approved[md[t]], md[t].price, Instruments[t]) IN
  /\ pc[t] = "sending"
  /\ \/ /\ \/ n = 0 /\ UNCHANGED extras
           \/ Extra
        /\ Conclude(t, "error")
        /\ UNCHANGED <<lots, order, killed>>
     \/ /\ n > 0
        /\ lots' = [lots EXCEPT ![t] = n]
        /\ \E state \in {"open", "filled", "slipped", "dead"} :
             /\ order' = [order EXCEPT ![t] = state]
             /\ \/ Extra /\ Conclude(t, "error") /\ UNCHANGED killed
                \/ /\ IF state \in {"slipped", "dead"} THEN Extra ELSE UNCHANGED extras
                   /\ state # "open"
                   /\ Verify(t, state)
                \/ /\ state = "open"
                   /\ Goto(t, "polling")
                   /\ UNCHANGED <<loggerVars, told, killed, extras>>
  /\ UNCHANGED <<md, listed, lifted, feed>>

(* A mutant of Poll: it goes on for as long as the order rests.            *)
PollForever(t) ==
  /\ pc[t] = "polling"
  /\ \/ order[t] # "open" /\ Verify(t, order[t]) /\ UNCHANGED extras
     \/ Extra /\ Conclude(t, "error") /\ UNCHANGED killed
  /\ UNCHANGED <<md, lots, order, listed, lifted, feed>>

(* _await_fill: the poll sees what has become of the order, or gives up    *)
(* while it rests.  A failed query is an ExecutionError.                   *)
Poll(t) ==
  /\ pc[t] = "polling"
  /\ \/ Verify(t, order[t]) /\ UNCHANGED extras
     \/ Extra /\ Conclude(t, "error") /\ UNCHANGED killed
  /\ UNCHANGED <<md, lots, order, listed, lifted, feed>>

(* The exchange fills a resting order, or cancels it.  What happens to it  *)
(* after the polls have given up is seen by nobody.                        *)
LateFill(t) ==
  /\ pc[t] = "polling"
  /\ order[t] = "open"
  /\ \E state \in {"filled", "slipped", "dead"} : order' = [order EXCEPT ![t] = state]
  /\ Extra
  /\ UNCHANGED <<loggerVars, pc, md, lots, told, listed, killed, lifted, feed>>

(* A mutant of AfterRecord: a failed receipt is logged and passed over.    *)
AfterRecordAnyway(t) ==
  /\ pc[t] = "recording"
  /\ at[RecordOf[t]] \in Answered
  /\ listed' = IF told[t] # "error" THEN listed \cup {t} ELSE listed
  /\ Leave(t)
  /\ UNCHANGED <<loggerVars, order, killed, lifted, feed, extras>>

(* The receipt has answered.  When it failed, the exception takes the      *)
(* whole result of the asset with it, the execution included.              *)
AfterRecord(t) ==
  /\ pc[t] = "recording"
  /\ at[RecordOf[t]] \in Answered
  /\ listed' = IF at[RecordOf[t]] = "ok" /\ told[t] # "error"
               THEN listed \cup {t} ELSE listed
  /\ Leave(t)
  /\ UNCHANGED <<loggerVars, order, killed, lifted, feed, extras>>

(* _report_cycle_loss reads the balance outside the lock.  A balance above *)
(* the last one counts as a surprise, and so does a first one that is not  *)
(* FirstEquity, and a read that fails.                                     *)
ReadEquity(t) ==
  /\ pc[t] = "closing"
  /\ \/ \E e \in Equities :
          /\ Goto(t, "read")
          /\ reading' = [reading EXCEPT ![t] = e]
          /\ IF IF baseline = Unset THEN e # FirstEquity ELSE e > baseline
             THEN Extra ELSE UNCHANGED extras
          /\ UNCHANGED pin
     \/ /\ Goto(t, "ended")
        /\ Extra
        /\ pin' = [pin EXCEPT ![t] = 0]
        /\ UNCHANGED reading
  /\ UNCHANGED <<loggerVars, cycle, killed, lifted, day, baseline, booked, fell, tripped>>

(* report_loss trips the kill switch at the limit.                         *)
Breached(loss) == loss >= LossLimit

(* Under the lock the reading becomes the baseline, and a fall against the *)
(* last one is booked: fall, of which loss is booked on day d.             *)
Book(t, fall, loss, d) ==
  LET trips == loss > 0 /\ Breached(booked[d] + loss) IN
  /\ pc[t] = "read"
  /\ Goto(t, "ended")
  /\ baseline' = reading[t]
  /\ booked' = [booked EXCEPT ![d] = booked[d] + loss]
  /\ fell' = [fell EXCEPT ![pin[t]] = fell[pin[t]] + fall]
  /\ killed' = (killed \/ trips)
  /\ tripped' = IF trips THEN tripped \cup {d} ELSE tripped
  /\ reading' = [reading EXCEPT ![t] = Unset]
  /\ pin' = [pin EXCEPT ![t] = 0]
  /\ UNCHANGED <<loggerVars, cycle, lifted, day, extras>>

Fall(t) == IF baseline = Unset THEN 0 ELSE baseline - reading[t]

(* A mutant of ReportLoss: a gain is booked too.                           *)
ReportGain(t) == Book(t, Fall(t), Fall(t), pin[t])

(* A mutant of ReportLoss: the loss goes to the day it is reported on.     *)
ReportToday(t) == Book(t, Fall(t), Most(Fall(t), 0), day)

(* A loss is booked on the day its cycle is pinned to.                     *)
ReportLoss(t) == Book(t, Fall(t), Most(Fall(t), 0), pin[t])

-----------------------------------------------------------------------------
(* POST /kill-switch/activate: the local gate first, then the chain.       *)
Activate(c) ==
  /\ Kind[c] = "halt"
  /\ Ask(c)
  /\ killed' = TRUE
  /\ Extra
  /\ UNCHANGED <<pc, cycle, lifted, feed>>

(* POST /kill-switch/deactivate: the chain first.                          *)
Deactivate(c) ==
  /\ Kind[c] = "clear"
  /\ Ask(c)
  /\ Extra
  /\ UNCHANGED <<pc, cycle, killed, lifted, feed>>

(* POST /api/v1/vault/attest.                                              *)
AttestNav(c) ==
  /\ Attest(c)
  /\ Extra
  /\ UNCHANGED <<pc, cycle, killed, lifted, feed>>

(* A mutant of ServeCall: a failed deactivation opens the local gate.      *)
ServeOptimist(c) ==
  /\ Serve(c)
  /\ IF Kind[c] = "clear" /\ at'[c] \in Answered
     THEN killed' = FALSE /\ lifted' = lifted \cup {c}
     ELSE UNCHANGED <<killed, lifted>>
  /\ UNCHANGED <<pc, cycle, feed, extras>>

(* A call to the chain goes on.  The answer to a deactivation ends its     *)
(* request: the local gate is opened after a success only.                 *)
ServeCall(c) ==
  /\ Serve(c)
  /\ IF Kind[c] = "clear" /\ at'[c] = "ok"
     THEN killed' = FALSE /\ lifted' = lifted \cup {c}
     ELSE UNCHANGED <<killed, lifted>>
  /\ UNCHANGED <<pc, cycle, feed, extras>>

Block ==
  /\ Mine
  /\ UNCHANGED <<pc, cycle, killed, lifted, feed, extras>>

LoseTransaction ==
  /\ Forget
  /\ UNCHANGED <<pc, cycle, killed, lifted, feed, extras>>

(* The process comes back without its cycles and its baseline; the losses  *)
(* of the day come back from the gate's store (module RiskGate), and it    *)
(* mirrors the halt of the chain if it can read it.                        *)
Restart ==
  /\ LoggerRestart
  /\ pc' = [t \in Trades |-> IF pc[t] \in Underway THEN "gone" ELSE pc[t]]
  /\ md' = [t \in Trades |-> NoMarket]
  /\ lots' = [t \in Trades |-> 0]
  /\ killed' \in {halted, FALSE}
  /\ pin' = [t \in Trades |-> 0]
  /\ reading' = [t \in Trades |-> Unset]
  /\ baseline' = Unset
  /\ fell' = [d \in Days |-> 0]
  /\ told' = [t \in Trades |-> "none"]
  /\ UNCHANGED <<order, listed, lifted, day, booked, tripped, extras>>

(* What the coroutine of a trade does once it runs, and once the command   *)
(* line of the exchange, which it awaits without a time limit, has ended.  *)
Resume(t) == Decide(t) \/ PlaceOrder(t) \/ AfterRecord(t) \/ ReportLoss(t)
CliReturns(t) == Send(t) \/ Poll(t) \/ ReadEquity(t)
AtCli == {"sending", "polling", "closing"}

Advance(t) == Resume(t) \/ CliReturns(t)

WithinBudget == extras' + mishaps' <= Budget

Next ==
  /\ \/ \E t \in Trades : StartCycle(t) \/ Advance(t) \/ LateFill(t)
     \/ \E c \in Calls : Activate(c) \/ Deactivate(c) \/ AttestNav(c) \/ ServeCall(c)
     \/ Block
     \/ LoseTransaction
     \/ Restart
  /\ WithinBudget

Spec == Init /\ [][Next]_vars

(* The service and the chain run on while there is something for them to   *)
(* do: the event loop resumes a coroutine whose await has ended, a thread  *)
(* goes on with its call, a block takes the transaction that is due.       *)
(* Nothing is promised of the exchange, nor that its command line returns. *)
Progress ==
  /\ (\E t \in Trades : Resume(t)) \/ (\E c \in Calls : ServeCall(c)) \/ Block
  /\ WithinBudget

FairSpec == Spec /\ WF_vars(Progress)

-----------------------------------------------------------------------------
(* Types.                                                                  *)
TypeOK ==
  /\ LoggerTypeOK
  /\ pc \in [Trades -> Underway \cup {"idle", "ended", "gone"}]
  /\ md \in [Trades -> Markets \cup {NoMarket}]
  /\ lots \in [Trades -> Nat]
  /\ order \in [Trades -> {"none", "open", "filled", "slipped", "dead"}]
  /\ told \in [Trades -> {"none", "good", "bad", "error"}]
  /\ listed \subseteq Trades
  /\ killed \in BOOLEAN
  /\ lifted \subseteq Calls
  /\ day \in Days /\ pin \in [Trades -> Days]
  /\ reading \in [Trades -> Equities \cup {Unset}]
  /\ baseline \in Equities \cup {Unset}
  /\ booked \in [Days -> Nat] /\ fell \in [Days -> Int]
  /\ tripped \subseteq Days
  /\ extras \in 0..Budget

(* "This is the hard gate - must be called BEFORE any order placement":    *)
(* an order at the exchange has its decision on the chain, also when the   *)
(* logger failed over, resent, timed out or restarted on the way.          *)
OrdersAreLogged == \A t \in Trades : order[t] # "none" => took[LogOf[t]] > 0

(* An execution the response lists is on the chain with its decision and   *)
(* its receipt, and its order did reach the exchange.                      *)
ListedIsOnTrail ==
  \A t \in listed :
    took[LogOf[t]] > 0 /\ took[RecordOf[t]] > 0 /\ order[t] # "none"

(* "A failed onchain deactivation leaves the local gate active": a request *)
(* that lifted the local halt has lifted the contract's before.            *)
LiftedOnChain == \A c \in lifted : took[c] > 0

(* However overlapping cycles apply their readings, and on whichever side  *)
(* of midnight: when the readings of the cycles pinned to one day have     *)
(* fallen by the daily limit, net of their gains and since the process     *)
(* started, the losses of that day have tripped the kill switch.           *)
NetLossTripped == \A d \in Days : fell[d] >= LossLimit => d \in tripped

(* Mean reversion and momentum read one price series and "their agreement  *)
(* is not independent confirmation": with every strategy let through, an   *)
(* order is placed only when the funding rate points the same way.         *)
EvidenceIsIndependent ==
  Generated = Strategies => \A t \in Trades :
    pc[t] \in {"logging", "sending", "polling", "recording"} =>
      FundingRate(md[t]).dir = Ensemble[md[t]].dir

(* What is sent in lots of the instrument is never worth more than the     *)
(* dollars the gate approved, nor these more than the position limit.      *)
OrderWithinDecision ==
  \A t \in Trades : lots[t] > 0 =>
    /\ lots[t] * LotCents(Instruments[t], md[t].price) <= 100 * Approved[md[t]]
    /\ Approved[md[t]] <= MaxPosition

(* Every call returns: no nonce gap, lost transaction or failover leaves a *)
(* caller waiting for good.                                                *)
CallsReturn == []<>(\A c \in Calls : at[c] \notin InFlight)

(* A cycle that does not end is one the process has died under, or one     *)
(* that waits for the exchange's command line; if that always returns,     *)
(* every cycle ends, also when an order rests there or the chain does not  *)
(* take its receipt.                                                       *)
CyclesEnd ==
  /\ []<>(\A t \in Trades : pc[t] \in Underway => pc[t] \in AtCli)
  /\ WF_vars((\E t \in Trades : CliReturns(t)) /\ WithinBudget)
       => []<>(\A t \in Trades : pc[t] \notin Underway)

=============================================================================
