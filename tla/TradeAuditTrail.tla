--------------------------- MODULE TradeAuditTrail ---------------------------
(***************************************************************************)
(* The on-chain audit trail (contracts/TradeAuditTrail.sol): per-agent risk*)
(* parameters, the on-chain kill switch, the decisions an agent logs before*)
(* it trades, and the execution receipts that close them.                  *)
(*                                                                         *)
(* Each external function is one action, guarded by its require clauses;   *)
(* the chain runs calls one at a time and midnight may fall between two.   *)
(* A signature is reduced to the account it recovers to, a price to a small*)
(* number; texts, hashes, fees and events are left out.                    *)
(***************************************************************************)
EXTENDS Integers, Sequences, FiniteSets

CONSTANTS
  Agents,          (* accounts that call the contract                       *)
  Ids,             (* decision ids                                          *)
  NoId,            (* bytes32(0)                                            *)
  ParamChoices,    (* risk parameters passed to setRiskParams               *)
  Sizes,           (* sizeUsd                                               *)
  Confidences,     (* confidence, a signed number                           *)
  Entries,         (* entry prices                                          *)
  Fills,           (* fill prices                                           *)
  PRICE_SCALE,     (* 1e8                                                   *)
  MAX_TRADES,      (* decisions per agent and day: 100                      *)
  LastDay          (* bound: the last UTC day explored                      *)

RiskParams == [maxPositionSizeUsd : Nat, maxDailyLossUsd : Nat,
               maxLeverageBps : Nat, minConfidenceBps : Nat]

ASSUME TrailAssumption ==
  /\ NoId \notin Ids
  /\ ParamChoices \subseteq RiskParams
  /\ Sizes \subseteq Nat
  /\ Confidences \subseteq Int
  /\ Entries \subseteq Nat /\ Fills \subseteq Nat
  /\ PRICE_SCALE \in Nat \ {0}
  /\ MAX_TRADES \in Nat
  /\ LastDay \in Nat \ {0}

Days == 0..LastDay

VARIABLES
  today,             (* block.timestamp / 1 days                            *)
  agentRiskParams,
  killSwitchActive,
  decisions,         (* a sequence of decisions                             *)
  executions,        (* a sequence of receipts                              *)
  decisionLogged,    (* the set of ids it maps to true                      *)
  decisionExecuted,  (* the set of ids it maps to true                      *)
  decisionIndex,     (* 1-based; 0 where the mapping is unset               *)
  dailyTrades,
  dailyVolume,
  dailyLoss,
  dailyBucket,
  lastDecisionId,
  bookedLoss         (* history: losses booked, by agent and bucket         *)

log == <<decisions, decisionLogged, decisionIndex, lastDecisionId>>
receipts == <<executions, decisionExecuted, bookedLoss>>
daily == <<dailyTrades, dailyVolume, dailyLoss, dailyBucket>>
vars == <<today, agentRiskParams, killSwitchActive, decisions, executions, decisionLogged,
          decisionExecuted, decisionIndex, dailyTrades, dailyVolume, dailyLoss, dailyBucket,
          lastDecisionId, bookedLoss>>

Unset == [maxPositionSizeUsd |-> 0, maxDailyLossUsd |-> 0,
          maxLeverageBps |-> 0, minConfidenceBps |-> 0]

(* History: "cap" is the position limit a decision was checked against,    *)
(* "by" the account that recorded a receipt.                               *)
TradeDecision == [id : Ids, agent : Agents, size : Nat, entry : Nat, isShort : BOOLEAN,
                  day : Days, executed : BOOLEAN, cap : Nat]
ExecutionReceipt == [id : Ids, by : Agents, success : BOOLEAN]

-----------------------------------------------------------------------------
Init ==
  /\ today = 1
  /\ agentRiskParams = [a \in Agents |-> Unset]
  /\ killSwitchActive = [a \in Agents |-> FALSE]
  /\ decisions = << >>
  /\ executions = << >>
  /\ decisionLogged = {}
  /\ decisionExecuted = {}
  /\ decisionIndex = [i \in Ids |-> 0]
  /\ dailyTrades = [a \in Agents |-> 0]
  /\ dailyVolume = [a \in Agents |-> 0]
  /\ dailyLoss = [a \in Agents |-> 0]
  /\ dailyBucket = [a \in Agents |-> 0]
  /\ lastDecisionId = [a \in Agents |-> NoId]
  /\ bookedLoss = [a \in Agents |-> [d \in Days |-> 0]]

(* setRiskParams compares with the present parameters when they are set.   *)
SetRiskParams(a, new) ==
  LET p == agentRiskParams[a] IN
  /\ p.maxPositionSizeUsd > 0 =>
       /\ new.maxPositionSizeUsd <= p.maxPositionSizeUsd
       /\ new.maxDailyLossUsd <= p.maxDailyLossUsd
       /\ new.maxLeverageBps <= p.maxLeverageBps
       /\ new.minConfidenceBps >= p.minConfidenceBps
  /\ agentRiskParams' = [agentRiskParams EXCEPT ![a] = new]
  /\ UNCHANGED <<today, killSwitchActive, log, receipts, daily>>

ActivateKillSwitch(a) ==
  /\ killSwitchActive' = [killSwitchActive EXCEPT ![a] = TRUE]
  /\ UNCHANGED <<today, agentRiskParams, log, receipts, daily>>

DeactivateKillSwitch(a) ==
  /\ killSwitchActive' = [killSwitchActive EXCEPT ![a] = FALSE]
  /\ UNCHANGED <<today, agentRiskParams, log, receipts, daily>>

(* A mutant of NewBucket: the counters restart with every decision.        *)
NewBucketAlways(a) == today >= dailyBucket[a]

(* The agent's counters belong to an earlier day.                          *)
NewBucket(a) == today > dailyBucket[a]

Trades(a) == IF NewBucket(a) THEN 0 ELSE dailyTrades[a]
Volume(a) == IF NewBucket(a) THEN 0 ELSE dailyVolume[a]
Loss(a) == IF NewBucket(a) THEN 0 ELSE dailyLoss[a]

(* A leverage parameter of 0 switches the leverage check off.              *)
WithinLimits(p, size, confidence) ==
  /\ p.maxPositionSizeUsd > 0
  /\ size <= p.maxPositionSizeUsd
  /\ confidence >= 0
  /\ confidence >= p.minConfidenceBps
  /\ p.maxLeverageBps > 0 => size <= (p.maxPositionSizeUsd * p.maxLeverageBps) \div 10000

LogDecision(a, id, signer, size, confidence, entry, isShort) ==
  /\ ~killSwitchActive[a]
  /\ id \notin decisionLogged
  /\ signer = a
  /\ WithinLimits(agentRiskParams[a], size, confidence)
  /\ Trades(a) < MAX_TRADES
  /\ Loss(a) < agentRiskParams[a].maxDailyLossUsd
  /\ dailyBucket' = [dailyBucket EXCEPT ![a] = IF NewBucket(a) THEN today ELSE @]
  /\ dailyTrades' = [dailyTrades EXCEPT ![a] = Trades(a) + 1]
  /\ dailyVolume' = [dailyVolume EXCEPT ![a] = Volume(a) + size]
  /\ dailyLoss' = [dailyLoss EXCEPT ![a] = Loss(a)]
  /\ decisionLogged' = decisionLogged \cup {id}
  /\ decisionIndex' = [decisionIndex EXCEPT ![id] = Len(decisions) + 1]
  /\ lastDecisionId' = [lastDecisionId EXCEPT ![a] = id]
  /\ decisions' = Append(decisions,
       [id |-> id, agent |-> a, size |-> size, entry |-> entry, isShort |-> isShort,
        day |-> today, executed |-> FALSE,
        cap |-> agentRiskParams[a].maxPositionSizeUsd])
  /\ UNCHANGED <<today, agentRiskParams, killSwitchActive, receipts>>

(* A mutant of LossOf: a gain is booked as a negative loss.                *)
LossOfSigned(d, fill) ==
  LET diff == IF d.isShort THEN fill - d.entry ELSE d.entry - fill
  IN  (diff * d.size + PRICE_SCALE - 1) \div PRICE_SCALE

(* The loss of a decision filled at fill, by direction and rounded up.     *)
LossOf(d, fill) ==
  LET diff == IF d.isShort THEN fill - d.entry ELSE d.entry - fill
  IN  IF diff > 0 THEN (diff * d.size + PRICE_SCALE - 1) \div PRICE_SCALE ELSE 0

(* A mutant of RecordExecution: any account may file the receipt.          *)
RecordForAnyone(a, id, fill, success) ==
  LET i == decisionIndex[id]
      loss == IF success THEN LossOf(decisions[i], fill) ELSE 0
  IN
  /\ id \in decisionLogged
  /\ id \notin decisionExecuted
  /\ decisions' = [decisions EXCEPT ![i].executed = TRUE]
  /\ decisionExecuted' = decisionExecuted \cup {id}
  /\ dailyLoss' = [dailyLoss EXCEPT ![a] = @ + loss]
  /\ bookedLoss' = [bookedLoss EXCEPT ![a][dailyBucket[a]] = @ + loss]
  /\ executions' = Append(executions, [id |-> id, by |-> a, success |-> success])
  /\ UNCHANGED <<today, agentRiskParams, killSwitchActive, decisionLogged, decisionIndex,
                 lastDecisionId, dailyTrades, dailyVolume, dailyBucket>>

(* recordExecution books a loss into the agent's current bucket, whatever  *)
(* day that bucket is for.                                                 *)
RecordExecution(a, id, fill, success) ==
  LET i == decisionIndex[id]
      loss == IF success THEN LossOf(decisions[i], fill) ELSE 0
  IN
  /\ id \in decisionLogged
  /\ id \notin decisionExecuted
  /\ decisions[i].id = id
  /\ decisions[i].agent = a
  /\ decisions' = [decisions EXCEPT ![i].executed = TRUE]
  /\ decisionExecuted' = decisionExecuted \cup {id}
  /\ dailyLoss' = [dailyLoss EXCEPT ![a] = @ + loss]
  /\ bookedLoss' = [bookedLoss EXCEPT ![a][dailyBucket[a]] = @ + loss]
  /\ executions' = Append(executions, [id |-> id, by |-> a, success |-> success])
  /\ UNCHANGED <<today, agentRiskParams, killSwitchActive, decisionLogged, decisionIndex,
                 lastDecisionId, dailyTrades, dailyVolume, dailyBucket>>

Midnight ==
  /\ today < LastDay
  /\ today' = today + 1
  /\ UNCHANGED <<agentRiskParams, killSwitchActive, log, receipts, daily>>

Next ==
  \/ \E a \in Agents :
       \/ \E p \in ParamChoices : SetRiskParams(a, p)
       \/ ActivateKillSwitch(a)
       \/ DeactivateKillSwitch(a)
       \/ \E id \in Ids, signer \in Agents, size \in Sizes, confidence \in Confidences,
            entry \in Entries, isShort \in BOOLEAN :
            LogDecision(a, id, signer, size, confidence, entry, isShort)
       \/ \E id \in Ids, fill \in Fills, success \in BOOLEAN :
            RecordExecution(a, id, fill, success)
  \/ Midnight

Spec == Init /\ [][Next]_vars

-----------------------------------------------------------------------------
(* Types.                                                                  *)
TypeOK ==
  /\ today \in Days
  /\ agentRiskParams \in [Agents -> RiskParams]
  /\ killSwitchActive \in [Agents -> BOOLEAN]
  /\ decisions \in Seq(TradeDecision)
  /\ executions \in Seq(ExecutionReceipt)
  /\ decisionLogged \subseteq Ids
  /\ decisionExecuted \subseteq Ids
  /\ decisionIndex \in [Ids -> Nat]
  /\ dailyTrades \in [Agents -> Nat]
  /\ dailyVolume \in [Agents -> Nat]
  /\ dailyLoss \in [Agents -> Nat]
  /\ dailyBucket \in [Agents -> Days]
  /\ lastDecisionId \in [Agents -> Ids \cup {NoId}]
  /\ bookedLoss \in [Agents -> [Days -> Nat]]

(* The decisions agent a logged on day d, by position.                     *)
LoggedOn(a, d) == {i \in DOMAIN decisions : decisions[i].agent = a /\ decisions[i].day = d}

(* The contract's four views of the trail agree: the index finds every     *)
(* logged decision and no other, a decision is executed exactly when it    *)
(* has a receipt, and it has at most one, recorded by the agent whose      *)
(* decision it is.                                                         *)
TrailConsistent ==
  /\ \A id \in Ids : id \in decisionLogged <=> \E i \in DOMAIN decisions : decisions[i].id = id
  /\ \A i \in DOMAIN decisions :
       /\ decisionIndex[decisions[i].id] = i
       /\ decisions[i].executed <=> decisions[i].id \in decisionExecuted
       /\ decisions[i].executed <=> \E j \in DOMAIN executions : executions[j].id = decisions[i].id
  /\ \A j \in DOMAIN executions :
       /\ executions[j].id \in decisionLogged
       /\ executions[j].by = decisions[decisionIndex[executions[j].id]].agent
       /\ \A k \in DOMAIN executions : executions[k].id = executions[j].id => k = j

(* The comment on the daily reset: the limit is a daily one, neither a     *)
(* lifetime limit nor one that restarts during the day.  No agent ever logs*)
(* more than MAX_TRADES decisions on a day, and the trade counter is the   *)
(* number of decisions logged on the day it stands for.                    *)
QuotaPerDay ==
  \A a \in Agents : /\ dailyTrades[a] = Cardinality(LoggedOn(a, dailyBucket[a]))
                    /\ \A d \in 1..today : Cardinality(LoggedOn(a, d)) <= MAX_TRADES

(* The contract's loss limit: once the losses booked after an agent's first*)
(* decision of a day reach its limit - by several receipts, or because the *)
(* limit is lowered under them - it logs nothing more that day.            *)
NoDecisionPastLoss ==
  [][\A a \in Agents, d \in Days :
       bookedLoss[a][d] >= agentRiskParams[a].maxDailyLossUsd
         => LoggedOn(a, d)' = LoggedOn(a, d)]_vars

(* However the agents share its ids, its array and its index, the contract *)
(* keeps a ledger for each of them: nothing goes on it under the agent's   *)
(* kill switch or with an id anybody has used, a receipt closes one of the *)
(* agent's own decisions, once, and no later call takes anything back.     *)
DecisionsOf(a) == {i \in DOMAIN decisions : decisions[i].agent = a}
ReceiptsOf(a) == {j \in DOMAIN executions : executions[j].by = a}
Ledger == INSTANCE DecisionLedger WITH
            Accounts <- Agents,
            DecisionIds <- Ids,
            halt   <- killSwitchActive,
            logged <- [a \in Agents |-> {decisions[i].id : i \in DecisionsOf(a)}],
            closed <- [a \in Agents |-> {executions[j].id : j \in ReceiptsOf(a)}]
LedgerKept == Ledger!Spec

(* setRiskParams' documentation: "Can only be tightened (never loosened)   *)
(* after initial set."  Two decisions of an agent show the order in which  *)
(* its limits changed: the later one was never checked against a larger    *)
(* position limit.                                                         *)
NeverLoosened ==
  \A i, j \in DOMAIN decisions :
    i < j /\ decisions[i].agent = decisions[j].agent => decisions[j].cap <= decisions[i].cap

=============================================================================
