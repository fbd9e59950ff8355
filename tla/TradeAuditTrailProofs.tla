----------------------- MODULE TradeAuditTrailProofs -----------------------
(***************************************************************************)
(* Proofs about the audit trail, for every set of agents and decisions,    *)
(* every choice of limits and any number of days.                          *)
(***************************************************************************)
EXTENDS TradeAuditTrail, FiniteSetTheorems, SequenceTheorems, TLAPS

-----------------------------------------------------------------------------
LEMMA Ceiling ==
  ASSUME NEW diff \in Int, diff > 0, NEW size \in Nat
  PROVE  (diff * size + PRICE_SCALE - 1) \div PRICE_SCALE \in Nat
<1>1. diff * size \in Nat
  OBVIOUS
<1>2. PRICE_SCALE \in Nat /\ PRICE_SCALE > 0
  BY TrailAssumption
<1> DEFINE n == diff * size + PRICE_SCALE - 1
<1>3. n \in Nat
  BY <1>1, <1>2
<1> HIDE DEF n
<1>4. n \div PRICE_SCALE \in Nat
  BY <1>2, <1>3
<1> QED
  BY <1>4 DEF n

(* A fill never books a negative loss.                                     *)
LEMMA LossNatural ==
  ASSUME NEW d \in TradeDecision, NEW fill \in Nat
  PROVE  LossOf(d, fill) \in Nat
<1> DEFINE diff == IF d.isShort THEN fill - d.entry ELSE d.entry - fill
<1>1. diff \in Int /\ d.size \in Nat
  BY DEF TradeDecision
<1>2. LossOf(d, fill) = IF diff > 0 THEN (diff * d.size + PRICE_SCALE - 1) \div PRICE_SCALE ELSE 0
  BY DEF LossOf
<1> HIDE DEF diff
<1>3. CASE diff > 0
  BY <1>1, <1>2, <1>3, Ceiling
<1>4. CASE ~(diff > 0)
  BY <1>2, <1>4
<1> QED
  BY <1>3, <1>4

(* Closing a decision changes nothing but its executed flag.               *)
LEMMA CloseEffect ==
  ASSUME NEW s \in Seq(TradeDecision), NEW i \in DOMAIN s,
         NEW t, t = [s EXCEPT ![i].executed = TRUE]
  PROVE  /\ t \in Seq(TradeDecision)
         /\ DOMAIN t = DOMAIN s /\ Len(t) = Len(s)
         /\ t[i].executed
         /\ \A j \in DOMAIN s : /\ t[j].id = s[j].id /\ t[j].agent = s[j].agent
                               /\ t[j].day = s[j].day /\ t[j].cap = s[j].cap
         /\ \A j \in DOMAIN s : j # i => t[j].executed = s[j].executed
<1>1. i \in 1..Len(s) /\ DOMAIN s = 1..Len(s) /\ \A j \in DOMAIN s : s[j] \in TradeDecision
  BY ElementOfSeq, LenProperties
<1> DEFINE e == [s[i] EXCEPT !.executed = TRUE]
<1>2. e \in TradeDecision
  BY <1>1 DEF TradeDecision
<1>3. e.executed /\ e.id = s[i].id /\ e.agent = s[i].agent /\ e.day = s[i].day /\ e.cap = s[i].cap
  BY <1>1 DEF TradeDecision
<1>4. t = [s EXCEPT ![i] = e]
  OBVIOUS
<1> HIDE DEF e
<1>5. t \in Seq(TradeDecision) /\ Len(t) = Len(s)
  <2>1. [s EXCEPT ![i] = e] \in Seq(TradeDecision) /\ Len([s EXCEPT ![i] = e]) = Len(s)
    BY <1>1, <1>2, ExceptSeq
  <2> QED
    BY <1>4, <2>1
<1>6. DOMAIN t = DOMAIN s
  BY <1>1, <1>5, LenProperties
<1>7. \A j \in DOMAIN s : t[j] = IF j = i THEN e ELSE s[j]
  BY <1>4
<1> QED
  BY <1>3, <1>5, <1>6, <1>7

(* Logging a decision puts it after all the others.                        *)
LEMMA AppendEffect ==
  ASSUME NEW S, NEW s \in Seq(S), NEW d \in S, NEW t, t = Append(s, d)
  PROVE  /\ t \in Seq(S)
         /\ DOMAIN t = DOMAIN s \cup {Len(s) + 1} /\ Len(s) + 1 \notin DOMAIN s
         /\ Len(t) = Len(s) + 1
         /\ t[Len(s) + 1] = d
         /\ \A j \in DOMAIN s : t[j] = s[j]
<1>1. t \in Seq(S) /\ Len(t) = Len(s) + 1 /\ t[Len(s) + 1] = d /\ \A j \in 1..Len(s) : t[j] = s[j]
  BY AppendProperties
<1>2. DOMAIN s = 1..Len(s) /\ DOMAIN t = 1..Len(t) /\ Len(s) \in Nat
  BY <1>1, LenProperties
<1> QED
  BY <1>1, <1>2

-----------------------------------------------------------------------------
(* The index of a logged decision points into the log, at that decision.   *)
IndexInv ==
  /\ \A id \in decisionLogged : /\ decisionIndex[id] \in DOMAIN decisions
                               /\ decisions[decisionIndex[id]].id = id
  /\ \A i \in DOMAIN decisions : /\ decisions[i].id \in decisionLogged
                                /\ decisionIndex[decisions[i].id] = i

(* What logging a decision changes.                                        *)
LEMMA LogEffect ==
  ASSUME TypeOK, NEW a \in Agents, NEW id \in Ids, NEW signer \in Agents, NEW size \in Sizes,
         NEW confidence \in Confidences, NEW entry \in Entries, NEW isShort \in BOOLEAN,
         LogDecision(a, id, signer, size, confidence, entry, isShort)
  PROVE  /\ decisions' \in Seq(TradeDecision)
         /\ DOMAIN decisions' = DOMAIN decisions \cup {Len(decisions) + 1}
         /\ Len(decisions) + 1 \notin DOMAIN decisions /\ Len(decisions) \in Nat
         /\ \A j \in DOMAIN decisions : decisions'[j] = decisions[j]
         /\ decisions'[Len(decisions) + 1].id = id
         /\ decisions'[Len(decisions) + 1].agent = a
         /\ decisions'[Len(decisions) + 1].day = today
         /\ decisions'[Len(decisions) + 1].cap = agentRiskParams[a].maxPositionSizeUsd
         /\ ~decisions'[Len(decisions) + 1].executed
<1> DEFINE d == [id |-> id, agent |-> a, size |-> size, entry |-> entry, isShort |-> isShort,
                 day |-> today, executed |-> FALSE, cap |-> agentRiskParams[a].maxPositionSizeUsd]
<1>1. agentRiskParams[a] \in RiskParams
  BY DEF TypeOK
<1>2. agentRiskParams[a].maxPositionSizeUsd \in Nat
  BY <1>1 DEF RiskParams
<1>3. d \in TradeDecision
  BY <1>2, TrailAssumption DEF TradeDecision, TypeOK
<1>4. /\ d.id = id /\ d.agent = a /\ d.day = today /\ ~d.executed
      /\ d.cap = agentRiskParams[a].maxPositionSizeUsd
  OBVIOUS
<1>5. decisions' = Append(decisions, d) /\ decisions \in Seq(TradeDecision)
  BY DEF LogDecision, TypeOK
<1> HIDE DEF d
<1>6. /\ decisions' \in Seq(TradeDecision)
      /\ DOMAIN decisions' = DOMAIN decisions \cup {Len(decisions) + 1}
      /\ Len(decisions) + 1 \notin DOMAIN decisions
      /\ decisions'[Len(decisions) + 1] = d
      /\ \A j \in DOMAIN decisions : decisions'[j] = decisions[j]
  BY <1>3, <1>5, AppendEffect
<1>7. Len(decisions) \in Nat
  BY <1>5, LenProperties
<1> QED
  BY <1>4, <1>6, <1>7

(* What a receipt changes.                                                 *)
LEMMA RecordEffect ==
  ASSUME TypeOK, IndexInv, NEW a \in Agents, NEW id \in Ids, NEW fill \in Fills,
         NEW success \in BOOLEAN, RecordExecution(a, id, fill, success)
  PROVE  /\ decisions' \in Seq(TradeDecision)
         /\ DOMAIN decisions' = DOMAIN decisions
         /\ decisionIndex[id] \in DOMAIN decisions
         /\ decisions'[decisionIndex[id]].executed
         /\ \A j \in DOMAIN decisions : /\ decisions'[j].id = decisions[j].id
                                       /\ decisions'[j].agent = decisions[j].agent
                                       /\ decisions'[j].day = decisions[j].day
                                       /\ decisions'[j].cap = decisions[j].cap
         /\ \A j \in DOMAIN decisions :
              j # decisionIndex[id] => decisions'[j].executed = decisions[j].executed
         /\ \E loss \in Nat :
              /\ dailyLoss' = [dailyLoss EXCEPT ![a] = @ + loss]
              /\ bookedLoss' = [bookedLoss EXCEPT ![a][dailyBucket[a]] = @ + loss]
<1>1. decisionIndex[id] \in DOMAIN decisions
  BY DEF RecordExecution, IndexInv
<1>2. /\ decisions \in Seq(TradeDecision)
      /\ decisions' = [decisions EXCEPT ![decisionIndex[id]].executed = TRUE]
  BY DEF RecordExecution, TypeOK
<1>3. /\ decisions' \in Seq(TradeDecision)
      /\ DOMAIN decisions' = DOMAIN decisions
      /\ decisions'[decisionIndex[id]].executed
      /\ \A j \in DOMAIN decisions : /\ decisions'[j].id = decisions[j].id
                                    /\ decisions'[j].agent = decisions[j].agent
                                    /\ decisions'[j].day = decisions[j].day
                                    /\ decisions'[j].cap = decisions[j].cap
      /\ \A j \in DOMAIN decisions :
           j # decisionIndex[id] => decisions'[j].executed = decisions[j].executed
  BY <1>1, <1>2, CloseEffect
<1> DEFINE loss == IF success THEN LossOf(decisions[decisionIndex[id]], fill) ELSE 0
<1>4. decisions[decisionIndex[id]] \in TradeDecision
  BY <1>1, <1>2, ElementOfSeq, LenProperties
<1>5. loss \in Nat
  BY <1>4, LossNatural, TrailAssumption
<1>6. /\ dailyLoss' = [dailyLoss EXCEPT ![a] = @ + loss]
      /\ bookedLoss' = [bookedLoss EXCEPT ![a][dailyBucket[a]] = @ + loss]
  BY DEF RecordExecution
<1> HIDE DEF loss
<1> QED
  BY <1>1, <1>3, <1>5, <1>6

(* Every other step leaves the log, the receipts and the counters alone.   *)
LEMMA TrailSteps ==
  ASSUME [Next]_vars
  PROVE  \/ \E a \in Agents, id \in Ids, signer \in Agents, size \in Sizes,
              confidence \in Confidences, entry \in Entries, isShort \in BOOLEAN :
              LogDecision(a, id, signer, size, confidence, entry, isShort)
         \/ \E a \in Agents, id \in Ids, fill \in Fills, success \in BOOLEAN :
              RecordExecution(a, id, fill, success)
         \/ /\ UNCHANGED <<decisions, executions, decisionLogged, decisionExecuted,
                          decisionIndex, lastDecisionId, daily, bookedLoss>>
            /\ \/ UNCHANGED <<today, killSwitchActive>>
                  /\ \/ UNCHANGED agentRiskParams
                     \/ \E a \in Agents, p \in ParamChoices : SetRiskParams(a, p)
               \/ UNCHANGED <<today, agentRiskParams>>
                  /\ \E a \in Agents, b \in BOOLEAN :
                       killSwitchActive' = [killSwitchActive EXCEPT ![a] = b]
               \/ UNCHANGED <<agentRiskParams, killSwitchActive>>
                  /\ today' = today + 1 /\ today < LastDay
<1> USE DEF log, receipts, daily
<1>1. ASSUME NEW a \in Agents, NEW p \in ParamChoices, SetRiskParams(a, p)
      PROVE  UNCHANGED <<decisions, executions, decisionLogged, decisionExecuted, decisionIndex,
                         lastDecisionId, daily, bookedLoss, today, killSwitchActive>>
  BY <1>1 DEF SetRiskParams
<1>2. ASSUME NEW a \in Agents, ActivateKillSwitch(a) \/ DeactivateKillSwitch(a)
      PROVE  /\ UNCHANGED <<decisions, executions, decisionLogged, decisionExecuted, decisionIndex,
                            lastDecisionId, daily, bookedLoss, today, agentRiskParams>>
             /\ \E b \in BOOLEAN : killSwitchActive' = [killSwitchActive EXCEPT ![a] = b]
  BY <1>2 DEF ActivateKillSwitch, DeactivateKillSwitch
<1>3. ASSUME Midnight
      PROVE  /\ UNCHANGED <<decisions, executions, decisionLogged, decisionExecuted, decisionIndex,
                            lastDecisionId, daily, bookedLoss, agentRiskParams, killSwitchActive>>
             /\ today' = today + 1 /\ today < LastDay
  BY <1>3 DEF Midnight
<1>4. ASSUME UNCHANGED vars
      PROVE  UNCHANGED <<decisions, executions, decisionLogged, decisionExecuted, decisionIndex,
                         lastDecisionId, daily, bookedLoss, today, agentRiskParams, killSwitchActive>>
  BY <1>4 DEF vars
<1> QED
  BY <1>1, <1>2, <1>3, <1>4 DEF Next

-----------------------------------------------------------------------------
(* The trail is well typed - no counter is ever negative - and its index   *)
(* is exact.                                                               *)
LEMMA IndexHolds == Spec => [](TypeOK /\ IndexInv)
<1>1. Init => TypeOK /\ IndexInv
  <2> SUFFICES ASSUME Init PROVE TypeOK /\ IndexInv
    OBVIOUS
  <2>1. 0 \in Days /\ 1 \in Days
    BY TrailAssumption DEF Days
  <2>2. decisions \in Seq(TradeDecision) /\ DOMAIN decisions = {}
    BY EmptySeq DEF Init
  <2>3. executions \in Seq(ExecutionReceipt)
    BY EmptySeq DEF Init
  <2>4. agentRiskParams \in [Agents -> RiskParams] /\ killSwitchActive \in [Agents -> BOOLEAN]
    BY DEF Init, RiskParams, Unset
  <2>5. /\ dailyTrades \in [Agents -> Nat] /\ dailyVolume \in [Agents -> Nat]
        /\ dailyLoss \in [Agents -> Nat] /\ dailyBucket \in [Agents -> Days]
        /\ lastDecisionId \in [Agents -> Ids \cup {NoId}] /\ decisionIndex \in [Ids -> Nat]
        /\ today \in Days
    BY <2>1 DEF Init
  <2>6. bookedLoss \in [Agents -> [Days -> Nat]]
    BY DEF Init
  <2>7. decisionLogged = {} /\ decisionExecuted = {}
    BY DEF Init
  <2> QED
    BY <2>2, <2>3, <2>4, <2>5, <2>6, <2>7 DEF TypeOK, IndexInv
<1>2. TypeOK /\ IndexInv /\ [Next]_vars => TypeOK' /\ IndexInv'
  <2> SUFFICES ASSUME TypeOK, IndexInv, [Next]_vars PROVE TypeOK' /\ IndexInv'
    OBVIOUS
  <2>1. ASSUME NEW a \in Agents, NEW id \in Ids, NEW signer \in Agents, NEW size \in Sizes,
               NEW confidence \in Confidences, NEW entry \in Entries, NEW isShort \in BOOLEAN,
               LogDecision(a, id, signer, size, confidence, entry, isShort)
        PROVE  TypeOK' /\ IndexInv'
    <3>1. Trades(a) \in Nat /\ Volume(a) \in Nat /\ Loss(a) \in Nat /\ size \in Nat
      BY TrailAssumption DEF TypeOK, Trades, Volume, Loss
    <3>2. /\ dailyTrades' \in [Agents -> Nat] /\ dailyVolume' \in [Agents -> Nat]
          /\ dailyLoss' \in [Agents -> Nat]
      <4>1. /\ dailyTrades' = [dailyTrades EXCEPT ![a] = Trades(a) + 1]
            /\ dailyVolume' = [dailyVolume EXCEPT ![a] = Volume(a) + size]
            /\ dailyLoss' = [dailyLoss EXCEPT ![a] = Loss(a)]
        BY <2>1 DEF LogDecision
      <4> DEFINE n == Trades(a) + 1  v == Volume(a) + size
      <4>2. n \in Nat /\ v \in Nat
        BY <3>1
      <4>3. dailyTrades \in [Agents -> Nat] /\ dailyVolume \in [Agents -> Nat] /\ dailyLoss \in [Agents -> Nat]
        BY DEF TypeOK
      <4>4. dailyTrades' = [dailyTrades EXCEPT ![a] = n] /\ dailyVolume' = [dailyVolume EXCEPT ![a] = v]
        BY <4>1
      <4> HIDE DEF n, v
      <4> QED
        BY <3>1, <4>1, <4>2, <4>3, <4>4
    <3>3. dailyBucket' \in [Agents -> Days] /\ lastDecisionId' \in [Agents -> Ids \cup {NoId}]
      BY <2>1 DEF LogDecision, TypeOK
    <3>4. decisions' \in Seq(TradeDecision) /\ Len(decisions) \in Nat
      BY <2>1, LogEffect
    <3>5. decisionIndex' \in [Ids -> Nat] /\ decisionLogged' \subseteq Ids
      BY <2>1, <3>4 DEF LogDecision, TypeOK
    <3>6. UNCHANGED <<today, agentRiskParams, killSwitchActive, executions, decisionExecuted, bookedLoss>>
      BY <2>1 DEF LogDecision, receipts
    <3>7. TypeOK'
      BY <3>2, <3>3, <3>4, <3>5, <3>6 DEF TypeOK
    <3>8. /\ id \notin decisionLogged /\ decisionLogged' = decisionLogged \cup {id}
          /\ decisionIndex' = [decisionIndex EXCEPT ![id] = Len(decisions) + 1]
      BY <2>1 DEF LogDecision
    <3>9. IndexInv'
      <4>1. decisionIndex'[id] = Len(decisions) + 1
            /\ \A j \in Ids : j # id => decisionIndex'[j] = decisionIndex[j]
        BY <3>8 DEF TypeOK
      <4>2. ASSUME NEW j \in decisionLogged'
            PROVE  decisionIndex'[j] \in DOMAIN decisions' /\ decisions'[decisionIndex'[j]].id = j
        <5>1. CASE j = id
          BY <2>1, <4>1, <5>1, LogEffect
        <5>2. CASE j # id
          <6>1. j \in decisionLogged /\ j \in Ids /\ decisionIndex'[j] = decisionIndex[j]
            BY <3>8, <4>1, <4>2, <5>2 DEF TypeOK
          <6>2. decisionIndex[j] \in DOMAIN decisions /\ decisions[decisionIndex[j]].id = j
            BY <6>1 DEF IndexInv
          <6> QED
            BY <2>1, <6>1, <6>2, LogEffect
        <5> QED
          BY <5>1, <5>2
      <4>3. ASSUME NEW i \in DOMAIN decisions'
            PROVE  decisions'[i].id \in decisionLogged' /\ decisionIndex'[decisions'[i].id] = i
        <5>1. CASE i = Len(decisions) + 1
          BY <2>1, <3>8, <4>1, <5>1, LogEffect
        <5>2. CASE i # Len(decisions) + 1
          <6>1. i \in DOMAIN decisions /\ decisions'[i] = decisions[i]
            BY <2>1, <4>3, <5>2, LogEffect
          <6>2. decisions[i].id \in decisionLogged /\ decisionIndex[decisions[i].id] = i
            BY <6>1 DEF IndexInv
          <6>3. decisions[i].id # id /\ decisions[i].id \in Ids
            BY <3>8, <6>2 DEF TypeOK
          <6> QED
            BY <3>8, <4>1, <6>1, <6>2, <6>3
        <5> QED
          BY <5>1, <5>2
      <4> QED
        BY <4>2, <4>3 DEF IndexInv
    <3> QED
      BY <3>7, <3>9
  <2>2. ASSUME NEW a \in Agents, NEW id \in Ids, NEW fill \in Fills, NEW success \in BOOLEAN,
               RecordExecution(a, id, fill, success)
        PROVE  TypeOK' /\ IndexInv'
    <3>1. /\ decisions' \in Seq(TradeDecision) /\ DOMAIN decisions' = DOMAIN decisions
          /\ \A j \in DOMAIN decisions : decisions'[j].id = decisions[j].id
      BY <2>2, RecordEffect
    <3>2. PICK loss \in Nat : /\ dailyLoss' = [dailyLoss EXCEPT ![a] = @ + loss]
                              /\ bookedLoss' = [bookedLoss EXCEPT ![a][dailyBucket[a]] = @ + loss]
      BY <2>2, RecordEffect
    <3>3. dailyLoss' \in [Agents -> Nat]
      BY <3>2 DEF TypeOK
    <3>4. bookedLoss' \in [Agents -> [Days -> Nat]]
      BY <3>2 DEF TypeOK
    <3>5. executions' \in Seq(ExecutionReceipt)
      <4> DEFINE r == [id |-> id, by |-> a, success |-> success]
      <4>1. r \in ExecutionReceipt
        BY DEF ExecutionReceipt
      <4>2. executions' = Append(executions, r) /\ executions \in Seq(ExecutionReceipt)
        BY <2>2 DEF RecordExecution, TypeOK
      <4> HIDE DEF r
      <4> QED
        BY <4>1, <4>2, AppendProperties
    <3>6. decisionExecuted' \subseteq Ids
      BY <2>2 DEF RecordExecution, TypeOK
    <3>7. UNCHANGED <<today, agentRiskParams, killSwitchActive, decisionLogged, decisionIndex,
                      lastDecisionId, dailyTrades, dailyVolume, dailyBucket>>
      BY <2>2 DEF RecordExecution
    <3>8. TypeOK'
      BY <3>1, <3>3, <3>4, <3>5, <3>6, <3>7 DEF TypeOK
    <3>9. IndexInv'
      BY <3>1, <3>7 DEF IndexInv
    <3> QED
      BY <3>8, <3>9
  <2>3. CASE /\ UNCHANGED <<decisions, executions, decisionLogged, decisionExecuted,
                            decisionIndex, lastDecisionId, daily, bookedLoss>>
             /\ \/ UNCHANGED <<today, killSwitchActive>>
                   /\ \/ UNCHANGED agentRiskParams
                      \/ \E a \in Agents, p \in ParamChoices : SetRiskParams(a, p)
                \/ UNCHANGED <<today, agentRiskParams>>
                   /\ \E a \in Agents, b \in BOOLEAN :
                        killSwitchActive' = [killSwitchActive EXCEPT ![a] = b]
                \/ UNCHANGED <<agentRiskParams, killSwitchActive>>
                   /\ today' = today + 1 /\ today < LastDay
    <3>1. agentRiskParams' \in [Agents -> RiskParams]
      BY <2>3, TrailAssumption DEF SetRiskParams, TypeOK
    <3>2. killSwitchActive' \in [Agents -> BOOLEAN]
      BY <2>3 DEF TypeOK
    <3>3. today' \in Days
      BY <2>3, TrailAssumption DEF TypeOK, Days
    <3> QED
      BY <2>3, <3>1, <3>2, <3>3 DEF TypeOK, IndexInv, daily
  <2> QED
    BY <2>1, <2>2, <2>3, TrailSteps
<1> QED
  BY <1>1, <1>2, PTL DEF Spec

(* No call drives a counter of the contract below zero, and every view of  *)
(* the log stays a log.                                                    *)
THEOREM TrailTypeCorrect == Spec => []TypeOK
BY IndexHolds, PTL

-----------------------------------------------------------------------------
LEMMA LoggedFinite ==
  ASSUME TypeOK, NEW a \in Agents, NEW d
  PROVE  IsFiniteSet(LoggedOn(a, d))
<1>1. IsFiniteSet(1..Len(decisions)) /\ DOMAIN decisions = 1..Len(decisions)
  BY FS_Interval, LenProperties DEF TypeOK
<1> QED
  BY <1>1, FS_Subset DEF LoggedOn

(* Logging adds one decision to one agent's day, and a receipt none.       *)
LEMMA LoggedGrows ==
  ASSUME TypeOK, NEW a \in Agents, NEW id \in Ids, NEW signer \in Agents, NEW size \in Sizes,
         NEW confidence \in Confidences, NEW entry \in Entries, NEW isShort \in BOOLEAN,
         LogDecision(a, id, signer, size, confidence, entry, isShort)
  PROVE  /\ Cardinality(LoggedOn(a, today)') = Cardinality(LoggedOn(a, today)) + 1
         /\ \A b \in Agents, d \in Days : b # a \/ d # today => LoggedOn(b, d)' = LoggedOn(b, d)
<1>0. /\ DOMAIN decisions' = DOMAIN decisions \cup {Len(decisions) + 1}
      /\ Len(decisions) + 1 \notin DOMAIN decisions
      /\ \A j \in DOMAIN decisions : decisions'[j] = decisions[j]
      /\ decisions'[Len(decisions) + 1].agent = a
      /\ decisions'[Len(decisions) + 1].day = today
  <2>1. DOMAIN decisions' = DOMAIN decisions \cup {Len(decisions) + 1}
    BY LogEffect
  <2>2. Len(decisions) + 1 \notin DOMAIN decisions
    BY LogEffect
  <2>3. \A j \in DOMAIN decisions : decisions'[j] = decisions[j]
    BY LogEffect
  <2>4. decisions'[Len(decisions) + 1].agent = a
    BY LogEffect
  <2>5. decisions'[Len(decisions) + 1].day = today
    BY LogEffect
  <2> QED
    BY <2>1, <2>2, <2>3, <2>4, <2>5
<1> DEFINE n == Len(decisions) + 1
<1>1. /\ DOMAIN decisions' = DOMAIN decisions \cup {n} /\ n \notin DOMAIN decisions
      /\ \A j \in DOMAIN decisions : decisions'[j] = decisions[j]
      /\ decisions'[n].agent = a /\ decisions'[n].day = today
  BY <1>0
<1>2. today' = today
  BY DEF LogDecision
<1> HIDE DEF n
<1>3. LoggedOn(a, today)' = LoggedOn(a, today) \cup {n} /\ n \notin LoggedOn(a, today)
  BY <1>1, <1>2 DEF LoggedOn
<1>4. Cardinality(LoggedOn(a, today) \cup {n}) = Cardinality(LoggedOn(a, today)) + 1
  BY <1>3, LoggedFinite, FS_AddElement
<1>5. \A b \in Agents, d \in Days : b # a \/ d # today => LoggedOn(b, d)' = LoggedOn(b, d)
  BY <1>1 DEF LoggedOn
<1> QED
  BY <1>3, <1>4, <1>5

LEMMA LoggedStays ==
  ASSUME TypeOK, IndexInv, NEW a \in Agents, NEW id \in Ids, NEW fill \in Fills,
         NEW success \in BOOLEAN, RecordExecution(a, id, fill, success)
  PROVE  \A b \in Agents, d \in Days : LoggedOn(b, d)' = LoggedOn(b, d)
<1>1. /\ DOMAIN decisions' = DOMAIN decisions
      /\ \A j \in DOMAIN decisions : /\ decisions'[j].agent = decisions[j].agent
                                    /\ decisions'[j].day = decisions[j].day
  BY RecordEffect
<1> QED
  BY <1>1 DEF LoggedOn

(* An agent's bucket is the day of its last decision.                      *)
BucketInv ==
  /\ \A a \in Agents : dailyBucket[a] <= today
  /\ \A i \in DOMAIN decisions : decisions[i].day <= dailyBucket[decisions[i].agent]

(* The first decision of a day moves the bucket to it; later ones find it  *)
(* there.                                                                  *)
LEMMA BucketMoves ==
  ASSUME TypeOK, BucketInv, NEW a \in Agents, NEW id \in Ids, NEW signer \in Agents,
         NEW size \in Sizes, NEW confidence \in Confidences, NEW entry \in Entries,
         NEW isShort \in BOOLEAN,
         LogDecision(a, id, signer, size, confidence, entry, isShort)
  PROVE  today' = today /\ dailyBucket' = [dailyBucket EXCEPT ![a] = today]
<1>1. today' = today /\ dailyBucket' = [dailyBucket EXCEPT ![a] = IF NewBucket(a) THEN today ELSE dailyBucket[a]]
  BY DEF LogDecision
<1>2. today \in Nat /\ dailyBucket[a] \in Nat /\ dailyBucket[a] <= today
  BY TrailAssumption DEF TypeOK, Days, BucketInv
<1>3. CASE NewBucket(a)
  BY <1>1, <1>3
<1>4. CASE ~NewBucket(a)
  <2>1. dailyBucket[a] = today
    BY <1>2, <1>4 DEF NewBucket
  <2> QED
    BY <1>1, <1>4, <2>1
<1> QED
  BY <1>3, <1>4

LEMMA BucketHolds == Spec => []BucketInv
<1>1. Init => BucketInv
  BY DEF Init, BucketInv
<1>2. TypeOK /\ IndexInv /\ BucketInv /\ [Next]_vars => BucketInv'
  <2> SUFFICES ASSUME TypeOK, IndexInv, BucketInv, [Next]_vars PROVE BucketInv'
    OBVIOUS
  <2>0. /\ today \in Nat /\ \A a \in Agents : dailyBucket[a] \in Nat
        /\ \A i \in DOMAIN decisions : decisions[i].day \in Nat /\ decisions[i].agent \in Agents
    <3>1. \A i \in DOMAIN decisions : decisions[i] \in TradeDecision
      BY ElementOfSeq, LenProperties DEF TypeOK
    <3>2. \A i \in DOMAIN decisions : decisions[i].day \in Days /\ decisions[i].agent \in Agents
      BY <3>1 DEF TradeDecision
    <3>3. Days \subseteq Nat
      BY TrailAssumption DEF Days
    <3>4. today \in Days /\ \A a \in Agents : dailyBucket[a] \in Days
      BY DEF TypeOK
    <3> QED
      BY <3>2, <3>3, <3>4
  <2>1. ASSUME NEW a \in Agents, NEW id \in Ids, NEW signer \in Agents, NEW size \in Sizes,
               NEW confidence \in Confidences, NEW entry \in Entries, NEW isShort \in BOOLEAN,
               LogDecision(a, id, signer, size, confidence, entry, isShort)
        PROVE  BucketInv'
    <3>1. today' = today /\ dailyBucket' = [dailyBucket EXCEPT ![a] = today]
      BY <2>1, BucketMoves
    <3>2. \A b \in Agents : dailyBucket'[b] <= today' /\ dailyBucket'[b] >= dailyBucket[b]
      <4>0. dailyBucket \in [Agents -> Days]
        BY DEF TypeOK
      <4>1. today \in Int /\ \A b \in Agents : dailyBucket[b] \in Int
        BY <2>0
      <4>2. \A b \in Agents : dailyBucket[b] <= today
        BY DEF BucketInv
      <4> HIDE DEF TypeOK, BucketInv
      <4> QED
        BY <3>1, <4>0, <4>1, <4>2
    <3>3. ASSUME NEW i \in DOMAIN decisions'
          PROVE  decisions'[i].day <= dailyBucket'[decisions'[i].agent]
      <4>1. CASE i = Len(decisions) + 1
        <5>1. decisions'[i].day = today /\ decisions'[i].agent = a
          BY <2>1, <4>1, LogEffect
        <5>2. dailyBucket'[a] = today
          BY <3>1 DEF TypeOK
        <5> QED
          BY <2>0, <5>1, <5>2
      <4>2. CASE i # Len(decisions) + 1
        <5>1. i \in DOMAIN decisions /\ decisions'[i] = decisions[i]
          BY <2>1, <3>3, <4>2, LogEffect
        <5>2. decisions[i].day <= dailyBucket[decisions[i].agent]
          BY <5>1 DEF BucketInv
        <5>3. dailyBucket'[decisions[i].agent] \in Nat
          BY <2>0, <3>1, <5>1 DEF TypeOK
        <5> QED
          BY <2>0, <3>2, <5>1, <5>2, <5>3
      <4> QED
        BY <4>1, <4>2
    <3> QED
      BY <3>2, <3>3 DEF BucketInv
  <2>2. ASSUME NEW a \in Agents, NEW id \in Ids, NEW fill \in Fills, NEW success \in BOOLEAN,
               RecordExecution(a, id, fill, success)
        PROVE  BucketInv'
    <3>1. UNCHANGED <<today, dailyBucket>>
      BY <2>2 DEF RecordExecution
    <3> QED
      BY <2>2, <3>1, RecordEffect DEF BucketInv
  <2>3. CASE UNCHANGED <<decisions, daily>> /\ (today' = today \/ today' = today + 1)
    BY <2>0, <2>3 DEF BucketInv, daily
  <2> QED
    BY <2>1, <2>2, <2>3, TrailSteps
<1> QED
  BY <1>1, <1>2, IndexHolds, PTL DEF Spec

(* The daily quota, counted over the log itself.                           *)
QuotaInv ==
  \A a \in Agents : /\ dailyTrades[a] = Cardinality(LoggedOn(a, dailyBucket[a]))
                    /\ \A d \in Days : Cardinality(LoggedOn(a, d)) <= MAX_TRADES

(* No agent logs more than MAX_TRADES decisions on any day: the reset of   *)
(* the counters comes exactly once, with the first decision of a new day.  *)
THEOREM QuotaHolds == Spec => []QuotaPerDay
<1>1. Init => QuotaInv
  <2> SUFFICES ASSUME Init, NEW a \in Agents
               PROVE  /\ dailyTrades[a] = Cardinality(LoggedOn(a, dailyBucket[a]))
                      /\ \A d \in Days : Cardinality(LoggedOn(a, d)) <= MAX_TRADES
    BY DEF QuotaInv
  <2>1. \A d : LoggedOn(a, d) = {}
    BY DEF Init, LoggedOn
  <2>2. Cardinality({}) = 0
    BY FS_EmptySet
  <2>3. dailyTrades[a] = 0 /\ 0 <= MAX_TRADES
    BY TrailAssumption DEF Init
  <2>4. \A d : Cardinality(LoggedOn(a, d)) = 0
    BY <2>1, <2>2
  <2> QED
    BY <2>3, <2>4
<1>2. TypeOK /\ IndexInv /\ BucketInv /\ QuotaInv /\ [Next]_vars => QuotaInv'
  <2> SUFFICES ASSUME TypeOK, IndexInv, BucketInv, QuotaInv, [Next]_vars PROVE QuotaInv'
    OBVIOUS
  <2>0. today \in Days /\ today \in Nat /\ \A a \in Agents : dailyBucket[a] \in Days /\ dailyBucket[a] \in Nat
    BY TrailAssumption DEF TypeOK, Days
  <2>1. ASSUME NEW a \in Agents, NEW id \in Ids, NEW signer \in Agents, NEW size \in Sizes,
               NEW confidence \in Confidences, NEW entry \in Entries, NEW isShort \in BOOLEAN,
               LogDecision(a, id, signer, size, confidence, entry, isShort)
        PROVE  QuotaInv'
    <3>1. today' = today /\ dailyBucket' = [dailyBucket EXCEPT ![a] = today]
      BY <2>1, BucketMoves
    <3>2. Trades(a) = Cardinality(LoggedOn(a, today))
      <4>1. CASE NewBucket(a)
        <5>1. \A i \in DOMAIN decisions : decisions[i].day \in Nat
          <6>1. \A i \in DOMAIN decisions : decisions[i] \in TradeDecision
            BY ElementOfSeq, LenProperties DEF TypeOK
          <6> QED
            BY <6>1, TrailAssumption DEF Days, TradeDecision
        <5>2. LoggedOn(a, today) = {}
          BY <2>0, <4>1, <5>1 DEF NewBucket, BucketInv, LoggedOn
        <5> QED
          BY <4>1, <5>2, FS_EmptySet DEF Trades
      <4>2. CASE ~NewBucket(a)
        <5>1. dailyBucket[a] = today
          BY <2>0, <4>2 DEF NewBucket, BucketInv
        <5> QED
          BY <4>2, <5>1 DEF Trades, QuotaInv
      <4> QED
        BY <4>1, <4>2
    <3>3. Trades(a) < MAX_TRADES /\ dailyTrades' = [dailyTrades EXCEPT ![a] = Trades(a) + 1]
      BY <2>1 DEF LogDecision
    <3>4. /\ Cardinality(LoggedOn(a, today)') = Trades(a) + 1
          /\ \A b \in Agents, d \in Days : b # a \/ d # today => LoggedOn(b, d)' = LoggedOn(b, d)
      BY <2>1, <3>2, LoggedGrows
    <3>5. Trades(a) \in Nat
      BY DEF Trades, TypeOK
    <3>6. \A d \in Days : Cardinality(LoggedOn(a, d)') <= MAX_TRADES
      <4> SUFFICES ASSUME NEW d \in Days PROVE Cardinality(LoggedOn(a, d)') <= MAX_TRADES
        OBVIOUS
      <4>1. CASE d = today
        <5>1. LoggedOn(a, d)' = LoggedOn(a, today)'
          BY <3>1, <4>1 DEF LoggedOn
        <5> QED
          BY <3>3, <3>4, <3>5, <5>1, TrailAssumption
      <4>2. CASE d # today
        BY <3>4, <4>2 DEF QuotaInv
      <4> QED
        BY <4>1, <4>2
    <3>7. dailyTrades'[a] = Cardinality(LoggedOn(a, dailyBucket[a])')
      <4>1. LoggedOn(a, dailyBucket[a])' = LoggedOn(a, today)'
        BY <3>1 DEF LoggedOn, TypeOK
      <4> QED
        BY <3>3, <3>4, <4>1 DEF TypeOK
    <3>8. ASSUME NEW b \in Agents, b # a
          PROVE  /\ dailyTrades'[b] = Cardinality(LoggedOn(b, dailyBucket[b])')
                 /\ \A d \in Days : Cardinality(LoggedOn(b, d)') <= MAX_TRADES
      <4>1. dailyTrades'[b] = dailyTrades[b] /\ dailyBucket'[b] = dailyBucket[b]
        BY <3>1, <3>3, <3>8 DEF TypeOK
      <4>2. LoggedOn(b, dailyBucket[b])' = LoggedOn(b, dailyBucket[b])
        <5>1. {i \in DOMAIN decisions' : decisions'[i].agent = b /\ decisions'[i].day = dailyBucket[b]}
                = LoggedOn(b, dailyBucket[b])
          BY <2>0, <3>4, <3>8 DEF LoggedOn
        <5> QED
          BY <4>1, <5>1 DEF LoggedOn
      <4> QED
        BY <3>4, <3>8, <4>1, <4>2 DEF QuotaInv
    <3> QED
      BY <3>6, <3>7, <3>8 DEF QuotaInv
  <2>2. ASSUME NEW a \in Agents, NEW id \in Ids, NEW fill \in Fills, NEW success \in BOOLEAN,
               RecordExecution(a, id, fill, success)
        PROVE  QuotaInv'
    <3>1. UNCHANGED <<dailyTrades, dailyBucket>>
      BY <2>2 DEF RecordExecution
    <3>2. \A b \in Agents, d \in Days : LoggedOn(b, d)' = LoggedOn(b, d)
      BY <2>2, LoggedStays
    <3>3. \A b \in Agents : LoggedOn(b, dailyBucket[b])' = LoggedOn(b, dailyBucket[b])
      BY <2>0, <3>1, <3>2 DEF LoggedOn
    <3> QED
      BY <3>1, <3>2, <3>3 DEF QuotaInv
  <2>3. CASE UNCHANGED <<decisions, daily>>
    BY <2>3 DEF QuotaInv, LoggedOn, daily
  <2> QED
    BY <2>1, <2>2, <2>3, TrailSteps
<1>3. TypeOK /\ QuotaInv => QuotaPerDay
  BY TrailAssumption DEF QuotaInv, QuotaPerDay, TypeOK, Days
<1> QED
  BY <1>1, <1>2, <1>3, IndexHolds, BucketHolds, PTL DEF Spec

-----------------------------------------------------------------------------
(* The loss counter is what was booked in the agent's bucket, and nothing  *)
(* was ever booked in a later one.                                         *)
LossInv ==
  \A a \in Agents : /\ dailyLoss[a] = bookedLoss[a][dailyBucket[a]]
                    /\ \A d \in Days : d > dailyBucket[a] => bookedLoss[a][d] = 0

(* The loss a decision is checked against is the one booked on its day.    *)
LEMMA LossOfToday ==
  ASSUME TypeOK, BucketInv, LossInv, NEW a \in Agents
  PROVE  Loss(a) = bookedLoss[a][today]
<1>1. today \in Days /\ dailyBucket[a] \in Days /\ dailyBucket[a] <= today
  BY DEF TypeOK, BucketInv
<1>2. today \in Nat /\ dailyBucket[a] \in Nat
  BY <1>1, TrailAssumption DEF Days
<1>3. CASE NewBucket(a)
  BY <1>1, <1>3 DEF Loss, NewBucket, LossInv
<1>4. CASE ~NewBucket(a)
  <2>1. dailyBucket[a] = today
    BY <1>1, <1>2, <1>4 DEF NewBucket
  <2> QED
    BY <1>4, <2>1 DEF Loss, LossInv
<1> QED
  BY <1>3, <1>4

LEMMA LossHolds == Spec => []LossInv
<1>1. Init => LossInv
  <2> SUFFICES ASSUME Init, NEW a \in Agents
               PROVE  /\ dailyLoss[a] = bookedLoss[a][dailyBucket[a]]
                      /\ \A d \in Days : d > dailyBucket[a] => bookedLoss[a][d] = 0
    BY DEF LossInv
  <2>1. \A d \in Days : bookedLoss[a][d] = 0
    BY DEF Init
  <2>2. dailyLoss[a] = 0 /\ dailyBucket[a] = 0 /\ 0 \in Days
    BY TrailAssumption DEF Init, Days
  <2> QED
    BY <2>1, <2>2
<1>2. TypeOK /\ IndexInv /\ BucketInv /\ LossInv /\ [Next]_vars => LossInv'
  <2> SUFFICES ASSUME TypeOK, IndexInv, BucketInv, LossInv, [Next]_vars PROVE LossInv'
    OBVIOUS
  <2>0. /\ today \in Days /\ today \in Nat
        /\ \A a \in Agents : dailyBucket[a] \in Days /\ dailyBucket[a] \in Nat
        /\ \A a \in Agents : dailyBucket[a] <= today
        /\ \A d \in Days : d \in Nat
    BY TrailAssumption DEF TypeOK, Days, BucketInv
  <2>1. ASSUME NEW a \in Agents, NEW id \in Ids, NEW signer \in Agents, NEW size \in Sizes,
               NEW confidence \in Confidences, NEW entry \in Entries, NEW isShort \in BOOLEAN,
               LogDecision(a, id, signer, size, confidence, entry, isShort)
        PROVE  LossInv'
    <3>1. dailyBucket' = [dailyBucket EXCEPT ![a] = today]
      BY <2>1, BucketMoves
    <3>2. dailyLoss' = [dailyLoss EXCEPT ![a] = Loss(a)] /\ bookedLoss' = bookedLoss
      BY <2>1 DEF LogDecision, receipts
    <3>3. Loss(a) = bookedLoss[a][today]
      BY LossOfToday
    <3>4. dailyLoss'[a] = bookedLoss'[a][dailyBucket'[a]]
      BY <3>1, <3>2, <3>3 DEF TypeOK
    <3>5. \A d \in Days : d > dailyBucket'[a] => bookedLoss'[a][d] = 0
      <4>1. dailyBucket'[a] = today
        BY <3>1 DEF TypeOK
      <4> QED
        BY <2>0, <3>2, <4>1 DEF LossInv
    <3>6. ASSUME NEW b \in Agents, b # a
          PROVE  /\ dailyLoss'[b] = bookedLoss'[b][dailyBucket'[b]]
                 /\ \A d \in Days : d > dailyBucket'[b] => bookedLoss'[b][d] = 0
      <4>1. dailyLoss'[b] = dailyLoss[b] /\ dailyBucket'[b] = dailyBucket[b]
        BY <3>1, <3>2, <3>6 DEF TypeOK
      <4> QED
        BY <3>2, <4>1 DEF LossInv
    <3> QED
      BY <3>4, <3>5, <3>6 DEF LossInv
  <2>2. ASSUME NEW a \in Agents, NEW id \in Ids, NEW fill \in Fills, NEW success \in BOOLEAN,
               RecordExecution(a, id, fill, success)
        PROVE  LossInv'
    <3>1. PICK loss \in Nat : /\ dailyLoss' = [dailyLoss EXCEPT ![a] = @ + loss]
                              /\ bookedLoss' = [bookedLoss EXCEPT ![a][dailyBucket[a]] = @ + loss]
      BY <2>2, RecordEffect
    <3>2. dailyBucket' = dailyBucket
      BY <2>2 DEF RecordExecution
    <3>3. dailyLoss'[a] = dailyLoss[a] + loss /\ \A b \in Agents : b # a => dailyLoss'[b] = dailyLoss[b]
      BY <3>1 DEF TypeOK
    <3>4. /\ bookedLoss'[a][dailyBucket[a]] = bookedLoss[a][dailyBucket[a]] + loss
          /\ \A d \in Days : d # dailyBucket[a] => bookedLoss'[a][d] = bookedLoss[a][d]
      BY <2>0, <3>1 DEF TypeOK
    <3>5. \A b \in Agents : b # a => bookedLoss'[b] = bookedLoss[b]
      BY <3>1 DEF TypeOK
    <3>6. /\ dailyLoss'[a] = bookedLoss'[a][dailyBucket'[a]]
          /\ \A d \in Days : d > dailyBucket'[a] => bookedLoss'[a][d] = 0
      BY <2>0, <3>2, <3>3, <3>4 DEF LossInv
    <3> QED
      BY <3>2, <3>3, <3>5, <3>6 DEF LossInv
  <2>3. CASE UNCHANGED <<daily, bookedLoss>>
    BY <2>3 DEF LossInv, daily
  <2> QED
    BY <2>1, <2>2, <2>3, TrailSteps
<1> QED
  BY <1>1, <1>2, IndexHolds, BucketHolds, PTL DEF Spec

(* Once the losses booked on a day reach the limit then in force, the      *)
(* agent's decisions of that day are final.                                *)
THEOREM LossCloses == Spec => NoDecisionPastLoss
<1>1. TypeOK /\ IndexInv /\ BucketInv /\ LossInv /\ [Next]_vars
        => [\A a \in Agents, d \in Days :
              bookedLoss[a][d] >= agentRiskParams[a].maxDailyLossUsd
                => LoggedOn(a, d)' = LoggedOn(a, d)]_vars
  <2> SUFFICES ASSUME TypeOK, IndexInv, BucketInv, LossInv, [Next]_vars,
                      NEW b \in Agents, NEW d \in Days,
                      bookedLoss[b][d] >= agentRiskParams[b].maxDailyLossUsd
               PROVE  LoggedOn(b, d)' = LoggedOn(b, d)
    OBVIOUS
  <2>1. ASSUME NEW a \in Agents, NEW id \in Ids, NEW signer \in Agents, NEW size \in Sizes,
               NEW confidence \in Confidences, NEW entry \in Entries, NEW isShort \in BOOLEAN,
               LogDecision(a, id, signer, size, confidence, entry, isShort)
        PROVE  LoggedOn(b, d)' = LoggedOn(b, d)
    <3>1. Loss(a) < agentRiskParams[a].maxDailyLossUsd
      BY <2>1 DEF LogDecision
    <3>2. Loss(a) = bookedLoss[a][today]
      BY LossOfToday
    <3>3. b # a \/ d # today
      <4>1. agentRiskParams[a] \in RiskParams /\ bookedLoss[a][today] \in Nat
        BY DEF TypeOK
      <4>2. agentRiskParams[a].maxDailyLossUsd \in Nat
        BY <4>1 DEF RiskParams
      <4>3. ~(bookedLoss[a][today] >= agentRiskParams[a].maxDailyLossUsd)
        BY <3>1, <3>2, <4>1, <4>2
      <4> QED
        BY <4>3
    <3> QED
      BY <2>1, <3>3, LoggedGrows
  <2>2. ASSUME NEW a \in Agents, NEW id \in Ids, NEW fill \in Fills, NEW success \in BOOLEAN,
               RecordExecution(a, id, fill, success)
        PROVE  LoggedOn(b, d)' = LoggedOn(b, d)
    BY <2>2, LoggedStays
  <2>3. CASE UNCHANGED decisions
    BY <2>3 DEF LoggedOn
  <2> QED
    BY <2>1, <2>2, <2>3, TrailSteps
<1>2. Spec => [][\A a \in Agents, d \in Days :
                   bookedLoss[a][d] >= agentRiskParams[a].maxDailyLossUsd
                     => LoggedOn(a, d)' = LoggedOn(a, d)]_vars
  BY <1>1, IndexHolds, BucketHolds, LossHolds, PTL DEF Spec
<1> QED
  BY <1>2 DEF NoDecisionPastLoss

-----------------------------------------------------------------------------
(* The receipts: one per executed decision, filed by its agent, and the    *)
(* executed flag of a decision is the mapping's.                           *)
ReceiptInv ==
  /\ decisionExecuted \subseteq decisionLogged
  /\ \A i \in DOMAIN decisions : decisions[i].executed <=> decisions[i].id \in decisionExecuted
  /\ \A id \in decisionExecuted : \E j \in DOMAIN executions : executions[j].id = id
  /\ \A j \in DOMAIN executions :
       /\ executions[j].id \in decisionExecuted
       /\ executions[j].by = decisions[decisionIndex[executions[j].id]].agent
  /\ \A j, k \in DOMAIN executions : executions[j].id = executions[k].id => j = k

(* The receipt itself: it comes after all the others.                      *)
LEMMA ReceiptEffect ==
  ASSUME TypeOK, NEW a \in Agents, NEW id \in Ids, NEW fill \in Fills,
         NEW success \in BOOLEAN, RecordExecution(a, id, fill, success)
  PROVE  /\ DOMAIN executions' = DOMAIN executions \cup {Len(executions) + 1}
         /\ Len(executions) + 1 \notin DOMAIN executions
         /\ executions'[Len(executions) + 1].id = id
         /\ executions'[Len(executions) + 1].by = a
         /\ \A j \in DOMAIN executions : executions'[j] = executions[j]
<1> DEFINE r == [id |-> id, by |-> a, success |-> success]
<1>1. r \in ExecutionReceipt /\ r.id = id /\ r.by = a
  BY DEF ExecutionReceipt
<1>2. executions' = Append(executions, r) /\ executions \in Seq(ExecutionReceipt)
  BY DEF RecordExecution, TypeOK
<1> HIDE DEF r
<1>3. /\ DOMAIN executions' = DOMAIN executions \cup {Len(executions) + 1}
      /\ Len(executions) + 1 \notin DOMAIN executions
      /\ executions'[Len(executions) + 1] = r
      /\ \A j \in DOMAIN executions : executions'[j] = executions[j]
  BY <1>1, <1>2, AppendEffect
<1> QED
  BY <1>1, <1>3

LEMMA ReceiptsHold == Spec => []ReceiptInv
<1>1. Init => ReceiptInv
  <2> SUFFICES ASSUME Init PROVE ReceiptInv
    OBVIOUS
  <2>1. DOMAIN decisions = {} /\ DOMAIN executions = {} /\ decisionExecuted = {}
    BY DEF Init
  <2> QED
    BY <2>1 DEF ReceiptInv
<1>2. TypeOK /\ IndexInv /\ ReceiptInv /\ [Next]_vars => ReceiptInv'
  <2> SUFFICES ASSUME TypeOK, IndexInv, ReceiptInv, [Next]_vars PROVE ReceiptInv'
    OBVIOUS
  <2>1. ASSUME NEW a \in Agents, NEW id \in Ids, NEW signer \in Agents, NEW size \in Sizes,
               NEW confidence \in Confidences, NEW entry \in Entries, NEW isShort \in BOOLEAN,
               LogDecision(a, id, signer, size, confidence, entry, isShort)
        PROVE  ReceiptInv'
    <3>1. /\ id \notin decisionLogged /\ decisionLogged' = decisionLogged \cup {id}
          /\ decisionIndex' = [decisionIndex EXCEPT ![id] = Len(decisions) + 1]
          /\ decisionExecuted' = decisionExecuted /\ executions' = executions
      BY <2>1 DEF LogDecision, receipts
    <3>2. id \notin decisionExecuted /\ decisionExecuted \subseteq decisionLogged
      BY <3>1 DEF ReceiptInv
    <3>3. ASSUME NEW i \in DOMAIN decisions'
          PROVE  decisions'[i].executed <=> decisions'[i].id \in decisionExecuted
      <4>1. CASE i = Len(decisions) + 1
        BY <2>1, <3>2, <4>1, LogEffect
      <4>2. CASE i # Len(decisions) + 1
        <5>1. i \in DOMAIN decisions /\ decisions'[i] = decisions[i]
          BY <2>1, <3>3, <4>2, LogEffect
        <5> QED
          BY <5>1 DEF ReceiptInv
      <4> QED
        BY <4>1, <4>2
    <3>4. ASSUME NEW j \in DOMAIN executions
          PROVE  executions[j].by = decisions'[decisionIndex'[executions[j].id]].agent
      <4> DEFINE e == executions[j].id
      <4>1. /\ e \in decisionExecuted /\ e \in decisionLogged /\ e \in Ids
            /\ executions[j].by = decisions[decisionIndex[e]].agent
        BY <3>2 DEF ReceiptInv, TypeOK
      <4>2. e # id
        BY <3>2, <4>1
      <4>3. decisionIndex'[e] = decisionIndex[e] /\ decisionIndex[e] \in DOMAIN decisions
        BY <3>1, <4>1, <4>2 DEF TypeOK, IndexInv
      <4>4. decisions'[decisionIndex[e]] = decisions[decisionIndex[e]]
        BY <2>1, <4>3, LogEffect
      <4> QED
        BY <4>1, <4>3, <4>4
    <3> QED
      BY <3>1, <3>2, <3>3, <3>4 DEF ReceiptInv
  <2>2. ASSUME NEW a \in Agents, NEW id \in Ids, NEW fill \in Fills, NEW success \in BOOLEAN,
               RecordExecution(a, id, fill, success)
        PROVE  ReceiptInv'
    <3>1. /\ id \in decisionLogged /\ id \notin decisionExecuted
          /\ decisionExecuted' = decisionExecuted \cup {id}
          /\ decisionLogged' = decisionLogged /\ decisionIndex' = decisionIndex
          /\ decisions[decisionIndex[id]].agent = a /\ decisions[decisionIndex[id]].id = id
      BY <2>2 DEF RecordExecution
    <3>2. /\ DOMAIN decisions' = DOMAIN decisions /\ decisionIndex[id] \in DOMAIN decisions
          /\ decisions'[decisionIndex[id]].executed
          /\ \A i \in DOMAIN decisions : /\ decisions'[i].id = decisions[i].id
                                        /\ decisions'[i].agent = decisions[i].agent
          /\ \A i \in DOMAIN decisions :
               i # decisionIndex[id] => decisions'[i].executed = decisions[i].executed
      BY <2>2, RecordEffect
    <3> DEFINE n == Len(executions) + 1
    <3>3. /\ DOMAIN executions' = DOMAIN executions \cup {n} /\ n \notin DOMAIN executions
          /\ executions'[n].id = id /\ executions'[n].by = a
          /\ \A j \in DOMAIN executions : executions'[j] = executions[j]
      BY <2>2, ReceiptEffect
    <3> HIDE DEF n
    <3>4. decisionExecuted' \subseteq decisionLogged'
      BY <3>1 DEF ReceiptInv
    <3>5. ASSUME NEW i \in DOMAIN decisions'
          PROVE  decisions'[i].executed <=> decisions'[i].id \in decisionExecuted'
      <4>1. CASE i = decisionIndex[id]
        BY <3>1, <3>2, <4>1
      <4>2. CASE i # decisionIndex[id]
        <5>1. i \in DOMAIN decisions /\ decisions[i].id # id
          BY <3>2, <3>5, <4>2 DEF IndexInv
        <5>2. decisions'[i].executed = decisions[i].executed /\ decisions'[i].id = decisions[i].id
          BY <3>2, <4>2, <5>1
        <5> QED
          BY <3>1, <5>1, <5>2 DEF ReceiptInv
      <4> QED
        BY <4>1, <4>2
    <3>6. ASSUME NEW e \in decisionExecuted'
          PROVE  \E j \in DOMAIN executions' : executions'[j].id = e
      <4>1. CASE e = id
        BY <3>3, <4>1
      <4>2. CASE e # id
        <5>1. PICK j \in DOMAIN executions : executions[j].id = e
          BY <3>1, <3>6, <4>2 DEF ReceiptInv
        <5> QED
          BY <3>3, <5>1
      <4> QED
        BY <4>1, <4>2
    <3>7. ASSUME NEW j \in DOMAIN executions'
          PROVE  /\ executions'[j].id \in decisionExecuted'
                 /\ executions'[j].by = decisions'[decisionIndex'[executions'[j].id]].agent
      <4>1. CASE j = n
        BY <3>1, <3>2, <3>3, <4>1
      <4>2. CASE j # n
        <5>1. j \in DOMAIN executions /\ executions'[j] = executions[j]
          BY <3>3, <3>7, <4>2
        <5>2. /\ executions[j].id \in decisionExecuted
              /\ executions[j].by = decisions[decisionIndex[executions[j].id]].agent
          BY <5>1 DEF ReceiptInv
        <5>3. decisionIndex[executions[j].id] \in DOMAIN decisions
          BY <5>2 DEF ReceiptInv, IndexInv
        <5> QED
          BY <3>1, <3>2, <5>1, <5>2, <5>3
      <4> QED
        BY <4>1, <4>2
    <3>8. ASSUME NEW j \in DOMAIN executions', NEW k \in DOMAIN executions',
                 executions'[j].id = executions'[k].id
          PROVE  j = k
      <4>1. \A i \in DOMAIN executions : executions'[i].id = executions[i].id /\ executions[i].id # id
        BY <3>1, <3>3 DEF ReceiptInv
      <4>2. \A i \in DOMAIN executions' : i = n \/ i \in DOMAIN executions
        BY <3>3
      <4> QED
        BY <3>3, <3>8, <4>1, <4>2 DEF ReceiptInv
    <3> QED
      BY <3>4, <3>5, <3>6, <3>7, <3>8 DEF ReceiptInv
  <2>3. CASE UNCHANGED <<decisions, executions, decisionLogged, decisionExecuted, decisionIndex>>
    BY <2>3 DEF ReceiptInv
  <2> QED
    BY <2>1, <2>2, <2>3, TrailSteps
<1> QED
  BY <1>1, <1>2, IndexHolds, PTL DEF Spec

(* The four views of the trail agree, whatever is logged and executed, in  *)
(* whatever order and by whomever.                                         *)
THEOREM TrailHolds == Spec => []TrailConsistent
<1>1. TypeOK /\ IndexInv /\ ReceiptInv => TrailConsistent
  <2> SUFFICES ASSUME TypeOK, IndexInv, ReceiptInv PROVE TrailConsistent
    OBVIOUS
  <2>1. \A id \in Ids : id \in decisionLogged <=> \E i \in DOMAIN decisions : decisions[i].id = id
    BY DEF IndexInv
  <2>2. ASSUME NEW i \in DOMAIN decisions
        PROVE  /\ decisionIndex[decisions[i].id] = i
               /\ decisions[i].executed <=> decisions[i].id \in decisionExecuted
               /\ decisions[i].executed <=> \E j \in DOMAIN executions : executions[j].id = decisions[i].id
    BY DEF IndexInv, ReceiptInv
  <2>3. ASSUME NEW j \in DOMAIN executions
        PROVE  /\ executions[j].id \in decisionLogged
               /\ executions[j].by = decisions[decisionIndex[executions[j].id]].agent
               /\ \A k \in DOMAIN executions : executions[k].id = executions[j].id => k = j
    BY DEF ReceiptInv
  <2> QED
    BY <2>1, <2>2, <2>3 DEF TrailConsistent
<1> QED
  BY <1>1, IndexHolds, ReceiptsHold, PTL

-----------------------------------------------------------------------------
(* The ledgers the contract keeps, as the refinement maps them.            *)
Logged == [a \in Agents |-> {decisions[i].id : i \in DecisionsOf(a)}]
ClosedBy == [a \in Agents |-> {executions[j].id : j \in ReceiptsOf(a)}]

(* A decision goes on its agent's ledger and no other.                     *)
LEMMA LogGrowsLedger ==
  ASSUME TypeOK, IndexInv, NEW a \in Agents, NEW id \in Ids, NEW signer \in Agents,
         NEW size \in Sizes, NEW confidence \in Confidences, NEW entry \in Entries,
         NEW isShort \in BOOLEAN,
         LogDecision(a, id, signer, size, confidence, entry, isShort)
  PROVE  Ledger!Log(a, id)
<1> DEFINE n == Len(decisions) + 1
<1>1. /\ DOMAIN decisions' = DOMAIN decisions \cup {n} /\ n \notin DOMAIN decisions
      /\ \A j \in DOMAIN decisions : decisions'[j] = decisions[j]
      /\ decisions'[n].id = id /\ decisions'[n].agent = a
  <2>1. DOMAIN decisions' = DOMAIN decisions \cup {n} /\ n \notin DOMAIN decisions
    BY LogEffect
  <2>2. \A j \in DOMAIN decisions : decisions'[j] = decisions[j]
    BY LogEffect
  <2>3. decisions'[n].id = id /\ decisions'[n].agent = a
    BY LogEffect
  <2> QED
    BY <2>1, <2>2, <2>3
<1> HIDE DEF n
<1>2. ~killSwitchActive[a] /\ id \notin decisionLogged /\ UNCHANGED <<killSwitchActive, executions>>
  BY DEF LogDecision, receipts
<1>3. \A b \in Agents : id \notin Logged[b]
  BY <1>2 DEF IndexInv, Logged, DecisionsOf
<1>4. DecisionsOf(a)' = DecisionsOf(a) \cup {n}
      /\ \A b \in Agents : b # a => DecisionsOf(b)' = DecisionsOf(b)
  BY <1>1 DEF DecisionsOf
<1>5. \A b \in Agents : DecisionsOf(b) \subseteq DOMAIN decisions
  BY DEF DecisionsOf
<1>6. {decisions'[i].id : i \in DecisionsOf(a) \cup {n}} = {decisions[i].id : i \in DecisionsOf(a)} \cup {id}
  BY <1>1, <1>5
<1>7. \A b \in Agents :
        b # a => {decisions'[i].id : i \in DecisionsOf(b)} = {decisions[i].id : i \in DecisionsOf(b)}
  BY <1>1, <1>5
<1>8. Logged' = [Logged EXCEPT ![a] = @ \cup {id}]
  BY <1>4, <1>6, <1>7 DEF Logged
<1>9. ClosedBy' = ClosedBy
  BY <1>2 DEF ClosedBy, ReceiptsOf
<1> QED
  BY <1>2, <1>3, <1>8, <1>9 DEF Ledger!Log, Logged, ClosedBy

(* A receipt closes a decision on the ledger of the agent that files it.   *)
LEMMA ReceiptGrowsLedger ==
  ASSUME TypeOK, IndexInv, ReceiptInv, NEW a \in Agents, NEW id \in Ids, NEW fill \in Fills,
         NEW success \in BOOLEAN, RecordExecution(a, id, fill, success)
  PROVE  Ledger!Close(a, id)
<1> DEFINE n == Len(executions) + 1
<1>1. /\ DOMAIN executions' = DOMAIN executions \cup {n} /\ n \notin DOMAIN executions
      /\ executions'[n].id = id /\ executions'[n].by = a
      /\ \A j \in DOMAIN executions : executions'[j] = executions[j]
  BY ReceiptEffect
<1> HIDE DEF n
<1>2. /\ id \in decisionLogged /\ id \notin decisionExecuted
      /\ decisions[decisionIndex[id]].agent = a /\ decisions[decisionIndex[id]].id = id
      /\ UNCHANGED killSwitchActive
  BY DEF RecordExecution
<1>3. id \in Logged[a]
  <2>1. decisionIndex[id] \in DecisionsOf(a)
    BY <1>2 DEF IndexInv, DecisionsOf
  <2> QED
    BY <1>2, <2>1 DEF Logged
<1>4. id \notin ClosedBy[a]
  BY <1>2 DEF ReceiptInv, ClosedBy, ReceiptsOf
<1>5. Logged' = Logged
  <2>1. /\ DOMAIN decisions' = DOMAIN decisions
        /\ \A j \in DOMAIN decisions : /\ decisions'[j].id = decisions[j].id
                                      /\ decisions'[j].agent = decisions[j].agent
    BY RecordEffect
  <2>2. \A b \in Agents : DecisionsOf(b)' = DecisionsOf(b) /\ DecisionsOf(b) \subseteq DOMAIN decisions
    BY <2>1 DEF DecisionsOf
  <2>3. \A b \in Agents :
          {decisions'[i].id : i \in DecisionsOf(b)} = {decisions[i].id : i \in DecisionsOf(b)}
    BY <2>1, <2>2
  <2> QED
    BY <2>2, <2>3 DEF Logged
<1>6. ReceiptsOf(a)' = ReceiptsOf(a) \cup {n}
      /\ \A b \in Agents : b # a => ReceiptsOf(b)' = ReceiptsOf(b)
  BY <1>1 DEF ReceiptsOf
<1>7. \A b \in Agents : ReceiptsOf(b) \subseteq DOMAIN executions
  BY DEF ReceiptsOf
<1>8. {executions'[j].id : j \in ReceiptsOf(a) \cup {n}} = {executions[j].id : j \in ReceiptsOf(a)} \cup {id}
  BY <1>1, <1>7
<1>9. \A b \in Agents :
        b # a => {executions'[j].id : j \in ReceiptsOf(b)} = {executions[j].id : j \in ReceiptsOf(b)}
  BY <1>1, <1>7
<1>10. ClosedBy' = [ClosedBy EXCEPT ![a] = @ \cup {id}]
  BY <1>6, <1>8, <1>9 DEF ClosedBy
<1> QED
  BY <1>2, <1>3, <1>4, <1>5, <1>10 DEF Ledger!Close, Logged, ClosedBy

(* The contract implements the ledger: for every agent, with any number of *)
(* others, nothing is logged under its halt or twice, and only its own     *)
(* decisions are closed by its receipts, once each.                        *)
THEOREM TrailIsLedger == Spec => LedgerKept
<1>1. Init => Ledger!Init
  <2> SUFFICES ASSUME Init PROVE Ledger!Init
    OBVIOUS
  <2>1. \A a \in Agents : DecisionsOf(a) = {} /\ ReceiptsOf(a) = {}
    BY DEF Init, DecisionsOf, ReceiptsOf
  <2>2. Logged = [a \in Agents |-> {}] /\ ClosedBy = [a \in Agents |-> {}]
    BY <2>1 DEF Logged, ClosedBy
  <2>3. killSwitchActive = [a \in Agents |-> FALSE]
    BY DEF Init
  <2> QED
    BY <2>2, <2>3 DEF Ledger!Init, Logged, ClosedBy
<1>2. TypeOK /\ IndexInv /\ ReceiptInv /\ [Next]_vars => [Ledger!Next]_(Ledger!ledgerVars)
  <2> SUFFICES ASSUME TypeOK, IndexInv, ReceiptInv, [Next]_vars
               PROVE  [Ledger!Next]_(Ledger!ledgerVars)
    OBVIOUS
  <2>1. ASSUME NEW a \in Agents, NEW id \in Ids, NEW signer \in Agents, NEW size \in Sizes,
               NEW confidence \in Confidences, NEW entry \in Entries, NEW isShort \in BOOLEAN,
               LogDecision(a, id, signer, size, confidence, entry, isShort)
        PROVE  Ledger!Next
    BY <2>1, LogGrowsLedger DEF Ledger!Next
  <2>2. ASSUME NEW a \in Agents, NEW id \in Ids, NEW fill \in Fills, NEW success \in BOOLEAN,
               RecordExecution(a, id, fill, success)
        PROVE  Ledger!Next
    BY <2>2, ReceiptGrowsLedger DEF Ledger!Next
  <2>3. ASSUME UNCHANGED <<decisions, executions>>
        PROVE  Logged' = Logged /\ ClosedBy' = ClosedBy
    BY <2>3 DEF Logged, ClosedBy, DecisionsOf, ReceiptsOf
  <2>4. CASE UNCHANGED <<decisions, executions, killSwitchActive>>
    BY <2>3, <2>4 DEF Ledger!ledgerVars, Logged, ClosedBy
  <2>5. ASSUME UNCHANGED <<decisions, executions>>, NEW a \in Agents, NEW b \in BOOLEAN,
               killSwitchActive' = [killSwitchActive EXCEPT ![a] = b]
        PROVE  Ledger!Next
    BY <2>3, <2>5 DEF Ledger!Next, Ledger!Switch, Logged, ClosedBy
  <2> QED
    BY <2>1, <2>2, <2>4, <2>5, TrailSteps
<1> QED
  BY <1>1, <1>2, IndexHolds, ReceiptsHold, PTL DEF Spec, LedgerKept, Ledger!Spec

-----------------------------------------------------------------------------
(* No call puts an agent's position limit back to zero, the value by which *)
(* setRiskParams tells that nothing was set yet.                           *)
LimitsStaySet ==
  [][\A a \in Agents : agentRiskParams[a].maxPositionSizeUsd > 0
                         => agentRiskParams'[a].maxPositionSizeUsd > 0]_vars

(* The present limit is set, and no larger than any a decision was checked *)
(* against.                                                                *)
CapInv ==
  \A i \in DOMAIN decisions :
    /\ decisions[i].cap \in Nat
    /\ agentRiskParams[decisions[i].agent].maxPositionSizeUsd > 0
    /\ agentRiskParams[decisions[i].agent].maxPositionSizeUsd <= decisions[i].cap

(* "Can only be tightened (never loosened) after initial set" holds for    *)
(* every agent that never sets its position limit to zero: that is the one *)
(* way around the comparison in setRiskParams.                             *)
THEOREM TightenedOnly == Spec /\ LimitsStaySet => []NeverLoosened
<1> DEFINE Kept == \A a \in Agents : agentRiskParams[a].maxPositionSizeUsd > 0
                                      => agentRiskParams'[a].maxPositionSizeUsd > 0
<1>1. Init => CapInv /\ NeverLoosened
  BY DEF Init, CapInv, NeverLoosened
<1>2. TypeOK /\ IndexInv /\ CapInv /\ NeverLoosened /\ [Next]_vars /\ [Kept]_vars
        => CapInv' /\ NeverLoosened'
  <2> SUFFICES ASSUME TypeOK, IndexInv, CapInv, NeverLoosened, [Next]_vars, [Kept]_vars
               PROVE  CapInv' /\ NeverLoosened'
    OBVIOUS
  <2> HIDE DEF Kept
  <2>1. ASSUME NEW a \in Agents, NEW id \in Ids, NEW signer \in Agents, NEW size \in Sizes,
               NEW confidence \in Confidences, NEW entry \in Entries, NEW isShort \in BOOLEAN,
               LogDecision(a, id, signer, size, confidence, entry, isShort)
        PROVE  CapInv' /\ NeverLoosened'
    <3> DEFINE n == Len(decisions) + 1
               cap == agentRiskParams[a].maxPositionSizeUsd
    <3>1. /\ DOMAIN decisions' = DOMAIN decisions \cup {n} /\ n \notin DOMAIN decisions
          /\ \A j \in DOMAIN decisions : decisions'[j] = decisions[j]
          /\ decisions'[n].agent = a /\ decisions'[n].cap = cap
      <4>1. DOMAIN decisions' = DOMAIN decisions \cup {n} /\ n \notin DOMAIN decisions
        BY <2>1, LogEffect
      <4>2. \A j \in DOMAIN decisions : decisions'[j] = decisions[j]
        BY <2>1, LogEffect
      <4>3. decisions'[n].agent = a /\ decisions'[n].cap = cap
        BY <2>1, LogEffect
      <4> QED
        BY <4>1, <4>2, <4>3
    <3>2. cap > 0 /\ agentRiskParams' = agentRiskParams
      BY <2>1 DEF LogDecision, WithinLimits
    <3>3. cap \in Nat
      <4>1. agentRiskParams[a] \in RiskParams
        BY DEF TypeOK
      <4> QED
        BY <4>1 DEF RiskParams
    <3>4. n \in Nat /\ \A j \in DOMAIN decisions : j \in Nat /\ j < n
      <4>1. decisions \in Seq(TradeDecision)
        BY DEF TypeOK
      <4>2. Len(decisions) \in Nat /\ DOMAIN decisions = 1..Len(decisions)
        BY <4>1, LenProperties
      <4> QED
        BY <4>2
    <3> HIDE DEF n
    <3>5. CapInv'
      BY <3>1, <3>2, <3>3 DEF CapInv
    <3>6. ASSUME NEW i \in DOMAIN decisions', NEW j \in DOMAIN decisions', i < j,
                 decisions'[i].agent = decisions'[j].agent
          PROVE  decisions'[j].cap <= decisions'[i].cap
      <4>1. CASE i # n /\ j # n
        BY <3>1, <3>6, <4>1 DEF NeverLoosened
      <4>2. CASE i # n /\ j = n
        BY <3>1, <3>6, <4>2 DEF CapInv
      <4>3. CASE i = n
        <5>1. n < j /\ j \in DOMAIN decisions \cup {n}
          BY <3>1, <3>6, <4>3
        <5> QED
          BY <3>4, <5>1
      <4> QED
        BY <4>1, <4>2, <4>3
    <3> QED
      BY <3>5, <3>6 DEF NeverLoosened
  <2>2. ASSUME NEW a \in Agents, NEW id \in Ids, NEW fill \in Fills, NEW success \in BOOLEAN,
               RecordExecution(a, id, fill, success)
        PROVE  CapInv' /\ NeverLoosened'
    <3>1. /\ DOMAIN decisions' = DOMAIN decisions
          /\ \A j \in DOMAIN decisions : /\ decisions'[j].agent = decisions[j].agent
                                        /\ decisions'[j].cap = decisions[j].cap
      BY <2>2, RecordEffect
    <3>2. agentRiskParams' = agentRiskParams
      BY <2>2 DEF RecordExecution
    <3> QED
      BY <3>1, <3>2 DEF CapInv, NeverLoosened
  <2>3. CASE UNCHANGED <<decisions, agentRiskParams>>
    BY <2>3 DEF CapInv, NeverLoosened
  <2>4. ASSUME UNCHANGED decisions, NEW a \in Agents, NEW p \in ParamChoices, SetRiskParams(a, p)
        PROVE  CapInv' /\ NeverLoosened'
    <3>1. agentRiskParams' = [agentRiskParams EXCEPT ![a] = p]
      BY <2>4 DEF SetRiskParams
    <3>2. /\ agentRiskParams[a] \in RiskParams /\ p \in RiskParams
          /\ agentRiskParams \in [Agents -> RiskParams]
      BY TrailAssumption DEF TypeOK
    <3>3. /\ agentRiskParams[a].maxPositionSizeUsd \in Nat /\ p.maxPositionSizeUsd \in Nat
          /\ agentRiskParams[a].maxPositionSizeUsd > 0
               => p.maxPositionSizeUsd <= agentRiskParams[a].maxPositionSizeUsd
      BY <2>4, <3>2 DEF SetRiskParams, RiskParams
    <3>4. CASE agentRiskParams' = agentRiskParams
      BY <2>3, <2>4, <3>4
    <3>5. CASE agentRiskParams' # agentRiskParams
      <4>1. Kept
        BY <3>5 DEF vars
      <4>2. agentRiskParams[a].maxPositionSizeUsd > 0 => p.maxPositionSizeUsd > 0
        BY <3>1, <3>2, <4>1 DEF Kept
      <4>3. \A i \in DOMAIN decisions : decisions[i].agent \in Agents
        <5>1. decisions \in Seq(TradeDecision)
          BY DEF TypeOK
        <5>2. \A i \in DOMAIN decisions : decisions[i] \in TradeDecision
          BY <5>1, ElementOfSeq
        <5> QED
          BY <5>2 DEF TradeDecision
      <4>4. ASSUME NEW i \in DOMAIN decisions
            PROVE  /\ agentRiskParams'[decisions[i].agent].maxPositionSizeUsd > 0
                   /\ agentRiskParams'[decisions[i].agent].maxPositionSizeUsd <= decisions[i].cap
        <5>1. CASE decisions[i].agent = a
          BY <3>1, <3>2, <3>3, <4>2, <5>1 DEF CapInv
        <5>2. CASE decisions[i].agent # a
          BY <3>1, <3>2, <4>3, <5>2 DEF CapInv
        <5> QED
          BY <5>1, <5>2
      <4> QED
        BY <2>4, <4>4 DEF CapInv, NeverLoosened
    <3> QED
      BY <3>4, <3>5
  <2> QED
    BY <2>1, <2>2, <2>3, <2>4, TrailSteps
<1> QED
  BY <1>1, <1>2, IndexHolds, PTL DEF Spec, LimitsStaySet

=============================================================================
